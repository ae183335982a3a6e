-------------------------- MODULE WakeArbiterProofs --------------------------
(***************************************************************************)
(* The arbiter's safety for any microphones, scores, window and timeout.   *)
(***************************************************************************)
EXTENDS WakeArbiter, TLAPS

\* What the threads inside wait_for rely on: an undecided claim's deadline is
\* the end of the window it is in, so a deadline that passed finds the window due.
ThreadInv ==
    \A c \in ClaimIds :
        /\ pc[c] = "unmade" <=> verdict[c] = "none"
        /\ verdict[c] = "open" => pc[c] \in {"asked", "waiting", "overdue"}
        /\ pc[c] \in {"waiting", "overdue"} /\ verdict[c] = "open"
             => deadline[c] = windowEndsAt
        /\ pc[c] = "overdue" => now >= deadline[c]

IInv == TypeOK /\ HoldClosesWindow /\ ThreadInv /\ ToldTheVerdict

-----------------------------------------------------------------------------
(* The initial state satisfies the inductive invariant.                    *)
LEMMA InitInv == Init => IInv
  BY ArbiterAssumption
     DEF Init, IInv, TypeOK, HoldClosesWindow, ThreadInv, ToldTheVerdict, PCs, NoWindow

(* Claims keep it: a claim is refused, or it joins the open window after   *)
(* any lapsed hold is dropped.                                             *)
LEMMA ClaimInv ==
    ASSUME IInv, NEW c \in ClaimIds, NEW s \in Sources, NEW x \in Scores, Claim(c, s, x)
    PROVE  IInv'
<1> USE ArbiterAssumption DEF IInv, TypeOK, PCs, NoWindow, Claim, NextClaim
<1>1. TypeOK'
  BY DEF arbiter, HeldAfterClaim, WindowEnd
<1>2. HoldClosesWindow'
  BY DEF arbiter, HeldAfterClaim, WindowEnd, HoldClosesWindow, ThreadInv, MidTurn
<1>3. ThreadInv'
  BY DEF arbiter, WindowEnd, ThreadInv, HoldClosesWindow
<1>4. ToldTheVerdict'
  BY DEF ToldTheVerdict
<1> QED BY <1>1, <1>2, <1>3, <1>4

(* Reading the deadline keeps it: an open claim means an open window.      *)
LEMMA ReadDeadlineInv ==
    ASSUME IInv, NEW c \in ClaimIds, ReadDeadline(c)
    PROVE  IInv'
  BY ArbiterAssumption
     DEF IInv, TypeOK, PCs, NoWindow, ReadDeadline, DeadlineFor, HoldClosesWindow,
         ThreadInv, ToldTheVerdict, arbiter, claims

(* Leaving the loop keeps it.                                              *)
LEMMA LeaveLoopInv ==
    ASSUME IInv, NEW c \in ClaimIds, LeaveLoop(c)
    PROVE  IInv'
  BY DEF IInv, TypeOK, PCs, NoWindow, LeaveLoop, HoldClosesWindow, ThreadInv,
         ToldTheVerdict, arbiter, claims

(* Resolving at the deadline keeps it: the window of an undecided claim is *)
(* due, so the claim leaves with a verdict.                                *)
LEMMA ResolveInv ==
    ASSUME IInv, NEW c \in ClaimIds, ResolveAtDeadline(c)
    PROVE  IInv'
<1> USE ArbiterAssumption DEF IInv, TypeOK, PCs, NoWindow, ResolveAtDeadline
<1>1. CASE Due /\ DecideLocked
  <2>1. PICK w \in pending : /\ verdict' = Judged(w)
                             /\ heldBy' = source[w]
                             /\ heldAt' = now
                             /\ pending' = {}
                             /\ windowEndsAt' = NoWindow
    BY <1>1 DEF DecideLocked
  <2>2. \A d \in ClaimIds : verdict'[d] = IF d = w THEN "won"
                                          ELSE IF d \in pending THEN "lost" ELSE verdict[d]
    BY <2>1 DEF Judged
  <2>3. verdict' \in [ClaimIds -> {"none", "open", "won", "lost"}]
    BY <2>1 DEF Judged
  <2>4. TypeOK'
    BY <2>1, <2>3
  <2>5. HoldClosesWindow'
    BY <2>1, <2>2 DEF HoldClosesWindow
  <2>6. ThreadInv'
    BY <2>1, <2>2 DEF ThreadInv, HoldClosesWindow
  <2>7. ToldTheVerdict'
    BY <2>1, <2>2 DEF ToldTheVerdict, HoldClosesWindow
  <2> QED BY <2>4, <2>5, <2>6, <2>7
<1>2. CASE ~Due /\ UNCHANGED <<arbiter, verdict>>
  <2>1. verdict[c] # "open"
    BY <1>2 DEF Due, ThreadInv, HoldClosesWindow
  <2> QED BY <1>2, <2>1 DEF arbiter, HoldClosesWindow, ThreadInv, ToldTheVerdict
<1> QED BY <1>1, <1>2 DEF ResolveDue

(* Returning the verdict keeps it.                                         *)
LEMMA ReturnInv ==
    ASSUME IInv, NEW c \in ClaimIds, Return(c)
    PROVE  IInv'
  BY DEF IInv, TypeOK, PCs, NoWindow, Return, HoldClosesWindow, ThreadInv,
         ToldTheVerdict, arbiter, claims

(* A release keeps it.                                                     *)
LEMMA ReleaseInv ==
    ASSUME IInv, NEW c \in ClaimIds, Release(c)
    PROVE  IInv'
  BY DEF IInv, TypeOK, PCs, NoWindow, Release, AfterRelease, HoldClosesWindow, ThreadInv,
         ToldTheVerdict, claims

(* A reset keeps it: every claim of the window it closes loses.            *)
LEMMA ResetInv ==
    ASSUME IInv, Reset
    PROVE  IInv'
<1> USE DEF IInv, TypeOK, PCs, NoWindow, Reset, waiters
<1>1. \A d \in ClaimIds : verdict'[d] = IF d \in pending THEN "lost" ELSE verdict[d]
  BY DEF ResetVerdicts
<1>2. TypeOK'
  BY DEF ResetVerdicts
<1>3. HoldClosesWindow'
  BY <1>1 DEF HoldClosesWindow
<1>4. ThreadInv'
  BY <1>1 DEF ThreadInv, HoldClosesWindow
<1>5. ToldTheVerdict'
  BY <1>1 DEF ToldTheVerdict, HoldClosesWindow
<1> QED BY <1>2, <1>3, <1>4, <1>5

(* Reading held_by and the passing of time keep it.                        *)
LEMMA ClockInv ==
    ASSUME IInv, ReadHeldBy \/ Tick \/ UNCHANGED vars
    PROVE  IInv'
  BY DEF IInv, TypeOK, PCs, NoWindow, ReadHeldBy, Tick, HoldClosesWindow, ThreadInv,
         ToldTheVerdict, vars, arbiter, claims, waiters

(* Every reachable state satisfies the inductive invariant.                *)
THEOREM Invariance == Spec => []IInv
<1>1. IInv /\ [Next]_vars => IInv'
  BY ClaimInv, ReadDeadlineInv, LeaveLoopInv, ResolveInv, ReturnInv, ReleaseInv, ResetInv,
     ClockInv DEF Next
<1> QED BY <1>1, InitInv, PTL DEF Spec

(* Type correctness of the arbiter and of the threads waiting on it.       *)
THEOREM TypeCorrect == Spec => []TypeOK
  BY Invariance, PTL DEF IInv

(* A hold and an open window exclude each other, and no undecided claim is *)
(* outside the window (voice/arbiter.py: claim, _decide_locked, reset).    *)
THEOREM HoldExcludesWindow == Spec => []HoldClosesWindow
  BY Invariance, PTL DEF IInv

(* No detector returns from wait_for without the verdict of its own claim. *)
THEOREM NoGhostWinner == Spec => []ToldTheVerdict
  BY Invariance, PTL DEF IInv

-----------------------------------------------------------------------------
(* Refinement: every step of the arbiter is a step of WakePath or a stutter.*)

(* A claim refused during a turn is Refuse, any other claim is Admit.      *)
LEMMA ClaimRefines ==
    ASSUME IInv, NEW c \in ClaimIds, NEW s \in Sources, NEW x \in Scores, Claim(c, s, x)
    PROVE  Path!Refuse(c, s) \/ Path!Admit(c, s)
<1>1. verdict[c] = "none"
  BY DEF IInv, ThreadInv, Claim, NextClaim
<1>2. CASE MidTurn /\ verdict' = [verdict EXCEPT ![c] = "lost"] /\ UNCHANGED arbiter
  BY <1>1, <1>2 DEF Claim, MidTurn, arbiter, Path!Refuse
<1>3. CASE verdict' = [verdict EXCEPT ![c] = "open"] /\ heldBy' = HeldAfterClaim
  BY <1>1, <1>3 DEF Claim, HeldAfterClaim, Path!Admit, Path!Free
<1> QED BY <1>2, <1>3 DEF Claim

(* The judged window is WakePath's set of open bids.                       *)
LEMMA DecideRefines ==
    ASSUME IInv, Due, DecideLocked, UNCHANGED source
    PROVE  \E w \in ClaimIds : Path!Judge(w)
<1>1. PICK w \in pending : verdict' = Judged(w) /\ heldBy' = source[w]
  BY DEF DecideLocked
<1>2. w \in ClaimIds /\ verdict[w] = "open" /\ heldBy = NoSource
  BY <1>1 DEF IInv, TypeOK, HoldClosesWindow
<1>3. verdict' = [b \in ClaimIds |-> IF b = w THEN "won"
                                     ELSE IF verdict[b] = "open" THEN "lost"
                                     ELSE verdict[b]]
  BY <1>1 DEF Judged, IInv, HoldClosesWindow
<1> QED BY <1>1, <1>2, <1>3 DEF Path!Judge

(* A reset drops every open bid.                                           *)
LEMMA ResetRefines ==
    ASSUME IInv, Reset
    PROVE  Path!Drop
<1>1. verdict' = [b \in ClaimIds |-> IF verdict[b] = "open" THEN "lost" ELSE verdict[b]]
  BY DEF Reset, ResetVerdicts, IInv, HoldClosesWindow
<1> QED BY <1>1 DEF Reset, Path!Drop, Path!Free

(* A step of the arbiter is a step of the abstract wake path.              *)
LEMMA StepRefines ==
    ASSUME IInv, [Next]_vars
    PROVE  [Path!Next]_(Path!vars)
<1> USE DEF Path!vars, Path!Next
<1>1. ASSUME NEW c \in ClaimIds, NEW s \in Sources, NEW x \in Scores, Claim(c, s, x)
      PROVE  Path!Next
  BY <1>1, ClaimRefines
<1>2. ASSUME NEW c \in ClaimIds, ReadDeadline(c) \/ LeaveLoop(c) \/ Return(c)
      PROVE  UNCHANGED Path!vars
  BY <1>2 DEF ReadDeadline, LeaveLoop, Return, arbiter, claims
<1>3. ASSUME NEW c \in ClaimIds, ResolveAtDeadline(c)
      PROVE  Path!Next \/ UNCHANGED Path!vars
  BY <1>3, DecideRefines DEF ResolveAtDeadline, ResolveDue, arbiter
<1>4. ASSUME NEW c \in ClaimIds, Release(c)
      PROVE  Path!Next \/ UNCHANGED Path!vars
  BY <1>4 DEF Release, AfterRelease, claims, Path!Yield, Path!Free
<1>5. ASSUME Reset PROVE Path!Next
  BY <1>5, ResetRefines
<1>6. ASSUME ReadHeldBy PROVE Path!Next
  BY <1>6 DEF ReadHeldBy, claims, Path!Yield, Path!Free
<1>7. ASSUME Tick \/ UNCHANGED vars PROVE UNCHANGED Path!vars
  BY <1>7 DEF Tick, vars, arbiter, claims
<1> QED BY <1>1, <1>2, <1>3, <1>4, <1>5, <1>6, <1>7 DEF Next

(* The arbiter implements WakePath: one verdict per claim, at most one      *)
(* winner at a time, and no winner while somebody holds the path.          *)
THEOREM Refinement == Spec => ImplementsWakePath
<1>1. Init => Path!Init
  BY DEF Init, Path!Init
<1>2. IInv /\ [Next]_vars => [Path!Next]_(Path!vars)
  BY StepRefines
<1> QED BY <1>1, <1>2, Invariance, PTL DEF Spec, ImplementsWakePath, Path!Spec

(* No step hands the path from one turn to the next without freeing it.    *)
THEOREM NoHandover == Spec => NeverHandedOver
<1>1. ASSUME IInv, [Next]_vars, heldBy # NoSource, heldBy' # NoSource
      PROVE  heldBy' = heldBy /\ heldAt' = heldAt
  <2> USE <1>1
  <2>1. ASSUME DecideLocked PROVE FALSE
    BY <2>1 DEF DecideLocked, IInv, HoldClosesWindow
  <2> QED BY <2>1 DEF Next, Claim, HeldAfterClaim, ReadDeadline, LeaveLoop, ResolveAtDeadline,
            ResolveDue, Return, Release, AfterRelease, Reset, ReadHeldBy, Tick, vars, arbiter
<1> QED BY <1>1, Invariance, PTL DEF Spec, NeverHandedOver

(* Only the detector that holds the path gives a young hold back, or a      *)
(* reset: neither the claim nor the release of another one ends it          *)
(* (voice/arbiter.py: claim, release, held_by).                             *)
THEOREM OnlyTheHolderGivesBack == Spec => YoungHoldIsKept
<1>1. ASSUME IInv, [Next]_vars, heldBy # NoSource, ~HoldExpired, heldBy' # heldBy
      PROVE  \/ \E c \in ClaimIds : /\ pc[c] = "told" /\ pc'[c] = "released"
                                    /\ source[c] = heldBy
             \/ pc' = pc
  <2> USE <1>1
  <2>1. ASSUME NEW c \in ClaimIds, NEW s \in Sources, NEW x \in Scores, Claim(c, s, x) PROVE FALSE
    BY <2>1 DEF Claim, MidTurn, arbiter
  <2>2. ASSUME NEW c \in ClaimIds, ResolveAtDeadline(c) PROVE FALSE
    <3>1. ~DecideLocked
      BY DEF DecideLocked, IInv, HoldClosesWindow
    <3> QED BY <2>2, <3>1 DEF ResolveAtDeadline, ResolveDue, arbiter
  <2>3. ASSUME NEW c \in ClaimIds, Release(c)
        PROVE  pc[c] = "told" /\ pc'[c] = "released" /\ source[c] = heldBy
    <3>1. DOMAIN pc = ClaimIds
      BY DEF IInv, TypeOK
    <3> QED BY <2>3, <3>1 DEF Release, AfterRelease
  <2>4. CASE Reset
    BY <2>4 DEF Reset, waiters
  <2>5. ASSUME \/ \E c \in ClaimIds : ReadDeadline(c) \/ LeaveLoop(c) \/ Return(c)
               \/ ReadHeldBy \/ Tick \/ UNCHANGED vars
        PROVE  FALSE
    BY <2>5 DEF ReadDeadline, LeaveLoop, Return, ReadHeldBy, Tick, vars, arbiter
  <2> QED BY <2>1, <2>2, <2>3, <2>4, <2>5 DEF Next
<1> QED BY <1>1, Invariance, PTL DEF Spec, YoungHoldIsKept
=============================================================================
