----------------------------- MODULE WakeArbiter -----------------------------
(***************************************************************************)
(* src/dax/voice/arbiter.py: the referee that decides which microphone     *)
(* answers when several detectors hear one wake word.  The host's capture  *)
(* thread and one worker thread per capability node call it at once; every *)
(* method body that runs under the lock is one action here, and wait_for,  *)
(* which reads and decides in several steps, is several.                   *)
(***************************************************************************)
EXTENDS Integers

CONSTANTS Sources,      \* microphone ids, ordered as min() orders the strings
          NoSource,     \* the value of _held_by when nobody holds the path
          Scores,       \* detector confidences
          MaxClaims,    \* bound: claims made in one behaviour
          Window,       \* _window_s, in clock ticks
          HoldTimeout,  \* _hold_timeout_s, in clock ticks
          MaxTime       \* bound: the clock stops here

ASSUME ArbiterAssumption ==
    /\ Sources \subseteq Nat
    /\ NoSource \in Int \ Sources
    /\ Scores \subseteq Nat
    /\ MaxClaims \in Nat
    /\ Window \in Nat
    /\ HoldTimeout \in Nat \ {0}
    /\ MaxTime \in Nat

VARIABLES now,           \* the monotonic clock
          pending,       \* _pending: the claims in the open window
          windowEndsAt,  \* _window_ends_at
          heldBy,        \* _held_by
          heldAt,        \* _held_at
          source,        \* claim -> source_id
          score,         \* claim -> score
          verdict,       \* claim -> _decided and _won in one value
          pc,            \* claim -> where its thread is in wait_for
          deadline,      \* claim -> the deadline its thread read
          answer         \* claim -> what wait_for returned

arbiter == <<pending, windowEndsAt, heldBy, heldAt>>
claims  == <<source, score, verdict>>
waiters == <<pc, deadline, answer>>
vars    == <<now, arbiter, claims, waiters>>

ClaimIds == 1..MaxClaims
NoWindow == -1

\* "unmade" -> "asked" (claim returned) -> "waiting" (deadline read) ->
\* "overdue" (about to resolve at the deadline) -> "checking" (left the loop)
\* -> "told" -> "released" (the turn it won is over).
PCs == {"unmade", "asked", "waiting", "overdue", "checking", "told", "released"}

TypeOK == /\ now \in Nat
          /\ pending \in SUBSET ClaimIds
          /\ windowEndsAt \in Nat \cup {NoWindow}
          /\ heldBy \in Sources \cup {NoSource}
          /\ heldAt \in Nat
          /\ source \in [ClaimIds -> Sources \cup {NoSource}]
          /\ score \in [ClaimIds -> Nat]
          /\ verdict \in [ClaimIds -> {"none", "open", "won", "lost"}]
          /\ pc \in [ClaimIds -> PCs]
          /\ deadline \in [ClaimIds -> Nat]
          /\ answer \in [ClaimIds -> BOOLEAN]

Init == /\ now = 0
        /\ pending = {}
        /\ windowEndsAt = NoWindow
        /\ heldBy = NoSource
        /\ heldAt = 0
        /\ source = [c \in ClaimIds |-> NoSource]
        /\ score = [c \in ClaimIds |-> 0]
        /\ verdict = [c \in ClaimIds |-> "none"]
        /\ pc = [c \in ClaimIds |-> "unmade"]
        /\ deadline = [c \in ClaimIds |-> 0]
        /\ answer = [c \in ClaimIds |-> FALSE]

-----------------------------------------------------------------------------
(* The transitions taken under the lock.                                   *)

HoldExpired == now - heldAt >= HoldTimeout

\* A turn is in flight: the claim is refused on the spot.
MidTurn == heldBy # NoSource /\ ~HoldExpired

\* Claims arrive in the order of their ids.
NextClaim(c) == /\ pc[c] = "unmade"
                /\ \A d \in ClaimIds : pc[d] = "unmade" => c <= d

WindowEnd == IF windowEndsAt = NoWindow THEN now + Window ELSE windowEndsAt

\* A slip: the lapsed hold stays.
HoldLeftBehind == heldBy
\* A hold that outlived its turn is forgotten before the window opens.
HeldAfterClaim == NoSource

Claim(c, s, x) ==
    /\ NextClaim(c)
    /\ now + Window <= MaxTime
    /\ source' = [source EXCEPT ![c] = s]
    /\ score' = [score EXCEPT ![c] = x]
    /\ pc' = [pc EXCEPT ![c] = "asked"]
    /\ \/ /\ MidTurn
          /\ verdict' = [verdict EXCEPT ![c] = "lost"]
          /\ UNCHANGED arbiter
       \/ /\ ~MidTurn
          /\ verdict' = [verdict EXCEPT ![c] = "open"]
          /\ heldBy' = HeldAfterClaim
          /\ windowEndsAt' = WindowEnd
          /\ pending' = pending \cup {c}
          /\ UNCHANGED heldAt
    /\ UNCHANGED <<now, deadline, answer>>

\* min() over (-score, source_id), the first of equals.
Beats(c, d) == \/ score[c] > score[d]
               \/ /\ score[c] = score[d]
                  /\ \/ source[c] < source[d]
                     \/ source[c] = source[d] /\ c < d

Loudest(c) == \A d \in pending \ {c} : Beats(c, d)

\* A slip: a verdict that lands on the loudest only, the others left waiting.
JudgedWinnerOnly(w) == [verdict EXCEPT ![w] = "won"]
Judged(w) == [c \in ClaimIds |-> IF c = w THEN "won"
                                 ELSE IF c \in pending THEN "lost" ELSE verdict[c]]

DecideLocked == \E w \in pending :
    /\ Loudest(w)
    /\ verdict' = Judged(w)
    /\ heldBy' = source[w]
    /\ heldAt' = now
    /\ pending' = {}
    /\ windowEndsAt' = NoWindow

Due == windowEndsAt # NoWindow /\ now >= windowEndsAt

ResolveDue == \/ Due /\ DecideLocked
              \/ ~Due /\ UNCHANGED <<arbiter, verdict>>

-----------------------------------------------------------------------------
(* wait_for, one thread per claim.                                         *)

\* Slips: the deadline of a claim already judged; a deadline without the window.
DeadlineUnchecked == windowEndsAt
DeadlineOfNow == now
DeadlineFor == IF windowEndsAt # NoWindow THEN windowEndsAt ELSE now

ReadDeadline(c) == /\ pc[c] = "asked"
                   /\ deadline' = [deadline EXCEPT ![c] = DeadlineFor]
                   /\ pc' = [pc EXCEPT ![c] = "waiting"]
                   /\ UNCHANGED <<now, arbiter, claims, answer>>

\* A slip: waiting for somebody else to judge the window.
WaitForVerdictOnly(c) == /\ pc[c] = "waiting"
                         /\ verdict[c] # "open"
                         /\ pc' = [pc EXCEPT ![c] = "checking"]
                         /\ UNCHANGED <<now, arbiter, claims, deadline, answer>>

\* The loop ends because the verdict landed, or because the deadline passed.
LeaveLoop(c) == /\ pc[c] = "waiting"
                /\ \/ verdict[c] # "open" /\ pc' = [pc EXCEPT ![c] = "checking"]
                   \/ /\ verdict[c] = "open"
                      /\ now >= deadline[c]
                      /\ pc' = [pc EXCEPT ![c] = "overdue"]
                /\ UNCHANGED <<now, arbiter, claims, deadline, answer>>

ResolveAtDeadline(c) == /\ pc[c] = "overdue"
                        /\ ResolveDue
                        /\ pc' = [pc EXCEPT ![c] = "checking"]
                        /\ UNCHANGED <<now, source, score, deadline, answer>>

\* wait_for resolves once more if the claim is still undecided here.  It never
\* is (ToldTheVerdict fails otherwise), so that second attempt is not a step.
Return(c) == /\ pc[c] = "checking"
             /\ answer' = [answer EXCEPT ![c] = verdict[c] = "won"]
             /\ pc' = [pc EXCEPT ![c] = "told"]
             /\ UNCHANGED <<now, arbiter, claims, deadline>>

-----------------------------------------------------------------------------
\* A slip: a release that does not look at who holds the path.
ReleaseAnyones(c) == NoSource
AfterRelease(c) == IF heldBy = source[c] THEN NoSource ELSE heldBy

\* The caller whose claim won gives the path back when its turn is over.
Release(c) == /\ pc[c] = "told"
              /\ answer[c]
              /\ heldBy' = AfterRelease(c)
              /\ pc' = [pc EXCEPT ![c] = "released"]
              /\ UNCHANGED <<now, pending, windowEndsAt, heldAt, claims, deadline, answer>>

\* A slip: a reset that forgets the claims without judging them.
ResetKeepsClaims == verdict
ResetVerdicts == [c \in ClaimIds |-> IF c \in pending THEN "lost" ELSE verdict[c]]

\* The pipeline thread failed or restarts.
Reset == /\ verdict' = ResetVerdicts
         /\ pending' = {}
         /\ windowEndsAt' = NoWindow
         /\ heldBy' = NoSource
         /\ UNCHANGED <<now, heldAt, source, score, waiters>>

\* Reading held_by drops a hold that outlived its turn.
ReadHeldBy == /\ heldBy # NoSource
              /\ HoldExpired
              /\ heldBy' = NoSource
              /\ UNCHANGED <<now, pending, windowEndsAt, heldAt, claims, waiters>>

Tick == /\ now < MaxTime
        /\ now' = now + 1
        /\ UNCHANGED <<arbiter, claims, waiters>>

Wait(c) == ReadDeadline(c) \/ LeaveLoop(c) \/ ResolveAtDeadline(c) \/ Return(c)

Next == \/ \E c \in ClaimIds : \/ \E s \in Sources, x \in Scores : Claim(c, s, x)
                               \/ ReadDeadline(c)
                               \/ LeaveLoop(c)
                               \/ ResolveAtDeadline(c)
                               \/ Return(c)
                               \/ Release(c)
        \/ Reset
        \/ ReadHeldBy
        \/ Tick

Spec == Init /\ [][Next]_vars

\* A waiting thread is scheduled again and again and time goes on; nobody has
\* to claim, to release or to restart.
FairSpec == /\ Spec
            /\ WF_vars(Tick)
            /\ \A c \in ClaimIds : WF_vars(Wait(c))

-----------------------------------------------------------------------------
(* Properties.                                                             *)

(* A hold and an open window exclude each other, and the open window holds *)
(* exactly the claims still without a verdict: nobody is judged behind a   *)
(* turn in flight, and no claim is left out of every window.               *)
HoldClosesWindow ==
    /\ heldBy # NoSource => windowEndsAt = NoWindow
    /\ (windowEndsAt = NoWindow) <=> (pending = {})
    /\ \A c \in ClaimIds : c \in pending <=> verdict[c] = "open"

(* wait_for never returns before the verdict: a detector told to stand     *)
(* down is not chosen afterwards, and so never holds the path for a turn   *)
(* nobody takes (arbiter.py: "A claim whose verdict never arrives must not *)
(* answer").                                                               *)
ToldTheVerdict ==
    \A c \in ClaimIds : pc[c] \in {"told", "released"} =>
        /\ verdict[c] \in {"won", "lost"}
        /\ answer[c] = (verdict[c] = "won")

(* The path is never handed from one turn to the next: between two holders *)
(* it is free, so a second verdict cannot land while a turn is in flight.  *)
NeverHandedOver ==
    [][heldBy # NoSource /\ heldBy' # NoSource
         => heldBy' = heldBy /\ heldAt' = heldAt]_vars

(* While a hold is young only its own source's release, or a pipeline      *)
(* reset (a step in which no detector moves), frees it: another detector's *)
(* claim or release does not.                                              *)
YoungHoldIsKept ==
    [][heldBy # NoSource /\ ~HoldExpired /\ heldBy' # heldBy
         => \/ \E c \in ClaimIds : /\ pc[c] = "told" /\ pc'[c] = "released"
                                   /\ source[c] = heldBy
            \/ pc' = pc]_vars

(* Every claim is judged and its detector told, whatever the others do.    *)
EveryClaimIsTold ==
    \A c \in ClaimIds : pc[c] = "asked" ~> pc[c] = "told"

(* The arbiter implements the clockless promise of WakePath.               *)
Path == INSTANCE WakePath WITH Bids <- ClaimIds, holder <- heldBy, bidder <- source
ImplementsWakePath == Path!Spec
=============================================================================
