----------------------------- MODULE WakeListener -----------------------------
(***************************************************************************)
(* The wake-word listener of a capability node: the capture thread and the *)
(* verdicts of the backend (edge/wake.py), and the event loop that starts, *)
(* stops and replaces it (_apply_wake_policy, _handle_wake_response and    *)
(* _stop_wake of edge/daemon.py).                                          *)
(*                                                                         *)
(* stop() is called on the event loop and joins the thread, while the      *)
(* thread may wait for the loop to send a frame; each of them gives up     *)
(* after five seconds, and a frame the thread gave up is sent later.  The  *)
(* lease a grant brings is named by the claim it answers.  The backend is  *)
(* external: it may grant or yield any claim it got, late or never.  What  *)
(* is heard is a choice.                                                   *)
(***************************************************************************)
EXTENDS Naturals

CONSTANTS Captures,  \* capture threads
          NoCapture,
          WakeClaims, \* claim ids, used again once nothing mentions them
          NoClaim

ASSUME WakeAssumption == NoCapture \notin Captures /\ NoClaim \notin WakeClaims

VARIABLES wlPolicy,   \* _policy
          wlHandle,   \* _thread
          wlStop,     \* _stop is set
          wlClaim,    \* _claim_id
          wlLease,    \* _lease_id
          wlGranted,  \* _granted is set
          wlAt,       \* capture thread -> where it is
          wlMine,     \* capture thread -> claim_id of _claim_and_stream
          wlStreams,  \* capture thread -> lease_id of _stream_lease
          wlLoop,     \* what the event loop is at
          wlOut,      \* claims whose frame is scheduled on the loop
          wlVerdicts, \* answers of the backend under way
          wlTwin      \* history: a join timed out and the listener was started again

wlOwn   == <<wlPolicy, wlHandle, wlStop>>
wlTurn  == <<wlClaim, wlLease, wlGranted>>
wlLocal == <<wlAt, wlMine, wlStreams>>
wlWire  == <<wlOut, wlVerdicts>>
wlVars  == <<wlOwn, wlTurn, wlLocal, wlLoop, wlWire, wlTwin>>

WakePolicies == {"low", "high"}

\* Frames are sent when the loop is free; the loop joins a thread, starts one
\* after the join or not, or is between the two halves of on_grant or on_yield.
LoopSteps == {"free", "joins", "restarts", "decides"}

Verdict == [kind : {"grant", "yield", "stop"}, claim : WakeClaims]

WakeTypeOK ==
    /\ wlPolicy \in WakePolicies \cup {"off", "none"}
    /\ wlHandle \in Captures \cup {NoCapture}
    /\ wlStop \in BOOLEAN
    /\ wlClaim \in WakeClaims \cup {NoClaim}
    /\ wlLease \in WakeClaims \cup {NoClaim}
    /\ wlGranted \in BOOLEAN
    /\ wlAt \in [Captures -> {"dead", "starting", "top", "reading", "claiming", "waiting", "dropping", "decided",
                              "flushing", "streaming", "sending", "ending", "closing"}]
    /\ wlMine \in [Captures -> WakeClaims \cup {NoClaim}]
    /\ wlStreams \in [Captures -> WakeClaims \cup {NoClaim}]
    /\ wlLoop \in [at : LoopSteps, capture : Captures \cup {NoCapture}]
    /\ wlOut \subseteq WakeClaims
    /\ wlVerdicts \subseteq Verdict
    /\ wlTwin \in BOOLEAN

LoopFree == [at |-> "free", capture |-> NoCapture]

WakeInit ==
    /\ wlPolicy = "none" /\ wlHandle = NoCapture /\ wlStop = FALSE
    /\ wlClaim = NoClaim /\ wlLease = NoClaim /\ wlGranted = FALSE
    /\ wlAt = [t \in Captures |-> "dead"]
    /\ wlMine = [t \in Captures |-> NoClaim]
    /\ wlStreams = [t \in Captures |-> NoClaim]
    /\ wlLoop = LoopFree
    /\ wlOut = {} /\ wlVerdicts = {}
    /\ wlTwin = FALSE

Alive(t) == wlAt[t] # "dead"

-----------------------------------------------------------------------------
(* The event loop: policies.                                               *)

\* _start
StartsListening ==
    /\ wlStop' = FALSE
    /\ \E t \in Captures : /\ ~Alive(t)
                           /\ wlHandle' = t
                           /\ wlAt' = [wlAt EXCEPT ![t] = "starting"]
    /\ wlTwin' = (wlTwin \/ \E t \in Captures : Alive(t))
    /\ UNCHANGED <<wlMine, wlStreams>>

\* stop() on the loop, and what comes after it.
StopsListening(restart) ==
    IF wlHandle # NoCapture /\ Alive(wlHandle)
    THEN /\ wlStop' = TRUE /\ wlHandle' = NoCapture
         /\ wlLoop' = [at |-> IF restart THEN "restarts" ELSE "joins", capture |-> wlHandle]
         /\ UNCHANGED <<wlLocal, wlTwin>>
    ELSE IF restart
    THEN StartsListening /\ UNCHANGED wlLoop
    ELSE wlStop' = TRUE /\ wlHandle' = NoCapture /\ UNCHANGED <<wlLocal, wlLoop, wlTwin>>

Unchanged(policy) == /\ policy = wlPolicy
                     /\ wlHandle # NoCapture /\ Alive(wlHandle)

\* apply_policy; the first policy that is off builds no listener.
ApplyPolicy(policy) ==
    /\ wlLoop = LoopFree
    /\ wlPolicy = "none" => policy # "off"
    /\ wlPolicy' = policy
    /\ IF policy \in WakePolicies /\ Unchanged(policy)
       THEN UNCHANGED <<wlHandle, wlStop, wlLocal, wlLoop, wlTwin>>
       ELSE StopsListening(policy \in WakePolicies)
    /\ UNCHANGED <<wlTurn, wlWire>>

\* A policy without wake fields.
PolicyMissing ==
    /\ wlLoop = LoopFree
    /\ wlPolicy # "none"
    /\ StopsListening(FALSE)
    /\ UNCHANGED <<wlPolicy, wlTurn, wlWire>>

\* The thread is gone, or still opening or closing its devices, or waiting for
\* the loop itself when the join gives up.
JoinEnds ==
    LET t == wlLoop.capture IN
    /\ wlLoop.at \in {"joins", "restarts"}
    /\ wlAt[t] \in {"dead", "starting", "closing", "claiming", "flushing", "sending", "ending"}
    /\ IF wlLoop.at = "restarts" THEN StartsListening ELSE UNCHANGED <<wlStop, wlHandle, wlLocal, wlTwin>>
    /\ wlLoop' = LoopFree
    /\ UNCHANGED <<wlPolicy, wlTurn, wlWire>>

\* The connection ends: _stop_wake joins off the loop, and the next connection
\* builds a new listener.  A thread that outlives the join has no listener, no
\* connection and only its devices to close.
ConnectionEnds ==
    /\ wlLoop = LoopFree
    /\ wlPolicy # "none"
    /\ wlPolicy' = "none" /\ wlHandle' = NoCapture /\ wlStop' = FALSE
    /\ wlClaim' = NoClaim /\ wlLease' = NoClaim /\ wlGranted' = FALSE
    /\ \E left \in SUBSET {t \in Captures : Alive(t)} :
           wlAt' = [t \in Captures |-> IF t \in left THEN "closing" ELSE "dead"]
    /\ wlMine' = [t \in Captures |-> NoClaim]
    /\ wlStreams' = wlMine'
    /\ wlOut' = {} /\ wlVerdicts' = {}
    /\ wlTwin' = FALSE
    /\ UNCHANGED wlLoop

-----------------------------------------------------------------------------
(* The event loop: frames.                                                 *)

\* The frame of a claim is sent, or fails; the thread may have given it up.
SendClaim(c) ==
    /\ wlLoop = LoopFree
    /\ c \in wlOut
    /\ wlOut' = wlOut \ {c}
    /\ \/ /\ \/ \E kind \in {"grant", "yield"} : wlVerdicts' = wlVerdicts \cup {[kind |-> kind, claim |-> c]}
             \/ UNCHANGED wlVerdicts
          /\ wlAt' = [t \in Captures |-> IF wlAt[t] = "claiming" /\ wlMine[t] = c THEN "waiting" ELSE wlAt[t]]
       \/ /\ wlAt' = [t \in Captures |-> IF wlAt[t] = "claiming" /\ wlMine[t] = c THEN "top" ELSE wlAt[t]]
          /\ UNCHANGED wlVerdicts
    /\ UNCHANGED <<wlOwn, wlTurn, wlMine, wlStreams, wlLoop, wlTwin>>

Handled(verdict) ==
    /\ wlLoop = LoopFree
    /\ verdict \in wlVerdicts

\* The claim a verdict is about was not abandoned.
IsCurrent(c) == c = wlClaim

\* on_grant and on_yield, up to the event; the backend may end the lease it granted.
OnGrant(c) ==
    /\ Handled([kind |-> "grant", claim |-> c])
    /\ wlVerdicts' = (wlVerdicts \ {[kind |-> "grant", claim |-> c]}) \cup {[kind |-> "stop", claim |-> c]}
    /\ IF IsCurrent(c)
       THEN wlLease' = c /\ wlLoop' = [LoopFree EXCEPT !.at = "decides"]
       ELSE UNCHANGED <<wlLease, wlLoop>>
    /\ UNCHANGED <<wlOwn, wlClaim, wlGranted, wlLocal, wlOut, wlTwin>>

SetGranted ==
    /\ wlLoop.at = "decides"
    /\ wlGranted' = TRUE
    /\ wlLoop' = LoopFree
    /\ UNCHANGED <<wlOwn, wlClaim, wlLease, wlLocal, wlWire, wlTwin>>

OnYield(c) ==
    /\ Handled([kind |-> "yield", claim |-> c])
    /\ wlVerdicts' = wlVerdicts \ {[kind |-> "yield", claim |-> c]}
    /\ IF IsCurrent(c)
       THEN /\ wlClaim' = NoClaim /\ wlLease' = NoClaim
            /\ wlLoop' = [LoopFree EXCEPT !.at = "decides"]
       ELSE UNCHANGED <<wlClaim, wlLease, wlLoop>>
    /\ UNCHANGED <<wlOwn, wlGranted, wlLocal, wlOut, wlTwin>>

OnListenStop(c) ==
    /\ Handled([kind |-> "stop", claim |-> c])
    /\ wlVerdicts' = wlVerdicts \ {[kind |-> "stop", claim |-> c]}
    /\ wlLease' = IF wlLease = c THEN NoClaim ELSE wlLease
    /\ UNCHANGED <<wlOwn, wlClaim, wlGranted, wlLocal, wlLoop, wlOut, wlTwin>>

-----------------------------------------------------------------------------
(* The capture thread.                                                     *)

Steps(t, from, to) ==
    /\ wlAt[t] = from
    /\ wlAt' = [wlAt EXCEPT ![t] = to]

OnlySteps == UNCHANGED <<wlOwn, wlTurn, wlMine, wlStreams, wlLoop, wlWire, wlTwin>>

\* _run: devices that open or do not, the loop of the thread, and its end.
Runs(t) ==
    /\ \/ Steps(t, "starting", "top") \/ Steps(t, "starting", "dead")
       \/ Steps(t, "top", IF wlStop THEN "closing" ELSE "reading")
       \/ Steps(t, "reading", "top")
       \/ Steps(t, "closing", "dead")
    /\ OnlySteps

Unmentioned(c) ==
    /\ c \notin wlOut \cup {wlClaim, wlLease}
    /\ \A t \in Captures : c # wlMine[t] /\ c # wlStreams[t]
    /\ \A v \in wlVerdicts : v.claim # c

\* _claim_and_stream: a detection.
Detect(t) ==
    /\ Steps(t, "reading", "claiming")
    /\ \E c \in WakeClaims :
         /\ Unmentioned(c)
         /\ wlMine' = [wlMine EXCEPT ![t] = c]
         /\ wlClaim' = c
         /\ wlOut' = wlOut \cup {c}
    /\ wlLease' = NoClaim
    /\ wlGranted' = FALSE
    /\ UNCHANGED <<wlOwn, wlStreams, wlLoop, wlVerdicts, wlTwin>>

\* _dispatch gives up its claim, which stays scheduled.
ClaimTimesOut(t) == Steps(t, "claiming", "top") /\ OnlySteps

\* _capture_until, and what is made of its end.
WaitEnds(t) ==
    /\ Steps(t, "waiting", IF wlGranted THEN "decided" ELSE "dropping")
    /\ OnlySteps

\* _clear_claim
DropClaim(t) ==
    /\ Steps(t, "dropping", "top")
    /\ IF wlClaim = wlMine[t] THEN wlClaim' = NoClaim /\ wlLease' = NoClaim
                              ELSE UNCHANGED <<wlClaim, wlLease>>
    /\ UNCHANGED <<wlOwn, wlGranted, wlMine, wlStreams, wlLoop, wlWire, wlTwin>>

Decided(t) ==
    /\ Steps(t, "decided", IF wlLease = NoClaim THEN "top" ELSE "flushing")
    /\ wlStreams' = [wlStreams EXCEPT ![t] = wlLease]
    /\ UNCHANGED <<wlOwn, wlTurn, wlMine, wlLoop, wlWire, wlTwin>>

\* _stream_lease: what was buffered goes out unasked, then each chunk if the
\* lease stands; a frame that cannot be sent ends it without a word.
Stream(t) ==
    /\ \/ wlLoop = LoopFree /\ Steps(t, "flushing", "streaming")
       \/ Steps(t, "flushing", "top")
       \/ Steps(t, "streaming", IF wlStop \/ wlLease # wlStreams[t] THEN "ending" ELSE "sending")
       \/ wlLoop = LoopFree /\ Steps(t, "sending", "streaming")
       \/ wlLoop = LoopFree /\ Steps(t, "sending", "ending")
       \/ Steps(t, "sending", "top")
    /\ OnlySteps

\* The end of a lease, whether its frame could be sent or not.
EndLease(t) ==
    /\ Steps(t, "ending", "top")
    /\ wlLease' = IF wlLease = wlStreams[t] THEN NoClaim ELSE wlLease
    /\ wlClaim' = NoClaim
    /\ UNCHANGED <<wlOwn, wlGranted, wlMine, wlStreams, wlLoop, wlWire, wlTwin>>

CaptureSteps(t) ==
    \/ Runs(t) \/ Detect(t) \/ ClaimTimesOut(t) \/ WaitEnds(t) \/ DropClaim(t)
    \/ Decided(t) \/ Stream(t) \/ EndLease(t)

WakeListenerNext ==
    \/ \E policy \in WakePolicies \cup {"off"} : ApplyPolicy(policy)
    \/ PolicyMissing \/ JoinEnds \/ ConnectionEnds
    \/ \E c \in WakeClaims : SendClaim(c) \/ OnGrant(c) \/ OnYield(c) \/ OnListenStop(c)
    \/ SetGranted
    \/ \E t \in Captures : CaptureSteps(t)

-----------------------------------------------------------------------------

\* Audio leaves the machine only for a lease that answers the claim the thread
\* made for what it hears now: verdicts that come after the claim was given
\* up, after the next one or after a yield start nothing.  Two threads of one
\* listener, which a join that timed out can leave, share their leases.
VerdictsAreCurrent ==
    wlTwin \/ \A t \in Captures :
        wlAt[t] \in {"flushing", "streaming", "sending"} => wlStreams[t] = wlMine[t]

\* While the loop runs, no thread but the one the listener knows captures,
\* unless it was told to stop, or a join that timed out left it behind.
OneCapture ==
    wlTwin \/ \A t \in Captures : wlAt[t] \in {"dead", "closing"} \/ t = wlHandle \/ wlStop
=============================================================================
