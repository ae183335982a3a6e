------------------------------- MODULE EdgeNode -------------------------------
(***************************************************************************)
(* The requests a capability node serves: run, _serve, _cancel_requests    *)
(* and the two handlers of edge/daemon.py, with the permit of              *)
(* LocalTTSExecutor, which one synthesis thread at a time may have.        *)
(*                                                                         *)
(* Steps are turns of the event loop and ends of worker threads.  A        *)
(* connection may end, and the node may be stopped, at any time; a         *)
(* synthesis thread cannot be stopped and may outlive its request, its     *)
(* connection and many of both.  Replies that are played are played one    *)
(* after the other, except those a lost connection cancels.                *)
(***************************************************************************)
EXTENDS Naturals, FiniteSets

CONSTANTS EdgeRequests, \* requests of the backend, used again when answered
          EdgeLimit     \* MAX_IN_FLIGHT

ASSUME EdgeAssumption == IsFiniteSet(EdgeRequests) /\ EdgeLimit \in Nat

VARIABLES enPhase,    \* where run() is
          enTasks,    \* _tasks
          enAt,       \* request -> what its task is at
          enCancel,   \* requests whose task is cancelled and has not noticed
          enPermits,  \* value of the semaphore
          enLeft,     \* synthesis threads nobody waits for
          enReleases  \* releases of the semaphore scheduled on the loop

enVars == <<enPhase, enTasks, enAt, enCancel, enPermits, enLeft, enReleases>>

enTts == <<enPermits, enLeft, enReleases>>

EdgeTypeOK ==
    /\ enPhase \in {"away", "serving", "cancelling", "stopping", "unloading"}
    /\ enTasks \subseteq EdgeRequests
    /\ enAt \in [EdgeRequests -> {"none", "executing", "waiting", "synthesizing", "synthesized",
                                  "queued", "playing", "sending", "ended"}]
    /\ enCancel \subseteq EdgeRequests
    /\ enPermits \in Nat /\ enLeft \in Nat /\ enReleases \in Nat

EdgeInit ==
    /\ enPhase = "away"
    /\ enTasks = {} /\ enCancel = {}
    /\ enAt = [r \in EdgeRequests |-> "none"]
    /\ enPermits = 1 /\ enLeft = 0 /\ enReleases = 0

RequestAt(r, from, to) ==
    /\ enAt[r] = from
    /\ r \notin enCancel
    /\ enAt' = [enAt EXCEPT ![r] = to]

-----------------------------------------------------------------------------
(* run() and _serve.                                                       *)

EdgeConnects ==
    /\ enPhase = "away"
    /\ enPhase' = "serving"
    /\ UNCHANGED <<enTasks, enAt, enCancel, enTts>>

\* A request beyond the limit is answered as busy, and nothing else.
EdgeReceive(r) ==
    /\ enPhase = "serving"
    /\ Cardinality(enTasks) < EdgeLimit
    /\ \E kind \in {"executing", "waiting"} : RequestAt(r, "none", kind)
    /\ enTasks' = enTasks \cup {r}
    /\ UNCHANGED <<enPhase, enCancel, enTts>>

\* The node is stopped while it waits to connect again.
EdgeStops ==
    /\ enPhase = "away"
    /\ enPhase' = "stopping"
    /\ UNCHANGED <<enTasks, enAt, enCancel, enTts>>

\* The connection ends: _cancel_requests up to its gather.
EdgeDisconnects ==
    /\ enPhase = "serving"
    /\ \E phase \in {"cancelling", "stopping"} : enPhase' = phase
    /\ enTasks' = {}
    /\ enCancel' = {r \in EdgeRequests : enAt[r] \notin {"none", "ended"}}
    /\ UNCHANGED <<enAt, enTts>>

\* Every task has ended; a node that stops also waits for the engine.
EdgeGathered ==
    /\ enPhase \in {"cancelling", "stopping"}
    /\ \A r \in EdgeRequests : enAt[r] = "none"
    /\ \/ enPhase = "cancelling" /\ enPhase' = "away" /\ UNCHANGED enPermits
       \/ /\ enPhase = "stopping" /\ enPermits > 0
          /\ enPhase' = "unloading" /\ enPermits' = enPermits - 1
    /\ UNCHANGED <<enTasks, enAt, enCancel, enLeft, enReleases>>

\* The engine is unloaded; the service may be started again.
EdgeUnloads ==
    /\ enPhase = "unloading"
    /\ enPhase' = "away"
    /\ enPermits' = enPermits + 1
    /\ UNCHANGED <<enTasks, enAt, enCancel, enLeft, enReleases>>

-----------------------------------------------------------------------------
(* The tasks.                                                              *)

\* A tool answers or fails; the answer is sent or cannot be sent; a reply has
\* its turn of the loudspeaker, or none.
EdgeTaskSteps(r) ==
    /\ \/ RequestAt(r, "executing", "sending")
       \/ RequestAt(r, "queued", "playing") /\ \A s \in EdgeRequests : enAt[s] # "playing"
       \/ RequestAt(r, "playing", "sending")
       \/ RequestAt(r, "sending", "ended")
    /\ UNCHANGED <<enPhase, enTasks, enCancel, enTts>>

\* The callback of a task that ended.
EdgeDiscard(r) ==
    /\ RequestAt(r, "ended", "none")
    /\ enTasks' = enTasks \ {r}
    /\ UNCHANGED <<enPhase, enCancel, enTts>>

\* synthesize: the permit, and the thread.
TakePermit(r) ==
    /\ RequestAt(r, "waiting", "synthesizing")
    /\ enPermits > 0
    /\ enPermits' = enPermits - 1
    /\ UNCHANGED <<enPhase, enTasks, enCancel, enLeft, enReleases>>

ThreadEnds(r) ==
    /\ enAt[r] = "synthesizing"
    /\ enAt' = [enAt EXCEPT ![r] = "synthesized"]
    /\ UNCHANGED <<enPhase, enTasks, enCancel, enTts>>

TakeAudio(r) ==
    /\ \E next \in {"queued", "sending"} : RequestAt(r, "synthesized", next)
    /\ enPermits' = enPermits + 1
    /\ UNCHANGED <<enPhase, enTasks, enCancel, enLeft, enReleases>>

\* A slip: the permit is given back while the thread goes on.
AbandonAndRelease(r) ==
    /\ enPermits' = enPermits + 1
    /\ enLeft' = IF enAt[r] = "synthesizing" THEN enLeft + 1 ELSE enLeft
    /\ UNCHANGED enReleases

\* A wait that is given up leaves the release to the end of the thread.
Abandon(r) ==
    /\ enLeft' = IF enAt[r] = "synthesizing" THEN enLeft + 1 ELSE enLeft
    /\ enReleases' = IF enAt[r] = "synthesized" THEN enReleases + 1 ELSE enReleases
    /\ UNCHANGED enPermits

SynthesisTimesOut(r) ==
    /\ \E at \in {"synthesizing", "synthesized"} : RequestAt(r, at, "sending")
    /\ Abandon(r)
    /\ UNCHANGED <<enPhase, enTasks, enCancel>>

\* A cancelled task notices, whatever it waits for.
EdgeCancelled(r) ==
    /\ r \in enCancel
    /\ enCancel' = enCancel \ {r}
    /\ enAt' = [enAt EXCEPT ![r] = "ended"]
    /\ IF enAt[r] \in {"synthesizing", "synthesized"} THEN Abandon(r) ELSE UNCHANGED enTts
    /\ UNCHANGED <<enPhase, enTasks>>

LeftThreadEnds ==
    /\ enLeft > 0
    /\ enLeft' = enLeft - 1
    /\ enReleases' = enReleases + 1
    /\ UNCHANGED <<enPhase, enTasks, enAt, enCancel, enPermits>>

ScheduledRelease ==
    /\ enReleases > 0
    /\ enReleases' = enReleases - 1
    /\ enPermits' = enPermits + 1
    /\ UNCHANGED <<enPhase, enTasks, enAt, enCancel, enLeft>>

EdgeTask(r) ==
    \/ EdgeReceive(r) \/ EdgeTaskSteps(r) \/ EdgeDiscard(r) \/ TakePermit(r) \/ ThreadEnds(r)
    \/ TakeAudio(r) \/ SynthesisTimesOut(r) \/ EdgeCancelled(r)

EdgeNodeNext ==
    \/ EdgeConnects \/ EdgeStops \/ EdgeDisconnects \/ EdgeGathered \/ EdgeUnloads
    \/ \E r \in EdgeRequests : EdgeTask(r)
    \/ LeftThreadEnds \/ ScheduledRelease

-----------------------------------------------------------------------------

\* Whatever times out, is cancelled or is cut off, the permit is in one place:
\* free, with a request that synthesizes, with a thread somebody gave up or its
\* release, or with the node that unloads its engine.  So no second synthesis
\* starts while a thread works, and the permit always comes back.
PermitIsInOnePlace ==
    enPermits + enLeft + enReleases
        + Cardinality({r \in EdgeRequests : enAt[r] \in {"synthesizing", "synthesized"}})
        + (IF enPhase = "unloading" THEN 1 ELSE 0) = 1

\* No task of a lost connection is left when the next one opens, and none runs
\* beside the limit because it was cancelled, ended or forgotten.
TasksAreOfTheConnection ==
    /\ enPhase \in {"away", "unloading"} => \A r \in EdgeRequests : enAt[r] = "none"
    /\ enPhase = "serving" => enTasks = {r \in EdgeRequests : enAt[r] # "none"}
    /\ Cardinality({r \in EdgeRequests : enAt[r] # "none"}) <= EdgeLimit
===============================================================================
