--------------------------- MODULE VoiceTurnProofs ---------------------------
(***************************************************************************)
(* A spoken turn, for any nodes, phones, bounds and faults: the reply is   *)
(* the answer to the question, and a lease owns the voice.                 *)
(***************************************************************************)
EXTENDS VoiceTurn, FiniteSetTheorems, SequenceTheorems, TLAPS

\* A question has the number of a turn that was opened, and what is asked or
\* answered was asked before or is the latest question; an interruption only
\* moves the number the waiter expects past it.
QuestionInv ==
    /\ turn \in Nat
    /\ question \in 0..turn
    /\ asked \subseteq 0..question
    /\ replies \subseteq 0..question
    /\ pc \in {"wait", "cancelled"} => expected \in Nat /\ expected >= question
    /\ AnswersTheQuestion

\* A phone between its acquisition and its cleanup holds the remote lease.
LeaseInv ==
    /\ wake \in [Nodes -> Nat] /\ granted \in Nat
    /\ DOMAIN ph = Clients
    /\ src \in Sources
    /\ lease \in Phones \cup {NoOne}
    /\ \A p \in Phones : ph[p] \notin {"off", "gone"} => lease = p
    /\ LeaseOwnsTheVoice
    /\ SourceBelongsToOwner

-----------------------------------------------------------------------------
(* Questions and answers.                                                  *)

LEMMA QuestionInit == Init => QuestionInv
  BY DEF Init, QuestionInv, AnswersTheQuestion

\* A step that neither opens a turn nor touches an answer.
LEMMA QuestionKept ==
    ASSUME QuestionInv, UNCHANGED <<question, expected, spoken>>,
           turn' \in Nat, turn <= turn',
           asked' \subseteq asked, replies' \subseteq replies \cup asked,
           pc' \in {"wait", "cancelled"} => pc \in {"wait", "cancelled"},
           pc' \in {"speak", "play"} => pc \in {"speak", "play"}
    PROVE  QuestionInv'
<1>1. question' \in 0..turn'
  BY DEF QuestionInv
<1>2. asked' \subseteq 0..question' /\ replies' \subseteq 0..question'
  BY DEF QuestionInv
<1> QED BY <1>1, <1>2 DEF QuestionInv, AnswersTheQuestion

LEMMA QuestionStep == QuestionInv /\ [Next]_vars => QuestionInv'
<1> SUFFICES ASSUME QuestionInv, [Next]_vars PROVE QuestionInv'
  OBVIOUS
<1>0. turn \in Nat /\ turn <= turn
  BY DEF QuestionInv
<1> USE DEF talk, agent
<1>1. CASE OpenNodeTurn \/ ListenForWake \/ ReadIdleChunk \/ HostVerdict \/ OpenHostTurn
  BY <1>0, <1>1, QuestionKept
     DEF OpenNodeTurn, ListenForWake, ReadIdleChunk, HostVerdict, OpenHostTurn
<1>2. CASE Listen \/ Converse
  BY <1>0, <1>2, QuestionKept DEF Listen, Converse
<1>3. CASE Transcribe
  <2>1. CASE UNCHANGED <<turn, question>>
    BY <1>0, <1>3, <2>1, QuestionKept DEF Transcribe
  <2>2. CASE turn' = turn + 1 /\ question' = turn + 1
    <3>1. pc' = "send" \/ pc' = "top"
      BY <1>3 DEF Transcribe
    <3>2. asked' = asked /\ replies' = replies
      BY <1>3 DEF Transcribe
    <3> QED BY <2>2, <3>1, <3>2 DEF QuestionInv, AnswersTheQuestion
  <2> QED BY <1>3, <2>1, <2>2 DEF Transcribe
<1>4. CASE Publish
  <2>1. replies' \subseteq replies /\ UNCHANGED <<turn, question>>
    BY <1>4 DEF Publish
  <2>2. asked' \subseteq asked \cup {question}
    BY <1>4 DEF Publish
  <2>3. pc' \in {"sent", "top"}
    BY <1>4 DEF Publish
  <2> QED BY <2>1, <2>2, <2>3 DEF QuestionInv, AnswersTheQuestion
<1>5. CASE StartWaiting
  BY <1>5 DEF StartWaiting, QuestionInv, AnswersTheQuestion
<1>6. ASSUME NEW r \in Turns, TakeReply(r) PROVE QuestionInv'
  <2>1. CASE Matches(r) /\ spoken' = r /\ pc' = "speak"
    <3>1. r <= question /\ question <= expected /\ r = expected /\ r \in Nat /\ question \in Nat
      BY <1>6, <2>1 DEF TakeReply, Matches, QuestionInv
    <3>2. spoken' = question
      BY <2>1, <3>1
    <3>3. UNCHANGED <<turn, question, asked>> /\ replies' \subseteq replies
      BY <1>6 DEF TakeReply
    <3> QED BY <2>1, <3>2, <3>3 DEF QuestionInv, AnswersTheQuestion
  <2>2. CASE ~Matches(r) /\ UNCHANGED <<spoken, pc>>
    BY <1>0, <1>6, <2>2, QuestionKept DEF TakeReply
  <2> QED BY <1>6, <2>1, <2>2 DEF TakeReply
<1>7. CASE StopWaiting \/ Speak \/ Play \/ HandlerFails
  BY <1>0, <1>7, QuestionKept
     DEF StopWaiting, Speak, Play, AfterReply, HandlerFails
<1>8. CASE Drain
  <2>1. pc' \in {"top", "stt"}
    BY <1>8 DEF Drain, ApplyPress, ApplyCancel, ApplyRelease
  <2> QED BY <1>0, <1>8, <2>1, QuestionKept DEF Drain
<1>9. ASSUME NEW s, Judge(s) PROVE QuestionInv'
  BY <1>0, <1>9, QuestionKept DEF Judge
<1>10. ASSUME NEW q \in Turns, Reply(q) PROVE QuestionInv'
  BY <1>0, <1>10, QuestionKept DEF Reply
<1>11. ASSUME NEW n \in Nodes, NodeStep(n) PROVE QuestionInv'
  BY <1>0, <1>11, QuestionKept
     DEF NodeStep, NodeClaims, NodeVerdict, AudioEnd, Drop, Reconnect, StopNode
<1>12. ASSUME Interrupt, UNCHANGED <<talk, agent>> PROVE QuestionInv'
  <2>1. turn' = turn + 1 /\ pc' = (IF pc = "wait" THEN "cancelled" ELSE pc)
    BY <1>12 DEF Interrupt
  <2> QED BY <1>0, <1>12, <2>1, QuestionKept
<1>13. ASSUME NEW p \in Phones, PhoneStep(p) PROVE QuestionInv'
  <2>1. CASE PhoneInterrupt(p) \/ CleanupInterrupt(p)
    BY <1>0, <1>12, <1>13, <2>1, QuestionKept DEF PhoneInterrupt, CleanupInterrupt
  <2>2. CASE ~(PhoneInterrupt(p) \/ CleanupInterrupt(p))
    BY <1>0, <1>13, <2>2, QuestionKept
       DEF PhoneStep, PhoneAcquire, PhoneStart, PhonePress, PhoneRefused, PhoneStop, PhoneLeaves,
           CleanupCancel, CleanupRelease
  <2> QED BY <2>1, <2>2
<1>14. CASE ButtonPress \/ ButtonRelease
  BY <1>0, <1>14, QuestionKept DEF ButtonPress, ButtonRelease
<1>15. ASSUME NEW c \in Clients, CommandTimeout(c) PROVE QuestionInv'
  BY <1>0, <1>15, QuestionKept DEF CommandTimeout
<1>16. CASE UNCHANGED vars
  BY <1>0, <1>16, QuestionKept DEF vars
<1> QED BY <1>1, <1>2, <1>3, <1>4, <1>5, <1>6, <1>7, <1>8, <1>9, <1>10, <1>11, <1>13, <1>14, <1>15,
           <1>16 DEF Next, ThreadStep

-----------------------------------------------------------------------------
(* Who owns the voice.                                                     *)

LEMMA LeaseInit == Init => LeaseInv
  BY DEF Init, LeaseInv, LeaseOwnsTheVoice, SourceBelongsToOwner, Sources, Clients, NoLease

\* A step of the thread, the arbiter or the agent.
LEMMA LeaseKept ==
    ASSUME LeaseInv, UNCHANGED <<owner, src, wake, granted, lease, ph>>
    PROVE  LeaseInv'
  BY DEF LeaseInv, LeaseOwnsTheVoice, SourceBelongsToOwner

\* A phone that moves on and had the lease before.
LEMMA PhaseKept ==
    ASSUME LeaseInv, UNCHANGED <<owner, src, wake, granted, lease>>, DOMAIN ph' = Clients,
           \A p \in Phones : ph'[p] \notin {"off", "gone"} => ph[p] \notin {"off", "gone"}
    PROVE  LeaseInv'
  BY DEF LeaseInv, LeaseOwnsTheVoice, SourceBelongsToOwner

\* The end of a wake lease: the voice goes back with it, or stays with it.
LEMMA HandBackKeeps ==
    ASSUME LeaseInv, NEW n \in Nodes, HandBack(n),
           wake' \in [Nodes -> Nat],
           \A m \in Nodes : wake'[m] = wake[m] \/ wake'[m] = NoLease,
           ReplyIsOver => wake'[n] = NoLease,
           UNCHANGED <<granted, lease, ph>>
    PROVE  LeaseInv'
<1>1. CASE ReplyIsOver /\ owner = n /\ owner' = NoOne /\ src' = Host
  <2>1. \A m \in Nodes : wake'[m] = NoLease
    BY <1>1 DEF LeaseInv, LeaseOwnsTheVoice
  <2>2. lease = NoOne
    BY <1>1, VoiceAssumption DEF LeaseInv, LeaseOwnsTheVoice
  <2>3. src' \in Sources
    BY <1>1 DEF Sources, Clients
  <2> QED BY <1>1, <2>1, <2>2, <2>3 DEF LeaseInv, LeaseOwnsTheVoice, SourceBelongsToOwner
<1>2. CASE owner' = owner /\ src' \in {src, Host}
  <2>1. src' \in Sources
    BY <1>2 DEF LeaseInv, Sources, Clients
  <2>2. LeaseOwnsTheVoice'
    BY <1>2 DEF LeaseInv, LeaseOwnsTheVoice
  <2>3. SourceBelongsToOwner'
    BY <1>2 DEF LeaseInv, SourceBelongsToOwner
  <2> QED BY <1>2, <2>1, <2>2, <2>3 DEF LeaseInv
<1> QED BY <1>1, <1>2 DEF HandBack, SourceRestored, SourceDeselected

\* The lease of a node ends, or has ended and its speakers wait.
LEMMA EndLeaseKeeps ==
    ASSUME LeaseInv, NEW n \in Nodes, EndLease(n), UNCHANGED <<granted, lease, ph>>
    PROVE  LeaseInv'
<1>1. wake' = [wake EXCEPT ![n] = IF ReplyIsOver THEN NoLease ELSE wake[n]]
  BY DEF EndLease
<1>2. wake' \in [Nodes -> Nat]
  BY <1>1 DEF LeaseInv, NoLease
<1>3. \A m \in Nodes : wake'[m] = wake[m] \/ wake'[m] = NoLease
  BY <1>1, <1>2 DEF LeaseInv
<1>4. ReplyIsOver => wake'[n] = NoLease
  BY <1>1, <1>2 DEF LeaseInv
<1> QED BY <1>2, <1>3, <1>4, HandBackKeeps DEF EndLease

\* An idle voice is granted to a node, which nobody else held.
LEMMA GrantKeeps ==
    ASSUME LeaseInv, NEW n \in Nodes, MayAcquire(n), Grant(n), UNCHANGED <<lease, ph>>
    PROVE  LeaseInv'
<1>1. wake' \in [Nodes -> Nat] /\ granted' \in Nat /\ src' \in Sources
  BY DEF LeaseInv, Grant, Sources
<1>2. lease = NoOne
  BY VoiceAssumption DEF LeaseInv, LeaseOwnsTheVoice, MayAcquire
<1>3. \A m \in Nodes : wake'[m] # NoLease => m = n
  <2>1. \A m \in Nodes : m # n => wake'[m] = wake[m]
    BY DEF LeaseInv, Grant
  <2>2. \A m \in Nodes : wake[m] # NoLease => m = n
    BY VoiceAssumption DEF LeaseInv, LeaseOwnsTheVoice, MayAcquire
  <2> QED BY <2>1, <2>2
<1> QED BY <1>1, <1>2, <1>3 DEF LeaseInv, Grant, LeaseOwnsTheVoice, SourceBelongsToOwner

LEMMA NodeKeepsLeases ==
    ASSUME LeaseInv, NEW n \in Nodes, NodeStep(n)
    PROVE  LeaseInv'
<1> USE DEF clients
<1>1. CASE NodeClaims(n) \/ Reconnect(n)
  BY <1>1, LeaseKept DEF NodeClaims, Reconnect, links
<1>2. CASE NodeVerdict(n)
  <2>1. CASE MayAcquire(n) /\ Grant(n)
    BY <1>2, <2>1, GrantKeeps DEF NodeVerdict
  <2>2. CASE Yield(n)
    BY <1>2, <2>2, LeaseKept DEF NodeVerdict, Yield
  <2> QED BY <1>2, <2>1, <2>2 DEF NodeVerdict
<1>3. CASE AudioEnd(n)
  <2>1. CASE EndLease(n)
    BY <1>3, <2>1, EndLeaseKeeps DEF AudioEnd
  <2>2. CASE NoLeaseToEnd
    BY <1>3, <2>2, LeaseKept DEF AudioEnd, NoLeaseToEnd
  <2> QED BY <1>3, <2>1, <2>2 DEF AudioEnd
<1>4. ASSUME NEW l \in 1..MaxLeases, StopNode(n, l) PROVE LeaseInv'
  <2>1. CASE EndLease(n)
    BY <1>4, <2>1, EndLeaseKeeps DEF StopNode
  <2>2. CASE NoLeaseToEnd
    BY <1>4, <2>2, LeaseKept DEF StopNode, NoLeaseToEnd
  <2> QED BY <1>4, <2>1, <2>2 DEF StopNode
<1>5. CASE Drop(n)
  <2>1. wake' = [wake EXCEPT ![n] = NoLease] /\ UNCHANGED <<granted, lease, ph>>
    BY <1>5 DEF Drop
  <2>2. wake' \in [Nodes -> Nat] /\ wake'[n] = NoLease
    BY <2>1 DEF LeaseInv, NoLease
  <2>3. \A m \in Nodes : wake'[m] = wake[m] \/ wake'[m] = NoLease
    BY <2>1, <2>2 DEF LeaseInv
  <2>4. CASE HandBack(n)
    BY <2>1, <2>2, <2>3, <2>4, HandBackKeeps
  <2>5. CASE UNCHANGED <<owner, src>>
    BY <2>1, <2>2, <2>3, <2>5 DEF LeaseInv, LeaseOwnsTheVoice, SourceBelongsToOwner
  <2> QED BY <1>5, <2>4, <2>5 DEF Drop
<1> QED BY <1>1, <1>2, <1>3, <1>4, <1>5 DEF NodeStep

\* The socket of a phone, from its acquisition to its cleanup.
LEMMA PhoneKeepsLeases ==
    ASSUME LeaseInv, NEW p \in Phones, PhoneStep(p)
    PROVE  LeaseInv'
<1> USE DEF links, clients
<1>0. p \in Clients /\ DOMAIN ph = Clients
  BY DEF Clients, LeaseInv
<1>1. CASE PhoneAcquire(p)
  <2>1. \A q \in Phones : ph'[q] \notin {"off", "gone"} => q = p
    BY <1>0, <1>1, VoiceAssumption DEF PhoneAcquire, LeaseInv
  <2>2. \A n \in Nodes : wake[n] = NoLease
    BY <1>1, VoiceAssumption DEF PhoneAcquire, MayAcquire, LeaseInv, LeaseOwnsTheVoice
  <2>3. src # Host => src = p
    BY <1>1, VoiceAssumption DEF PhoneAcquire, MayAcquire, LeaseInv, SourceBelongsToOwner, Sources, Clients
  <2>4. lease' = p /\ owner' = p /\ UNCHANGED <<src, wake, granted>> /\ DOMAIN ph' = Clients
    BY <1>0, <1>1 DEF PhoneAcquire
  <2> QED BY <2>1, <2>2, <2>3, <2>4 DEF LeaseInv, LeaseOwnsTheVoice, SourceBelongsToOwner
<1>2. CASE PhoneStart(p)
  <2>1. ph[p] = "held" /\ src' \in {src, p} /\ UNCHANGED <<owner, wake, granted, lease>>
    BY <1>2 DEF PhoneStart
  <2>2. lease = p /\ owner = p
    BY <2>1, VoiceAssumption DEF LeaseInv, LeaseOwnsTheVoice
  <2>3. DOMAIN ph' = Clients /\ \A q \in Phones : q # p => ph'[q] = ph[q]
    BY <1>0, <1>2 DEF PhoneStart, Clients
  <2>4. src' \in Sources
    BY <2>1 DEF LeaseInv, Sources, Clients
  <2>5. SourceBelongsToOwner'
    BY <2>1, <2>2 DEF LeaseInv, SourceBelongsToOwner
  <2> QED BY <2>1, <2>2, <2>3, <2>4, <2>5 DEF LeaseInv, LeaseOwnsTheVoice
<1>3. CASE PhonePress(p) \/ PhoneStop(p) \/ PhoneLeaves(p) \/ CleanupCancel(p)
            \/ PhoneInterrupt(p) \/ CleanupInterrupt(p)
  <2>1. UNCHANGED <<owner, src, wake, granted, lease>>
    BY <1>3 DEF PhonePress, PhoneStop, PhoneLeaves, CleanupCancel, PhoneInterrupt,
                CleanupInterrupt, outside
  <2>2. DOMAIN ph' = Clients
    BY <1>0, <1>3 DEF PhonePress, PhoneStop, PhoneLeaves, CleanupCancel, PhoneInterrupt,
                      CleanupInterrupt, outside, Ask
  <2>3. \A q \in Phones : ph'[q] \notin {"off", "gone"} => ph[q] \notin {"off", "gone"}
    BY <1>0, <1>3 DEF PhonePress, PhoneStop, PhoneLeaves, CleanupCancel, PhoneInterrupt,
                      CleanupInterrupt, outside, Ask, Clients
  <2> QED BY <2>1, <2>2, <2>3, PhaseKept
<1>4. CASE PhoneRefused(p)
  <2>1. src' \in {src, Host} /\ UNCHANGED <<owner, wake, granted, lease>> /\ ph[p] = "refused"
    BY <1>4 DEF PhoneRefused, SourceDeselected
  <2>2. src' \in Sources
    BY <2>1 DEF LeaseInv, Sources, Clients
  <2>3. DOMAIN ph' = Clients /\ \A q \in Phones : q # p => ph'[q] = ph[q]
    BY <1>0, <1>4 DEF PhoneRefused, Clients
  <2>4. SourceBelongsToOwner'
    BY <2>1 DEF LeaseInv, SourceBelongsToOwner
  <2> QED BY <2>1, <2>2, <2>3, <2>4 DEF LeaseInv, LeaseOwnsTheVoice
<1>5. CASE CleanupRelease(p)
  <2>1. ph[p] = "release" /\ lease = p /\ owner = p
    BY <1>5, VoiceAssumption DEF CleanupRelease, LeaseInv, LeaseOwnsTheVoice
  <2>2. \A q \in Phones : ph'[q] \in {"off", "gone"}
    BY <1>0, <1>5, <2>1 DEF CleanupRelease, LeaseInv, Clients
  <2>3. \A n \in Nodes : wake[n] = NoLease
    BY <2>1, VoiceAssumption DEF LeaseInv, LeaseOwnsTheVoice
  <2>4. lease' = NoOne /\ UNCHANGED <<wake, granted>> /\ DOMAIN ph' = Clients
    BY <1>0, <1>5 DEF CleanupRelease
  <2>5. \/ owner' = NoOne /\ src' = Host
        \/ UNCHANGED <<owner, src>>
    BY <1>5 DEF CleanupRelease, ReleaseOwner, SourceRestored
  <2>6. src' \in Sources /\ SourceBelongsToOwner'
    BY <2>5 DEF LeaseInv, SourceBelongsToOwner, Sources, Clients
  <2> QED BY <2>2, <2>3, <2>4, <2>6 DEF LeaseInv, LeaseOwnsTheVoice
<1> QED BY <1>1, <1>2, <1>3, <1>4, <1>5 DEF PhoneStep

LEMMA LeaseStep == LeaseInv /\ [Next]_vars => LeaseInv'
<1> SUFFICES ASSUME LeaseInv, [Next]_vars PROVE LeaseInv'
  OBVIOUS
<1> USE DEF outside, links, clients
<1>1. CASE \/ OpenNodeTurn \/ ListenForWake \/ ReadIdleChunk \/ HostVerdict \/ OpenHostTurn
           \/ Listen \/ Converse \/ Transcribe \/ Publish \/ StartWaiting \/ StopWaiting
           \/ HandlerFails
  BY <1>1, LeaseKept
     DEF OpenNodeTurn, ListenForWake, ReadIdleChunk, HostVerdict, OpenHostTurn, Listen, Converse,
         Transcribe, Publish, StartWaiting, StopWaiting, HandlerFails
<1>2. CASE Speak \/ Play \/ \E r \in Turns : TakeReply(r)
  BY <1>2, LeaseKept DEF Speak, Play, AfterReply, TakeReply
<1>3. ASSUME NEW c, NEW from_, NEW to, to \notin {"off", "gone"} \/ c = Host, from_ \notin {"off", "gone"},
             ph' = Told(c, from_, to), UNCHANGED <<owner, src, wake, granted, lease>>
      PROVE  LeaseInv'
  <2>1. DOMAIN ph' = Clients
    BY <1>3 DEF Told, LeaseInv
  <2>2. \A p \in Phones : ph'[p] \notin {"off", "gone"} => ph[p] \notin {"off", "gone"}
    BY <1>3 DEF Told, LeaseInv, Clients
  <2> QED BY <1>3, <2>1, <2>2, PhaseKept
<1>4. CASE Drain
  <2> DEFINE c == Head(cmds)[1]
  <2>1. UNCHANGED <<owner, src, wake, granted, lease>>
    BY <1>4 DEF Drain
  <2>2. \/ ph' = Told(c, "pressing", "active")
        \/ ph' = Told(c, "pressing", "refused")
        \/ ph' = Told(c, "canceling", "interrupt")
        \/ ph' = Told(c, "releasing", IF c = Host THEN "off" ELSE "held")
    BY <1>4 DEF Drain, ApplyPress, ApplyCancel, ApplyRelease
  <2> HIDE DEF c
  <2> QED BY <1>3, <2>1, <2>2
<1>5. CASE (\E s \in Nodes \cup {Host} : Judge(s)) \/ \E q \in Turns : Reply(q)
  BY <1>5, LeaseKept DEF Judge, Reply
<1>6. CASE \E n \in Nodes : NodeStep(n)
  BY <1>6, NodeKeepsLeases
<1>7. CASE \E p \in Phones : PhoneStep(p)
  BY <1>7, PhoneKeepsLeases
<1>8. CASE ButtonPress \/ ButtonRelease
  <2>1. UNCHANGED <<owner, src, wake, granted, lease>>
    BY <1>8 DEF ButtonPress, ButtonRelease
  <2>2. DOMAIN ph' = Clients /\ \A p \in Phones : ph'[p] = ph[p]
    BY <1>8, VoiceAssumption DEF ButtonPress, ButtonRelease, Ask, LeaseInv, Clients
  <2> QED BY <2>1, <2>2, PhaseKept
<1>9. ASSUME NEW c \in Clients, CommandTimeout(c) PROVE LeaseInv'
  <2>1. UNCHANGED <<owner, src, wake, granted, lease>>
    BY <1>9 DEF CommandTimeout
  <2>2. ph' = ph \/ \E act : Awaits(c, act) /\ ph' = [ph EXCEPT ![c] = AfterTimeout(c, act)]
    BY <1>9 DEF CommandTimeout
  <2>3. \A act : Awaits(c, act) => ph[c] \notin {"off", "gone"}
    BY DEF Awaits
  <2>4. /\ DOMAIN ph' = Clients
        /\ \A p \in Phones : ph'[p] \notin {"off", "gone"} => ph[p] \notin {"off", "gone"}
    BY <2>2, <2>3 DEF LeaseInv, Clients
  <2> QED BY <2>1, <2>4, PhaseKept
<1>10. CASE UNCHANGED vars
  BY <1>10, LeaseKept DEF vars
<1> QED BY <1>1, <1>2, <1>4, <1>5, <1>6, <1>7, <1>8, <1>9, <1>10 DEF Next, ThreadStep

-----------------------------------------------------------------------------
(* Who holds the wake path.                                                *)

\* Without errors and lapsed holds.  A verdict on its way has the path, and
\* nobody else; the path is of that verdict or of whoever woke the pipeline, and
\* the latter's turn is open or about to open.
HoldInv ==
    /\ DOMAIN bid = Nodes \cup {Host}
    /\ holder \in Nodes \cup {Host, NoOne} /\ path \in Nodes \cup {Host, NoOne}
    /\ \A s \in Nodes \cup {Host} : bid[s] = "open" => path = NoOne
    /\ \A s \in Nodes \cup {Host} : bid[s] = "won" => path = s /\ holder = NoOne
    /\ path # NoOne => bid[path] = "won" \/ holder = path
    /\ holder # NoOne => path = holder /\ (st # "idle" \/ wakeReq = holder \/ pc = "won")
    /\ bid[Host] # "none" => pc = "claim"

ShortTurns == "error" \notin Faults /\ "long" \notin Faults

LEMMA HoldStart == Init => HoldInv
BY VoiceAssumption DEF Init, HoldInv

\* Nothing moves but the thread, and not out of a claim or an earcon.
LEMMA HoldKept ==
    ASSUME HoldInv, UNCHANGED <<bid, holder, path, wakeReq>>,
           st' = "idle" => st = "idle", pc \in {"claim", "won"} => pc' = pc
    PROVE  HoldInv'
BY DEF HoldInv

LEMMA HoldEnds ==
    ASSUME HoldInv, ToIdle, UNCHANGED <<bid, wakeReq>>, pc \in {"claim", "won"} => pc' = pc
    PROVE  HoldInv'
<1>1. CASE st = "idle"
  <2>1. UNCHANGED <<holder, path, st>>
    BY <1>1 DEF ToIdle
  <2> QED BY <1>1, <2>1, HoldKept
<1>2. CASE st # "idle"
  <2>1. holder' = NoOne /\ path' = PathAfterTurn
    BY <1>2 DEF ToIdle
  <2>2. ASSUME NEW s \in Nodes \cup {Host}, bid[s] = "won" PROVE path' = s
    <3>1. path = s /\ holder = NoOne /\ s # NoOne
      BY <2>2, VoiceAssumption DEF HoldInv
    <3> QED BY <2>1, <3>1 DEF PathAfterTurn
  <2>3. path' # NoOne => path' = path /\ path # holder
    BY <2>1 DEF PathAfterTurn
  <2>4. path = NoOne => path' = NoOne
    BY <2>1 DEF PathAfterTurn
  <2>5. path' \in {path, NoOne}
    BY <2>1 DEF PathAfterTurn
  <2> QED BY <2>1, <2>2, <2>3, <2>4, <2>5 DEF HoldInv
<1> QED BY <1>1, <1>2

\* A bid finds the path free, with nobody's verdict under way, or loses.
LEMMA HoldBids ==
    ASSUME HoldInv, ShortTurns, NEW s \in Nodes \cup {Host}, bid[s] = "none", Bid(s),
           UNCHANGED <<st, holder, wakeReq>>, pc \in {"claim", "won"} => pc' = pc,
           s = Host => pc' = "claim"
    PROVE  HoldInv'
<1>1. CASE path # NoOne /\ bid' = [bid EXCEPT ![s] = "lost"] /\ path' = path
  BY <1>1 DEF HoldInv
<1>2. CASE PathFree /\ bid' = [bid EXCEPT ![s] = "open"] /\ path' = NoOne
  <2>1. path = NoOne
    BY <1>2 DEF PathFree, ShortTurns
  <2>2. holder = NoOne /\ \A t \in Nodes \cup {Host} : bid[t] # "won"
    BY <2>1, VoiceAssumption DEF HoldInv
  <2> QED BY <1>2, <2>1, <2>2 DEF HoldInv
<1> QED BY <1>1, <1>2 DEF Bid

\* The path goes to one of the open bids.
LEMMA HoldJudged ==
    ASSUME HoldInv, NEW s \in Nodes \cup {Host}, Judge(s)
    PROVE  HoldInv'
<1>1. /\ bid[s] = "open" /\ path' = s /\ UNCHANGED <<st, holder, pc, wakeReq>>
      /\ bid' = [OpenBidsLose EXCEPT ![s] = "won"]
  BY DEF Judge, outside
<1>2. path = NoOne /\ holder = NoOne
  BY <1>1 DEF HoldInv
<1>3. \A t \in Nodes \cup {Host} : bid[t] # "won"
  BY <1>2, VoiceAssumption DEF HoldInv
<1>4. DOMAIN bid' = Nodes \cup {Host} /\ bid'[s] = "won"
  BY <1>1 DEF HoldInv, OpenBidsLose
<1>5. \A t \in Nodes \cup {Host} : t # s => bid'[t] \notin {"open", "won"}
  BY <1>1, <1>3 DEF HoldInv, OpenBidsLose
<1>6. bid'[Host] # "none" => bid[Host] # "none"
  BY <1>1 DEF HoldInv, OpenBidsLose
<1> QED BY <1>1, <1>2, <1>4, <1>5, <1>6 DEF HoldInv

LEMMA HoldHostVerdict == HoldInv /\ HostVerdict => HoldInv'
<1> SUFFICES ASSUME HoldInv, HostVerdict PROVE HoldInv'
  OBVIOUS
<1>1. pc = "claim" /\ bid' = [bid EXCEPT ![Host] = "none"] /\ UNCHANGED <<st, path, wakeReq>>
  BY DEF HostVerdict
<1>2. DOMAIN bid' = Nodes \cup {Host} /\ bid'[Host] = "none" /\ \A n \in Nodes : bid'[n] = bid[n]
  BY <1>1, VoiceAssumption DEF HoldInv
<1>3. CASE bid[Host] = "won" /\ holder' = Host /\ pc' = "won"
  <2>1. path = Host /\ holder = NoOne
    BY <1>3 DEF HoldInv
  <2>2. \A n \in Nodes : bid[n] \notin {"won", "open"}
    BY <2>1, VoiceAssumption DEF HoldInv
  <2> QED BY <1>1, <1>2, <1>3, <2>1, <2>2 DEF HoldInv
<1>4. CASE bid[Host] = "lost" /\ pc' = "top" /\ holder' = holder
  BY <1>1, <1>2, <1>4, VoiceAssumption DEF HoldInv
<1> QED BY <1>3, <1>4 DEF HostVerdict

LEMMA HoldNodeVerdict ==
    ASSUME HoldInv, NEW n \in Nodes, NodeVerdict(n)
    PROVE  HoldInv'
<1>1. bid' = [bid EXCEPT ![n] = "none"] /\ UNCHANGED <<st, pc>> /\ n # Host /\ n # NoOne
  BY VoiceAssumption DEF NodeVerdict
<1>2. DOMAIN bid' = Nodes \cup {Host} /\ bid'[n] = "none" /\ \A s \in Nodes \cup {Host} : s # n => bid'[s] = bid[s]
  BY <1>1 DEF HoldInv
<1>3. CASE bid[n] = "won" /\ Grant(n)
  <2>1. holder' = n /\ wakeReq' = n /\ path' = path
    BY <1>3 DEF Grant
  <2>2. path = n
    BY <1>3 DEF HoldInv
  <2>3. \A s \in Nodes \cup {Host} : s # n => bid[s] \notin {"won", "open"}
    BY <1>1, <2>2 DEF HoldInv
  <2> QED BY <1>1, <1>2, <2>1, <2>2, <2>3 DEF HoldInv
<1>4. CASE Yield(n)
  <2>1. UNCHANGED <<holder, wakeReq>>
    BY <1>4 DEF Yield
  <2>2. CASE bid[n] = "won"
    <3>1. path = n /\ holder = NoOne /\ path' = NoOne
      BY <1>4, <2>2 DEF HoldInv, Yield, PathGivenBack
    <3>2. \A s \in Nodes \cup {Host} : s # n => bid[s] \notin {"won", "open"}
      BY <1>1, <3>1 DEF HoldInv
    <3> QED BY <1>1, <1>2, <2>1, <3>1, <3>2 DEF HoldInv
  <2>3. CASE bid[n] # "won"
    <3>1. path' = path
      BY <1>4, <2>3 DEF Yield
    <3> QED BY <1>1, <1>2, <2>1, <2>3, <3>1 DEF HoldInv
  <2> QED BY <2>2, <2>3
<1> QED BY <1>3, <1>4 DEF NodeVerdict

LEMMA HoldStep == ShortTurns /\ HoldInv /\ [Next]_vars => HoldInv'
<1> SUFFICES ASSUME ShortTurns, HoldInv, [Next]_vars PROVE HoldInv'
  OBVIOUS
<1> USE DEF outside, setter
<1>1. CASE OpenNodeTurn
  BY <1>1 DEF OpenNodeTurn, To, HoldInv
<1>2. CASE ListenForWake
  BY <1>2, HoldKept DEF ListenForWake
<1>3. CASE ReadIdleChunk
  <2>1. CASE UNCHANGED <<path, bid>>
    BY <1>3, <2>1, HoldKept DEF ReadIdleChunk
  <2>2. CASE Bid(Host) /\ pc' = "claim"
    <3>1. pc = "mic" /\ bid[Host] = "none" /\ UNCHANGED <<st, holder, wakeReq>>
      BY <1>3 DEF ReadIdleChunk, HoldInv
    <3> QED BY <2>2, <3>1, HoldBids
  <2> QED BY <1>3, <2>1, <2>2 DEF ReadIdleChunk
<1>4. CASE HostVerdict
  BY <1>4, HoldHostVerdict
<1>5. CASE OpenHostTurn
  BY <1>5 DEF OpenHostTurn, To, HoldInv
<1>6. CASE Listen \/ Converse \/ Transcribe \/ Publish \/ StopWaiting
  <2>1. pc \notin {"claim", "won"} /\ UNCHANGED <<bid, wakeReq>>
    BY <1>6 DEF Listen, Converse, Transcribe, Publish, StopWaiting, GivesUp
  <2>2. \/ ToIdle
        \/ To("listening") \/ To("processing") \/ UNCHANGED setter
    BY <1>6 DEF Listen, Converse, Transcribe, Publish, StopWaiting
  <2>3. CASE ToIdle
    BY <2>1, <2>3, HoldEnds
  <2>4. CASE To("listening") \/ To("processing") \/ UNCHANGED setter
    BY <2>1, <2>4, HoldKept DEF To
  <2> QED BY <2>2, <2>3, <2>4
<1>7. CASE StartWaiting \/ Speak \/ Play \/ \E r \in Turns : TakeReply(r)
  <2>1. pc \notin {"claim", "won"} /\ UNCHANGED <<bid, wakeReq>>
    BY <1>7 DEF StartWaiting, Speak, Play, AfterReply, TakeReply
  <2>2. \/ ToIdle
        \/ To("speaking") \/ To("listening") \/ To("conversing") \/ UNCHANGED setter
    BY <1>7 DEF StartWaiting, Speak, Play, AfterReply, TakeReply
  <2>3. CASE ToIdle
    BY <2>1, <2>3, HoldEnds
  <2>4. CASE To("speaking") \/ To("listening") \/ To("conversing") \/ UNCHANGED setter
    BY <2>1, <2>4, HoldKept DEF To
  <2> QED BY <2>2, <2>3, <2>4
<1>8. ~HandlerFails
  BY DEF HandlerFails, ShortTurns
<1>9. CASE Drain
  <2>1. pc = "top" /\ UNCHANGED <<bid, wakeReq>>
    BY <1>9 DEF Drain
  <2>2. ToIdle \/ To("listening") \/ To("processing") \/ UNCHANGED setter
    BY <1>9 DEF Drain, ApplyPress, ApplyCancel, ApplyRelease
  <2>3. CASE ToIdle
    BY <2>1, <2>3, HoldEnds
  <2>4. CASE To("listening") \/ To("processing") \/ UNCHANGED setter
    BY <2>1, <2>4, HoldKept DEF To
  <2> QED BY <2>2, <2>3, <2>4
<1>10. ASSUME NEW s \in Nodes \cup {Host}, Judge(s) PROVE HoldInv'
  BY <1>10, HoldJudged
<1>11. ASSUME NEW q \in Turns, Reply(q) PROVE HoldInv'
  BY <1>11, HoldKept DEF Reply
<1>12. ASSUME NEW n \in Nodes, NodeStep(n) PROVE HoldInv'
  <2>1. CASE NodeClaims(n)
    <3>1. bid[n] = "none" /\ Bid(n) /\ n # Host /\ UNCHANGED <<st, holder, wakeReq, pc>>
      BY <2>1, VoiceAssumption DEF NodeClaims
    <3> QED BY <3>1, HoldBids
  <2>2. CASE NodeVerdict(n)
    BY <2>2, HoldNodeVerdict
  <2>3. CASE AudioEnd(n) \/ Drop(n) \/ Reconnect(n) \/ \E l \in 1..MaxLeases : StopNode(n, l)
    BY <2>3, HoldKept DEF AudioEnd, Drop, Reconnect, StopNode
  <2> QED BY <1>12, <2>1, <2>2, <2>3 DEF NodeStep
<1>13. ASSUME Interrupt, UNCHANGED <<bid, wakeReq>> PROVE HoldInv'
  BY <1>13, HoldEnds DEF Interrupt
<1>14. ASSUME NEW p \in Phones, PhoneStep(p) PROVE HoldInv'
  <2>1. CASE PhoneInterrupt(p)
    BY <1>13, <2>1 DEF PhoneInterrupt
  <2>2. CASE CleanupInterrupt(p)
    <3>1. CASE Interrupt
      BY <1>13, <2>2, <3>1 DEF CleanupInterrupt
    <3>2. CASE UNCHANGED <<setter, pc>>
      BY <2>2, <3>2, HoldKept DEF CleanupInterrupt
    <3> QED BY <2>2, <3>1, <3>2 DEF CleanupInterrupt
  <2>3. CASE ~(PhoneInterrupt(p) \/ CleanupInterrupt(p))
    <3>1. UNCHANGED <<setter, pc, bid, wakeReq>>
      BY <1>14, <2>3
         DEF PhoneStep, PhoneAcquire, PhoneStart, PhonePress, PhoneRefused, PhoneStop, PhoneLeaves,
             CleanupCancel, CleanupRelease
    <3> QED BY <3>1, HoldKept
  <2> QED BY <2>1, <2>2, <2>3
<1>15. CASE ButtonPress \/ ButtonRelease \/ (\E c \in Clients : CommandTimeout(c)) \/ UNCHANGED vars
  <2>1. UNCHANGED <<setter, pc, bid, wakeReq>>
    BY <1>15 DEF ButtonPress, ButtonRelease, CommandTimeout, vars
  <2> QED BY <2>1, HoldKept
<1> QED BY <1>1, <1>2, <1>3, <1>4, <1>5, <1>6, <1>7, <1>8, <1>9, <1>10, <1>11, <1>12, <1>14, <1>15
        DEF Next, ThreadStep

-----------------------------------------------------------------------------
(* Who is heard, and who answers.                                          *)

\* Without phones.  From an utterance to the end of its reply the pipeline is
\* not idle, so that its owner stays, and the owner is who was heard.
HeardInv ==
    /\ pc # "cancelled"
    /\ pc \in {"stt", "send", "sent", "wait", "speak", "play"} =>
          /\ st # "idle"
          /\ from \in Nodes => owner = from
    /\ pc = "play" => voice = IF owner = NoOne THEN Host ELSE owner

LEMMA HeardStart == Init => HeardInv
BY VoiceAssumption DEF Init, HeardInv

\* The owner stays while the pipeline is not idle.
LEMMA OwnerStays ==
    ASSUME Phones = {}, [Next]_vars, st # "idle"
    PROVE  owner' = owner
<1>1. CASE ThreadStep
  BY <1>1 DEF ThreadStep, OpenNodeTurn, ListenForWake, ReadIdleChunk, HostVerdict, OpenHostTurn, Listen,
              Converse, Transcribe, Publish, StartWaiting, TakeReply, StopWaiting, Speak, AfterReply, Play,
              HandlerFails, Drain, outside
<1>2. ASSUME NEW n \in Nodes, NodeStep(n) PROVE owner' = owner
  <2>1. ~MayAcquire(n) /\ ~ReplyIsOver
    BY DEF MayAcquire, ReplyIsOver
  <2> QED BY <1>2, <2>1
          DEF NodeStep, NodeClaims, NodeVerdict, Yield, AudioEnd, StopNode, EndLease, NoLeaseToEnd, HandBack,
              Drop, Reconnect
<1>3. ASSUME \/ \E s \in Nodes \cup {Host} : Judge(s)
             \/ \E q \in Turns : Reply(q)
             \/ ButtonPress \/ ButtonRelease
             \/ \E c \in Clients : CommandTimeout(c)
             \/ UNCHANGED vars
      PROVE  owner' = owner
  BY <1>3 DEF Judge, Reply, ButtonPress, ButtonRelease, CommandTimeout, outside, vars
<1> QED BY <1>1, <1>2, <1>3 DEF Next

LEMMA HeardKept ==
    ASSUME Phones = {}, HeardInv, [Next]_vars, UNCHANGED <<st, pc, from, voice>>
    PROVE  HeardInv'
BY OwnerStays DEF HeardInv

\* The thread goes on with the utterance it has.
LEMMA HeardGoesOn ==
    ASSUME Phones = {}, HeardInv, [Next]_vars, st' # "idle", from' = from,
           pc \in {"stt", "send", "sent", "wait", "speak", "play"},
           pc' \in {"stt", "send", "sent", "wait", "speak"}
    PROVE  HeardInv'
BY OwnerStays DEF HeardInv

LEMMA HeardNothing ==
    ASSUME pc' \in {"top", "mic", "claim", "won"}
    PROVE  HeardInv'
BY DEF HeardInv

\* An utterance is from the source that is selected, whose client is the owner.
LEMMA HeardFrom ==
    ASSUME LeaseInv, st' # "idle", pc' = "stt", from' = src, owner' = owner
    PROVE  HeardInv'
<1>1. src \in Nodes => owner = src
  BY VoiceAssumption DEF LeaseInv, SourceBelongsToOwner
<1> QED BY <1>1 DEF HeardInv

LEMMA HeardStep == Phones = {} /\ LeaseInv /\ HeardInv /\ [Next]_vars => HeardInv'
<1> SUFFICES ASSUME Phones = {}, LeaseInv, HeardInv, [Next]_vars PROVE HeardInv'
  OBVIOUS
<1> USE DEF outside, setter, talk
<1>1. CASE \/ OpenNodeTurn \/ ListenForWake \/ ReadIdleChunk \/ HostVerdict \/ OpenHostTurn \/ Converse
           \/ StopWaiting \/ HandlerFails
  <2>1. pc' \in {"top", "mic", "claim", "won"}
    BY <1>1 DEF OpenNodeTurn, ListenForWake, ReadIdleChunk, HostVerdict, OpenHostTurn, Converse, StopWaiting,
                HandlerFails
  <2> QED BY <2>1, HeardNothing
<1>2. CASE Listen
  <2>1. CASE To("processing") /\ pc' = "stt" /\ from' = src
    <3>1. st' # "idle" /\ owner' = owner
      BY <1>2, <2>1 DEF Listen, To
    <3> QED BY <2>1, <3>1, HeardFrom
  <2>2. CASE pc' = "top"
    BY <2>2, HeardNothing
  <2> QED BY <1>2, <2>1, <2>2 DEF Listen
<1>3. CASE Transcribe \/ Publish \/ StartWaiting \/ \E r \in Turns : TakeReply(r)
  <2>1. from' = from /\ pc \in {"stt", "send", "sent", "wait"}
    BY <1>3 DEF Transcribe, Publish, StartWaiting, TakeReply
  <2>2. st # "idle"
    BY <2>1 DEF HeardInv
  <2>3. pc' = "top" \/ (st' # "idle" /\ pc' \in {"stt", "send", "sent", "wait", "speak"})
    BY <1>3, <2>2 DEF Transcribe, Publish, StartWaiting, TakeReply, To
  <2> QED BY <2>1, <2>3, HeardNothing, HeardGoesOn
<1>4. CASE Speak
  <2>1. CASE pc' = "play" /\ UNCHANGED <<st, from, owner>> /\ voice' = IF owner = NoOne THEN Host ELSE owner
    <3>1. pc = "speak"
      BY <1>4 DEF Speak
    <3> QED BY <2>1, <3>1 DEF HeardInv
  <2>2. CASE AfterReply
    BY <2>2, HeardNothing DEF AfterReply
  <2> QED BY <1>4, <2>1, <2>2 DEF Speak
<1>5. CASE Play
  BY <1>5, HeardNothing DEF Play, AfterReply
<1>6. CASE Drain
  <2>1. pc = "top" /\ UNCHANGED <<owner, voice>>
    BY <1>6 DEF Drain
  <2>2. pc' = "top" \/ (To("processing") /\ pc' = "stt" /\ from' = src)
    BY <1>6, <2>1 DEF Drain, ApplyPress, ApplyCancel, ApplyRelease
  <2>3. To("processing") => st' # "idle"
    BY DEF To
  <2> QED BY <2>1, <2>2, <2>3, HeardNothing, HeardFrom
<1>7. CASE (\E s \in Nodes \cup {Host} : Judge(s)) \/ (\E q \in Turns : Reply(q)) \/ UNCHANGED vars
  <2>1. UNCHANGED <<st, pc, from, voice>>
    BY <1>7 DEF Judge, Reply, vars
  <2> QED BY <2>1, HeardKept
<1>8. CASE \E n \in Nodes : NodeStep(n)
  <2>1. UNCHANGED <<st, pc, from, voice>>
    BY <1>8 DEF NodeStep, NodeClaims, NodeVerdict, AudioEnd, StopNode, Drop, Reconnect
  <2> QED BY <2>1, HeardKept
<1>9. CASE ButtonPress \/ ButtonRelease \/ \E c \in Clients : CommandTimeout(c)
  <2>1. UNCHANGED <<st, pc, from, voice>>
    BY <1>9 DEF ButtonPress, ButtonRelease, CommandTimeout
  <2> QED BY <2>1, HeardKept
<1> QED BY <1>1, <1>2, <1>3, <1>4, <1>5, <1>6, <1>7, <1>8, <1>9 DEF Next, ThreadStep

-----------------------------------------------------------------------------
(* Where the host listens.                                                 *)

\* Without phones and the button, too.  While the host listens for its wake
\* word, the voice is free or of the node that woke the pipeline; a turn of
\* such a node opens with its source or without an owner.
HostInv ==
    /\ owner \in Nodes \cup {NoOne} /\ wakeReq \in Nodes \cup {NoOne}
    /\ ~ptt /\ cmds = <<>> /\ ph[Host] = "off"
    /\ pc \in {"mic", "claim"} => st = "idle" /\ owner \in {NoOne, holder}
    /\ pc = "won" => st = "idle" /\ owner = NoOne /\ holder = Host
    /\ wakeReq # NoOne => st = "idle" /\ holder = wakeReq /\ owner \in {NoOne, src}
    /\ st = "conversing" => owner = NoOne
    /\ HostMicIsClosed

OnlyNodes == Phones = {} /\ "button" \notin Faults /\ ShortTurns

LEMMA HostStart == Init => HostInv
BY VoiceAssumption DEF Init, HostInv, HostMicIsClosed, Clients

LEMMA HostKept ==
    ASSUME HostInv, UNCHANGED <<owner, wakeReq, ptt, cmds, ph, pc, st, holder, src>>
    PROVE  HostInv'
BY DEF HostInv, HostMicIsClosed

\* A turn that is open goes on, or ends; to listen again it needs a free voice.
LEMMA HostTurnKept ==
    ASSUME HostInv, st # "idle", UNCHANGED <<owner, wakeReq, src, cmds, ph>>, ~ptt',
           pc' \notin {"mic", "claim", "won"},
           st' \in {st, "idle", "processing", "speaking"} \/ owner = NoOne
    PROVE  HostInv'
BY DEF HostInv, HostMicIsClosed

\* The voice is handed back by its owner.
LEMMA HostHandedBack ==
    ASSUME HostInv, LeaseInv, NEW n \in Nodes, wake[n] # NoLease, HandBack(n),
           UNCHANGED <<wakeReq, ptt, cmds, ph, pc, st, holder>>
    PROVE  HostInv'
<1>1. owner = n
  BY DEF LeaseInv, LeaseOwnsTheVoice
<1>2. CASE st = "idle"
  <2>1. owner' = NoOne /\ src' = Host
    BY <1>1, <1>2 DEF HandBack, ReplyIsOver, SourceRestored
  <2> QED BY <1>2, <2>1 DEF HostInv, HostMicIsClosed
<1>3. CASE st # "idle"
  <2>1. owner' = owner /\ src' = SourceDeselected
    BY <1>1, <1>3 DEF HandBack, ReplyIsOver
  <2>2. st = "listening" => src' = src
    BY <2>1 DEF SourceDeselected, Capturing
  <2> QED BY <1>3, <2>1, <2>2 DEF HostInv, HostMicIsClosed
<1> QED BY <1>2, <1>3

LEMMA HostNodes ==
    ASSUME HostInv, LeaseInv, HoldInv, NEW n \in Nodes, NodeStep(n)
    PROVE  HostInv'
<1> USE DEF clients, setter
<1>1. CASE NodeClaims(n) \/ Reconnect(n)
  BY <1>1, HostKept DEF NodeClaims, Reconnect
<1>2. CASE NodeVerdict(n)
  <2>1. CASE bid[n] = "won" /\ MayAcquire(n) /\ Grant(n)
    <3>1. st = "idle" /\ holder = NoOne
      BY <2>1 DEF MayAcquire, HoldInv
    <3>2. pc # "won"
      BY <3>1, VoiceAssumption DEF HostInv
    <3>3. owner' = n /\ src' = n /\ wakeReq' = n /\ holder' = n /\ UNCHANGED <<st, ptt, pc, cmds, ph>>
      BY <1>2, <2>1 DEF Grant, NodeVerdict
    <3> QED BY <3>1, <3>2, <3>3 DEF HostInv, HostMicIsClosed
  <2>2. CASE Yield(n)
    BY <1>2, <2>2, HostKept DEF NodeVerdict, Yield
  <2> QED BY <1>2, <2>1, <2>2 DEF NodeVerdict
<1>3. CASE AudioEnd(n)
  <2>1. CASE wake[n] # NoLease /\ EndLease(n)
    BY <1>3, <2>1, HostHandedBack DEF AudioEnd, EndLease
  <2>2. CASE NoLeaseToEnd
    BY <1>3, <2>2, HostKept DEF AudioEnd, NoLeaseToEnd
  <2> QED BY <1>3, <2>1, <2>2 DEF AudioEnd
<1>4. ASSUME NEW l \in 1..MaxLeases, StopNode(n, l) PROVE HostInv'
  <2>1. CASE wake[n] = l /\ EndLease(n)
    <3>1. wake[n] # NoLease
      BY <2>1 DEF NoLease
    <3> QED BY <1>4, <2>1, <3>1, HostHandedBack DEF StopNode, EndLease
  <2>2. CASE NoLeaseToEnd
    BY <1>4, <2>2, HostKept DEF StopNode, NoLeaseToEnd
  <2> QED BY <1>4, <2>1, <2>2 DEF StopNode
<1>5. CASE Drop(n)
  <2>1. CASE wake[n] # NoLease /\ HandBack(n)
    BY <1>5, <2>1, HostHandedBack DEF Drop
  <2>2. CASE UNCHANGED <<owner, src, armed>>
    BY <1>5, <2>2, HostKept DEF Drop
  <2> QED BY <1>5, <2>1, <2>2 DEF Drop
<1> QED BY <1>1, <1>2, <1>3, <1>4, <1>5 DEF NodeStep

LEMMA HostStep == OnlyNodes /\ LeaseInv /\ HoldInv /\ HeardInv /\ HostInv /\ [Next]_vars => HostInv'
<1> SUFFICES ASSUME OnlyNodes, LeaseInv, HoldInv, HeardInv, HostInv, [Next]_vars PROVE HostInv'
  OBVIOUS
<1> USE DEF outside, clients
<1>1. CASE OpenNodeTurn
  <2>1. st' = "listening" /\ wakeReq' = NoOne /\ UNCHANGED <<pc, ptt, owner, src, cmds, ph>> /\ pc = "top"
    BY <1>1 DEF OpenNodeTurn, To
  <2>2. owner \in {NoOne, src} /\ owner # Host
    BY <1>1, VoiceAssumption DEF OpenNodeTurn, HostInv
  <2> QED BY <2>1, <2>2 DEF HostInv, HostMicIsClosed
<1>2. CASE ListenForWake
  BY <1>2 DEF ListenForWake, HostMayListen, HostInv, HostMicIsClosed, setter
<1>3. CASE ReadIdleChunk
  <2>1. UNCHANGED <<st, holder, ptt, owner, src, wakeReq, cmds, ph>> /\ pc = "mic" /\ pc' \in {"top", "claim"}
    BY <1>3 DEF ReadIdleChunk
  <2> QED BY <2>1 DEF HostInv, HostMicIsClosed
<1>4. CASE HostVerdict
  <2>1. UNCHANGED <<st, ptt, owner, src, wakeReq, cmds, ph>> /\ pc = "claim"
    BY <1>4 DEF HostVerdict
  <2>2. CASE bid[Host] = "won" /\ holder' = Host /\ pc' = "won"
    <3>1. holder = NoOne
      BY <2>2 DEF HoldInv
    <3>2. owner = NoOne /\ wakeReq = NoOne
      BY <2>1, <3>1 DEF HostInv
    <3> QED BY <2>1, <2>2, <3>2 DEF HostInv, HostMicIsClosed
  <2>3. CASE pc' = "top" /\ holder' = holder
    BY <2>1, <2>3 DEF HostInv, HostMicIsClosed
  <2> QED BY <1>4, <2>2, <2>3 DEF HostVerdict
<1>5. CASE OpenHostTurn
  <2>1. pc = "won" /\ pc' = "top" /\ st' = "listening" /\ UNCHANGED <<ptt, owner, src, wakeReq, cmds, ph>>
    BY <1>5 DEF OpenHostTurn, To
  <2>2. owner = NoOne /\ wakeReq = NoOne
    BY <2>1, VoiceAssumption DEF HostInv
  <2> QED BY <2>1, <2>2 DEF HostInv, HostMicIsClosed
<1>6. CASE Listen \/ Converse
  <2>1. st # "idle" /\ UNCHANGED <<owner, wakeReq, src, cmds, ph>> /\ ~ptt'
    BY <1>6 DEF Listen, Converse, HostInv
  <2>2. pc' \notin {"mic", "claim", "won"}
    BY <1>6 DEF Listen, Converse
  <2>3. st' \in {"idle", "processing"} \/ owner = NoOne
    BY <1>6 DEF Listen, Converse, ToIdle, To, HostInv
  <2> QED BY <2>1, <2>2, <2>3, HostTurnKept
<1>7. CASE Transcribe \/ Publish \/ StartWaiting \/ StopWaiting \/ \E r \in Turns : TakeReply(r)
  <2>1. UNCHANGED <<owner, wakeReq, src, cmds, ph>> /\ ~ptt'
    BY <1>7 DEF Transcribe, Publish, StartWaiting, StopWaiting, TakeReply, HostInv
  <2>2. pc \in {"stt", "send", "sent", "wait"} /\ pc' \notin {"mic", "claim", "won"}
    BY <1>7 DEF Transcribe, Publish, StartWaiting, StopWaiting, GivesUp, TakeReply, HeardInv
  <2>3. st # "idle"
    BY <2>2 DEF HeardInv
  <2>4. st' \in {st, "idle", "speaking"}
    BY <1>7 DEF Transcribe, Publish, StartWaiting, StopWaiting, TakeReply, ToIdle, To, setter
  <2> QED BY <2>1, <2>2, <2>3, <2>4, HostTurnKept
<1>8. CASE Speak \/ Play
  <2>1. UNCHANGED <<owner, wakeReq, src, cmds, ph>> /\ ~ptt'
    <3>1. UNCHANGED <<owner, wakeReq, src, cmds, ph, ptt>>
      BY <1>8 DEF Speak, Play, AfterReply
    <3> QED BY <3>1 DEF HostInv
  <2>2. pc \in {"speak", "play"} /\ pc' \notin {"mic", "claim", "won"}
    BY <1>8 DEF Speak, Play, AfterReply
  <2>3. st # "idle"
    BY <2>2 DEF HeardInv
  <2>4. pc = "play" /\ voice = Host => owner = NoOne
    BY VoiceAssumption DEF HeardInv, HostInv
  <2>5. st' \in {st, "idle"} \/ owner = NoOne
    <3>1. ToIdle => st' = "idle"
      BY DEF ToIdle
    <3>2. \/ AfterReply \/ UNCHANGED setter \/ ToIdle
          \/ pc = "play" /\ voice = Host
      BY <1>8 DEF Speak, Play
    <3>3. AfterReply => ToIdle \/ owner = NoOne
      BY DEF AfterReply
    <3>4. UNCHANGED setter => st' = st
      BY DEF setter
    <3> QED BY <2>4, <3>1, <3>2, <3>3, <3>4
  <2> QED BY <2>1, <2>2, <2>3, <2>5, HostTurnKept
<1>9. ~HandlerFails /\ ~Drain
  BY DEF HandlerFails, Drain, OnlyNodes, ShortTurns, HostInv
<1>10. CASE (\E s \in Nodes \cup {Host} : Judge(s)) \/ (\E q \in Turns : Reply(q)) \/ UNCHANGED vars
  BY <1>10, HostKept DEF Judge, Reply, vars, setter
<1>11. CASE \E n \in Nodes : NodeStep(n)
  BY <1>11, HostNodes
<1>12. /\ ~ButtonPress /\ ~ButtonRelease /\ ~\E p \in Phones : PhoneStep(p)
       /\ ~\E c \in Clients : CommandTimeout(c)
  BY DEF ButtonPress, ButtonRelease, CommandTimeout, OnlyNodes, HostInv
<1> QED BY <1>1, <1>2, <1>3, <1>4, <1>5, <1>6, <1>7, <1>8, <1>9, <1>10, <1>11, <1>12 DEF Next, ThreadStep

-----------------------------------------------------------------------------
(* Types and bounds.                                                       *)

\* Phones that are past the interruption of their cleanup, and nodes whose bid
\* is not settled.
Done    == {p \in Phones : ph[p] \in {"release", "gone"}}
Bidders == {n \in Nodes : bid[n] # "none"}

\* The cleanup of a phone opens a turn at most once; a bid may become a lease.
BoundsInv ==
    /\ turn <= MaxTurns + Cardinality(Done)
    /\ granted + Cardinality(Bidders) <= MaxLeases

TypesInv == TypeOK /\ BoundsInv

LEMMA FewPhones ==
    /\ IsFiniteSet(Done) /\ Cardinality(Done) \in Nat
    /\ Cardinality(Phones) \in Nat /\ Cardinality(Done) <= Cardinality(Phones)
<1>1. IsFiniteSet(Phones) /\ Done \in SUBSET Phones
  BY VoiceAssumption DEF VoiceAssumption, Done
<1> QED BY <1>1, FS_Subset, FS_CardinalityType

LEMMA FewBidders == IsFiniteSet(Bidders) /\ Cardinality(Bidders) \in Nat
<1>1. IsFiniteSet(Nodes) /\ Bidders \in SUBSET Nodes
  BY VoiceAssumption DEF VoiceAssumption, Bidders
<1> QED BY <1>1, FS_Subset, FS_CardinalityType

LEMMA TypesStart == Init => TypesInv
<1> SUFFICES ASSUME Init PROVE TypesInv
  OBVIOUS
<1>1. 0 \in Turns /\ 0 \in 0..MaxLeases /\ MaxTurns \in Nat /\ MaxLeases \in Nat
  BY FewPhones, VoiceAssumption DEF VoiceAssumption, Turns
<1>2. cmds \in Seq(Clients \X {"press", "release", "cancel"})
  BY EmptySeq DEF Init
<1>3. TypeOK
  BY <1>1, <1>2 DEF Init, TypeOK, NoLease, Sources, Clients
<1>4. Bidders = {}
  BY DEF Init, Bidders
<1>5. BoundsInv
  BY <1>1, <1>4, FewPhones, FS_EmptySet DEF Init, BoundsInv
<1> QED BY <1>3, <1>5 DEF TypesInv

\* One client's place changes, and not back from the end of its cleanup.
Places == {"off", "held", "starting", "pressing", "refused", "active", "releasing", "cancel", "canceling",
           "interrupt", "release", "gone"}
Moves(c, place) == /\ ph' = [ph EXCEPT ![c] = place]
                   /\ ph[c] \in {"release", "gone"} => place = "gone"

LEMMA PhasesMove ==
    ASSUME TypeOK, [Next]_vars
    PROVE  ph' = ph \/ \E c \in Clients, place \in Places : Moves(c, place)
<1> USE DEF outside, clients
<1>1. CASE ThreadStep
  <2>1. ASSUME Drain PROVE ph' = ph \/ \E c \in Clients, place \in Places : Moves(c, place)
    <3> DEFINE d == Head(cmds)[1]
    <3>1. d \in Clients
      BY <2>1, HeadTailProperties DEF TypeOK, Drain
    <3>2. \E w \in {"pressing", "canceling", "releasing"}, place \in Places : ph' = Told(d, w, place)
      BY <2>1 DEF Drain, ApplyPress, ApplyCancel, ApplyRelease, Places
    <3> HIDE DEF d
    <3> QED BY <3>1, <3>2 DEF Told, Moves
  <2>2. ~Drain => ph' = ph
    BY <1>1 DEF ThreadStep, OpenNodeTurn, ListenForWake, ReadIdleChunk, HostVerdict, OpenHostTurn, Listen,
                Converse, Transcribe, Publish, StartWaiting, TakeReply, StopWaiting, Speak, AfterReply, Play,
                HandlerFails
  <2> QED BY <2>1, <2>2
<1>2. CASE \/ \E s \in Nodes \cup {Host} : Judge(s)
           \/ \E q \in Turns : Reply(q)
           \/ \E n \in Nodes : NodeStep(n)
           \/ UNCHANGED vars
  BY <1>2 DEF Judge, Reply, NodeStep, NodeClaims, NodeVerdict, AudioEnd, StopNode, Drop, Reconnect, vars
<1>3. ASSUME NEW p \in Phones, PhoneStep(p)
      PROVE  ph' = ph \/ \E c \in Clients, place \in Places : Moves(c, place)
  <2>1. p \in Clients
    BY DEF Clients
  <2>2. ph' = ph \/ \E place \in Places : Moves(p, place)
    BY <1>3 DEF PhoneStep, PhoneAcquire, PhoneStart, PhonePress, PhoneRefused, PhoneStop, PhoneInterrupt,
                PhoneLeaves, CleanupCancel, CleanupInterrupt, CleanupRelease, Ask, Moves, Places
  <2> QED BY <2>1, <2>2
<1>4. CASE ButtonPress \/ ButtonRelease
  BY <1>4 DEF ButtonPress, ButtonRelease, Ask, Moves, Places, Clients
<1>5. ASSUME NEW c \in Clients, CommandTimeout(c)
      PROVE  ph' = ph \/ \E place \in Places : Moves(c, place)
  <2>1. ph' = ph \/ \E act : Awaits(c, act) /\ ph' = [ph EXCEPT ![c] = AfterTimeout(c, act)]
    BY <1>5 DEF CommandTimeout
  <2>2. \A act : Awaits(c, act) => ph[c] \notin {"release", "gone"}
    BY DEF Awaits
  <2>3. \A act : AfterTimeout(c, act) \in Places
    BY DEF AfterTimeout, Places
  <2> QED BY <2>1, <2>2, <2>3 DEF Moves
<1> QED BY <1>1, <1>2, <1>3, <1>4, <1>5 DEF Next

PttCommands == Clients \X {"press", "release", "cancel"}

LEMMA CommandsMove ==
    ASSUME TypeOK, [Next]_vars
    PROVE  cmds' \in Seq(PttCommands)
<1>0. cmds \in Seq(PttCommands)
  BY DEF TypeOK, PttCommands
<1>1. ASSUME NEW c \in Clients, NEW act \in {"press", "release", "cancel"}, NEW where, Ask(c, act, where)
      PROVE  cmds' \in Seq(PttCommands)
  <2>1. cmds' = Append(cmds, <<c, act>>) /\ <<c, act>> \in PttCommands
    BY <1>1 DEF Ask, PttCommands
  <2> QED BY <1>0, <2>1, AppendProperties
<1>2. ASSUME Drain PROVE cmds' \in Seq(PttCommands)
  <2> QED BY <1>0, <1>2, HeadTailProperties DEF Drain
<1>3. ASSUME NEW c \in Clients, CommandTimeout(c) PROVE cmds' \in Seq(PttCommands)
  <2>1. PICK i \in DOMAIN cmds : cmds' = RemoveAt(cmds, i)
    BY <1>3 DEF CommandTimeout
  <2>2. /\ i \in Int /\ i - 1 \in Int /\ i + 1 \in Int /\ 1 \in Int /\ Len(cmds) \in Int
        /\ \A j \in 1..(i - 1) : cmds[j] \in PttCommands
        /\ \A j \in (i + 1)..Len(cmds) : cmds[j] \in PttCommands
    BY <1>0, <2>1, LenProperties
  <2>3. SubSeq(cmds, 1, i - 1) \in Seq(PttCommands) /\ SubSeq(cmds, i + 1, Len(cmds)) \in Seq(PttCommands)
    BY <2>2, SubSeqProperties
  <2> QED BY <2>1, <2>3, ConcatProperties DEF RemoveAt
<1>4. ASSUME NEW p \in Phones, PhoneStep(p) PROVE cmds' \in Seq(PttCommands)
  <2>1. p \in Clients
    BY DEF Clients
  <2>2. cmds' = cmds \/ \E act \in {"press", "release", "cancel"}, where \in Places : Ask(p, act, where)
    BY <1>4 DEF PhoneStep, PhoneAcquire, PhoneStart, PhonePress, PhoneRefused, PhoneStop, PhoneInterrupt,
                PhoneLeaves, CleanupCancel, CleanupInterrupt, CleanupRelease, Places, outside, clients
  <2> QED BY <1>0, <1>1, <2>1, <2>2
<1>5. CASE ButtonPress \/ ButtonRelease
  <2>1. Host \in Clients
    BY DEF Clients
  <2>2. Ask(Host, "press", "pressing") \/ Ask(Host, "release", "releasing")
    BY <1>5 DEF ButtonPress, ButtonRelease
  <2> QED BY <1>1, <2>1, <2>2
<1>6. ASSUME \/ ThreadStep /\ ~Drain
             \/ \E s \in Nodes \cup {Host} : Judge(s)
             \/ \E q \in Turns : Reply(q)
             \/ \E n \in Nodes : NodeStep(n)
             \/ UNCHANGED vars
      PROVE  cmds' = cmds
  BY <1>6 DEF Judge, Reply, NodeStep, NodeClaims, NodeVerdict, AudioEnd, StopNode, Drop, Reconnect, vars,
              ThreadStep, OpenNodeTurn, ListenForWake, ReadIdleChunk, HostVerdict, OpenHostTurn, Listen,
              Converse, Transcribe, Publish, StartWaiting, TakeReply, StopWaiting, Speak, AfterReply, Play,
              HandlerFails, outside, clients
<1>7. CASE ThreadStep
  BY <1>2, <1>6, <1>7, <1>0
<1> QED BY <1>0, <1>3, <1>4, <1>5, <1>6, <1>7 DEF Next

\* A turn is opened by an utterance, an interruption, or the cleanup of a phone.
LEMMA TurnsOpen ==
    ASSUME TypeOK, [Next]_vars
    PROVE  \/ turn' = turn
           \/ turn' = turn + 1 /\ turn < MaxTurns
           \/ turn' = turn + 1 /\ \E p \in Phones : ph[p] = "interrupt" /\ ph' = [ph EXCEPT ![p] = "release"]
<1>1. CASE ThreadStep
  BY <1>1 DEF ThreadStep, OpenNodeTurn, ListenForWake, ReadIdleChunk, HostVerdict, OpenHostTurn, Listen,
              Converse, Transcribe, Publish, StartWaiting, TakeReply, StopWaiting, Speak, AfterReply, Play,
              HandlerFails, Drain
<1>2. CASE \E p \in Phones : PhoneStep(p)
  BY <1>2 DEF PhoneStep, PhoneAcquire, PhoneStart, PhonePress, PhoneRefused, PhoneStop, PhoneInterrupt,
              PhoneLeaves, CleanupCancel, CleanupInterrupt, CleanupRelease, Interrupt
<1>3. CASE \/ \E s \in Nodes \cup {Host} : Judge(s)
           \/ \E q \in Turns : Reply(q)
           \/ \E n \in Nodes : NodeStep(n)
           \/ ButtonPress \/ ButtonRelease
           \/ \E c \in Clients : CommandTimeout(c)
           \/ UNCHANGED vars
  BY <1>3 DEF Judge, Reply, NodeStep, NodeClaims, NodeVerdict, AudioEnd, StopNode, Drop, Reconnect, vars,
              ButtonPress, ButtonRelease, CommandTimeout
<1> QED BY <1>1, <1>2, <1>3 DEF Next

LEMMA TurnsAreBounded ==
    ASSUME TypesInv, [Next]_vars
    PROVE  turn' <= MaxTurns + Cardinality(Done') /\ turn' \in Turns
<1>1. turn \in Nat /\ MaxTurns \in Nat /\ turn <= MaxTurns + Cardinality(Done)
  BY FewPhones, VoiceAssumption DEF VoiceAssumption, TypesInv, TypeOK, Turns, BoundsInv
<1>2. ph' = ph \/ \E c \in Clients, place \in Places : Moves(c, place)
  BY PhasesMove DEF TypesInv
<1>3. DOMAIN ph = Clients
  BY DEF TypesInv, TypeOK
<1>4. Done \in SUBSET Done'
  BY <1>2, <1>3 DEF Done, Moves, Clients
<1>5. Done' \in SUBSET Phones /\ IsFiniteSet(Phones)
  BY VoiceAssumption DEF VoiceAssumption, Done
<1>6. IsFiniteSet(Done') /\ Cardinality(Done') \in Nat /\ Cardinality(Done') <= Cardinality(Phones)
  BY <1>5, FS_Subset, FS_CardinalityType
<1>7. Cardinality(Done) <= Cardinality(Done')
  BY <1>4, <1>6, FS_Subset
<1>8. turn' \in Nat /\ turn' <= MaxTurns + Cardinality(Done')
  <2>1. CASE turn' = turn \/ (turn' = turn + 1 /\ turn < MaxTurns)
    BY <1>1, <1>6, <1>7, <2>1, FewPhones
  <2>2. ASSUME NEW p \in Phones, ph[p] = "interrupt", ph' = [ph EXCEPT ![p] = "release"], turn' = turn + 1
        PROVE  turn' \in Nat /\ turn' <= MaxTurns + Cardinality(Done')
    <3>1. Done' = Done \cup {p} /\ p \notin Done
      BY <1>3, <2>2 DEF Done, Clients
    <3>2. Cardinality(Done') = Cardinality(Done) + 1
      BY <3>1, FewPhones, FS_AddElement
    <3> QED BY <1>1, <2>2, <3>2, FewPhones
  <2>3. TypeOK
    BY DEF TypesInv
  <2> QED BY <2>1, <2>2, <2>3, TurnsOpen
<1> QED BY <1>1, <1>6, <1>8, FewPhones DEF Turns

\* A claim waits for its verdict, and counts as the lease it may become.
LEMMA LeasesAreBounded ==
    ASSUME TypesInv, [Next]_vars
    PROVE  granted' + Cardinality(Bidders') <= MaxLeases /\ granted' \in 0..MaxLeases
<1>1. /\ granted \in Nat /\ MaxLeases \in Nat /\ granted + Cardinality(Bidders) <= MaxLeases
      /\ DOMAIN bid = Nodes \cup {Host}
  BY VoiceAssumption DEF VoiceAssumption, TypesInv, TypeOK, BoundsInv
<1>2. CASE granted' = granted /\ Bidders' \in SUBSET Bidders
  <2>1. Cardinality(Bidders') \in Nat /\ Cardinality(Bidders') <= Cardinality(Bidders)
    BY <1>2, FewBidders, FS_Subset, FS_CardinalityType
  <2> QED BY <1>1, <1>2, <2>1, FewBidders
<1>3. ASSUME NEW n \in Nodes, NodeClaims(n)
      PROVE  granted' + Cardinality(Bidders') <= MaxLeases /\ granted' \in 0..MaxLeases
  <2>1. bid[n] = "none" /\ granted' = granted /\ granted + Cardinality(Bidders) < MaxLeases
    BY <1>3 DEF NodeClaims, links, Bidders
  <2>2. Bidders' = Bidders \cup {n} /\ n \notin Bidders
    BY <1>1, <1>3, <2>1 DEF NodeClaims, Bid, Bidders
  <2>3. Cardinality(Bidders') = Cardinality(Bidders) + 1
    BY <2>2, FewBidders, FS_AddElement
  <2> QED BY <1>1, <2>1, <2>3, FewBidders
<1>4. ASSUME NEW n \in Nodes, NodeVerdict(n)
      PROVE  granted' + Cardinality(Bidders') <= MaxLeases /\ granted' \in 0..MaxLeases
  <2>1. granted' \in {granted, granted + 1} /\ bid[n] # "none" /\ bid' = [bid EXCEPT ![n] = "none"]
    BY <1>4 DEF NodeVerdict, Grant, Yield
  <2>2. Bidders' = Bidders \ {n} /\ n \in Bidders
    BY <1>1, <2>1 DEF Bidders
  <2>3. Cardinality(Bidders') = Cardinality(Bidders) - 1 /\ Cardinality(Bidders') \in Nat
    BY <2>2, FewBidders, FS_RemoveElement, FS_CardinalityType
  <2> QED BY <1>1, <2>1, <2>3, FewBidders
<1>5. CASE ThreadStep
  <2>1. granted' = granted
    BY <1>5 DEF ThreadStep, OpenNodeTurn, ListenForWake, ReadIdleChunk, HostVerdict, OpenHostTurn, Listen,
                Converse, Transcribe, Publish, StartWaiting, TakeReply, StopWaiting, Speak, AfterReply, Play,
                HandlerFails, Drain, outside, links
  <2>2. \A n \in Nodes : bid'[n] # "none" => bid[n] # "none"
    BY <1>1, <1>5, VoiceAssumption
       DEF ThreadStep, OpenNodeTurn, ListenForWake, ReadIdleChunk, HostVerdict, OpenHostTurn, Listen,
           Converse, Transcribe, Publish, StartWaiting, TakeReply, StopWaiting, Speak, AfterReply, Play,
           HandlerFails, Drain, outside, Bid, OpenBidsLose
  <2> QED BY <1>2, <2>1, <2>2 DEF Bidders
<1>6. ASSUME NEW s \in Nodes \cup {Host}, Judge(s)
      PROVE  granted' = granted /\ Bidders' \in SUBSET Bidders
  BY <1>1, <1>6 DEF Judge, OpenBidsLose, links, Bidders
<1>7. CASE \E p \in Phones : PhoneStep(p)
  <2>1. granted' = granted /\ bid' = bid
    BY <1>7 DEF PhoneStep, PhoneAcquire, PhoneStart, PhonePress, PhoneRefused, PhoneStop, PhoneInterrupt,
                PhoneLeaves, CleanupCancel, CleanupInterrupt, CleanupRelease, outside, links
  <2> QED BY <1>2, <2>1 DEF Bidders
<1>8. ASSUME NEW n \in Nodes, NodeStep(n), ~NodeClaims(n), ~NodeVerdict(n)
      PROVE  granted' = granted /\ bid' = bid
  BY <1>8 DEF NodeStep, AudioEnd, StopNode, Drop, Reconnect
<1>9. ASSUME \/ \E q \in Turns : Reply(q)
             \/ ButtonPress \/ ButtonRelease
             \/ \E c \in Clients : CommandTimeout(c)
             \/ UNCHANGED vars
      PROVE  granted' = granted /\ bid' = bid
  BY <1>9 DEF Reply, ButtonPress, ButtonRelease, CommandTimeout, vars, outside, links
<1>10. granted' = granted /\ bid' = bid => granted' = granted /\ Bidders' \in SUBSET Bidders
  BY DEF Bidders
<1>11. CASE \E n \in Nodes : NodeStep(n)
  BY <1>2, <1>3, <1>4, <1>8, <1>10, <1>11
<1> QED BY <1>2, <1>5, <1>6, <1>7, <1>9, <1>10, <1>11 DEF Next

States == {"idle", "listening", "processing", "speaking", "conversing"}
Points == {"top", "mic", "claim", "won", "stt", "send", "sent", "wait", "cancelled", "speak", "play"}

\* The state, the hold and the path.
SetterTypes ==
    /\ st \in States
    /\ holder \in Nodes \cup {Host, NoOne} /\ path \in Nodes \cup {Host, NoOne}
    /\ stops \subseteq Nodes \X (1..MaxLeases)

LEMMA CallbackTypes == TypeOK => Callback \subseteq Nodes \X (1..MaxLeases)
<1> SUFFICES ASSUME TypeOK PROVE Callback \subseteq Nodes \X (1..MaxLeases)
  OBVIOUS
<1>1. MaxLeases \in Nat
  BY VoiceAssumption DEF VoiceAssumption
<1>2. \A n \in Nodes : wake[n] # NoLease => wake[n] \in 1..MaxLeases
  BY <1>1 DEF TypeOK, NoLease
<1>3. stops \subseteq Nodes \X (1..MaxLeases)
  BY DEF TypeOK
<1> QED BY <1>2, <1>3 DEF Callback

LEMMA SetterMoves ==
    /\ TypeOK /\ ToIdle => SetterTypes'
    /\ \A s \in States : TypeOK /\ To(s) => SetterTypes'
    /\ TypeOK /\ UNCHANGED setter => SetterTypes'
<1>1. TypeOK /\ ToIdle => SetterTypes'
  BY CallbackTypes DEF TypeOK, ToIdle, PathAfterTurn, SetterTypes, States
<1>2. \A s \in States : TypeOK /\ To(s) => SetterTypes'
  BY DEF TypeOK, To, SetterTypes
<1>3. TypeOK /\ UNCHANGED setter => SetterTypes'
  BY DEF TypeOK, setter, SetterTypes, States
<1> QED BY <1>1, <1>2, <1>3

LEMMA BidKeepsPath ==
    ASSUME TypeOK, NEW s \in Nodes \cup {Host}, Bid(s)
    PROVE  path' \in {path, NoOne} /\ bid' \in [Nodes \cup {Host} -> {"none", "open", "won", "lost"}]
BY DEF TypeOK, Bid

LEMMA SetterTypesStep == TypeOK /\ [Next]_vars => SetterTypes'
<1> SUFFICES ASSUME TypeOK, [Next]_vars PROVE SetterTypes'
  OBVIOUS
<1>1. ASSUME UNCHANGED <<st, holder, stops>>, path' \in {path, NoOne} \cup Nodes \cup {Host} PROVE SetterTypes'
  BY <1>1 DEF TypeOK, SetterTypes, States
<1>2. CASE ReadIdleChunk
  BY <1>1, <1>2, BidKeepsPath DEF ReadIdleChunk
<1>3. CASE HostVerdict
  BY <1>3 DEF HostVerdict, TypeOK, SetterTypes, States
<1>4. CASE HandlerFails
  BY <1>4, CallbackTypes DEF HandlerFails, TypeOK, SetterTypes, States
<1>5. ASSUME \/ ToIdle \/ UNCHANGED setter
             \/ To("listening") \/ To("processing") \/ To("speaking") \/ To("conversing")
      PROVE  SetterTypes'
  BY <1>5, SetterMoves DEF States
<1>6. CASE ThreadStep /\ ~ReadIdleChunk /\ ~HostVerdict /\ ~HandlerFails
  <2>1. \/ ToIdle \/ UNCHANGED setter
        \/ To("listening") \/ To("processing") \/ To("speaking") \/ To("conversing")
    BY <1>6 DEF ThreadStep, OpenNodeTurn, ListenForWake, OpenHostTurn, Listen, Converse, Transcribe, Publish,
                StartWaiting, TakeReply, StopWaiting, Speak, AfterReply, Play, Drain, ApplyPress, ApplyCancel,
                ApplyRelease
  <2> QED BY <1>5, <2>1
<1>7. ASSUME NEW p \in Phones, PhoneStep(p) PROVE SetterTypes'
  <2>1. ToIdle \/ UNCHANGED setter
    BY <1>7 DEF PhoneStep, PhoneAcquire, PhoneStart, PhonePress, PhoneRefused, PhoneStop, PhoneInterrupt,
                PhoneLeaves, CleanupCancel, CleanupInterrupt, CleanupRelease, Interrupt
  <2> QED BY <1>5, <2>1
<1>8. ASSUME NEW s \in Nodes \cup {Host}, Judge(s) PROVE SetterTypes'
  BY <1>1, <1>8 DEF Judge
<1>9. ASSUME NEW n \in Nodes, NodeStep(n) PROVE SetterTypes'
  <2>1. CASE NodeClaims(n)
    BY <1>1, <2>1, BidKeepsPath DEF NodeClaims
  <2>2. CASE NodeVerdict(n)
    <3>1. UNCHANGED <<st, stops>> /\ holder' \in {holder, n} /\ path' \in {path, NoOne}
      BY <2>2 DEF NodeVerdict, Grant, Yield, PathGivenBack
    <3> QED BY <3>1 DEF TypeOK, SetterTypes, States
  <2>3. ASSUME NEW l \in 1..MaxLeases, StopNode(n, l) PROVE SetterTypes'
    BY <2>3 DEF StopNode, TypeOK, SetterTypes, States
  <2>4. CASE AudioEnd(n) \/ Drop(n) \/ Reconnect(n)
    BY <1>5, <2>4 DEF AudioEnd, Drop, Reconnect
  <2> QED BY <1>9, <2>1, <2>2, <2>3, <2>4 DEF NodeStep
<1>10. CASE (\E q \in Turns : Reply(q)) \/ ButtonPress \/ ButtonRelease \/ (\E c \in Clients : CommandTimeout(c))
            \/ UNCHANGED vars
  <2>1. UNCHANGED setter
    BY <1>10 DEF Reply, ButtonPress, ButtonRelease, CommandTimeout, vars
  <2> QED BY <1>5, <2>1
<1> QED BY <1>2, <1>3, <1>4, <1>6, <1>7, <1>8, <1>9, <1>10 DEF Next

\* The owner, the source and the request of a node.
OwnerTypes ==
    /\ owner \in Nodes \cup Phones \cup {NoOne} /\ src \in Sources
    /\ wakeReq \in Nodes \cup {NoOne} /\ lease \in Phones \cup {NoOne}

LEMMA OwnerTypesStep == TypeOK /\ [Next]_vars => OwnerTypes'
<1> SUFFICES ASSUME TypeOK, [Next]_vars PROVE OwnerTypes'
  OBVIOUS
<1> USE DEF outside, clients
<1>1. ASSUME wakeReq' \in {wakeReq, NoOne} \cup Nodes, lease' \in {lease, NoOne} \cup Phones,
             owner' \in {owner, NoOne} \cup Nodes \cup Phones, src' \in {src, Host} \cup Nodes \cup Phones
      PROVE  OwnerTypes'
  BY <1>1 DEF TypeOK, OwnerTypes, Sources, Clients
<1>2. CASE ThreadStep
  <2>1. wakeReq' \in {wakeReq, NoOne} /\ UNCHANGED <<owner, src, lease>>
    BY <1>2 DEF ThreadStep, OpenNodeTurn, ListenForWake, ReadIdleChunk, HostVerdict, OpenHostTurn, Listen,
                Converse, Transcribe, Publish, StartWaiting, TakeReply, StopWaiting, Speak, AfterReply, Play,
                HandlerFails, Drain
  <2> QED BY <1>1, <2>1
<1>3. ASSUME NEW n \in Nodes, NodeStep(n) PROVE OwnerTypes'
  <2>1. /\ wakeReq' \in {wakeReq, n} /\ lease' = lease
        /\ owner' \in {owner, NoOne, n} /\ src' \in {src, Host, n}
    BY <1>3 DEF NodeStep, NodeClaims, NodeVerdict, Grant, Yield, AudioEnd, StopNode, EndLease, NoLeaseToEnd,
                HandBack, SourceRestored, SourceDeselected, Drop, Reconnect
  <2> QED BY <1>1, <2>1
<1>4. ASSUME NEW p \in Phones, PhoneStep(p) PROVE OwnerTypes'
  <2>1. /\ wakeReq' = wakeReq /\ lease' \in {lease, NoOne, p}
        /\ owner' \in {owner, NoOne, p} /\ src' \in {src, Host, p}
    BY <1>4 DEF PhoneStep, PhoneAcquire, PhoneStart, PhonePress, PhoneRefused, PhoneStop, PhoneInterrupt,
                PhoneLeaves, CleanupCancel, CleanupInterrupt, CleanupRelease, ReleaseOwner, SourceRestored,
                SourceDeselected
  <2> QED BY <1>1, <2>1
<1>5. CASE \/ \E s \in Nodes \cup {Host} : Judge(s)
           \/ \E q \in Turns : Reply(q)
           \/ ButtonPress \/ ButtonRelease
           \/ \E c \in Clients : CommandTimeout(c)
           \/ UNCHANGED vars
  <2>1. UNCHANGED <<wakeReq, lease, owner, src>>
    BY <1>5 DEF Judge, Reply, ButtonPress, ButtonRelease, CommandTimeout, vars
  <2> QED BY <1>1, <2>1
<1> QED BY <1>2, <1>3, <1>4, <1>5 DEF Next

\* Where the thread is, and what it talks about.
ThreadTypes ==
    /\ pc \in Points /\ from \in Sources /\ voice \in Sources
    /\ question \in Turns /\ expected \in Turns /\ spoken \in Turns
    /\ asked \subseteq Turns /\ replies \subseteq Turns

LEMMA ThreadTypesStep == TypeOK /\ [Next]_vars /\ turn' \in Turns => ThreadTypes'
<1> SUFFICES ASSUME TypeOK, [Next]_vars, turn' \in Turns PROVE ThreadTypes'
  OBVIOUS
<1> USE DEF talk, agent
<1>1. pc' \in Points
  <2>1. CASE ThreadStep
    <3>1. CASE Drain
      <4>1. pc' = pc \/ pc' = "stt"
        BY <3>1 DEF Drain, ApplyPress, ApplyCancel, ApplyRelease
      <4> QED BY <4>1 DEF TypeOK, Points
    <3>2. CASE ThreadStep /\ ~Drain
      <4>1. \/ pc' = pc
            \/ pc' \in {"top", "mic", "claim", "won", "stt", "send", "sent", "wait", "speak", "play"}
        BY <3>2 DEF ThreadStep, OpenNodeTurn, ListenForWake, ReadIdleChunk, HostVerdict,
                    OpenHostTurn, Listen, Converse, Transcribe, Publish, StartWaiting, TakeReply, StopWaiting,
                    Speak, AfterReply, Play, HandlerFails
      <4> QED BY <4>1 DEF TypeOK, Points
    <3> QED BY <2>1, <3>1, <3>2
  <2>2. CASE ~ThreadStep
    <3>1. pc' = pc \/ pc' = "cancelled"
      BY <2>2 DEF Next, vars, Judge, Reply, NodeStep, NodeClaims, NodeVerdict, AudioEnd, StopNode, Drop,
             Reconnect, PhoneStep, PhoneAcquire, PhoneStart, PhonePress, PhoneRefused, PhoneStop,
             PhoneInterrupt, PhoneLeaves, CleanupCancel, CleanupInterrupt, CleanupRelease, Interrupt,
             ButtonPress, ButtonRelease, CommandTimeout
    <3> QED BY <3>1 DEF TypeOK, Points
  <2> QED BY <2>1, <2>2
<1>2. from' \in {from, src}
  BY DEF Next, vars, ThreadStep, OpenNodeTurn, ListenForWake, ReadIdleChunk, HostVerdict,
         OpenHostTurn, Listen, Converse, Transcribe, Publish, StartWaiting, TakeReply, StopWaiting, Speak,
         AfterReply, Play, HandlerFails, Drain, ApplyPress, ApplyCancel, ApplyRelease, Judge, Reply, NodeStep,
         NodeClaims, NodeVerdict, AudioEnd, StopNode, Drop, Reconnect, PhoneStep, PhoneAcquire, PhoneStart,
         PhonePress, PhoneRefused, PhoneStop, PhoneInterrupt, PhoneLeaves, CleanupCancel, CleanupInterrupt,
         CleanupRelease, ButtonPress, ButtonRelease, CommandTimeout
<1>3. CASE ThreadStep
  <2>1. voice' = voice \/ voice' = IF owner = NoOne THEN Host ELSE owner
    BY <1>3 DEF ThreadStep, OpenNodeTurn, ListenForWake, ReadIdleChunk, HostVerdict, OpenHostTurn, Listen,
                Converse, Transcribe, Publish, StartWaiting, TakeReply, StopWaiting, Speak, Play,
                HandlerFails, Drain
  <2>2. /\ question' \in {question, turn'} /\ expected' \in {expected, turn}
        /\ asked' \subseteq asked \cup {question}
    BY <1>3 DEF ThreadStep, OpenNodeTurn, ListenForWake, ReadIdleChunk, HostVerdict, OpenHostTurn, Listen,
                Converse, Transcribe, Publish, StartWaiting, TakeReply, StopWaiting, Speak, AfterReply, Play,
                HandlerFails, Drain
  <2>3. spoken' \in {spoken} \cup Turns /\ replies' \subseteq replies
    BY <1>3 DEF ThreadStep, OpenNodeTurn, ListenForWake, ReadIdleChunk, HostVerdict, OpenHostTurn, Listen,
                Converse, Transcribe, Publish, StartWaiting, TakeReply, StopWaiting, Speak, AfterReply, Play,
                HandlerFails, Drain
  <2>4. voice' \in Sources /\ from' \in Sources
    BY <1>2, <2>1 DEF TypeOK, Sources, Clients
  <2> QED BY <1>1, <2>2, <2>3, <2>4 DEF TypeOK, ThreadTypes
<1>4. CASE \E q \in Turns : Reply(q)
  BY <1>1, <1>4 DEF Reply, TypeOK, ThreadTypes
<1>5. CASE \/ \E s \in Nodes \cup {Host} : Judge(s)
           \/ \E n \in Nodes : NodeStep(n)
           \/ \E p \in Phones : PhoneStep(p)
           \/ ButtonPress \/ ButtonRelease
           \/ \E c \in Clients : CommandTimeout(c)
           \/ UNCHANGED vars
  <2>1. UNCHANGED <<talk, agent>>
    BY <1>5 DEF Judge, NodeStep, NodeClaims, NodeVerdict, AudioEnd, StopNode, Drop, Reconnect, PhoneStep,
                PhoneAcquire, PhoneStart, PhonePress, PhoneRefused, PhoneStop, PhoneInterrupt, PhoneLeaves,
                CleanupCancel, CleanupInterrupt, CleanupRelease, ButtonPress, ButtonRelease, CommandTimeout, vars
  <2> QED BY <1>1, <2>1 DEF TypeOK, ThreadTypes
<1> QED BY <1>3, <1>4, <1>5 DEF Next

\* The flags of the thread.
LEMMA FlagsStep == TypeOK /\ [Next]_vars => (ptt \in BOOLEAN /\ armed \in BOOLEAN)'
<1> SUFFICES ASSUME TypeOK, [Next]_vars PROVE ptt' \in BOOLEAN /\ armed' \in BOOLEAN
  OBVIOUS
<1>1. ptt' = ptt \/ ptt' = TRUE \/ ptt' = FALSE
  BY DEF Next, vars, ThreadStep, OpenNodeTurn, ListenForWake, ReadIdleChunk, HostVerdict,
         OpenHostTurn, Listen, Converse, Transcribe, Publish, StartWaiting, TakeReply, StopWaiting, Speak,
         AfterReply, Play, HandlerFails, Drain, ApplyPress, ApplyCancel, ApplyRelease, Judge, Reply, NodeStep,
         NodeClaims, NodeVerdict, AudioEnd, StopNode, Drop, Reconnect, PhoneStep, PhoneAcquire, PhoneStart,
         PhonePress, PhoneRefused, PhoneStop, PhoneInterrupt, PhoneLeaves, CleanupCancel, CleanupInterrupt,
         CleanupRelease, Interrupt, ButtonPress, ButtonRelease, CommandTimeout
<1>2. armed' = armed \/ armed' = TRUE \/ armed' = FALSE
  BY DEF Next, vars, ThreadStep, OpenNodeTurn, ListenForWake, ReadIdleChunk, HostVerdict,
         OpenHostTurn, Listen, Converse, Transcribe, Publish, StartWaiting, TakeReply, StopWaiting, Speak,
         AfterReply, Play, HandlerFails, Drain, ApplyPress, ApplyCancel, ApplyRelease, Judge, Reply, NodeStep,
         NodeClaims, NodeVerdict, Grant, Yield, AudioEnd, StopNode, EndLease, NoLeaseToEnd, HandBack, Drop,
         Reconnect, PhoneStep, PhoneAcquire, PhoneStart, PhonePress, PhoneRefused, PhoneStop, PhoneInterrupt,
         PhoneLeaves, CleanupCancel, CleanupInterrupt, CleanupRelease, ReleaseOwner, ButtonPress,
         ButtonRelease, CommandTimeout
<1>3. ptt \in BOOLEAN /\ armed \in BOOLEAN
  BY DEF TypeOK
<1> QED BY <1>1, <1>2, <1>3

\* The bids of the microphones.
BidTypes == bid \in [Nodes \cup {Host} -> {"none", "open", "won", "lost"}]

LEMMA BidTypesStep == TypeOK /\ [Next]_vars => BidTypes'
<1> SUFFICES ASSUME TypeOK, [Next]_vars PROVE BidTypes'
  OBVIOUS
<1> USE DEF BidTypes
<1>0. bid \in [Nodes \cup {Host} -> {"none", "open", "won", "lost"}]
  BY DEF TypeOK
<1>1. OpenBidsLose \in [Nodes \cup {Host} -> {"none", "open", "won", "lost"}]
  BY <1>0 DEF OpenBidsLose
<1>2. ASSUME NEW s \in Nodes \cup {Host}, bid' = [bid EXCEPT ![s] = "none"] PROVE BidTypes'
  BY <1>0, <1>2
<1>3. CASE ReadIdleChunk
  BY <1>0, <1>3, BidKeepsPath DEF ReadIdleChunk
<1>4. CASE HostVerdict
  BY <1>2, <1>4 DEF HostVerdict
<1>5. CASE HandlerFails
  BY <1>1, <1>5 DEF HandlerFails
<1>6. CASE ThreadStep /\ ~ReadIdleChunk /\ ~HostVerdict /\ ~HandlerFails
  <2>1. bid' = bid
    BY <1>6 DEF ThreadStep, OpenNodeTurn, ListenForWake, OpenHostTurn, Listen, Converse, Transcribe, Publish,
                StartWaiting, TakeReply, StopWaiting, Speak, AfterReply, Play, Drain, outside
  <2> QED BY <1>0, <2>1
<1>7. ASSUME NEW s \in Nodes \cup {Host}, Judge(s) PROVE BidTypes'
  BY <1>1, <1>7 DEF Judge
<1>8. ASSUME NEW n \in Nodes, NodeStep(n) PROVE BidTypes'
  <2>1. CASE NodeClaims(n)
    BY <2>1, BidKeepsPath DEF NodeClaims
  <2>2. CASE NodeVerdict(n)
    BY <1>2, <2>2 DEF NodeVerdict
  <2>3. ~NodeClaims(n) /\ ~NodeVerdict(n) => bid' = bid
    BY <1>8 DEF NodeStep, AudioEnd, StopNode, Drop, Reconnect
  <2> QED BY <1>0, <2>1, <2>2, <2>3
<1>9. CASE \/ \E q \in Turns : Reply(q)
           \/ \E p \in Phones : PhoneStep(p)
           \/ ButtonPress \/ ButtonRelease
           \/ \E c \in Clients : CommandTimeout(c)
           \/ UNCHANGED vars
  <2>1. bid' = bid
    BY <1>9 DEF Reply, PhoneStep, PhoneAcquire, PhoneStart, PhonePress, PhoneRefused, PhoneStop,
                PhoneInterrupt, PhoneLeaves, CleanupCancel, CleanupInterrupt, CleanupRelease, ButtonPress,
                ButtonRelease, CommandTimeout, vars, outside
  <2> QED BY <1>0, <2>1
<1> QED BY <1>3, <1>4, <1>5, <1>6, <1>7, <1>8, <1>9 DEF Next

\* The connections and the wake leases of the hub.
LinkTypes ==
    /\ conn \in [Nodes -> BOOLEAN] /\ wake \in [Nodes -> 0..MaxLeases]
    /\ ended \in [Nodes -> BOOLEAN] /\ capture \in [Nodes -> BOOLEAN]

LEMMA EndLeaseTypes ==
    ASSUME TypeOK, NEW n \in Nodes, EndLease(n)
    PROVE  wake' \in [Nodes -> 0..MaxLeases] /\ ended' \in [Nodes -> BOOLEAN]
<1>1. NoLease \in 0..MaxLeases
  BY VoiceAssumption DEF VoiceAssumption, NoLease
<1>2. CASE ReplyIsOver
  <2>1. wake' = [wake EXCEPT ![n] = NoLease] /\ ended' = [ended EXCEPT ![n] = FALSE]
    BY <1>2 DEF EndLease
  <2> QED BY <1>1, <2>1 DEF TypeOK
<1>3. CASE ~ReplyIsOver
  <2>1. wake' = [wake EXCEPT ![n] = wake[n]] /\ ended' = [ended EXCEPT ![n] = TRUE]
    BY <1>3 DEF EndLease
  <2> QED BY <2>1 DEF TypeOK
<1> QED BY <1>2, <1>3

LEMMA LinkTypesStep == TypeOK /\ [Next]_vars /\ granted' \in 0..MaxLeases => LinkTypes'
<1> SUFFICES ASSUME TypeOK, [Next]_vars, granted' \in 0..MaxLeases PROVE LinkTypes'
  OBVIOUS
<1>1. /\ conn \in [Nodes -> BOOLEAN] /\ wake \in [Nodes -> 0..MaxLeases]
      /\ ended \in [Nodes -> BOOLEAN] /\ capture \in [Nodes -> BOOLEAN]
  BY DEF TypeOK
<1>2. ASSUME UNCHANGED <<conn, wake, ended, capture>> PROVE LinkTypes'
  BY <1>1, <1>2 DEF LinkTypes
<1>3. ASSUME NEW n \in Nodes, NodeClaims(n) \/ Reconnect(n) PROVE LinkTypes'
  <2>1. conn' \in {conn, [conn EXCEPT ![n] = TRUE]} /\ UNCHANGED <<wake, ended, capture>>
    BY <1>3 DEF NodeClaims, Reconnect, links
  <2> QED BY <1>1, <2>1 DEF LinkTypes
<1>4. ASSUME NEW n \in Nodes, NodeVerdict(n) PROVE LinkTypes'
  <2>1. CASE Yield(n)
    BY <1>2, <1>4, <2>1 DEF NodeVerdict, Yield
  <2>2. CASE Grant(n)
    <3>1. /\ wake' = [wake EXCEPT ![n] = granted'] /\ ended' = [ended EXCEPT ![n] = FALSE]
          /\ capture' = [capture EXCEPT ![n] = TRUE] /\ conn' = conn
      BY <1>4, <2>2 DEF NodeVerdict, Grant
    <3> QED BY <1>1, <3>1 DEF LinkTypes
  <2> QED BY <1>4, <2>1, <2>2 DEF NodeVerdict
<1>5. ASSUME NEW n \in Nodes, AudioEnd(n) PROVE LinkTypes'
  <2>1. capture' = [capture EXCEPT ![n] = FALSE] /\ conn' = conn
    BY <1>5 DEF AudioEnd, links
  <2>2. EndLease(n) \/ UNCHANGED <<wake, ended>>
    BY <1>5 DEF AudioEnd, NoLeaseToEnd
  <2> QED BY <1>1, <2>1, <2>2, EndLeaseTypes DEF LinkTypes
<1>6. ASSUME NEW n \in Nodes, NEW l \in 1..MaxLeases, StopNode(n, l) PROVE LinkTypes'
  <2>1. UNCHANGED <<conn, capture>> /\ (EndLease(n) \/ UNCHANGED <<wake, ended>>)
    BY <1>6 DEF StopNode, NoLeaseToEnd
  <2> QED BY <1>1, <2>1, EndLeaseTypes DEF LinkTypes
<1>7. ASSUME NEW n \in Nodes, Drop(n) PROVE LinkTypes'
  <2>1. /\ conn' = [conn EXCEPT ![n] = FALSE] /\ capture' = [capture EXCEPT ![n] = FALSE]
        /\ wake' = [wake EXCEPT ![n] = 0] /\ ended' = [ended EXCEPT ![n] = FALSE]
    BY <1>7 DEF Drop, NoLease
  <2>2. 0 \in 0..MaxLeases
    BY VoiceAssumption DEF VoiceAssumption
  <2> QED BY <1>1, <2>1, <2>2 DEF LinkTypes
<1>8. CASE \E n \in Nodes : NodeStep(n)
  BY <1>3, <1>4, <1>5, <1>6, <1>7, <1>8 DEF NodeStep
<1>9. CASE ThreadStep
  BY <1>2, <1>9 DEF ThreadStep, OpenNodeTurn, ListenForWake, ReadIdleChunk, HostVerdict, OpenHostTurn, Listen,
                    Converse, Transcribe, Publish, StartWaiting, TakeReply, StopWaiting, Speak, AfterReply,
                    Play, HandlerFails, Drain, outside, links
<1>10. CASE \/ \E q \in Turns : Reply(q)
            \/ \E s \in Nodes \cup {Host} : Judge(s)
            \/ \E p \in Phones : PhoneStep(p)
            \/ ButtonPress \/ ButtonRelease
            \/ \E c \in Clients : CommandTimeout(c)
            \/ UNCHANGED vars
  BY <1>2, <1>10 DEF Reply, Judge, PhoneStep, PhoneAcquire, PhoneStart, PhonePress, PhoneRefused, PhoneStop,
                     PhoneInterrupt, PhoneLeaves, CleanupCancel, CleanupInterrupt, CleanupRelease, ButtonPress,
                     ButtonRelease, CommandTimeout, vars, outside, links
<1> QED BY <1>8, <1>9, <1>10 DEF Next

LEMMA TypesStep == TypesInv /\ [Next]_vars => TypesInv'
<1> SUFFICES ASSUME TypesInv, [Next]_vars PROVE TypesInv'
  OBVIOUS
<1>1. TypeOK
  BY DEF TypesInv
<1>2. turn' \in Turns /\ granted' \in 0..MaxLeases /\ BoundsInv'
  BY TurnsAreBounded, LeasesAreBounded DEF BoundsInv
<1>3. SetterTypes' /\ OwnerTypes' /\ ThreadTypes' /\ BidTypes' /\ LinkTypes'
  BY <1>1, <1>2, SetterTypesStep, OwnerTypesStep, ThreadTypesStep, BidTypesStep, LinkTypesStep
<1>4. ptt' \in BOOLEAN /\ armed' \in BOOLEAN
  BY <1>1, FlagsStep
<1>5. ph' \in [Clients -> Places]
  <2>1. ph \in [Clients -> Places]
    BY <1>1 DEF TypeOK, Places
  <2>2. ph' = ph \/ \E c \in Clients, place \in Places : ph' = [ph EXCEPT ![c] = place]
    BY <1>1, PhasesMove DEF Moves
  <2> QED BY <2>1, <2>2
<1>6. cmds' \in Seq(Clients \X {"press", "release", "cancel"})
  BY <1>1, CommandsMove DEF PttCommands
<1>7. TypeOK'
  BY <1>2, <1>3, <1>4, <1>5, <1>6
     DEF TypeOK, SetterTypes, OwnerTypes, ThreadTypes, BidTypes, LinkTypes, States, Points, Places
<1> QED BY <1>2, <1>7 DEF TypesInv

-----------------------------------------------------------------------------

\* The reply that is spoken is the answer to the question asked last,
\* whatever replies come late, are drained or not, and however often the turn
\* is interrupted (VoiceChannel.get_response).
THEOREM AnswersTheQuestionHolds == Spec => []AnswersTheQuestion
<1>1. QuestionInv => AnswersTheQuestion
  BY DEF QuestionInv
<1> QED BY <1>1, QuestionInit, QuestionStep, PTL DEF Spec

\* Neither a wake lease of the hub nor the remote lease of the voice route is
\* taken from under its holder, with drops, silences, errors, buttons and
\* long turns, for any number of nodes and phones.
THEOREM LeaseOwnsTheVoiceHolds == Spec => []LeaseOwnsTheVoice
<1>1. LeaseInv => LeaseOwnsTheVoice
  BY DEF LeaseInv
<1> QED BY <1>1, LeaseInit, LeaseStep, PTL DEF Spec

\* No remote microphone is selected for somebody else's turn.
THEOREM SourceBelongsToOwnerHolds == Spec => []SourceBelongsToOwner
<1>1. LeaseInv => SourceBelongsToOwner
  BY DEF LeaseInv
<1> QED BY <1>1, LeaseInit, LeaseStep, PTL DEF Spec

\* An idle pipeline blocks no microphone, with phones, drops, silences and the
\* button, as long as no handler raises and no turn outlasts a hold: the reset
\* of the first frees a path that a verdict has, and a lapsed hold gives it to
\* another while the turn goes on.
THEOREM IdlePathIsFreeHolds == ASSUME ShortTurns PROVE Spec => []IdlePathIsFree
<1>1. HoldInv => IdlePathIsFree
  BY DEF HoldInv, IdlePathIsFree
<1>2. HoldInv /\ [Next]_vars => HoldInv'
  BY HoldStep
<1> QED BY <1>1, <1>2, HoldStart, PTL DEF Spec

\* What a node heard is answered by that node or by nobody, with every fault,
\* for any number of nodes, as long as no phone takes the voice in between.
THEOREM NodeVoiceAnswersItsNodeHolds == ASSUME Phones = {} PROVE Spec => []NodeVoiceAnswersItsNode
<1>1. LeaseInv /\ HeardInv => NodeVoiceAnswersItsNode
  BY VoiceAssumption DEF HeardInv, NodeVoiceAnswersItsNode
<1>2. LeaseInv /\ HeardInv /\ [Next]_vars => (LeaseInv /\ HeardInv)'
  BY LeaseStep, HeardStep
<1> QED BY <1>1, <1>2, LeaseInit, HeardStart, PTL DEF Spec

\* The host microphone never records a turn while a node owns the voice, with
\* nodes that drop or fall silent, as long as neither a phone nor the button
\* takes part, no handler raises and no turn outlasts a hold.
THEOREM HostMicIsClosedHolds == ASSUME OnlyNodes PROVE Spec => []HostMicIsClosed
<1> DEFINE Inv == LeaseInv /\ HoldInv /\ HeardInv /\ HostInv
<1>1. Inv => HostMicIsClosed
  BY DEF HostInv
<1>2. Init => Inv
  BY LeaseInit, HoldStart, HeardStart, HostStart
<1>3. Inv /\ [Next]_vars => Inv'
  BY LeaseStep, HoldStep, HeardStep, HostStep DEF OnlyNodes
<1> QED BY <1>1, <1>2, <1>3, PTL DEF Spec
\* Every variable keeps its type, with every fault: no turn and no lease is
\* opened past its bound, where the cleanup of each phone that leaves may
\* still interrupt a turn, and so open one more, once.
THEOREM VoiceTypeCorrect == Spec => []TypeOK
<1>1. TypesInv => TypeOK
  BY DEF TypesInv
<1> QED BY <1>1, TypesStart, TypesStep, PTL DEF Spec
=============================================================================
