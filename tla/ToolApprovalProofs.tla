------------------------- MODULE ToolApprovalProofs -------------------------
(***************************************************************************)
(* What the gate promises, for any clients, sessions, tools and bounds.    *)
(***************************************************************************)
EXTENDS ToolApproval, SequenceTheorems, TLAPS

\* Only a call that runs was approved, and an answer in the table was given
\* by a client that owned the conversation.
AnswerInv == /\ asked => pc = "run"
             /\ fut \notin {"none", "pending"} => word.owner

IInv == /\ TypeOK
        /\ AnswerInv
        /\ NothingLeftPending
        /\ RunsOnOwnersWord

-----------------------------------------------------------------------------
(* A completion's calls are a sequence that is not empty.                  *)
LEMMA CallsAreASeq ==
    ASSUME NEW n \in 1..MaxCalls, NEW s \in [1..n -> Tools]
    PROVE  s \in Seq(Tools) /\ s # <<>>
<1>1. n \in Nat /\ n # 0
  BY ApprovalAssumption
<1>2. s \in Seq(Tools)
  BY <1>1, SeqDef
<1>3. Len(s) = n
  BY <1>1
<1> QED BY <1>1, <1>2, <1>3, EmptySeq

(* What NextCall does to the agent, at a call.                             *)
LEMMA NextCallType ==
    ASSUME TypeOK, NextCall, todo # <<>>
    PROVE  /\ todo' \in Seq(Tools)
           /\ pc' \in {"llm", "gate"}
           /\ pc' = "gate" => todo' # <<>>
           /\ asked' = FALSE
           /\ word' = NoWord /\ word' \in [req : Nat, decision : Decisions, owner : BOOLEAN]
<1>1. Tail(todo) \in Seq(Tools) /\ Len(Tail(todo)) = Len(todo) - 1
  BY HeadTailProperties DEF TypeOK
<1>2. Len(todo) # 1 => Tail(todo) # <<>>
  <2>1. Len(todo) \in Nat /\ Len(<<>>) = 0
    BY LenProperties, EmptySeq DEF TypeOK
  <2> SUFFICES ASSUME Tail(todo) = <<>> PROVE Len(todo) = 1
    OBVIOUS
  <2>2. Len(todo) - 1 = 0
    BY <1>1, <2>1, Zenon
  <2> QED BY <2>1, <2>2
<1>3. NoWord \in [req : Nat, decision : Decisions, owner : BOOLEAN]
  BY DEF NoWord, Decisions
<1> QED BY <1>1, <1>2, <1>3 DEF NextCall

(* The initial state satisfies the inductive invariant.                    *)
LEMMA InitInv == Init => IInv
<1> SUFFICES ASSUME Init PROVE IInv
  OBVIOUS
<1> USE ApprovalAssumption DEF Init, NoMsg, MsgIds, Decisions, NoWord
<1>1. TypeOK
  <2>1. policy \in [Tools -> {"allow", "ask", "deny"}]
    OBVIOUS
  <2>2. word \in [req : Nat, decision : Decisions, owner : BOOLEAN]
    OBVIOUS
  <2>3. inbound \in Seq(MsgIds) /\ outbound \in Seq(MsgIds) /\ todo \in Seq(Tools)
    BY EmptySeq
  <2>4. /\ sock \in [Clients -> {"closed", "live", "dropped"}]
        /\ subs \in [Clients -> SUBSET Sessions]
        /\ waiting \in [Clients -> MsgIds \cup {NoMsg}]
        /\ got \in [Clients -> SUBSET Nat]
    OBVIOUS
  <2>5. session \in [MsgIds -> Sessions \cup {NoSession}]
    OBVIOUS
  <2>6. sent \in 0..MaxMessages /\ turns \in 0..MaxTurns /\ req \in Nat
    OBVIOUS
  <2>7. /\ pc = "idle" /\ cur = NoMsg
        /\ asked \in BOOLEAN
        /\ fut \in Decisions \cup {"none", "pending"}
        /\ remembered \in SUBSET Tools
    OBVIOUS
  <2> HIDE DEF Init, NoMsg, MsgIds, Decisions, NoWord
  <2> QED BY <2>1, <2>2, <2>3, <2>4, <2>5, <2>6, <2>7 DEF TypeOK
<1>2. AnswerInv /\ NothingLeftPending /\ RunsOnOwnersWord
  BY DEF AnswerInv, NothingLeftPending, RunsOnOwnersWord
<1> QED BY <1>1, <1>2 DEF IInv

(* Every step keeps the types.                                             *)
LEMMA NextType == ASSUME TypeOK, [Next]_vars PROVE TypeOK'
<1> USE ApprovalAssumption DEF vars, sockets, bus, agent, gate, settings, NoMsg, MsgIds
<1>1. ASSUME NEW c \in Clients, Connect(c) PROVE TypeOK'
  BY <1>1 DEF TypeOK, Connect
<1>2. ASSUME NEW c \in Clients, Subscribe(c) PROVE TypeOK'
  BY <1>2 DEF TypeOK, Subscribe, Interest
<1>3. ASSUME NEW c \in Clients, Unsubscribe(c) PROVE TypeOK'
  BY <1>3 DEF TypeOK, Unsubscribe
<1>4. ASSUME NEW c \in Clients, Write(c) PROVE TypeOK'
  <2>1. sent' \in MsgIds /\ sent' \in 0..MaxMessages
    BY <1>4 DEF TypeOK, Write
  <2>2. PICK s \in Sessions \cup {NoSession} :
           /\ session' = [session EXCEPT ![sent'] = s]
           /\ subs' = IF s = NoSession THEN subs ELSE Interest(c, s)
    BY <1>4 DEF Write
  <2>3. session' \in [MsgIds -> Sessions \cup {NoSession}]
    BY <2>1, <2>2 DEF TypeOK
  <2>4. subs' \in [Clients -> SUBSET Sessions]
    BY <2>2 DEF TypeOK, Interest
  <2>5. inbound' \in Seq(MsgIds) /\ waiting' \in [Clients -> MsgIds \cup {NoMsg}]
    <3>1. CASE inbound' = Append(inbound, sent') /\ waiting' = waiting
      BY <2>1, <3>1, AppendProperties DEF TypeOK
    <3>2. CASE inbound' = inbound /\ waiting' = [waiting EXCEPT ![c] = sent']
      BY <2>1, <3>2 DEF TypeOK
    <3> QED BY <1>4, <3>1, <3>2 DEF Write
  <2> QED BY <1>4, <2>1, <2>3, <2>4, <2>5 DEF TypeOK, Write
<1>5. ASSUME NEW c \in Clients, Enqueue(c) PROVE TypeOK'
  BY <1>5 DEF TypeOK, Enqueue
<1>6. ASSUME NEW c \in Clients, SendGivesUp(c) PROVE TypeOK'
  BY <1>6 DEF TypeOK, SendGivesUp
<1>7. ASSUME NEW c \in Clients, Disconnect(c) PROVE TypeOK'
  BY <1>7 DEF TypeOK, Disconnect
<1>8. ASSUME NEW c \in Clients, Confirm(c) PROVE TypeOK'
  BY <1>8 DEF TypeOK, Confirm, Options, Decisions, Owns
<1>9. CASE Take
  BY <1>9 DEF TypeOK, Take
<1>10. CASE CompletionWithTools
  BY <1>10, CallsAreASeq DEF TypeOK, CompletionWithTools, BudgetLeft
<1>11. CASE CompletionWithText
  BY <1>11 DEF TypeOK, CompletionWithText
<1>12. CASE GateDenies
  <2>1. NextCall /\ todo # <<>>
    BY <1>12 DEF TypeOK, GateDenies
  <2> QED BY <1>12, <2>1, NextCallType DEF TypeOK, GateDenies
<1>13. CASE GatePasses
  BY <1>13 DEF TypeOK, GatePasses
<1>14. CASE GateAsks
  BY <1>14 DEF TypeOK, GateAsks
<1>15. CASE Notify
  BY <1>15 DEF TypeOK, Notify
<1>16. CASE ConfirmTimeout
  <2>1. NextCall /\ todo # <<>>
    BY <1>16 DEF TypeOK, ConfirmTimeout
  <2> QED BY <1>16, <2>1, NextCallType DEF TypeOK, ConfirmTimeout, PopPending
<1>17. CASE Declined
  <2>1. NextCall /\ todo # <<>>
    BY <1>17 DEF TypeOK, Declined
  <2> QED BY <1>17, <2>1, NextCallType DEF TypeOK, Declined, PopPending
<1>18. CASE Approved
  BY <1>18 DEF TypeOK, Approved, Saved, PopPending, Tool
<1>19. CASE Run
  <2>1. CASE NextCall
    <3>1. todo # <<>>
      BY <1>19 DEF TypeOK, Run
    <3> QED BY <1>19, <2>1, <3>1, NextCallType DEF TypeOK, Run
  <2>2. CASE pc' = "reply" /\ todo' = <<>> /\ asked' = FALSE /\ word' = NoWord
    BY <1>19, <2>2, EmptySeq DEF TypeOK, Run, NoWord, Decisions
  <2> QED BY <1>19, <2>1, <2>2 DEF Run
<1>20. CASE PublishReply
  BY <1>20 DEF TypeOK, PublishReply
<1>21. CASE Dispatch
  BY <1>21 DEF TypeOK, Dispatch
<1>22. CASE SetPolicy
  BY <1>22 DEF TypeOK, SetPolicy
<1>23. CASE EditAllowlist
  BY <1>23 DEF TypeOK, EditAllowlist
<1>24. CASE UNCHANGED vars
  BY <1>24 DEF TypeOK
<1> QED BY <1>1, <1>2, <1>3, <1>4, <1>5, <1>6, <1>7, <1>8, <1>9, <1>10, <1>11, <1>12,
           <1>13, <1>14, <1>15, <1>16, <1>17, <1>18, <1>19, <1>20, <1>21, <1>22, <1>23, <1>24
        DEF Next, ClientStep, Completes, GateStep, Settles

-----------------------------------------------------------------------------
(* What the sockets and the settings do leaves the gate's promises alone.  *)
LEMMA OthersKeep ==
    ASSUME AnswerInv, NothingLeftPending, RunsOnOwnersWord,
           UNCHANGED <<pc, todo, asked, gate>>
    PROVE  AnswerInv' /\ NothingLeftPending' /\ RunsOnOwnersWord'
  BY DEF AnswerInv, NothingLeftPending, RunsOnOwnersWord, gate, Tool, Options

(* A step outside the window of a request and outside a call: nothing is   *)
(* in the table and nothing was approved, before and after.                *)
LEMMA QuietKeeps ==
    ASSUME AnswerInv, NothingLeftPending,
           pc \notin {"notify", "ask"}, pc' \notin {"notify", "ask", "run"},
           fut' = fut, asked' = FALSE
    PROVE  AnswerInv' /\ NothingLeftPending' /\ RunsOnOwnersWord'
  BY DEF AnswerInv, NothingLeftPending, RunsOnOwnersWord

(* A call that ends takes its request with it.                             *)
LEMMA EndKeeps ==
    ASSUME fut' = "none", asked' = FALSE, pc' \notin {"notify", "ask"}
    PROVE  AnswerInv' /\ NothingLeftPending' /\ RunsOnOwnersWord'
  BY DEF AnswerInv, NothingLeftPending, RunsOnOwnersWord

(* Every step keeps the promises of the gate.                              *)
LEMMA NextGate ==
    ASSUME IInv, [Next]_vars
    PROVE  AnswerInv' /\ NothingLeftPending' /\ RunsOnOwnersWord'
<1> USE DEF IInv, vars, sockets, bus, agent, gate, settings
<1>1. ASSUME NEW c \in Clients,
             Connect(c) \/ Subscribe(c) \/ Unsubscribe(c) \/ Write(c) \/ Enqueue(c)
                \/ SendGivesUp(c) \/ Disconnect(c)
      PROVE  AnswerInv' /\ NothingLeftPending' /\ RunsOnOwnersWord'
  <2>1. UNCHANGED <<pc, todo, asked, gate>>
    BY <1>1 DEF Connect, Subscribe, Unsubscribe, Write, Enqueue, SendGivesUp, Disconnect
  <2> QED BY <2>1, OthersKeep
<1>2. CASE Dispatch \/ SetPolicy \/ EditAllowlist \/ UNCHANGED vars
  <2>1. UNCHANGED <<pc, todo, asked, gate>>
    BY <1>2 DEF Dispatch, SetPolicy, EditAllowlist
  <2> QED BY <2>1, OthersKeep
<1>3. ASSUME NEW c \in Clients, Confirm(c)
      PROVE  AnswerInv' /\ NothingLeftPending' /\ RunsOnOwnersWord'
  <2>1. pc \in {"notify", "ask"} /\ pc' = pc /\ asked' = asked
    BY <1>3 DEF Confirm, NothingLeftPending
  <2>2. PICK d \in Options(Tool) \cup {"deny"} :
           /\ fut' = d
           /\ word' = [req |-> req, decision |-> d, owner |-> Owns(c, session[cur])]
           /\ req' = req
    BY <1>3 DEF Confirm
  <2>3. Owns(c, session[cur])
    BY <1>3 DEF Confirm, MayAnswer
  <2>4. fut' # "none" /\ word'.req = req' /\ word'.decision = fut' /\ word'.owner
    BY <2>2, <2>3 DEF Options
  <2> QED BY <2>1, <2>4 DEF AnswerInv, NothingLeftPending, RunsOnOwnersWord
<1>4. CASE Take \/ CompletionWithTools \/ CompletionWithText \/ PublishReply
  <2>1. /\ pc \in {"idle", "llm", "reply"} /\ pc' \in {"llm", "gate", "reply", "idle"}
        /\ fut' = fut /\ asked' = asked
    BY <1>4 DEF Take, CompletionWithTools, CompletionWithText, PublishReply
  <2>2. asked' = FALSE
    BY <2>1 DEF AnswerInv, TypeOK
  <2> QED BY <2>1, <2>2, QuietKeeps
<1>5. CASE GateDenies \/ Run
  <2>1. /\ pc \in {"gate", "run"} /\ pc' \in {"llm", "gate", "reply"}
        /\ fut' = fut /\ asked' = FALSE
    BY <1>5 DEF GateDenies, Run, NextCall
  <2> QED BY <2>1, QuietKeeps
<1>6. CASE GatePasses
  <2>1. pc = "gate" /\ pc' = "run" /\ fut' = fut /\ asked' = asked /\ word' = word
    BY <1>6 DEF GatePasses
  <2> QED BY <2>1 DEF AnswerInv, NothingLeftPending, RunsOnOwnersWord, TypeOK
<1>7. CASE GateAsks
  <2>1. pc = "gate" /\ pc' = "notify" /\ fut' = "pending" /\ asked' = asked
    BY <1>7 DEF GateAsks
  <2> QED BY <2>1 DEF AnswerInv, NothingLeftPending, RunsOnOwnersWord
<1>8. CASE Notify
  <2>1. pc = "notify" /\ pc' = "ask" /\ asked' = asked /\ UNCHANGED gate
    BY <1>8 DEF Notify
  <2> QED BY <2>1 DEF AnswerInv, NothingLeftPending, RunsOnOwnersWord
<1>9. CASE ConfirmTimeout \/ Declined
  <2>1. fut' = "none" /\ asked' = FALSE /\ pc' \notin {"notify", "ask"}
    BY <1>9 DEF ConfirmTimeout, Declined, PopPending, NextCall
  <2> QED BY <2>1, EndKeeps
<1>10. CASE Approved
  <2>1. /\ pc' = "run" /\ fut' = "none" /\ fut \in Options(Tool)
        /\ UNCHANGED <<todo, req, word>>
    BY <1>10 DEF Approved, PopPending
  <2>2. fut \notin {"none", "pending"}
    BY <2>1 DEF Options
  <2>3. word.req = req /\ word.decision = fut /\ word.owner
    BY <2>2 DEF AnswerInv, NothingLeftPending
  <2> QED BY <2>1, <2>3 DEF AnswerInv, NothingLeftPending, RunsOnOwnersWord, Tool, Options
<1> QED BY <1>1, <1>2, <1>3, <1>4, <1>5, <1>6, <1>7, <1>8, <1>9, <1>10
        DEF Next, ClientStep, Completes, GateStep, Settles

-----------------------------------------------------------------------------
(* The inductive invariant holds in every behaviour of the gate.           *)
THEOREM Invariance == Spec => []IInv
<1>1. Init => IInv
  BY InitInv
<1>2. IInv /\ [Next]_vars => IInv'
  BY NextType, NextGate DEF IInv
<1> QED BY <1>1, <1>2, PTL DEF Spec

(* Every variable keeps its type, for any number of clients and tools.     *)
THEOREM TypeCorrect == Spec => []TypeOK
<1>1. IInv => TypeOK
  BY DEF IInv
<1> QED BY <1>1, Invariance, PTL

(* A call that was put to the user runs on an owner's answer to its own    *)
(* request: resolve() and the ownership check of the chat socket.          *)
THEOREM AskedCallsRunOnOwnersWord == Spec => []RunsOnOwnersWord
<1>1. IInv => RunsOnOwnersWord
  BY DEF IInv
<1> QED BY <1>1, Invariance, PTL

(* The finally clause of request() leaves no confirmation behind.          *)
THEOREM NoConfirmationOutlivesItsCall == Spec => []NothingLeftPending
<1>1. IInv => NothingLeftPending
  BY DEF IInv
<1> QED BY <1>1, Invariance, PTL

(* Only a step of the agent that read a "save" adds to an allowlist.       *)
LEMMA OnlyApprovedRemembers ==
    ASSUME [Next]_vars, NEW t \in remembered' \ remembered, pc' # pc
    PROVE  Approved /\ t = Tool /\ fut = "save"
<1> USE DEF vars, sockets, bus, agent, gate, settings
<1>1. ~Approved => remembered' \subseteq remembered
  BY DEF Next, ClientStep, Completes, GateStep, Settles, Connect, Subscribe, Unsubscribe,
         Write, Enqueue, SendGivesUp, Disconnect, Confirm, Take, CompletionWithTools,
         CompletionWithText, GateDenies, GatePasses, GateAsks, Notify, ConfirmTimeout,
         Declined, Run, PublishReply, Dispatch, SetPolicy, EditAllowlist
<1>2. Approved
  BY <1>1
<1> QED BY <1>2 DEF Approved, Saved

(* The agent remembers nothing but by the owner's "save" to this very      *)
(* request, about a command or an application that may be saved.           *)
THEOREM RememberedByOwner == Spec => SavedByOwner
<1>1. ASSUME IInv, [Next]_vars
      PROVE  \A t \in remembered' \ remembered :
                pc' # pc => /\ t = Tool /\ t \in Savable
                            /\ word.req = req /\ word.decision = "save" /\ word.owner
  <2> SUFFICES ASSUME NEW t \in remembered' \ remembered, pc' # pc
               PROVE  /\ t = Tool /\ t \in Savable
                      /\ word.req = req /\ word.decision = "save" /\ word.owner
    OBVIOUS
  <2>1. Approved /\ t = Tool /\ fut = "save"
    BY <1>1, OnlyApprovedRemembers
  <2>2. t \in Savable
    BY <2>1 DEF Approved, Options
  <2> QED BY <1>1, <2>1, <2>2 DEF IInv, AnswerInv, NothingLeftPending
<1> QED BY <1>1, Invariance, PTL DEF Spec, SavedByOwner
=============================================================================
