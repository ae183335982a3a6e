---------------------------- MODULE ToolApproval ----------------------------
(***************************************************************************)
(* How a chat message becomes a tool call that a user agreed to: the chat  *)
(* sockets (web/routes/chat.py), the bounded bus, the single agent loop    *)
(* (orchestrator/agent.py), the gate every tool call passes                *)
(* (tool_gate.py) and the table of pending confirmations (approval.py).    *)
(* Everything runs on one event loop: an action is what happens between    *)
(* two awaits.                                                             *)
(*                                                                         *)
(* Left out: the voice channel, whose confirmations are spoken; the fleet  *)
(* switch; the audit records; prompts, arguments and results.  A tool      *)
(* stands for one binary, application or plain tool, so that remembering   *)
(* it is one entry.                                                        *)
(***************************************************************************)
EXTENDS Naturals, Sequences, FiniteSets

CONSTANTS Clients,      \* client applications, each with at most one socket
          Sessions,     \* conversations a message may name
          NoSession,    \* the session of a message that names none
          Tools,        \* what the model may call
          Kind,         \* tool -> "plain", "host_shell", "node_shell", "app"
          Savable,      \* tools a confirmation may offer to remember
          MaxSessions,  \* _MAX_SESSIONS_PER_CLIENT
          BusSize,      \* MessageBus.max_size
          MaxTurns,     \* max_tool_iterations
          MaxCalls,     \* bound: tool calls in one completion
          MaxMessages   \* bound: messages written in one behaviour

ASSUME ApprovalAssumption ==
    /\ NoSession \notin Sessions
    /\ Kind \in [Tools -> {"plain", "host_shell", "node_shell", "app"}]
    /\ Savable \subseteq {t \in Tools : Kind[t] # "plain"}
    /\ MaxSessions \in Nat
    /\ BusSize \in Nat \ {0}
    /\ MaxTurns \in Nat \ {0}
    /\ MaxCalls \in Nat \ {0}
    /\ MaxMessages \in Nat

VARIABLES sock,       \* client -> "closed", "live", or "dropped": _send_one gave up
          subs,       \* client -> WebSocketManager._interests of its socket
          waiting,    \* client -> message its socket waits to publish
          got,        \* client -> confirmation requests it was shown
          sent,       \* number of messages written
          session,    \* message -> its session_id
          inbound,    \* MessageBus._inbound
          outbound,   \* MessageBus._outbound, the replies by message
          pc,         \* where the agent loop is
          cur,        \* the message it handles
          turns,      \* tool iterations left for it
          todo,       \* tool calls left of the last completion
          asked,      \* the call that runs went through a request
          req,        \* the number of the latest request, its approval_id
          fut,        \* _pending[req]: "none", "pending" or the decision
          policy,     \* tool -> ToolPolicy.decide
          remembered, \* tools in the allowlists of the host and of the nodes
          word        \* history: the answer resolve() accepted for this call

sockets  == <<sock, subs, waiting>>
bus      == <<sent, session, inbound, outbound>>
agent    == <<pc, cur, turns, todo, asked>>
gate     == <<req, fut, word>>
settings == <<policy, remembered>>
vars     == <<sockets, got, bus, agent, gate, settings>>

NoMsg     == 0
MsgIds    == 1..MaxMessages
Decisions == {"approve", "once", "save", "deny"}
NoWord    == [req |-> 0, decision |-> "deny", owner |-> FALSE]

TypeOK == /\ sock \in [Clients -> {"closed", "live", "dropped"}]
          /\ subs \in [Clients -> SUBSET Sessions]
          /\ waiting \in [Clients -> MsgIds \cup {NoMsg}]
          /\ got \in [Clients -> SUBSET Nat]
          /\ sent \in 0..MaxMessages
          /\ session \in [MsgIds -> Sessions \cup {NoSession}]
          /\ inbound \in Seq(MsgIds)
          /\ outbound \in Seq(MsgIds)
          /\ pc \in {"idle", "llm", "gate", "notify", "ask", "run", "reply"}
          /\ cur \in MsgIds \cup {NoMsg}
          /\ cur = NoMsg <=> pc = "idle"
          /\ turns \in 0..MaxTurns
          /\ todo \in Seq(Tools)
          /\ pc \in {"gate", "notify", "ask", "run"} => todo # <<>>
          /\ asked \in BOOLEAN
          /\ req \in Nat
          /\ fut \in Decisions \cup {"none", "pending"}
          /\ policy \in [Tools -> {"allow", "ask", "deny"}]
          /\ remembered \in SUBSET Tools
          /\ word \in [req : Nat, decision : Decisions, owner : BOOLEAN]

Init == /\ sock = [c \in Clients |-> "closed"]
        /\ subs = [c \in Clients |-> {}]
        /\ waiting = [c \in Clients |-> NoMsg]
        /\ got = [c \in Clients |-> {}]
        /\ sent = 0
        /\ session = [m \in MsgIds |-> NoSession]
        /\ inbound = <<>>
        /\ outbound = <<>>
        /\ pc = "idle"
        /\ cur = NoMsg
        /\ turns = 0
        /\ todo = <<>>
        /\ asked = FALSE
        /\ req = 0
        /\ fut = "none"
        /\ policy \in [Tools -> {"allow", "ask", "deny"}]
        /\ remembered = {}
        /\ word = NoWord

-----------------------------------------------------------------------------
(* The chat sockets.  A socket that _send_one gave up on keeps serving the *)
(* frames of its client, without interests.                                *)

Connect(c) ==
    /\ sock[c] = "closed"
    /\ sock' = [sock EXCEPT ![c] = "live"]
    /\ UNCHANGED <<subs, waiting, got, bus, agent, gate, settings>>

\* The next frame of the client can be read.
Reads(c) == sock[c] # "closed" /\ waiting[c] = NoMsg

\* register_interest and subscribe refuse a session past the cap.
Interest(c, s) == IF sock[c] = "live" /\ Cardinality(subs[c] \cup {s}) <= MaxSessions
                  THEN [subs EXCEPT ![c] = @ \cup {s}] ELSE subs

Subscribe(c) ==
    /\ Reads(c)
    /\ \E s \in Sessions : subs' = Interest(c, s)
    /\ UNCHANGED <<sock, waiting, got, bus, agent, gate, settings>>

Unsubscribe(c) ==
    /\ Reads(c)
    /\ \E s \in Sessions : subs' = [subs EXCEPT ![c] = @ \ {s}]
    /\ UNCHANGED <<sock, waiting, got, bus, agent, gate, settings>>

\* A message claims its session and goes to the bus, or waits for room there.
Write(c) ==
    /\ Reads(c)
    /\ sent < MaxMessages
    /\ sent' = sent + 1
    /\ \E s \in Sessions \cup {NoSession} :
          /\ session' = [session EXCEPT ![sent'] = s]
          /\ subs' = IF s = NoSession THEN subs ELSE Interest(c, s)
    /\ \/ /\ Len(inbound) < BusSize
          /\ inbound' = Append(inbound, sent')
          /\ UNCHANGED waiting
       \/ /\ Len(inbound) >= BusSize
          /\ waiting' = [waiting EXCEPT ![c] = sent']
          /\ UNCHANGED inbound
    /\ UNCHANGED <<sock, got, outbound, agent, gate, settings>>

\* Queue.put resumes: until then the socket read none of its client's frames.
Enqueue(c) ==
    /\ waiting[c] # NoMsg
    /\ Len(inbound) < BusSize
    /\ inbound' = Append(inbound, waiting[c])
    /\ waiting' = [waiting EXCEPT ![c] = NoMsg]
    /\ UNCHANGED <<sock, subs, got, sent, session, outbound, agent, gate, settings>>

\* A frame to the client failed or took five seconds: its socket is forgotten.
SendGivesUp(c) ==
    /\ sock[c] = "live"
    /\ sock' = [sock EXCEPT ![c] = "dropped"]
    /\ subs' = [subs EXCEPT ![c] = {}]
    /\ UNCHANGED <<waiting, got, bus, agent, gate, settings>>

\* The socket ends; a client may come back and still know what it was shown.
Disconnect(c) ==
    /\ Reads(c)
    /\ sock' = [sock EXCEPT ![c] = "closed"]
    /\ subs' = [subs EXCEPT ![c] = {}]
    /\ UNCHANGED <<waiting, got, bus, agent, gate, settings>>

-----------------------------------------------------------------------------
(* The agent loop and the completions of the model.                        *)

Take ==
    /\ pc = "idle"
    /\ inbound # <<>>
    /\ cur' = Head(inbound)
    /\ inbound' = Tail(inbound)
    /\ turns' = MaxTurns
    /\ pc' = "llm"
    /\ UNCHANGED <<sockets, got, sent, session, outbound, todo, asked, gate, settings>>

\* A slip: the tool-free pass after the last iteration may call tools again.
BudgetIgnored == TRUE
BudgetLeft == turns > 0

CompletionWithTools ==
    /\ pc = "llm"
    /\ BudgetLeft
    /\ turns' = IF turns > 0 THEN turns - 1 ELSE turns
    /\ \E n \in 1..MaxCalls : todo' \in [1..n -> Tools]
    /\ pc' = "gate"
    /\ UNCHANGED <<sockets, got, bus, cur, asked, gate, settings>>

\* The final text, the text after the last iteration, or an error.
CompletionWithText ==
    /\ pc = "llm"
    /\ pc' = "reply"
    /\ UNCHANGED <<sockets, got, bus, cur, turns, todo, asked, gate, settings>>

PublishReply ==
    /\ pc = "reply"
    /\ Len(outbound) < BusSize
    /\ outbound' = Append(outbound, cur)
    /\ pc' = "idle" /\ cur' = NoMsg /\ turns' = 0
    /\ UNCHANGED <<sockets, got, sent, session, inbound, todo, asked, gate, settings>>

\* The dispatcher hands the reply to the web channel; a failed send is SendGivesUp.
\* Nothing knows the message and its session any more.
Dispatch ==
    /\ outbound # <<>>
    /\ outbound' = Tail(outbound)
    /\ session' = [session EXCEPT ![Head(outbound)] = NoSession]
    /\ UNCHANGED <<sockets, got, sent, inbound, agent, gate, settings>>

-----------------------------------------------------------------------------
(* The gate of the tool call at the head of todo.                          *)

Tool == Head(todo)

Remembers(t) == Kind[t] \in {"host_shell", "node_shell", "app"} /\ t \in remembered

\* A shell call is never passed by the policy, any other call is.
PolicyAllows(t) == policy[t] = "allow" /\ Kind[t] \notin {"host_shell", "node_shell"}

\* A slip: the last call of a completion does not end the round.
NextCallAlways == todo' = Tail(todo) /\ pc' = "gate" /\ asked' = FALSE /\ word' = NoWord

\* The call is over, run or not: the next one, or back to the model.
NextCall == /\ todo' = Tail(todo)
            /\ pc' = IF Len(todo) = 1 THEN "llm" ELSE "gate"
            /\ asked' = FALSE
            /\ word' = NoWord

GateDenies ==
    /\ pc = "gate"
    /\ policy[Tool] = "deny"
    /\ NextCall
    /\ UNCHANGED <<sockets, got, bus, cur, turns, req, fut, settings>>

\* By policy, or because the user has it remembered.
GatePasses ==
    /\ pc = "gate"
    /\ policy[Tool] # "deny"
    /\ PolicyAllows(Tool) \/ Remembers(Tool)
    /\ pc' = "run"
    /\ UNCHANGED <<sockets, got, bus, cur, turns, todo, asked, gate, settings>>

\* ApprovalManager.request registers the future; wait_for starts the rest later.
GateAsks ==
    /\ pc = "gate"
    /\ policy[Tool] # "deny"
    /\ ~PolicyAllows(Tool) /\ ~Remembers(Tool)
    /\ req' = req + 1
    /\ fut' = "pending"
    /\ pc' = "notify"
    /\ UNCHANGED <<sockets, got, bus, cur, turns, todo, asked, word, settings>>

Owns(c, s) == s = NoSession \/ s \in subs[c]

\* deliver_approval: the subscribers of the session, everyone for no session.
Notify ==
    /\ pc = "notify"
    /\ got' = [c \in Clients |-> IF sock[c] = "live" /\ Owns(c, session[cur])
                                 THEN got[c] \cup {req} ELSE got[c]]
    /\ pc' = "ask"
    /\ UNCHANGED <<sockets, bus, cur, turns, todo, asked, gate, settings>>

Options(t) == IF Kind[t] = "plain" THEN {"approve"}
              ELSE {"once"} \cup (IF t \in Savable THEN {"save"} ELSE {})

\* A slip: whoever knows the id may answer.
AnyoneMayAnswer(c) == TRUE
MayAnswer(c) == Owns(c, session[cur])

\* A tool_confirmation frame that resolve() accepts: any other changes nothing.
Confirm(c) ==
    /\ Reads(c)
    /\ fut = "pending"
    /\ MayAnswer(c)
    /\ \E r \in got[c], d \in Options(Tool) \cup {"deny"} :
          /\ r = req
          /\ fut' = d
          /\ word' = [req |-> r, decision |-> d, owner |-> Owns(c, session[cur])]
    /\ UNCHANGED <<sockets, got, bus, agent, req, settings>>

\* A slip: the settled or expired future stays in the table.
KeepPending == fut
PopPending == "none"

\* wait_for ran out: deny, even when the future was settled in this very tick.
ConfirmTimeout ==
    /\ pc \in {"notify", "ask"}
    /\ fut' = PopPending
    /\ NextCall
    /\ UNCHANGED <<sockets, got, bus, cur, turns, req, settings>>

Declined ==
    /\ pc = "ask"
    /\ fut = "deny"
    /\ fut' = PopPending
    /\ NextCall
    /\ UNCHANGED <<sockets, got, bus, cur, turns, req, settings>>

\* A slip: whatever was approved is remembered.
SavedAnyway == remembered \cup {Tool}
Saved == IF fut = "save" THEN remembered \cup {Tool} ELSE remembered

Approved ==
    /\ pc = "ask"
    /\ fut \in Options(Tool)
    /\ remembered' = Saved
    /\ asked' = TRUE
    /\ fut' = PopPending
    /\ pc' = "run"
    /\ UNCHANGED <<sockets, got, bus, cur, turns, todo, req, word, policy>>

\* MCPManager.execute: a result or a ToolError; anything else ends the turn.
Run ==
    /\ pc = "run"
    /\ \/ NextCall
       \/ pc' = "reply" /\ todo' = <<>> /\ asked' = FALSE /\ word' = NoWord
    /\ UNCHANGED <<sockets, got, bus, cur, turns, req, fut, settings>>

-----------------------------------------------------------------------------
(* The settings pages.                                                     *)

\* PATCH /config/tools: ToolPolicy.reload takes effect at once.
SetPolicy ==
    /\ \E t \in Tools, d \in {"allow", "ask", "deny"} : policy' = [policy EXCEPT ![t] = d]
    /\ UNCHANGED <<sockets, got, bus, agent, gate, remembered>>

\* The lists of the host and of a node's applications are replaced as a whole;
\* no page edits the commands remembered for a node.
EditAllowlist ==
    /\ \E R \in SUBSET {t \in Tools : Kind[t] \in {"host_shell", "app"}} :
          remembered' = R \cup {t \in remembered : Kind[t] = "node_shell"}
    /\ UNCHANGED <<sockets, got, bus, agent, gate, policy>>

-----------------------------------------------------------------------------
ClientStep(c) == \/ Connect(c)
                 \/ Subscribe(c)
                 \/ Unsubscribe(c)
                 \/ Write(c)
                 \/ SendGivesUp(c)
                 \/ Disconnect(c)
                 \/ Confirm(c)

Completes == CompletionWithTools \/ CompletionWithText
Settles   == ConfirmTimeout \/ Declined \/ Approved
GateStep  == GateDenies \/ GatePasses \/ GateAsks \/ Notify

Next == \/ \E c \in Clients : ClientStep(c) \/ Enqueue(c)
        \/ Take \/ Completes \/ GateStep \/ Settles \/ Run
        \/ PublishReply \/ Dispatch
        \/ SetPolicy \/ EditAllowlist

Spec == Init /\ [][Next]_vars

(* The event loop runs what is ready, a completion ends (the provider has  *)
(* its own timeouts) and wait_for fires; no client has to do anything.     *)
FairSpec == /\ Spec
            /\ WF_vars(Take) /\ WF_vars(Completes) /\ WF_vars(GateStep)
            /\ WF_vars(Settles) /\ WF_vars(Run)
            /\ WF_vars(PublishReply) /\ WF_vars(Dispatch)
            /\ \A c \in Clients : WF_vars(Enqueue(c))

-----------------------------------------------------------------------------
(* A call that was put to the user runs on the answer to its own request,  *)
(* one of the answers it offered, given by a client that owned the         *)
(* conversation when it answered: chat.py 363 and approval.py 149.         *)
RunsOnOwnersWord ==
    pc = "run" /\ asked => /\ word.req = req
                           /\ word.decision \in Options(Tool)
                           /\ word.owner

(* No confirmation outlives the call it was asked for (the finally clause  *)
(* of request()): nothing is left that a later frame could settle.         *)
NothingLeftPending ==
    /\ fut # "none" <=> pc \in {"notify", "ask"}
    /\ fut \notin {"none", "pending"} => word.req = req /\ word.decision = fut

(* The agent adds to an allowlist only on a "save" of the owner, to the    *)
(* request of this very call, about a command that may be saved, whatever  *)
(* the settings pages did to the lists meanwhile.                          *)
SavedByOwner ==
    [][\A t \in remembered' \ remembered :
           pc' # pc => /\ t = Tool /\ t \in Savable
                       /\ word.req = req /\ word.decision = "save" /\ word.owner]_vars

Replied(m) == /\ \A c \in Clients : waiting[c] # m
              /\ \A i \in DOMAIN inbound : inbound[i] # m
              /\ \A i \in DOMAIN outbound : outbound[i] # m
              /\ ~(pc # "idle" /\ cur = m)

(* Every message is answered although no client ever has to confirm, and   *)
(* a socket that waits for room on the bus cannot confirm.  At most        *)
(* MaxMessages are written, so that all are answered when the agent is     *)
(* done with all of them again and again.                                  *)
MessagesAreAnswered == []<>(\A m \in 1..sent : Replied(m))
=============================================================================
