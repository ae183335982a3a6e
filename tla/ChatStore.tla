------------------------------ MODULE ChatStore ------------------------------
(***************************************************************************)
(* The chat of one session in the desktop client: the store of             *)
(* hooks/useChatSocket.ts, the demand lifecycle that opens and closes its  *)
(* WebSocket (stores/demandLifecycle.ts), the running tools it reports     *)
(* (stores/mcpActivity.ts) and the confirmation modal and composer of      *)
(* screens/Chat.tsx that act on it.                                        *)
(*                                                                         *)
(* JavaScript runs one task at a time: an action is one task, a handler, a *)
(* timer or a React effect.  The backend and the browser are external:     *)
(* while a socket is open the backend may send any frame of the session,   *)
(* and a socket that was closed keeps its onclose event for later.  Frames *)
(* of other sessions are dropped (shouldAcceptChatFrame) and change        *)
(* nothing.                                                                *)
(***************************************************************************)
EXTENDS Naturals, Sequences

CONSTANTS ChatSockets,    \* WebSocket objects, used again once closed
          NoChatSocket,
          ChatListeners,  \* bound: mounted hooks of one session
          ChatOrphans,    \* bound: retry timers whose handle was overwritten
          Approvals,      \* approval ids of confirmation requests
          NoApproval,
          ToolRuns,       \* what a tool event names: [server, tool]
          NoName,         \* the server or tool an event does not name
          ChatRuns,       \* bound: tools running at once
          ChatCountdown,  \* timeout_seconds, in ticks of the modal
          MessageLimit    \* CHAT_MESSAGE_LIMIT

ASSUME ChatAssumption ==
    /\ NoChatSocket \notin ChatSockets
    /\ NoApproval \notin Approvals
    /\ ChatListeners \in Nat \ {0}
    /\ ChatOrphans \in Nat
    /\ ChatRuns \in Nat \ {0}
    /\ ChatCountdown \in Nat \ {0}
    /\ MessageLimit \in Nat \ {0}

VARIABLES chListeners,  \* DemandLifecycle.listeners, how many
          chCloseTimer, \* DemandLifecycle.closeTimer is pending
          chStopped,    \* stopped
          chSocket,     \* socket, the current WebSocket
          chWs,         \* WebSocket -> its readyState
          chConnTimer,  \* connectionTimer is pending
          chRetry,      \* the timer retry names is pending
          chOrphan,     \* pending retry timers no variable names
          chStatus,     \* snapshot.status
          chAuthFailed, \* snapshot.authFailed
          chThinking,   \* snapshot.thinking
          chTrail,      \* pendingEvents (and liveEvents) is not empty
          chMessages,   \* length of snapshot.messages
          chConfirm,    \* snapshot.confirmation
          chOptions,    \* its options
          chRemaining,  \* seconds left in the modal
          chRuns        \* mcpActivity: the runs of this session

chLifecycle == <<chListeners, chCloseTimer, chStopped>>
chConn      == <<chSocket, chWs, chConnTimer, chRetry, chOrphan, chStatus, chAuthFailed>>
chTurn      == <<chThinking, chTrail, chMessages>>
chModal     == <<chConfirm, chOptions, chRemaining>>
chVars      == <<chLifecycle, chConn, chTurn, chModal, chRuns>>

\* The options a gate of the backend offers: a plain tool, a shell command
\* of a node, a command of the host or an application that can be remembered.
Offers == {{"approve", "deny"}, {"once", "deny"}, {"once", "save", "deny"}}

ChatTypeOK ==
    /\ chListeners \in 0..ChatListeners
    /\ chCloseTimer \in BOOLEAN
    /\ chStopped \in BOOLEAN
    /\ chSocket \in ChatSockets \cup {NoChatSocket}
    /\ chWs \in [ChatSockets -> {"connecting", "open", "closing", "gone"}]
    /\ chConnTimer \in BOOLEAN
    /\ chRetry \in BOOLEAN
    /\ chOrphan \in 0..ChatOrphans
    /\ chStatus \in {"connecting", "open", "closed"}
    /\ chAuthFailed \in BOOLEAN
    /\ chThinking \in BOOLEAN
    /\ chTrail \in BOOLEAN
    /\ chMessages \in 0..MessageLimit
    /\ chConfirm \in Approvals \cup {NoApproval}
    /\ chOptions \in Offers
    /\ chRemaining \in 0..ChatCountdown
    /\ chRuns \in Seq(ToolRuns)

\* createChatStore: nothing runs before the first subscriber.
ChatInit ==
    /\ chListeners = 0
    /\ chCloseTimer = FALSE
    /\ chStopped = TRUE
    /\ chSocket = NoChatSocket
    /\ chWs = [w \in ChatSockets |-> "gone"]
    /\ chConnTimer = FALSE
    /\ chRetry = FALSE
    /\ chOrphan = 0
    /\ chStatus = "connecting"
    /\ chAuthFailed = FALSE
    /\ chThinking = FALSE
    /\ chTrail = FALSE
    /\ chMessages = 0
    /\ chConfirm = NoApproval
    /\ chOptions = {"approve", "deny"}
    /\ chRemaining = 0
    /\ chRuns = <<>>

-----------------------------------------------------------------------------
(* The connection.                                                         *)

\* connect(): a new WebSocket becomes the current one, unless there is one.
Connects ==
    IF chSocket # NoChatSocket
    THEN UNCHANGED <<chSocket, chWs, chConnTimer, chStatus>>
    ELSE \E w \in ChatSockets :
             /\ chWs[w] = "gone"
             /\ chSocket' = w
             /\ chWs' = [chWs EXCEPT ![w] = "connecting"]
             /\ chConnTimer' = TRUE
             /\ chStatus' = "connecting"

\* A stop that drops the socket and does not close it.
LeftOpen(w) == chWs

\* A WebSocket after close(): its onclose is still to come.
Closing(w) == IF w \in ChatSockets /\ chWs[w] \in {"connecting", "open"}
              THEN [chWs EXCEPT ![w] = "closing"]
              ELSE chWs

\* The stop callback of the lifecycle, past its early return.
Stops == /\ chStopped' = TRUE
         /\ chRetry' = FALSE
         /\ chConnTimer' = FALSE
         /\ chSocket' = NoChatSocket
         /\ chWs' = Closing(chSocket)
         /\ chRuns' = <<>>
         /\ chStatus' = "closed"
         /\ UNCHANGED <<chOrphan, chAuthFailed>>

\* A hook mounts.  The first one starts the store; its modal counts anew.
Subscribe ==
    /\ chListeners < ChatListeners
    /\ chListeners' = chListeners + 1
    /\ chCloseTimer' = FALSE
    /\ IF chListeners = 0
       THEN chStopped' = FALSE /\ Connects /\ chRemaining' = ChatCountdown
       ELSE UNCHANGED <<chStopped, chSocket, chWs, chConnTimer, chStatus, chRemaining>>
    /\ UNCHANGED <<chRetry, chOrphan, chAuthFailed, chTurn, chConfirm, chOptions, chRuns>>

\* A hook unmounts.  The last one schedules the stop for the next task.
Leave ==
    /\ chListeners > 0
    /\ chListeners' = chListeners - 1
    /\ chCloseTimer' = (chCloseTimer \/ chListeners = 1)
    /\ UNCHANGED <<chStopped, chConn, chTurn, chModal, chRuns>>

\* The stop of a store that thinks is put off until its answer comes.
CloseTimerFires ==
    /\ chCloseTimer
    /\ chCloseTimer' = FALSE
    /\ IF chListeners = 0 /\ ~chThinking
       THEN Stops
       ELSE UNCHANGED <<chStopped, chConn, chRuns>>
    /\ UNCHANGED <<chListeners, chTurn, chModal>>

\* shutdown() of the store: on logout, and when the registry evicts it.
ShutDown ==
    /\ chCloseTimer' = FALSE
    /\ Stops
    /\ UNCHANGED <<chListeners, chTurn, chModal>>

RetryFires ==
    /\ \/ chRetry /\ chRetry' = FALSE /\ UNCHANGED chOrphan
       \/ chOrphan > 0 /\ chOrphan' = chOrphan - 1 /\ UNCHANGED chRetry
    /\ IF chStopped THEN UNCHANGED <<chSocket, chWs, chConnTimer, chStatus>> ELSE Connects
    /\ UNCHANGED <<chLifecycle, chAuthFailed, chTurn, chModal, chRuns>>

\* Five seconds without onopen.
ConnTimerFires ==
    /\ chConnTimer
    /\ chConnTimer' = FALSE
    /\ chWs' = Closing(chSocket)
    /\ UNCHANGED <<chLifecycle, chSocket, chRetry, chOrphan, chStatus, chAuthFailed,
                   chTurn, chModal, chRuns>>

OnOpen(w) ==
    /\ chWs[w] = "connecting"
    /\ chWs' = [chWs EXCEPT ![w] = "open"]
    /\ IF chSocket = w
       THEN chConnTimer' = FALSE /\ chStatus' = "open" /\ chAuthFailed' = FALSE
       ELSE UNCHANGED <<chConnTimer, chStatus, chAuthFailed>>
    /\ UNCHANGED <<chLifecycle, chSocket, chRetry, chOrphan, chTurn, chModal, chRuns>>

\* onclose of the current socket: the store forgets it and, unless the
\* backend refused the credential or the store stopped, tries again.
Drops(refused) ==
    /\ chSocket' = NoChatSocket
    /\ chRuns' = <<>>
    /\ chConnTimer' = FALSE
    /\ chStatus' = "closed"
    /\ chAuthFailed' = refused
    /\ IF refused \/ chStopped
       THEN UNCHANGED <<chRetry, chOrphan>>
       ELSE /\ chRetry' = TRUE
            /\ chOrphan' = IF chRetry THEN chOrphan + 1 ELSE chOrphan
            /\ chOrphan' <= ChatOrphans

\* A socket closes, for whatever reason; a stale one closes in silence.
OnClose(w, refused) ==
    /\ chWs[w] # "gone"
    /\ chWs' = [chWs EXCEPT ![w] = "gone"]
    /\ IF chSocket = w
       THEN Drops(refused)
       ELSE UNCHANGED <<chSocket, chConnTimer, chRetry, chOrphan, chStatus, chAuthFailed, chRuns>>
    /\ UNCHANGED <<chLifecycle, chTurn, chModal>>

-----------------------------------------------------------------------------
(* Frames of the session, on the current socket.                           *)

Hears(w) == chWs[w] = "open" /\ chSocket = w

\* tool_confirmation_request: the modal shows the latest request.
OnConfirmation(w, a, offer) ==
    /\ Hears(w)
    /\ chConfirm' = a
    /\ chOptions' = offer
    /\ chRemaining' = IF a = chConfirm THEN chRemaining ELSE ChatCountdown
    /\ UNCHANGED <<chLifecycle, chConn, chTurn, chRuns>>

OnThinking(w) ==
    /\ Hears(w)
    /\ chThinking' = TRUE
    /\ UNCHANGED <<chLifecycle, chConn, chTrail, chMessages, chModal, chRuns>>

OnToolCall(w, run) ==
    /\ Hears(w)
    /\ Len(chRuns) < ChatRuns
    /\ chTrail' = TRUE
    /\ chRuns' = Append(chRuns, run)
    /\ UNCHANGED <<chLifecycle, chConn, chThinking, chMessages, chModal>>

\* A name that one of the two leaves out fits, except the tool of a run.
Fits(run, ev) == /\ ev.server = NoName \/ run.server = NoName \/ run.server = ev.server
                 /\ ev.tool = NoName \/ run.tool = ev.tool

\* A result ends the latest run it fits, if any.
Ended(runs, ev) ==
    LET latest == {i \in 1..Len(runs) : /\ Fits(runs[i], ev)
                                        /\ \A j \in (i + 1)..Len(runs) : ~Fits(runs[j], ev)}
    IN  IF latest = {} THEN runs
        ELSE LET i == CHOOSE i \in latest : TRUE
             IN  SubSeq(runs, 1, i - 1) \o SubSeq(runs, i + 1, Len(runs))

OnToolResult(w, ev) ==
    /\ Hears(w)
    /\ chTrail' = TRUE
    /\ chRuns' = Ended(chRuns, ev)
    /\ UNCHANGED <<chLifecycle, chConn, chThinking, chMessages, chModal>>

OnDone(w) ==
    /\ Hears(w)
    /\ chRuns' = <<>>
    /\ UNCHANGED <<chLifecycle, chConn, chTurn, chModal>>

\* A list of messages that is never cut.
KeptAll(n) == n

\* The newest CHAT_MESSAGE_LIMIT messages stay.
Kept(n) == IF n > MessageLimit THEN MessageLimit ELSE n

\* The answer ends the turn; a store nobody looks at any more stops with it.
OnReply(w) ==
    /\ Hears(w)
    /\ chThinking' = FALSE
    /\ chTrail' = FALSE
    /\ chMessages' = Kept(chMessages + 1)
    /\ IF chListeners = 0
       THEN chCloseTimer' = FALSE /\ Stops
       ELSE chRuns' = <<>> /\ UNCHANGED <<chCloseTimer, chStopped, chConn>>
    /\ UNCHANGED <<chListeners, chModal>>

-----------------------------------------------------------------------------
(* The user, while the screen is mounted.                                  *)

\* The composer takes text only while the status says the chat is open.
ComposerReady == chListeners > 0 /\ chStatus = "open"

\* send(), which also looks at the socket itself.
Submit ==
    /\ ComposerReady
    /\ chSocket # NoChatSocket /\ chWs[chSocket] = "open"
    /\ chThinking' = TRUE
    /\ chTrail' = FALSE
    /\ chMessages' = Kept(chMessages + 1)
    /\ UNCHANGED <<chLifecycle, chConn, chModal, chRuns>>

\* The decisions the buttons of the modal send.
Buttons(offer) == IF "save" \in offer THEN {"deny", "once", "save"}
                  ELSE {"deny", IF "once" \in offer THEN "once" ELSE "approve"}

\* respondConfirmation: the modal closes, also when there is no socket to
\* carry the decision.
Decide(d) ==
    /\ chListeners > 0
    /\ chConfirm # NoApproval
    /\ d \in Buttons(chOptions)
    /\ chConfirm' = NoApproval
    /\ chRemaining' = 0
    /\ UNCHANGED <<chLifecycle, chConn, chTurn, chOptions, chRuns>>

\* One second of the countdown; the last one closes the modal.
Tick ==
    /\ chListeners > 0
    /\ chConfirm # NoApproval
    /\ chRemaining' = IF chRemaining <= 1 THEN 0 ELSE chRemaining - 1
    /\ chConfirm' = IF chRemaining <= 1 THEN NoApproval ELSE chConfirm
    /\ UNCHANGED <<chLifecycle, chConn, chTurn, chOptions, chRuns>>

-----------------------------------------------------------------------------

ChatNext ==
    \/ Subscribe
    \/ Leave
    \/ CloseTimerFires
    \/ ShutDown
    \/ RetryFires
    \/ ConnTimerFires
    \/ \E w \in ChatSockets :
          \/ OnOpen(w)
          \/ \E refused \in BOOLEAN : OnClose(w, refused)
          \/ \E a \in Approvals, offer \in Offers : OnConfirmation(w, a, offer)
          \/ OnThinking(w)
          \/ \E run \in ToolRuns : OnToolCall(w, run)
          \/ \E ev \in ToolRuns : OnToolResult(w, ev)
          \/ OnDone(w)
          \/ OnReply(w)
    \/ Submit
    \/ \E d \in {"deny", "once", "save", "approve"} : Decide(d)
    \/ Tick

ChatSpec == ChatInit /\ [][ChatNext]_chVars

-----------------------------------------------------------------------------

\* A session is heard once: whatever the order in which screens mount and
\* unmount, timers fire and old sockets close, the only WebSocket that is
\* not closing is the current one (two of them would show every frame twice
\* and keep a connection nobody closes).
OneLiveSocket ==
    \A w \in ChatSockets : chWs[w] \in {"connecting", "open"} => chSocket = w

\* A store without subscribers that waits for no answer has stopped: no
\* connection and no timer that would open one.  The stop that a thinking
\* store put off is made up for when its answer comes.
IdleStoreIsSilent ==
    chListeners = 0 /\ ~chCloseTimer /\ ~chThinking => chStopped /\ chSocket = NoChatSocket

\* A tool is shown as running only over the live connection that reported
\* it: reconnects, stops and late events of old sockets leave none behind.
RunsAreReported ==
    chRuns # <<>> => chSocket # NoChatSocket /\ chWs[chSocket] = "open"

\* A chat somebody looks at does not stay cut off: unless the backend
\* refused the credential or the stores were shut down under it, it has a
\* connection or a timer that makes one.
ChatReconnects ==
    chListeners > 0 /\ ~chStopped /\ ~chAuthFailed => chSocket # NoChatSocket \/ chRetry
=============================================================================
