---------------------------- MODULE ChannelProofs -----------------------------
(*****************************************************************************)
(* The connections of the desktop and of the web client: the chat of one    *)
(* session, for any number of sockets, mounted screens, timers without an   *)
(* owner, approvals and tools, and the registry of the stores, for any      *)
(* number of sessions and any limit; the chat page of the web client, for   *)
(* any sessions, sockets and requests in flight; push-to-talk over the      *)
(* network, for any bound on the queue of key events; the log stream; the  *)
(* list of conversations; and the volume of other media.                   *)
(*****************************************************************************)
EXTENDS ChatStore, ChatRegistry, ChatScreen, WebChat, RemoteVoice, MediaDucking, LogStream, SequenceTheorems,
        FiniteSetTheorems, FunctionTheorems, WellFoundedInduction, TLAPS

-----------------------------------------------------------------------------
(* The chat of a session.                                                   *)

\* A stopped store has no socket, and the connection timer belongs to a
\* current socket that has not opened.
TimerInv ==
    /\ chStopped => chSocket = NoChatSocket
    /\ chConnTimer => chSocket # NoChatSocket /\ chWs[chSocket] # "open"

ChatSound == OneLiveSocket /\ IdleStoreIsSilent /\ RunsAreReported /\ ChatReconnects

ChatInv == ChatTypeOK /\ TimerInv /\ ChatSound

ChatReadyStates == {"connecting", "open", "closing", "gone"}

\* The part of the invariant that is about the connection.
ConnInv ==
    /\ chSocket \in ChatSockets \cup {NoChatSocket}
    /\ chWs \in [ChatSockets -> ChatReadyStates]
    /\ chConnTimer \in BOOLEAN
    /\ chStopped \in BOOLEAN
    /\ TimerInv
    /\ OneLiveSocket
    /\ RunsAreReported

-----------------------------------------------------------------------------
(* What the parts the handlers share keep.                                 *)

\* connect() ends with a current socket, and is the only live one.
LEMMA ConnectsKeeps ==
    ASSUME ConnInv, Connects, chStopped' = FALSE, UNCHANGED chRuns
    PROVE  ConnInv' /\ chSocket' # NoChatSocket
<1>1. CASE chSocket # NoChatSocket
  BY <1>1 DEF Connects, ConnInv, TimerInv, OneLiveSocket, RunsAreReported
<1>2. CASE chSocket = NoChatSocket
  <2>1. PICK w \in ChatSockets : /\ chWs[w] = "gone"
                                 /\ chSocket' = w
                                 /\ chWs' = [chWs EXCEPT ![w] = "connecting"]
                                 /\ chConnTimer' = TRUE
    BY <1>2 DEF Connects
  <2>2. chRuns' = <<>>
    BY <1>2 DEF ConnInv, RunsAreReported
  <2>3. chSocket' \in ChatSockets /\ chSocket' # NoChatSocket
    BY <2>1, ChatAssumption
  <2>4. chWs' \in [ChatSockets -> ChatReadyStates] /\ chWs'[w] = "connecting"
    BY <2>1 DEF ConnInv, ChatReadyStates
  <2>5. OneLiveSocket'
    BY <1>2, <2>1, <2>4, ChatAssumption DEF ConnInv, OneLiveSocket
  <2> QED BY <2>1, <2>2, <2>3, <2>4, <2>5 DEF ConnInv, TimerInv, RunsAreReported
<1> QED BY <1>1, <1>2

\* close() on the current socket.
LEMMA ClosingType ==
    ASSUME ConnInv
    PROVE  /\ Closing(chSocket) \in [ChatSockets -> ChatReadyStates]
           /\ \A w \in ChatSockets : Closing(chSocket)[w] \notin {"connecting", "open"}
  BY ChatAssumption DEF Closing, ConnInv, OneLiveSocket, ChatReadyStates

\* A store that stops has no socket, no timer of its own and no run.
LEMMA StopsKeeps ==
    ASSUME ConnInv, Stops
    PROVE  ConnInv' /\ chStopped' = TRUE /\ chSocket' = NoChatSocket
<1>1. /\ chWs' \in [ChatSockets -> ChatReadyStates]
      /\ \A w \in ChatSockets : chWs'[w] \notin {"connecting", "open"}
  BY ClosingType DEF Stops
<1> QED BY <1>1 DEF Stops, ConnInv, TimerInv, OneLiveSocket, RunsAreReported

\* Taking one run out of the list, or none, leaves a list of runs.
LEMMA EndedType ==
    ASSUME NEW runs \in Seq(ToolRuns), NEW ev
    PROVE  Ended(runs, ev) \in Seq(ToolRuns)
<1> DEFINE latest == {i \in 1..Len(runs) : /\ Fits(runs[i], ev)
                                           /\ \A j \in (i + 1)..Len(runs) : ~Fits(runs[j], ev)}
           last == CHOOSE i \in latest : TRUE
<1>1. CASE latest = {}
  BY <1>1 DEF Ended
<1>2. CASE latest # {}
  <2>1. Ended(runs, ev) = SubSeq(runs, 1, last - 1) \o SubSeq(runs, last + 1, Len(runs))
    BY <1>2, Zenon DEF Ended
  <2>2. last \in 1..Len(runs) /\ Len(runs) \in Nat
    BY <1>2, LenProperties
  <2> HIDE DEF last
  <2>3. \A i \in 1..Len(runs) : runs[i] \in ToolRuns
    BY ElementOfSeq
  <2>4. SubSeq(runs, 1, last - 1) \in Seq(ToolRuns)
    <3>1. \A i \in 1..(last - 1) : runs[i] \in ToolRuns
      BY <2>2, <2>3
    <3> QED BY <2>2, <3>1, SubSeqProperties
  <2>5. SubSeq(runs, last + 1, Len(runs)) \in Seq(ToolRuns)
    <3>1. \A i \in (last + 1)..Len(runs) : runs[i] \in ToolRuns
      BY <2>2, <2>3
    <3> QED BY <2>2, <3>1, SubSeqProperties
  <2> QED BY <2>1, <2>4, <2>5, ConcatProperties
<1> QED BY <1>1, <1>2

LEMMA KeptType == ASSUME NEW n \in Nat PROVE Kept(n) \in 0..MessageLimit
  BY ChatAssumption DEF Kept

-----------------------------------------------------------------------------

LEMMA ChatInitInv == ChatInit => ChatInv
<1> SUFFICES ASSUME ChatInit PROVE ChatInv
  OBVIOUS
<1>1. chRuns \in Seq(ToolRuns)
  BY EmptySeq DEF ChatInit
<1>2. {"approve", "deny"} \in Offers
  BY DEF Offers
<1>3. ChatTypeOK
  <2>1. /\ chWs \in [ChatSockets -> {"connecting", "open", "closing", "gone"}]
        /\ chListeners \in 0..ChatListeners /\ chOrphan \in 0..ChatOrphans
        /\ chMessages \in 0..MessageLimit /\ chRemaining \in 0..ChatCountdown
    BY ChatAssumption DEF ChatInit
  <2> QED BY <1>1, <1>2, <2>1 DEF ChatInit, ChatTypeOK
<1> QED BY <1>3 DEF ChatInit, ChatInv, TimerInv, ChatSound, OneLiveSocket, IdleStoreIsSilent,
                    RunsAreReported, ChatReconnects

\* Every handler, timer, effect and click keeps the invariant.
LEMMA ChatStepInv == ChatInv /\ [ChatNext]_chVars => ChatInv'
<1> SUFFICES ASSUME ChatInv, [ChatNext]_chVars PROVE ChatInv'
  OBVIOUS
<1> DEFINE OthersInv == /\ chListeners \in 0..ChatListeners
                        /\ chCloseTimer \in BOOLEAN
                        /\ chRetry \in BOOLEAN
                        /\ chOrphan \in 0..ChatOrphans
                        /\ chStatus \in {"connecting", "open", "closed"}
                        /\ chAuthFailed \in BOOLEAN
                        /\ chThinking \in BOOLEAN
                        /\ chTrail \in BOOLEAN
                        /\ chMessages \in 0..MessageLimit
                        /\ chConfirm \in Approvals \cup {NoApproval}
                        /\ chOptions \in Offers
                        /\ chRemaining \in 0..ChatCountdown
                        /\ chRuns \in Seq(ToolRuns)
           WantInv == IdleStoreIsSilent /\ ChatReconnects
<1>0. ConnInv /\ OthersInv /\ WantInv
  BY DEF ChatInv, ChatTypeOK, ChatSound, ConnInv, ChatReadyStates
<1>q. ASSUME ConnInv', OthersInv', WantInv' PROVE ChatInv'
  BY <1>q DEF ChatInv, ChatTypeOK, ChatSound, ConnInv, ChatReadyStates
<1>1. CASE Subscribe
  <2>1. ConnInv' /\ (chListeners = 0 => chSocket' # NoChatSocket)
    <3>1. CASE chListeners = 0
      BY <1>0, <1>1, <3>1, ConnectsKeeps DEF Subscribe
    <3>2. CASE chListeners # 0
      BY <1>0, <1>1, <3>2 DEF Subscribe, ConnInv, TimerInv, OneLiveSocket, RunsAreReported
    <3> QED BY <3>1, <3>2
  <2>2. OthersInv'
    <3>1. chListeners' \in 0..ChatListeners /\ chRemaining' \in 0..ChatCountdown
      BY <1>0, <1>1, ChatAssumption DEF Subscribe
    <3>2. chStatus' \in {"connecting", "open", "closed"}
      BY <1>0, <1>1 DEF Subscribe, Connects
    <3> QED BY <1>0, <1>1, <3>1, <3>2 DEF Subscribe, chTurn
  <2>3. WantInv'
    BY <1>0, <1>1, <2>1, ChatAssumption DEF Subscribe, IdleStoreIsSilent, ChatReconnects
  <2> QED BY <1>q, <2>1, <2>2, <2>3
<1>2. CASE Leave
  <2>1. ConnInv'
    BY <1>0, <1>2 DEF Leave, chConn, ConnInv, TimerInv, OneLiveSocket, RunsAreReported
  <2>2. OthersInv'
    BY <1>0, <1>2, ChatAssumption DEF Leave, chConn, chTurn, chModal
  <2>3. WantInv'
    <3>1. chListeners' = 0 => chCloseTimer'
      <4>1. chListeners' = 0 => chListeners = 1
        BY <1>0, <1>2, ChatAssumption DEF Leave
      <4> QED BY <1>2, <4>1 DEF Leave
    <3>2. chListeners' > 0 => chListeners > 0
      BY <1>0, <1>2, ChatAssumption DEF Leave
    <3> QED BY <1>0, <1>2, <3>1, <3>2 DEF Leave, chConn, IdleStoreIsSilent, ChatReconnects
  <2> QED BY <1>q, <2>1, <2>2, <2>3
<1>3. CASE CloseTimerFires
  <2>1. CASE chListeners = 0 /\ ~chThinking
    <3>1. ConnInv' /\ chStopped' = TRUE /\ chSocket' = NoChatSocket
      BY <1>0, <1>3, <2>1, StopsKeeps DEF CloseTimerFires
    <3>2. OthersInv'
      BY <1>0, <1>3, <2>1, EmptySeq DEF CloseTimerFires, Stops, chTurn, chModal
    <3> QED BY <1>q, <3>1, <3>2 DEF IdleStoreIsSilent, ChatReconnects
  <2>2. CASE ~(chListeners = 0 /\ ~chThinking)
    <3>1. ConnInv'
      BY <1>0, <1>3, <2>2 DEF CloseTimerFires, chConn, ConnInv, TimerInv, OneLiveSocket, RunsAreReported
    <3>2. OthersInv'
      BY <1>0, <1>3, <2>2 DEF CloseTimerFires, chConn, chTurn, chModal
    <3>3. WantInv'
      BY <1>0, <1>3, <2>2 DEF CloseTimerFires, chConn, chTurn, IdleStoreIsSilent, ChatReconnects
    <3> QED BY <1>q, <3>1, <3>2, <3>3
  <2> QED BY <2>1, <2>2
<1>4. CASE ShutDown
  <2>1. ConnInv' /\ chStopped' = TRUE /\ chSocket' = NoChatSocket
    BY <1>0, <1>4, StopsKeeps DEF ShutDown
  <2>2. OthersInv'
    BY <1>0, <1>4, EmptySeq DEF ShutDown, Stops, chTurn, chModal
  <2> QED BY <1>q, <2>1, <2>2 DEF IdleStoreIsSilent, ChatReconnects
<1>5. CASE RetryFires
  <2>1. OthersInv'
    <3>0. \/ chRetry' = FALSE /\ chOrphan' = chOrphan
          \/ chOrphan > 0 /\ chOrphan' = chOrphan - 1 /\ chRetry' = chRetry
      BY <1>5 DEF RetryFires
    <3>1. chRetry' \in BOOLEAN /\ chOrphan' \in 0..ChatOrphans
      <4>1. chRetry' \in BOOLEAN
        BY <1>0, <3>0, Zenon
      <4>2. chOrphan' = chOrphan \/ (chOrphan > 0 /\ chOrphan' = chOrphan - 1)
        BY <3>0, Zenon
      <4>3. chOrphan' \in 0..ChatOrphans
        <5> HIDE DEF OthersInv
        <5>1. chOrphan \in 0..ChatOrphans
          BY <1>0 DEF OthersInv
        <5> QED BY <4>2, <5>1, ChatAssumption
      <4> QED BY <4>1, <4>3
    <3>2. chStatus' \in {"connecting", "open", "closed"}
      BY <1>0, <1>5 DEF RetryFires, Connects
    <3> QED BY <1>0, <1>5, <3>1, <3>2 DEF RetryFires, chLifecycle, chTurn, chModal
  <2>2. CASE chStopped
    <3>1. ConnInv'
      BY <1>0, <1>5, <2>2
         DEF RetryFires, chLifecycle, ConnInv, TimerInv, OneLiveSocket, RunsAreReported
    <3>2. WantInv'
      BY <1>0, <1>5, <2>2 DEF RetryFires, chLifecycle, chTurn, IdleStoreIsSilent, ChatReconnects
    <3> QED BY <1>q, <2>1, <3>1, <3>2
  <2>3. CASE ~chStopped
    <3>1. ConnInv' /\ chSocket' # NoChatSocket
      BY <1>0, <1>5, <2>3, ConnectsKeeps DEF RetryFires, chLifecycle, ConnInv
    <3>2. WantInv'
      BY <1>0, <1>5, <2>3, <3>1 DEF RetryFires, chLifecycle, chTurn, IdleStoreIsSilent, ChatReconnects
    <3> QED BY <1>q, <2>1, <3>1, <3>2
  <2> QED BY <2>2, <2>3
<1>6. CASE ConnTimerFires
  <2>1. ConnInv'
    <3>1. chRuns = <<>>
      BY <1>0, <1>6 DEF ConnTimerFires, ConnInv, TimerInv, RunsAreReported
    <3> QED BY <1>0, <1>6, <3>1, ClosingType
            DEF ConnTimerFires, chLifecycle, ConnInv, TimerInv, OneLiveSocket, RunsAreReported
  <2>2. OthersInv'
    BY <1>0, <1>6 DEF ConnTimerFires, chLifecycle, chTurn, chModal
  <2>3. WantInv'
    BY <1>0, <1>6 DEF ConnTimerFires, chLifecycle, chTurn, IdleStoreIsSilent, ChatReconnects
  <2> QED BY <1>q, <2>1, <2>2, <2>3
<1>7. ASSUME NEW w \in ChatSockets, OnOpen(w) PROVE ChatInv'
  <2>1. chWs' \in [ChatSockets -> ChatReadyStates]
    BY <1>0, <1>7 DEF OnOpen, ConnInv, ChatReadyStates
  <2>2. ConnInv'
    BY <1>0, <1>7, <2>1
       DEF OnOpen, chLifecycle, ConnInv, ChatReadyStates, TimerInv, OneLiveSocket, RunsAreReported
  <2>3. OthersInv'
    BY <1>0, <1>7 DEF OnOpen, chLifecycle, chTurn, chModal
  <2>4. WantInv'
    BY <1>0, <1>7, ChatAssumption
       DEF OnOpen, chLifecycle, chTurn, ConnInv, OneLiveSocket, IdleStoreIsSilent, ChatReconnects
  <2> QED BY <1>q, <2>2, <2>3, <2>4
<1>8. ASSUME NEW w \in ChatSockets, NEW refused \in BOOLEAN, OnClose(w, refused) PROVE ChatInv'
  <2>1. /\ chWs' \in [ChatSockets -> ChatReadyStates]
        /\ chWs' = [chWs EXCEPT ![w] = "gone"]
    BY <1>0, <1>8 DEF OnClose, ConnInv, ChatReadyStates
  <2>2. CASE chSocket = w
    <3>1. ConnInv'
      BY <1>0, <1>8, <2>1, <2>2
         DEF OnClose, Drops, chLifecycle, ConnInv, ChatReadyStates, TimerInv, OneLiveSocket, RunsAreReported
    <3>2. OthersInv'
      <4>0. \/ chRetry' = chRetry /\ chOrphan' = chOrphan
            \/ /\ chRetry' = TRUE
               /\ chOrphan' = (IF chRetry THEN chOrphan + 1 ELSE chOrphan)
               /\ chOrphan' <= ChatOrphans
        BY <1>8, <2>2 DEF OnClose, Drops
      <4>1. chRetry' \in BOOLEAN /\ chOrphan' \in 0..ChatOrphans
        <5>1. chRetry' \in BOOLEAN
          BY <1>0, <4>0, Zenon
        <5>2. \/ chOrphan' = chOrphan
              \/ chOrphan' = chOrphan + 1 /\ chOrphan' <= ChatOrphans
          BY <4>0, Zenon
        <5>3. chOrphan \in 0..ChatOrphans
          BY <1>0
        <5>4. chOrphan' \in 0..ChatOrphans
          BY <5>2, <5>3, ChatAssumption
        <5> QED BY <5>1, <5>4
      <4>2. chRuns' \in Seq(ToolRuns)
        BY <1>8, <2>2, EmptySeq DEF OnClose, Drops
      <4> QED BY <1>0, <1>8, <2>2, <4>1, <4>2 DEF OnClose, Drops, chLifecycle, chTurn, chModal
    <3>3. WantInv'
      BY <1>0, <1>8, <2>2, ChatAssumption
         DEF OnClose, Drops, chLifecycle, chTurn, IdleStoreIsSilent, ChatReconnects
    <3> QED BY <1>q, <3>1, <3>2, <3>3
  <2>3. CASE chSocket # w
    <3>1. ConnInv'
      BY <1>0, <1>8, <2>1, <2>3
         DEF OnClose, chLifecycle, ConnInv, ChatReadyStates, TimerInv, OneLiveSocket, RunsAreReported
    <3>2. OthersInv'
      BY <1>0, <1>8, <2>3 DEF OnClose, chLifecycle, chTurn, chModal
    <3>3. WantInv'
      BY <1>0, <1>8, <2>3 DEF OnClose, chLifecycle, chTurn, IdleStoreIsSilent, ChatReconnects
    <3> QED BY <1>q, <3>1, <3>2, <3>3
  <2> QED BY <2>2, <2>3
<1>9. ASSUME UNCHANGED <<chListeners, chCloseTimer, chStopped, chSocket, chWs, chConnTimer, chRetry,
                         chAuthFailed, chRuns>>,
             chThinking => chThinking' \/ chListeners > 0,
             OthersInv'
      PROVE  ChatInv'
  <2>1. ConnInv'
    BY <1>0, <1>9 DEF ConnInv, TimerInv, OneLiveSocket, RunsAreReported
  <2>2. WantInv'
    BY <1>0, <1>9 DEF IdleStoreIsSilent, ChatReconnects
  <2> QED BY <1>q, <1>9, <2>1, <2>2
<1>10. ASSUME NEW w \in ChatSockets, NEW a \in Approvals, NEW offer \in Offers,
              OnConfirmation(w, a, offer)
       PROVE  ChatInv'
  <2>1. OthersInv'
    BY <1>0, <1>10, ChatAssumption DEF OnConfirmation, chLifecycle, chConn, chTurn
  <2> QED BY <1>9, <1>10, <2>1 DEF OnConfirmation, chLifecycle, chConn, chTurn
<1>11. ASSUME NEW w \in ChatSockets, OnThinking(w) PROVE ChatInv'
  <2>1. OthersInv'
    BY <1>0, <1>11 DEF OnThinking, chLifecycle, chConn, chModal
  <2> QED BY <1>9, <1>11, <2>1 DEF OnThinking, chLifecycle, chConn
<1>12. ASSUME NEW w \in ChatSockets, UNCHANGED <<chLifecycle, chConn, chThinking>>, Hears(w), OthersInv'
       PROVE  ChatInv'
  <2>1. ConnInv'
    BY <1>0, <1>12, ChatAssumption
       DEF chLifecycle, chConn, Hears, ConnInv, TimerInv, OneLiveSocket, RunsAreReported
  <2>2. WantInv'
    BY <1>0, <1>12 DEF chLifecycle, chConn, IdleStoreIsSilent, ChatReconnects
  <2> QED BY <1>q, <1>12, <2>1, <2>2
<1>13. ASSUME NEW w \in ChatSockets, NEW run \in ToolRuns, OnToolCall(w, run) PROVE ChatInv'
  <2>1. chRuns' \in Seq(ToolRuns)
    BY <1>0, <1>13, AppendProperties DEF OnToolCall
  <2>2. OthersInv'
    BY <1>0, <1>13, <2>1 DEF OnToolCall, chLifecycle, chConn, chModal
  <2> QED BY <1>12, <1>13, <2>2 DEF OnToolCall
<1>14. ASSUME NEW w \in ChatSockets, NEW ev \in ToolRuns, OnToolResult(w, ev) PROVE ChatInv'
  <2>1. chRuns' \in Seq(ToolRuns)
    BY <1>0, <1>14, EndedType DEF OnToolResult
  <2>2. OthersInv'
    BY <1>0, <1>14, <2>1 DEF OnToolResult, chLifecycle, chConn, chModal
  <2> QED BY <1>12, <1>14, <2>2 DEF OnToolResult
<1>15. ASSUME NEW w \in ChatSockets, OnDone(w) PROVE ChatInv'
  <2>1. OthersInv'
    BY <1>0, <1>15, EmptySeq DEF OnDone, chLifecycle, chConn, chTurn, chModal
  <2> QED BY <1>12, <1>15, <2>1 DEF OnDone, chTurn
<1>16. ASSUME NEW w \in ChatSockets, OnReply(w) PROVE ChatInv'
  <2>1. chMessages' \in 0..MessageLimit
    BY <1>0, <1>16, ChatAssumption, KeptType DEF OnReply
  <2>2. CASE chListeners = 0
    <3>1. ConnInv' /\ chStopped' = TRUE /\ chSocket' = NoChatSocket
      BY <1>0, <1>16, <2>2, StopsKeeps DEF OnReply
    <3>2. OthersInv'
      BY <1>0, <1>16, <2>1, <2>2, EmptySeq DEF OnReply, Stops, chModal
    <3> QED BY <1>q, <3>1, <3>2 DEF IdleStoreIsSilent, ChatReconnects
  <2>3. CASE chListeners # 0
    <3>1. ConnInv'
      BY <1>0, <1>16, <2>3 DEF OnReply, chConn, ConnInv, TimerInv, OneLiveSocket, RunsAreReported
    <3>2. OthersInv'
      BY <1>0, <1>16, <2>1, <2>3, EmptySeq DEF OnReply, chConn, chModal
    <3>3. WantInv'
      BY <1>0, <1>16, <2>3 DEF OnReply, chConn, IdleStoreIsSilent, ChatReconnects
    <3> QED BY <1>q, <3>1, <3>2, <3>3
  <2> QED BY <2>2, <2>3
<1>17. CASE Submit
  <2>1. chMessages' \in 0..MessageLimit
    BY <1>0, <1>17, ChatAssumption, KeptType DEF Submit
  <2>2. OthersInv'
    BY <1>0, <1>17, <2>1 DEF Submit, chLifecycle, chConn, chModal
  <2> QED BY <1>9, <1>17, <2>2 DEF Submit, chLifecycle, chConn
<1>18. ASSUME NEW d \in {"deny", "once", "save", "approve"}, Decide(d) PROVE ChatInv'
  <2>1. OthersInv'
    BY <1>0, <1>18, ChatAssumption DEF Decide, chLifecycle, chConn, chTurn
  <2> QED BY <1>9, <1>18, <2>1 DEF Decide, chLifecycle, chConn, chTurn
<1>19. CASE Tick
  <2>1. OthersInv'
    BY <1>0, <1>19, ChatAssumption DEF Tick, chLifecycle, chConn, chTurn
  <2> QED BY <1>9, <1>19, <2>1 DEF Tick, chLifecycle, chConn, chTurn
<1>20. CASE UNCHANGED chVars
  <2>1. OthersInv'
    BY <1>0, <1>20 DEF chVars, chLifecycle, chConn, chTurn, chModal
  <2> QED BY <1>9, <1>20, <2>1 DEF chVars, chLifecycle, chConn, chTurn
<1> QED
  BY <1>1, <1>2, <1>3, <1>4, <1>5, <1>6, <1>7, <1>8, <1>10, <1>11, <1>13, <1>14, <1>15, <1>16,
     <1>17, <1>18, <1>19, <1>20 DEF ChatNext
-----------------------------------------------------------------------------

\* The handlers, timers and effects of the chat keep every variable in its
\* range; the modal never counts below zero and the list of messages stays
\* within its limit.
THEOREM ChatTypeCorrect == ChatSpec => []ChatTypeOK
<1>1. ChatInv => ChatTypeOK
  BY DEF ChatInv
<1> QED BY <1>1, ChatInitInv, ChatStepInv, PTL DEF ChatSpec

\* One session has one live socket, a store without subscribers is silent,
\* a tool is shown as running only over the connection that reported it, and
\* a chat somebody looks at comes back (useChatSocket.ts,
\* demandLifecycle.ts): in every order of mounts, unmounts, timers, closes,
\* frames, evictions and logouts.
THEOREM ChatIsSound == ChatSpec => []ChatSound
<1>1. ChatInv => ChatSound
  BY DEF ChatInv
<1> QED BY <1>1, ChatInitInv, ChatStepInv, PTL DEF ChatSpec

-----------------------------------------------------------------------------
(* Sequences without repetitions, as the registry keeps its stores.        *)

Once(s) == \A i, j \in 1..Len(s) : s[i] = s[j] => i = j

Members(s) == {s[i] : i \in 1..Len(s)}

LEMMA LeastExists ==
    ASSUME NEW T, T \subseteq Nat, T # {}
    PROVE  \E x \in T : \A y \in T : x <= y
<1> DEFINE R == {ss \in Nat \X Nat : ss[1] < ss[2]}
<1>1. IsWellFoundedOn(R, Nat)
  BY NatLessThanWellFounded DEF OpToRel
<1>2. \E x \in T : \A y \in T : ~(<<y, x>> \in R)
  <2> HIDE DEF R
  <2> QED BY <1>1, WFMin
<1>3. \A x, y \in Nat : <<y, x>> \notin R => x <= y
  OBVIOUS
<1> QED BY <1>2, <1>3

\* A sequence without repetitions has as many members as places.
LEMMA OnceCounts ==
    ASSUME NEW S, NEW s \in Seq(S), Once(s)
    PROVE  IsFiniteSet(Members(s)) /\ Cardinality(Members(s)) = Len(s)
<1> DEFINE f == [i \in 1..Len(s) |-> s[i]]
<1>1. Len(s) \in Nat
  BY LenProperties
<1>2. IsFiniteSet(1..Len(s)) /\ Cardinality(1..Len(s)) = Len(s)
  <2>1. Cardinality(1..Len(s)) = IF 1 > Len(s) THEN 0 ELSE Len(s) - 1 + 1
    BY <1>1, FS_Interval
  <2> QED BY <1>1, <2>1, FS_Interval
<1>3. f \in Bijection(1..Len(s), Members(s))
  BY DEF Bijection, Injection, Surjection, IsInjective, Once, Members
<1>4. ExistsBijection(1..Len(s), Members(s))
  BY <1>3 DEF ExistsBijection
<1> QED BY <1>2, <1>4, FS_Bijection

LEMMA OnceAppend ==
    ASSUME NEW S, NEW s \in Seq(S), Once(s), NEW x \in S, x \notin Members(s)
    PROVE  /\ Append(s, x) \in Seq(S) /\ Len(Append(s, x)) = Len(s) + 1 /\ Once(Append(s, x))
           /\ Members(Append(s, x)) = Members(s) \cup {x}
<1> DEFINE t == Append(s, x)
<1>1. /\ t \in Seq(S) /\ Len(t) = Len(s) + 1 /\ Len(s) \in Nat
      /\ \A k \in 1..Len(s) : t[k] = s[k]
      /\ t[Len(s) + 1] = x
  BY AppendProperties, LenProperties
<1> HIDE DEF t
<1>2. Once(t)
  BY <1>1 DEF Once, Members
<1>3. Members(t) = Members(s) \cup {x}
  <2>1. \A k \in 1..Len(t) : k \in 1..Len(s) \/ k = Len(s) + 1
    BY <1>1
  <2>2. Len(s) + 1 \in 1..Len(t) /\ \A k \in 1..Len(s) : k \in 1..Len(t)
    BY <1>1
  <2> QED BY <1>1, <2>1, <2>2 DEF Members
<1> QED BY <1>1, <1>2, <1>3 DEF t

-----------------------------------------------------------------------------
(* The registry.                                                           *)

StoresInv ==
    /\ rgStores \in Seq(ChatKeys) /\ Once(rgStores) /\ Len(rgStores) <= StoreLimit
    /\ rgShown \subseteq rgRunning /\ rgRunning \subseteq Members(rgStores)

\* The bound on the stores on screen leaves one to push out.
RoomInv == IsFiniteSet(rgShown) /\ Cardinality(rgShown) <= ShownAtOnce

LEMMA RegisteredMembers == Registered = Members(rgStores)
BY DEF Registered, Members

\* Spared stores are too few to fill the registry: one can be pushed out, and
\* the oldest of those is one place.
LEMMA OneIsEvicted ==
    ASSUME StoresInv, RoomInv, NEW s \in ChatKeys, s \notin Registered,
           Cardinality(rgShown \cup {s}) <= ShownAtOnce, Len(rgStores) >= StoreLimit
    PROVE  \E i \in Evictable : Evicted = {i}
<1>1. Len(rgStores) \in Nat
  BY LenProperties DEF StoresInv
<1>2. Evictable # {}
  <2> SUFFICES ASSUME Evictable = {} PROVE FALSE
    OBVIOUS
  <2>1. Members(rgStores) \subseteq rgShown \cup {CommandDeck}
    BY DEF Evictable, Members
  <2>2. IsFiniteSet(Members(rgStores)) /\ Cardinality(Members(rgStores)) = Len(rgStores)
    BY OnceCounts DEF StoresInv
  <2>3. s \notin rgShown
    BY RegisteredMembers DEF StoresInv
  <2>4. Cardinality(rgShown) \in Nat /\ Cardinality(rgShown \cup {s}) = Cardinality(rgShown) + 1
    BY <2>3, FS_AddElement, FS_CardinalityType DEF RoomInv
  <2>5. IsFiniteSet(rgShown \cup {CommandDeck})
    BY FS_AddElement DEF RoomInv
  <2>6. \/ Cardinality(rgShown \cup {CommandDeck}) = Cardinality(rgShown)
        \/ Cardinality(rgShown \cup {CommandDeck}) = Cardinality(rgShown) + 1
    BY FS_AddElement DEF RoomInv
  <2>7. Cardinality(Members(rgStores)) <= Cardinality(rgShown \cup {CommandDeck})
    BY <2>1, <2>5, FS_Subset
  <2> QED BY <1>1, <2>2, <2>4, <2>6, <2>7, RegistryAssumption
<1>3. Evictable \subseteq Nat
  BY <1>1 DEF Evictable
<1>4. PICK i \in Evictable : \A j \in Evictable : i <= j
  BY <1>2, <1>3, LeastExists
<1>5. Evicted = {j \in Evictable : \A k \in Evictable : j <= k}
  BY <1>1, RegistryAssumption DEF Evicted
<1>6. \A j \in Evictable : (\A k \in Evictable : j <= k) => j = i
  BY <1>3, <1>4
<1> QED BY <1>4, <1>5, <1>6

\* Without one of its stores the registry still has none twice.
LEMMA OnceWithout ==
    ASSUME rgStores \in Seq(ChatKeys), Once(rgStores), NEW i \in 1..Len(rgStores)
    PROVE  /\ StoresWithout(i) \in Seq(ChatKeys) /\ Once(StoresWithout(i))
           /\ Len(StoresWithout(i)) = Len(rgStores) - 1
           /\ Members(StoresWithout(i)) = Members(rgStores) \ {rgStores[i]}
<1> DEFINE s == rgStores
           S == ChatKeys
           t == StoresWithout(i)
           n == Len(s)
<1>1. n \in Nat /\ i \in Nat /\ 1 <= i /\ i <= n
  BY LenProperties
<1>2. \A k \in 1..n : s[k] \in S
  BY ElementOfSeq
<1>3. t \in Seq(S) /\ Len(t) = n - 1
  <2>1. n - 1 \in Nat
    BY <1>1
  <2>2. \A k \in 1..(n - 1) : k \in 1..n /\ k + 1 \in 1..n
    BY <1>1
  <2>3. t \in [1..(n - 1) -> S]
    BY <1>2, <2>2 DEF StoresWithout
  <2>4. t \in Seq(S)
    BY <2>1, <2>3, SeqDef
  <2> QED BY <2>1, <2>3, <2>4, LenProperties
<1>4. \A k \in 1..(n - 1) : t[k] = IF k < i THEN s[k] ELSE s[k + 1]
  BY DEF StoresWithout
<1> HIDE DEF n, s, t
<1> DEFINE at(k) == IF k < i THEN k ELSE k + 1
<1>5. \A k \in 1..(n - 1) : at(k) \in 1..n /\ at(k) # i /\ t[k] = s[at(k)]
  <2> TAKE k \in 1..(n - 1)
  <2>1. at(k) \in 1..n /\ at(k) # i
    BY <1>1
  <2>2. t[k] = s[at(k)]
    BY <1>4
  <2> QED BY <2>1, <2>2
<1>6. \A j \in 1..n : j # i => \E k \in 1..(n - 1) : at(k) = j
  <2> SUFFICES ASSUME NEW j \in 1..n, j # i PROVE \E k \in 1..(n - 1) : at(k) = j
    OBVIOUS
  <2>1. CASE j < i
    <3>1. j \in 1..(n - 1) /\ at(j) = j
      BY <1>1, <2>1
    <3> QED BY <3>1
  <2>2. CASE j > i
    <3>1. j - 1 \in 1..(n - 1) /\ at(j - 1) = j
      BY <1>1, <2>2
    <3> QED BY <3>1
  <2> QED BY <1>1, <2>1, <2>2
<1>7. \A j, k \in 1..(n - 1) : at(j) = at(k) => j = k
  BY <1>1
<1> HIDE DEF at
<1>8. \A j, k \in 1..n : s[j] = s[k] => j = k
  BY DEF Once, n, s
<1>9. Once(t)
  BY <1>3, <1>5, <1>7, <1>8 DEF Once
<1>10. /\ \A x : x \in Members(s) <=> \E j \in 1..n : x = s[j]
       /\ \A x : x \in Members(t) <=> \E k \in 1..(n - 1) : x = t[k]
  BY <1>3 DEF Members, n, s, t
<1>11. i \in 1..n
  BY DEF n, s
<1>12. Members(t) = Members(s) \ {s[i]}
  <2>1. \A k \in 1..(n - 1) : t[k] \in Members(s) \ {s[i]}
    <3> TAKE k \in 1..(n - 1)
    <3>1. PICK j \in 1..n : j # i /\ t[k] = s[j]
      BY <1>5
    <3>2. s[j] # s[i]
      BY <1>8, <1>11, <3>1
    <3> QED BY <1>10, <3>1, <3>2
  <2>2. \A j \in 1..n : s[j] # s[i] => s[j] \in Members(t)
    BY <1>5, <1>6, <1>10
  <2>3. ASSUME NEW x PROVE x \in Members(t) <=> x \in Members(s) /\ x # s[i]
    <3>1. ASSUME x \in Members(t) PROVE x \in Members(s) /\ x # s[i]
      <4>1. PICK k \in 1..(n - 1) : x = t[k]
        BY <1>10, <3>1
      <4>2. t[k] \in Members(s) /\ t[k] # s[i]
        BY <2>1
      <4> QED BY <4>1, <4>2, Zenon
    <3>2. ASSUME x \in Members(s), x # s[i] PROVE x \in Members(t)
      BY <1>10, <2>2, <3>2
    <3> QED BY <3>1, <3>2
  <2> QED BY <2>3
<1> QED BY <1>3, <1>9, <1>12 DEF n, s, t

LEMMA UseKeepsInv ==
    ASSUME StoresInv, RoomInv, NEW s \in ChatKeys, Use(s)
    PROVE  StoresInv' /\ RoomInv'
<1> DEFINE gone == IF s \in Registered THEN {i \in 1..Len(rgStores) : rgStores[i] = s} ELSE Evicted
           kept == IF gone = {} THEN rgStores ELSE StoresWithout(CHOOSE i \in gone : TRUE)
<1>1. /\ Cardinality(rgShown \cup {s}) <= ShownAtOnce
      /\ rgStores' = Append(kept, s)
      /\ rgShown' = rgShown \cup {s}
      /\ rgRunning' = (rgRunning \ {rgStores[i] : i \in gone}) \cup {s}
  BY DEF Use
<1>2. Len(rgStores) \in Nat /\ StoreLimit \in Nat /\ StoreLimit > 0
  BY LenProperties, RegistryAssumption DEF StoresInv
<1>3. \/ gone = {} /\ s \notin Registered /\ Len(rgStores) < StoreLimit
      \/ \E i \in 1..Len(rgStores) : /\ gone = {i}
                                     /\ s \in Registered => rgStores[i] = s
                                     /\ rgStores[i] = s \/ rgStores[i] \notin rgShown
  <2>1. CASE s \in Registered
    <3>1. PICK i \in 1..Len(rgStores) : rgStores[i] = s
      BY <2>1 DEF Registered
    <3>2. \A j \in 1..Len(rgStores) : rgStores[j] = s => j = i
      BY <3>1 DEF StoresInv, Once
    <3>3. gone = {i}
      BY <2>1, <3>1, <3>2
    <3> QED BY <3>1, <3>3
  <2>2. CASE s \notin Registered /\ Len(rgStores) < StoreLimit
    BY <2>2 DEF Evicted
  <2>3. CASE s \notin Registered /\ ~(Len(rgStores) < StoreLimit)
    <3>1. PICK i \in Evictable : Evicted = {i}
      BY <1>1, <1>2, <2>3, OneIsEvicted
    <3>2. i \in 1..Len(rgStores) /\ rgStores[i] \notin rgShown
      BY DEF Evictable
    <3> QED BY <2>3, <3>1, <3>2
  <2> QED BY <2>1, <2>2, <2>3
<1>4. /\ kept \in Seq(ChatKeys) /\ Once(kept) /\ Len(kept) + 1 <= StoreLimit
      /\ s \notin Members(kept)
      /\ Members(kept) = Members(rgStores) \ {rgStores[i] : i \in gone}
      /\ \A i \in gone : rgStores[i] = s \/ rgStores[i] \notin rgShown
  <2>1. CASE gone = {} /\ s \notin Registered /\ Len(rgStores) < StoreLimit
    <3>1. kept = rgStores /\ {rgStores[i] : i \in gone} = {}
      BY <2>1
    <3> HIDE DEF kept, gone
    <3> QED BY <1>2, <2>1, <3>1, RegisteredMembers DEF StoresInv
  <2>2. ASSUME NEW i \in 1..Len(rgStores), gone = {i}, s \in Registered => rgStores[i] = s,
               rgStores[i] = s \/ rgStores[i] \notin rgShown
        PROVE  /\ kept \in Seq(ChatKeys) /\ Once(kept) /\ Len(kept) + 1 <= StoreLimit
               /\ s \notin Members(kept)
               /\ Members(kept) = Members(rgStores) \ {rgStores[j] : j \in gone}
               /\ \A j \in gone : rgStores[j] = s \/ rgStores[j] \notin rgShown
    <3> HIDE DEF gone
    <3>1. kept = StoresWithout(i)
      BY <2>2
    <3> HIDE DEF kept
    <3>2. rgStores \in Seq(ChatKeys) /\ Once(rgStores)
      BY DEF StoresInv
    <3>3. /\ kept \in Seq(ChatKeys) /\ Once(kept) /\ Len(kept) = Len(rgStores) - 1
          /\ Members(kept) = Members(rgStores) \ {rgStores[i]}
      BY <3>1, <3>2, OnceWithout
    <3>4. Len(kept) + 1 <= StoreLimit
      BY <1>2, <3>3 DEF StoresInv
    <3>5. {rgStores[j] : j \in gone} = {rgStores[i]}
      BY <2>2
    <3> QED BY <2>2, <3>3, <3>4, <3>5, RegisteredMembers
  <2> QED BY <1>3, <2>1, <2>2
<1> HIDE DEF kept, gone
<1>5. /\ rgStores' \in Seq(ChatKeys) /\ Len(rgStores') = Len(kept) + 1 /\ Once(rgStores')
      /\ Members(rgStores') = Members(kept) \cup {s}
  BY <1>1, <1>4, OnceAppend
<1>6. rgShown' \subseteq rgRunning' /\ rgRunning' \subseteq Members(rgStores')
  <2>1. rgRunning' \subseteq Members(rgStores')
    BY <1>1, <1>4, <1>5 DEF StoresInv
  <2>2. \A x \in rgShown : x = s \/ x \in rgRunning \ {rgStores[i] : i \in gone}
    BY <1>4 DEF StoresInv
  <2> QED BY <1>1, <2>1, <2>2
<1>7. StoresInv'
  BY <1>4, <1>5, <1>6 DEF StoresInv
<1>8. RoomInv'
  BY <1>1, FS_AddElement DEF RoomInv
<1> QED BY <1>7, <1>8

LEMMA RegistryStep == StoresInv /\ RoomInv /\ [RegistryNext]_rgVars => StoresInv' /\ RoomInv'
<1> SUFFICES ASSUME StoresInv, RoomInv, [RegistryNext]_rgVars PROVE StoresInv' /\ RoomInv'
  OBVIOUS
<1>1. ASSUME NEW s \in ChatKeys, Use(s) PROVE StoresInv' /\ RoomInv'
  BY <1>1, UseKeepsInv
<1>2. ASSUME NEW s \in ChatKeys, NEW thinking \in BOOLEAN, Unmounts(s, thinking)
      PROVE  StoresInv' /\ RoomInv'
  <2>1. StoresInv'
    BY <1>2 DEF Unmounts, StoresInv
  <2>2. IsFiniteSet(rgShown') /\ Cardinality(rgShown') <= Cardinality(rgShown)
    BY <1>2, FS_Subset DEF Unmounts, RoomInv
  <2>3. Cardinality(rgShown') \in Nat /\ Cardinality(rgShown) \in Nat /\ ShownAtOnce \in Nat
    BY <2>2, FS_CardinalityType, RegistryAssumption DEF RoomInv
  <2> QED BY <2>1, <2>2, <2>3 DEF RoomInv
<1>3. ASSUME NEW s \in ChatKeys, LateAnswer(s) PROVE StoresInv' /\ RoomInv'
  BY <1>3 DEF LateAnswer, StoresInv, RoomInv
<1>4. ASSUME ShutDownAll \/ UNCHANGED rgVars PROVE StoresInv' /\ RoomInv'
  <2>1. CASE ShutDownAll
    <3>1. rgStores' \in Seq(ChatKeys) /\ Len(rgStores') = 0
      BY <2>1, EmptySeq DEF ShutDownAll
    <3>2. Once(rgStores')
      BY <3>1 DEF Once
    <3>3. RoomInv'
      BY <2>1, FS_EmptySet, RegistryAssumption DEF ShutDownAll, RoomInv
    <3> QED BY <2>1, <3>1, <3>2, <3>3, RegistryAssumption DEF ShutDownAll, StoresInv
  <2>2. CASE UNCHANGED rgVars
    BY <2>2 DEF rgVars, StoresInv, RoomInv
  <2> QED BY <1>4, <2>1, <2>2
<1> QED BY <1>1, <1>2, <1>3, <1>4 DEF RegistryNext

LEMMA RegistryStart == RegistryInit => StoresInv /\ RoomInv
<1> SUFFICES ASSUME RegistryInit PROVE StoresInv /\ RoomInv
  OBVIOUS
<1>1. rgStores \in Seq(ChatKeys) /\ Len(rgStores) = 0
  BY EmptySeq DEF RegistryInit
<1>2. Once(rgStores)
  BY <1>1 DEF Once
<1>3. RoomInv
  BY FS_EmptySet, RegistryAssumption DEF RegistryInit, RoomInv
<1> QED BY <1>1, <1>2, <1>3, RegistryAssumption DEF RegistryInit, StoresInv

LEMMA RegistryIsSound == StoresInv => NoStoreEscapes
BY OnceCounts, RegisteredMembers DEF StoresInv, NoStoreEscapes

LEMMA RegistryTypes == StoresInv => RegistryTypeOK
<1> SUFFICES ASSUME StoresInv PROVE RegistryTypeOK
  OBVIOUS
<1>1. \A i \in 1..Len(rgStores) : rgStores[i] \in ChatKeys
  BY ElementOfSeq DEF StoresInv
<1>2. Members(rgStores) \subseteq ChatKeys
  BY <1>1 DEF Members
<1> QED BY <1>2 DEF StoresInv, RegistryTypeOK

\* A chat store that runs is in the registry, once, so that a logout reaches
\* it, and pushing out the oldest idle store always finds room
\* (getChatStore and shutdownChatStores of useChatSocket.ts).
THEOREM NoStoreEscapesHolds == RegistrySpec => []NoStoreEscapes
<1>1. StoresInv => NoStoreEscapes
  BY RegistryIsSound
<1> QED BY <1>1, RegistryStart, RegistryStep, PTL DEF RegistrySpec

-----------------------------------------------------------------------------
(* The page of the web client.                                              *)

WebReadyStates == {"connecting", "open", "closing", "gone"}

\* The one socket: the page that is left has none, and a retry is due only
\* for a page without one.  What an open socket is subscribed to last is the
\* session that frames are checked against.
SocketInv ==
    /\ wcSocket \in WebSockets \cup {NoWebSocket}
    /\ wcWs \in [WebSockets -> WebReadyStates]
    /\ wcMounted \in BOOLEAN
    /\ wcRetry => wcSocket = NoWebSocket
    /\ ~wcMounted => wcSocket = NoWebSocket /\ ~wcRetry
    /\ WebOneSocket
    /\ wcSocket # NoWebSocket /\ wcWs[wcSocket] = "open" => wcSub = wcRef

\* What the page shows: its history and messages are those of the session it
\* follows, and while it is about to follow another one the effect is due.
FollowInv ==
    /\ wcShown \subseteq {wcRef}
    /\ wcInitial \in {NoSessionYet, wcSession}
    /\ wcMounted /\ "session" \notin wcDue => wcRef = wcSession
    /\ ~wcMounted => /\ wcShown = {} /\ wcInitial = NoSessionYet
                     /\ wcLoads = {} /\ wcDetails = {} /\ wcDeletes = {}

WebChatInv == SocketInv /\ FollowInv

-----------------------------------------------------------------------------

LEMMA WebChatInitInv == WebChatInit => WebChatInv
  BY DEF WebChatInit, WebChatInv, SocketInv, FollowInv, WebOneSocket, WebReadyStates

\* A socket is made only where there is none.
LEMMA WebConnectsKeeps ==
    ASSUME SocketInv, wcSocket = NoWebSocket, WebConnects, wcMounted' = TRUE, wcRetry' = FALSE
    PROVE  SocketInv'
<1>1. PICK w \in WebSockets : /\ wcWs[w] = "gone"
                              /\ wcWs' = [wcWs EXCEPT ![w] = "connecting"]
                              /\ wcSocket' = w
  BY DEF WebConnects
<1>2. wcWs' \in [WebSockets -> WebReadyStates] /\ wcWs'[w] = "connecting"
  BY <1>1 DEF SocketInv, WebReadyStates
<1>3. \A v \in WebSockets : wcWs[v] \notin {"connecting", "open"}
  BY WebAssumption DEF SocketInv, WebOneSocket
<1>4. WebOneSocket'
  BY <1>1, <1>2, <1>3 DEF WebOneSocket, SocketInv
<1> QED BY <1>1, <1>2, <1>4, WebAssumption DEF SocketInv

\* A step that leaves the connection and the mount as they are.
LEMMA SocketKept ==
    ASSUME SocketInv, UNCHANGED <<wcConn, wcMounted, wcRef>>
    PROVE  SocketInv'
  BY DEF SocketInv, WebOneSocket, wcConn

\* A render that follows another session makes the effect due.
LEMMA RendersKeeps ==
    ASSUME FollowInv, NEW url, NEW session, NEW initial, NEW active, NEW list,
           Renders(url, session, initial, active, list),
           initial \in {NoSessionYet, session},
           wcMounted = TRUE, UNCHANGED <<wcMounted, wcRef, wcShown>>
    PROVE  FollowInv'
<1>1. "session" \in wcDue => "session" \in wcDue'
  BY DEF Renders
<1>2. session # wcSession => "session" \in wcDue'
  BY DEF Renders
<1> QED BY <1>1, <1>2 DEF FollowInv, Renders

\* Every event of the socket, effect, answer and click keeps the invariant.
LEMMA WebChatStepInv == WebChatInv /\ [WebChatNext]_wcVars => WebChatInv'
<1> SUFFICES ASSUME WebChatInv, [WebChatNext]_wcVars PROVE WebChatInv'
  OBVIOUS
<1>0. SocketInv /\ FollowInv
  BY DEF WebChatInv
<1> USE DEF wcPage, wcLists
<1>1. ASSUME NEW w \in WebSockets, WebOnOpen(w) PROVE WebChatInv'
  <2>1. wcWs' \in [WebSockets -> WebReadyStates] /\ \A v \in WebSockets : v # w => wcWs'[v] = wcWs[v]
    BY <1>0, <1>1 DEF WebOnOpen, SocketInv, WebReadyStates
  <2>2. wcSocket = w
    BY <1>0, <1>1 DEF WebOnOpen, SocketInv, WebOneSocket
  <2>3. SocketInv'
    BY <1>0, <1>1, <2>1, <2>2 DEF WebOnOpen, SocketInv, WebOneSocket
  <2>4. FollowInv'
    BY <1>0, <1>1 DEF WebOnOpen, FollowInv
  <2> QED BY <2>3, <2>4 DEF WebChatInv
<1>2. ASSUME NEW w \in WebSockets, NEW refused \in BOOLEAN, WebOnClose(w, refused) PROVE WebChatInv'
  <2>1. /\ wcWs' \in [WebSockets -> WebReadyStates] /\ wcWs'[w] = "gone"
        /\ \A v \in WebSockets : v # w => wcWs'[v] = wcWs[v]
    BY <1>0, <1>2 DEF WebOnClose, SocketInv, WebReadyStates
  <2>2. SocketInv'
    <3>1. CASE wcSocket = w
      BY <1>0, <1>2, <2>1, <3>1, WebAssumption DEF WebOnClose, SocketInv, WebOneSocket
    <3>2. CASE wcSocket # w
      BY <1>0, <1>2, <2>1, <3>2 DEF WebOnClose, SocketInv, WebOneSocket
    <3> QED BY <3>1, <3>2
  <2>3. FollowInv'
    BY <1>0, <1>2 DEF WebOnClose, FollowInv
  <2> QED BY <2>2, <2>3 DEF WebChatInv
<1>3. CASE WebRetry
  <2>1. wcSocket = NoWebSocket /\ wcMounted = TRUE
    BY <1>0, <1>3 DEF WebRetry, SocketInv
  <2>2. SocketInv'
    BY <1>0, <1>3, <2>1, WebConnectsKeeps DEF WebRetry
  <2>3. FollowInv'
    BY <1>0, <1>3 DEF WebRetry, FollowInv
  <2> QED BY <2>2, <2>3 DEF WebChatInv
<1>4. CASE FollowSession
  <2>1. SocketInv'
    <3>1. CASE wcRef # wcSession /\ wcSocket # NoWebSocket /\ wcWs[wcSocket] = "open"
      BY <1>0, <1>4, <3>1 DEF FollowSession, SocketInv, WebOneSocket
    <3>2. CASE ~(wcRef # wcSession /\ wcSocket # NoWebSocket /\ wcWs[wcSocket] = "open")
      BY <1>0, <1>4, <3>2 DEF FollowSession, SocketInv, WebOneSocket
    <3> QED BY <3>1, <3>2
  <2>2. FollowInv'
    <3>1. wcShown' \subseteq {wcSession} /\ wcRef' = wcSession
      BY <1>0, <1>4 DEF FollowSession, FollowInv
    <3>2. UNCHANGED <<wcMounted, wcInitial, wcSession, wcLoads, wcDetails, wcDeletes>>
      BY <1>4 DEF FollowSession, wcLists
    <3>3. ~wcMounted => wcShown' = {}
      BY <1>0, <1>4 DEF FollowSession, FollowInv
    <3> QED BY <1>0, <3>1, <3>2, <3>3 DEF FollowInv
  <2> QED BY <2>1, <2>2 DEF WebChatInv
<1>5. ASSUME NEW s,
             WebOnConfirmation(s) \/ WebOnReply(s) \/ WebSend \/ WebConfirmed
      PROVE  WebChatInv'
  <2>1. SocketInv'
    BY <1>0, <1>5, SocketKept DEF WebOnConfirmation, WebOnReply, WebSend, WebConfirmed
  <2>2. CASE WebOnReply(s) \/ WebSend
    <3>1. wcMounted = TRUE
      BY <1>0, <2>2 DEF WebOnReply, WebSend, Frame, WebComposerReady, SocketInv
    <3>2. wcShown' \subseteq {wcRef}
      BY <1>0, <2>2 DEF WebOnReply, WebSend, Accepts, FollowInv
    <3> QED BY <1>0, <2>1, <2>2, <3>1, <3>2 DEF WebOnReply, WebSend, WebChatInv, FollowInv
  <2>3. CASE WebOnConfirmation(s) \/ WebConfirmed
    BY <1>0, <2>1, <2>3 DEF WebOnConfirmation, WebConfirmed, WebChatInv, FollowInv
  <2> QED BY <1>5, <2>2, <2>3
<1>6. ASSUME NEW url \in MaybeSession, WebMount(url) PROVE WebChatInv'
  <2>1. SocketInv'
    <3>1. wcSocket = NoWebSocket /\ wcMounted' = TRUE /\ wcRetry' = FALSE /\ WebConnects
      BY <1>0, <1>6 DEF WebMount, SocketInv
    <3> QED BY <1>0, <3>1, WebConnectsKeeps
  <2>2. FollowInv'
    BY <1>0, <1>6 DEF WebMount, FollowInv
  <2> QED BY <2>1, <2>2 DEF WebChatInv
<1>7. CASE WebUnmount
  <2>1. /\ wcWs' \in [WebSockets -> WebReadyStates]
        /\ \A v \in WebSockets : wcWs'[v] \notin {"connecting", "open"}
    BY <1>0, <1>7, WebAssumption DEF WebUnmount, SocketInv, WebOneSocket, WebReadyStates
  <2>2. SocketInv'
    BY <1>7, <2>1 DEF WebUnmount, SocketInv, WebOneSocket
  <2>3. FollowInv'
    BY <1>7 DEF WebUnmount, FollowInv
  <2> QED BY <2>2, <2>3 DEF WebChatInv
<1>8. CASE LoadSession
  <2>1. SocketInv'
    BY <1>0, <1>8, SocketKept DEF LoadSession
  <2>2. FollowInv'
    <3>1. CASE wcUrl \notin wcList
      <4>1. wcUrl # wcSession => "session" \in wcDue'
        BY <1>8, <3>1 DEF LoadSession
      <4>2. "session" \in wcDue => "session" \in wcDue'
        BY <1>8, <3>1 DEF LoadSession
      <4> QED BY <1>0, <1>8, <3>1, <4>1, <4>2 DEF LoadSession, FollowInv
    <3>2. CASE wcUrl \in wcList
      BY <1>0, <1>8, <3>2 DEF LoadSession, FollowInv
    <3> QED BY <3>1, <3>2
  <2> QED BY <2>1, <2>2 DEF WebChatInv
<1>9. ASSUME UNCHANGED <<wcConn, wcMounted, wcRef, wcShown, wcSession, wcInitial, wcDue>>,
             wcMounted \/ UNCHANGED <<wcLoads, wcDetails, wcDeletes>>
      PROVE  WebChatInv'
  <2>1. SocketInv'
    BY <1>0, <1>9, SocketKept
  <2>2. FollowInv'
    BY <1>0, <1>9 DEF FollowInv
  <2> QED BY <2>1, <2>2 DEF WebChatInv
<1>10. ASSUME NEW c \in WebSessions, WebDetailAnswered(c) PROVE WebChatInv'
  <2>1. wcMounted = TRUE
    BY <1>0, <1>10 DEF WebDetailAnswered, FollowInv, SocketInv
  <2>2. CASE c \in wcServer
    <3>1. SocketInv'
      BY <1>0, <1>10, SocketKept DEF WebDetailAnswered
    <3>2. FollowInv'
      BY <1>0, <1>10, <2>1, <2>2, RendersKeeps DEF WebDetailAnswered
    <3> QED BY <3>1, <3>2 DEF WebChatInv
  <2>3. CASE c \notin wcServer
    BY <1>9, <1>10, <2>1, <2>3 DEF WebDetailAnswered
  <2> QED BY <2>2, <2>3
<1>11. ASSUME NEW s \in WebSessions, Navigate(s) PROVE WebChatInv'
  <2>1. SocketInv'
    BY <1>0, <1>11, SocketKept DEF Navigate
  <2>2. FollowInv'
    BY <1>0, <1>11, RendersKeeps DEF Navigate, FollowInv, SocketInv
  <2> QED BY <2>1, <2>2 DEF WebChatInv
<1>12. ASSUME NEW c \in WebSessions, WebDelete(c) PROVE WebChatInv'
  BY <1>9, <1>12 DEF WebDelete, WebSidebarRows
<1>13. CASE WebLoadConversations
  BY <1>9, <1>13 DEF WebLoadConversations
<1>14. ASSUME NEW answer \in wcLoads, NEW failed \in BOOLEAN, WebListAnswered(answer, failed)
       PROVE  WebChatInv'
  <2>1. wcMounted = TRUE
    BY <1>0, <1>14 DEF FollowInv, SocketInv
  <2>2. SocketInv'
    BY <1>0, <1>14, SocketKept DEF WebListAnswered
  <2>3. FollowInv'
    BY <1>0, <1>14, <2>1, RendersKeeps DEF WebListAnswered, FollowInv
  <2> QED BY <2>2, <2>3 DEF WebChatInv
<1>15. ASSUME NEW d \in wcDeletes, WebServerDeletes(d) PROVE WebChatInv'
  <2>1. wcMounted = TRUE
    BY <1>0, <1>15 DEF FollowInv, SocketInv
  <2> QED BY <1>9, <1>15, <2>1 DEF WebServerDeletes
<1>16. ASSUME NEW d \in wcDeletes, WebDeleteAnswered(d) PROVE WebChatInv'
  <2>1. wcMounted = TRUE
    BY <1>0, <1>16 DEF FollowInv, SocketInv
  <2>2. CASE d.done
    <3>1. PICK s \in WebSessions : Renders(s, wcSession, wcInitial, wcActive, wcList \ {d.conv})
      BY <1>16, <2>2 DEF WebDeleteAnswered
    <3>2. SocketInv'
      BY <1>0, <1>16, SocketKept DEF WebDeleteAnswered
    <3>3. UNCHANGED <<wcMounted, wcRef, wcShown>>
      BY <1>16 DEF WebDeleteAnswered
    <3>4. FollowInv'
      BY <1>0, <2>1, <3>1, <3>3, RendersKeeps DEF FollowInv
    <3> QED BY <3>2, <3>4 DEF WebChatInv
  <2>3. CASE ~d.done
    BY <1>9, <1>16, <2>1, <2>3 DEF WebDeleteAnswered
  <2> QED BY <2>2, <2>3
<1>17. CASE UNCHANGED wcVars
  BY <1>9, <1>17 DEF wcVars, wcLists
<1> QED
  BY <1>1, <1>2, <1>3, <1>4, <1>5, <1>6, <1>7, <1>8, <1>10, <1>11, <1>12, <1>13, <1>14, <1>15, <1>16,
     <1>17 DEF WebChatNext

-----------------------------------------------------------------------------

\* No conversation leaks into another: what is on screen is of the session
\* the page follows, and the open socket is subscribed to it, whatever was
\* requested, opened, deleted or delivered late (pages/Chat.tsx,
\* hooks/useChatSocket.ts of the web client).
THEOREM PageShowsItsSessionHolds == WebChatSpec => []PageShowsItsSession
<1>1. WebChatInv => PageShowsItsSession
  BY DEF WebChatInv, SocketInv, FollowInv, PageShowsItsSession
<1> QED BY <1>1, WebChatInitInv, WebChatStepInv, PTL DEF WebChatSpec

\* The page has one live socket, although neither its effect nor its retry
\* timer looks whether there is one.
THEOREM WebOneSocketHolds == WebChatSpec => []WebOneSocket
<1>1. WebChatInv => WebOneSocket
  BY DEF WebChatInv, SocketInv
<1> QED BY <1>1, WebChatInitInv, WebChatStepInv, PTL DEF WebChatSpec

-----------------------------------------------------------------------------
(* The types of the web client's chat.                                     *)

\* A page that is mounted names a session in its URL, which loadSession shows.
WebTypesInv == WebChatTypeOK /\ (wcMounted => wcUrl \in WebSessions)

LEMMA WebTypesStart == WebChatInit => WebTypesInv
BY DEF WebChatInit, WebTypesInv, WebChatTypeOK, MaybeSession

LEMMA WebTypesStep ==
    ASSUME WebTypesInv, [WebChatNext]_wcVars
    PROVE  WebTypesInv'
<1> USE DEF WebTypesInv, WebChatTypeOK, MaybeSession
<1>1. ASSUME NEW w \in WebSockets, WebOnOpen(w) PROVE WebTypesInv'
  BY <1>1 DEF WebOnOpen, wcPage, wcLists
<1>2. ASSUME NEW w \in WebSockets, NEW refused \in BOOLEAN, WebOnClose(w, refused) PROVE WebTypesInv'
  <2>1. wcRetry' \in BOOLEAN
    <3>1. CASE wcSocket = w
      BY <1>2, <3>1, Zenon DEF WebOnClose
    <3>2. CASE wcSocket # w
      BY <1>2, <3>2 DEF WebOnClose
    <3> QED BY <3>1, <3>2
  <2>2. wcWs' \in [WebSockets -> {"connecting", "open", "closing", "gone"}]
    BY <1>2 DEF WebOnClose
  <2>3. /\ UNCHANGED <<wcPage, wcRef, wcDue, wcLists, wcShown, wcConfirm>>
        /\ wcSocket' \in WebSockets \cup {NoWebSocket} /\ wcHeard' \subseteq WebSessions
        /\ wcSub' \in WebSessions \cup {NoSessionYet}
    BY <1>2 DEF WebOnClose
  <2> QED BY <2>1, <2>2, <2>3 DEF wcPage, wcLists
<1>3. CASE WebRetry
  BY <1>3 DEF WebRetry, WebConnects, wcPage, wcLists
<1>4. CASE FollowSession
  BY <1>4 DEF FollowSession, wcPage, wcLists
<1>5. ASSUME NEW s \in WebSessions, WebOnConfirmation(s) \/ WebOnReply(s) PROVE WebTypesInv'
  <2>1. CASE WebOnConfirmation(s)
    BY <2>1 DEF WebOnConfirmation, wcPage, wcLists, wcConn
  <2>2. CASE WebOnReply(s)
    BY <2>2 DEF WebOnReply, wcPage, wcConn
  <2> QED BY <1>5, <2>1, <2>2
<1>6. CASE WebSend \/ WebConfirmed
  <2>1. CASE WebSend
    BY <2>1 DEF WebSend, wcPage, wcLists, wcConn
  <2>2. CASE WebConfirmed
    BY <2>2 DEF WebConfirmed, wcPage, wcLists, wcConn
  <2> QED BY <1>6, <2>1, <2>2
<1>7. ASSUME NEW url \in MaybeSession, WebMount(url) PROVE WebTypesInv'
  BY <1>7 DEF WebMount, WebConnects
<1>8. CASE WebUnmount
  BY <1>8 DEF WebUnmount
<1>9. CASE LoadSession
  BY <1>9 DEF LoadSession, wcConn
<1>10. ASSUME NEW s \in WebSessions, WebDetailAnswered(s) \/ Navigate(s) PROVE WebTypesInv'
  <2>1. CASE WebDetailAnswered(s)
    BY <2>1 DEF WebDetailAnswered, Renders, wcConn
  <2>2. CASE Navigate(s)
    BY <2>2 DEF Navigate, Renders, wcConn
  <2> QED BY <1>10, <2>1, <2>2
<1>11. ASSUME NEW s \in WebSessions, WebDelete(s) PROVE WebTypesInv'
  <2>1. [conv |-> s, session |-> wcSession, done |-> FALSE] \in [conv : WebSessions, session : WebSessions, done : BOOLEAN]
    OBVIOUS
  <2> QED BY <1>11, <2>1 DEF WebDelete, wcPage, wcConn
<1>12. CASE WebLoadConversations
  BY <1>12 DEF WebLoadConversations, wcPage, wcConn
<1>13. ASSUME NEW answer \in wcLoads, NEW failed \in BOOLEAN, WebListAnswered(answer, failed) PROVE WebTypesInv'
  BY <1>13 DEF WebListAnswered, Renders, wcConn
<1>14. ASSUME NEW d \in wcDeletes, WebServerDeletes(d) PROVE WebTypesInv'
  BY <1>14 DEF WebServerDeletes, wcPage, wcConn
<1>15. ASSUME NEW d \in wcDeletes, WebDeleteAnswered(d) PROVE WebTypesInv'
  BY <1>15 DEF WebDeleteAnswered, Renders, wcConn
<1>16. CASE UNCHANGED wcVars
  BY <1>16 DEF wcVars, wcPage, wcLists, wcConn
<1> QED
  BY <1>1, <1>2, <1>3, <1>4, <1>5, <1>6, <1>7, <1>8, <1>9, <1>10, <1>11, <1>12, <1>13, <1>14, <1>15, <1>16
  DEF WebChatNext

-----------------------------------------------------------------------------
(* Push-to-talk.                                                            *)

\* What the queue waits for says which answer is expected, and whether the
\* key is held and the lease acquired.
WaitInv ==
    /\ rvControl = "acquired" => rvPc = "acquire"
    /\ rvControl = "started" => rvPc = "start"
    /\ rvControl = "stopped" => rvPc \in {"stop", "cancelStop"}
    /\ rvControl = "released" => rvPc = "cancelRelease"
    /\ rvPc \in {"connect", "acquire", "start"} => rvHeld
    /\ rvPc = "start" => rvAcquired

\* The generation of the latest start is current only for a key that is held
\* over a connection that streams, with no answer awaited; tracks belong to
\* the current generation.
CurrentInv ==
    /\ rvTracks => rvCurrent
    /\ rvCurrent => /\ rvHeld /\ rvAcquired /\ rvStreaming
                    /\ rvSocket # NoVoiceSocket
                    /\ rvControl = "none"
                    /\ rvPc \in {"idle", "permission", "worklet", "resume"}

RemoteVoiceInv == RemoteVoiceTypeOK /\ WaitInv /\ CurrentInv

-----------------------------------------------------------------------------
(* What the parts the handlers share keep.                                 *)

\* connect() leaves a socket of the page current, and forgets none.
LEMMA ConnectsKeepsASocket ==
    ASSUME RemoteVoiceTypeOK, VoiceConnects
    PROVE  /\ rvSocket' \in VoiceSockets \cup {NoVoiceSocket}
           /\ rvSocket' # NoVoiceSocket
           /\ rvWs' \in [VoiceSockets -> {"connecting", "open", "closing", "gone"}]
           /\ rvConnTimer' \in BOOLEAN
  BY RemoteVoiceAssumption DEF RemoteVoiceTypeOK, VoiceConnects

LEMMA ClosesType ==
    ASSUME RemoteVoiceTypeOK
    PROVE  VoiceCloses \in [VoiceSockets -> {"connecting", "open", "closing", "gone"}]
  BY DEF RemoteVoiceTypeOK, VoiceCloses

\* A press that fails lets the key and the microphone go, and waits for the
\* backend to stop or to release, or for nothing.
LEMMA PressFailsKeeps ==
    ASSUME RemoteVoiceTypeOK, PressFails
    PROVE  /\ rvHeld' = FALSE /\ rvTracks' = FALSE /\ rvCurrent' = FALSE
           /\ rvError' \in BOOLEAN
           /\ rvAcquired' = rvAcquired /\ rvStreaming' = rvStreaming
           /\ \/ rvPc' = "idle" /\ rvControl' = "none"
              \/ rvPc' = "cancelStop" /\ rvControl' = "stopped"
              \/ rvPc' = "cancelRelease" /\ rvControl' = "released"
  BY DEF RemoteVoiceTypeOK, PressFails, Cancels, MicStops, Ends, Sends, rvLease

\* A lost socket leaves nothing held, and what waited for it is over.
LEMMA LostKeeps ==
    ASSUME RemoteVoiceTypeOK, Lost
    PROVE  /\ rvHeld' = FALSE /\ rvTracks' = FALSE /\ rvCurrent' = FALSE
           /\ rvAcquired' = FALSE /\ rvStreaming' = FALSE
           /\ rvConnected' = FALSE /\ rvConnTimer' = FALSE
           /\ rvControl' = "none"
           /\ rvError' \in BOOLEAN
           /\ rvPc' \in {"idle", "permission", "worklet", "resume"}
  BY DEF RemoteVoiceTypeOK, Lost, MicStops, Ends

\* A step of the socket that loses no connection leaves the press as it is.
LEMMA SocketStepKeeps ==
    ASSUME RemoteVoiceInv,
           rvStopped' \in BOOLEAN, rvRetry' \in BOOLEAN, rvConnected' \in BOOLEAN,
           rvConnTimer' \in BOOLEAN,
           rvSocket' \in VoiceSockets \cup {NoVoiceSocket},
           rvSocket # NoVoiceSocket => rvSocket' # NoVoiceSocket,
           rvWs' \in [VoiceSockets -> {"connecting", "open", "closing", "gone"}],
           UNCHANGED <<rvAcquired, rvStreaming, rvControl, rvHeld, rvTracks, rvCurrent,
                       rvPc, rvQueue, rvDown, rvError>>
    PROVE  RemoteVoiceInv'
<1>1. RemoteVoiceTypeOK'
  BY DEF RemoteVoiceInv, RemoteVoiceTypeOK
<1>2. WaitInv' /\ CurrentInv'
  BY DEF RemoteVoiceInv, WaitInv, CurrentInv
<1> QED BY <1>1, <1>2 DEF RemoteVoiceInv

\* A command that fails ends its event, or the press it belongs to.
LEMMA CommandFailsKeeps ==
    ASSUME RemoteVoiceInv, CommandFails
    PROVE  RemoteVoiceInv'
<1> USE DEF RemoteVoiceInv
<1>1. rvWs' \in [VoiceSockets -> {"connecting", "open", "closing", "gone"}]
  BY ClosesType DEF CommandFails
<1>2. CASE rvPc \in {"acquire", "start"}
  BY <1>1, <1>2, PressFailsKeeps
     DEF CommandFails, RemoteVoiceTypeOK, WaitInv, CurrentInv, rvKeys
<1>3. CASE rvPc \notin {"acquire", "start"}
  BY <1>1, <1>3
     DEF CommandFails, RemoteVoiceTypeOK, WaitInv, CurrentInv, Ends, rvKeys, rvMic, rvLease
<1> QED BY <1>2, <1>3

-----------------------------------------------------------------------------

LEMMA RemoteVoiceInitInv == RemoteVoiceInit => RemoteVoiceInv
<1> SUFFICES ASSUME RemoteVoiceInit PROVE RemoteVoiceInv
  OBVIOUS
<1>1. rvQueue \in Seq({"press", "release"})
  BY EmptySeq DEF RemoteVoiceInit
<1> QED BY <1>1 DEF RemoteVoiceInit, RemoteVoiceInv, RemoteVoiceTypeOK, WaitInv, CurrentInv

\* Every handler, timer, answer and key keeps the invariant.
LEMMA RemoteVoiceStepInv == RemoteVoiceInv /\ [RemoteVoiceNext]_rvVars => RemoteVoiceInv'
<1> SUFFICES ASSUME RemoteVoiceInv, [RemoteVoiceNext]_rvVars PROVE RemoteVoiceInv'
  OBVIOUS
<1> USE DEF RemoteVoiceInv
<1>1. CASE VoiceSubscribe
  BY <1>1, ConnectsKeepsASocket, SocketStepKeeps
     DEF VoiceSubscribe, RemoteVoiceTypeOK, rvLease, rvMic, rvKeys
<1>2. CASE VoiceRetry
  BY <1>2, ConnectsKeepsASocket, SocketStepKeeps
     DEF VoiceRetry, RemoteVoiceTypeOK, rvLease, rvMic, rvKeys
<1>3. ASSUME NEW w \in VoiceSockets, VoiceOnOpen(w) PROVE RemoteVoiceInv'
  <2>1. rvWs' \in [VoiceSockets -> {"connecting", "open", "closing", "gone"}]
    BY <1>3 DEF VoiceOnOpen, RemoteVoiceTypeOK
  <2>2. CASE rvSocket = w /\ rvPc = "connect"
    BY <1>3, <2>1, <2>2
       DEF VoiceOnOpen, Sends, RemoteVoiceTypeOK, WaitInv, CurrentInv, rvLease, rvMic, rvKeys
  <2>3. CASE ~(rvSocket = w /\ rvPc = "connect")
    BY <1>3, <2>1, <2>3, SocketStepKeeps
       DEF VoiceOnOpen, RemoteVoiceTypeOK, rvLease, rvMic, rvKeys
  <2> QED BY <2>2, <2>3
<1>4. ASSUME NEW w \in VoiceSockets, NEW refused \in BOOLEAN, VoiceOnClose(w, refused)
      PROVE  RemoteVoiceInv'
  <2>1. CASE rvSocket = w
    BY <1>4, <2>1, LostKeeps DEF VoiceOnClose, RemoteVoiceTypeOK, WaitInv, CurrentInv, rvKeys
  <2>2. CASE rvSocket # w
    BY <1>4, <2>2
       DEF VoiceOnClose, RemoteVoiceTypeOK, WaitInv, CurrentInv, rvKeys, rvLease, rvMic
  <2> QED BY <2>1, <2>2
<1>5. CASE VoiceShutDown
  BY <1>5, LostKeeps, ClosesType
     DEF VoiceShutDown, RemoteVoiceTypeOK, WaitInv, CurrentInv, rvKeys
<1>6. CASE VoiceConnTimer
  <2>1. rvWs' \in [VoiceSockets -> {"connecting", "open", "closing", "gone"}]
    BY <1>6, ClosesType DEF VoiceConnTimer
  <2>2. CASE rvPc = "connect"
    BY <1>6, <2>1, <2>2, PressFailsKeeps
       DEF VoiceConnTimer, RemoteVoiceTypeOK, WaitInv, CurrentInv, rvKeys
  <2>3. CASE rvPc # "connect"
    BY <1>6, <2>1, <2>3, SocketStepKeeps DEF VoiceConnTimer, RemoteVoiceTypeOK, rvKeys, rvLease
  <2> QED BY <2>2, <2>3
<1>7. CASE ControlTimeout
  BY <1>7, CommandFailsKeeps DEF ControlTimeout
<1>8. CASE OnAudioError
  <2>1. CASE rvControl # "none"
    BY <1>8, <2>1, CommandFailsKeeps DEF OnAudioError
  <2>2. CASE rvControl = "none"
    BY <1>8, <2>2, ClosesType
       DEF OnAudioError, RemoteVoiceTypeOK, WaitInv, CurrentInv, rvLease, rvMic, rvKeys
  <2> QED BY <2>1, <2>2
<1>9. CASE OnAcquired
  BY <1>9 DEF OnAcquired, Answered, Sends, RemoteVoiceTypeOK, WaitInv, CurrentInv, rvMic,
              rvSocketVars, rvKeys
<1>10. CASE OnStarted
  BY <1>10 DEF OnStarted, Answered, RemoteVoiceTypeOK, WaitInv, CurrentInv, rvSocketVars, rvKeys
<1>11. CASE OnStopped
  BY <1>11 DEF OnStopped, Answered, Sends, Ends, RemoteVoiceTypeOK, WaitInv, CurrentInv, rvMic,
               rvSocketVars, rvKeys
<1>12. CASE OnReleased
  BY <1>12 DEF OnReleased, Answered, Ends, RemoteVoiceTypeOK, WaitInv, CurrentInv, rvMic,
               rvSocketVars, rvKeys
<1>13. CASE PermissionGranted
  BY <1>13 DEF PermissionGranted, Ends, RemoteVoiceTypeOK, WaitInv, CurrentInv,
               rvSocketVars, rvLease, rvKeys
<1>14. CASE WorkletLoaded
  BY <1>14 DEF WorkletLoaded, Ends, RemoteVoiceTypeOK, WaitInv, CurrentInv,
               rvSocketVars, rvLease, rvKeys
<1>15. CASE Resumed
  BY <1>15 DEF Resumed, Ends, RemoteVoiceTypeOK, WaitInv, CurrentInv,
               rvSocketVars, rvLease, rvMic, rvKeys
<1>16. CASE MicrophoneFails
  BY <1>16, PressFailsKeeps
     DEF MicrophoneFails, RemoteVoiceTypeOK, WaitInv, CurrentInv, rvSocketVars, rvKeys
<1>17. CASE Key
  <2>1. rvQueue' \in Seq({"press", "release"})
    BY <1>17, AppendProperties DEF Key, RemoteVoiceTypeOK
  <2>2. rvDown' \in BOOLEAN /\ rvError' \in BOOLEAN
    BY <1>17 DEF Key, RemoteVoiceTypeOK
  <2>3. UNCHANGED <<rvStopped, rvSocket, rvWs, rvConnTimer, rvRetry, rvConnected, rvAcquired,
                    rvStreaming, rvControl, rvHeld, rvTracks, rvCurrent, rvPc>>
    BY <1>17 DEF Key, rvSocketVars, rvLease, rvMic
  <2> QED BY <2>1, <2>2, <2>3 DEF RemoteVoiceTypeOK, WaitInv, CurrentInv
<1>18. CASE Press
  <2>1. rvQueue' \in Seq({"press", "release"}) /\ rvPc = "idle"
    BY <1>18, HeadTailProperties DEF Press, NextKey, RemoteVoiceTypeOK
  <2>2. CASE rvHeld
    BY <1>18, <2>1, <2>2 DEF Press, RemoteVoiceTypeOK, WaitInv, CurrentInv, rvLease
  <2>3. CASE ~rvHeld /\ (rvAcquired \/ rvConnected)
    BY <1>18, <2>1, <2>3 DEF Press, Sends, RemoteVoiceTypeOK, WaitInv, CurrentInv, rvLease
  <2>4. CASE ~rvHeld /\ ~rvAcquired /\ ~rvConnected
    BY <1>18, <2>1, <2>4, ConnectsKeepsASocket
       DEF Press, RemoteVoiceTypeOK, WaitInv, CurrentInv, rvLease
  <2> QED BY <2>2, <2>3, <2>4
<1>19. CASE Release
  <2>1. rvQueue' \in Seq({"press", "release"}) /\ rvPc = "idle"
    BY <1>19, HeadTailProperties DEF Release, NextKey, RemoteVoiceTypeOK
  <2> QED BY <1>19, <2>1 DEF Release, Sends, MicStops, RemoteVoiceTypeOK, WaitInv, CurrentInv,
                             rvSocketVars, rvLease, rvMic
<1>20. CASE UNCHANGED rvVars
  BY <1>20 DEF rvVars, rvSocketVars, rvLease, rvMic, rvKeys, RemoteVoiceTypeOK, WaitInv, CurrentInv
<1> QED
  BY <1>1, <1>2, <1>3, <1>4, <1>5, <1>6, <1>7, <1>8, <1>9, <1>10, <1>11, <1>12, <1>13, <1>14,
     <1>15, <1>16, <1>17, <1>18, <1>19, <1>20 DEF RemoteVoiceNext

-----------------------------------------------------------------------------

\* The handlers of the socket, the microphone and the keys keep every
\* variable in its range.
THEOREM RemoteVoiceTypeCorrect == RemoteVoiceSpec => []RemoteVoiceTypeOK
<1>1. RemoteVoiceInv => RemoteVoiceTypeOK
  BY DEF RemoteVoiceInv
<1> QED BY <1>1, RemoteVoiceInitInv, RemoteVoiceStepInv, PTL DEF RemoteVoiceSpec

\* The microphone captures only for a key that is held, over a connection the
\* backend streams from, whatever is lost, refused, denied or late while
\* press() waits (remoteAudio.ts, useVoiceSocket.ts).
THEOREM MicrophoneIsHeldHolds == RemoteVoiceSpec => []MicrophoneIsHeld
<1>1. RemoteVoiceInv => MicrophoneIsHeld
  BY DEF RemoteVoiceInv, CurrentInv, MicrophoneIsHeld
<1> QED BY <1>1, RemoteVoiceInitInv, RemoteVoiceStepInv, PTL DEF RemoteVoiceSpec

\* A capture begins only for the generation that is current: the stream of a
\* start that was overtaken ends where it is granted, and no other handler
\* opens one.
THEOREM CaptureBeginsForThePress ==
    RemoteVoiceSpec => [][~rvTracks /\ rvTracks' => rvPc = "permission" /\ rvCurrent /\ rvHeld]_rvVars
<1> DEFINE Begins == ~rvTracks /\ rvTracks' => rvPc = "permission" /\ rvCurrent /\ rvHeld
<1>1. RemoteVoiceInv /\ [RemoteVoiceNext]_rvVars => [Begins]_rvVars
  <2> SUFFICES ASSUME RemoteVoiceInv, RemoteVoiceNext, ~rvTracks, rvTracks'
               PROVE  rvPc = "permission" /\ rvCurrent /\ rvHeld
    BY DEF Begins
  <2>1. PermissionGranted
    BY DEF RemoteVoiceNext, RemoteVoiceInv, RemoteVoiceTypeOK, VoiceSubscribe, VoiceRetry, VoiceOnOpen,
           VoiceOnClose, VoiceShutDown, Lost, MicStops, VoiceConnTimer, PressFails, ControlTimeout,
           OnAudioError, CommandFails, OnAcquired, OnStarted, OnStopped, OnReleased, WorkletLoaded,
           Resumed, MicrophoneFails, Key, Press, Release, rvMic
  <2> QED BY <2>1 DEF PermissionGranted, RemoteVoiceInv, CurrentInv
<1> QED BY <1>1, RemoteVoiceInitInv, RemoteVoiceStepInv, PTL DEF RemoteVoiceSpec

-----------------------------------------------------------------------------
(* The log stream.                                                          *)

LogReadyStates == {"connecting", "open", "closing", "gone"}

LogConnInv == /\ lgSocket \in LogSockets \cup {NoLogSocket}
              /\ lgWs \in [LogSockets -> LogReadyStates]
              /\ lgStopped \in BOOLEAN
              /\ LogOneSocket
              /\ LogReconnects

LogInv == LogConnInv /\ PendingIsFlushed

\* connect() ends with a current socket, the only live one.
LEMMA LogConnectsKeeps ==
    ASSUME LogConnInv, LogConnects, lgStopped' = FALSE
    PROVE  LogConnInv' /\ lgSocket' # NoLogSocket
<1>1. CASE lgSocket # NoLogSocket
  BY <1>1 DEF LogConnects, LogConnInv, LogOneSocket, LogReconnects
<1>2. CASE lgSocket = NoLogSocket
  <2>1. PICK w \in LogSockets : /\ lgWs[w] = "gone"
                                /\ lgSocket' = w
                                /\ lgWs' = [lgWs EXCEPT ![w] = "connecting"]
    BY <1>2 DEF LogConnects
  <2>2. lgSocket' \in LogSockets /\ lgSocket' # NoLogSocket
    BY <2>1, LogAssumption
  <2>3. lgWs' \in [LogSockets -> LogReadyStates]
    BY <2>1 DEF LogConnInv, LogReadyStates
  <2>4. LogOneSocket'
    BY <1>2, <2>1, <2>3, LogAssumption DEF LogConnInv, LogOneSocket
  <2> QED BY <2>2, <2>3, <2>4 DEF LogConnInv, LogReconnects
<1> QED BY <1>1, <1>2

\* close() on the current socket leaves none that is live.
LEMMA LogClosingKeeps ==
    ASSUME LogConnInv
    PROVE  /\ LogClosing(lgSocket) \in [LogSockets -> LogReadyStates]
           /\ \A w \in LogSockets : LogClosing(lgSocket)[w] \notin {"connecting", "open"}
  BY LogAssumption DEF LogClosing, LogConnInv, LogOneSocket, LogReadyStates

LEMMA LogStart == LogInit => LogInv
  BY DEF LogInit, LogInv, LogConnInv, LogReadyStates, LogOneSocket, LogReconnects, PendingIsFlushed

LEMMA LogStep == LogInv /\ [LogNext]_lgVars => LogInv'
<1> SUFFICES ASSUME LogInv, [LogNext]_lgVars PROVE LogInv'
  OBVIOUS
<1>0. LogConnInv /\ PendingIsFlushed
  BY DEF LogInv
<1>1. CASE LogSubscribe
  <2>1. LogConnInv'
    <3>1. CASE lgListeners = 0
      BY <1>0, <1>1, <3>1, LogConnectsKeeps DEF LogSubscribe
    <3>2. CASE lgListeners # 0
      BY <1>0, <1>1, <3>2 DEF LogSubscribe, LogConnInv, LogOneSocket, LogReconnects
    <3> QED BY <3>1, <3>2
  <2>2. PendingIsFlushed'
    BY <1>0, <1>1 DEF LogSubscribe, lgLines, PendingIsFlushed
  <2> QED BY <2>1, <2>2 DEF LogInv
<1>2. CASE LogShutDown
  <2>1. LogConnInv'
    BY <1>0, <1>2, LogClosingKeeps DEF LogShutDown, LogConnInv, LogOneSocket, LogReconnects
  <2>2. PendingIsFlushed'
    BY <1>2 DEF LogShutDown, PendingIsFlushed
  <2> QED BY <2>1, <2>2 DEF LogInv
<1>3. CASE LogRetryFires
  <2>1. CASE lgStopped
    BY <1>0, <1>3, <2>1 DEF LogRetryFires, lgLines, LogInv, LogConnInv, LogOneSocket,
                            LogReconnects, PendingIsFlushed
  <2>2. CASE ~lgStopped
    <3>1. lgStopped' = FALSE /\ LogConnects
      BY <1>0, <1>3, <2>2 DEF LogRetryFires, LogConnInv
    <3>2. LogConnInv'
      BY <1>0, <3>1, LogConnectsKeeps
    <3>3. PendingIsFlushed'
      BY <1>0, <1>3 DEF LogRetryFires, lgLines, PendingIsFlushed
    <3> QED BY <3>2, <3>3 DEF LogInv
  <2> QED BY <2>1, <2>2
<1>4. CASE LogConnTimerFires
  BY <1>0, <1>4, LogClosingKeeps DEF LogConnTimerFires, lgLines, LogInv, LogConnInv, LogOneSocket,
                                     LogReconnects, PendingIsFlushed
<1>5. ASSUME NEW w \in LogSockets, LogOnOpen(w) PROVE LogInv'
  <2>1. lgWs' \in [LogSockets -> LogReadyStates]
    BY <1>0, <1>5 DEF LogOnOpen, LogConnInv, LogReadyStates
  <2> QED BY <1>0, <1>5, <2>1 DEF LogOnOpen, lgLines, LogInv, LogConnInv, LogOneSocket,
                                  LogReconnects, PendingIsFlushed
<1>6. ASSUME NEW w \in LogSockets, NEW refused \in BOOLEAN, LogOnClose(w, refused) PROVE LogInv'
  <2>1. lgWs' \in [LogSockets -> LogReadyStates] /\ lgWs'[w] = "gone"
    BY <1>0, <1>6 DEF LogOnClose, LogConnInv, LogReadyStates
  <2>2. LogOneSocket'
    BY <1>0, <1>6, <2>1 DEF LogOnClose, LogDrops, LogConnInv, LogOneSocket
  <2>3. LogReconnects'
    <3>1. CASE lgSocket = w
      BY <1>6, <3>1 DEF LogOnClose, LogDrops, LogReconnects
    <3>2. CASE lgSocket # w
      BY <1>0, <1>6, <3>2 DEF LogOnClose, LogConnInv, LogReconnects
    <3> QED BY <3>1, <3>2
  <2> QED BY <1>0, <1>6, <2>1, <2>2, <2>3 DEF LogOnClose, LogDrops, lgLines, LogInv, LogConnInv,
                                              PendingIsFlushed
<1>7. ASSUME \/ LogLeave \/ FlushTimerFires \/ LogSeedFails \/ ClearLog \/ UNCHANGED lgVars
             \/ \E w \in LogSockets, line \in Lines : LineArrives(w, line)
             \/ \E answer \in SUBSET Lines : LogSeeded(answer)
      PROVE  LogInv'
  <2>1. UNCHANGED <<lgSocket, lgWs, lgStopped, lgRefused, lgRetry>>
    BY <1>7 DEF LogLeave, FlushTimerFires, LogSeedFails, ClearLog, LineArrives, LogSeeded, lgVars, lgConn
  <2>2. LogConnInv'
    BY <1>0, <2>1 DEF LogConnInv, LogOneSocket, LogReconnects
  <2>3. PendingIsFlushed'
    BY <1>0, <1>7 DEF LogLeave, FlushTimerFires, Flushes, LogSeedFails, ClearLog, LineArrives, LogSeeded,
                      lgVars, lgLines, PendingIsFlushed
  <2> QED BY <2>2, <2>3 DEF LogInv
<1> QED BY <1>1, <1>2, <1>3, <1>4, <1>5, <1>6, <1>7 DEF LogNext

LEMMA LinesStay ==
    ASSUME LogNext
    PROVE  \/ lgShown \cup lgPending \subseteq (lgShown \cup lgPending)'
           \/ ClearLog
           \/ LogShutDown
<1> DEFINE NoneLost == lgShown \cup lgPending \subseteq (lgShown \cup lgPending)'
<1>1. CASE \/ LogSubscribe \/ LogLeave \/ LogRetryFires \/ LogConnTimerFires \/ LogSeedFails
           \/ \E w \in LogSockets : LogOnOpen(w) \/ \E refused \in BOOLEAN : LogOnClose(w, refused)
  BY <1>1 DEF LogSubscribe, LogLeave, LogRetryFires, LogConnTimerFires, LogSeedFails, LogOnOpen,
              LogOnClose, lgLines
<1>2. ASSUME NEW w \in LogSockets, NEW line \in Lines, LineArrives(w, line) PROVE NoneLost
  BY <1>2 DEF LineArrives
<1>3. CASE FlushTimerFires
  BY <1>3 DEF FlushTimerFires, Flushes
<1>4. ASSUME NEW answer \in SUBSET Lines, LogSeeded(answer) PROVE NoneLost
  BY <1>4 DEF LogSeeded, Merged
<1> QED BY <1>1, <1>2, <1>3, <1>4 DEF LogNext

\* A line that arrived is not lost to a snapshot, a flush or a reconnect of
\* the log (append, flush and seed of useLogStream.ts): only the button of
\* the screen and the shutdown take lines away.
THEOREM LinesAreKeptHolds == LogSpec => LinesAreKept
<1> DEFINE NoneLost == lgShown \cup lgPending \subseteq (lgShown \cup lgPending)'
<1>1. [LogNext]_lgVars => [NoneLost \/ ClearLog \/ LogShutDown]_lgVars
  BY LinesStay
<1> QED BY <1>1, PTL DEF LogSpec, LinesAreKept

-----------------------------------------------------------------------------
(* The types of the log stream.                                            *)

LogCounts == lgListeners \in 0..LogListeners /\ lgOrphan \in 0..LogOrphans /\ lgLate \in 0..LogOrphans /\ lgSeeds \in 0..LogListeners

LogRest ==
    /\ lgStopped \in BOOLEAN /\ lgSocket \in LogSockets \cup {NoLogSocket}
    /\ lgWs \in [LogSockets -> LogReadyStates]
    /\ lgConnTimer \in BOOLEAN /\ lgRetry \in BOOLEAN /\ lgRefused \in BOOLEAN
    /\ lgShown \subseteq Lines /\ lgPending \subseteq Lines /\ lgFlush \in BOOLEAN

LEMMA LogTypesFollow == LogCounts /\ LogRest => LogTypeOK
BY DEF LogCounts, LogRest, LogTypeOK, LogReadyStates

LEMMA LogTypesStart == LogInit => LogCounts /\ LogRest
<1> SUFFICES ASSUME LogInit PROVE LogCounts /\ LogRest
  OBVIOUS
<1>1. 0 \in 0..LogListeners /\ 0 \in 0..LogOrphans
  BY LogAssumption DEF LogAssumption
<1> QED BY <1>1 DEF LogInit, LogCounts, LogRest, LogReadyStates

LEMMA LogCountsStep ==
    ASSUME LogCounts, [LogNext]_lgVars
    PROVE  LogCounts'
<1> USE DEF LogCounts
<1>1. LogListeners \in Nat /\ LogOrphans \in Nat
  BY LogAssumption DEF LogAssumption
<1>2. CASE LogSubscribe
  BY <1>1, <1>2 DEF LogSubscribe, lgLines
<1>3. CASE LogLeave
  <2>1. lgListeners' \in 0..LogListeners
    BY <1>1, <1>3 DEF LogLeave
  <2>2. lgSeeds' = lgSeeds \/ (lgSeeds > 0 /\ lgSeeds' = lgSeeds - 1) \/ lgSeeds' = 0
    BY <1>3 DEF LogLeave
  <2>3. lgSeeds' \in 0..LogListeners
    BY <1>1, <2>2
  <2> QED BY <1>3, <2>1, <2>3 DEF LogLeave, lgConn, lgLines
<1>4. CASE LogRetryFires
  BY <1>1, <1>4 DEF LogRetryFires, lgLines
<1>5. ASSUME NEW w \in LogSockets, NEW refused \in BOOLEAN, LogOnClose(w, refused) PROVE LogCounts'
  <2>1. UNCHANGED lgOrphan \/ (lgOrphan' = lgOrphan + 1 /\ lgOrphan' <= LogOrphans)
    BY <1>5 DEF LogOnClose, LogDrops
  <2>2. lgOrphan' \in 0..LogOrphans
    BY <1>1, <2>1
  <2> QED BY <1>5, <2>2 DEF LogOnClose, lgLines
<1>6. CASE FlushTimerFires
  <2>1. UNCHANGED lgLate \/ (lgLate > 0 /\ lgLate' \in {lgLate - 1, lgLate - 1 + 1})
    BY <1>6 DEF FlushTimerFires, Unnamed
  <2>2. lgLate' \in 0..LogOrphans
    BY <1>1, <2>1
  <2> QED BY <1>6, <2>2 DEF FlushTimerFires, lgConn
<1>7. ASSUME NEW answer \in SUBSET Lines, LogSeeded(answer) PROVE LogCounts'
  <2>1. lgLate' \in {lgLate, lgLate + 1} /\ lgLate' <= LogOrphans /\ lgSeeds > 0 /\ lgSeeds' = lgSeeds - 1
    BY <1>1, <1>7 DEF LogSeeded, Unnamed
  <2>2. lgLate' \in 0..LogOrphans /\ lgSeeds' \in 0..LogListeners
    BY <1>1, <2>1
  <2> QED BY <1>7, <2>2 DEF LogSeeded, lgConn
<1>8. CASE LogSeedFails
  BY <1>1, <1>8 DEF LogSeedFails, lgConn, lgLines
<1>9. ASSUME \/ LogShutDown \/ LogConnTimerFires \/ ClearLog \/ UNCHANGED lgVars
             \/ \E w \in LogSockets : LogOnOpen(w) \/ \E line \in Lines : LineArrives(w, line)
      PROVE  LogCounts'
  <2>1. UNCHANGED <<lgListeners, lgOrphan, lgLate, lgSeeds>>
    BY <1>9 DEF LogShutDown, LogConnTimerFires, ClearLog, LogOnOpen, LineArrives, lgVars, lgConn, lgLines
  <2> QED BY <2>1
<1> QED BY <1>2, <1>3, <1>4, <1>5, <1>6, <1>7, <1>8, <1>9 DEF LogNext

LEMMA LogRestStep ==
    ASSUME LogRest, [LogNext]_lgVars
    PROVE  LogRest'
<1> USE DEF LogRest, LogReadyStates
<1>1. LogClosing(lgSocket) \in [LogSockets -> LogReadyStates]
  BY DEF LogClosing
<1>2. CASE LogSubscribe
  BY <1>2 DEF LogSubscribe, LogConnects, lgLines
<1>3. CASE LogLeave \/ LogSeedFails
  BY <1>3 DEF LogLeave, LogSeedFails, lgConn, lgLines
<1>4. CASE LogShutDown
  BY <1>1, <1>4 DEF LogShutDown
<1>5. CASE LogRetryFires
  BY <1>5 DEF LogRetryFires, LogConnects, lgLines
<1>6. CASE LogConnTimerFires
  BY <1>1, <1>6 DEF LogConnTimerFires, lgLines
<1>7. ASSUME NEW w \in LogSockets, LogOnOpen(w) PROVE LogRest'
  BY <1>7 DEF LogOnOpen, lgLines
<1>8. ASSUME NEW w \in LogSockets, NEW refused \in BOOLEAN, LogOnClose(w, refused) PROVE LogRest'
  BY <1>8 DEF LogOnClose, LogDrops, lgLines
<1>9. ASSUME NEW w \in LogSockets, NEW line \in Lines, LineArrives(w, line) PROVE LogRest'
  BY <1>9 DEF LineArrives, lgConn
<1>10. CASE FlushTimerFires
  BY <1>10 DEF FlushTimerFires, Flushes, lgConn
<1>11. ASSUME NEW answer \in SUBSET Lines, LogSeeded(answer) PROVE LogRest'
  BY <1>11 DEF LogSeeded, Merged, lgConn
<1>12. CASE ClearLog
  BY <1>12 DEF ClearLog, lgConn
<1>13. CASE UNCHANGED lgVars
  BY <1>13 DEF lgVars, lgConn, lgLines
<1> QED BY <1>2, <1>3, <1>4, <1>5, <1>6, <1>7, <1>8, <1>9, <1>10, <1>11, <1>12, <1>13 DEF LogNext

-----------------------------------------------------------------------------
(* The conversations of the desktop.                                       *)

\* An answer to the latest request is about what the user asked for last.
ScreenInv ==
    /\ ScreenTypeOK
    /\ ~csMounted => csDetails = {}
    /\ \A d \in csDetails : d.latest => d.chat = csChoice

LEMMA OvertakenLists ==
    ASSUME NEW S \in SUBSET ListCalls
    PROVE  Overtaken(S) \in SUBSET ListCalls /\ Asked(S) \in SUBSET ListCalls
<1>1. \A c \in S : [c EXCEPT !.latest = FALSE] \in ListCalls
  BY DEF ListCalls
<1>2. [latest |-> TRUE, read |-> FALSE, answer |-> {}] \in ListCalls
  BY DEF ListCalls
<1> QED BY <1>1, <1>2 DEF Overtaken, Asked

LEMMA OvertakenDetails ==
    ASSUME NEW S \in SUBSET DetailCalls
    PROVE  Overtaken(S) \in SUBSET DetailCalls /\ \A d \in Overtaken(S) : ~d.latest
BY DEF Overtaken, DetailCalls

LEMMA ScreenStart == ScreenInit => ScreenInv
BY DEF ScreenInit, ScreenInv, ScreenTypeOK

LEMMA ScreenStep ==
    ASSUME ScreenInv, [ScreenNext]_csVars
    PROVE  ScreenInv'
<1> USE DEF ScreenInv, csShown, csCalls
<1>1. CASE MountChat
  <2>1. Asked({}) \in SUBSET ListCalls
    BY OvertakenLists
  <2> QED BY <1>1, <2>1 DEF MountChat, ScreenTypeOK
<1>2. CASE UnmountChat
  BY <1>2 DEF UnmountChat, ScreenTypeOK
<1>3. CASE LoadConversations
  <2>1. Asked(csLists) \in SUBSET ListCalls
    BY OvertakenLists DEF ScreenTypeOK
  <2> QED BY <1>3, <2>1 DEF LoadConversations, ScreenTypeOK
<1>4. ASSUME NEW c \in csLists, ServerLists(c) PROVE ScreenInv'
  <2>1. [c EXCEPT !.read = TRUE, !.answer = csServer] \in ListCalls
    BY DEF ScreenTypeOK, ListCalls
  <2> QED BY <1>4, <2>1 DEF ServerLists, ScreenTypeOK
<1>5. ASSUME NEW c \in csLists, NEW failed \in BOOLEAN, ListAnswered(c, failed) PROVE ScreenInv'
  <2>1. c.answer \subseteq Chats
    BY DEF ScreenTypeOK, ListCalls
  <2> QED BY <1>5, <2>1 DEF ListAnswered, ScreenTypeOK
<1>6. CASE TurnEnds
  BY <1>6 DEF TurnEnds, ScreenTypeOK
<1>7. ASSUME NEW c \in Chats, OpenConversation(c) PROVE ScreenInv'
  <2>1. Overtaken(csDetails) \in SUBSET DetailCalls /\ \A d \in Overtaken(csDetails) : ~d.latest
    BY OvertakenDetails DEF ScreenTypeOK
  <2>2. [chat |-> c, latest |-> TRUE] \in DetailCalls
    BY DEF DetailCalls
  <2>3. csMounted
    BY <1>7 DEF OpenConversation, SidebarRows
  <2>4. csDetails' \subseteq DetailCalls
    BY <1>7, <2>1, <2>2 DEF OpenConversation
  <2>5. \A d \in csDetails' : d.latest => d.chat = c
    BY <1>7, <2>1 DEF OpenConversation
  <2> QED BY <1>7, <2>3, <2>4, <2>5 DEF OpenConversation, ScreenTypeOK
<1>8. ASSUME NEW c \in Chats, StartNewChat(c) PROVE ScreenInv'
  <2>1. Overtaken(csDetails) \in SUBSET DetailCalls /\ \A d \in Overtaken(csDetails) : ~d.latest
    BY OvertakenDetails DEF ScreenTypeOK
  <2> QED BY <1>8, <2>1 DEF StartNewChat, NewChat, ScreenTypeOK
<1>9. ASSUME NEW c \in Chats, DeleteConv(c) PROVE ScreenInv'
  <2>1. Overtaken(csDetails) \in SUBSET DetailCalls /\ \A d \in Overtaken(csDetails) : ~d.latest
    BY OvertakenDetails DEF ScreenTypeOK
  <2>2. Overtaken(csLists) \in SUBSET ListCalls
    BY OvertakenLists DEF ScreenTypeOK
  <2>3. [chat |-> c, session |-> csSession, done |-> FALSE] \in DeleteCalls
    BY DEF DeleteCalls, ScreenTypeOK
  <2>4. csMounted
    BY <1>9 DEF DeleteConv, DeletableRows, SidebarRows
  <2> QED BY <1>9, <2>1, <2>2, <2>3, <2>4 DEF DeleteConv, ScreenTypeOK
<1>10. ASSUME NEW d \in csDetails, DetailAnswered(d) PROVE ScreenInv'
  <2>1. d.chat \in Chats
    BY DEF ScreenTypeOK, DetailCalls
  <2> QED BY <1>10, <2>1 DEF DetailAnswered, ShowsDetail, ScreenTypeOK
<1>11. ASSUME NEW d \in csDetails, DetailFailed(d) PROVE ScreenInv'
  BY <1>11 DEF DetailFailed, ScreenTypeOK
<1>12. ASSUME NEW d \in csDeletes, ServerDeletes(d) PROVE ScreenInv'
  <2>1. [d EXCEPT !.done = TRUE] \in DeleteCalls
    BY DEF DeleteCalls, ScreenTypeOK
  <2> QED BY <1>12, <2>1 DEF ServerDeletes, ScreenTypeOK
<1>13. ASSUME NEW d \in csDeletes, DeleteAnswered(d) PROVE ScreenInv'
  <2>1. Overtaken(csDetails) \in SUBSET DetailCalls /\ \A e \in Overtaken(csDetails) : ~e.latest
    BY OvertakenDetails DEF ScreenTypeOK
  <2> QED BY <1>13, <2>1 DEF DeleteAnswered, NewChat, ScreenTypeOK
<1>14. ASSUME NEW d \in csDeletes, DeleteFailed(d) PROVE ScreenInv'
  BY <1>14 DEF DeleteFailed, ScreenTypeOK
<1>15. CASE UNCHANGED csVars
  BY <1>15 DEF csVars, ScreenTypeOK
<1> QED
  BY <1>1, <1>2, <1>3, <1>4, <1>5, <1>6, <1>7, <1>8, <1>9, <1>10, <1>11, <1>12, <1>13, <1>14, <1>15
  DEF ScreenNext

\* When a conversation becomes the active one it is the last asked for.
LEMMA ShownIsAskedFor ==
    ASSUME ScreenInv, [ScreenNext]_csVars, csActive' \notin {csActive, NoChat}
    PROVE  csActive' = csChoice
<1>1. ASSUME NEW d \in csDetails, DetailAnswered(d) PROVE csActive' = csChoice
  BY <1>1 DEF DetailAnswered, ShowsDetail, csShown, ScreenInv
<1>2. UNCHANGED csActive \/ csActive' = NoChat \/ \E d \in csDetails : DetailAnswered(d)
  BY DEF ScreenNext, csVars, csShown, MountChat, UnmountChat, LoadConversations, ServerLists, ListAnswered, TurnEnds,
         OpenConversation, StartNewChat, NewChat, DeleteConv, DetailFailed, ServerDeletes, DeleteAnswered, DeleteFailed
<1> QED BY <1>1, <1>2

-----------------------------------------------------------------------------
(* The volume of other media.                                              *)

DuckingInv == DuckingTypeOK /\ SkipsOnlyWhatIsInForce

LEMMA DuckingStart == DuckingInit => DuckingInv
<1> SUFFICES ASSUME DuckingInit PROVE DuckingInv
  OBVIOUS
<1>1. mdQueue \in Seq(Commands)
  BY EmptySeq DEF DuckingInit
<1> QED BY <1>1 DEF DuckingInit, DuckingInv, DuckingTypeOK, SkipsOnlyWhatIsInForce, VoiceStates

LEMMA WantedIsCommand ==
    ASSUME NEW v \in VoiceStates, NEW e \in BOOLEAN, NEW l \in DuckLevels
    PROVE  Wanted(v, e, l) \in Commands
BY DEF Wanted, Ducked, VoiceStates, DuckStates, Commands

\* A command that is dispatched is the last of the queue, or in force already.
LEMMA DispatchKeepsTrack ==
    ASSUME DuckingInv, NEW c \in Commands, Dispatches(c), UNCHANGED mdNative
    PROVE  /\ mdRequested' \in Commands \cup {Nothing}
           /\ mdQueue' \in Seq(Commands)
           /\ SkipsOnlyWhatIsInForce'
<1>1. mdQueue \in Seq(Commands)
  BY DEF DuckingInv, DuckingTypeOK
<1>2. CASE c = mdRequested
  <2>1. c # Nothing
    BY NothingAssumption
  <2>2. UNCHANGED <<mdRequested, mdQueue, mdNative>>
    BY <1>2 DEF Dispatches
  <2> QED BY <1>1, <1>2, <2>1, <2>2 DEF DuckingInv, DuckingTypeOK, SkipsOnlyWhatIsInForce
<1>3. CASE c # mdRequested
  <2>1. mdQueue' = Append(mdQueue, c) /\ mdRequested' = c
    BY <1>3 DEF Dispatches
  <2>2. /\ Append(mdQueue, c) \in Seq(Commands) /\ Append(mdQueue, c) # <<>>
        /\ Append(mdQueue, c)[Len(Append(mdQueue, c))] = c
    BY <1>1
  <2> QED BY <2>1, <2>2 DEF SkipsOnlyWhatIsInForce
<1> QED BY <1>2, <1>3

LEMMA DuckingStep ==
    ASSUME DuckingInv, [DuckingNext]_mdVars
    PROVE  DuckingInv'
<1>1. ASSUME NEW v \in VoiceStates, NEW e \in BOOLEAN, NEW l \in DuckLevels, Render(v, e, l) PROVE DuckingInv'
  <2>1. /\ mdRequested' \in Commands \cup {Nothing} /\ mdQueue' \in Seq(Commands)
        /\ SkipsOnlyWhatIsInForce'
    BY <1>1, WantedIsCommand, DispatchKeepsTrack DEF Render
  <2> QED BY <1>1, <2>1 DEF Render, DuckingInv, DuckingTypeOK
<1>2. CASE Restore
  <2>1. [state |-> "idle", level |-> mdLevel] \in Commands
    BY DEF DuckingInv, DuckingTypeOK, Commands, DuckStates
  <2>2. /\ mdRequested' \in Commands \cup {Nothing} /\ mdQueue' \in Seq(Commands)
        /\ SkipsOnlyWhatIsInForce'
    BY <1>2, <2>1, DispatchKeepsTrack DEF Restore
  <2> QED BY <1>2, <2>2 DEF Restore, DuckingInv, DuckingTypeOK
<1>3. ASSUME NEW fails \in BOOLEAN, Settles(fails) PROVE DuckingInv'
  <2>1. mdQueue \in Seq(Commands) /\ mdQueue # <<>>
    BY <1>3 DEF Settles, DuckingInv, DuckingTypeOK
  <2>2. Head(mdQueue) \in Commands /\ Tail(mdQueue) \in Seq(Commands)
    BY <2>1
  <2>3. DuckingTypeOK'
    BY <1>3, <2>2 DEF Settles, DuckingInv, DuckingTypeOK
  <2>4. CASE Len(mdQueue) = 1
    <3>1. Tail(mdQueue) = <<>> /\ mdQueue[Len(mdQueue)] = Head(mdQueue)
      <4>1. Tail(mdQueue) \in Seq(Commands) /\ Len(Tail(mdQueue)) = 0
        BY <2>1, <2>4, HeadTailProperties
      <4>2. Tail(mdQueue) = <<>>
        BY <4>1, EmptySeq
      <4>3. mdQueue[1] = Head(mdQueue)
        BY <2>1
      <4> QED BY <2>4, <4>2, <4>3
    <3>2. mdRequested # Nothing => mdRequested = Head(mdQueue)
      BY <2>1, <3>1 DEF DuckingInv, SkipsOnlyWhatIsInForce
    <3> QED BY <1>3, <2>3, <3>1, <3>2 DEF Settles, DuckingInv, SkipsOnlyWhatIsInForce
  <2>5. CASE Len(mdQueue) # 1
    <3>1. Tail(mdQueue) # <<>> /\ Tail(mdQueue)[Len(Tail(mdQueue))] = mdQueue[Len(mdQueue)]
      <4>1. Len(mdQueue) \in Nat \ {0, 1}
        BY <2>1, <2>5, EmptySeq
      <4> DEFINE n == Len(Tail(mdQueue))
      <4>2. n = Len(mdQueue) - 1
        BY <2>1, HeadTailProperties
      <4>3. n \in 1..n
        <5> DEFINE m == Len(mdQueue)
        <5>1. m \in Nat \ {0, 1} /\ n = m - 1
          BY <4>1, <4>2
        <5> HIDE DEF m, n
        <5> QED BY <5>1
      <4>4. Tail(mdQueue)[Len(Tail(mdQueue))] = mdQueue[Len(mdQueue)]
        BY <2>1, <4>2, <4>3, HeadTailProperties
      <4>5. Tail(mdQueue) # <<>>
        <5>1. n \in Nat \ {0}
          BY <4>1, <4>2
        <5>2. Len(<< >>) = 0
          BY EmptySeq
        <5> QED BY <5>1, <5>2
      <4> QED BY <4>4, <4>5
    <3>2. mdRequested # Nothing => mdRequested = mdQueue[Len(mdQueue)]
      BY <2>1 DEF DuckingInv, SkipsOnlyWhatIsInForce
    <3> QED BY <1>3, <2>3, <3>1, <3>2 DEF Settles, DuckingInv, SkipsOnlyWhatIsInForce
  <2> QED BY <2>4, <2>5
<1>4. CASE UNCHANGED mdVars
  BY <1>4 DEF mdVars, DuckingInv, DuckingTypeOK, SkipsOnlyWhatIsInForce
<1> QED BY <1>1, <1>2, <1>3, <1>4 DEF DuckingNext
=============================================================================
