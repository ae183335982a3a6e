------------------------------ MODULE LogStream ------------------------------
(***************************************************************************)
(* The live log of the desktop client: the store of hooks/useLogStream.ts, *)
(* the lifecycle it shares with the chats (stores/demandLifecycle.ts, here *)
(* kept alive until shutdown) and the screens that seed and show it        *)
(* (screens/Logs.tsx, components/CommandDeck.tsx).                         *)
(*                                                                         *)
(* A line is known by its content, as the keys of mergeLogSeed know it.    *)
(* The backend and the browser are external: an open socket may deliver    *)
(* any line, a REST answer may hold any lines.  Left out: the order of the *)
(* lines on screen, the limit of the buffer and the scrolling of the view. *)
(***************************************************************************)
EXTENDS Naturals

CONSTANTS Lines,        \* lines the backend writes
          LogSockets,   \* WebSocket objects, used again once closed
          NoLogSocket,
          LogListeners, \* bound: mounted hooks, and answers they wait for
          LogOrphans    \* bound: timers whose handle was overwritten, of each kind

ASSUME LogAssumption == /\ NoLogSocket \notin LogSockets
                        /\ LogListeners \in Nat /\ LogOrphans \in Nat

VARIABLES lgListeners, \* mounted hooks
          lgStopped,   \* stopped
          lgSocket,    \* socket
          lgWs,        \* WebSocket -> its readyState
          lgConnTimer, \* connectionTimer is pending
          lgRetry,     \* the timer retry names is pending
          lgOrphan,    \* pending retry timers no variable names
          lgRefused,   \* the last close was a refusal, code 1008
          lgShown,     \* snapshot.logs
          lgPending,   \* pending
          lgFlush,     \* the timer flushTimer names is pending
          lgLate,      \* pending flush timers flushTimer no longer names
          lgSeeds      \* REST answers that will be merged

lgConn  == <<lgSocket, lgWs, lgConnTimer, lgRetry, lgOrphan, lgRefused>>
lgLines == <<lgShown, lgPending, lgFlush, lgLate>>
lgVars  == <<lgListeners, lgStopped, lgConn, lgLines, lgSeeds>>

LogTypeOK ==
    /\ lgListeners \in 0..LogListeners
    /\ lgStopped \in BOOLEAN
    /\ lgSocket \in LogSockets \cup {NoLogSocket}
    /\ lgWs \in [LogSockets -> {"connecting", "open", "closing", "gone"}]
    /\ lgConnTimer \in BOOLEAN
    /\ lgRetry \in BOOLEAN
    /\ lgOrphan \in 0..LogOrphans
    /\ lgRefused \in BOOLEAN
    /\ lgShown \subseteq Lines
    /\ lgPending \subseteq Lines
    /\ lgFlush \in BOOLEAN
    /\ lgLate \in 0..LogOrphans
    /\ lgSeeds \in 0..LogListeners

LogInit ==
    /\ lgListeners = 0
    /\ lgStopped = TRUE
    /\ lgSocket = NoLogSocket
    /\ lgWs = [w \in LogSockets |-> "gone"]
    /\ lgConnTimer = FALSE
    /\ lgRetry = FALSE
    /\ lgOrphan = 0
    /\ lgRefused = FALSE
    /\ lgShown = {}
    /\ lgPending = {}
    /\ lgFlush = FALSE
    /\ lgLate = 0
    /\ lgSeeds = 0

-----------------------------------------------------------------------------
(* The connection.                                                         *)

LogConnects ==
    IF lgSocket # NoLogSocket
    THEN UNCHANGED <<lgSocket, lgWs, lgConnTimer>>
    ELSE \E w \in LogSockets : /\ lgWs[w] = "gone"
                               /\ lgSocket' = w
                               /\ lgWs' = [lgWs EXCEPT ![w] = "connecting"]
                               /\ lgConnTimer' = TRUE

LogClosing(w) == IF w \in LogSockets /\ lgWs[w] \in {"connecting", "open"}
                 THEN [lgWs EXCEPT ![w] = "closing"]
                 ELSE lgWs

\* A view mounts and asks for a snapshot.  The store starts with the first.
LogSubscribe ==
    /\ lgListeners < LogListeners /\ lgSeeds < LogListeners
    /\ lgListeners' = lgListeners + 1
    /\ lgSeeds' = lgSeeds + 1
    /\ IF lgListeners = 0
       THEN lgStopped' = FALSE /\ LogConnects
       ELSE UNCHANGED <<lgStopped, lgSocket, lgWs, lgConnTimer>>
    /\ UNCHANGED <<lgRetry, lgOrphan, lgRefused, lgLines>>

\* A view unmounts; the store goes on.  The log screen drops its answer,
\* the command deck does not.
LogLeave ==
    /\ lgListeners > 0
    /\ lgListeners' = lgListeners - 1
    /\ lgSeeds' \in {lgSeeds, IF lgSeeds > 0 THEN lgSeeds - 1 ELSE 0}
    /\ UNCHANGED <<lgStopped, lgConn, lgLines>>

\* shutdown(): lines that wait for the flush go with the connection.
LogShutDown ==
    /\ lgStopped' = TRUE
    /\ lgRetry' = FALSE
    /\ lgConnTimer' = FALSE
    /\ lgFlush' = FALSE
    /\ lgPending' = {}
    /\ lgSocket' = NoLogSocket
    /\ lgWs' = LogClosing(lgSocket)
    /\ UNCHANGED <<lgListeners, lgOrphan, lgRefused, lgShown, lgLate, lgSeeds>>

LogRetryFires ==
    /\ \/ lgRetry /\ lgRetry' = FALSE /\ UNCHANGED lgOrphan
       \/ lgOrphan > 0 /\ lgOrphan' = lgOrphan - 1 /\ UNCHANGED lgRetry
    /\ IF lgStopped THEN UNCHANGED <<lgSocket, lgWs, lgConnTimer>> ELSE LogConnects
    /\ UNCHANGED <<lgListeners, lgStopped, lgRefused, lgLines, lgSeeds>>

LogConnTimerFires ==
    /\ lgConnTimer
    /\ lgConnTimer' = FALSE
    /\ lgWs' = LogClosing(lgSocket)
    /\ UNCHANGED <<lgListeners, lgStopped, lgSocket, lgRetry, lgOrphan, lgRefused, lgLines, lgSeeds>>

LogOnOpen(w) ==
    /\ lgWs[w] = "connecting"
    /\ lgWs' = [lgWs EXCEPT ![w] = "open"]
    /\ IF lgSocket = w THEN lgConnTimer' = FALSE ELSE UNCHANGED lgConnTimer
    /\ UNCHANGED <<lgListeners, lgStopped, lgSocket, lgRetry, lgOrphan, lgRefused, lgLines, lgSeeds>>

\* onclose of the current socket.
LogDrops(refused) ==
    /\ lgSocket' = NoLogSocket
    /\ lgConnTimer' = FALSE
    /\ lgRefused' = refused
    /\ IF refused \/ lgStopped
       THEN UNCHANGED <<lgRetry, lgOrphan>>
       ELSE /\ lgRetry' = TRUE
            /\ lgOrphan' = IF lgRetry THEN lgOrphan + 1 ELSE lgOrphan
            /\ lgOrphan' <= LogOrphans

LogOnClose(w, refused) ==
    /\ lgWs[w] # "gone"
    /\ lgWs' = [lgWs EXCEPT ![w] = "gone"]
    /\ IF lgSocket = w
       THEN LogDrops(refused)
       ELSE UNCHANGED <<lgSocket, lgConnTimer, lgRetry, lgOrphan, lgRefused>>
    /\ UNCHANGED <<lgListeners, lgStopped, lgLines, lgSeeds>>

-----------------------------------------------------------------------------
(* Lines.                                                                  *)

\* A frame of the current socket; others, and what is no line, are dropped.
LogSent(w) == lgWs[w] = "open" /\ lgSocket = w

\* append(): lines are shown together, 16 ms after the first of them.
LineArrives(w, line) ==
    /\ LogSent(w)
    /\ lgPending' = lgPending \cup {line}
    /\ lgFlush' = TRUE
    /\ UNCHANGED <<lgListeners, lgStopped, lgConn, lgShown, lgLate, lgSeeds>>

\* flush(), which forgets the timer also when it is not the timer's call.
Flushes == /\ lgFlush' = FALSE
           /\ lgShown' = lgShown \cup lgPending
           /\ lgPending' = {}

\* The timer that flushTimer names if it is still pending: it goes on unnamed.
Unnamed == IF lgFlush THEN 1 ELSE 0

FlushTimerFires ==
    /\ Flushes
    /\ \/ lgFlush /\ UNCHANGED lgLate
       \/ lgLate > 0 /\ lgLate' = lgLate - 1 + Unnamed
    /\ UNCHANGED <<lgListeners, lgStopped, lgConn, lgSeeds>>

\* A snapshot that takes the place of the lines on screen.
Replaced(shown, answer) == answer

\* mergeLogSeed: lines that came over the socket stay, the others join them.
Merged(shown, answer) == answer \cup shown

\* seed(): flushes first; a failed request only leaves the view as it is.
LogSeeded(answer) ==
    /\ lgSeeds > 0
    /\ lgSeeds' = lgSeeds - 1
    /\ lgFlush' = FALSE
    /\ lgLate' = lgLate + Unnamed
    /\ lgLate' <= LogOrphans
    /\ lgPending' = {}
    /\ lgShown' = Merged(lgShown \cup lgPending, answer)
    /\ UNCHANGED <<lgListeners, lgStopped, lgConn>>

LogSeedFails ==
    /\ lgSeeds > 0
    /\ lgSeeds' = lgSeeds - 1
    /\ UNCHANGED <<lgListeners, lgStopped, lgConn, lgLines>>

\* The button of the screen.
ClearLog ==
    /\ lgListeners > 0
    /\ lgShown' = {} /\ lgPending' = {}
    /\ UNCHANGED <<lgListeners, lgStopped, lgConn, lgFlush, lgLate, lgSeeds>>

-----------------------------------------------------------------------------

LogNext ==
    \/ LogSubscribe
    \/ LogLeave
    \/ LogShutDown
    \/ LogRetryFires
    \/ LogConnTimerFires
    \/ \E w \in LogSockets :
          \/ LogOnOpen(w)
          \/ \E refused \in BOOLEAN : LogOnClose(w, refused)
          \/ \E line \in Lines : LineArrives(w, line)
    \/ FlushTimerFires
    \/ \E answer \in SUBSET Lines : LogSeeded(answer)
    \/ LogSeedFails
    \/ ClearLog

LogSpec == LogInit /\ [][LogNext]_lgVars

-----------------------------------------------------------------------------

\* The log has one live socket, across reconnects and old timers.
LogOneSocket == \A w \in LogSockets : lgWs[w] \in {"connecting", "open"} => lgSocket = w

\* A started store that was not refused is connected or about to be.
LogReconnects == ~lgStopped /\ ~lgRefused => lgSocket # NoLogSocket \/ lgRetry

\* Lines that wait are shown within a flush, whoever called flush() before.
PendingIsFlushed == lgPending # {} => lgFlush

\* A line that arrived is not lost to a snapshot, a flush or a reconnect:
\* only the button of the screen and the shutdown take lines away.
LinesAreKept ==
    [][\/ lgShown \cup lgPending \subseteq (lgShown \cup lgPending)'
       \/ ClearLog
       \/ LogShutDown]_lgVars
=============================================================================
