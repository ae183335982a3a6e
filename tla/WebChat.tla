------------------------------- MODULE WebChat -------------------------------
(***************************************************************************)
(* The chat page of the web client (src/web/src/pages/Chat.tsx) and its    *)
(* socket (src/web/src/hooks/useChatSocket.ts).  One socket serves the     *)
(* page while the URL moves it from session to session.                    *)
(*                                                                         *)
(* React runs an effect in a task of its own after the render that changed *)
(* its dependencies: frames and answers may come in between, so the two    *)
(* effects here (the one that follows the session, the one that follows    *)
(* the URL) are actions with a flag that says they are due.  A session and *)
(* its conversation have one name.  The backend and the browser are        *)
(* external.  Left out: what is only displayed (thinking, the trail of     *)
(* tool events, the reason of a refusal).                                  *)
(***************************************************************************)
EXTENDS Naturals, FiniteSets

CONSTANTS WebSessions,  \* sessions, by their conversation
          NoSessionYet,
          WebSockets,   \* WebSocket objects, used again once closed
          NoWebSocket,
          WebCalls      \* bound: requests in flight

ASSUME WebAssumption == /\ NoSessionYet \notin WebSessions
                        /\ NoWebSocket \notin WebSockets
                        /\ WebCalls \in Nat

VARIABLES wcMounted,  \* the page is mounted
          wcUrl,      \* :sessionId of the URL, none on "/"
          wcSession,  \* sessionId, also what localStorage keeps
          wcRef,      \* sessionIdRef
          wcInitial,  \* the conversation initialMessages is the history of
          wcActive,   \* activeConvId
          wcDue,      \* effects that are due: "session", "url"
          wcServer,   \* conversations the backend holds
          wcList,     \* conversations, as listed
          wcLoads,    \* list requests: the answer they carry
          wcDetails,  \* conversations requested
          wcDeletes,  \* delete requests: [conv, session, done]
          wcShown,    \* the sessions the messages on screen come from
          wcConfirm,  \* a confirmation is on screen
          wcSocket,   \* socketRef
          wcWs,       \* WebSocket -> its readyState
          wcHeard,    \* sessions the current socket has subscribed so far
          wcSub,      \* the subscription it is left with
          wcRetry     \* the retry timer is pending

wcPage  == <<wcMounted, wcUrl, wcSession, wcInitial, wcActive>>
wcLists == <<wcServer, wcList, wcLoads, wcDetails, wcDeletes>>
wcConn  == <<wcSocket, wcWs, wcHeard, wcSub, wcRetry>>
wcVars  == <<wcPage, wcRef, wcDue, wcLists, wcShown, wcConfirm, wcConn>>

MaybeSession == WebSessions \cup {NoSessionYet}

WebChatTypeOK ==
    /\ wcMounted \in BOOLEAN
    /\ wcUrl \in MaybeSession
    /\ wcSession \in WebSessions
    /\ wcRef \in WebSessions
    /\ wcInitial \in MaybeSession
    /\ wcActive \in MaybeSession
    /\ wcDue \subseteq {"session", "url"}
    /\ wcServer \subseteq WebSessions
    /\ wcList \subseteq WebSessions
    /\ wcLoads \subseteq SUBSET WebSessions
    /\ wcDetails \subseteq WebSessions
    /\ wcDeletes \subseteq [conv : WebSessions, session : WebSessions, done : BOOLEAN]
    /\ wcShown \subseteq WebSessions
    /\ wcConfirm \in BOOLEAN
    /\ wcSocket \in WebSockets \cup {NoWebSocket}
    /\ wcWs \in [WebSockets -> {"connecting", "open", "closing", "gone"}]
    /\ wcHeard \subseteq WebSessions
    /\ wcSub \in MaybeSession
    /\ wcRetry \in BOOLEAN

WebChatInit ==
    /\ wcMounted = FALSE
    /\ wcUrl \in MaybeSession
    /\ wcSession \in WebSessions
    /\ wcRef = wcSession
    /\ wcInitial = NoSessionYet
    /\ wcActive = NoSessionYet
    /\ wcDue = {}
    /\ wcServer \in SUBSET WebSessions
    /\ wcList = {}
    /\ wcLoads = {}
    /\ wcDetails = {}
    /\ wcDeletes = {}
    /\ wcShown = {}
    /\ wcConfirm = FALSE
    /\ wcSocket = NoWebSocket
    /\ wcWs = [w \in WebSockets |-> "gone"]
    /\ wcHeard = {}
    /\ wcSub = NoSessionYet
    /\ wcRetry = FALSE

-----------------------------------------------------------------------------
(* The socket.                                                             *)

WebConnects == \E w \in WebSockets :
                   /\ wcWs[w] = "gone"
                   /\ wcWs' = [wcWs EXCEPT ![w] = "connecting"]
                   /\ wcSocket' = w
                   /\ wcHeard' = {} /\ wcSub' = NoSessionYet

WebOnOpen(w) ==
    /\ wcWs[w] = "connecting"
    /\ wcWs' = [wcWs EXCEPT ![w] = "open"]
    /\ IF wcSocket = w
       THEN wcHeard' = {wcRef} /\ wcSub' = wcRef
       ELSE UNCHANGED <<wcHeard, wcSub>>
    /\ UNCHANGED <<wcPage, wcRef, wcDue, wcLists, wcShown, wcConfirm, wcSocket, wcRetry>>

WebOnClose(w, refused) ==
    /\ wcWs[w] # "gone"
    /\ wcWs' = [wcWs EXCEPT ![w] = "gone"]
    /\ IF wcSocket = w
       THEN /\ wcSocket' = NoWebSocket
            /\ wcHeard' = {} /\ wcSub' = NoSessionYet
            /\ wcRetry' = (wcRetry \/ ~refused)
       ELSE UNCHANGED <<wcSocket, wcHeard, wcSub, wcRetry>>
    /\ UNCHANGED <<wcPage, wcRef, wcDue, wcLists, wcShown, wcConfirm>>

WebRetry ==
    /\ wcRetry
    /\ wcRetry' = FALSE
    /\ WebConnects
    /\ UNCHANGED <<wcPage, wcRef, wcDue, wcLists, wcShown, wcConfirm>>

\* The effect that follows the session: the open socket changes its
\* subscription and the messages become those of the new session.
FollowSession ==
    /\ "session" \in wcDue
    /\ wcDue' = wcDue \ {"session"}
    /\ wcRef' = wcSession
    /\ IF wcRef # wcSession /\ wcSocket # NoWebSocket /\ wcWs[wcSocket] = "open"
       THEN wcHeard' = wcHeard \cup {wcSession} /\ wcSub' = wcSession
       ELSE UNCHANGED <<wcHeard, wcSub>>
    /\ wcShown' = {wcInitial} \ {NoSessionYet}
    /\ UNCHANGED <<wcPage, wcLists, wcConfirm, wcSocket, wcWs, wcRetry>>

\* A frame of a session the socket has subscribed, the current one or one
\* the backend has not yet seen it leave.
Frame(s) == /\ wcSocket # NoWebSocket /\ wcWs[wcSocket] = "open"
            /\ s \in wcHeard

\* A socket that forgets which session the page shows.
AcceptsAny(s) == s \in WebSessions

\* shouldAcceptChatFrame
Accepts(s) == s = wcRef

WebOnConfirmation(s) ==
    /\ Frame(s) /\ Accepts(s)
    /\ wcConfirm' = TRUE
    /\ UNCHANGED <<wcPage, wcRef, wcDue, wcLists, wcShown, wcConn>>

WebOnReply(s) ==
    /\ Frame(s) /\ Accepts(s)
    /\ wcShown' = wcShown \cup {s}
    /\ wcServer' = wcServer \cup {s}
    /\ UNCHANGED <<wcPage, wcRef, wcDue, wcList, wcLoads, wcDetails, wcDeletes, wcConfirm, wcConn>>

\* The composer is enabled while the status is open.
WebComposerReady == wcMounted /\ wcSocket # NoWebSocket /\ wcWs[wcSocket] = "open"

WebSend ==
    /\ WebComposerReady
    /\ wcShown' = wcShown \cup {wcRef}
    /\ UNCHANGED <<wcPage, wcRef, wcDue, wcLists, wcConfirm, wcConn>>

\* The modal stays until it is answered, also when the session changes.
WebModalShown == wcConfirm

\* A button of the modal, or its countdown.
WebConfirmed ==
    /\ WebModalShown
    /\ wcConfirm' = FALSE
    /\ UNCHANGED <<wcPage, wcRef, wcDue, wcLists, wcShown, wcConn>>

-----------------------------------------------------------------------------
(* The page.                                                               *)

\* A render with these values: the effects whose dependencies changed are due.
Renders(url, session, initial, active, list) ==
    /\ wcUrl' = url /\ wcSession' = session /\ wcInitial' = initial
    /\ wcActive' = active /\ wcList' = list
    /\ wcDue' = wcDue \cup (IF session # wcSession THEN {"session"} ELSE {})
                      \cup (IF <<url, session, active, list>> # <<wcUrl, wcSession, wcActive, wcList>>
                            THEN {"url"} ELSE {})

WebInFlight == Cardinality(wcLoads) + Cardinality(wcDetails) + Cardinality(wcDeletes)

\* The page mounts at a URL with the stored session, connects and loads its
\* list; without a session in the URL it goes to the stored one's.
WebMount(url) ==
    /\ ~wcMounted
    /\ wcMounted' = TRUE
    /\ wcUrl' = IF url = NoSessionYet THEN wcSession ELSE url
    /\ wcRef' = wcSession
    /\ wcDue' = {"url"}
    /\ wcLoads' = {wcServer}
    /\ WebConnects
    /\ UNCHANGED <<wcSession, wcInitial, wcActive, wcServer, wcList, wcDetails, wcDeletes, wcShown,
                   wcConfirm, wcRetry>>

\* Leaving the page drops its state; only localStorage keeps the session.
WebUnmount ==
    /\ wcMounted
    /\ wcMounted' = FALSE
    /\ wcSocket' = NoWebSocket
    /\ wcWs' = IF wcSocket # NoWebSocket THEN [wcWs EXCEPT ![wcSocket] = "closing"] ELSE wcWs
    /\ wcHeard' = {} /\ wcSub' = NoSessionYet /\ wcRetry' = FALSE
    /\ wcInitial' = NoSessionYet /\ wcActive' = NoSessionYet /\ wcDue' = {}
    /\ wcList' = {} /\ wcLoads' = {} /\ wcDetails' = {} /\ wcDeletes' = {}
    /\ wcShown' = {} /\ wcConfirm' = FALSE
    /\ UNCHANGED <<wcUrl, wcSession, wcRef, wcServer>>

\* loadSession: a session the list does not know is shown empty; for a
\* conversation its history is requested first.
LoadSession ==
    /\ "url" \in wcDue /\ wcMounted
    /\ IF wcUrl \notin wcList
       THEN /\ wcSession' = wcUrl
            /\ wcInitial' = NoSessionYet
            /\ wcActive' = NoSessionYet
            /\ wcDue' = (wcDue \ {"url"})
                        \cup (IF wcUrl # wcSession THEN {"session", "url"} ELSE {})
                        \cup (IF wcActive # NoSessionYet THEN {"url"} ELSE {})
            /\ UNCHANGED wcDetails
       ELSE /\ wcDue' = wcDue \ {"url"}
            /\ IF wcUrl = wcActive /\ wcUrl = wcSession
               THEN UNCHANGED wcDetails
               ELSE wcDetails' = wcDetails \cup {wcUrl}
            /\ UNCHANGED <<wcSession, wcInitial, wcActive>>
    /\ UNCHANGED <<wcMounted, wcUrl, wcRef, wcServer, wcList, wcLoads, wcDeletes, wcShown,
                   wcConfirm, wcConn>>

\* No mark tells an answer that was overtaken: the effect asks again until
\* the page shows what the URL names.
WebDetailAnswered(c) ==
    /\ c \in wcDetails
    /\ wcDetails' = wcDetails \ {c}
    /\ IF c \in wcServer
       THEN Renders(wcUrl, c, c, c, wcList)
       ELSE UNCHANGED <<wcUrl, wcSession, wcInitial, wcActive, wcList, wcDue>>
    /\ UNCHANGED <<wcMounted, wcRef, wcServer, wcLoads, wcDeletes, wcShown, wcConfirm, wcConn>>

\* The rows of the sidebar; their delete buttons are never disabled.
WebSidebarRows == IF wcMounted THEN wcList ELSE {}

\* A conversation is opened, a new chat is started, or the user goes back.
Navigate(s) ==
    /\ wcMounted /\ s # wcUrl
    /\ Renders(s, wcSession, wcInitial, wcActive, wcList)
    /\ UNCHANGED <<wcMounted, wcRef, wcServer, wcLoads, wcDetails, wcDeletes, wcShown, wcConfirm, wcConn>>

\* After a message, when its 1.5 seconds are over.
WebLoadConversations ==
    /\ wcMounted /\ wcShown # {}
    /\ WebInFlight < WebCalls
    /\ wcLoads' = wcLoads \cup {wcServer}
    /\ UNCHANGED <<wcPage, wcRef, wcDue, wcServer, wcList, wcDetails, wcDeletes, wcShown, wcConfirm, wcConn>>

WebListAnswered(answer, failed) ==
    /\ answer \in wcLoads
    /\ wcLoads' = wcLoads \ {answer}
    /\ Renders(wcUrl, wcSession, wcInitial, wcActive, IF failed THEN {} ELSE answer)
    /\ UNCHANGED <<wcMounted, wcRef, wcServer, wcDetails, wcDeletes, wcShown, wcConfirm, wcConn>>

WebDelete(c) ==
    /\ c \in WebSidebarRows
    /\ WebInFlight < WebCalls
    /\ wcDeletes' = wcDeletes \cup {[conv |-> c, session |-> wcSession, done |-> FALSE]}
    /\ UNCHANGED <<wcPage, wcRef, wcDue, wcServer, wcList, wcLoads, wcDetails, wcShown, wcConfirm, wcConn>>

WebServerDeletes(d) ==
    /\ d \in wcDeletes /\ ~d.done
    /\ wcServer' = wcServer \ {d.conv}
    /\ wcDeletes' = (wcDeletes \ {d}) \cup {[d EXCEPT !.done = TRUE]}
    /\ UNCHANGED <<wcPage, wcRef, wcDue, wcList, wcLoads, wcDetails, wcShown, wcConfirm, wcConn>>

\* The handler goes on with the session that was shown at the click.
WebDeleteAnswered(d) ==
    /\ d \in wcDeletes
    /\ wcDeletes' = wcDeletes \ {d}
    /\ IF d.done
       THEN \E s \in WebSessions :
               /\ d.conv = d.session => s \notin wcServer
               /\ d.conv # d.session => s = wcUrl
               /\ Renders(s, wcSession, wcInitial, wcActive, wcList \ {d.conv})
       ELSE UNCHANGED <<wcUrl, wcSession, wcInitial, wcActive, wcList, wcDue>>
    /\ UNCHANGED <<wcMounted, wcRef, wcServer, wcLoads, wcDetails, wcShown, wcConfirm, wcConn>>

-----------------------------------------------------------------------------

WebChatNext ==
    \/ \E w \in WebSockets : WebOnOpen(w) \/ \E refused \in BOOLEAN : WebOnClose(w, refused)
    \/ WebRetry
    \/ FollowSession
    \/ \E s \in WebSessions : WebOnConfirmation(s) \/ WebOnReply(s)
    \/ WebSend
    \/ WebConfirmed
    \/ \E url \in MaybeSession : WebMount(url)
    \/ WebUnmount
    \/ LoadSession
    \/ \E s \in WebSessions : WebDetailAnswered(s) \/ Navigate(s) \/ WebDelete(s)
    \/ WebLoadConversations
    \/ \E answer \in wcLoads, failed \in BOOLEAN : WebListAnswered(answer, failed)
    \/ \E d \in wcDeletes : WebServerDeletes(d) \/ WebDeleteAnswered(d)

WebChatSpec == WebChatInit /\ [][WebChatNext]_wcVars

-----------------------------------------------------------------------------

\* One socket serves every session, and no conversation leaks into another:
\* once the page follows a session, each message on screen is of that
\* session, its history or its frames, and an open socket is subscribed to
\* it and to nothing else, whatever was requested or opened in between.
PageShowsItsSession ==
    /\ wcShown \subseteq {wcRef}
    /\ wcInitial \in {NoSessionYet, wcSession}
    /\ wcMounted /\ "session" \notin wcDue => wcRef = wcSession
    /\ wcSocket # NoWebSocket /\ wcWs[wcSocket] = "open" => wcSub = wcRef

\* The page has one live socket.
WebOneSocket == \A w \in WebSockets : wcWs[w] \in {"connecting", "open"} => wcSocket = w
=============================================================================
