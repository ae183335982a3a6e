------------------------------ MODULE ChatScreen ------------------------------
(***************************************************************************)
(* The conversations of the desktop's chat screen (screens/Chat.tsx).  A   *)
(* conversation and the session it belongs to have one name here; a        *)
(* session whose conversation the backend does not hold is a new chat.     *)
(*                                                                         *)
(* Requests overlap.  A request carries a mark instead of a number: it is  *)
(* the latest of its kind until the screen counts on.  The backend reads   *)
(* or deletes when it handles a request and answers later, in any order.   *)
(***************************************************************************)
EXTENDS Naturals, FiniteSets

CONSTANTS Chats,        \* conversations, by session
          NoChat,
          ScreenCalls   \* bound: requests in flight

ASSUME ScreenAssumption == NoChat \notin Chats /\ ScreenCalls \in Nat

VARIABLES csServer,   \* conversations the backend holds
          csMounted,  \* the screen is mounted
          csSession,  \* sessionId, also what localStorage keeps
          csInitial,  \* the conversation initialMessages is the history of
          csActive,   \* activeConvId
          csList,     \* conversations, as listed
          csLists,    \* list requests: [latest, read, answer]
          csDetails,  \* detail requests: [chat, latest]
          csDeletes,  \* delete requests: [chat, session, done]
          csDeleting, \* deletingId
          csReload,   \* the timer that reloads after a message
          csChoice    \* history: what the user asked for last

csCalls == <<csLists, csDetails, csDeletes>>
csShown == <<csSession, csInitial, csActive>>
csVars  == <<csServer, csMounted, csShown, csList, csCalls, csDeleting, csReload, csChoice>>

ListCalls   == [latest : BOOLEAN, read : BOOLEAN, answer : SUBSET Chats]
DetailCalls == [chat : Chats, latest : BOOLEAN]
DeleteCalls == [chat : Chats, session : Chats, done : BOOLEAN]

ScreenTypeOK ==
    /\ csServer \subseteq Chats
    /\ csMounted \in BOOLEAN
    /\ csSession \in Chats
    /\ csInitial \in Chats \cup {NoChat}
    /\ csActive \in Chats \cup {NoChat}
    /\ csList \subseteq Chats
    /\ csLists \subseteq ListCalls
    /\ csDetails \subseteq DetailCalls
    /\ csDeletes \subseteq DeleteCalls
    /\ csDeleting \in Chats \cup {NoChat}
    /\ csReload \in BOOLEAN
    /\ csChoice \in Chats \cup {NoChat}

ScreenInit ==
    /\ csServer \in SUBSET Chats
    /\ csMounted = FALSE
    /\ csSession \in Chats
    /\ csInitial = NoChat
    /\ csActive = NoChat
    /\ csList = {}
    /\ csLists = {}
    /\ csDetails = {}
    /\ csDeletes = {}
    /\ csDeleting = NoChat
    /\ csReload = FALSE
    /\ csChoice = NoChat

-----------------------------------------------------------------------------
(* The screen.                                                             *)

InFlight == Cardinality(csLists) + Cardinality(csDetails) + Cardinality(csDeletes)

\* A request counts on: those before it are no longer the latest.
Overtaken(calls) == {[c EXCEPT !.latest = FALSE] : c \in calls}

Asked(calls) == Overtaken(calls) \cup {[latest |-> TRUE, read |-> FALSE, answer |-> {}]}

\* The screen mounts with the stored session and empty lists, and loads.
MountChat ==
    /\ ~csMounted
    /\ csMounted' = TRUE
    /\ csInitial' = NoChat
    /\ csActive' = NoChat
    /\ csList' = {}
    /\ csLists' = Asked({})
    /\ csChoice' = NoChat
    /\ UNCHANGED <<csServer, csSession, csDetails, csDeletes, csDeleting, csReload>>

\* Leaving the route drops its state; answers still to come change nothing.
UnmountChat ==
    /\ csMounted
    /\ csMounted' = FALSE
    /\ csLists' = {}
    /\ csDetails' = {}
    /\ csDeletes' = {d \in csDeletes : ~d.done}
    /\ csDeleting' = NoChat
    /\ csReload' = FALSE
    /\ UNCHANGED <<csServer, csShown, csList, csChoice>>

LoadConversations ==
    /\ csMounted /\ csReload
    /\ InFlight < ScreenCalls
    /\ csReload' = FALSE
    /\ csLists' = Asked(csLists)
    /\ UNCHANGED <<csServer, csMounted, csShown, csList, csDetails, csDeletes, csDeleting, csChoice>>

ListAnswered(c, failed) ==
    /\ c \in csLists /\ (c.read \/ failed)
    /\ csLists' = csLists \ {c}
    /\ csList' = IF c.latest THEN (IF failed THEN {} ELSE c.answer) ELSE csList
    /\ UNCHANGED <<csServer, csMounted, csShown, csDetails, csDeletes, csDeleting, csReload, csChoice>>

\* A turn ended: the backend holds its conversation, the list reloads later.
TurnEnds ==
    /\ csMounted
    /\ csServer' = csServer \cup {csSession}
    /\ csReload' = TRUE
    /\ UNCHANGED <<csMounted, csShown, csList, csCalls, csDeleting, csChoice>>

\* The rows of the sidebar, and those whose delete button is enabled.
SidebarRows   == IF csMounted THEN csList ELSE {}
DeletableRows == SidebarRows \ {csDeleting}

\* A click on a row.  One on the active conversation returns at once, and
\* leaves an earlier request the latest.
OpenConversation(c) ==
    /\ c \in SidebarRows /\ c # csActive
    /\ InFlight < ScreenCalls
    /\ csDetails' = Overtaken(csDetails) \cup {[chat |-> c, latest |-> TRUE]}
    /\ csChoice' = c
    /\ UNCHANGED <<csServer, csMounted, csShown, csList, csLists, csDeletes, csDeleting,
                   csReload>>

\* An answer that is shown whenever it arrives.
ShowsAnyDetail(d) == d.chat \in csServer

\* The latest request that succeeds shows its conversation.
ShowsDetail(d) == d.latest /\ d.chat \in csServer

DetailAnswered(d) ==
    /\ d \in csDetails
    /\ csDetails' = csDetails \ {d}
    /\ IF ShowsDetail(d)
       THEN /\ csInitial' = d.chat
            /\ csSession' = d.chat
            /\ csActive' = d.chat
       ELSE UNCHANGED csShown
    /\ UNCHANGED <<csServer, csMounted, csList, csLists, csDeletes, csDeleting, csReload, csChoice>>

DetailFailed(d) ==
    /\ d \in csDetails
    /\ csDetails' = csDetails \ {d}
    /\ UNCHANGED <<csServer, csMounted, csShown, csList, csLists, csDeletes, csDeleting,
                   csReload, csChoice>>

\* startNewChat: a session the backend has not seen.
NewChat(s) ==
    /\ s \in Chats \ (csServer \cup {csSession})
    /\ csDetails' = Overtaken(csDetails)
    /\ csInitial' = NoChat
    /\ csActive' = NoChat
    /\ csSession' = s
    /\ csChoice' = NoChat

StartNewChat(s) ==
    /\ csMounted
    /\ NewChat(s)
    /\ UNCHANGED <<csServer, csMounted, csList, csLists, csDeletes, csDeleting, csReload>>

\* The handler goes on with the session that was shown at the click.
DeleteConv(c) ==
    /\ c \in DeletableRows
    /\ InFlight < ScreenCalls
    /\ csLists' = Overtaken(csLists)
    /\ csDetails' = Overtaken(csDetails)
    /\ csDeletes' = csDeletes \cup {[chat |-> c, session |-> csSession, done |-> FALSE]}
    /\ csDeleting' = c
    /\ UNCHANGED <<csServer, csMounted, csShown, csList, csReload, csChoice>>

DeleteAnswered(d) ==
    /\ d \in csDeletes /\ d.done /\ csMounted
    /\ csDeletes' = csDeletes \ {d}
    /\ csList' = csList \ {d.chat}
    /\ csDeleting' = NoChat
    /\ IF d.chat = d.session
       THEN \E s \in Chats : NewChat(s)
       ELSE UNCHANGED <<csDetails, csShown, csChoice>>
    /\ UNCHANGED <<csServer, csMounted, csLists, csReload>>

\* The row stays; the next refresh reconciles.
DeleteFailed(d) ==
    /\ d \in csDeletes /\ ~d.done /\ csMounted
    /\ csDeletes' = csDeletes \ {d}
    /\ csDeleting' = NoChat
    /\ UNCHANGED <<csServer, csMounted, csShown, csList, csLists, csDetails, csReload, csChoice>>

-----------------------------------------------------------------------------
(* The backend.                                                            *)

ServerLists(c) ==
    /\ c \in csLists /\ ~c.read
    /\ csLists' = (csLists \ {c}) \cup {[c EXCEPT !.read = TRUE, !.answer = csServer]}
    /\ UNCHANGED <<csServer, csMounted, csShown, csList, csDetails, csDeletes, csDeleting,
                   csReload, csChoice>>

ServerDeletes(d) ==
    /\ d \in csDeletes /\ ~d.done
    /\ csServer' = csServer \ {d.chat}
    /\ csDeletes' = (csDeletes \ {d}) \cup (IF csMounted THEN {[d EXCEPT !.done = TRUE]} ELSE {})
    /\ UNCHANGED <<csMounted, csShown, csList, csLists, csDetails, csDeleting, csReload, csChoice>>

-----------------------------------------------------------------------------

ScreenNext ==
    \/ MountChat
    \/ UnmountChat
    \/ LoadConversations
    \/ \E c \in csLists : \/ ServerLists(c)
                          \/ \E failed \in BOOLEAN : ListAnswered(c, failed)
    \/ TurnEnds
    \/ \E c \in Chats : OpenConversation(c) \/ StartNewChat(c) \/ DeleteConv(c)
    \/ \E d \in csDetails : DetailAnswered(d) \/ DetailFailed(d)
    \/ \E d \in csDeletes : ServerDeletes(d) \/ DeleteAnswered(d) \/ DeleteFailed(d)

ScreenSpec == ScreenInit /\ [][ScreenNext]_csVars

-----------------------------------------------------------------------------

\* An answer the user no longer waits for never changes the chat: when a
\* conversation becomes the active one it is the last the user asked for,
\* however the answers of several requests are ordered and whatever new
\* chats and deletions came between.
OvertakenAnswersAreDropped ==
    [][csActive' \notin {csActive, NoChat} => csActive' = csChoice]_csVars
=============================================================================
