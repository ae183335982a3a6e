----------------------------- MODULE ChatRegistry -----------------------------
(***************************************************************************)
(* The registry of the desktop's chat stores (getChatStore and             *)
(* shutdownChatStores in hooks/useChatSocket.ts): at most CHAT_STORE_LIMIT *)
(* stores, the least recently used idle one making room.  A store is one   *)
(* of ChatStore.tla; here it only runs or not.                             *)
(***************************************************************************)
EXTENDS Naturals, Sequences, FiniteSets

CONSTANTS ChatKeys,     \* session ids
          CommandDeck,  \* COMMAND_DECK_SESSION_ID
          StoreLimit,   \* CHAT_STORE_LIMIT
          ShownAtOnce   \* bound: stores subscribed at once (a screen, the deck)

ASSUME RegistryAssumption == /\ CommandDeck \in ChatKeys
                             /\ ShownAtOnce \in Nat
                             /\ StoreLimit \in Nat /\ StoreLimit > ShownAtOnce

VARIABLES rgStores,  \* chatStores, oldest first
          rgShown,   \* sessions whose store has a subscriber
          rgRunning  \* sessions with a store that is not stopped: it has a
                     \* subscriber, or waits for an answer

rgVars == <<rgStores, rgShown, rgRunning>>

Registered == {rgStores[i] : i \in 1..Len(rgStores)}

RegistryTypeOK == /\ rgStores \in Seq(ChatKeys)
                  /\ rgShown \subseteq ChatKeys
                  /\ rgRunning \subseteq ChatKeys

RegistryInit == rgStores = <<>> /\ rgShown = {} /\ rgRunning = {}

\* The deck is never pushed out, nor a store somebody looks at.
Evictable == {i \in 1..Len(rgStores) : rgStores[i] \notin rgShown \cup {CommandDeck}}

\* The oldest idle store, when a new one needs its room.
Evicted == IF Len(rgStores) < StoreLimit THEN {}
           ELSE {i \in Evictable : \A j \in Evictable : i <= j}

StoresWithout(i) == [k \in 1..(Len(rgStores) - 1) |-> IF k < i THEN rgStores[k] ELSE rgStores[k + 1]]

\* getChatStore(s), and the hook that subscribes: s becomes the youngest, a
\* new one shuts down the oldest idle one when the registry is full.
Use(s) ==
    LET gone == IF s \in Registered THEN {i \in 1..Len(rgStores) : rgStores[i] = s} ELSE Evicted
    IN  /\ Cardinality(rgShown \cup {s}) <= ShownAtOnce
        /\ rgStores' = Append(IF gone = {} THEN rgStores ELSE StoresWithout(CHOOSE i \in gone : TRUE), s)
        /\ rgShown' = rgShown \cup {s}
        /\ rgRunning' = (rgRunning \ {rgStores[i] : i \in gone}) \cup {s}

\* The hook unmounts: the store stops, or first waits for its answer.
Unmounts(s, thinking) ==
    /\ s \in rgShown
    /\ rgShown' = rgShown \ {s}
    /\ rgRunning' = IF thinking THEN rgRunning ELSE rgRunning \ {s}
    /\ UNCHANGED rgStores

LateAnswer(s) ==
    /\ s \in rgRunning \ rgShown
    /\ rgRunning' = rgRunning \ {s}
    /\ UNCHANGED <<rgStores, rgShown>>

\* Logout; the screens unmount with it.
ShutDownAll ==
    /\ rgStores' = <<>>
    /\ rgShown' = {}
    /\ rgRunning' = {}

RegistryNext == \/ \E s \in ChatKeys : \/ Use(s)
                                       \/ \E thinking \in BOOLEAN : Unmounts(s, thinking)
                                       \/ LateAnswer(s)
                \/ ShutDownAll

RegistrySpec == RegistryInit /\ [][RegistryNext]_rgVars

\* No connection escapes the registry: a store that runs is in it, once, so
\* that a logout reaches it, and an eviction always finds room although the
\* stores on screen and the deck's are spared.
NoStoreEscapes ==
    /\ rgShown \subseteq rgRunning /\ rgRunning \subseteq Registered
    /\ Cardinality(Registered) = Len(rgStores)
    /\ Len(rgStores) <= StoreLimit
=============================================================================
