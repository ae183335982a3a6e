------------------------- MODULE CapabilityHubProofs -------------------------
(***************************************************************************)
(* The hub's fencing, for any fleet, number of sockets, calls and permits. *)
(***************************************************************************)
EXTENDS CapabilityHub, TLAPS

\* What a socket's coroutine relies on: a generation marks the sockets that
\* registered, the node's counter bounds it, and a transport that still takes
\* frames belongs to the live connection or its close is due.
ConnInv ==
    \A c \in ConnIds :
        /\ stage[c] = "none" => node[c] = NoNode
        /\ stage[c] # "none" => node[c] \in Nodes
        /\ stage[c] \in {"none", "hello"} => gen[c] = 0 /\ ~closed[c]
        /\ stage[c] \in {"replacing", "registered", "serving", "leaving"} => gen[c] # 0
        /\ gen[c] # 0 => node[c] \in Nodes /\ gen[c] <= gens[node[c]]
        /\ gen[c] # 0 /\ sock[c] # "shut" => IsCurrent(c) \/ c \in closing

\* What a call's coroutine relies on: it was routed to a socket that
\* registered, its future exists from Begin on and has no result before the
\* frame is out, and as long as the socket is live the checks of Begin hold.
CallInv ==
    \A k \in Calls :
        /\ fut[k] = "pending" => cpc[k] \in {"sending", "waiting"}
        /\ cpc[k] \in {"new", "queued"} => fut[k] = "none"
        /\ cpc[k] = "sending" => fut[k] \in {"pending", "lost"}
        /\ k \in wired => cpc[k] \in {"waiting", "done"}
        /\ cpc[k] \in {"queued", "sending", "waiting"}
             => cconn[k] \in ConnIds /\ gen[cconn[k]] # 0
        /\ cpc[k] = "sending" /\ IsCurrent(cconn[k])
             => /\ active[node[cconn[k]]]
                /\ k \in ToolCalls => lends[node[cconn[k]]]

IInv == /\ TypeOK
        /\ ConnInv
        /\ CallInv
        /\ RegistryMirrorsConnections
        /\ GenerationFences
        /\ NoOrphanCall
        /\ ListedToolsAreLent
        /\ StoppedStaysEmpty

-----------------------------------------------------------------------------
(* Sockets: what their coroutines do alone.                                *)

(* The initial state satisfies the inductive invariant.                    *)
LEMMA InitInv == Init => IInv
<1> SUFFICES ASSUME Init PROVE IInv
  OBVIOUS
<1> USE HubAssumption DEF Init, ConnIds, NoConn
<1>1. TypeOK
  BY DEF TypeOK, Stages
<1>2. ConnInv /\ CallInv
  BY DEF ConnInv, CallInv
<1>3. RegistryMirrorsConnections /\ GenerationFences
  BY DEF RegistryMirrorsConnections, GenerationFences
<1>4. NoOrphanCall /\ ListedToolsAreLent /\ StoppedStaysEmpty
  BY DEF NoOrphanCall, ListedToolsAreLent, StoppedStaysEmpty
<1> QED BY <1>1, <1>2, <1>3, <1>4 DEF IInv

(* A heartbeat sent or answered changes pong only.                         *)
LEMMA PongInv ==
    ASSUME IInv, NEW c \in ConnIds, IdleTimeout(c) \/ Heartbeat(c)
    PROVE  IInv'
<1> USE DEF IdleTimeout, Heartbeat, AwaitingPong, IInv, IsCurrent, fleet, table, calls
<1>1. TypeOK'
  BY DEF TypeOK
<1>2. ConnInv' /\ CallInv'
  BY DEF ConnInv, CallInv
<1>3. RegistryMirrorsConnections' /\ GenerationFences'
  BY DEF RegistryMirrorsConnections, GenerationFences
<1>4. NoOrphanCall' /\ ListedToolsAreLent' /\ StoppedStaysEmpty'
  BY DEF NoOrphanCall, ListedToolsAreLent, StoppedStaysEmpty
<1> QED BY <1>1, <1>2, <1>3, <1>4

(* A registered socket goes on to serve or to leave; neither moves it out  *)
(* of the stages a live connection is in.                                  *)
LEMMA StageInv ==
    ASSUME IInv, NEW c \in ConnIds, Serve(c) \/ PongTimeout(c) \/ LoopEnds(c)
    PROVE  IInv'
<1> USE DEF Serve, PongTimeout, LoopEnds, Reads, IInv, IsCurrent, fleet, table, calls
<1>1. TypeOK'
  BY DEF TypeOK, Stages
<1>2. ConnInv' /\ CallInv'
  BY DEF ConnInv, CallInv, TypeOK, Stages
<1>3. RegistryMirrorsConnections' /\ GenerationFences'
  BY DEF RegistryMirrorsConnections, GenerationFences, TypeOK, Stages
<1>4. NoOrphanCall' /\ ListedToolsAreLent' /\ StoppedStaysEmpty'
  BY DEF NoOrphanCall, ListedToolsAreLent, StoppedStaysEmpty
<1> QED BY <1>1, <1>2, <1>3, <1>4

(* A transport that closes, is to be closed, or falls silent leaves the     *)
(* tables alone.                                                           *)
LEMMA TransportInv ==
    ASSUME IInv, NEW c \in ConnIds,
           \/ HelloRefused(c) \/ ProtocolError(c) \/ Close(c)
           \/ PeerGoes(c, "silent") \/ PeerGoes(c, "shut")
    PROVE  IInv'
<1> USE DEF HelloRefused, ProtocolError, Close, PeerGoes, Reads, ToClose, IInv, IsCurrent,
        fleet, table, calls
<1>1. TypeOK'
  BY DEF TypeOK, Stages
<1>2. ConnInv' /\ CallInv'
  BY DEF ConnInv, CallInv, TypeOK, Stages
<1>3. RegistryMirrorsConnections' /\ GenerationFences'
  BY DEF RegistryMirrorsConnections, GenerationFences, ConnInv, TypeOK, Stages
<1>4. NoOrphanCall' /\ ListedToolsAreLent' /\ StoppedStaysEmpty'
  BY DEF NoOrphanCall, ListedToolsAreLent, StoppedStaysEmpty
<1> QED BY <1>1, <1>2, <1>3, <1>4

(* A socket that opens has no generation and is nobody's connection.       *)
LEMMA ConnectInv ==
    ASSUME IInv, NEW c \in ConnIds, NEW n \in Nodes, Connect(c, n)
    PROVE  IInv'
<1> USE HubAssumption DEF Connect, IInv, IsCurrent, ConnIds, NoConn, fleet, table, calls
<1>1. TypeOK'
  BY DEF TypeOK, Stages
<1>2. ConnInv'
  BY DEF ConnInv, TypeOK, Stages
<1>3. CallInv'
  BY DEF ConnInv, CallInv, TypeOK
<1>4. RegistryMirrorsConnections'
  BY DEF RegistryMirrorsConnections, TypeOK, Stages
<1>5. GenerationFences'
  BY DEF GenerationFences, RegistryMirrorsConnections, ConnInv, TypeOK
<1>6. NoOrphanCall'
  BY DEF NoOrphanCall, CallInv, ConnInv, TypeOK
<1>7. ListedToolsAreLent' /\ StoppedStaysEmpty'
  BY DEF ListedToolsAreLent, StoppedStaysEmpty
<1> QED BY <1>1, <1>2, <1>3, <1>4, <1>5, <1>6, <1>7

(* A hello: the new connection has a fresh generation, and the one it      *)
(* replaces is closed with its futures settled and its transport to close. *)
LEMMA HelloInv ==
    ASSUME IInv, NEW c \in ConnIds, NEW t \in BOOLEAN, Hello(c, t)
    PROVE  IInv'
<1> DEFINE n == node[c]
           old == {connOf[n]} \ {NoConn}
<1> USE HubAssumption DEF Hello, IInv, MayRegister, NextGeneration, OfferedInventory, LendsTool,
        fleet
<1>1. n \in Nodes /\ gen[c] = 0 /\ ~closed[c]
  BY DEF ConnInv
<1>10. \A m \in Nodes : connOf[m] # c
  BY DEF RegistryMirrorsConnections, ConnIds, NoConn
<1>2. \A d \in ConnIds : IsCurrent(d)' <=> d = c \/ (IsCurrent(d) /\ d \notin old)
  BY <1>1, <1>10 DEF IsCurrent, ConnInv, RegistryMirrorsConnections, TypeOK, ConnIds, NoConn
<1>3. TypeOK'
  BY <1>1 DEF TypeOK, Stages, FailPending, ToClose
<1>4. ConnInv'
  <2>1. ASSUME NEW d \in ConnIds, gen'[d] # 0, sock'[d] # "shut"
        PROVE  IsCurrent(d)' \/ d \in closing'
    BY <1>1, <1>2, <2>1 DEF ConnInv, ToClose, TypeOK
  <2>2. ASSUME NEW d \in ConnIds, gen'[d] # 0
        PROVE  node[d] \in Nodes /\ gen'[d] <= gens'[node[d]]
    <3>1. CASE d = c
      BY <3>1, <1>1 DEF TypeOK
    <3>2. CASE d # c
      BY <3>2, <2>2, <1>1 DEF ConnInv, TypeOK
    <3> QED BY <3>1, <3>2
  <2>3. ASSUME NEW d \in ConnIds, stage'[d] \in {"replacing", "registered", "serving", "leaving"}
        PROVE  gen'[d] # 0
    BY <2>3, <1>1 DEF ConnInv, TypeOK
  <2>4. ASSUME NEW d \in ConnIds, stage'[d] \in {"none", "hello"}
        PROVE  gen'[d] = 0 /\ ~closed'[d]
    BY <2>4, <1>1 DEF ConnInv, TypeOK, RegistryMirrorsConnections
  <2>5. ASSUME NEW d \in ConnIds
        PROVE  /\ stage'[d] = "none" => node'[d] = NoNode
               /\ stage'[d] # "none" => node'[d] \in Nodes
    BY DEF ConnInv, TypeOK
  <2> QED BY <2>1, <2>2, <2>3, <2>4, <2>5 DEF ConnInv
<1>5. CallInv'
  BY <1>1, <1>2 DEF CallInv, FailPending, TypeOK
<1>6. RegistryMirrorsConnections'
  BY <1>1 DEF RegistryMirrorsConnections, TypeOK, ConnIds, NoConn
<1>7. GenerationFences'
  BY <1>1 DEF GenerationFences, ConnInv, RegistryMirrorsConnections, TypeOK, ConnIds, NoConn
<1>8. NoOrphanCall'
  BY <1>1, <1>2 DEF NoOrphanCall, CallInv, FailPending, TypeOK
<1>9. ListedToolsAreLent' /\ StoppedStaysEmpty'
  BY <1>1 DEF ListedToolsAreLent, StoppedStaysEmpty, TypeOK
<1> QED BY <1>3, <1>4, <1>5, <1>6, <1>7, <1>8, <1>9

-----------------------------------------------------------------------------
(* Calls.                                                                  *)

(* Only the four state variables of the calls move: what must be kept.     *)
LEMMA CallsOnly ==
    ASSUME IInv, UNCHANGED <<fleet, table, conns>>,
           TypeOK', CallInv', NoOrphanCall'
    PROVE  IInv'
BY DEF IInv, ConnInv, RegistryMirrorsConnections, GenerationFences, ListedToolsAreLent,
       StoppedStaysEmpty, IsCurrent, fleet, table, conns

(* The executor a tool call resolves to is a connection that registered.   *)
LEMMA DispatchInv ==
    ASSUME IInv, NEW k \in Calls, Dispatch(k)
    PROVE  IInv'
<1> USE DEF IInv
<1>1. UNCHANGED <<fleet, table, conns>>
  BY DEF Dispatch
<1>2. CASE /\ cpc' = [cpc EXCEPT ![k] = "done"]
           /\ fut' = [fut EXCEPT ![k] = "lost"]
           /\ UNCHANGED <<cconn, wired>>
  <2>1. TypeOK' /\ CallInv' /\ NoOrphanCall'
    BY <1>1, <1>2 DEF TypeOK, CallInv, NoOrphanCall, IsCurrent, fleet, table, conns
  <2> QED BY <1>1, <2>1, CallsOnly
<1>3. ASSUME NEW n \in Nodes, executor[n] # NoConn,
             cpc' = [cpc EXCEPT ![k] = "queued"],
             cconn' = [cconn EXCEPT ![k] = executor[n]],
             UNCHANGED <<fut, wired>>, cpc[k] = "new"
      PROVE  IInv'
  <2>1. executor[n] \in ConnIds /\ gen[executor[n]] # 0
    BY <1>3 DEF TypeOK, RegistryMirrorsConnections, ConnInv
  <2>2. TypeOK'
    BY <1>1, <1>3 DEF TypeOK, fleet, table, conns
  <2>3. fut[k] # "pending"
    BY <1>3 DEF CallInv
  <2>4. CallInv' /\ NoOrphanCall'
    BY <1>1, <1>3, <2>1, <2>3 DEF CallInv, NoOrphanCall, TypeOK, IsCurrent, fleet, table, conns
  <2> QED BY <1>1, <2>2, <2>4, CallsOnly
<1>4. \/ /\ cpc' = [cpc EXCEPT ![k] = "done"]
         /\ fut' = [fut EXCEPT ![k] = "lost"]
         /\ UNCHANGED <<cconn, wired>>
      \/ /\ cpc[k] = "new"
         /\ UNCHANGED <<fut, wired>>
         /\ \E n \in Nodes : /\ executor[n] # NoConn
                             /\ cpc' = [cpc EXCEPT ![k] = "queued"]
                             /\ cconn' = [cconn EXCEPT ![k] = executor[n]]
  BY DEF Dispatch
<1> QED BY <1>2, <1>3, <1>4

(* The checks made under the permit are what a call in flight relies on.   *)
LEMMA BeginInv ==
    ASSUME IInv, NEW k \in Calls, Begin(k)
    PROVE  IInv'
<1> USE DEF IInv
<1>1. UNCHANGED <<fleet, table, conns, cconn, wired>> /\ cpc[k] = "queued"
  BY DEF Begin
<1>2. CASE StillServes(cconn[k])
  <2>1. /\ cpc' = [cpc EXCEPT ![k] = "sending"]
        /\ fut' = [fut EXCEPT ![k] = "pending"]
    BY <1>2 DEF Begin
  <2>2. TypeOK' /\ CallInv' /\ NoOrphanCall'
    BY <1>1, <1>2, <2>1
       DEF TypeOK, CallInv, NoOrphanCall, StillServes, LendsTool, IsCurrent, fleet, table, conns
  <2> QED BY <1>1, <2>2, CallsOnly
<1>3. CASE ~StillServes(cconn[k])
  <2>1. /\ cpc' = [cpc EXCEPT ![k] = "done"]
        /\ fut' = [fut EXCEPT ![k] = "lost"]
    BY <1>3 DEF Begin
  <2>2. TypeOK' /\ CallInv' /\ NoOrphanCall'
    BY <1>1, <2>1 DEF TypeOK, CallInv, NoOrphanCall, IsCurrent, fleet, table, conns
  <2> QED BY <1>1, <2>2, CallsOnly
<1> QED BY <1>2, <1>3

(* A synthesis starts on a live connection, which has a generation.        *)
LEMMA BeginSynthesisInv ==
    ASSUME IInv, NEW k \in Calls, NEW c \in ConnIds, BeginSynthesis(k, c)
    PROVE  IInv'
<1> USE HubAssumption DEF IInv, BeginSynthesis
<1>1. gen[c] # 0
  BY DEF IsCurrent, RegistryMirrorsConnections, ConnInv, ConnIds, NoConn
<1>2. TypeOK'
  BY DEF TypeOK, fleet, table, conns
<1>3. CallInv' /\ NoOrphanCall'
  BY <1>1 DEF CallInv, NoOrphanCall, TypeOK, ToolCalls, IsCurrent, fleet, table, conns
<1> QED BY <1>2, <1>3, CallsOnly

(* Sending, and every way a call ends, leaves no future that is not on a   *)
(* live connection.                                                        *)
LEMMA CallEndsInv ==
    ASSUME IInv, NEW k \in Calls,
           Send(k) \/ SendFails(k) \/ CallTimeout(k) \/ Return(k)
    PROVE  IInv'
<1> USE DEF IInv, Send, SendFails, CallTimeout, Return, TimesOut
<1>1. UNCHANGED <<fleet, table, conns>>
  OBVIOUS
<1>2. TypeOK'
  BY DEF TypeOK, fleet, table, conns
<1>3. CallInv' /\ NoOrphanCall'
  BY <1>1 DEF CallInv, NoOrphanCall, TypeOK, IsCurrent, fleet, table, conns
<1> QED BY <1>1, <1>2, <1>3, CallsOnly

(* A result settles a pending future.                                      *)
LEMMA ResultInv ==
    ASSUME IInv, NEW c \in ConnIds, NEW k \in Calls, Result(c, k)
    PROVE  IInv'
<1> USE DEF IInv, Result
<1>1. TypeOK'
  BY DEF TypeOK, fleet, table, conns
<1>2. CallInv' /\ NoOrphanCall'
  BY DEF CallInv, NoOrphanCall, TypeOK, IsCurrent, fleet, table, conns
<1> QED BY <1>1, <1>2, CallsOnly

-----------------------------------------------------------------------------
(* Detaching.                                                              *)

\* The connections the hub holds, and what detaching does not write.
Held == {connOf[n] : n \in Nodes} \ {NoConn}
Kept == <<gens, node, gen, inv, pong, sock, cpc, cconn, wired>>

(* Detaching connections the hub holds: exactly those stop being current,  *)
(* and what remains of the invariant holds again.  stage may move between  *)
(* the stages after registration.                                          *)
LEMMA DetachFacts ==
    ASSUME IInv, NEW C \in SUBSET Held, Detach(C), UNCHANGED Kept,
           stage' \in [ConnIds -> Stages],
           \A c \in ConnIds : \/ stage'[c] = stage[c]
                              \/ stage[c] = "leaving" /\ stage'[c] = "done"
                                 /\ (connOf[node[c]] # c \/ c \in C)
    PROVE  /\ \A c \in ConnIds : node[c] \in Nodes => (IsCurrent(c)' <=> IsCurrent(c) /\ c \notin C)
           /\ ConnInv' /\ RegistryMirrorsConnections' /\ GenerationFences' /\ NoOrphanCall'
           /\ \A n \in Nodes : listed'[n] => listed[n]
           /\ \A n \in Nodes : connOf'[n] = connOf[n] \/ connOf'[n] = NoConn
           /\ \A k \in Calls : fut'[k] = fut[k] \/ (fut[k] = "pending" /\ fut'[k] = "lost")
<1> USE HubAssumption DEF IInv, Detach, Kept
<1>1. \A n \in Nodes : connOf'[n] = IF connOf[n] \in C THEN NoConn ELSE connOf[n]
  OBVIOUS
<1>2. C \subseteq ConnIds /\ NoConn \notin C
  BY DEF Held, TypeOK, ConnIds, NoConn
<1>3. \A c \in ConnIds : node[c] \in Nodes => (IsCurrent(c)' <=> IsCurrent(c) /\ c \notin C)
  BY <1>1, <1>2 DEF IsCurrent, TypeOK, ConnIds, NoConn
<1>4. \A c \in C : stage[c] \in {"replacing", "registered", "serving", "leaving"} /\ node[c] \in Nodes
  BY <1>2 DEF Held, RegistryMirrorsConnections
<1>5. ConnInv'
  <2>1. ASSUME NEW c \in ConnIds
        PROVE  /\ stage'[c] = "none" => node'[c] = NoNode
               /\ stage'[c] # "none" => node'[c] \in Nodes
               /\ stage'[c] \in {"none", "hello"} => gen'[c] = 0 /\ ~closed'[c]
               /\ stage'[c] \in {"replacing", "registered", "serving", "leaving"} => gen'[c] # 0
               /\ gen'[c] # 0 => node'[c] \in Nodes /\ gen'[c] <= gens'[node'[c]]
    BY <1>2, <1>4 DEF ConnInv, TypeOK
  <2>2. ASSUME NEW c \in ConnIds, gen'[c] # 0, sock'[c] # "shut"
        PROVE  IsCurrent(c)' \/ c \in closing'
    BY <1>3, <2>2 DEF ConnInv, ToClose, TypeOK
  <2> QED BY <2>1, <2>2 DEF ConnInv
<1>6. RegistryMirrorsConnections'
  BY <1>1, <1>2 DEF RegistryMirrorsConnections, Unlisted, TypeOK, ConnIds, NoConn
<1>7. GenerationFences'
  BY <1>1 DEF GenerationFences, TypeOK, NoConn
<1>8. \A k \in Calls : fut'[k] = IF cconn[k] \in C /\ fut[k] = "pending" THEN "lost" ELSE fut[k]
  BY DEF FailPending
<1>9. NoOrphanCall'
  BY <1>3, <1>8 DEF NoOrphanCall, CallInv, ConnInv, TypeOK
<1> QED BY <1>1, <1>3, <1>5, <1>6, <1>7, <1>8, <1>9 DEF Unlisted

(* The same, when the policy a call in flight was admitted under still     *)
(* stands for every connection that stays.                                 *)
LEMMA DetachCalls ==
    ASSUME IInv, NEW C \in SUBSET Held, Detach(C), UNCHANGED Kept,
           \A c \in ConnIds : node[c] \in Nodes => (IsCurrent(c)' <=> IsCurrent(c) /\ c \notin C),
           \A c \in ConnIds \ C : IsCurrent(c) /\ node[c] \in Nodes =>
                active'[node[c]] = active[node[c]] /\ lends'[node[c]] = lends[node[c]]
    PROVE  CallInv'
<1> USE DEF IInv, Detach, Kept
<1>1. \A k \in Calls : fut'[k] = fut[k] \/ (fut[k] = "pending" /\ fut'[k] = "lost")
  BY DEF FailPending
<1>2. \A k \in Calls : cpc[k] \in {"queued", "sending", "waiting"} => node[cconn[k]] \in Nodes
  BY DEF CallInv, ConnInv
<1> QED BY <1>1, <1>2 DEF CallInv

(* The types the detaching actions share.                                  *)
LEMMA DetachTypes ==
    ASSUME IInv, NEW C \in SUBSET Held, Detach(C), UNCHANGED Kept,
           stage' \in [ConnIds -> Stages],
           enabled' \in BOOLEAN, stopping' \in BOOLEAN, sweep' \in SUBSET Nodes,
           lends' \in [Nodes -> BOOLEAN], active' \in [Nodes -> BOOLEAN]
    PROVE  TypeOK'
<1> USE DEF IInv, Detach, Kept, TypeOK
<1>1. closed' \in [ConnIds -> BOOLEAN]
  OBVIOUS
<1>5. closing' \in SUBSET ConnIds
  <2>1. \A n \in Nodes : connOf[n] \in ConnIds \cup {NoConn}
    OBVIOUS
  <2>2. C \subseteq ConnIds
    BY <2>1 DEF Held
  <2> QED BY <2>2 DEF ToClose
<1>2. connOf' \in [Nodes -> ConnIds \cup {NoConn}] /\ executor' \in [Nodes -> ConnIds \cup {NoConn}]
  OBVIOUS
<1>3. listed' \in [Nodes -> BOOLEAN]
  BY DEF Unlisted
<1>4. fut' \in [Calls -> {"none", "pending", "result", "lost"}]
  BY DEF FailPending
<1> QED BY <1>1, <1>2, <1>3, <1>4, <1>5

(* One connection, or none, is detached by a disconnect.                   *)
LEMMA OneHeld ==
    ASSUME NEW n \in Nodes
    PROVE  {connOf[n]} \ {NoConn} \in SUBSET Held
BY DEF Held

(* A coroutine that leaves detaches its connection if it still is one.     *)
LEMMA LeaveInv ==
    ASSUME IInv, NEW c \in ConnIds, Leave(c)
    PROVE  IInv'
<1> USE DEF IInv
<1>1. /\ UNCHANGED <<fleet, Kept>>
      /\ stage[c] = "leaving"
      /\ stage' = [stage EXCEPT ![c] = "done"]
      /\ node[c] \in Nodes
  BY DEF Leave, Kept, ConnInv
<1>2. stage' \in [ConnIds -> Stages]
  BY <1>1 DEF TypeOK, Stages
<1>3. CASE connOf[node[c]] = c
  <2>1. {c} \in SUBSET Held /\ Detach({c})
    BY <1>1, <1>3 DEF Leave, Held, ConnIds, NoConn
  <2>2. \A d \in ConnIds : \/ stage'[d] = stage[d]
                           \/ stage[d] = "leaving" /\ stage'[d] = "done"
                              /\ (connOf[node[d]] # d \/ d \in {c})
    BY <1>1 DEF TypeOK
  <2>3. TypeOK'
    BY <1>1, <1>2, <2>1, DetachTypes DEF TypeOK, fleet
  <2>4. /\ \A d \in ConnIds : node[d] \in Nodes => (IsCurrent(d)' <=> IsCurrent(d) /\ d \notin {c})
        /\ ConnInv' /\ RegistryMirrorsConnections' /\ GenerationFences' /\ NoOrphanCall'
        /\ \A n \in Nodes : listed'[n] => listed[n]
        /\ \A n \in Nodes : connOf'[n] = connOf[n] \/ connOf'[n] = NoConn
    BY <1>1, <1>2, <2>1, <2>2, DetachFacts
  <2>5. CallInv'
    BY <1>1, <2>1, <2>4, DetachCalls DEF fleet
  <2>6. ListedToolsAreLent' /\ StoppedStaysEmpty'
    BY <1>1, <2>4 DEF ListedToolsAreLent, StoppedStaysEmpty, fleet
  <2> QED BY <2>3, <2>4, <2>5, <2>6
<1>4. CASE connOf[node[c]] # c
  <2>1. UNCHANGED <<closed, connOf, executor, listed, fut, closing>>
    BY <1>4 DEF Leave
  <2> USE <1>1, <1>2, <2>1 DEF fleet, Kept, IsCurrent
  <2>2. TypeOK'
    BY DEF TypeOK
  <2>3. ConnInv' /\ CallInv' /\ NoOrphanCall'
    BY DEF ConnInv, CallInv, NoOrphanCall, TypeOK
  <2>4. RegistryMirrorsConnections' /\ GenerationFences'
    BY <1>4 DEF RegistryMirrorsConnections, GenerationFences, TypeOK
  <2>5. ListedToolsAreLent' /\ StoppedStaysEmpty'
    BY DEF ListedToolsAreLent, StoppedStaysEmpty
  <2> QED BY <2>2, <2>3, <2>4, <2>5
<1> QED BY <1>3, <1>4

(* A policy update, a revocation and a step of the sweep disconnect the    *)
(* node they are about: no other node's policy moves.                      *)
LEMMA DisconnectInv ==
    ASSUME IInv, NEW n \in Nodes,
           UpdatePolicy(n) \/ RevokeDevice(n) \/ SweepNode(n)
    PROVE  IInv'
<1> DEFINE C == {connOf[n]} \ {NoConn}
<1> USE DEF IInv
<1>1. Detach(C) /\ UNCHANGED <<Kept, stage, enabled, stopping>>
  BY DEF UpdatePolicy, RevokeDevice, SweepNode, ReRegister, DisconnectNode, Kept
<1>2. /\ lends' \in [Nodes -> BOOLEAN] /\ active' \in [Nodes -> BOOLEAN]
      /\ sweep' \in SUBSET Nodes
      /\ \A m \in Nodes : m # n => /\ lends'[m] = lends[m] /\ active'[m] = active[m]
                                   /\ m \in sweep => m \in sweep'
  BY DEF UpdatePolicy, RevokeDevice, SweepNode, TypeOK
<1>3. C \in SUBSET Held
  BY OneHeld
<1>4. /\ \A c \in ConnIds : node[c] \in Nodes => (IsCurrent(c)' <=> IsCurrent(c) /\ c \notin C)
      /\ ConnInv' /\ RegistryMirrorsConnections' /\ GenerationFences' /\ NoOrphanCall'
      /\ \A m \in Nodes : listed'[m] => listed[m]
      /\ \A m \in Nodes : connOf'[m] = connOf[m] \/ connOf'[m] = NoConn
  <2>1. stage' \in [ConnIds -> Stages] /\ stage' = stage
    BY <1>1 DEF TypeOK
  <2> HIDE DEF C
  <2> QED BY <1>1, <1>3, <2>1, DetachFacts
<1>5. TypeOK'
  BY <1>1, <1>2, <1>3, DetachTypes DEF TypeOK
<1>6. \A c \in ConnIds \ C : IsCurrent(c) /\ node[c] \in Nodes => node[c] # n
  BY HubAssumption DEF IsCurrent, ConnIds, NoConn
<1>7. CallInv'
  <2>1. \A c \in ConnIds \ C : IsCurrent(c) /\ node[c] \in Nodes =>
            active'[node[c]] = active[node[c]] /\ lends'[node[c]] = lends[node[c]]
    BY <1>2, <1>6
  <2> HIDE DEF C
  <2> QED BY <1>1, <1>3, <1>4, <2>1, DetachCalls
<1>8. ~listed'[n]
  BY <1>1 DEF Detach, Unlisted, RegistryMirrorsConnections
<1>9. ListedToolsAreLent' /\ StoppedStaysEmpty'
  BY <1>1, <1>2, <1>4, <1>8 DEF ListedToolsAreLent, StoppedStaysEmpty
<1> QED BY <1>4, <1>5, <1>7, <1>9

(* Shutdown detaches every connection at once.                             *)
LEMMA StopInv ==
    ASSUME IInv, Stop
    PROVE  IInv'
<1> USE DEF IInv
<1>1. /\ Detach(Held)
      /\ UNCHANGED <<Kept, stage, enabled, lends, active, sweep>>
      /\ stopping' = TRUE
  BY DEF Stop, Held, Kept
<1>2. stage' \in [ConnIds -> Stages] /\ stage' = stage
  BY <1>1 DEF TypeOK
<1>3. TypeOK'
  BY <1>1, <1>2, DetachTypes DEF TypeOK
<1>4. /\ \A c \in ConnIds : node[c] \in Nodes => (IsCurrent(c)' <=> IsCurrent(c) /\ c \notin Held)
      /\ ConnInv' /\ RegistryMirrorsConnections' /\ GenerationFences' /\ NoOrphanCall'
      /\ \A m \in Nodes : listed'[m] => listed[m]
  BY <1>1, <1>2, DetachFacts
<1>5. CallInv'
  BY <1>1, <1>4, DetachCalls
<1>6. ListedToolsAreLent' /\ StoppedStaysEmpty'
  BY <1>1, <1>4 DEF ListedToolsAreLent, StoppedStaysEmpty, Detach, Held
<1> QED BY <1>3, <1>4, <1>5, <1>6

(* The switch itself moves only the switch and the list of the sweep.      *)
LEMMA SwitchInv ==
    ASSUME IInv, DisableFleet \/ EnableFleet
    PROVE  IInv'
<1> USE DEF DisableFleet, Connected, EnableFleet, IInv, IsCurrent, table, conns, calls
<1>1. TypeOK'
  BY DEF TypeOK
<1>2. ConnInv' /\ CallInv' /\ NoOrphanCall'
  BY DEF ConnInv, CallInv, NoOrphanCall
<1>3. RegistryMirrorsConnections' /\ GenerationFences'
  BY DEF RegistryMirrorsConnections, GenerationFences
<1>4. ListedToolsAreLent' /\ StoppedStaysEmpty'
  BY DEF ListedToolsAreLent, StoppedStaysEmpty, RegistryMirrorsConnections
<1> QED BY <1>1, <1>2, <1>3, <1>4

-----------------------------------------------------------------------------
(* The theorems.                                                           *)

(* Every step of the hub keeps the inductive invariant.                    *)
LEMMA NextInv ==
    ASSUME IInv, [Next]_vars
    PROVE  IInv'
<1>1. CASE UNCHANGED vars
  <2> USE <1>1 DEF vars, fleet, table, conns, calls, IInv, IsCurrent
  <2>1. TypeOK' /\ ConnInv' /\ CallInv' /\ NoOrphanCall'
    BY DEF TypeOK, ConnInv, CallInv, NoOrphanCall
  <2>2. RegistryMirrorsConnections' /\ GenerationFences'
    BY DEF RegistryMirrorsConnections, GenerationFences
  <2>3. ListedToolsAreLent' /\ StoppedStaysEmpty'
    BY DEF ListedToolsAreLent, StoppedStaysEmpty
  <2> QED BY <2>1, <2>2, <2>3
<1>2. ASSUME NEW c \in ConnIds, NEW n \in Nodes, Connect(c, n) PROVE IInv'
  BY <1>2, ConnectInv
<1>3. ASSUME NEW c \in ConnIds, NEW t \in BOOLEAN, Hello(c, t) PROVE IInv'
  BY <1>3, HelloInv
<1>4. ASSUME NEW c \in ConnIds, NEW how \in {"silent", "shut"}, PeerGoes(c, how) PROVE IInv'
  BY <1>4, TransportInv
<1>5. ASSUME NEW c \in ConnIds, NEW k \in Calls, Result(c, k) \/ BeginSynthesis(k, c)
      PROVE  IInv'
  BY <1>5, ResultInv, BeginSynthesisInv
<1>6. ASSUME NEW c \in ConnIds, HelloRefused(c) \/ ProtocolError(c) \/ Close(c)
      PROVE  IInv'
  BY <1>6, TransportInv
<1>7. ASSUME NEW c \in ConnIds, Serve(c) \/ PongTimeout(c) \/ LoopEnds(c) PROVE IInv'
  BY <1>7, StageInv
<1>8. ASSUME NEW c \in ConnIds, IdleTimeout(c) \/ Heartbeat(c) PROVE IInv'
  BY <1>8, PongInv
<1>9. ASSUME NEW c \in ConnIds, Leave(c) PROVE IInv'
  BY <1>9, LeaveInv
<1>10. ASSUME NEW k \in Calls, Dispatch(k) \/ Begin(k) PROVE IInv'
  BY <1>10, DispatchInv, BeginInv
<1>11. ASSUME NEW k \in Calls, Send(k) \/ SendFails(k) \/ CallTimeout(k) \/ Return(k)
       PROVE  IInv'
  BY <1>11, CallEndsInv
<1>12. ASSUME NEW n \in Nodes, UpdatePolicy(n) \/ RevokeDevice(n) \/ SweepNode(n)
       PROVE  IInv'
  BY <1>12, DisconnectInv
<1>13. CASE Stop
  BY <1>13, StopInv
<1>14. CASE DisableFleet \/ EnableFleet
  BY <1>14, SwitchInv
<1> QED
  BY <1>1, <1>2, <1>3, <1>4, <1>5, <1>6, <1>7, <1>8, <1>9, <1>10, <1>11, <1>12, <1>13, <1>14
     DEF Next

(* The inductive invariant holds of every behaviour of the hub.            *)
THEOREM Invariance == Spec => []IInv
BY InitInv, NextInv, PTL DEF Spec

(* The hub's variables keep the types its code gives them.                 *)
THEOREM TypeCorrect == Spec => []TypeOK
<1>1. IInv => TypeOK
  BY DEF IInv
<1> QED BY <1>1, Invariance, PTL

(* The MCP manager's provider of a node is the hub's live connection.      *)
THEOREM Mirroring == Spec => []RegistryMirrorsConnections
<1>1. IInv => RegistryMirrorsConnections
  BY DEF IInv
<1> QED BY <1>1, Invariance, PTL

(* A generation is never reused, and the live connection has the latest.   *)
THEOREM Fencing == Spec => []GenerationFences
<1>1. IInv => GenerationFences
  BY DEF IInv
<1> QED BY <1>1, Invariance, PTL

(* No future waits on a connection that was detached.                      *)
THEOREM NoOrphans == Spec => []NoOrphanCall
<1>1. IInv => NoOrphanCall
  BY DEF IInv
<1> QED BY <1>1, Invariance, PTL

(* A tool the model sees is lent by the node's policy.                     *)
THEOREM PolicyRespected == Spec => []ListedToolsAreLent
<1>1. IInv => ListedToolsAreLent
  BY DEF IInv
<1> QED BY <1>1, Invariance, PTL

(* A stopped hub has no connection and takes none.                         *)
THEOREM StaysStopped == Spec => []StoppedStaysEmpty
<1>1. IInv => StoppedStaysEmpty
  BY DEF IInv
<1> QED BY <1>1, Invariance, PTL

(* Only Send puts a call on the wire, over a transport that still takes    *)
(* frames: that of the live connection, on which what the call was         *)
(* admitted under still stands, or one whose close is due.  The latter is   *)
(* not live, so that no future waits on it.                                *)
THEOREM WithdrawnCallsFailed == Spec => WithdrawnCallsHaveFailed
<1> DEFINE Covered(k) == MaySend(k) \/ (cconn[k] \in closing /\ fut[k] = "lost")
<1>1. ASSUME IInv, [Next]_vars
      PROVE  [\A k \in wired' \ wired : Covered(k)]_vars
  <2>1. ASSUME NEW k \in Calls, Send(k)
        PROVE  \A j \in wired' \ wired : Covered(j)
    <3>1. \A j \in wired' \ wired : j = k
      BY <2>1 DEF Send
    <3>2. cpc[k] = "sending" /\ (IsCurrent(cconn[k]) \/ cconn[k] \in closing)
      BY <1>1, <2>1 DEF Send, IInv, CallInv, ConnInv
    <3>3. CASE IsCurrent(cconn[k])
      BY <1>1, <3>1, <3>2, <3>3 DEF IInv, CallInv, MaySend
    <3>4. CASE ~IsCurrent(cconn[k])
      BY <1>1, <3>1, <3>2, <3>4 DEF IInv, CallInv, NoOrphanCall
    <3> QED BY <3>3, <3>4
  <2>2. \/ UNCHANGED vars
        \/ \E k \in Calls : Send(k)
        \/ UNCHANGED wired
    BY <1>1
       DEF Next, Connect, Hello, PeerGoes, Result, BeginSynthesis, HelloRefused, Close, Serve,
           Leave, IdleTimeout, Heartbeat, PongTimeout, LoopEnds, ProtocolError, Dispatch, Begin,
           SendFails, CallTimeout, Return, UpdatePolicy, RevokeDevice, SweepNode, DisableFleet,
           EnableFleet, Stop, calls
  <2> QED BY <2>1, <2>2
<1> QED BY <1>1, Invariance, PTL DEF Spec, WithdrawnCallsHaveFailed

(* A settled future stays settled, and only a live connection settles one  *)
(* with a result.                                                          *)
THEOREM FreshResults == Spec => ResultsAreFresh
<1> DEFINE Fresh(k) == /\ fut[k] \in {"result", "lost"} => fut'[k] = fut[k]
                       /\ fut[k] = "pending" /\ fut'[k] = "result" => IsCurrent(cconn[k])
<1>1. ASSUME IInv, [Next]_vars
      PROVE  [\A k \in Calls : Fresh(k)]_vars
  <2> USE <1>1 DEF IInv
  <2>1. CASE \A k \in Calls : fut'[k] = fut[k] \/ (fut[k] = "pending" /\ fut'[k] = "lost")
    BY <2>1
  <2>2. ASSUME NEW j \in Calls, fut[j] # "result",
               \/ fut[j] = "none"
               \/ fut' = [fut EXCEPT ![j] = "lost"]
               \/ fut[j] = "pending",
               \E v \in {"none", "pending", "result", "lost"} : fut' = [fut EXCEPT ![j] = v]
        PROVE  \A k \in Calls : Fresh(k)
    BY <2>2 DEF NoOrphanCall, TypeOK
  <2>3. ASSUME NEW C, fut' = FailPending(C)
        PROVE  \A k \in Calls : fut'[k] = fut[k] \/ (fut[k] = "pending" /\ fut'[k] = "lost")
    BY <2>3 DEF FailPending
  <2>4. ASSUME NEW c \in ConnIds, NEW k \in Calls, Result(c, k) \/ BeginSynthesis(k, c)
        PROVE  \A j \in Calls : Fresh(j)
    BY <2>2, <2>4 DEF Result, BeginSynthesis, CallInv
  <2>5. ASSUME NEW k \in Calls,
               Dispatch(k) \/ Begin(k) \/ SendFails(k) \/ CallTimeout(k)
        PROVE  \A j \in Calls : Fresh(j)
    <3>1. \/ UNCHANGED fut
          \/ fut[k] # "result" /\ fut' = [fut EXCEPT ![k] = "lost"]
          \/ fut[k] = "none" /\ fut' = [fut EXCEPT ![k] = "pending"]
      BY <2>5 DEF Dispatch, Begin, SendFails, CallTimeout, TimesOut, CallInv
    <3> QED BY <2>1, <2>2, <3>1
  <2>6. ASSUME NEW c \in ConnIds, NEW t \in BOOLEAN, Hello(c, t) \/ Leave(c)
        PROVE  \A j \in Calls : Fresh(j)
    BY <2>1, <2>3, <2>6 DEF Hello, Leave, Detach
  <2>7. ASSUME NEW n \in Nodes, UpdatePolicy(n) \/ RevokeDevice(n) \/ SweepNode(n)
        PROVE  \A j \in Calls : Fresh(j)
    BY <2>1, <2>3, <2>7
       DEF UpdatePolicy, RevokeDevice, SweepNode, ReRegister, DisconnectNode, Detach
  <2>8. CASE Stop
    BY <2>1, <2>3, <2>8 DEF Stop, Detach
  <2>9. CASE UNCHANGED fut
    BY <2>1, <2>9
  <2>10. \/ \E c \in ConnIds, k \in Calls : Result(c, k) \/ BeginSynthesis(k, c)
         \/ \E k \in Calls : Dispatch(k) \/ Begin(k) \/ SendFails(k) \/ CallTimeout(k)
         \/ \E c \in ConnIds, t \in BOOLEAN : Hello(c, t) \/ Leave(c)
         \/ \E n \in Nodes : UpdatePolicy(n) \/ RevokeDevice(n) \/ SweepNode(n)
         \/ Stop
         \/ UNCHANGED fut
    BY DEF Next, vars, calls, Connect, PeerGoes, HelloRefused, Close, Serve, IdleTimeout,
           Heartbeat, PongTimeout, LoopEnds, ProtocolError, Send, Return, DisableFleet, EnableFleet
  <2> QED BY <2>4, <2>5, <2>6, <2>7, <2>8, <2>9, <2>10
<1> QED BY <1>1, Invariance, PTL DEF Spec, ResultsAreFresh
=============================================================================
