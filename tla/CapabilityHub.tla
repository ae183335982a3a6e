---------------------------- MODULE CapabilityHub ----------------------------
(***************************************************************************)
(* src/dax/capabilities/hub.py: one generation-fenced socket per enrolled  *)
(* node, the dynamic tool provider it registers with the MCP manager, and  *)
(* the calls routed over it.  Everything runs on one event loop: an action *)
(* is what happens between two awaits.  Wake leases are in VoiceTurn.      *)
(*                                                                         *)
(* Frames are written and sockets closed under asyncio.wait_for, which     *)
(* (Python 3.11) makes each a task of its own: what was decided in one     *)
(* turn of the loop reaches the transport in a later one.                  *)
(*                                                                         *)
(* A node's inventory is one tool that its policy lends or not; a call's   *)
(* arguments and result are left out.                                      *)
(***************************************************************************)
EXTENDS Naturals, FiniteSets

CONSTANTS Nodes,          \* enrolled device ids of kind capability node
          NoNode,         \* the node of a socket nobody opened yet
          MaxConns,       \* bound: sockets opened in one behaviour
          Calls,          \* calls made in one behaviour
          TtsCalls,       \* those of them that are synthesis requests
          MaxConcurrent   \* _MAX_CONCURRENT_CALLS

ASSUME HubAssumption == /\ NoNode \notin Nodes
                        /\ MaxConns \in Nat
                        /\ TtsCalls \subseteq Calls
                        /\ MaxConcurrent \in Nat \ {0}

VARIABLES enabled,    \* NodesConfig.enabled, the fleet kill switch
          lends,      \* node -> its policy lends the tool
          active,     \* node -> DeviceRegistry.is_active
          stopping,   \* _stopping
          sweep,      \* nodes disconnect_all has still to visit
          connOf,     \* _connections
          gens,       \* _generations
          executor,   \* MCPManager._dynamic_executors, by node
          listed,     \* node -> the tool registry lists its tool
          stage,      \* socket -> where its handle() coroutine is
          node,       \* socket -> the node that opened it
          gen,        \* socket -> _Connection.generation, 0 before it has one
          closed,     \* socket -> _Connection.closed
          inv,        \* socket -> the tool is in _Connection.inventory
          pong,       \* socket -> awaiting_pong in _receive_loop
          sock,       \* socket -> transport: "none", "open", "silent", "shut"
          closing,    \* sockets whose close() is a task that has not run yet
          cpc,        \* call -> where its execute() coroutine is
          cconn,      \* call -> the connection it was routed to
          fut,        \* call -> its future: "none", "pending", "result", "lost"
          wired       \* calls whose execute frame reached the node

fleet == <<enabled, lends, active, stopping, sweep>>
table == <<connOf, gens, executor, listed>>
conns == <<stage, node, gen, closed, inv, pong, sock, closing>>
calls == <<cpc, cconn, fut, wired>>
vars  == <<fleet, table, conns, calls>>

ConnIds == 1..MaxConns
NoConn  == 0

\* "replacing": registered, and waiting for the close of the socket it replaced.
Stages == {"none", "hello", "replacing", "registered", "serving", "leaving", "done"}

TypeOK == /\ enabled \in BOOLEAN
          /\ lends \in [Nodes -> BOOLEAN]
          /\ active \in [Nodes -> BOOLEAN]
          /\ stopping \in BOOLEAN
          /\ sweep \in SUBSET Nodes
          /\ connOf \in [Nodes -> ConnIds \cup {NoConn}]
          /\ gens \in [Nodes -> Nat]
          /\ executor \in [Nodes -> ConnIds \cup {NoConn}]
          /\ listed \in [Nodes -> BOOLEAN]
          /\ stage \in [ConnIds -> Stages]
          /\ node \in [ConnIds -> Nodes \cup {NoNode}]
          /\ gen \in [ConnIds -> Nat]
          /\ closed \in [ConnIds -> BOOLEAN]
          /\ inv \in [ConnIds -> BOOLEAN]
          /\ pong \in [ConnIds -> BOOLEAN]
          /\ sock \in [ConnIds -> {"none", "open", "silent", "shut"}]
          /\ closing \in SUBSET ConnIds
          /\ cpc \in [Calls -> {"new", "queued", "sending", "waiting", "done"}]
          /\ cconn \in [Calls -> ConnIds \cup {NoConn}]
          /\ fut \in [Calls -> {"none", "pending", "result", "lost"}]
          /\ wired \in SUBSET Calls

Init == /\ enabled = TRUE
        /\ lends \in [Nodes -> BOOLEAN]
        /\ active = [n \in Nodes |-> TRUE]
        /\ stopping = FALSE
        /\ sweep = {}
        /\ connOf = [n \in Nodes |-> NoConn]
        /\ gens = [n \in Nodes |-> 0]
        /\ executor = [n \in Nodes |-> NoConn]
        /\ listed = [n \in Nodes |-> FALSE]
        /\ stage = [c \in ConnIds |-> "none"]
        /\ node = [c \in ConnIds |-> NoNode]
        /\ gen = [c \in ConnIds |-> 0]
        /\ closed = [c \in ConnIds |-> FALSE]
        /\ inv = [c \in ConnIds |-> FALSE]
        /\ pong = [c \in ConnIds |-> FALSE]
        /\ sock = [c \in ConnIds |-> "none"]
        /\ closing = {}
        /\ cpc = [k \in Calls |-> "new"]
        /\ cconn = [k \in Calls |-> NoConn]
        /\ fut = [k \in Calls |-> "none"]
        /\ wired = {}

-----------------------------------------------------------------------------
LendsTool(n) == enabled /\ lends[n]

IsCurrent(c) == connOf[node[c]] = c /\ ~closed[c]

\* A slip: the futures of a detached connection are left to time out.
LeftPending(C) == fut
\* fail_pending: every future still waiting on these connections is lost.
FailPending(C) == [k \in Calls |-> IF cconn[k] \in C /\ fut[k] = "pending"
                                   THEN "lost" ELSE fut[k]]

\* A slip: the connection is dropped and its socket left open.
SocketsLeft(C) == closing
\* _close_socket makes a task of close(); the transport takes frames until it runs.
ToClose(C) == closing \cup {c \in C : sock[c] # "shut"}

\* A slip: the tools of a connection that goes away stay listed.
StayListed(C) == listed
Unlisted(C) == [n \in Nodes |-> listed[n] /\ connOf[n] \notin C]

\* _detach_locked for the connections C; every caller then goes on to
\* _close_socket, up to the task that closes, without an await in between.
Detach(C) ==
    /\ closed' = [c \in ConnIds |-> closed[c] \/ c \in C]
    /\ connOf' = [n \in Nodes |-> IF connOf[n] \in C THEN NoConn ELSE connOf[n]]
    /\ executor' = [n \in Nodes |-> IF connOf[n] \in C THEN NoConn ELSE executor[n]]
    /\ listed' = Unlisted(C)
    /\ fut' = FailPending(C)
    /\ closing' = ToClose(C)

\* disconnect_node(n): nothing to do when the node is not connected.
DisconnectNode(n) == Detach({connOf[n]} \ {NoConn})

\* The close task runs: from its first step on the transport refuses frames.
Close(c) ==
    /\ c \in closing
    /\ closing' = closing \ {c}
    /\ sock' = [sock EXCEPT ![c] = "shut"]
    /\ UNCHANGED <<fleet, table, stage, node, gen, closed, inv, pong, calls>>

-----------------------------------------------------------------------------
(* handle(): one coroutine per socket.                                     *)

\* Authenticated, accepted, and past the fleet switch: waits for the hello.
Connect(c, n) ==
    /\ stage[c] = "none"
    /\ \A d \in ConnIds : d < c => stage[d] # "none"
    /\ active[n]
    /\ enabled
    /\ stage' = [stage EXCEPT ![c] = "hello"]
    /\ node' = [node EXCEPT ![c] = n]
    /\ sock' = [sock EXCEPT ![c] = "open"]
    /\ UNCHANGED <<fleet, table, gen, closed, inv, pong, closing, calls>>

\* No hello in time, an invalid one, or a hub that is stopping: handle() closes the
\* socket, which no other coroutine knows, and ends.
HelloRefused(c) ==
    /\ stage[c] = "hello"
    /\ stage' = [stage EXCEPT ![c] = "done"]
    /\ sock' = [sock EXCEPT ![c] = "shut"]
    /\ UNCHANGED <<fleet, table, node, gen, closed, inv, pong, closing, calls>>

\* A slip: a hello that arrives during shutdown registers.
StoppingIgnored == TRUE
MayRegister == ~stopping

\* A slip: the generation is counted from the connection it replaces.
GenerationOfOld(n) == IF connOf[n] = NoConn THEN 1 ELSE gen[connOf[n]] + 1
NextGeneration(n) == gens[n] + 1

\* A slip: the inventory is taken as advertised.
AdvertisedInventory(n, t) == t
OfferedInventory(n, t) == t /\ LendsTool(n)

\* A valid hello: provider, generation and connection are replaced together,
\* and only then is the old connection detached.  t: the tool is advertised.
Hello(c, t) ==
    LET n == node[c]
        old == {connOf[n]} \ {NoConn}
    IN /\ stage[c] = "hello"
       /\ MayRegister
       /\ gen' = [gen EXCEPT ![c] = NextGeneration(n)]
       /\ inv' = [inv EXCEPT ![c] = OfferedInventory(n, t)]
       /\ listed' = [listed EXCEPT ![n] = OfferedInventory(n, t)]
       /\ executor' = [executor EXCEPT ![n] = c]
       /\ gens' = [gens EXCEPT ![n] = NextGeneration(n)]
       /\ connOf' = [connOf EXCEPT ![n] = c]
       /\ closed' = [d \in ConnIds |-> closed[d] \/ d \in old]
       /\ fut' = FailPending(old)
       /\ closing' = ToClose(old)
       /\ stage' = [stage EXCEPT ![c] = IF old = {} THEN "registered" ELSE "replacing"]
       /\ UNCHANGED <<fleet, node, pong, sock, cpc, cconn, wired>>

\* The close of the socket that c replaced, one generation older, is still to run.
OldStillCloses(c) == \E d \in closing : node[d] = node[c] /\ gen[d] + 1 = gen[c]

\* The old socket, if any, is closed (up to _CLOSE_TIMEOUT); a connection that is
\* still current then sends ready and its policy and starts to receive.
Serve(c) ==
    /\ \/ stage[c] = "registered"
       \/ stage[c] = "replacing" /\ ~OldStillCloses(c)
    /\ stage' = [stage EXCEPT ![c] = IF IsCurrent(c) /\ sock[c] # "shut"
                                     THEN "serving" ELSE "leaving"]
    /\ UNCHANGED <<fleet, table, node, gen, closed, inv, pong, sock, closing, calls>>

\* The finally clause of handle(), after the close that a protocol error began.
Leave(c) ==
    /\ stage[c] = "leaving"
    /\ connOf[node[c]] = c => c \notin closing
    /\ stage' = [stage EXCEPT ![c] = "done"]
    /\ IF connOf[node[c]] = c
       THEN Detach({c})
       ELSE UNCHANGED <<closed, connOf, executor, listed, fut, closing>>
    /\ UNCHANGED <<fleet, gens, node, gen, inv, pong, sock, cpc, cconn, wired>>

-----------------------------------------------------------------------------
(* _receive_loop().                                                        *)

\* The loop reads again.  Of a read that was under way when the connection was
\* detached only a result counts: after anything else LoopEnds is all that follows.
Reads(c) == stage[c] = "serving" /\ IsCurrent(c) /\ sock[c] # "shut"

\* A slip: the heartbeat is sent and its pong not waited for.
PingForgotten(c) == FALSE
AwaitingPong(c) == TRUE

\* No frame for _IDLE_TIMEOUT: one heartbeat asks whether the node is there.
IdleTimeout(c) ==
    /\ Reads(c)
    /\ ~pong[c]
    /\ pong' = [pong EXCEPT ![c] = AwaitingPong(c)]
    /\ UNCHANGED <<fleet, table, stage, node, gen, closed, inv, sock, closing, calls>>

Heartbeat(c) ==
    /\ Reads(c)
    /\ sock[c] = "open"
    /\ pong[c]
    /\ pong' = [pong EXCEPT ![c] = FALSE]
    /\ UNCHANGED <<fleet, table, stage, node, gen, closed, inv, sock, closing, calls>>

PongTimeout(c) ==
    /\ Reads(c)
    /\ pong[c]
    /\ stage' = [stage EXCEPT ![c] = "leaving"]
    /\ UNCHANGED <<fleet, table, node, gen, closed, inv, pong, sock, closing, calls>>

\* receive_text() fails, or the loop finds that it is not current any more.
LoopEnds(c) ==
    /\ stage[c] = "serving"
    /\ sock[c] = "shut" \/ ~IsCurrent(c)
    /\ stage' = [stage EXCEPT ![c] = "leaving"]
    /\ UNCHANGED <<fleet, table, node, gen, closed, inv, pong, sock, closing, calls>>

\* An oversized or malformed frame, or one the protocol does not allow here.
ProtocolError(c) ==
    /\ Reads(c)
    /\ sock[c] = "open"
    /\ stage' = [stage EXCEPT ![c] = "leaving"]
    /\ closing' = ToClose({c})
    /\ UNCHANGED <<fleet, table, node, gen, closed, inv, pong, sock, calls>>

\* The pending table a result frame of socket c is looked up in.
PendingOn(c) == {k \in Calls : cconn[k] = c /\ cpc[k] \in {"sending", "waiting"}}

\* A result for call k arrives on socket c.  A frame read while its connection
\* was being detached is still handled: the loop checks only before it reads.
\* Frames of another generation are dropped.
Result(c, k) ==
    /\ stage[c] = "serving"
    /\ sock[c] # "silent"
    /\ k \in wired
    /\ node[cconn[k]] = node[c]
    /\ gen[cconn[k]] = gen[c]
    /\ k \in PendingOn(c)
    /\ fut[k] = "pending"
    /\ fut' = [fut EXCEPT ![k] = "result"]
    /\ UNCHANGED <<fleet, table, conns, cpc, cconn, wired>>

-----------------------------------------------------------------------------
(* Calls.  MCPManager.execute resolves the executor; execute() and         *)
(* synthesize() of the connection do the rest.                             *)

ToolCalls == Calls \ TtsCalls

\* The live owner is looked up again right before dispatching.
Dispatch(k) ==
    /\ k \in ToolCalls
    /\ cpc[k] = "new"
    /\ \E n \in Nodes :
         IF listed[n] /\ executor[n] # NoConn
         THEN /\ cpc' = [cpc EXCEPT ![k] = "queued"]
              /\ cconn' = [cconn EXCEPT ![k] = executor[n]]
              /\ UNCHANGED fut
         ELSE /\ cpc' = [cpc EXCEPT ![k] = "done"]
              /\ fut' = [fut EXCEPT ![k] = "lost"]
              /\ UNCHANGED cconn
    /\ UNCHANGED <<fleet, table, conns, wired>>

Permits(c) == MaxConcurrent - Cardinality(PendingOn(c) \ TtsCalls)

\* A slip: the connection is checked before the semaphore, not after it.
CheckedBeforeQueue(c) == TRUE
StillServes(c) == /\ IsCurrent(c)
                  /\ active[node[c]]
                  /\ LendsTool(node[c])
                  /\ inv[c]

\* A permit of the connection: the call is checked again and registered, or fails.
Begin(k) ==
    /\ cpc[k] = "queued"
    /\ Permits(cconn[k]) > 0
    /\ IF StillServes(cconn[k])
       THEN /\ cpc' = [cpc EXCEPT ![k] = "sending"]
            /\ fut' = [fut EXCEPT ![k] = "pending"]
       ELSE /\ cpc' = [cpc EXCEPT ![k] = "done"]
            /\ fut' = [fut EXCEPT ![k] = "lost"]
    /\ UNCHANGED <<fleet, table, conns, cconn, wired>>

\* synthesize() on a connection the hub selected: no permit, no inventory.
BeginSynthesis(k, c) ==
    /\ k \in TtsCalls
    /\ cpc[k] = "new"
    /\ node[c] \in Nodes
    /\ IsCurrent(c)
    /\ active[node[c]]
    /\ cpc' = [cpc EXCEPT ![k] = "sending"]
    /\ cconn' = [cconn EXCEPT ![k] = c]
    /\ fut' = [fut EXCEPT ![k] = "pending"]
    /\ UNCHANGED <<fleet, table, conns, wired>>

\* The task that writes the frame runs, in a turn after the checks of Begin: also
\* over a connection detached since, if its close has not run yet.  The node reads
\* the frame unless it has silently gone.
Send(k) ==
    /\ cpc[k] = "sending"
    /\ sock[cconn[k]] # "shut"
    /\ cpc' = [cpc EXCEPT ![k] = "waiting"]
    /\ wired' = IF sock[cconn[k]] = "open" THEN wired \cup {k} ELSE wired
    /\ UNCHANGED <<fleet, table, conns, cconn, fut>>

\* send() raises, or takes longer than its own timeout.
SendFails(k) ==
    /\ cpc[k] = "sending"
    /\ cpc' = [cpc EXCEPT ![k] = "done"]
    /\ fut' = [fut EXCEPT ![k] = "lost"]
    /\ UNCHANGED <<fleet, table, conns, cconn, wired>>

\* A slip: a call waits for its node as long as it takes.
WaitsForever(k) == FALSE
TimesOut(k) == cpc[k] = "waiting" /\ fut[k] = "pending"

CallTimeout(k) ==
    /\ TimesOut(k)
    /\ cpc' = [cpc EXCEPT ![k] = "done"]
    /\ fut' = [fut EXCEPT ![k] = "lost"]
    /\ UNCHANGED <<fleet, table, conns, cconn, wired>>

\* The future is settled: the caller gets the result or the failure.
Return(k) ==
    /\ cpc[k] = "waiting"
    /\ fut[k] # "pending"
    /\ cpc' = [cpc EXCEPT ![k] = "done"]
    /\ UNCHANGED <<fleet, table, conns, cconn, fut, wired>>

-----------------------------------------------------------------------------
(* The routes that change the fleet, shutdown, and the network.            *)

ReRegister(n) == DisconnectNode(n)

\* PATCH /nodes/{id} with another tools_enabled: the node must re-register.
UpdatePolicy(n) ==
    /\ active[n]
    /\ lends' = [lends EXCEPT ![n] = ~lends[n]]
    /\ ReRegister(n)
    /\ UNCHANGED <<enabled, active, stopping, sweep, gens, stage, node, gen, inv, pong,
                   sock, cpc, cconn, wired>>

\* POST revoke and DELETE: the registry's mirror first, then disconnect_node,
\* with no await in between.
RevokeDevice(n) ==
    /\ active[n]
    /\ active' = [active EXCEPT ![n] = FALSE]
    /\ DisconnectNode(n)
    /\ UNCHANGED <<enabled, lends, stopping, sweep, gens, stage, node, gen, inv, pong,
                   sock, cpc, cconn, wired>>

\* A slip: the list is of the table's values, connections instead of node ids.
TableValues == {connOf[n] : n \in Nodes} \ {NoConn}
Connected == {n \in Nodes : connOf[n] # NoConn}

\* PATCH /config/nodes {enabled: false}: disconnect_all takes a list of the
\* connected nodes and visits them one by one.
DisableFleet ==
    /\ enabled
    /\ enabled' = FALSE
    /\ sweep' = sweep \cup Connected
    /\ UNCHANGED <<lends, active, stopping, table, conns, calls>>

SweepNode(n) ==
    /\ n \in sweep
    /\ sweep' = sweep \ {n}
    /\ DisconnectNode(n)
    /\ UNCHANGED <<enabled, lends, active, stopping, gens, stage, node, gen, inv, pong,
                   sock, cpc, cconn, wired>>

EnableFleet ==
    /\ ~enabled
    /\ enabled' = TRUE
    /\ UNCHANGED <<lends, active, stopping, sweep, table, conns, calls>>

Stop ==
    /\ ~stopping
    /\ stopping' = TRUE
    /\ Detach({connOf[n] : n \in Nodes} \ {NoConn})
    /\ UNCHANGED <<enabled, lends, active, sweep, gens, stage, node, gen, inv, pong,
                   sock, cpc, cconn, wired>>

\* The peer closes, or vanishes without a word.
PeerGoes(c, how) ==
    /\ sock[c] = "open"
    /\ how \in {"silent", "shut"}
    /\ sock' = [sock EXCEPT ![c] = how]
    /\ UNCHANGED <<fleet, table, stage, node, gen, closed, inv, pong, closing, calls>>

-----------------------------------------------------------------------------
Next == \/ \E c \in ConnIds : \/ \E n \in Nodes : Connect(c, n)
                              \/ \E t \in BOOLEAN : Hello(c, t)
                              \/ \E how \in {"silent", "shut"} : PeerGoes(c, how)
                              \/ \E k \in Calls : Result(c, k) \/ BeginSynthesis(k, c)
                              \/ HelloRefused(c)
                              \/ Close(c)
                              \/ Serve(c)
                              \/ Leave(c)
                              \/ IdleTimeout(c)
                              \/ Heartbeat(c)
                              \/ PongTimeout(c)
                              \/ LoopEnds(c)
                              \/ ProtocolError(c)
        \/ \E k \in Calls : \/ Dispatch(k)
                            \/ Begin(k)
                            \/ Send(k)
                            \/ SendFails(k)
                            \/ CallTimeout(k)
                            \/ Return(k)
        \/ \E n \in Nodes : \/ UpdatePolicy(n)
                            \/ RevokeDevice(n)
                            \/ SweepNode(n)
        \/ DisableFleet
        \/ EnableFleet
        \/ Stop

Spec == Init /\ [][Next]_vars

\* The event loop runs every coroutine that can go on, every timeout of the
\* hub fires, and a silent peer is idle for ever.  No peer has to answer.
Fairness ==
    /\ \A c \in ConnIds : /\ WF_vars(Close(c))
                          /\ WF_vars(Serve(c))
                          /\ WF_vars(Leave(c))
                          /\ WF_vars(LoopEnds(c))
                          /\ WF_vars(sock[c] = "silent"
                                       /\ (IdleTimeout(c) \/ PongTimeout(c)))
    /\ \A k \in Calls : /\ WF_vars(Begin(k))
                        /\ WF_vars(Send(k) \/ SendFails(k))
                        /\ WF_vars(CallTimeout(k))
                        /\ WF_vars(Return(k))

FairSpec == Spec /\ Fairness

-----------------------------------------------------------------------------
(* Properties.                                                             *)

(* The provider the MCP manager would call for a node is the connection    *)
(* the hub holds for it, never a replaced or detached one, and a tool is   *)
(* listed only with the live connection that offered it.                   *)
RegistryMirrorsConnections ==
    \A n \in Nodes :
        /\ executor[n] = connOf[n]
        /\ connOf[n] # NoConn => /\ node[connOf[n]] = n
                                 /\ ~closed[connOf[n]]
                                 /\ stage[connOf[n]] \in
                                      {"replacing", "registered", "serving", "leaving"}
        /\ listed[n] <=> connOf[n] # NoConn /\ inv[connOf[n]]

(* A generation is never given twice to one node, and the live connection  *)
(* has the latest: a frame of an older connection cannot pass for one of a *)
(* newer (docs/capability-nodes.md: a reconnect replaces the older socket  *)
(* and inventory generation).                                              *)
GenerationFences ==
    /\ \A c, d \in ConnIds : c # d /\ gen[c] # 0 /\ node[c] = node[d] => gen[c] # gen[d]
    /\ \A n \in Nodes : connOf[n] # NoConn => gen[connOf[n]] = gens[n]

(* No call waits on a connection that is gone: detaching settles every     *)
(* future, whatever the call was doing ("fails pending calls").            *)
NoOrphanCall ==
    \A k \in Calls : fut[k] = "pending" => IsCurrent(cconn[k])

(* Every tool offered to the model is one the fleet switch and the node's  *)
(* policy lend now, or the sweep that removes it is under way.             *)
ListedToolsAreLent ==
    \A n \in Nodes : listed[n] => lends[n] /\ (enabled \/ n \in sweep)

(* Once the hub stops nothing is connected, and nothing connects again.    *)
StoppedStaysEmpty ==
    stopping => \A n \in Nodes : connOf[n] = NoConn

(* The device is enrolled, its connection live and, for a tool, the node's *)
(* policy lends it: a call may be sent.                                    *)
MaySend(k) == /\ IsCurrent(cconn[k])
              /\ active[node[cconn[k]]]
              /\ k \in ToolCalls => lends[node[cconn[k]]]

(* A call that may not be sent any more, because its node was replaced,    *)
(* revoked, stopped or had its policy changed since it was admitted, can   *)
(* still leave as a frame, but only in the turns between the detach and    *)
(* the close of that socket, and only after its caller was told that it    *)
(* failed: no caller waits for, or gets, the answer to such a frame.       *)
WithdrawnCallsHaveFailed ==
    [][\A k \in wired' \ wired :
         MaySend(k) \/ (cconn[k] \in closing /\ fut[k] = "lost")]_vars

(* An answer counts only from the live connection the call was sent on,    *)
(* and a call that was settled, failed or answered, stays so: a late       *)
(* result never overturns the failure the model was told.                  *)
ResultsAreFresh ==
    [][\A k \in Calls :
         /\ fut[k] \in {"result", "lost"} => fut'[k] = fut[k]
         /\ fut[k] = "pending" /\ fut'[k] = "result" => IsCurrent(cconn[k])]_vars

(* Every call that was dispatched ends, although no node ever has to       *)
(* answer and permits are limited.                                         *)
CallsSettle == \A k \in Calls : cpc[k] # "new" ~> cpc[k] = "done"

(* A node that vanished without closing its socket is detached.            *)
SilentPeerIsDropped ==
    \A c \in ConnIds : sock[c] = "silent" /\ stage[c] = "serving" ~> closed[c]

(* docs/capability-nodes.md: "Revoking or deleting a capability node there *)
(* immediately disconnects its socket, unregisters its tools, fails        *)
(* pending calls".                                                         *)
RevokedNodeIsGone ==
    \A n \in Nodes : ~active[n] => connOf[n] = NoConn

=============================================================================
