----------------------------- MODULE McpLifecycle -----------------------------
(***************************************************************************)
(* The tool servers of the backend: the worker that connects and           *)
(* disconnects them one at a time and the providers that come and go with  *)
(* a capability node (mcp/manager.py), the registry of their tools         *)
(* (mcp/registry.py), and the requests that change the configuration       *)
(* (web/routes/mcp.py, and the reconnection at the end of web/routes/      *)
(* oauth.py).                                                              *)
(*                                                                         *)
(* The model begins when start() is over: the backend serves requests only *)
(* then, and it stops the manager when they are answered.  What a server   *)
(* offers, and whether it can be reached, is a choice.  A configuration is *)
(* the version of what matters to a connection, and whether it is enabled; *)
(* version 0 is none.  Closing a client ends without an error that reaches *)
(* the worker (_safe_cleanup).                                             *)
(***************************************************************************)
EXTENDS Naturals, Sequences

CONSTANTS ToolServers,   \* names of configured servers
          NodeProvider,  \* the provider of a capability node
          NoProvider,
          ServedTools,
          ConfigVersions, \* server -> versions of its configuration
          LifecycleCalls \* bound: requests at one time

ToolProviders == ToolServers \cup {NodeProvider}

ASSUME LifecycleAssumption == /\ NodeProvider \notin ToolServers /\ NoProvider \notin ToolProviders
                              /\ \A s \in ToolServers : ConfigVersions[s] \subseteq Nat \ {0}

VARIABLES mlConfig,    \* server -> its entry of config.mcp.servers
          mlClients,   \* _clients: server -> the version it is connected with, or 0
          mlDynamic,   \* NodeProvider has an executor
          mlListed,    \* _tools: the tools with their providers
          mlRoute,     \* _tool_to_server
          mlOps,       \* _ops
          mlWorker,    \* the operation the worker is at, and where
          mlCalls,     \* call -> the request that waits for its operation, or a deletion that goes on
          mlTakenOver, \* history: listed tools whose name a later server took
          mlRevived    \* history: servers that were to be connected while they were deleted

mlRegistry == <<mlListed, mlRoute, mlTakenOver>>
mlVars     == <<mlConfig, mlClients, mlDynamic, mlRegistry, mlOps, mlWorker, mlCalls, mlRevived>>

NoServerConfig  == [version |-> 0, enabled |-> FALSE]
ServerConfig(s) == [version : ConfigVersions[s], enabled : BOOLEAN]
Versions        == (UNION {ConfigVersions[s] : s \in ToolServers}) \cup {0}

Operation == [op : {"add", "remove"}, server : ToolServers, version : Versions, call : LifecycleCalls]
NoOp      == [op |-> "none"]
Resting   == [at |-> "idle", op |-> NoOp]

LifecycleTypeOK ==
    /\ mlConfig \in [ToolServers -> [version : Versions, enabled : BOOLEAN]]
    /\ \A s \in ToolServers : mlConfig[s] \in ServerConfig(s) \cup {NoServerConfig}
    /\ mlClients \in [ToolServers -> Versions]
    /\ mlDynamic \in BOOLEAN
    /\ mlListed \subseteq ServedTools \X ToolProviders
    /\ mlRoute \in [ServedTools -> ToolProviders \cup {NoProvider}]
    /\ mlOps \in Seq(Operation)
    /\ mlWorker = Resting \/ mlWorker \in [at : {"disconnecting", "connecting"}, op : Operation]
    /\ \A c \in LifecycleCalls :
           mlCalls[c] \in {NoOp} \cup [op : {"add", "remove"}, server : ToolServers, at : {"queued", "done"}]
    /\ mlTakenOver \subseteq mlListed
    /\ mlRevived \subseteq ToolServers

LifecycleInit ==
    /\ mlConfig \in [ToolServers -> [version : Versions, enabled : BOOLEAN]]
    /\ \A s \in ToolServers : mlConfig[s] \in ServerConfig(s) \cup {NoServerConfig}
    /\ mlClients = [s \in ToolServers |-> 0]
    /\ mlDynamic = FALSE
    /\ mlListed = {}
    /\ mlRoute = [t \in ServedTools |-> NoProvider]
    /\ mlOps = <<>>
    /\ mlWorker = Resting
    /\ mlCalls = [c \in LifecycleCalls |-> NoOp]
    /\ mlTakenOver = {}
    /\ mlRevived = {}

-----------------------------------------------------------------------------
(* The registry.                                                           *)

\* unregister_server
Unregisters(p) ==
    /\ mlListed' = {l \in mlListed : l[2] # p}
    /\ mlRoute' = [t \in ServedTools |-> IF mlRoute[t] = p THEN NoProvider ELSE mlRoute[t]]
    /\ mlTakenOver' = {l \in mlTakenOver : l[2] # p}

\* register: the last server that offers a name gets its calls.
Registers(s, tools) ==
    /\ mlListed' = mlListed \cup (tools \X {s})
    /\ mlRoute' = [t \in ServedTools |-> IF t \in tools THEN s ELSE mlRoute[t]]
    /\ mlTakenOver' = mlTakenOver \cup {l \in mlListed : l[1] \in tools}

Collides(p, tools) == \E t \in tools : mlRoute[t] \notin {p, NoProvider}

\* replace_server
Replaces(p, tools) ==
    /\ mlListed' = {l \in mlListed : l[2] # p} \cup (tools \X {p})
    /\ mlRoute' = [t \in ServedTools |-> IF t \in tools THEN p
                                        ELSE IF mlRoute[t] = p THEN NoProvider ELSE mlRoute[t]]
    /\ mlTakenOver' = {l \in mlTakenOver : l[2] # p} \cup {l \in mlListed : l[1] \in tools /\ l[2] # p}

-----------------------------------------------------------------------------
(* Requests.                                                               *)

Deleting(s) == \E c \in LifecycleCalls : mlCalls[c] # NoOp /\ mlCalls[c].op = "remove" /\ mlCalls[c].server = s

SubmitOp(c, op, s, version) ==
    /\ mlOps' = Append(mlOps, [op |-> op, server |-> s, version |-> version, call |-> c])
    /\ mlCalls' = [mlCalls EXCEPT ![c] = [op |-> op, server |-> s, at |-> "queued"]]
    /\ mlRevived' = IF op = "remove" THEN mlRevived
                    ELSE IF Deleting(s) THEN mlRevived \cup {s} ELSE mlRevived \ {s}

\* add_mcp_server and update_mcp_server: an update that changes nothing of the
\* connection does not connect again, one that disables the server neither.
SaveServer(c, s, config) ==
    /\ mlCalls[c] = NoOp
    /\ mlConfig' = [mlConfig EXCEPT ![s] = config]
    /\ IF config.enabled /\ config # mlConfig[s]
       THEN SubmitOp(c, "add", s, config.version)
       ELSE UNCHANGED <<mlOps, mlCalls, mlRevived>>
    /\ UNCHANGED <<mlClients, mlDynamic, mlRegistry, mlWorker>>

\* reconnect_mcp_server and _reconnect_mcp_server, also of a disabled server.
ReconnectServer(c, s) ==
    /\ mlCalls[c] = NoOp
    /\ mlConfig[s] # NoServerConfig
    /\ SubmitOp(c, "add", s, mlConfig[s].version)
    /\ UNCHANGED <<mlConfig, mlClients, mlDynamic, mlRegistry, mlWorker>>

DeleteServer(c, s) ==
    /\ mlCalls[c] = NoOp
    /\ mlConfig[s] # NoServerConfig
    /\ SubmitOp(c, "remove", s, 0)
    /\ UNCHANGED <<mlConfig, mlClients, mlDynamic, mlRegistry, mlWorker>>

\* A deletion goes on and drops the configuration; it raises a KeyError if
\* another deletion was faster.
DropConfig(c) ==
    /\ mlCalls[c] # NoOp /\ mlCalls[c].at = "done"
    /\ mlCalls' = [mlCalls EXCEPT ![c] = NoOp]
    /\ mlConfig' = [mlConfig EXCEPT ![mlCalls[c].server] = NoServerConfig]
    /\ UNCHANGED <<mlClients, mlDynamic, mlRegistry, mlOps, mlWorker, mlRevived>>

-----------------------------------------------------------------------------
(* The worker.                                                             *)

\* An operation ends; a request that connected is answered.
OpEnds(op) == /\ mlWorker' = Resting
              /\ mlCalls' = [mlCalls EXCEPT ![op.call] = IF op.op = "add" THEN NoOp ELSE [@ EXCEPT !.at = "done"]]

\* _remove_server_now after the client is closed; an "add" goes on to connect.
Removed(op) ==
    /\ Unregisters(op.server)
    /\ IF op.op = "add"
       THEN mlWorker' = [at |-> "connecting", op |-> op] /\ UNCHANGED mlCalls
       ELSE OpEnds(op)

TakeOp ==
    /\ mlWorker = Resting /\ mlOps # <<>>
    /\ mlOps' = Tail(mlOps)
    /\ LET op == Head(mlOps) IN
       /\ mlClients' = [mlClients EXCEPT ![op.server] = 0]
       /\ IF mlClients[op.server] = 0
          THEN Removed(op)
          ELSE /\ mlWorker' = [at |-> "disconnecting", op |-> op]
               /\ UNCHANGED <<mlRegistry, mlCalls>>
    /\ UNCHANGED <<mlConfig, mlDynamic, mlRevived>>

Disconnected ==
    /\ mlWorker.at = "disconnecting"
    /\ Removed(mlWorker.op)
    /\ UNCHANGED <<mlConfig, mlClients, mlDynamic, mlOps, mlRevived>>

Connected(tools) ==
    /\ mlWorker.at = "connecting"
    /\ mlClients' = [mlClients EXCEPT ![mlWorker.op.server] = mlWorker.op.version]
    /\ Registers(mlWorker.op.server, tools)
    /\ OpEnds(mlWorker.op)
    /\ UNCHANGED <<mlConfig, mlDynamic, mlOps, mlRevived>>

ConnectFails ==
    /\ mlWorker.at = "connecting"
    /\ OpEnds(mlWorker.op)
    /\ UNCHANGED <<mlConfig, mlClients, mlDynamic, mlRegistry, mlOps, mlRevived>>

-----------------------------------------------------------------------------
(* The provider of a capability node.                                      *)

\* register_dynamic_provider; an inventory with a name of another is refused.
RegisterDynamic(tools) ==
    /\ ~Collides(NodeProvider, tools)
    /\ Replaces(NodeProvider, tools)
    /\ mlDynamic' = TRUE
    /\ UNCHANGED <<mlConfig, mlClients, mlOps, mlWorker, mlCalls, mlRevived>>

UnregisterDynamic ==
    /\ mlDynamic
    /\ Unregisters(NodeProvider)
    /\ mlDynamic' = FALSE
    /\ UNCHANGED <<mlConfig, mlClients, mlOps, mlWorker, mlCalls, mlRevived>>

LifecycleNext ==
    \/ \E c \in LifecycleCalls :
         \/ \E s \in ToolServers : \/ \E config \in ServerConfig(s) : SaveServer(c, s, config)
                                   \/ ReconnectServer(c, s)
                                   \/ DeleteServer(c, s)
         \/ DropConfig(c)
    \/ TakeOp \/ Disconnected \/ ConnectFails
    \/ \E tools \in SUBSET ServedTools : Connected(tools) \/ RegisterDynamic(tools)
    \/ UnregisterDynamic

-----------------------------------------------------------------------------

\* A call is sent to a provider that lists the tool and is there to run it,
\* or is just being disconnected (get_server_for_tool, execute); and a tool
\* that is offered to the model is routed to the one that offers it, unless
\* a later server took its name (register): through reconnections, failed
\* connections, deletions and nodes that come and go.
RoutesLead ==
    /\ \A t \in ServedTools :
         mlRoute[t] # NoProvider =>
            /\ <<t, mlRoute[t]>> \in mlListed
            /\ IF mlRoute[t] = NodeProvider THEN mlDynamic
               ELSE \/ mlClients[mlRoute[t]] # 0
                    \/ mlWorker.at = "disconnecting" /\ mlWorker.op.server = mlRoute[t]
    /\ \A l \in mlListed \ mlTakenOver : mlRoute[l[1]] = l[2]

\* Nothing is under way for a server.
Settled(s) ==
    /\ ~Deleting(s)
    /\ mlWorker = Resting \/ mlWorker.op.server # s
    /\ \A i \in DOMAIN mlOps : mlOps[i].server # s

\* Once nothing is under way for a server it is connected as it is configured,
\* if it is connected: requests that overlap leave no connection of an older
\* configuration.  A server that was disabled keeps the connection it had, and
\* one that was connected again while it was deleted keeps one without a
\* configuration.
ConnectedAsConfigured ==
    \A s \in ToolServers :
        (Settled(s) /\ mlClients[s] # 0) =>
            \/ mlConfig[s].enabled /\ mlConfig[s].version = mlClients[s]
            \/ mlConfig[s] # NoServerConfig /\ ~mlConfig[s].enabled
            \/ mlConfig[s] = NoServerConfig /\ s \in mlRevived

\* Every request that waits has its operation in the queue or with the
\* worker, once: none is forgotten when connections fail (_submit and
\* _run_lifecycle_worker).
RequestsAreServed ==
    \A c \in LifecycleCalls :
        (mlCalls[c] # NoOp /\ mlCalls[c].at = "queued") <=>
            \/ mlWorker # Resting /\ mlWorker.op.call = c
            \/ \E i \in DOMAIN mlOps : mlOps[i].call = c
=============================================================================
