# TLA+ models of Dax

Dax is a self-hosted personal assistant. One authoritative backend (Python,
`src/src/dax`) runs an asyncio event loop, a voice pipeline in a thread of its
own, a language model with tools, and sockets to its clients: a desktop client
(`src/desktop`), a web client (`src/web`), a phone, and *capability nodes*, other
computers that lend tools, a speech synthesiser or a microphone. This directory
holds TLA+ specifications of the parts where order and failure decide whether
the program is right, the TLC runs that check them on small instances, and TLAPS
proofs for any instance.

Python paths below are relative to `src/src/dax`, those that begin with
`desktop/`, `web/` or `docs/` to `src/`.

## 1. Inventory

| Component | State it keeps | Operations | Talks to |
|---|---|---|---|
| Wake arbiter, `voice/arbiter.py` | open window and its claims, holder of the wake path and since when | claim, wait_for (several steps), resolve_due, release, reset, held_by | pipeline thread and one thread per node, under one lock |
| Voice pipeline, `voice/pipeline.py` | pipeline state, selected audio source, owner of input and output, push-to-talk commands, turn number, follow-up flag | thread: idle, claim, listen, transcribe, publish, wait, speak, follow up; loop: acquire, release, select, interrupt, cancel | arbiter, voice channel, hub, voice socket |
| Voice channel, `channels/voice_channel.py` | queue of replies tagged with a turn | send, drain, get_response with a timeout | dispatcher, pipeline |
| Voice socket, `web/routes/voice_ws.py` | the single remote lease | acquire, press, release, cancel, cleanup | pipeline |
| Capability hub, `capabilities/hub.py` | per node: connection, generation, pending calls, permits, wake lease | hello, receive loop, execute, synthesize, heartbeats, disconnect, disconnect_all, stop, wake start and end | MCP manager, device registry, nodes routes, pipeline, arbiter |
| Node routes, `web/routes/nodes.py`, `capabilities_ws.py` | node policies and fleet switch | update policy, accept a socket | hub, configuration |
| Tool gate, `orchestrator/tool_gate.py`, `core/policy.py`, `core/shell_allow.py` | allow/ask/deny rules, remembered commands and applications | execute, gate, remember | approvals, MCP manager |
| Approvals, `orchestrator/approval.py` | pending confirmations: future, allowed answers, owner | request with a timeout, resolve | chat sockets, gate |
| Bus, agent, dispatcher, `orchestrator/{bus,agent,dispatcher}.py` | two bounded queues, one message in hand | publish, consume, handle, dispatch | everything |
| Chat sockets, `web/routes/chat.py` | sockets and the sessions each is interested in | connect, (un)subscribe, publish, confirm, send | bus, approvals |
| MCP lifecycle and registry, `mcp/manager.py`, `mcp/registry.py`, `web/routes/mcp.py` | configuration, connected clients, worker queue, tools and their routes, dynamic providers | save, reconnect, delete, connect, disconnect, register, unregister | agent, gate, hub |
| Devices and pairing, `storage/devices.py`, `storage/database.py`, `web/routes/devices.py` | device table, its mirror in memory, the transaction lock, pairing codes | pair, enrol, token, revoke, delete, load | every route |
| Edge node, `edge/daemon.py` | its connection, requests in flight, the permit of its synthesiser | connect, serve, execute, synthesize, play, cancel, stop | hub, over the network |
| Wake listener of a node, `edge/wake.py` | capture thread, policy, claim, lease, verdict | apply policy, stop, claim, stream; grant, yield, listen_stop | hub, arbiter behind it |
| Desktop chat, `desktop/src/hooks/useChatSocket.ts`, `stores/`, `screens/Chat.tsx` | a store per session (socket, timers, messages, confirmation), the registry of stores, conversations | connect, retry, send, confirm, evict, open, delete | chat sockets |
| Desktop push-to-talk, `desktop/src/hooks/useVoiceSocket.ts`, `audio/remoteAudio.ts`, `native/runtime.ts` | socket, remote lease, microphone, queue of key events | acquire, start, release, cancel | voice socket |
| Desktop media ducking, `desktop/src/native/mediaDucking.ts` | last command that worked, queue | duck, restore | native side |
| Desktop log stream, `desktop/src/hooks/useLogStream.ts`, `screens/Logs.tsx` | socket, lines, lines not flushed | connect, flush, seed, clear | log routes |
| Backend authority, `desktop/src/api/connection.ts`, its screens, `desktop/src-tauri/src/backend.rs` | trusted origin and server, credential, on both sides of the IPC | resolve, sign in, change, recover, monitor | native side, backend |
| Desktop settings, `desktop/src/screens/settings/`, `screens/{Settings,Commands,Mcp}.tsx`, `components/{McpServers,CapabilityNodes,PairedDevices}.tsx`, `native/FirstRun.tsx` | drafts over what was read, requests under way | read, edit, save, delete | settings, memory, device and MCP routes |
| Web client, `web/src/pages/`, `web/src/hooks/` | the session shown and its socket; drafts, lists and requests of every settings tab | navigate, follow, send; read, edit, save, delete | the same routes |
| Tickets, voice event hub, speech engines, providers, storage, OAuth, messaging channels, settings routes, bundled tools, Android client, packaging | data, or state of an external service | | |

### What is hard

* **Threads and the loop.** The pipeline blocks in its thread for seconds while
  the event loop changes owner and source under it. The arbiter is driven by
  every thread that waits for it.
* **State read before an await and used after it.** The hub checks enrolment
  before it waits for the hello; the pipeline reads the owner before it waits
  for a verdict, and again only when it speaks; the gate reads the policy before
  it waits for the user.
* **Failure in the middle.** A node's socket dies during its turn, its call, its
  synthesis, or while the fleet is swept.
* **Lateness.** Results of an older connection, replies to an older question,
  confirmations of a call that went on.
* **Limits.** Permits per connection, a bounded bus that blocks the very socket
  a confirmation has to come from, a cap on sessions per socket.
* **Clients without locks.** Every handler of a client that awaits a request
  goes on in a world that moved: the screen was left, the session switched, the
  key let go, the backend changed, the list read again, a second request sent.
* **Two copies of the truth.** The table of devices and its mirror, a
  configuration and a connection, a draft and what is stored, a trusted server
  and its token: each pair is written in two steps with waits between them.
* **Things that must happen.** Turns, calls, confirmations and detections end by
  their own timeouts, since no node, client or model has to answer.

What makes each component correct: the arbiter lets one microphone answer and
tells every claimant the verdict that stands; the hub fences generations,
orphans no call and offers nothing that policy withholds; a lease and the voice
belong together from start to end, and a reply is heard where its question was
asked; a gated tool runs on the user's word about that very call; the registry
and the device table agree with their mirrors; a node runs one synthesis at a
time and streams only for the claim it made; a client has one connection per
channel and shows the session it is on, sends no sound unless a key is held,
uses a token only with the server it trusts, and neither shows what is not so
nor loses what was typed.

## 2. Modules

| Module | Models | Role |
|---|---|---|
| `WakePath` | what the arbiter promises | abstract specification: no clock, window or thread |
| `WakeArbiter` | `voice/arbiter.py`, all of it | one action per locked section; `wait_for` is ReadDeadline, LeaveLoop, ResolveAtDeadline and Return |
| `WakeArbiterProofs` | | safety and refinement, proved |
| `CapabilityHub` | `capabilities/hub.py` without wake leases and chunk bookkeeping; the routes that change fleet, policy and enrolment; the dynamic part of `mcp/manager.py` | one action per stretch between awaits |
| `CapabilityHubProofs` | | all safety properties of the hub, proved |
| `VoiceTurn` | `voice/pipeline.py`, the wake leases of the hub, `web/routes/voice_ws.py`, `channels/voice_channel.py` | composes thread, loop, nodes, phones and button; uses the contract of `WakePath` for the arbiter |
| `ToolApproval` | `web/routes/chat.py`, `orchestrator/{bus,agent,dispatcher,tool_gate,approval}.py`, the settings that change under a pending confirmation | one action per stretch between awaits |
| `ToolApprovalProofs` | | all safety properties of the gate, proved |
| `VoiceTurnProofs` | | types and all safety properties of `VoiceTurn`, proved; three of them under named conditions |
| `ChatStore` | the desktop's chat of one session, its demand lifecycle, confirmation modal and tool trail | one action per handler, timer or effect |
| `ChatRegistry` | the limited table of those stores | who is evicted |
| `ChatScreen` | the conversations of the desktop's chat screen | requests that overlap |
| `WebChat` | the chat page of the web client and its socket | two effects that are due later, answers in any order |
| `RemoteVoice` | push-to-talk of the desktop: socket, lease, microphone, queue of key events | one action per stretch between awaits |
| `MediaDucking` | the volume of other media | bridge and dispatcher of failing commands |
| `LogStream` | the live log of the desktop | socket, flushes, seeds |
| `BackendAuthority` | which backend the desktop trusts, with what credential, on both sides of the IPC | every flow, suspended at each await |
| `SettingsDraft`, `WebSettings` | the settings of the desktop and of the web client | edits, saves and reads that overlap |
| `MemoryTabs`, `DevicePanels`, `McpTable`, `VoiceEnrollment` | the editors and panels both clients have | one per behaviour: a variable says which client |
| `SafeCommands`, `FirstRun` | the list of commands that run unasked; the wizard of the first run | |
| `DeviceRegistry` | enrolled devices: table, mirror, transactions, pairing codes | composes `storage/devices.py`, `storage/database.py` and their routes |
| `McpLifecycle` | tool servers: configuration, worker, clients, tools and routes, the provider of a node | composes `mcp/manager.py`, `mcp/registry.py` and their routes |
| `EdgeNode` | the requests a node serves and the permit of its synthesis | turns of its loop and ends of its threads |
| `WakeListener` | capture thread, event loop and verdicts of a listening node | the other end of the wake leases of `VoiceTurn` |
| `MCParts` | puts the twenty parts above side by side | `part` chooses the one a behaviour is about, `Parts` those of a run; they share no state, so they are not interleaved |
| `ChannelProofs` | | safety of what the clients hear and show live (`ChatStore`, `ChatRegistry`, `ChatScreen`, `WebChat`, `RemoteVoice`, `LogStream`, `MediaDucking`), proved |
| `ScreenProofs` | | safety of the screens of settings: the eight modules from `SettingsDraft` to `FirstRun`, proved |
| `RecordsProofs` | | safety of `BackendAuthority`, `McpLifecycle`, `WakeListener`, `DeviceRegistry`, `EdgeNode`, proved |
| `PartsProofs` | | safety of the composition `MCParts`, from those of its parts: all that the runs `clients` and `records` check |
| `MC*` | | model values for TLC |

A definition preceded by "A slip:" is a plausible mistake in the definition that
follows it; it is used by no specification and shows that the properties notice.

### State and code

* `WakeArbiter`: `pending`, `windowEndsAt`, `heldBy`, `heldAt` are the private
  attributes of the class; `verdict` joins `_decided` and `_won`; `pc`,
  `deadline` and `answer` are the locals of the threads in `wait_for`. Time is
  `now`, which `Tick` advances.
* `CapabilityHub`: `connOf`, `gens` are `_connections` and `_generations`;
  `executor` and `listed` are the MCP manager's and the registry's view, which
  the hub has to keep in step; `stage` is where the `handle()` coroutine of a
  socket is, `cpc` where the `execute()` or `synthesize()` coroutine of a call
  is; `fut` is the call's future. A socket may be "silent": the peer vanished
  without closing it. Frames are written and sockets closed under
  `asyncio.wait_for`, which on Python 3.11 makes a task that starts in a later
  turn: a detach only puts the socket in `closing`, `Close` is the task that shuts
  it, and `Send` the task that writes, a turn or more after the checks of `Begin`.
  Tools, arguments and audio are left out.
* `VoiceTurn`: `st`, `src`, `owner`, `turn`, `armed` and `ptt` are attributes of
  the pipeline, `pc` is where its thread is between two blocking calls; `wake`,
  `ended` and `stops` are the wake lease of a connection and the scheduled
  `_stop` coroutines; `lease` and `ph` are the voice socket; `asked` and
  `replies` are what the agent works on and the reply queue. `_input_owner` and
  `_output_owner` always move together and are one variable. Audio and text are
  left out; what a chunk or a clock decides is a choice.
* `ToolApproval`: `sock`, `subs` and `waiting` are the sockets of the chat route
  with their interests and the message they try to publish; `pc`, `cur`,
  `turns` and `todo` are the agent loop; `req` and `fut` are the entry of
  `_pending`; `policy` and `remembered` are settings. A tool stands for one
  binary or one application. `word` is a history variable: the answer that
  `resolve()` accepted for the call at hand.

The parts of `MCParts` follow the same conventions. A variable has the prefix of
its module (`ch`, `rg`, `cs`, `wc`, `rv`, `md`, `lg`, `au`, `sd`, `ws`, `me`, `dv`,
`sc`, `mt`, `ve`, `fr`, `dr`, `ml`, `wl`, `en`) and its comment names the attribute,
React state or ref it stands for.

* A JavaScript client runs one task at a time. An action is one task: a handler
  up to its first await, what follows an await, a timer, a socket event, an
  effect that is due. A promise is a *call*: asked, handled by the backend,
  answered or lost, in any order. The `readyState` of every socket is kept, the
  current one or not, because a socket that was closed still fires its `onclose`.
  A timer whose handle was overwritten is an *orphan* and is counted.
* `RemoteVoice`: `rvPc` is where the queue of key events waits; `rvCurrent` says
  whether the generation of the latest start is still the controller's.
* `BackendAuthority`: `auFlow` maps a run of an async function to what it
  awaits; `auAnswers` are the native commands that ended, in their order;
  `auView` is the screen that `phase` and `authStatus` select. A token is known
  by the server that issued it.
* `SettingsDraft`, `WebSettings`, `McpTable`: of a value there is what the
  properties tell apart, for a secret whether it is stored, masked or lost.
* `DeviceRegistry`: `drTable` is the committed table, `drMirror` is `_active`;
  a call waits for the lock, writes, and is committed before its coroutine goes
  on. `drJammed` is a transaction that a failed commit left open.
* `McpLifecycle`: `mlOps` and `mlWorker` are the queue and the worker,
  `mlListed` and `mlRoute` are `_tools` and `_tool_to_server`. `mlTakenOver` and
  `mlRevived` are history: tools whose name a later server took, servers that
  were to be connected while they were being deleted.
* `EdgeNode`: `enPermits` is the semaphore, `enLeft` counts threads whose waiter
  gave up, `enReleases` the releases they have scheduled on the loop.
* `WakeListener`: `wlAt`, `wlMine` and `wlStreams` are where each capture thread
  is, its `claim_id` and its `lease_id`; `wlLoop` says whether the loop is free,
  joins a thread, or is between the two halves of a verdict. A lease is named by
  the claim it answers. `wlTwin` is history: a join timed out and a second thread
  was started.

## 3. Runs

| Run | Question | Bounds |
|---|---|---|
| `arbiter` | Is one microphone chosen at a time, is every claimant told the verdict that stands, does the arbiter implement `WakePath`? | 2 microphones, 3 claims, window 1, hold 2, 4 ticks |
| `hub_calls` | Do generations, providers, inventories and futures stay consistent under reconnects, policy changes, revocation, the fleet switch and shutdown, and has the caller of a withdrawn call been told before its frame leaves? | 1 node, 2 sockets, 1 tool call, 1 synthesis, 1 permit |
| `hub_liveness` | Does every call end and is a silent peer dropped, if no node answers? | 1 node, 1 socket, 2 tool calls, 1 synthesis, 1 permit, the fleet switch left on |
| `hub_revoked` | Is a revoked node gone? (no) | 1 node, 2 sockets, 1 call |
| `voice_all` | Do lease, owner, source and answer stay together when everything may go wrong? | 1 node, 1 phone, the button, 2 turns, 1 lease, all faults |
| `voice_rooms` | Is no idle pipeline blocked and no reply played in another room? | 2 nodes, 2 turns, 2 leases, drops, silence, button |
| `voice_liveness` | Do turns end and do nodes give the voice back? | 2 nodes, 2 turns, 2 leases, no faults |
| `voice_drop`, `voice_silence` | two sentences of the code's comments that do not hold | smallest instance that shows it |
| `tools` | Does a confirmed call run on its owner's answer, is only what was meant to be remembered remembered, is every message answered? | 2 clients, 1 session, 2 messages, a plain tool and a shell command under every policy, bus of 1, 1 iteration, 1 call |
| `clients` | Has each client one connection per channel, does it show its session, capture only while a key is held, drop what was overtaken, show what is so, and keep what is typed or stored? | parts `store`, `registry`, `screen`, `web`, `voice`, `ducking`, `logs`, `settings`, `page`, `memory`, `devices`, `commands`, `mcp`, `enrollment`, `wizard` of `MCParts` |
| `records` | Does what the program believes about backend, devices, tool servers, microphone and permit stay true? | parts `authority`, `enrolled`, `servers`, `wake`, `edge` |

A property of these two runs says one thing of all the parts it is about:

| Property | Says |
|---|---|
| `PartsTypeOK` | every variable of the clients stays in its range: no count below zero, no list above its limit (the types of the records are part of their proofs) |
| `ConnectionsAreSound` | a chat store, the registry of stores, the web page and the log keep one live socket while it is wanted, none otherwise, no timer out of reach, and no viewer cut off |
| `PageShowsItsSession` | the web page shows, and hears, the session of its URL |
| `MicrophoneIsHeld` | the desktop captures only while the key is held, over a connection that streams |
| `RecordsAreTrue` | a token goes with the server that is trusted; the mirror of the devices is their table and keeps out who was turned out; tools are routed to servers connected as they are configured; a node streams for its own claim and has one permit and no task of a lost connection |
| `ScreensAreTrue` | rows, lists, codes and profiles on screen are the backend's unless overtaken; secrets survive; half a save locks nobody out; no screen stays busy |
| `OvertakenAnswersAreDropped` | an answer a later request overtook changes nothing on the desktop's chat screen |
| `AuthorityIsPinned` | the trusted server changes only by the user's deed, on both sides |
| `NothingIsLost` | no log line, edit, stored secret or restoring volume command is dropped by a step about something else |

Bounds of the two: two of every socket, request and flow; 2 sessions (4 and the
deck for the registry, with room for 3 stores); 2 origins, one of which may be
taken over by another server; 3 fields in 2 groups; 2 memory entries, devices,
commands, providers; one MCP server in the tables; 3 to 5 samples of 4 phrases;
one second for every code; 2 enrolment requests on 2 device ids and 2 codes; 2
tool servers, a node's provider, one tool name and 2 versions of a
configuration; 2 capture threads and 2 claims; 3 requests of a node that takes
2. Two requests suffice for an answer that is overtaken, since handlers compare
with the latest only; a tool name needs two servers and a node to be taken and
given back; a third request meets a permit one cut-off thread still has. `VIEW
Chosen` leaves out the parts that rest and the names of two like requests,
threads or sockets (`Alike` is exact for two). The runs reach 1.35 and 1.0
million states; deadlock is checked: every part can always go on.

`hub_calls` reaches 1.5 million states under `VIEW MCLive`, which leaves out what
no guard reads again and no step changes: the heartbeat, inventory and, when
nothing is to be written on it, transport of a detached socket, and how a call
that is over ended.

Why these bounds are enough. Each hazard needs a fixed, small cast. A rivalry in
one window, a claim during a turn and a claim after a lapsed hold need three
claims by two microphones. A stale connection is one older and one newer socket;
nodes share no state but the sweep, so one node shows all of it, and the proofs
cover the fleet. One permit and three calls make a call queue behind another of
each kind. A late reply needs the turn it answers and the next one. A second
message on a bus of one makes a socket wait, and makes a late frame of the first
confirmation meet the second. Where TLC is limited to one value the proofs are
not: several calls in a completion and several iterations are covered for the
safety properties of the gate by `ToolApprovalProofs`.

Named bounds: `MaxClaims`, `MaxTime` (arbiter: the clock stops, windows that
would end later are not opened), `MaxConns` and the finite set `Calls` (hub),
`MaxTurns` and `MaxLeases` (voice), `MaxCalls` and `MaxMessages` (tools). They
cap what the environment does, never what the code does in answer.
`Faults` of `VoiceTurn` selects which failures a run includes, so that a run that
looks for a late reply is not cut short by a drop.

The runs of `MCParts` have further bounds in their constants: `ChatOrphans`, `LogOrphans`,
`ChatListeners`, `LogListeners`, `ChatRuns`, `KeyEvents`, `DuckQueue` and the sets of
calls. Deadlock is checked in them and in `tools`, where a client may always come or go. In the
others a behaviour ends when its bounded claims, sockets, calls or turns are
used up, and the configuration says so.

### Fairness

* Arbiter: the clock advances and a thread in `wait_for` keeps looping
  (`Event.wait` has a timeout). No fairness for claims or releases.
* Hub: coroutines that are ready run, and so do the tasks that close a socket;
  `wait_for` fires; a blocked send is settled by success or failure; the idle and pong timeouts fire for a peer that
  is silent. Nothing is assumed of nodes.
* Voice: the thread keeps running and each of its waits ends by a chunk or a
  clock; the agent owes nothing, since `get_response` has its own timeout; the
  loop runs its scheduled coroutines; a node that was told to stop stops and a
  streaming node ends its capture. Every wake bid is judged, which is what the
  run `arbiter` checks of the arbiter itself.
* Tools: the agent loop, the dispatcher and a waiting `Queue.put` run when they
  can; a completion ends, since providers have timeouts; `wait_for` fires. No
  client has to do anything.
* The runs of `MCParts` state no fairness: they check safety. What must not stay busy for ever
  is stated as a safety property where nothing is under way any more
  (`DevicesBusyEnds`, `SetupBusyEnds` and their like), and that a socket that is
  wanted has a timer that opens it (`ChatReconnects`, `LogReconnects`).

### What the violated runs show

* `hub_revoked`: `docs/capability-nodes.md:186` promises that revoking a node
  "immediately disconnects its socket, unregisters its tools, fails pending
  calls". `handle()` checks enrolment, then waits for the hello without an entry
  in `_connections`; a revocation in that wait finds nothing to disconnect, and
  the registration does not ask again. Calls are still refused in `execute()`.
* `voice_drop`: the socket of a node dies during its turn. The lease ends, the
  owner is kept for the reply (`hub.py:637`), and when the turn ends
  `_on_remote_wake_end` finds no connection: the node owns the voice until it is
  told otherwise, against `hub.py:188`.
* `voice_silence`: a node gives up after 3 s of silence, before the 6 s of the
  pipeline. Its source is stopped but stays selected, every read returns nothing,
  and `_handle_listening` returns before it looks at the clock, against
  `pipeline.py:765`.

The same model has a third one, without a run of its own: a phone leaves while
its words are being transcribed, the interrupt sets the state to idle, the owner
is released, and `_speak` reads the owner only when the reply is there: it is
played on the host, against `voice_ws.py:212`. That is why
`NodeVoiceAnswersItsNode` speaks of nodes and not of phones.

## 4. Proofs

TLAPS proves, for every value of the constants that satisfies the named
assumptions (`ArbiterAssumption`, `HubAssumption`, `ApprovalAssumption` and those of the
parts; TLC evaluates them in the runs), that the specifications satisfy their type
invariants, every safety invariant and action property that a passing run checks,
and that the arbiter implements `WakePath`. Three theorems of
`VoiceTurnProofs` have a condition of their own (below). Beyond
types the assumptions say only that nodes and phones are finite sets, that the marker values (`NoSource`, `NoNode`,
`NoSession`) are not members of the sets they mark, that the hold timeout,
the call limit, the bus size and the bounds on turns and calls are positive, and
that `Parts` names parts of `MCParts` only (`PartsAssumption`).

* **`WakeArbiterProofs`.** `HoldClosesWindow` and `ToldTheVerdict` are not
  inductive: a thread that reached its deadline resolves the window without
  asking whether it is due. `ThreadInv` adds what the threads rely on: an
  undecided claim is still in the loop, the deadline it read is the end of the
  window that is open, and a thread that resolves has seen that time pass. So
  the window is due, the claim is judged, and no claim is chosen after its
  thread was told otherwise. Refinement maps `heldBy`, `verdict` and `source` to
  the abstract `holder`, `verdict` and `bidder`: a claim after a lapsed hold is
  `Admit`, which frees the path in the same step; a decision is `Judge`.
  `YoungHoldIsKept` and `NeverHandedOver` follow because a window that could be
  judged excludes a hold.
* **`CapabilityHubProofs`.** `ConnInv` ties a socket's stage to its generation:
  generations mark sockets that registered, the counter bounds them, a
  transport that still takes frames belongs to the live connection or its close
  is due. `CallInv`
  ties a call's stage to its future, and says that between the checks of
  `Begin` and the send of the frame the enrolment and policy that were checked
  still hold as long as the connection is the live one. This holds since every
  change of enrolment or policy detaches the connection in the same step.
  From it `WithdrawnCallsHaveFailed` follows without a check at the send: a frame
  over the live connection is one that was checked and still may be sent; over any
  other the close is due, and by `NoOrphanCall` its future is no longer pending.
* **`ToolApprovalProofs`.** `AnswerInv` adds that only a running call is marked
  as approved and that an answer in the table was given by a client that owned
  the conversation at that moment. With `NothingLeftPending` (the table holds a
  request exactly while its call waits, and a settled future is the answer given
  to that request) this makes `RunsOnOwnersWord` inductive. `SavedByOwner` then
  follows from the one step that adds to an allowlist.

* **`VoiceTurnProofs`.** `QuestionInv`: a question has the number of a turn that
  was opened, what is asked or queued was asked before or is the latest question,
  and an interruption only moves the number the waiter expects past it; so a reply
  that matches answers the question. `LeaseInv`: a phone anywhere between its
  acquisition and the last step of its cleanup holds the remote lease, a lease of
  either kind owns the voice, and a remote source is selected for its owner only.
  `BoundsInv`, for the types: the turn counter is past its bound by at most the
  phones that are through the interruption of their cleanup, and leases granted
  and bids on their way together stay within theirs, by counting finite sets.
  Every client moves between `Places`, and never back from the end of its cleanup;
  what is taken out of the command queue leaves a queue of commands.
  Three properties hold under conditions only, each of which is needed: TLC finds
  a counterexample when it is dropped.
  `IdlePathIsFree` needs `ShortTurns`, no exceptions and no turn beyond the 30 s
  of a hold: the reset of an exception and a lapsed hold free a path another
  microphone then gets, while the first turn goes on or a verdict is still on its way. `HoldInv` says
  who has the path: a verdict, a turn about to open, or the holder of the turn
  that is open.
  `NodeVoiceAnswersItsNode` needs `Phones = {}`, since a phone that leaves sets the
  state to idle while the thread is in the middle of a turn, and the voice may
  change hands under it; every fault may happen. `HeardInv`: from an utterance to
  the end of its reply the pipeline is not idle, and what a node said is its
  owner's. `HostMicIsClosed` needs `OnlyNodes`, that is `ShortTurns` and neither
  phone nor button: the button opens a turn without a claim, and a phone owns the
  voice without one. `HostInv`: while the host listens for its wake word the voice is
  free or of the node that woke the pipeline, and a turn of such a node opens with
  its source or without an owner.
* **`ChannelProofs`.** Push-to-talk: `WaitInv` says which frame the key queue waits
  for, whether the key is held and the lease acquired; `CurrentInv` that the
  generation of the latest start is current only for a key that is held, over a
  connection that streams, and that tracks belong to the current generation.
  `CaptureBeginsForThePress` says for whom a capture may begin.
  Chats: `TimerInv`, a stopped store has no socket, and the
  connection timer belongs to a current socket that has not opened; with it the
  four promises of a chat are inductive. For the registry, `StoresInv` and
  `RoomInv` say that a store that is shown runs, one that runs is registered, and
  once, and that the stores on screen are too few to fill the table, so that one
  can be pushed out; that a list without repetitions has as many entries as
  members (`OnceCounts`) is proved by a bijection, that a non-empty set of numbers
  has a least member (`LeastExists`) from the well-foundedness of `<`.
  Web page: `SocketInv`, an open socket is subscribed last to the
  session frames are checked against, and a retry is due only without a socket;
  `FollowInv`, messages and history are of the session the page follows, and
  while it is about to follow another one the effect is due. The log: `LogInv`.
  The desktop's conversations: `ScreenInv`, of the details under way at most those
  of the latest request are marked as such, and they are about the conversation
  chosen last; every choice marks the others as overtaken in the same step. Media:
  what is promised of skipped commands is inductive with the types.
* **`RecordsProofs`.** The authority: `AuthorityIsPinned` and the token are about two copies of
  the trusted backend, the client's and the native side's, with answers of native
  commands on their way between them. `AuClaims` reads them as one list: what the
  client believes, what each answer in the queue will tell it, what the native
  side has. `ClaimsAgree`: two claims about one origin name one server unless a
  claim between them unpins it. `AnswersInv` is that the list agrees; a native
  command appends an answer that confirms the last claim, or unpins, and the client
  takes the first. `SnapshotInv` says what a native command that waits for the
  network still knows of the settings it read; `FlowsInv` which waiting flow can
  still be current; `TokenInv` that a token on its way is of the authority it was
  asked for, and stale once that authority is not.
  Tool servers: `IntentInv` says of each server that the last
  operation queued for it, the one the worker is at if none is queued, and its
  connection if nothing is under way, name the version that is configured
  (`Meant`, with the exceptions of a disabled server and of one connected again
  while it was deleted); `CallsInv` gives each operation the one request that
  waits for it; `WorkerInv` that the worker has closed what it connects, so a
  failed connection leaves none. `RegistryInv` and `RoutesAnswer` are `RoutesLead`
  split into what the registry says and who is there. `Working` is the invariant
  while an operation is in the worker's hand, whether it was just taken or not.
  The wake listener: `LeaseInv`, one thread listens, the lease is that of the
  listener's claim, and from a detection to its end that claim is the thread's or
  was dropped; so a verdict that comes late finds another claim or none.
  The devices: `DrInv`, one request holds
  the lock, and the row it committed is the one it is about to write in the
  mirror; an enrolment alone knows its id; a device that was turned out is
  revoked or gone in table and mirror, and no request left can bring it back.
  The permit of a node: permits, left threads, releases, synthesising requests
  and an unloading node always add up to one, by counting a finite set as
  requests enter and leave it; a cancelled task is a running one, and the tasks
  of a serving node are the running ones.
* **`ScreenProofs`.** All eight say of each request that is under way what it may
  still do when it is answered, since what a screen shows and whether it is busy
  are true only together with the requests. `CommandsInv`: the list read or saved last
  is in force unless something came apart. `SettingsInv`: no save that is under way
  holds a blank for a secret. `WebSettingsInv`: what was read, and the form of a
  mounted tab, asks for login only if the backend has a password; what a change
  carries keeps that so, has no blank secret, and a fallback that is another
  provider; without overlap one read is under way, and
  only while the page says so. `McpInv`: of a server whose secret is kept no request
  is under way that removes it, and a change that was shown the mask carries the
  mask or the secret; a table that is not the backend's is still to be read back.
  `SetupInv`: the save under way is of the provider that is chosen and carries its
  key unless the backend has it, which is why a switch during a save is the one
  exception. `MemoryInv`: the editor is of the entry that is selected; a slug that
  is free exists since the least number that is not taken does (`LeastSlug`).
  `PanelInv`: a row differs from the backend's only while a request is about it, at
  most one per device. `EnrollmentInv`: whoever holds the microphone is the take
  that is counting or recording; one request at a time is about the profile, and its
  answer is what is stored, unless they blurred.
* **`PartsProofs`.** `StepsOfParts`: a step of the composition is a step of the
  chosen part and leaves the others alone, so that the invariants of the
  parts hold together: `ConnectionsAreSoundHolds`, `RecordsAreTrueHolds`,
  `ScreensAreTrueHolds`, `AuthorityIsPinnedInParts`,
  `OvertakenAnswersAreDroppedHolds`, `NothingIsLostHolds` and `PartsTypeCorrect`.
  The web page and the MCP tables rest with all their requests given out, a state
  that is not one of their own, so that `ScreensInv` has their invariants only where
  they are the part that was chosen.

Only model-checked: all liveness (`EveryClaimIsTold`, `CallsSettle`,
`SilentPeerIsDropped`, `TurnsEnd`, `VoiceComesBack`, `MessagesAreAnswered`),
since fairness needs ENABLED, which the prover does not handle. The induction
theorems of the library cannot be used; where a proof needed one (`LeastExists`,
`LeastSlug`) the least counterexample was taken instead.

## 5. Seen while modelling, checked by no run

* `config.py` route and hub: the fleet switch is also read before the wait for
  the hello, like enrolment; `ListedToolsAreLent` holds all the same since the
  inventory is filtered by the policy at registration.
* `hub.py:132` and `:869`: the write of a call and the close of a socket are tasks
  of later turns. A call that passed the checks of `hub.py:136` is still written to
  a node that is revoked, stops lending the tool or is replaced before the close
  runs, and the node runs it; docs/capability-nodes.md:186 says that a revocation
  "immediately disconnects". `WithdrawnCallsHaveFailed` says what is left: its
  caller has been told that it failed, and after the close nothing is written.
  Without that exception, `MaySend` alone, TLC finds the frame after five steps.
* `pipeline.py:704`: a phone may acquire the voice while the host waits for its
  own verdict; the host then opens a turn on its microphone under the phone's
  ownership. `voice_liveness` has no phone.
* `docs/voice-websocket.md:97`, "cannot leave the backend permanently mute":
  a press and an interrupt during transcription leave `release` to raise, and the
  handler swallows it.
* `pipeline.py:337`: an error with a won verdict in flight keeps an idle path
  held until the hold lapses after 30 s.
* `hub.py:637`: the button pressed between the end of a turn and the `_stop`
  coroutine leaves lease and owner in place.
* `docs/capability-nodes.md:136`, "Every node shell call then requires one-time
  approval": `tool_gate.py` offers to save a node command and later passes it
  without asking, no settings page removes it, and `edge/daemon.py:202` lets an
  approved command skip the node's allowlist, which the same paragraph calls a
  hard cap.
* `tool_gate.py:139`: an approved call runs although the policy was set to deny
  while the user was asked.
* `chat.py:401`: past 32 sessions a refused interest is ignored, so the reply
  and its confirmations reach nobody; a socket that a failed send removed goes
  on publishing the same way. `ToolApproval` has both, and proves that no call
  runs because of it.
* `mcp/manager.py:328`: an operation queued behind a stop would never be settled;
  `app.py:490` starts the manager before it serves and stops it when requests
  are answered, so none is.
* Tool servers: a removal waits at `web/routes/mcp.py:196` while a save, a
  reconnection (`mcp.py:140`) or the end of OAuth (`oauth.py:566`) queues an add
  behind it; the server stays connected, its tools offered, without a
  configuration. Of two deletions the second raises at `mcp.py:198`. A save that
  disables a server never disconnects it (`mcp.py:176`), and reconnecting
  connects a disabled one. `mcp/registry.py:51`: removing a server that took over
  a name leaves the tool of the other listed without a route.
  `ConnectedAsConfigured` and `RoutesLead` hold but for exactly these.
* Devices: a revocation whose device is deleted meanwhile raises at
  `storage/devices.py:192` after its commit; a token request that a revocation
  overtakes ends in an error, not in 401. `storage/database.py:183`: a commit that
  fails is not rolled back, and every later transaction fails at its `BEGIN`
  until a restart. The command line of a node sends a field `kind`
  (`edge/cli.py:51`) that `EnrollRequest` forbids (`web/routes/devices.py:120`).
* Wake listener: `edge/wake.py:153` gives a join up after 5 s and `_start` clears
  `_stop`, so a thread that was opening its devices goes on beside the new one,
  and both share claim and lease (`wlTwin`). The join runs on the event loop while
  the thread may wait for that loop. A claim `_dispatch` gave up is sent all the
  same, so the backend may grant a lease nobody streams. `_granted` is set after
  the lock is let go, so a verdict may make the next claim stand down.
* Edge node, `edge/daemon.py:593`: a reply that is cancelled lets the playback
  lock go while its thread plays on.
* Desktop chat: a reply lost in a disconnect leaves the session "thinking"; a
  confirmation answered without a socket is lost without a word; the countdown
  of the modal starts again when it is mounted again; opening the active
  conversation returns early, so a stored session shows no history; a list asked
  for during a deletion brings the deleted row back.
* Web chat: the confirmation of one session is shown in another; pressing voice
  after a logout connects again; after `shutdownRealtimeStores` a store that is
  still viewed stays dead.
* Authority: the answer of a sign-in to server A that comes after the switch to B
  stores A's token under B; `storeToken` sets the cached token whatever happened
  during its await; the monitor clears the credential at the first failed check
  and reports it after three; finding another server does not close the live
  stores; `getWsUrl` wants WSS where `validateBaseUrl` takes private HTTP.
* Logs: a frame that comes after the seed that holds it is shown twice; a seed
  that comes after a clear brings lines back; the web hook connects again for
  ever after it was left, since its `onclose` has no guard.
* Settings: the desktop drops edits made during a save, and a search that shows
  some fields of a group saves all of them; in the web client an answered save
  of one tab remounts the tab opened since, a read that is overtaken leaves stale
  inputs, and a first read that fails leaves "Loading" for ever. A model chosen
  while the configuration is read is overwritten by the answer.
* MCP tables: a switch sends the configuration as it was shown and so undoes
  another client's change; an edit on the web page enables a disabled server; a
  mask is stored as a value when an update races with removing and adding the
  server again; a successful save closes whatever form is open; every refresh
  drops drafts and polls. `desktop/src/components/McpServers.tsx:313`: two clicks
  before the first interval is set lose its handle, and at the limit one poll
  stops the other and goes on for ever.
* Memory: opening an entry while it is being deleted and saving it overwrites
  another (`web/src/pages/settings/MemoryTab.tsx:236`); closing an editor during a
  save drops the draft of the next; late answers of `open` replace a newer draft
  on the desktop.
* Commands: a load that fails leaves an empty list that may be saved, and a save
  drops what "approve and save" added since the list was read.
* Devices and voice on the clients: overlapping updates of one node leave its row
  wrong until the next poll; a pairing code counts from its answer, not from its
  issue. A second take while the prompt of the first is open leaves the first
  microphone on in the web client (`EnrollmentMicCloses` holds but for that); on
  the desktop a take started too early drops the one before, and samples recorded
  during an upload are dropped by its answer.
* First run: a key typed for one provider is sent as that of the provider chosen
  since; a service that fails to start after the enrolment cannot be started
  again there.

## 6. Not modelled

Of the backend: the voice channel's spoken confirmations; chunk bookkeeping and
node selection of a synthesis; the routing of replies and agent events by
session; restarts, except in `DeviceRegistry` (calls, leases and confirmations
live in memory and end with it); session tickets, which nothing uses yet; the
voice event hub, whose frames replace one another; clients of tool servers,
OAuth and providers, which are external services; tokens, login and its limiter;
speech engines, storage, configuration and text, which are data; start and stop
of the application.

Of a node: frames and credentials, the command line, the local tools.

Of the clients: drawing, wording and what is only displayed; the command palette
and deck, the HUD, the galleries; the search of the MCP registry, the polls of
its OAuth and the exports; desktop tabs that nothing imports (`VoiceTab`,
`LLMTab`, `ChannelsTab`, `GeneralTab`); the Android client, which uses the routes
and sockets modelled here and would need modules of its own.

In `VoiceTurn`, `CapabilityHub` and `ToolApproval` the other end of a socket may do
whatever the protocol allows in any order, and in the modules of the clients and
the node so may the backend: the two ends are not composed.

## 7. Plan

1. `WakePath`, `WakeArbiter`, proofs: done.
2. `CapabilityHub`, proofs: done. Next: synthesis with its chunks, node
   selection.
3. `VoiceTurn`, proofs: done. Next: the
   check and the application of a push-to-talk command as two steps; an abstract
   specification of who may use the voice.
4. `ToolApproval`, proofs: done. Next: the voice channel, routing of replies.
5. The clients, one module per screen or channel, with proofs for chat, log and
   push-to-talk and `BackendAuthority`: done. Next: the Android client.
6. `DeviceRegistry`, `EdgeNode`, `McpLifecycle`, `WakeListener`, proofs: done.
7. Next: `WakeListener` against the wake leases of `VoiceTurn`, and `EdgeNode`
   against `CapabilityHub`, as the two ends of one protocol.
8. Voice event hub and tickets: small, with few hazards.
