------------------------------ MODULE VoiceTurn ------------------------------
(***************************************************************************)
(* One spoken turn and everybody who can touch it: the thread of           *)
(* src/dax/voice/pipeline.py, the wake leases of the capability hub        *)
(* (capabilities/hub.py), the remote push-to-talk socket                   *)
(* (web/routes/voice_ws.py), the reply queue (channels/voice_channel.py)   *)
(* and the push-to-talk button of the host.                                *)
(*                                                                         *)
(* A step of the thread runs from one blocking call to the next, a step of *)
(* the event loop from one await to the next.  Audio, text and time are    *)
(* left out: what a chunk or a clock decides is a choice.  A node bids     *)
(* again, and comes back, only when its previous bid has been settled.     *)
(* Node playback is the wait for an outcome; its frames are in             *)
(* CapabilityHub.  The wake path is the contract of WakePath.              *)
(***************************************************************************)
EXTENDS Naturals, Sequences, FiniteSets, SequencesExt

CONSTANTS Nodes,      \* capability nodes with a microphone and a speaker
          Phones,     \* sockets of the voice route, one remote lease each
          Host,       \* HOST_SOURCE_ID: the microphone and speakers of the host
          NoOne,
          MaxTurns,   \* bound: turns opened in one behaviour
          MaxLeases,  \* bound: wake leases granted in one behaviour
          Faults      \* which of "drop", "silence", "button", "error", "long" happen

ASSUME VoiceAssumption == /\ Host \notin Nodes \cup Phones
                          /\ NoOne \notin Nodes \cup Phones \cup {Host}
                          /\ Nodes \cap Phones = {}
                          /\ IsFiniteSet(Nodes) /\ IsFiniteSet(Phones)
                          /\ MaxTurns \in Nat
                          /\ MaxLeases \in Nat
                          /\ Faults \subseteq {"drop", "silence", "button", "error", "long"}

VARIABLES st,        \* PipelineState
          pc,        \* where the pipeline thread is
          ptt,       \* _ptt_active
          armed,     \* _followup_armed
          turn,      \* _turn
          owner,     \* _input_owner and _output_owner, which move together
          src,       \* _audio_source
          wakeReq,   \* _remote_wake_owner
          holder,    \* _wake_holder
          path,      \* WakeArbiter._held_by
          bid,       \* microphone -> its claim: "none", "open", "won", "lost"
          from,      \* the microphone the utterance was captured from
          question,  \* voice_turn of the message published for it
          expected,  \* expected_turn of the waiter
          spoken,    \* voice_turn of the reply the waiter took
          voice,     \* where that reply is played
          asked,     \* questions the agent works on
          replies,   \* VoiceChannel._response_queue
          conn,      \* node -> it is connected
          wake,      \* node -> lease id of its _Connection.wake, or NoLease
          ended,     \* node -> that lease ended, its source is stopped
          capture,   \* node -> it streams, and has yet to send its audio_end
          stops,     \* scheduled _stop coroutines of _on_remote_wake_end
          granted,   \* leases granted so far
          lease,     \* _RemoteLease.owner
          ph,        \* client of the PTT queue -> where its handler is
          cmds       \* _ptt_commands

setter  == <<st, holder, path, stops>>       \* what assigning the state touches
talk    == <<from, question, expected, spoken, voice>>
agent   == <<asked, replies>>
links   == <<conn, wake, ended, capture, granted>>
clients == <<lease, ph, cmds>>
outside == <<owner, src, wakeReq, bid, links, clients>>
vars    == <<setter, pc, ptt, armed, turn, talk, agent, outside>>

NoLease == 0
Clients == Phones \cup {Host}
Sources == Nodes \cup Clients
Turns   == 0..(MaxTurns + Cardinality(Phones))

TypeOK == /\ st \in {"idle", "listening", "processing", "speaking", "conversing"}
          /\ pc \in {"top", "mic", "claim", "won", "stt", "send", "sent",
                     "wait", "cancelled", "speak", "play"}
          /\ ptt \in BOOLEAN /\ armed \in BOOLEAN
          /\ turn \in Turns /\ question \in Turns
          /\ expected \in Turns /\ spoken \in Turns
          /\ owner \in Nodes \cup Phones \cup {NoOne}
          /\ src \in Sources /\ from \in Sources /\ voice \in Sources
          /\ wakeReq \in Nodes \cup {NoOne}
          /\ holder \in Nodes \cup {Host, NoOne}
          /\ path \in Nodes \cup {Host, NoOne}
          /\ bid \in [Nodes \cup {Host} -> {"none", "open", "won", "lost"}]
          /\ asked \subseteq Turns /\ replies \subseteq Turns
          /\ conn \in [Nodes -> BOOLEAN]
          /\ wake \in [Nodes -> 0..MaxLeases]
          /\ ended \in [Nodes -> BOOLEAN]
          /\ capture \in [Nodes -> BOOLEAN]
          /\ stops \subseteq Nodes \X (1..MaxLeases)
          /\ granted \in 0..MaxLeases
          /\ lease \in Phones \cup {NoOne}
          /\ ph \in [Clients -> {"off", "held", "starting", "pressing", "refused",
                                 "active", "releasing", "cancel", "canceling",
                                 "interrupt", "release", "gone"}]
          /\ cmds \in Seq(Clients \X {"press", "release", "cancel"})

Init == /\ st = "idle" /\ pc = "top"
        /\ ptt = FALSE /\ armed = FALSE
        /\ turn = 0 /\ question = 0 /\ expected = 0 /\ spoken = 0
        /\ owner = NoOne /\ src = Host /\ from = Host /\ voice = Host
        /\ wakeReq = NoOne /\ holder = NoOne /\ path = NoOne
        /\ bid = [s \in Nodes \cup {Host} |-> "none"]
        /\ asked = {} /\ replies = {}
        /\ conn = [n \in Nodes |-> TRUE]
        /\ wake = [n \in Nodes |-> NoLease]
        /\ ended = [n \in Nodes |-> FALSE]
        /\ capture = [n \in Nodes |-> FALSE]
        /\ stops = {} /\ granted = 0
        /\ lease = NoOne
        /\ ph = [c \in Clients |-> "off"]
        /\ cmds = <<>>

-----------------------------------------------------------------------------
(* The state setter, and who may take the microphone and the speakers.     *)

\* A slip: the hub is not told that the turn is over.
NoCallback == stops
\* _on_remote_wake_end, for the lease its connection has at that moment.
Callback == IF holder \in Nodes /\ wake[holder] # NoLease
            THEN stops \cup {<<holder, wake[holder]>>} ELSE stops

PathAfterTurn == IF path = holder THEN NoOne ELSE path

\* Every way back to IDLE ends the hold of whoever woke the pipeline.
ToIdle == /\ st' = "idle"
          /\ \/ /\ st # "idle"
                /\ holder' = NoOne
                /\ path' = PathAfterTurn
                /\ stops' = Callback
             \/ /\ st = "idle"
                /\ UNCHANGED <<holder, path, stops>>

To(s) == st' = s /\ UNCHANGED <<holder, path, stops>>

Capturing == ptt \/ st \in {"listening", "conversing"}

\* select_audio_source(None), whose refusal every caller swallows.
SourceDeselected == IF Capturing THEN src ELSE Host

\* A slip: a client takes the voice from under another one.
AcquireAnyway(s) == st = "idle" /\ ~ptt
MayAcquire(s) == st = "idle" /\ ~ptt /\ owner \in {NoOne, s}

MayRelease(s) == owner = s /\ st = "idle" /\ ~ptt

\* Slips: the host gets its speakers back and not its microphone; no source.
SourceLeft == src
SourceCleared == NoOne
SourceRestored == Host

\* release_remote_owner, whose refusal every caller swallows too.
ReleaseOwner(s) == \/ /\ MayRelease(s)
                      /\ owner' = NoOne /\ src' = SourceRestored /\ armed' = FALSE
                   \/ /\ ~MayRelease(s)
                      /\ UNCHANGED <<owner, src, armed>>

HasAudio == \/ src = Host
            \/ src \in Nodes /\ capture[src] /\ ~ended[src] /\ wake[src] # NoLease
            \/ src \in Phones /\ ph[src] = "active"

-----------------------------------------------------------------------------
(* The wake path: WakePath.Admit and Refuse, and Judge.                    *)

\* A hold of 30 s lapses when the next claim comes, its long turn still running.
PathFree == path = NoOne \/ ("long" \in Faults /\ path = holder /\ st # "idle")

Bid(s) == \/ /\ path # NoOne
             /\ bid' = [bid EXCEPT ![s] = "lost"]
             /\ UNCHANGED path
          \/ /\ PathFree
             /\ bid' = [bid EXCEPT ![s] = "open"]
             /\ path' = NoOne

OpenBidsLose == [s \in DOMAIN bid |-> IF bid[s] = "open" THEN "lost" ELSE bid[s]]

Judge(s) == /\ bid[s] = "open"
            /\ path' = s
            /\ bid' = [OpenBidsLose EXCEPT ![s] = "won"]
            /\ UNCHANGED <<st, holder, stops, pc, ptt, armed, turn, talk, agent, owner, src, wakeReq,
                           links, clients>>

-----------------------------------------------------------------------------
(* The thread: IDLE.                                                       *)

\* A node won and already streams: its turn opens before anything else.
OpenNodeTurn == /\ pc = "top" /\ st = "idle" /\ wakeReq # NoOne
                /\ wakeReq' = NoOne
                /\ armed' = TRUE
                /\ To("listening")
                /\ UNCHANGED <<pc, ptt, turn, talk, agent, owner, src, bid, links, clients>>

\* A slip: the host listens for its wake word while a client owns the voice.
OwnerUnread == TRUE
HostMayListen == owner = NoOne

ListenForWake == /\ pc = "top" /\ st = "idle" /\ wakeReq = NoOne
                 /\ HostMayListen
                 /\ pc' = "mic"
                 /\ UNCHANGED <<setter, ptt, armed, turn, talk, agent, outside>>

\* Nothing in the chunk, or the wake word and a bid to answer it.
ReadIdleChunk == /\ pc = "mic"
                 /\ \/ /\ pc' = "top"
                       /\ UNCHANGED <<path, bid>>
                    \/ /\ HasAudio /\ turn < MaxTurns
                       /\ Bid(Host)
                       /\ pc' = "claim"
                 /\ UNCHANGED <<st, holder, stops, ptt, armed, turn, talk, agent, owner, src,
                                wakeReq, links, clients>>

HostVerdict == /\ pc = "claim" /\ bid[Host] \in {"won", "lost"}
               /\ bid' = [bid EXCEPT ![Host] = "none"]
               /\ \/ /\ bid[Host] = "won"
                     /\ holder' = Host
                     /\ pc' = "won"
                  \/ /\ bid[Host] = "lost"
                     /\ pc' = "top"
                     /\ UNCHANGED holder
               /\ UNCHANGED <<st, path, stops, ptt, armed, turn, talk, agent, owner, src, wakeReq,
                              links, clients>>

\* The earcon has been played.
OpenHostTurn == /\ pc = "won"
                /\ pc' = "top"
                /\ armed' = TRUE
                /\ To("listening")
                /\ UNCHANGED <<ptt, turn, talk, agent, outside>>

(* The thread: LISTENING and CONVERSING.                                   *)

\* Without a chunk the handler returns before it looks at any clock.
Listen == /\ pc = "top" /\ st = "listening" /\ HasAudio
          /\ \/ /\ To("processing")      \* end of speech, or 30 s recorded
                /\ pc' = "stt"
                /\ from' = src
                /\ ptt' = FALSE
             \/ /\ ~ptt                  \* 6 s and nobody spoke
                /\ ToIdle
                /\ UNCHANGED <<pc, from, ptt>>
          /\ UNCHANGED <<armed, turn, question, expected, spoken, voice, agent, outside>>

Converse == /\ pc = "top" /\ st = "conversing"
            /\ \/ /\ ToIdle
                  /\ UNCHANGED armed
               \/ /\ HasAudio
                  /\ armed' = FALSE
                  /\ To("listening")
            /\ UNCHANGED <<pc, ptt, turn, talk, agent, outside>>

(* The thread: an utterance on its way to the agent and back.              *)

\* Rejected, not understood or empty; or it becomes the next turn.
Transcribe == /\ pc = "stt"
              /\ \/ /\ ToIdle
                    /\ pc' = "top"
                    /\ UNCHANGED <<turn, question>>
                 \/ /\ turn < MaxTurns
                    /\ turn' = turn + 1
                    /\ question' = turn + 1
                    /\ pc' = "send"
                    /\ UNCHANGED setter
              /\ UNCHANGED <<ptt, armed, from, expected, spoken, voice, agent, outside>>

\* The drain may fail, which is swallowed; the publication may fail too.
Publish == /\ pc = "send"
           /\ replies' \in {{}, replies}
           /\ \/ /\ asked' = asked \cup {question}
                 /\ pc' = "sent"
                 /\ UNCHANGED setter
              \/ /\ ToIdle
                 /\ pc' = "top"
                 /\ UNCHANGED asked
           /\ UNCHANGED <<ptt, armed, turn, talk, outside>>

StartWaiting == /\ pc = "sent"
                /\ pc' = "wait"
                /\ To("speaking")
                /\ expected' = turn
                /\ UNCHANGED <<ptt, armed, turn, from, question, spoken, voice, agent, outside>>

\* The agent answers a question, however late.
Reply(q) == /\ q \in asked
            /\ asked' = asked \ {q}
            /\ replies' = replies \cup {q}
            /\ UNCHANGED <<setter, pc, ptt, armed, turn, talk, outside>>

\* A slip: whatever reply comes first is the answer.
AnyReply(r) == TRUE
Matches(r) == r = expected

\* get_response throws away the replies of other turns and keeps waiting.
TakeReply(r) == /\ pc = "wait" /\ r \in replies
                /\ replies' = replies \ {r}
                /\ \/ /\ Matches(r)
                      /\ spoken' = r
                      /\ pc' = "speak"
                   \/ /\ ~Matches(r)
                      /\ UNCHANGED <<spoken, pc>>
                /\ UNCHANGED <<setter, ptt, armed, turn, from, question, expected, voice, asked, outside>>

\* A slip: a waiter without a deadline.
NeverGivesUp == pc = "cancelled"
GivesUp == pc \in {"wait", "cancelled"}

\* The response timeout, or the cancellation by interrupt_remote_turn.
StopWaiting == /\ GivesUp
               /\ pc' = "top"
               /\ ToIdle
               /\ UNCHANGED <<ptt, armed, turn, talk, agent, outside>>

\* What follows a reply that was spoken to its end.
AfterReply == /\ pc' = "top"
              /\ \/ ToIdle /\ armed' \in {FALSE, armed}     \* farewell, or no follow-up
                 \/ owner = NoOne /\ armed /\ To("conversing") /\ UNCHANGED armed
              /\ UNCHANGED <<ptt, turn, from, question, expected, spoken, agent, outside>>

\* The owner is read here, not when the question was asked.  A client that
\* speaks for itself only gets the sentences as events.
Speak == /\ pc = "speak"
         /\ \/ /\ owner = NoOne \/ holder = owner
               /\ voice' = IF owner = NoOne THEN Host ELSE owner
               /\ pc' = "play"
               /\ UNCHANGED <<setter, ptt, armed, turn, from, question, expected, spoken, agent,
                              outside>>
            \/ /\ owner # NoOne /\ holder # owner
               /\ AfterReply
               /\ UNCHANGED voice

\* Played to the end, cut by the wake word, or failed.
Play == /\ pc = "play"
        /\ \/ (voice \in Nodes => conn[voice]) /\ AfterReply
           \/ /\ \/ voice = Host /\ To("listening")
                 \/ ToIdle
              /\ pc' = "top"
              /\ UNCHANGED <<ptt, armed, turn, from, question, expected, spoken, agent, outside>>
        /\ UNCHANGED voice

\* An exception in a handler: _run_loop starts over.
HandlerFails == /\ "error" \in Faults
                /\ pc \in {"mic", "won"} \/ (pc = "top" /\ st # "idle")
                /\ pc' = "top"
                /\ ptt' = FALSE
                /\ bid' = OpenBidsLose
                /\ st' = "idle" /\ path' = NoOne
                /\ \/ st # "idle" /\ holder' = NoOne /\ stops' = Callback
                   \/ st = "idle" /\ UNCHANGED <<holder, stops>>
                /\ UNCHANGED <<armed, turn, talk, agent, owner, src, wakeReq, links, clients>>

-----------------------------------------------------------------------------
(* The hub: one wake lease per connection.                                 *)

NodeClaims(n) == /\ conn[n] /\ wake[n] = NoLease /\ ~capture[n] /\ bid[n] = "none"
                 /\ turn < MaxTurns
                 /\ granted + Cardinality({m \in Nodes : bid[m] # "none"}) < MaxLeases
                 /\ Bid(n)
                 /\ UNCHANGED <<st, holder, stops, pc, ptt, armed, turn, talk, agent, owner, src,
                                wakeReq, links, clients>>

\* A slip: a claim that won and cannot be used keeps the wake path.
PathOfLoser(n) == path
PathGivenBack(n) == IF path = n THEN NoOne ELSE path

Yield(n) == /\ path' = IF bid[n] = "won" THEN PathGivenBack(n) ELSE path
            /\ UNCHANGED <<holder, armed, owner, src, wakeReq, wake, ended, capture, granted>>

\* Input, output and source first, then the turn is requested.
Grant(n) == /\ owner' = n /\ src' = n
            /\ armed' = FALSE
            /\ granted' = granted + 1
            /\ wake' = [wake EXCEPT ![n] = granted + 1]
            /\ ended' = [ended EXCEPT ![n] = FALSE]
            /\ capture' = [capture EXCEPT ![n] = TRUE]
            /\ wakeReq' = n /\ holder' = n
            /\ UNCHANGED path

NodeVerdict(n) == /\ bid[n] \in {"won", "lost"}
                  /\ bid' = [bid EXCEPT ![n] = "none"]
                  /\ \/ bid[n] = "won" /\ conn[n] /\ MayAcquire(n) /\ Grant(n)
                     \/ ~(bid[n] = "won" /\ conn[n] /\ MayAcquire(n)) /\ Yield(n)
                  /\ UNCHANGED <<st, stops, pc, ptt, turn, talk, agent, conn, clients>>

\* A slip: the voice goes back to the host although the reply is to come.
ReleaseAtOnce == TRUE
ReplyIsOver == st = "idle"

\* _end_wake_lease: the node's microphone goes now, its speakers after the reply.
HandBack(n) == \/ /\ ReplyIsOver /\ owner = n
                  /\ owner' = NoOne /\ src' = SourceRestored /\ armed' = FALSE
               \/ /\ ~(ReplyIsOver /\ owner = n)
                  /\ src' = SourceDeselected
                  /\ UNCHANGED <<owner, armed>>

EndLease(n) == /\ HandBack(n)
               /\ ended' = [ended EXCEPT ![n] = ~ReplyIsOver]
               /\ wake' = [wake EXCEPT ![n] = IF ReplyIsOver THEN NoLease ELSE wake[n]]

NoLeaseToEnd == UNCHANGED <<owner, src, armed, wake, ended>>

\* The node stops streaming: it was told to, or its own silence timer ran out.
AudioEnd(n) == /\ conn[n] /\ capture[n]
               /\ wake[n] = NoLease \/ ended[n] \/ "silence" \in Faults
               /\ capture' = [capture EXCEPT ![n] = FALSE]
               /\ \/ wake[n] # NoLease /\ EndLease(n)
                  \/ wake[n] = NoLease /\ NoLeaseToEnd
               /\ UNCHANGED <<setter, pc, ptt, turn, talk, agent, wakeReq, bid, conn, granted,
                              clients>>

\* The _stop coroutine: listen_stop to the node, then the end of its lease.
StopNode(n, l) == /\ <<n, l>> \in stops
                  /\ stops' = stops \ {<<n, l>>}
                  /\ \/ conn[n] /\ wake[n] = l /\ EndLease(n)
                     \/ ~(conn[n] /\ wake[n] = l) /\ NoLeaseToEnd
                  /\ UNCHANGED <<st, holder, path, pc, ptt, turn, talk, agent, wakeReq, bid, conn,
                                 capture, granted, clients>>

\* fail_pending ends the lease; the connection, and its wake, are forgotten.
Drop(n) == /\ "drop" \in Faults /\ conn[n]
           /\ conn' = [conn EXCEPT ![n] = FALSE]
           /\ capture' = [capture EXCEPT ![n] = FALSE]
           /\ wake' = [wake EXCEPT ![n] = NoLease]
           /\ ended' = [ended EXCEPT ![n] = FALSE]
           /\ \/ wake[n] # NoLease /\ HandBack(n)
              \/ wake[n] = NoLease /\ UNCHANGED <<owner, src, armed>>
           /\ UNCHANGED <<setter, pc, ptt, turn, talk, agent, wakeReq, bid, granted, clients>>

Reconnect(n) == /\ ~conn[n] /\ bid[n] = "none"
                /\ conn' = [conn EXCEPT ![n] = TRUE]
                /\ UNCHANGED <<setter, pc, ptt, armed, turn, talk, agent, owner, src, wakeReq, bid,
                               wake, ended, capture, granted, clients>>

-----------------------------------------------------------------------------
(* The push-to-talk queue, and the thread that drains it.                  *)

Ask(c, act, where) == /\ cmds' = Append(cmds, <<c, act>>)
                      /\ ph' = [ph EXCEPT ![c] = where]

\* The answer to a command, for a client that still waits for it.
Told(c, waiting, where) == IF ph[c] = waiting THEN [ph EXCEPT ![c] = where] ELSE ph

ApplyPress(c) ==
    /\ \/ /\ st = "idle"
          /\ ptt' = TRUE /\ armed' = TRUE
          /\ To("listening")
          /\ ph' = Told(c, "pressing", "active")
       \/ /\ st # "idle"
          /\ ph' = Told(c, "pressing", IF ptt THEN "active" ELSE "refused")
          /\ UNCHANGED <<setter, ptt, armed>>
    /\ UNCHANGED <<pc, from>>

ApplyCancel(c) == /\ ptt' = FALSE
                  /\ \/ st = "listening" /\ ToIdle
                     \/ st # "listening" /\ UNCHANGED setter
                  /\ ph' = Told(c, "canceling", "interrupt")
                  /\ UNCHANGED <<pc, from, armed>>

\* With something recorded the utterance goes on, without it the turn is over.
ApplyRelease(c) == /\ ptt' = FALSE
                   /\ \/ /\ ptt /\ st = "listening"
                         /\ \/ To("processing") /\ pc' = "stt" /\ from' = src
                            \/ ToIdle /\ UNCHANGED <<pc, from>>
                      \/ /\ ~(ptt /\ st = "listening")
                         /\ UNCHANGED <<setter, pc, from>>
                   /\ ph' = Told(c, "releasing", IF c = Host THEN "off" ELSE "held")
                   /\ UNCHANGED armed

Drain == /\ pc = "top" /\ cmds # <<>>
         /\ cmds' = Tail(cmds)
         /\ LET c == Head(cmds)[1]
            IN  \/ Head(cmds)[2] = "press" /\ ApplyPress(c)
                \/ Head(cmds)[2] = "cancel" /\ ApplyCancel(c)
                \/ Head(cmds)[2] = "release" /\ ApplyRelease(c)
         /\ UNCHANGED <<turn, question, expected, spoken, voice, agent, owner, src, wakeReq, bid,
                        links, lease>>

\* What a client waits for, and where it goes when that is withdrawn.
Awaits(c, act) == <<ph[c], act>> \in {<<"pressing", "press">>, <<"releasing", "release">>,
                                     <<"canceling", "cancel">>}
AfterTimeout(c, act) == IF c = Host THEN "off"
                        ELSE IF act = "press" THEN "refused"
                        ELSE IF act = "release" THEN "cancel" ELSE "interrupt"

\* The thread did not come by within two seconds: the command is withdrawn,
\* the oldest of a client first, whether or not its client is still there.
CommandTimeout(c) ==
    /\ \E i \in DOMAIN cmds :
          /\ cmds[i][1] = c
          /\ \A j \in 1..(i - 1) : cmds[j][1] # c
          /\ cmds' = RemoveAt(cmds, i)
          /\ ph' = IF Awaits(c, cmds[i][2]) THEN [ph EXCEPT ![c] = AfterTimeout(c, cmds[i][2])] ELSE ph
    /\ UNCHANGED <<setter, pc, ptt, armed, turn, talk, agent, owner, src, wakeReq, bid, links,
                   lease>>

\* The button of the host, over HTTP.
ButtonPress == /\ "button" \in Faults
               /\ ph[Host] = "off" /\ st = "idle" /\ ~ptt /\ turn < MaxTurns
               /\ Ask(Host, "press", "pressing")
               /\ UNCHANGED <<setter, pc, ptt, armed, turn, talk, agent, owner, src, wakeReq, bid,
                              links, lease>>

ButtonRelease == /\ ph[Host] = "active"
                 /\ Ask(Host, "release", "releasing")
                 /\ UNCHANGED <<setter, pc, ptt, armed, turn, talk, agent, owner, src, wakeReq,
                                bid, links, lease>>

-----------------------------------------------------------------------------
(* The socket of a phone: one remote lease, from acquire to its cleanup.   *)

PhoneAcquire(p) == /\ ph[p] = "off" /\ lease = NoOne /\ MayAcquire(p)
                   /\ lease' = p
                   /\ owner' = p /\ armed' = FALSE
                   /\ ph' = [ph EXCEPT ![p] = "held"]
                   /\ UNCHANGED <<setter, pc, ptt, turn, talk, agent, src, wakeReq, bid, links,
                                  cmds>>

\* remote_audio.start, up to the press; a pipeline that captures refuses it.
PhoneStart(p) == /\ ph[p] = "held" /\ turn < MaxTurns
                 /\ \/ Capturing /\ ph' = [ph EXCEPT ![p] = "interrupt"] /\ UNCHANGED src
                    \/ ~Capturing /\ ph' = [ph EXCEPT ![p] = "starting"] /\ src' = p
                 /\ UNCHANGED <<setter, pc, ptt, armed, turn, talk, agent, owner, wakeReq, bid,
                                links, lease, cmds>>

PhonePress(p) == /\ ph[p] = "starting"
                 /\ \/ ~ptt /\ st = "idle" /\ Ask(p, "press", "pressing")
                    \/ /\ ptt \/ st # "idle"
                       /\ ph' = [ph EXCEPT ![p] = IF ptt THEN "active" ELSE "refused"]
                       /\ UNCHANGED cmds
                 /\ UNCHANGED <<setter, pc, ptt, armed, turn, talk, agent, owner, src, wakeReq,
                                bid, links, lease>>

\* The error of a refused press closes the socket.
PhoneRefused(p) == /\ ph[p] = "refused"
                   /\ src' = SourceDeselected
                   /\ ph' = [ph EXCEPT ![p] = "interrupt"]
                   /\ UNCHANGED <<setter, pc, ptt, armed, turn, talk, agent, owner, wakeReq, bid,
                                  links, lease, cmds>>

PhoneStop(p) == /\ ph[p] = "active"
                /\ Ask(p, "release", "releasing")
                /\ UNCHANGED <<setter, pc, ptt, armed, turn, talk, agent, owner, src, wakeReq, bid,
                               links, lease>>

\* interrupt_remote_turn: whoever waits for the reply is cancelled.
Interrupt == /\ turn' = turn + 1
             /\ pc' = IF pc = "wait" THEN "cancelled" ELSE pc
             /\ ptt' = FALSE
             /\ ToIdle

PhoneInterrupt(p) == /\ ph[p] = "held" /\ turn < MaxTurns
                     /\ owner # NoOne
                     /\ Interrupt
                     /\ UNCHANGED <<armed, talk, agent, outside>>

\* remote_audio.release, or the socket is gone: a stream is cancelled first.
PhoneLeaves(p) == /\ ph[p] \in {"held", "pressing", "active", "releasing"}
                  /\ ph' = [ph EXCEPT ![p] = IF ph[p] \in {"active", "releasing"}
                                             THEN "cancel" ELSE "interrupt"]
                  /\ UNCHANGED <<setter, pc, ptt, armed, turn, talk, agent, owner, src, wakeReq,
                                 bid, links, lease, cmds>>

CleanupCancel(p) == /\ ph[p] = "cancel"
                    /\ Ask(p, "cancel", "canceling")
                    /\ UNCHANGED <<setter, pc, ptt, armed, turn, talk, agent, owner, src, wakeReq,
                                   bid, links, lease>>

MustInterrupt(p) == owner = p /\ st # "idle"

CleanupInterrupt(p) == /\ ph[p] = "interrupt"
                       /\ ph' = [ph EXCEPT ![p] = "release"]
                       /\ \/ MustInterrupt(p) /\ Interrupt
                          \/ ~MustInterrupt(p) /\ UNCHANGED <<setter, pc, ptt, turn>>
                       /\ UNCHANGED <<armed, talk, agent, owner, src, wakeReq, bid, links, lease,
                                      cmds>>

CleanupRelease(p) == /\ ph[p] = "release"
                     /\ ph' = [ph EXCEPT ![p] = "gone"]
                     /\ lease' = NoOne
                     /\ ReleaseOwner(p)
                     /\ UNCHANGED <<setter, pc, ptt, turn, talk, agent, wakeReq, bid, links, cmds>>

-----------------------------------------------------------------------------
ThreadStep == \/ OpenNodeTurn \/ ListenForWake \/ ReadIdleChunk \/ HostVerdict \/ OpenHostTurn
              \/ Listen \/ Converse \/ Transcribe \/ Publish \/ StartWaiting
              \/ \E r \in Turns : TakeReply(r)
              \/ StopWaiting \/ Speak \/ Play \/ HandlerFails \/ Drain

NodeStep(n) == \/ NodeClaims(n) \/ NodeVerdict(n) \/ AudioEnd(n) \/ Drop(n) \/ Reconnect(n)
               \/ \E l \in 1..MaxLeases : StopNode(n, l)

PhoneStep(p) == \/ PhoneAcquire(p) \/ PhoneStart(p) \/ PhonePress(p) \/ PhoneRefused(p)
                \/ PhoneStop(p) \/ PhoneInterrupt(p) \/ PhoneLeaves(p) \/ CleanupCancel(p)
                \/ CleanupInterrupt(p) \/ CleanupRelease(p)

Next == \/ ThreadStep
        \/ \E s \in Nodes \cup {Host} : Judge(s)
        \/ \E q \in Turns : Reply(q)
        \/ \E n \in Nodes : NodeStep(n)
        \/ \E p \in Phones : PhoneStep(p)
        \/ ButtonPress \/ ButtonRelease
        \/ \E c \in Clients : CommandTimeout(c)

Spec == Init /\ [][Next]_vars

\* The thread keeps running and a chunk or a clock ends each of its waits; the
\* arbiter judges, the event loop runs its coroutines, a node told to stop stops.
FairSpec == /\ Spec
            /\ WF_vars(ThreadStep)
            /\ WF_vars(Listen)
            /\ WF_vars(StopWaiting)
            /\ \A s \in Nodes \cup {Host} : WF_vars(Judge(s))
            /\ \A n \in Nodes : /\ WF_vars(NodeVerdict(n))
                                /\ WF_vars(AudioEnd(n))
                                /\ \A l \in 1..MaxLeases : WF_vars(StopNode(n, l))

-----------------------------------------------------------------------------
(* Properties.                                                             *)

\* The reply that is spoken answers the question asked last: a late reply to
\* an earlier turn is never taken for it, drained from the queue or not
\* (VoiceChannel.get_response discards it, voice_channel.py:114).
AnswersTheQuestion == pc \in {"speak", "play"} => spoken = question

\* Whoever holds a lease, a wake lease of the hub or the remote lease of the
\* voice route, owns input and output: neither kind takes them from under the
\* other (acquire_remote_owner, the two-stage end of _end_wake_lease, and
\* cleanup_remote know nothing of each other).
LeaseOwnsTheVoice == /\ \A n \in Nodes : wake[n] # NoLease => owner = n
                     /\ lease # NoOne => owner = lease

\* A remote microphone is selected only while its client owns the voice, so
\* nobody is recorded for somebody else's turn (select_audio_source has no
\* owner of its own to check).
SourceBelongsToOwner == src # Host => owner = src

\* An idle pipeline blocks no microphone: the wake path is held only by a
\* verdict on its way to its bidder, or by a turn about to open
\* (_release_wake_hold on every way back to IDLE, pipeline.py:338).
IdlePathIsFree == pc = "top" /\ st = "idle" /\ path # NoOne
                      => bid[path] = "won" \/ wakeReq = path

\* What a node heard is answered by that node or by nobody, never in another
\* room, although its lease ends, or its socket dies, long before the reply
\* (hub.py:625 and _speak, which reads the owner when the reply is there).
NodeVoiceAnswersItsNode == pc = "play" => /\ from \in Nodes => voice = from
                                          /\ voice \in Nodes => owner = voice

\* The host microphone never records a turn while a node owns the voice
\* (pipeline.py:704; the owner is read before the wait for the verdict).
HostMicIsClosed == ~(st = "listening" /\ src = Host /\ owner # NoOne)

\* A turn ends, whatever the agent does.
TurnsEnd == st # "idle" ~> st = "idle"

\* A node that was granted a turn gives the voice back to the host.
VoiceComesBack == \A n \in Nodes : owner = n ~> owner = NoOne

\* hub.py:188: a node that drops mid-sentence must not leave the pipeline
\* holding its lease.
NoDeadOwner == \A n \in Nodes : ~conn[n] ~> (conn[n] \/ owner # n)

\* pipeline.py:765: if the user never started speaking, do not hang for ever.
ListeningEnds == st = "listening" ~> st # "listening"
=============================================================================
