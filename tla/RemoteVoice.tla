----------------------------- MODULE RemoteVoice -----------------------------
(***************************************************************************)
(* Push-to-talk of the desktop client over the network: the voice socket   *)
(* (hooks/useVoiceSocket.ts), the microphone and the controller that hold  *)
(* it while the key is down (audio/remoteAudio.ts) and the queue that runs *)
(* one key event after the other (native/runtime.ts).                      *)
(*                                                                         *)
(* A step of a handler runs up to its next wait: for the connection, for   *)
(* the answer to a control frame, for the permission of the user, for the  *)
(* audio worklet.  "rvPc" names what the queue waits for; disconnects,     *)
(* timeouts and the logout come while it waits.  The backend, the browser  *)
(* and the keyboard are external.                                          *)
(***************************************************************************)
EXTENDS Naturals, Sequences

CONSTANTS VoiceSockets,   \* WebSocket objects, used again once closed
          NoVoiceSocket,
          KeyEvents       \* bound: key events waiting in the queue

ASSUME RemoteVoiceAssumption == NoVoiceSocket \notin VoiceSockets /\ KeyEvents \in Nat \ {0}

VARIABLES rvStopped,   \* stopped
          rvSocket,    \* socket
          rvWs,        \* WebSocket -> its readyState
          rvConnTimer, \* connectionTimer is pending
          rvRetry,     \* a retry timer is pending
          rvConnected, \* snapshot.connected
          rvAcquired,  \* remoteAcquired
          rvStreaming, \* remoteStreaming
          rvControl,   \* the frame that control expects, or "none"
          rvHeld,      \* held
          rvTracks,    \* the microphone captures
          rvCurrent,   \* the generation of the latest start is the current one
          rvPc,        \* what the running key event waits for
          rvQueue,     \* key events behind it
          rvDown,      \* external: the key is down
          rvError      \* pttError

rvSocketVars == <<rvStopped, rvSocket, rvWs, rvConnTimer, rvRetry, rvConnected>>
rvLease      == <<rvAcquired, rvStreaming>>
rvMic        == <<rvHeld, rvTracks, rvCurrent>>
rvKeys       == <<rvQueue, rvDown>>
rvVars       == <<rvSocketVars, rvLease, rvControl, rvMic, rvPc, rvKeys, rvError>>

RemoteVoiceTypeOK ==
    /\ rvStopped \in BOOLEAN
    /\ rvSocket \in VoiceSockets \cup {NoVoiceSocket}
    /\ rvWs \in [VoiceSockets -> {"connecting", "open", "closing", "gone"}]
    /\ rvConnTimer \in BOOLEAN
    /\ rvRetry \in BOOLEAN
    /\ rvConnected \in BOOLEAN
    /\ rvAcquired \in BOOLEAN
    /\ rvStreaming \in BOOLEAN
    /\ rvControl \in {"none", "acquired", "started", "stopped", "released"}
    /\ rvHeld \in BOOLEAN
    /\ rvTracks \in BOOLEAN
    /\ rvCurrent \in BOOLEAN
    /\ rvPc \in {"idle", "connect", "acquire", "start", "permission", "worklet", "resume",
                 "stop", "cancelStop", "cancelRelease"}
    /\ rvQueue \in Seq({"press", "release"})
    /\ rvDown \in BOOLEAN
    /\ rvError \in BOOLEAN

RemoteVoiceInit ==
    /\ rvStopped = TRUE
    /\ rvSocket = NoVoiceSocket
    /\ rvWs = [w \in VoiceSockets |-> "gone"]
    /\ rvConnTimer = FALSE
    /\ rvRetry = FALSE
    /\ rvConnected = FALSE
    /\ rvAcquired = FALSE
    /\ rvStreaming = FALSE
    /\ rvControl = "none"
    /\ rvHeld = FALSE
    /\ rvTracks = FALSE
    /\ rvCurrent = FALSE
    /\ rvPc = "idle"
    /\ rvQueue = <<>>
    /\ rvDown = FALSE
    /\ rvError = FALSE

-----------------------------------------------------------------------------
(* The socket.                                                             *)

VoiceConnects ==
    IF rvSocket # NoVoiceSocket
    THEN UNCHANGED <<rvSocket, rvWs, rvConnTimer>>
    ELSE \E w \in VoiceSockets :
             /\ rvWs[w] = "gone"
             /\ rvSocket' = w
             /\ rvWs' = [rvWs EXCEPT ![w] = "connecting"]
             /\ rvConnTimer' = TRUE

\* socket.close() on the current socket.
VoiceCloses == [w \in VoiceSockets |->
                  IF w = rvSocket /\ rvWs[w] # "gone" THEN "closing" ELSE rvWs[w]]

\* The first subscriber; the store then lives until its shutdown.
VoiceSubscribe ==
    /\ rvStopped
    /\ rvStopped' = FALSE
    /\ VoiceConnects
    /\ UNCHANGED <<rvRetry, rvConnected, rvLease, rvControl, rvMic, rvPc, rvKeys, rvError>>

VoiceRetry ==
    /\ rvRetry
    /\ rvRetry' = FALSE
    /\ IF rvStopped THEN UNCHANGED <<rvSocket, rvWs, rvConnTimer>> ELSE VoiceConnects
    /\ UNCHANGED <<rvStopped, rvConnected, rvLease, rvControl, rvMic, rvPc, rvKeys, rvError>>

-----------------------------------------------------------------------------
(* Where a key event goes on.                                              *)

\* The queue is done with an event, with or without an error to report.
Ends(error) == rvPc' = "idle" /\ rvError' = (rvError \/ error)

\* RemoteMicrophone.stop(), up to its first wait: the tracks end and a start
\* in progress is no longer current.
MicStops == rvTracks' = FALSE /\ rvCurrent' = FALSE

\* A control frame goes out on the current socket and waits for its answer.
Sends(expected, pc) == rvControl' = expected /\ rvPc' = pc /\ UNCHANGED rvError

\* cancelRemoteAudio: stop, then release, what the backend still holds.
Cancels == IF ~rvAcquired \/ ~rvConnected
           THEN Ends(TRUE) /\ rvControl' = "none" /\ UNCHANGED rvLease
           ELSE /\ IF rvStreaming THEN Sends("stopped", "cancelStop")
                                  ELSE Sends("released", "cancelRelease")
                /\ UNCHANGED rvLease

\* The catch of press().
PressFails == rvHeld' = FALSE /\ MicStops /\ Cancels

\* The socket is lost: the lease with it, the listener lets the key go, the
\* wait for a connection or an answer fails and cancels nothing.
Lost == /\ rvAcquired' = FALSE
        /\ rvStreaming' = FALSE
        /\ rvHeld' = FALSE
        /\ MicStops
        /\ rvControl' = "none"
        /\ rvConnected' = FALSE
        /\ rvConnTimer' = FALSE
        /\ IF rvPc \in {"idle", "permission", "worklet", "resume"}
           THEN UNCHANGED <<rvPc, rvError>>
           ELSE Ends(TRUE)

VoiceOnClose(w, refused) ==
    /\ rvWs[w] # "gone"
    /\ rvWs' = [rvWs EXCEPT ![w] = "gone"]
    /\ IF rvSocket = w
       THEN /\ rvSocket' = NoVoiceSocket
            /\ Lost
            /\ rvRetry' = (rvRetry \/ (~refused /\ ~rvStopped))
       ELSE UNCHANGED <<rvSocket, rvRetry, rvConnTimer, rvConnected, rvLease, rvControl, rvMic,
                        rvPc, rvError>>
    /\ UNCHANGED <<rvStopped, rvKeys>>

\* shutdown(): logout, or another backend.
VoiceShutDown ==
    /\ rvStopped' = TRUE
    /\ rvRetry' = FALSE
    /\ rvSocket' = NoVoiceSocket
    /\ rvWs' = VoiceCloses
    /\ Lost
    /\ UNCHANGED rvKeys

\* Five seconds without onopen: who waits for the connection is told, and
\* fails with nothing acquired.
VoiceConnTimer ==
    /\ rvConnTimer
    /\ rvConnTimer' = FALSE
    /\ rvWs' = VoiceCloses
    /\ IF rvPc = "connect"
       THEN PressFails
       ELSE UNCHANGED <<rvHeld, rvTracks, rvCurrent, rvControl, rvPc, rvError, rvLease>>
    /\ UNCHANGED <<rvStopped, rvSocket, rvRetry, rvConnected, rvKeys>>

VoiceOnOpen(w) ==
    /\ rvWs[w] = "connecting"
    /\ rvWs' = [rvWs EXCEPT ![w] = "open"]
    /\ IF rvSocket = w
       THEN /\ rvConnTimer' = FALSE
            /\ rvConnected' = TRUE
            /\ IF rvPc = "connect" THEN Sends("acquired", "acquire")
                                   ELSE UNCHANGED <<rvControl, rvPc, rvError>>
       ELSE UNCHANGED <<rvConnTimer, rvConnected, rvControl, rvPc, rvError>>
    /\ UNCHANGED <<rvStopped, rvSocket, rvRetry, rvLease, rvMic, rvKeys>>

\* The pending command fails: its answer is an error, or does not come in
\* five seconds.  The socket is closed either way.
CommandFails ==
    /\ rvWs' = VoiceCloses
    /\ IF rvPc \in {"acquire", "start"}
       THEN PressFails
       ELSE Ends(TRUE) /\ rvControl' = "none" /\ UNCHANGED <<rvMic, rvLease>>
    /\ UNCHANGED <<rvStopped, rvSocket, rvConnTimer, rvRetry, rvConnected, rvKeys>>

ControlTimeout == rvControl # "none" /\ CommandFails

\* remote_audio.error, also when no command waits.
OnAudioError ==
    /\ rvSocket # NoVoiceSocket /\ rvWs[rvSocket] = "open"
    /\ IF rvControl # "none" THEN CommandFails
       ELSE /\ rvWs' = VoiceCloses
            /\ UNCHANGED <<rvStopped, rvSocket, rvConnTimer, rvRetry, rvConnected, rvLease,
                           rvControl, rvMic, rvPc, rvKeys, rvError>>

\* The answer that control expects.
Answered(expected) == /\ rvControl = expected
                      /\ rvSocket # NoVoiceSocket /\ rvWs[rvSocket] = "open"
                      /\ UNCHANGED <<rvSocketVars, rvKeys>>

OnAcquired ==
    /\ Answered("acquired")
    /\ rvAcquired' = TRUE
    /\ Sends("started", "start")
    /\ UNCHANGED <<rvStreaming, rvMic>>

\* The backend streams; the microphone asks for permission under a new
\* generation.
OnStarted ==
    /\ Answered("started")
    /\ rvStreaming' = TRUE
    /\ rvControl' = "none"
    /\ rvPc' = "permission"
    /\ rvTracks' = FALSE
    /\ rvCurrent' = TRUE
    /\ UNCHANGED <<rvAcquired, rvHeld, rvError>>

OnStopped ==
    /\ Answered("stopped")
    /\ rvStreaming' = FALSE
    /\ IF rvPc = "cancelStop"
       THEN Sends("released", "cancelRelease")
       ELSE Ends(FALSE) /\ rvControl' = "none"
    /\ UNCHANGED <<rvAcquired, rvMic>>

\* The release ends a press that failed: its error is reported now.
OnReleased ==
    /\ Answered("released")
    /\ rvAcquired' = FALSE
    /\ rvControl' = "none"
    /\ Ends(TRUE)
    /\ UNCHANGED <<rvStreaming, rvMic>>

-----------------------------------------------------------------------------
(* The microphone, while press() waits for it.                             *)

\* A microphone that starts although the press has ended meanwhile.
PermissionTaken ==
    /\ rvPc = "permission"
    /\ rvTracks' = TRUE
    /\ rvPc' = "worklet"
    /\ UNCHANGED <<rvSocketVars, rvLease, rvControl, rvHeld, rvCurrent, rvKeys, rvError>>

\* getUserMedia resolves: a stream nobody waits for ends at once.
PermissionGranted ==
    /\ rvPc = "permission"
    /\ rvTracks' = rvCurrent
    /\ IF rvCurrent THEN rvPc' = "worklet" /\ UNCHANGED rvError ELSE Ends(FALSE)
    /\ UNCHANGED <<rvSocketVars, rvLease, rvControl, rvHeld, rvCurrent, rvKeys>>

WorkletLoaded ==
    /\ rvPc = "worklet"
    /\ IF rvCurrent THEN rvPc' = "resume" /\ UNCHANGED <<rvTracks, rvError>>
       ELSE rvTracks' = FALSE /\ Ends(FALSE)
    /\ UNCHANGED <<rvSocketVars, rvLease, rvControl, rvHeld, rvCurrent, rvKeys>>

Resumed ==
    /\ rvPc = "resume"
    /\ Ends(FALSE)
    /\ UNCHANGED <<rvSocketVars, rvLease, rvControl, rvMic, rvKeys>>

\* Permission denied, no device, no worklet, a context closed meanwhile.
MicrophoneFails ==
    /\ rvPc \in {"permission", "worklet", "resume"}
    /\ PressFails
    /\ UNCHANGED <<rvSocketVars, rvKeys>>

-----------------------------------------------------------------------------
(* The keys.                                                               *)

\* push-to-talk-down and -up, in the order of the key.
Key == /\ Len(rvQueue) < KeyEvents
       /\ rvDown' = ~rvDown
       /\ rvQueue' = Append(rvQueue, IF rvDown THEN "release" ELSE "press")
       /\ rvError' = IF rvDown THEN rvError ELSE FALSE
       /\ UNCHANGED <<rvSocketVars, rvLease, rvControl, rvMic, rvPc>>

NextKey(event) == rvPc = "idle" /\ rvQueue # <<>> /\ Head(rvQueue) = event /\ rvQueue' = Tail(rvQueue)

\* press(): connect if need be, acquire unless acquired, start.
Press ==
    /\ NextKey("press")
    /\ IF rvHeld
       THEN UNCHANGED <<rvStopped, rvSocket, rvWs, rvConnTimer, rvControl, rvHeld, rvPc, rvError>>
       ELSE /\ rvHeld' = TRUE
            /\ rvStopped' = FALSE
            /\ CASE rvAcquired -> Sends("started", "start") /\ UNCHANGED <<rvSocket, rvWs, rvConnTimer>>
                 [] ~rvAcquired /\ rvConnected ->
                       Sends("acquired", "acquire") /\ UNCHANGED <<rvSocket, rvWs, rvConnTimer>>
                 [] OTHER -> VoiceConnects /\ rvPc' = "connect" /\ UNCHANGED <<rvControl, rvError>>
    /\ UNCHANGED <<rvRetry, rvConnected, rvLease, rvTracks, rvCurrent, rvDown>>

\* release(): the microphone first, then the backend.
Release ==
    /\ NextKey("release")
    /\ IF ~rvHeld
       THEN UNCHANGED <<rvMic, rvControl, rvPc, rvError>>
       ELSE /\ rvHeld' = FALSE
            /\ MicStops
            /\ IF rvStreaming THEN Sends("stopped", "stop")
                              ELSE UNCHANGED <<rvControl, rvPc, rvError>>
    /\ UNCHANGED <<rvSocketVars, rvLease, rvDown>>

-----------------------------------------------------------------------------

RemoteVoiceNext ==
    \/ VoiceSubscribe
    \/ VoiceRetry
    \/ \E w \in VoiceSockets : VoiceOnOpen(w) \/ \E refused \in BOOLEAN : VoiceOnClose(w, refused)
    \/ VoiceShutDown
    \/ VoiceConnTimer
    \/ ControlTimeout
    \/ OnAudioError
    \/ OnAcquired \/ OnStarted \/ OnStopped \/ OnReleased
    \/ PermissionGranted \/ WorkletLoaded \/ Resumed \/ MicrophoneFails
    \/ Key \/ Press \/ Release

RemoteVoiceSpec == RemoteVoiceInit /\ [][RemoteVoiceNext]_rvVars

-----------------------------------------------------------------------------

\* The microphone captures only for a key that is held, over a connection the
\* backend streams from: whatever is lost while press() waits for the
\* connection, for an answer, for the user's permission or for the worklet,
\* no capture survives the loss or starts after it.
MicrophoneIsHeld ==
    rvTracks => /\ rvHeld /\ rvAcquired /\ rvStreaming
                /\ rvSocket # NoVoiceSocket
=============================================================================
