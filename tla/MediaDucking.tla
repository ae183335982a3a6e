----------------------------- MODULE MediaDucking -----------------------------
(***************************************************************************)
(* The desktop client lowers the volume of other media while the voice is  *)
(* active (native/mediaDucking.ts): a bridge follows the voice state, the  *)
(* setting and the level; a dispatcher sends what changed to the native    *)
(* side, one command after the other, each of which may fail.  The native  *)
(* side is external.                                                       *)
(***************************************************************************)
EXTENDS Naturals, Sequences

CONSTANTS DuckLevels,  \* volume factors of the setting
          Nothing,     \* no command was requested, or the latest one failed
          DuckQueue    \* bound: commands waiting

ASSUME DuckingAssumption == DuckQueue \in Nat \ {0}

VoiceStates == {"idle", "listening", "processing", "speaking", "conversing"}
DuckStates  == {"idle", "listening", "processing", "speaking"}
Commands    == [state : DuckStates, level : DuckLevels]

ASSUME NothingAssumption == Nothing \notin Commands

VARIABLES mdVoice,     \* state of the voice store
          mdEnabled,   \* the setting
          mdLevel,     \* the level
          mdMounted,   \* the bridge is mounted
          mdRequested, \* requested, the key of the latest command
          mdQueue,     \* queue, the commands not yet settled
          mdNative     \* what the native side applied last

mdVars == <<mdVoice, mdEnabled, mdLevel, mdMounted, mdRequested, mdQueue, mdNative>>

DuckingTypeOK == /\ mdVoice \in VoiceStates
                 /\ mdEnabled \in BOOLEAN
                 /\ mdLevel \in DuckLevels
                 /\ mdMounted \in BOOLEAN
                 /\ mdRequested \in Commands \cup {Nothing}
                 /\ mdQueue \in Seq(Commands)
                 /\ mdNative \in Commands \cup {Nothing}

DuckingInit == /\ mdVoice = "idle"
               /\ mdEnabled \in BOOLEAN
               /\ mdLevel \in DuckLevels
               /\ mdMounted = FALSE
               /\ mdRequested = Nothing
               /\ mdQueue = <<>>
               /\ mdNative = Nothing

\* mapVoiceToDuckingState
Ducked(voice) == IF voice = "conversing" THEN "processing" ELSE voice

\* What the bridge wants of these values.
Wanted(voice, enabled, level) ==
    [state |-> IF enabled THEN Ducked(voice) ELSE "idle", level |-> level]

\* The dispatcher: a command equal to the latest one is not sent again.
Dispatches(c) ==
    /\ mdRequested' = c
    /\ mdQueue' = IF c = mdRequested THEN mdQueue ELSE Append(mdQueue, c)
    /\ Len(mdQueue') <= DuckQueue

\* The bridge mounts, or renders other values: its effect dispatches.
Render(voice, enabled, level) ==
    /\ mdVoice' = voice /\ mdEnabled' = enabled /\ mdLevel' = level
    /\ mdMounted' = TRUE
    /\ Dispatches(Wanted(voice, enabled, level))
    /\ UNCHANGED mdNative

\* Leaving the application, or unmounting the bridge, restores the volume.
Restore ==
    /\ mdMounted
    /\ mdMounted' = FALSE
    /\ Dispatches([state |-> "idle", level |-> mdLevel])
    /\ UNCHANGED <<mdVoice, mdEnabled, mdLevel, mdNative>>

\* The oldest command settles.  A failed one is forgotten if it is still the
\* latest, so that it is sent again when it is wanted again.
Settles(fails) ==
    /\ mdQueue # <<>>
    /\ mdQueue' = Tail(mdQueue)
    /\ mdNative' = IF fails THEN mdNative ELSE Head(mdQueue)
    /\ mdRequested' = IF fails /\ mdRequested = Head(mdQueue) THEN Nothing ELSE mdRequested
    /\ UNCHANGED <<mdVoice, mdEnabled, mdLevel, mdMounted>>

DuckingNext == \/ \E v \in VoiceStates, e \in BOOLEAN, l \in DuckLevels : Render(v, e, l)
               \/ Restore
               \/ \E fails \in BOOLEAN : Settles(fails)

DuckingSpec == DuckingInit /\ [][DuckingNext]_mdVars

-----------------------------------------------------------------------------

\* A command is skipped as a repetition only when it is in force: what the
\* dispatcher takes for the latest command is the last one in its queue or,
\* with the queue drained, what the native side applied, though commands
\* overlap, repeat and fail.  Otherwise music would stay lowered for ever.
SkipsOnlyWhatIsInForce ==
    mdRequested # Nothing =>
        IF mdQueue = <<>> THEN mdNative = mdRequested
                          ELSE mdQueue[Len(mdQueue)] = mdRequested
=============================================================================
