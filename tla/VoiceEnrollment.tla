---------------------------- MODULE VoiceEnrollment ----------------------------
(***************************************************************************)
(* Enrolling a voice: the panel of the desktop                             *)
(* (screens/settings/VoiceEnrollment.tsx) and that of the web client       *)
(* (pages/settings/VoiceEnrollment.tsx), one of them per behaviour.  Takes *)
(* are recorded with the microphone, transcoded, and sent together.        *)
(*                                                                         *)
(* A take asks for the microphone, records and is transcoded, each of      *)
(* which ends at its own time.  In the desktop only the latest take counts *)
(* and the user ends it; in the web client timers do, whose handles, like  *)
(* that of the stream, are those of the latest take.  Left out: the meter, *)
(* which phrase a take is of, and a device that is unplugged.              *)
(***************************************************************************)
EXTENDS Naturals, FiniteSets

CONSTANTS Takes,      \* bound: takes at one time
          NoTake,     \* stands for null
          MinSamples, \* MIN_SAMPLES
          MaxSamples, \* MAX_SAMPLES
          Phrases,    \* how many PHRASES there are
          VoiceRequests \* bound: requests at one time

ASSUME EnrollmentAssumption == /\ NoTake \notin Takes
                               /\ MinSamples \in Nat /\ MaxSamples \in Nat /\ Phrases \in Nat
                               /\ MinSamples <= Phrases /\ Phrases <= MaxSamples

VARIABLES veClient,    \* which panel it is
          veServer,    \* a profile is stored
          veMounted,   \* mountedRef; the web panel is mounted
          veTake,      \* take -> how far it is
          veLive,      \* the takes whose stream is open
          veLatest,    \* the take of generationRef
          veCurrent,   \* the take of streamRef, recorderRef and intervalRef
          veTimer,     \* the take of timeoutRef
          veAsking,    \* requesting of the desktop
          veActive,    \* recording of the desktop; active # null of the web client
          veSamples,   \* how many samples there are
          veEnrolled,  \* enrolled: "unknown", "yes" or "no"
          veBusy,      \* uploading of the desktop; busy of the web client
          veRequest,   \* request -> what it is
          veCrossed,   \* history: two takes asked for the microphone at once
          veBlurred    \* history: requests crossed, or an answer was lost

veRefs    == <<veLatest, veCurrent, veTimer>>
veFlags   == <<veAsking, veActive>>
veCapture == <<veTake, veLive, veRefs, veFlags, veCrossed>>
veProfile == <<veServer, veEnrolled, veBusy, veRequest, veBlurred>>
veVars    == <<veClient, veMounted, veCapture, veSamples, veProfile>>

NoVoiceRequest == [op |-> "none", at |-> "sent", was |-> FALSE]

EnrollmentTypeOK ==
    /\ veClient \in {"desktop", "web"}
    /\ veServer \in BOOLEAN
    /\ veMounted \in BOOLEAN
    /\ veTake \in [Takes -> {"idle", "asking", "countdown", "recording", "stopped", "adrift"}]
    /\ veLive \subseteq Takes
    /\ veLatest \in Takes \cup {NoTake}
    /\ veCurrent \in Takes \cup {NoTake}
    /\ veTimer \in Takes \cup {NoTake}
    /\ veAsking \in BOOLEAN /\ veActive \in BOOLEAN
    /\ veSamples \in 0..MaxSamples
    /\ veEnrolled \in {"unknown", "yes", "no"}
    /\ veBusy \in BOOLEAN
    /\ veRequest \in [VoiceRequests -> [op : {"none", "read", "enroll", "remove"},
                                        at : {"sent", "done", "failed"}, was : BOOLEAN]]
    /\ veCrossed \in BOOLEAN /\ veBlurred \in BOOLEAN

YesOrNo(stored) == IF stored THEN "yes" ELSE "no"

\* The panel mounts.  The desktop asks for the profile; the page of the web
\* client has read it.
PanelOpens(stored) ==
    /\ veMounted' = TRUE
    /\ veTake' = [t \in Takes |-> "idle"] /\ veLive' = {}
    /\ veLatest' = NoTake /\ veCurrent' = NoTake /\ veTimer' = NoTake
    /\ veAsking' = FALSE /\ veActive' = FALSE /\ veSamples' = 0
    /\ veBusy' = FALSE
    /\ veCrossed' = FALSE /\ veBlurred' = FALSE
    /\ IF veClient = "web"
       THEN veEnrolled' = YesOrNo(stored) /\ veRequest' = [r \in VoiceRequests |-> NoVoiceRequest]
       ELSE /\ veEnrolled' = "unknown"
            /\ \E r \in VoiceRequests :
                  veRequest' = [[q \in VoiceRequests |-> NoVoiceRequest] EXCEPT ![r].op = "read"]

EnrollmentInit ==
    /\ veClient \in {"desktop", "web"}
    /\ veServer = FALSE
    /\ veMounted = FALSE
    /\ veTake = [t \in Takes |-> "idle"] /\ veLive = {}
    /\ veLatest = NoTake /\ veCurrent = NoTake /\ veTimer = NoTake
    /\ veAsking = FALSE /\ veActive = FALSE /\ veSamples = 0
    /\ veEnrolled = "unknown" /\ veBusy = FALSE
    /\ veRequest = [r \in VoiceRequests |-> NoVoiceRequest]
    /\ veCrossed = FALSE /\ veBlurred = FALSE

\* Opened when nothing of the last time is under way any more.
OpenPanel ==
    /\ ~veMounted
    /\ \A t \in Takes : veTake[t] \in {"idle", "adrift"}
    /\ \A r \in VoiceRequests : veRequest[r] = NoVoiceRequest
    /\ PanelOpens(veServer)
    /\ UNCHANGED <<veClient, veServer>>

-----------------------------------------------------------------------------
(* The desktop: one take counts, the latest one of a mounted panel.        *)

StartRecording(t) ==
    /\ veClient = "desktop" /\ veMounted
    /\ ~veActive /\ ~veAsking /\ veSamples < MaxSamples
    /\ veTake[t] = "idle"
    /\ veTake' = [veTake EXCEPT ![t] = "asking"]
    /\ veLatest' = t
    /\ veAsking' = TRUE
    /\ UNCHANGED <<veClient, veMounted, veLive, veCurrent, veTimer, veActive, veCrossed, veSamples, veProfile>>

Counts(t) == veMounted /\ t = veLatest

\* A microphone that is granted to a take that does not count is let go.
RecordingStarts(t) ==
    /\ veClient = "desktop" /\ veTake[t] = "asking"
    /\ IF Counts(t)
       THEN /\ veTake' = [veTake EXCEPT ![t] = "recording"] /\ veLive' = veLive \cup {t}
            /\ veCurrent' = t
            /\ veActive' = TRUE /\ veAsking' = FALSE
       ELSE veTake' = [veTake EXCEPT ![t] = "idle"] /\ UNCHANGED <<veLive, veCurrent, veFlags>>
    /\ UNCHANGED <<veClient, veMounted, veLatest, veTimer, veCrossed, veSamples, veProfile>>

RecordingDenied(t) ==
    /\ veClient = "desktop" /\ veTake[t] = "asking"
    /\ veTake' = [veTake EXCEPT ![t] = "idle"]
    /\ veAsking' = (veAsking /\ ~Counts(t))
    /\ UNCHANGED <<veClient, veMounted, veLive, veRefs, veActive, veCrossed, veSamples, veProfile>>

\* The recorder stops, the stream closes.
Stopped(T) == [t \in Takes |-> IF t = veCurrent /\ T[t] = "recording" THEN "stopped" ELSE T[t]]

StopRecording ==
    /\ veClient = "desktop" /\ veMounted /\ veActive
    /\ veTake' = Stopped(veTake) /\ veLive' = veLive \ {veCurrent}
    /\ veActive' = FALSE
    /\ UNCHANGED <<veClient, veMounted, veRefs, veAsking, veCrossed, veSamples, veProfile>>

\* toEnrollmentWav() ends; a take that no longer counts is dropped.
DesktopTranscoded(t, usable) ==
    /\ veClient = "desktop" /\ veTake[t] = "stopped"
    /\ veTake' = [veTake EXCEPT ![t] = "idle"]
    /\ IF usable /\ Counts(t) THEN veSamples' = veSamples + 1 ELSE UNCHANGED veSamples
    /\ UNCHANGED <<veClient, veMounted, veLive, veRefs, veFlags, veCrossed, veProfile>>

RemoveSample ==
    /\ veClient = "desktop" /\ veMounted /\ veSamples > 0
    /\ veSamples' = veSamples - 1
    /\ UNCHANGED <<veClient, veMounted, veCapture, veProfile>>

-----------------------------------------------------------------------------
(* The web client: a take counts down, records, and ends by its timers.    *)

\* The button of a phrase; it is not disabled while a prompt is open.
Record(t) ==
    /\ veClient = "web" /\ veMounted /\ ~veActive /\ ~veBusy
    /\ veTake[t] = "idle" /\ t \notin veLive
    /\ veTake' = [veTake EXCEPT ![t] = "asking"]
    /\ veCrossed' = (veCrossed \/ \E u \in Takes : veTake[u] # "idle")
    /\ UNCHANGED <<veClient, veMounted, veLive, veRefs, veFlags, veSamples, veProfile>>

\* Nothing tells a take that its panel is gone.
CountdownStarts(t) ==
    /\ veClient = "web" /\ veTake[t] = "asking"
    /\ veTake' = [veTake EXCEPT ![t] = "countdown"] /\ veLive' = veLive \cup {t}
    /\ veCurrent' = t
    /\ veActive' = TRUE
    /\ UNCHANGED <<veClient, veMounted, veLatest, veTimer, veAsking, veCrossed, veSamples, veProfile>>

\* cleanupCapture() with the takes T: the timers and the stream it has the
\* handles of.  A recorder whose stream closes stops.
CleanupCapture(T) ==
    /\ veTake' = [t \in Takes |->
                    CASE T[t] = "countdown" /\ t = veCurrent                -> "idle"
                      [] T[t] = "recording" /\ t = veCurrent                -> "stopped"
                      [] T[t] = "recording" /\ t # veCurrent /\ t = veTimer -> "adrift"
                      [] T[t] = "adrift" /\ t = veCurrent                   -> "idle"
                      [] OTHER                                              -> T[t]]
    /\ veLive' = veLive \ {veCurrent}
    /\ veCurrent' = NoTake /\ veTimer' = NoTake
    /\ UNCHANGED veLatest

CountdownDenied(t) ==
    /\ veClient = "web" /\ veTake[t] = "asking"
    /\ CleanupCapture([veTake EXCEPT ![t] = "idle"])
    /\ veActive' = FALSE
    /\ UNCHANGED <<veClient, veMounted, veAsking, veCrossed, veSamples, veProfile>>

\* The interval that is cleared is that of the latest take.
StartRecorder(t) ==
    /\ veClient = "web" /\ veTake[t] = "countdown"
    /\ veTake' = [u \in Takes |-> IF u = t THEN "recording"
                                  ELSE IF u = veCurrent /\ veTake[u] = "countdown" THEN "adrift"
                                  ELSE veTake[u]]
    /\ veTimer' = t
    /\ UNCHANGED <<veClient, veMounted, veLive, veLatest, veCurrent, veFlags, veCrossed, veSamples, veProfile>>

RecorderTimesOut(t) ==
    /\ veClient = "web" /\ veTake[t] = "recording"
    /\ veTake' = [veTake EXCEPT ![t] = "stopped"]
    /\ UNCHANGED <<veClient, veMounted, veLive, veRefs, veFlags, veCrossed, veSamples, veProfile>>

\* The sample of a phrase, new or in place of an earlier one.
WebTranscoded(t, usable) ==
    /\ veClient = "web" /\ veTake[t] = "stopped"
    /\ CleanupCapture([veTake EXCEPT ![t] = "idle"])
    /\ veActive' = FALSE
    /\ veSamples' \in IF usable /\ veMounted
                      THEN {veSamples, veSamples + 1} \cap (1..Phrases) ELSE {veSamples}
    /\ UNCHANGED <<veClient, veMounted, veAsking, veCrossed, veProfile>>

-----------------------------------------------------------------------------
(* The panel unmounts.                                                     *)

DesktopUnmounts == veTake' = Stopped(veTake) /\ veLive' = veLive \ {veCurrent} /\ UNCHANGED veRefs

ClosePanel ==
    /\ veMounted' = FALSE
    /\ IF veClient = "web" THEN CleanupCapture(veTake) ELSE DesktopUnmounts

LeavePanel ==
    /\ veMounted
    /\ ClosePanel
    /\ UNCHANGED <<veClient, veFlags, veCrossed, veSamples, veProfile>>

-----------------------------------------------------------------------------
(* The profile, and its backend (external).                                *)

ProfileAsked(r, op) ==
    /\ veRequest[r] = NoVoiceRequest
    /\ veRequest' = [veRequest EXCEPT ![r] = [NoVoiceRequest EXCEPT !.op = op]]
    /\ veBlurred' = (veBlurred \/ \E q \in VoiceRequests : veRequest[q] # NoVoiceRequest)

ProfileHandles(r, applies, answers) ==
    /\ veRequest[r].op # "none" /\ veRequest[r].at = "sent"
    /\ answers => applies
    /\ veServer' = IF ~applies \/ veRequest[r].op = "read" THEN veServer
                   ELSE veRequest[r].op = "enroll"
    /\ veRequest' = [veRequest EXCEPT ![r].at = IF answers THEN "done" ELSE "failed", ![r].was = veServer']
    /\ UNCHANGED <<veClient, veMounted, veCapture, veSamples, veEnrolled, veBusy, veBlurred>>

\* enrolled, and the samples at hand.
Upload(r) ==
    /\ veMounted /\ veSamples >= MinSamples /\ ~veBusy
    /\ veClient = "web" => ~veActive
    /\ ProfileAsked(r, "enroll")
    /\ veBusy' = TRUE
    /\ UNCHANGED <<veClient, veMounted, veCapture, veSamples, veServer, veEnrolled>>

\* In the desktop the button waits for nothing.
RemoveProfile(r) ==
    /\ veMounted /\ veEnrolled = "yes"
    /\ veClient = "web" => ~veActive /\ ~veBusy
    /\ ProfileAsked(r, "remove")
    /\ veBusy' = (veBusy \/ veClient = "web")
    /\ UNCHANGED <<veClient, veMounted, veCapture, veSamples, veServer, veEnrolled>>

RequestOver(r) == veRequest' = [veRequest EXCEPT ![r] = NoVoiceRequest]

DesktopProfileAnswered(r) ==
    LET request == veRequest[r]
        done    == request.at = "done"
    IN  /\ veClient = "desktop" /\ request.op # "none" /\ request.at # "sent"
        /\ RequestOver(r)
        /\ IF veMounted
           THEN /\ veEnrolled' = IF done THEN YesOrNo(request.was)
                                 ELSE IF request.op = "read" THEN "unknown" ELSE veEnrolled
                /\ veSamples' = IF done /\ request.op = "enroll" THEN 0 ELSE veSamples
                /\ veBusy' = (veBusy /\ request.op # "enroll")
                /\ veBlurred' = (veBlurred \/ ~done)
           ELSE UNCHANGED <<veEnrolled, veSamples, veBusy, veBlurred>>
        /\ UNCHANGED <<veClient, veMounted, veCapture, veServer>>

\* onChanged() has the page read the configuration, which remounts the tab.
WebProfileAnswered(r) ==
    LET request == veRequest[r]
    IN  /\ veClient = "web" /\ request.op # "none" /\ request.at # "sent"
        /\ RequestOver(r)
        /\ IF request.at = "done"
           THEN ClosePanel /\ UNCHANGED <<veBusy, veBlurred>>
           ELSE /\ veBusy' = FALSE /\ veBlurred' = TRUE
                /\ UNCHANGED <<veMounted, veTake, veLive, veRefs>>
        /\ UNCHANGED <<veClient, veFlags, veCrossed, veSamples, veServer, veEnrolled>>

-----------------------------------------------------------------------------

EnrollmentNext ==
    \/ OpenPanel
    \/ LeavePanel
    \/ StopRecording
    \/ RemoveSample
    \/ \E t \in Takes :
          \/ StartRecording(t)
          \/ RecordingStarts(t)
          \/ RecordingDenied(t)
          \/ Record(t)
          \/ CountdownStarts(t)
          \/ CountdownDenied(t)
          \/ StartRecorder(t)
          \/ RecorderTimesOut(t)
          \/ \E usable \in BOOLEAN : DesktopTranscoded(t, usable) \/ WebTranscoded(t, usable)
    \/ \E r \in VoiceRequests :
          \/ \E applies, answers \in BOOLEAN : ProfileHandles(r, applies, answers)
          \/ Upload(r)
          \/ RemoveProfile(r)
          \/ DesktopProfileAnswered(r)
          \/ WebProfileAnswered(r)

EnrollmentSpec == EnrollmentInit /\ [][EnrollmentNext]_veVars

-----------------------------------------------------------------------------

\* The microphone does not outlive its take: a stream is open only for one
\* that is recorded, and in the desktop only while the panel is there,
\* whenever the prompt is answered.  In the web client two prompts at once
\* leave a stream without a handle.
EnrollmentMicCloses ==
    ~veCrossed =>
        \A t \in veLive : /\ veTake[t] \in {"countdown", "recording", "stopped"}
                          /\ t = veCurrent
                          /\ veClient = "desktop" => veMounted /\ veActive

\* There are never more samples than the backend takes, though the button
\* counts only those that are transcoded.
SamplesFit == veSamples <= MaxSamples

\* What disables the buttons of the panel ends: the take, or the request, is
\* still under way.
EnrollmentBusyEnds ==
    veMounted => /\ veAsking => veTake[veLatest] = "asking"
                 /\ veActive => \E t \in Takes : veTake[t] \in {"countdown", "recording", "stopped"}
                 /\ veBusy => \E r \in VoiceRequests : veRequest[r].op \in {"enroll", "remove"}

\* The panel tells whether a profile is stored, unless requests crossed or
\* an answer was lost.
EnrolledIsTrue ==
    veMounted /\ ~veBlurred /\ veEnrolled # "unknown"
              /\ (\A r \in VoiceRequests : veRequest[r] = NoVoiceRequest)
        => veEnrolled = YesOrNo(veServer)
=============================================================================
