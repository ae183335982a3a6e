----------------------------- MODULE SafeCommands -----------------------------
(***************************************************************************)
(* The screen of the commands that run without asking                      *)
(* (screens/Commands.tsx): the list is read once, edited here, and saved   *)
(* as a whole.  Meanwhile "approve and save" in a chat may add to it.      *)
(***************************************************************************)
EXTENDS Naturals, FiniteSets

CONSTANTS CommandNames,    \* names of binaries
          DefaultCommands  \* those shipped with dax-system

ASSUME CommandsAssumption == DefaultCommands \subseteq CommandNames

VARIABLES scServer,   \* the list in force
          scCommands, \* commands
          scSaved,    \* saved
          scDefaults, \* defaults
          scEntry,    \* entry
          scPhase,    \* loading, saving, and where the request is
          scSent,     \* what the request carries or answers
          scApart     \* history: the list in force may be another than the saved one

scVars == <<scServer, scCommands, scSaved, scDefaults, scEntry, scPhase, scSent, scApart>>

CommandsTypeOK ==
    /\ scServer \subseteq CommandNames
    /\ scCommands \subseteq CommandNames
    /\ scSaved \subseteq CommandNames
    /\ scDefaults \in {{}, DefaultCommands}
    /\ scEntry \subseteq CommandNames
    /\ scPhase \in {"loading", "loaded", "unloaded", "ready", "saving", "saved", "unsaved"}
    /\ scSent \subseteq CommandNames
    /\ scApart \in BOOLEAN

CommandsInit ==
    /\ scServer = DefaultCommands
    /\ scCommands = {} /\ scSaved = {} /\ scDefaults = {} /\ scEntry = {}
    /\ scPhase = "loading"
    /\ scSent = {}
    /\ scApart = FALSE

-----------------------------------------------------------------------------
(* The backend (external).                                                 *)

ListRead ==
    /\ scPhase = "loading"
    /\ \/ scPhase' = "loaded" /\ scSent' = scServer
       \/ scPhase' = "unloaded" /\ UNCHANGED scSent
    /\ UNCHANGED <<scServer, scCommands, scSaved, scDefaults, scEntry, scApart>>

ListWritten ==
    /\ scPhase = "saving"
    /\ scPhase' \in {"saved", "unsaved"}
    /\ scServer' \in IF scPhase' = "saved" THEN {scSent} ELSE {scServer, scSent}
    /\ scApart' = (scApart \/ (scPhase' = "unsaved" /\ scServer' # scServer))
    /\ UNCHANGED <<scCommands, scSaved, scDefaults, scEntry, scSent>>

ApprovedAndSaved(cmd) ==
    /\ cmd \notin scServer
    /\ scServer' = scServer \cup {cmd}
    /\ scApart' = (scPhase # "loading")
    /\ UNCHANGED <<scCommands, scSaved, scDefaults, scEntry, scPhase, scSent>>

-----------------------------------------------------------------------------
(* The screen.                                                             *)

\* A failed load leaves empty lists, which can be edited and saved.
Loaded ==
    /\ scPhase \in {"loaded", "unloaded"}
    /\ scPhase' = "ready"
    /\ scSent' = {}
    /\ IF scPhase = "loaded"
       THEN /\ scCommands' = scSent /\ scSaved' = scSent /\ scDefaults' = DefaultCommands
            /\ UNCHANGED scApart
       ELSE UNCHANGED <<scCommands, scSaved, scDefaults>> /\ scApart' = TRUE
    /\ UNCHANGED <<scServer, scEntry>>

CommandsDirty == scCommands # scSaved

\* The list, the entry and the buttons are there once it has loaded.
Editable == scPhase \in {"ready", "saving", "saved", "unsaved"}

Types(entry) ==
    /\ Editable /\ entry # scEntry
    /\ scEntry' = entry
    /\ UNCHANGED <<scServer, scCommands, scSaved, scDefaults, scPhase, scSent, scApart>>

AddCommands ==
    /\ Editable /\ scEntry # {}
    /\ scCommands' = scCommands \cup scEntry
    /\ scEntry' = {}
    /\ UNCHANGED <<scServer, scSaved, scDefaults, scPhase, scSent, scApart>>

RemoveCommand(cmd) ==
    /\ Editable /\ cmd \in scCommands
    /\ scCommands' = scCommands \ {cmd}
    /\ UNCHANGED <<scServer, scSaved, scDefaults, scEntry, scPhase, scSent, scApart>>

ResetCommands ==
    /\ scPhase = "ready"
    /\ scCommands' = scDefaults
    /\ UNCHANGED <<scServer, scSaved, scDefaults, scEntry, scPhase, scSent, scApart>>

SaveCommands ==
    /\ scPhase = "ready" /\ CommandsDirty
    /\ scPhase' = "saving"
    /\ scSent' = scCommands
    /\ UNCHANGED <<scServer, scCommands, scSaved, scDefaults, scEntry, scApart>>

\* What is shown when the answer arrives is taken for what was saved.
SavedIsShown == scCommands

\* What was sent is what was saved: edits made meanwhile stay unsaved.
NowSaved == scSent

SaveAnswered ==
    /\ scPhase \in {"saved", "unsaved"}
    /\ scPhase' = "ready"
    /\ scSaved' = IF scPhase = "saved" THEN NowSaved ELSE scSaved
    /\ scApart' = (IF scPhase = "saved" THEN scServer # scSent ELSE scApart)
    /\ scSent' = {}
    /\ UNCHANGED <<scServer, scCommands, scDefaults, scEntry>>

-----------------------------------------------------------------------------

CommandsNext ==
    \/ ListRead
    \/ ListWritten
    \/ Loaded
    \/ \E cmd \in CommandNames : ApprovedAndSaved(cmd) \/ RemoveCommand(cmd)
    \/ \E entry \in SUBSET CommandNames : Types(entry)
    \/ AddCommands
    \/ ResetCommands
    \/ SaveCommands
    \/ SaveAnswered

CommandsSpec == CommandsInit /\ [][CommandsNext]_scVars

-----------------------------------------------------------------------------

\* A screen that says "Saved" shows the commands that run without asking:
\* edits made during a save keep it dirty.  Unless the list could not be
\* read, a save's answer was lost, or a chat added to it after it was read.
CleanMeansInForce ==
    scPhase = "ready" /\ ~CommandsDirty /\ ~scApart => scCommands = scServer
=============================================================================
