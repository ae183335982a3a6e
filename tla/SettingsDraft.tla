---------------------------- MODULE SettingsDraft ----------------------------
(***************************************************************************)
(* The settings screen of the desktop client: the configuration it shows   *)
(* (hooks/useConfig.ts), the draft of edits on top of it and the saving of *)
(* a group (screens/settings/useSettingsDraft.ts), and the screen that     *)
(* offers them (Settings.tsx, SettingsRenderer.tsx, FieldControl.tsx,      *)
(* registry.ts).                                                           *)
(*                                                                         *)
(* The registry gives every field a slot and a route of its own group, so  *)
(* that a group is saved with one request.  Requests overlap; the backend  *)
(* handles each at some time and its answer arrives later, in any order,   *)
(* or is lost.  Left out: what a group looks like (folded, advanced) and   *)
(* the groups with a component of their own.                               *)
(***************************************************************************)
EXTENDS Naturals, FiniteSets

CONSTANTS Fields,
          Groups,
          NoGroup,
          GroupOf,     \* field -> its group
          Control,     \* field -> "secret", "number" or "text"
          PromptGroup, \* the group of the system prompt
          Inputs,      \* field -> what the user may type into it
          Views,       \* the fields a section, or the result of a search, shows
          DraftCalls   \* bound: requests at one time

ASSUME SettingsAssumption ==
    /\ NoGroup \notin Groups
    /\ GroupOf \in [Fields -> Groups]
    /\ Control \in [Fields -> {"secret", "number", "text"}]
    /\ PromptGroup \in Groups
    /\ \A f \in Fields : GroupOf[f] = PromptGroup => Control[f] = "text"
    /\ Inputs \in [Fields -> SUBSET {"", " ", "1"}]
    /\ Views \subseteq SUBSET Fields

\* A value, as far as it matters: nothing, white space, zero, something else.
\* "default" is the prompt that comes with the backend.
DraftValues == {"", " ", "0", "1", "default"}
NoEdit      == "none"

VARIABLES sdServer,    \* the configuration of the backend
          sdConfig,    \* config, what useConfig holds; secrets are "" in it
          sdLoaded,    \* config # null
          sdView,      \* the fields on screen
          sdEdits,     \* edits, by field
          sdSaving,    \* savingGroup
          sdRestoring, \* resettingPrompt
          sdCalls      \* call -> the request it is

sdDraft == <<sdEdits, sdSaving, sdRestoring>>
sdVars  == <<sdServer, sdConfig, sdLoaded, sdView, sdDraft, sdCalls>>

Bodies == [Fields -> DraftValues \cup {NoEdit}]
NoCall == [kind |-> "none", group |-> NoGroup, at |-> "sent", body |-> [f \in Fields |-> NoEdit]]

SettingsTypeOK ==
    /\ sdServer \in [Fields -> DraftValues]
    /\ sdConfig \in [Fields -> DraftValues]
    /\ sdLoaded \in BOOLEAN
    /\ sdView \in Views
    /\ sdEdits \in Bodies
    /\ sdSaving \in Groups \cup {NoGroup}
    /\ sdRestoring \in BOOLEAN
    /\ sdCalls \in [DraftCalls -> [kind : {"none", "save", "restore", "read"},
                                   group : Groups \cup {NoGroup},
                                   at : {"sent", "done", "failed"}, body : Bodies]]

\* GET /api/config: secrets are never returned.
Masked(values) == [f \in Fields |-> IF Control[f] = "secret" THEN "" ELSE values[f]]

Read == [NoCall EXCEPT !.kind = "read"]

\* The screen mounts and reads the configuration.
SettingsOpen ==
    /\ sdServer \in [Fields -> DraftValues]
    /\ \A f \in Fields : sdServer[f] = CASE Control[f] = "secret" -> "1"
                                         [] GroupOf[f] = PromptGroup -> "default"
                                         [] OTHER -> "0"
    /\ sdConfig = [f \in Fields |-> ""]
    /\ sdLoaded = FALSE
    /\ sdView \in Views
    /\ sdEdits = [f \in Fields |-> NoEdit]
    /\ sdSaving = NoGroup
    /\ sdRestoring = FALSE

SettingsInit ==
    /\ SettingsOpen
    /\ \E c \in DraftCalls : sdCalls = [[d \in DraftCalls |-> NoCall] EXCEPT ![c] = Read]

-----------------------------------------------------------------------------
(* The draft.                                                              *)

FieldsOf(g) == {f \in Fields : GroupOf[f] = g}

\* isDirty: a blank secret leaves the stored one alone.
Dirty(f) == /\ sdEdits[f] # NoEdit
            /\ IF Control[f] = "secret" THEN sdEdits[f] \notin {"", " "}
                                        ELSE sdEdits[f] # sdConfig[f]

GroupDirty(g) == \E f \in FieldsOf(g) : Dirty(f)

\* buildGroupBodies: the edits of the group, also of fields not on screen.
Body(g) == [f \in Fields |-> IF f \in FieldsOf(g) /\ Dirty(f) THEN sdEdits[f] ELSE NoEdit]

\* resetGroup
Reset(g) == [f \in Fields |-> IF f \in FieldsOf(g) THEN NoEdit ELSE sdEdits[f]]

\* What a control makes of the text in it: an empty number is zero.
Typed(f, text) == IF Control[f] = "number" /\ text \in {"", " "} THEN "0" ELSE text

\* The buttons of a group on screen.
SaveOffered(g)    == sdLoaded /\ (FieldsOf(g) \cap sdView # {}) /\ GroupDirty(g) /\ sdSaving # g
RestoreOffered(g) == /\ sdLoaded /\ (FieldsOf(g) \cap sdView # {})
                     /\ g = PromptGroup /\ ~sdRestoring /\ sdSaving # g

SetValue(f, text) ==
    /\ sdLoaded /\ f \in sdView
    /\ sdEdits' = [sdEdits EXCEPT ![f] = Typed(f, text)]
    /\ UNCHANGED <<sdServer, sdConfig, sdLoaded, sdView, sdSaving, sdRestoring, sdCalls>>

Discard(g) ==
    /\ SaveOffered(g)
    /\ sdEdits' = Reset(g)
    /\ UNCHANGED <<sdServer, sdConfig, sdLoaded, sdView, sdSaving, sdRestoring, sdCalls>>

\* A section is opened, or a search shows the groups that match.
OpenSection(view) ==
    /\ sdLoaded /\ view # sdView
    /\ sdView' = view
    /\ UNCHANGED <<sdServer, sdConfig, sdLoaded, sdDraft, sdCalls>>

Asks(c, call) == sdCalls[c] = NoCall /\ sdCalls' = [sdCalls EXCEPT ![c] = call]

SaveGroup(c, g) ==
    /\ SaveOffered(g)
    /\ Asks(c, [kind |-> "save", group |-> g, at |-> "sent", body |-> Body(g)])
    /\ sdSaving' = g
    /\ UNCHANGED <<sdServer, sdConfig, sdLoaded, sdView, sdEdits, sdRestoring>>

ResetPrompt(c, g) ==
    /\ RestoreOffered(g)
    /\ Asks(c, [NoCall EXCEPT !.kind = "restore", !.group = g])
    /\ sdRestoring' = TRUE
    /\ UNCHANGED <<sdServer, sdConfig, sdLoaded, sdView, sdEdits, sdSaving>>

\* The retry button, when a read failed.
Refresh(c) ==
    /\ Asks(c, Read)
    /\ UNCHANGED <<sdServer, sdConfig, sdLoaded, sdView, sdDraft>>

-----------------------------------------------------------------------------
(* The backend, and the answers.                                           *)

Applied(call) ==
    CASE call.kind = "save"    -> [f \in Fields |-> IF call.body[f] = NoEdit THEN sdServer[f] ELSE call.body[f]]
      [] call.kind = "restore" -> [f \in Fields |-> IF GroupOf[f] = PromptGroup THEN "default" ELSE sdServer[f]]
      [] OTHER                 -> sdServer

\* The backend handles a request, or fails, or its answer gets lost.
Handles(c, applies, answers) ==
    /\ sdCalls[c] # NoCall /\ sdCalls[c].at = "sent"
    /\ answers => applies
    /\ sdServer' = IF applies THEN Applied(sdCalls[c]) ELSE sdServer
    /\ sdCalls' = [sdCalls EXCEPT ![c].at = IF answers THEN "done" ELSE "failed",
                                  ![c].body = IF sdCalls[c].kind = "read" /\ answers
                                              THEN Masked(sdServer) ELSE @]
    /\ UNCHANGED <<sdConfig, sdLoaded, sdView, sdDraft>>

ReadAnswered(c) ==
    /\ sdCalls[c].kind = "read" /\ sdCalls[c].at # "sent"
    /\ sdCalls' = [sdCalls EXCEPT ![c] = NoCall]
    /\ sdConfig' = IF sdCalls[c].at = "done" THEN sdCalls[c].body ELSE sdConfig
    /\ sdLoaded' = (sdLoaded \/ sdCalls[c].at = "done")
    /\ UNCHANGED <<sdServer, sdView, sdDraft>>

\* A group that was saved, or restored, loses its edits and the
\* configuration is read anew; an error leaves the draft as it is.
ChangeAnswered(c) ==
    LET call == sdCalls[c]
    IN  /\ call.kind \in {"save", "restore"} /\ call.at # "sent"
        /\ sdEdits' = IF call.at = "done" THEN Reset(call.group) ELSE sdEdits
        /\ sdCalls' = [sdCalls EXCEPT ![c] = IF call.at = "done" THEN Read ELSE NoCall]
        /\ sdSaving' = IF call.kind = "save" THEN NoGroup ELSE sdSaving
        /\ sdRestoring' = (sdRestoring /\ call.kind = "save")
        /\ UNCHANGED <<sdServer, sdConfig, sdLoaded, sdView>>

-----------------------------------------------------------------------------

SettingsNext ==
    \/ \E f \in Fields : \E text \in Inputs[f] : SetValue(f, text)
    \/ \E g \in Groups : Discard(g)
    \/ \E view \in Views : OpenSection(view)
    \/ \E c \in DraftCalls :
          \/ \E g \in Groups : SaveGroup(c, g) \/ ResetPrompt(c, g)
          \/ Refresh(c)
          \/ \E applies, answers \in BOOLEAN : Handles(c, applies, answers)
          \/ ReadAnswered(c)
          \/ ChangeAnswered(c)

SettingsSpec == SettingsInit /\ [][SettingsNext]_sdVars

-----------------------------------------------------------------------------

\* An edit is only lost to its own group: to its discard button, or to a
\* request for it (its saving, the restored prompt) that the backend
\* confirmed.  Saves of several groups overlap, fail half way and lose their
\* answers, and configurations read before and after come in any order.
EditsAreKept ==
    [][\A f \in Fields :
          sdEdits[f] # NoEdit /\ sdEdits'[f] = NoEdit =>
             \/ Discard(GroupOf[f])
             \/ \E c \in DraftCalls : /\ sdCalls[c].group = GroupOf[f]
                                      /\ sdCalls[c].at = "done"
                                      /\ sdCalls'[c] # sdCalls[c]]_sdVars

\* A stored secret is never blanked: neither by a blank edit nor by the
\* empty value the configuration shows for it.
SecretsAreKept ==
    \A f \in Fields : Control[f] = "secret" => sdServer[f] \notin {"", " "}
=============================================================================
