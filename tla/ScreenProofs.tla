---------------------------- MODULE ScreenProofs ------------------------------
(*****************************************************************************)
(* The screens of settings of both clients, for any number of requests at    *)
(* one time: safe commands, the settings of the desktop, the settings page   *)
(* of the web client, the tables of MCP servers, the first run, the editors  *)
(* of the memory, the panels of devices, and the enrolment of a voice.       *)
(*****************************************************************************)
EXTENDS SafeCommands, SettingsDraft, WebSettings, McpTable, FirstRun, MemoryTabs, DevicePanels,
        VoiceEnrollment, WellFoundedInduction, TLAPS

-----------------------------------------------------------------------------
(* Safe commands.                                                          *)

\* Unless something came apart, what was read, or saved last, is in force.
CommandsInv ==
    /\ CommandsTypeOK
    /\ scPhase = "loaded" /\ ~scApart => scSent = scServer
    /\ scPhase \in {"ready", "saving", "unsaved"} /\ ~scApart => scSaved = scServer

LEMMA CommandsStart == CommandsInit => CommandsInv
BY CommandsAssumption DEF CommandsInit, CommandsInv, CommandsTypeOK

LEMMA CommandsStep ==
    ASSUME CommandsInv, [CommandsNext]_scVars
    PROVE  CommandsInv'
<1> USE CommandsAssumption DEF CommandsInv, CommandsTypeOK
<1>1. CASE ListRead
  BY <1>1 DEF ListRead
<1>2. CASE ListWritten
  BY <1>2 DEF ListWritten
<1>3. CASE Loaded
  BY <1>3 DEF Loaded
<1>4. ASSUME NEW cmd \in CommandNames, ApprovedAndSaved(cmd) PROVE CommandsInv'
  BY <1>4 DEF ApprovedAndSaved
<1>5. ASSUME NEW cmd \in CommandNames, RemoveCommand(cmd) PROVE CommandsInv'
  BY <1>5 DEF RemoveCommand
<1>6. ASSUME NEW entry \in SUBSET CommandNames, Types(entry) PROVE CommandsInv'
  BY <1>6 DEF Types
<1>7. CASE AddCommands
  BY <1>7 DEF AddCommands
<1>8. CASE ResetCommands
  BY <1>8 DEF ResetCommands
<1>9. CASE SaveCommands
  BY <1>9 DEF SaveCommands
<1>10. CASE SaveAnswered
  BY <1>10 DEF SaveAnswered, NowSaved
<1>11. CASE UNCHANGED scVars
  BY <1>11 DEF scVars
<1> QED
  BY <1>1, <1>2, <1>3, <1>4, <1>5, <1>6, <1>7, <1>8, <1>9, <1>10, <1>11 DEF CommandsNext

LEMMA CommandsFollow == CommandsInv => CleanMeansInForce
BY DEF CommandsInv, CleanMeansInForce, CommandsDirty

-----------------------------------------------------------------------------
(* The settings of the desktop.                                            *)

DraftRequests == [kind : {"none", "save", "restore", "read"}, group : Groups \cup {NoGroup},
                  at : {"sent", "done", "failed"}, body : Bodies]

\* A read answers with values, a save carries no blank for a secret.
SoundRequest(call) ==
    /\ call \in DraftRequests
    /\ call.kind = "read" /\ call.at = "done" => call.body \in [Fields -> DraftValues]
    /\ call.kind = "save" => \A f \in Fields : Control[f] = "secret" => call.body[f] \notin {"", " "}

RequestsInv == sdCalls = [c \in DraftCalls |-> sdCalls[c]] /\ \A c \in DraftCalls : SoundRequest(sdCalls[c])

DraftInv ==
    /\ sdServer \in [Fields -> DraftValues]
    /\ sdConfig \in [Fields -> DraftValues]
    /\ sdLoaded \in BOOLEAN
    /\ sdView \in Views
    /\ sdEdits \in Bodies
    /\ sdSaving \in Groups \cup {NoGroup}
    /\ sdRestoring \in BOOLEAN

SettingsInv == DraftInv /\ RequestsInv /\ SecretsAreKept

LEMMA SettingsFollow == SettingsInv => SettingsTypeOK /\ SecretsAreKept
BY DEF SettingsInv, DraftInv, RequestsInv, SoundRequest, DraftRequests, SettingsTypeOK

LEMMA PlainRequestsAreSound == SoundRequest(NoCall) /\ SoundRequest(Read)
BY DEF SoundRequest, DraftRequests, NoCall, Read, Bodies

\* One request changes and stays sound.
LEMMA OneRequestChanges ==
    ASSUME RequestsInv, NEW c \in DraftCalls, NEW call, SoundRequest(call),
           sdCalls' = [sdCalls EXCEPT ![c] = call]
    PROVE  RequestsInv'
BY DEF RequestsInv

LEMMA SettingsOpens == SettingsOpen => DraftInv /\ SecretsAreKept
<1> SUFFICES ASSUME SettingsOpen PROVE DraftInv /\ SecretsAreKept
  OBVIOUS
<1>1. DraftInv
  BY DEF SettingsOpen, DraftInv, DraftValues, Bodies
<1>2. SecretsAreKept
  BY DEF SettingsOpen, SecretsAreKept
<1> QED BY <1>1, <1>2

LEMMA SettingsStart == SettingsInit => SettingsInv
<1> SUFFICES ASSUME SettingsInit PROVE SettingsInv
  OBVIOUS
<1>1. DraftInv /\ SecretsAreKept
  BY SettingsOpens DEF SettingsInit
<1>2. RequestsInv
  BY PlainRequestsAreSound DEF SettingsInit, RequestsInv
<1> QED BY <1>1, <1>2 DEF SettingsInv

\* The settings at rest, with the first read under way.
LEMMA SettingsRest == SettingsOpen /\ sdCalls = [c \in DraftCalls |-> Read] => SettingsInv
<1> SUFFICES ASSUME SettingsOpen, sdCalls = [c \in DraftCalls |-> Read] PROVE SettingsInv
  OBVIOUS
<1>1. RequestsInv
  BY PlainRequestsAreSound DEF RequestsInv
<1> QED BY <1>1, SettingsOpens DEF SettingsInv

LEMMA SettingsStep ==
    ASSUME SettingsInv, [SettingsNext]_sdVars
    PROVE  SettingsInv'
<1> USE SettingsAssumption DEF SettingsInv, sdDraft
<1>1. ASSUME NEW f \in Fields, NEW text \in Inputs[f], SetValue(f, text) PROVE SettingsInv'
  <2>1. Typed(f, text) \in DraftValues
    BY DEF Typed, DraftValues
  <2>2. DraftInv'
    BY <1>1, <2>1 DEF SetValue, DraftInv, Bodies
  <2> QED BY <1>1, <2>2 DEF SetValue, RequestsInv, SecretsAreKept
<1>2. ASSUME NEW g \in Groups, Discard(g) PROVE SettingsInv'
  <2>1. DraftInv'
    BY <1>2 DEF Discard, Reset, DraftInv, Bodies
  <2> QED BY <1>2, <2>1 DEF Discard, RequestsInv, SecretsAreKept
<1>3. ASSUME NEW view \in Views, OpenSection(view) PROVE SettingsInv'
  <2>1. DraftInv'
    BY <1>3 DEF OpenSection, DraftInv
  <2> QED BY <1>3, <2>1 DEF OpenSection, RequestsInv, SecretsAreKept
<1>4. ASSUME NEW c \in DraftCalls, NEW g \in Groups, SaveGroup(c, g) PROVE SettingsInv'
  <2> DEFINE call == [kind |-> "save", group |-> g, at |-> "sent", body |-> Body(g)]
  <2>1. Body(g) \in Bodies
    BY DEF Body, Bodies, DraftInv
  <2>2. \A f \in Fields : Control[f] = "secret" => Body(g)[f] \notin {"", " "}
    BY DEF Body, Dirty, NoEdit
  <2>3. SoundRequest(call)
    BY <2>1, <2>2 DEF SoundRequest, DraftRequests
  <2>4. RequestsInv'
    BY <1>4, <2>3, OneRequestChanges DEF SaveGroup, Asks
  <2>5. DraftInv'
    BY <1>4 DEF SaveGroup, DraftInv
  <2> QED BY <1>4, <2>4, <2>5 DEF SaveGroup, SecretsAreKept
<1>5. ASSUME NEW c \in DraftCalls, NEW g \in Groups, ResetPrompt(c, g) PROVE SettingsInv'
  <2>1. SoundRequest([NoCall EXCEPT !.kind = "restore", !.group = g])
    BY DEF SoundRequest, DraftRequests, NoCall, Bodies
  <2>2. RequestsInv'
    BY <1>5, <2>1, OneRequestChanges DEF ResetPrompt, Asks
  <2>3. DraftInv'
    BY <1>5 DEF ResetPrompt, DraftInv
  <2> QED BY <1>5, <2>2, <2>3 DEF ResetPrompt, SecretsAreKept
<1>6. ASSUME NEW c \in DraftCalls, Refresh(c) PROVE SettingsInv'
  <2>1. RequestsInv'
    BY <1>6, PlainRequestsAreSound, OneRequestChanges DEF Refresh, Asks
  <2>2. DraftInv'
    BY <1>6 DEF Refresh, DraftInv
  <2> QED BY <1>6, <2>1, <2>2 DEF Refresh, SecretsAreKept
<1>7. ASSUME NEW c \in DraftCalls, NEW applies \in BOOLEAN, NEW answers \in BOOLEAN, Handles(c, applies, answers)
      PROVE  SettingsInv'
  <2> DEFINE old == sdCalls[c]
             call == [old EXCEPT !.at = IF answers THEN "done" ELSE "failed",
                                 !.body = IF old.kind = "read" /\ answers THEN Masked(sdServer) ELSE @]
  <2>1. SoundRequest(old)
    BY DEF RequestsInv
  <2>2. Masked(sdServer) \in [Fields -> DraftValues]
    BY DEF Masked, DraftValues, DraftInv
  <2>3. SoundRequest(call)
    BY <2>1, <2>2 DEF SoundRequest, DraftRequests, Bodies
  <2>4. sdCalls' = [sdCalls EXCEPT ![c] = call]
    BY <1>7 DEF Handles
  <2>5. RequestsInv'
    BY <2>3, <2>4, OneRequestChanges
  <2>6. Applied(old) \in [Fields -> DraftValues]
    BY <2>1 DEF Applied, SoundRequest, DraftRequests, Bodies, DraftInv, DraftValues, NoEdit
  <2>7. \A f \in Fields : Control[f] = "secret" => Applied(old)[f] \notin {"", " "}
    BY <2>1 DEF Applied, SoundRequest, SecretsAreKept
  <2>8. sdServer' \in {sdServer, Applied(old)} /\ UNCHANGED <<sdConfig, sdLoaded, sdView, sdEdits, sdSaving, sdRestoring>>
    BY <1>7 DEF Handles
  <2>9. DraftInv'
    BY <2>6, <2>8 DEF DraftInv
  <2>10. SecretsAreKept'
    BY <2>7, <2>8 DEF SecretsAreKept
  <2> QED BY <2>5, <2>9, <2>10
<1>8. ASSUME NEW c \in DraftCalls, ReadAnswered(c) PROVE SettingsInv'
  <2>1. RequestsInv'
    BY <1>8, PlainRequestsAreSound, OneRequestChanges DEF ReadAnswered
  <2>2. SoundRequest(sdCalls[c])
    BY DEF RequestsInv
  <2>3. DraftInv'
    BY <1>8, <2>2 DEF ReadAnswered, DraftInv, SoundRequest
  <2> QED BY <1>8, <2>1, <2>3 DEF ReadAnswered, SecretsAreKept
<1>9. ASSUME NEW c \in DraftCalls, ChangeAnswered(c) PROVE SettingsInv'
  <2>1. RequestsInv'
    BY <1>9, PlainRequestsAreSound, OneRequestChanges DEF ChangeAnswered
  <2>2. \A g : Reset(g) \in Bodies
    BY DEF Reset, Bodies, DraftInv
  <2>3. DraftInv'
    BY <1>9, <2>2 DEF ChangeAnswered, DraftInv
  <2> QED BY <1>9, <2>1, <2>3 DEF ChangeAnswered, SecretsAreKept
<1>10. CASE UNCHANGED sdVars
  BY <1>10 DEF sdVars, DraftInv, RequestsInv, SecretsAreKept
<1> QED BY <1>1, <1>2, <1>3, <1>4, <1>5, <1>6, <1>7, <1>8, <1>9, <1>10 DEF SettingsNext

\* Edits go with the discard button of their group, or with a request for it
\* that the backend confirmed.
LEMMA EditsStay ==
    ASSUME SettingsInv, [SettingsNext]_sdVars,
           NEW f \in Fields, sdEdits[f] # NoEdit, sdEdits'[f] = NoEdit
    PROVE  \/ Discard(GroupOf[f])
           \/ \E c \in DraftCalls : /\ sdCalls[c].group = GroupOf[f]
                                    /\ sdCalls[c].at = "done"
                                    /\ sdCalls'[c] # sdCalls[c]
<1>1. sdEdits \in Bodies
  BY DEF SettingsInv, DraftInv
<1>2. ASSUME NEW e \in Fields, NEW text \in Inputs[e], SetValue(e, text) PROVE sdEdits'[f] # NoEdit
  BY <1>1, <1>2, SettingsAssumption DEF SetValue, Typed, Bodies, NoEdit
<1>3. ASSUME NEW g \in Groups, Discard(g) PROVE Discard(GroupOf[f])
  <2>1. f \in FieldsOf(g)
    BY <1>3 DEF Discard, Reset
  <2> QED BY <1>3, <2>1 DEF FieldsOf
<1>4. ASSUME NEW c \in DraftCalls, ChangeAnswered(c)
      PROVE  /\ sdCalls[c].group = GroupOf[f]
             /\ sdCalls[c].at = "done"
             /\ sdCalls'[c] # sdCalls[c]
  <2>1. sdCalls[c].at = "done" /\ f \in FieldsOf(sdCalls[c].group)
    BY <1>4 DEF ChangeAnswered, Reset
  <2>2. sdCalls'[c] = Read /\ sdCalls[c].kind \in {"save", "restore"}
    BY <1>4, <2>1 DEF ChangeAnswered, SettingsInv, RequestsInv
  <2>3. Read.kind = "read"
    BY DEF Read, NoCall
  <2> QED BY <2>1, <2>2, <2>3 DEF FieldsOf
<1>5. \/ UNCHANGED sdEdits
      \/ \E e \in Fields : \E text \in Inputs[e] : SetValue(e, text)
      \/ \E g \in Groups : Discard(g)
      \/ \E c \in DraftCalls : ChangeAnswered(c)
  BY DEF SettingsNext, sdVars, sdDraft, OpenSection, SaveGroup, ResetPrompt, Refresh, Handles, ReadAnswered
<1> QED BY <1>2, <1>3, <1>4, <1>5

-----------------------------------------------------------------------------
(* The settings page of the web client.                                    *)

WebValues   == {"", " ", "a", "b", "p", "q", "none", "pq", "local", "openai", "off", "on", Unset}
WebBodies   == {b \in [WebFields -> WebValues] : \A f \in WebFields : b[f] \in WebInputs[f] \cup {Unset}}
TabRequests == [kind : {"none", "read", "save", "tools", "password", "restore"}, here : BOOLEAN,
                at : {"sent", "done", "failed"}, body : WebBodies]

\* A configuration, or an answer with one, and the backend it was read from:
\* no password is seen, and no login, unless there is one for good.
ReadFrom(config, server) ==
    /\ \A f \in WebFields : config[f] \in WebInputs[f]
    /\ server["password"] = "" => config["password"] = "" /\ config["auth"] # "on"

\* What a change may carry: no blank secret, no login without a password, and
\* a provider with a fallback that is another.
Harmless(body, server) ==
    /\ \A f \in WebSecrets : body[f] # ""
    /\ body["auth"] = "on" => server["password"] # ""
    /\ \/ body["provider"] = Unset /\ body["fallback"] = Unset
       \/ body["provider"] # Unset /\ body["fallback"] \notin {Unset, body["provider"], "pq"}

SoundTabRequest(call, server) ==
    /\ call \in TabRequests
    /\ call.kind = "read" /\ call.at = "done" => ReadFrom(call.body, server)
    /\ call.kind # "read" => Harmless(call.body, server)
    /\ call.kind = "password" /\ call.at = "sent" => call.body["password"] # Unset

TabRequestsInv ==
    /\ wsCalls = [c \in TabCalls |-> wsCalls[c]]
    /\ \A c \in TabCalls : SoundTabRequest(wsCalls[c], wsServer)

ServerInv ==
    /\ wsServer \in WebBodies
    /\ ReadFrom(wsServer, wsServer)
    /\ WebSecretsAreKept /\ LoginNeedsPassword /\ FallbackIsAnother

ConfigInv ==
    /\ wsConfig \in WebBodies
    /\ wsLoaded \in BOOLEAN
    /\ wsLoaded => ReadFrom(wsConfig, wsServer)

FormInv ==
    /\ wsForm \in WebBodies
    /\ TabShown => \A f \in FieldsOfTab[wsTab] : wsForm[f] \in WebInputs[f]
    /\ wsForm["auth"] = "on" => wsServer["password"] # ""

\* Reads do not overlap unseen, and the tab is gone while there is one.
ReadsInv ==
    /\ wsLoading => \E c \in TabCalls : wsCalls[c].kind = "read"
    /\ ~wsOverlap => \A c, d \in TabCalls :
          wsCalls[c].kind = "read" => wsLoading /\ (wsCalls[d].kind = "read" => c = d)

PageTypes ==
    /\ wsLoading \in BOOLEAN
    /\ wsTour \in WebTours
    /\ wsTab \in wsTour
    /\ wsSaving \subseteq {"save", "password"}
    /\ wsOverlap \in BOOLEAN

WebSettingsInv == ServerInv /\ ConfigInv /\ FormInv /\ TabRequestsInv /\ ReadsInv /\ PageTypes

LEMMA SomeFields ==
    /\ WebSecrets \subseteq WebFields
    /\ {"name", "prompt", "provider", "fallback", "speech", "whatsapp", "telegram", "auth", "server"}
          = WebFields \ WebSecrets
    /\ "password" \in WebSecrets
BY DEF WebFields, WebSecrets

LEMMA SecretInputs == \A f \in WebSecrets : WebInputs[f] = {"", "b"}
BY SomeFields DEF WebInputs

LEMMA InputsOfFields ==
    /\ WebInputs["prompt"] = {" ", "a", "b"}
    /\ WebInputs["provider"] = {"p", "q"}
    /\ WebInputs["fallback"] = {"none", "p", "q", "pq"}
    /\ WebInputs["speech"] = {"local", "openai"}
    /\ WebInputs["auth"] = {"off", "on"}
    /\ \A f \in {"name", "whatsapp", "telegram", "server"} : WebInputs[f] = {"a", "b"}
<1>2. WebInputs["prompt"] = {" ", "a", "b"}
  BY SomeFields DEF WebInputs
<1>3. WebInputs["provider"] = {"p", "q"}
  BY SomeFields DEF WebInputs
<1>4. WebInputs["fallback"] = {"none", "p", "q", "pq"}
  BY SomeFields DEF WebInputs
<1>5. WebInputs["speech"] = {"local", "openai"}
  BY SomeFields DEF WebInputs
<1>6. WebInputs["auth"] = {"off", "on"}
  BY SomeFields DEF WebInputs
<1>7. \A f \in {"name", "whatsapp", "telegram", "server"} : WebInputs[f] = {"a", "b"}
  BY SomeFields DEF WebInputs
<1> QED BY <1>2, <1>3, <1>4, <1>5, <1>6, <1>7

LEMMA InputsAreValues == \A f \in WebFields : WebInputs[f] \subseteq WebValues \ {Unset}
<1>1. ASSUME NEW f \in WebFields \ WebSecrets PROVE WebInputs[f] \subseteq WebValues \ {Unset}
  <2>1. f \in {"name", "prompt", "provider", "fallback", "speech", "whatsapp", "telegram", "auth", "server"}
    BY SomeFields
  <2> QED BY <2>1, InputsOfFields DEF WebValues, Unset
<1>2. ASSUME NEW f \in WebSecrets PROVE WebInputs[f] \subseteq WebValues \ {Unset}
  BY SecretInputs DEF WebValues, Unset
<1> QED BY <1>1, <1>2

LEMMA WebSettingsFollow ==
    WebSettingsInv => /\ WebSettingsTypeOK /\ WebSecretsAreKept /\ LoginNeedsPassword
                      /\ FallbackIsAnother /\ LoadingEnds
<1> SUFFICES ASSUME WebSettingsInv
             PROVE  /\ WebSettingsTypeOK /\ WebSecretsAreKept /\ LoginNeedsPassword
                    /\ FallbackIsAnother /\ LoadingEnds
  OBVIOUS
<1>1. WebSecretsAreKept /\ LoginNeedsPassword /\ FallbackIsAnother /\ LoadingEnds
  BY DEF WebSettingsInv, ServerInv, ReadsInv, LoadingEnds
<1>2. \A f \in WebFields : wsServer[f] \in Held(f)
  BY SecretInputs DEF WebSettingsInv, ServerInv, ReadFrom, Held
<1>3. \A b \in WebBodies : InBodies(b)
  BY DEF WebBodies, InBodies
<1>4. \A c \in TabCalls : wsCalls[c] \in TabRequests
  BY DEF WebSettingsInv, TabRequestsInv, SoundTabRequest
<1>5. WebSettingsTypeOK
  BY <1>2, <1>3, <1>4 DEF WebSettingsInv, ConfigInv, FormInv, PageTypes, TabRequests, WebSettingsTypeOK
<1> QED BY <1>1, <1>5

LEMMA NoFieldsIsABody == NoFields \in WebBodies /\ \A server : Harmless(NoFields, server)
<1>1. NoFields \in WebBodies
  BY DEF NoFields, WebBodies, WebValues
<1>2. \A f \in WebFields : NoFields[f] = Unset
  BY DEF NoFields
<1>3. \A server : Harmless(NoFields, server)
  BY <1>2, SomeFields DEF Harmless, Unset
<1> QED BY <1>1, <1>3

LEMMA PlainTabRequests == \A server : SoundTabRequest(WsIdle, server) /\ SoundTabRequest(WsRead, server)
BY NoFieldsIsABody DEF SoundTabRequest, TabRequests, WsIdle, WsRead

\* The inputs a tab mounts with.
LEMMA OpenedIsABody ==
    ASSUME NEW tab, NEW config \in WebBodies, NEW server, ReadFrom(config, server)
    PROVE  /\ Opened(tab, config) \in WebBodies
           /\ \A f \in FieldsOfTab[tab] \cap WebFields : Opened(tab, config)[f] \in WebInputs[f]
           /\ Opened(tab, config)["auth"] = "on" => server["password"] # ""
<1>1. \A f \in WebFields : Opened(tab, config)[f] = IF f \notin FieldsOfTab[tab] THEN Unset
                                                    ELSE IF f \in WebSecrets THEN "" ELSE config[f]
  BY DEF Opened
<1>2. \A f \in WebFields : Opened(tab, config)[f] \in WebInputs[f] \cup {Unset}
  BY <1>1, SecretInputs DEF ReadFrom
<1>3. Opened(tab, config) \in WebBodies
  BY <1>2, InputsAreValues DEF Opened, WebBodies, WebValues
<1>4. \A f \in FieldsOfTab[tab] \cap WebFields : Opened(tab, config)[f] \in WebInputs[f]
  BY <1>1, SecretInputs DEF ReadFrom
<1>5. Opened(tab, config)["auth"] = "on" => server["password"] # ""
  BY <1>1, SomeFields DEF ReadFrom, Unset
<1> QED BY <1>3, <1>4, <1>5

LEMMA FieldsOfTabs ==
    /\ \A tab \in WebTabs : FieldsOfTab[tab] \subseteq WebFields
    /\ FieldsOfTab["llm"] = LlmFields
    /\ FieldsOfTab["tools"] = ToolsFields
BY DEF FieldsOfTab, WebTabs, WebFields, WebSecrets, GeneralFields, LlmFields, VoiceFields, WhatsAppFields,
       TelegramFields, ToolsFields, ServerFields

LEMMA WebSettingsStart == WebSettingsInit => WebSettingsInv
<1> SUFFICES ASSUME WebSettingsInit PROVE WebSettingsInv
  OBVIOUS
<1> USE DEF WebSettingsInit, PageOpens
<1>1. wsServer \in WebBodies /\ ReadFrom(wsServer, wsServer)
  <2>1. wsServer \in [WebFields -> WebValues]
    BY DEF WebValues
  <2>2. \A f \in WebSecrets : wsServer[f] \in WebInputs[f]
    BY SomeFields, SecretInputs
  <2>3. \A f \in WebFields \ WebSecrets : wsServer[f] \in WebInputs[f]
    BY SomeFields, InputsOfFields
  <2>4. wsServer["auth"] = "off" /\ wsServer["password"] = ""
    BY SomeFields
  <2> QED BY <2>1, <2>2, <2>3, <2>4 DEF WebBodies, ReadFrom
<1>2. WebSecretsAreKept /\ LoginNeedsPassword /\ FallbackIsAnother
  BY DEF WebSecretsAreKept, LoginNeedsPassword, FallbackIsAnother, WebFields, WebSecrets
<1>3. ConfigInv
  BY NoFieldsIsABody DEF ConfigInv
<1>4. FormInv
  BY NoFieldsIsABody DEF FormInv, TabShown, NoFields, Unset, WebFields
<1>5. PICK c \in TabCalls : wsCalls = [[d \in TabCalls |-> WsIdle] EXCEPT ![c] = WsRead]
  OBVIOUS
<1>6. TabRequestsInv
  BY <1>5, PlainTabRequests DEF TabRequestsInv
<1>7. WsIdle.kind = "none" /\ WsRead.kind = "read"
  BY DEF WsIdle, WsRead
<1>8. ReadsInv
  BY <1>5, <1>7 DEF ReadsInv
<1> QED BY <1>1, <1>2, <1>3, <1>4, <1>6, <1>8 DEF WebSettingsInv, ServerInv, PageTypes

\* One request changes and stays sound, the backend stays.
LEMMA OneTabRequestChanges ==
    ASSUME TabRequestsInv, UNCHANGED wsServer,
           NEW c \in TabCalls, NEW call, SoundTabRequest(call, wsServer),
           wsCalls' = [wsCalls EXCEPT ![c] = call]
    PROVE  TabRequestsInv'
BY DEF TabRequestsInv

\* A button that posts a sound change.
LEMMA PostsKeeps ==
    ASSUME WebSettingsInv, NEW c \in TabCalls, NEW flag \in {"save", "password"},
           NEW kind \in {"save", "tools", "password", "restore"},
           NEW body \in WebBodies, Harmless(body, wsServer),
           kind = "password" => body["password"] # Unset,
           Posts(c, flag, kind, body)
    PROVE  WebSettingsInv'
<1> DEFINE call == [kind |-> kind, here |-> TRUE, at |-> "sent", body |-> body]
<1>1. SoundTabRequest(call, wsServer)
  BY DEF SoundTabRequest, TabRequests
<1>2. TabRequestsInv'
  BY <1>1, OneTabRequestChanges DEF Posts, WebSettingsInv
<1>3. wsCalls[c].kind = "none"
  BY DEF Posts, WsIdle
<1>4. ReadsInv'
  BY <1>3 DEF Posts, WebSettingsInv, ReadsInv, TabRequestsInv
<1> QED
  BY <1>2, <1>4 DEF Posts, WebSettingsInv, ServerInv, ConfigInv, FormInv, PageTypes, TabShown,
                    WebSecretsAreKept, LoginNeedsPassword, FallbackIsAnother

\* What a tab sends is harmless.
LEMMA SentIsHarmless ==
    ASSUME WebSettingsInv, NEW fields, fields \cap {"provider", "fallback"} = {}
    PROVE  Sent(wsForm, fields) \in WebBodies /\ Harmless(Sent(wsForm, fields), wsServer)
<1>1. wsForm \in WebBodies /\ (wsForm["auth"] = "on" => wsServer["password"] # "")
  BY DEF WebSettingsInv, FormInv
<1>2. Sent(wsForm, fields) \in WebBodies
  BY <1>1 DEF Sent, WebBodies, WebValues
<1>3. WebSecrets \subseteq WebFields /\ {"auth", "provider", "fallback"} \subseteq WebFields
  BY SomeFields
<1>4. \A f \in WebSecrets : Sent(wsForm, fields)[f] # ""
  BY <1>3 DEF Sent, Unset
<1>5. Sent(wsForm, fields)["auth"] = "on" => wsServer["password"] # ""
  BY <1>1, <1>3 DEF Sent, Unset
<1>6. Sent(wsForm, fields)["provider"] = Unset /\ Sent(wsForm, fields)["fallback"] = Unset
  BY <1>3 DEF Sent
<1> QED BY <1>2, <1>4, <1>5, <1>6 DEF Harmless

LEMMA LlmBodyIsHarmless ==
    ASSUME WebSettingsInv, TabShown, wsTab = "llm"
    PROVE  LlmBody(wsForm) \in WebBodies /\ Harmless(LlmBody(wsForm), wsServer)
<1>1. wsForm \in WebBodies /\ (wsForm["auth"] = "on" => wsServer["password"] # "")
  BY DEF WebSettingsInv, FormInv
<1>2. wsForm["provider"] \in {"p", "q"} /\ wsForm["fallback"] \in {"none", "p", "q", "pq"}
  <2>1. wsForm["provider"] \in WebInputs["provider"] /\ wsForm["fallback"] \in WebInputs["fallback"]
    BY FieldsOfTabs DEF WebSettingsInv, FormInv, LlmFields
  <2> QED BY <2>1, InputsOfFields
<1> DEFINE sent == Sent(wsForm, LlmFields)
           another == Without(wsForm["fallback"], wsForm["provider"])
<1>3. another \in {"none", "p", "q"} /\ another # wsForm["provider"]
  BY <1>2 DEF Without
<1>4. /\ sent \in WebBodies /\ sent["provider"] = wsForm["provider"] /\ sent["fallback"] = wsForm["fallback"]
      /\ sent["auth"] = Unset
      /\ \A f \in WebSecrets : sent[f] # ""
  <2>1. sent \in WebBodies
    BY <1>1 DEF Sent, WebBodies, WebValues
  <2> QED BY <2>1, SomeFields DEF Sent, LlmFields, Unset
<1>5. LlmBody(wsForm) = [sent EXCEPT !["fallback"] = another]
  BY <1>4 DEF LlmBody
<1>6. WebInputs["fallback"] = {"none", "p", "q", "pq"} /\ "fallback" \in WebFields /\ "fallback" \notin WebSecrets
  BY SomeFields, SecretInputs, InputsOfFields
<1>7. LlmBody(wsForm) \in WebBodies
  BY <1>3, <1>4, <1>5, <1>6 DEF WebBodies, WebValues
<1>8. /\ LlmBody(wsForm)["fallback"] = another /\ LlmBody(wsForm)["provider"] = wsForm["provider"]
      /\ LlmBody(wsForm)["auth"] = Unset
      /\ \A f \in WebSecrets : LlmBody(wsForm)[f] # ""
  <2>1. \A f \in WebFields : LlmBody(wsForm)[f] = IF f = "fallback" THEN another ELSE sent[f]
    BY <1>4, <1>5 DEF WebBodies
  <2>2. WebSecrets \subseteq WebFields /\ {"auth", "provider", "fallback"} \subseteq WebFields
    BY SomeFields
  <2> QED BY <1>4, <1>6, <2>1, <2>2
<1>9. Harmless(LlmBody(wsForm), wsServer)
  BY <1>2, <1>3, <1>8 DEF Harmless, Unset
<1> QED BY <1>7, <1>9

LEMMA SaveTabKeeps ==
    ASSUME WebSettingsInv, NEW c \in TabCalls, SaveTab(c)
    PROVE  WebSettingsInv'
<1>1. ASSUME NEW fields, fields \cap {"provider", "fallback"} = {}, NEW kind \in {"save", "tools"},
             Posts(c, "save", kind, Sent(wsForm, fields))
      PROVE  WebSettingsInv'
  BY <1>1, SentIsHarmless, PostsKeeps
<1>2. CASE wsTab = "llm" /\ Posts(c, "save", "save", LlmBody(wsForm))
  BY <1>2, LlmBodyIsHarmless, PostsKeeps DEF Posts
<1>3. /\ {"name"} \cap {"provider", "fallback"} = {}
      /\ VoiceFields \cap {"provider", "fallback"} = {}
      /\ WhatsAppFields \cap {"provider", "fallback"} = {}
      /\ TelegramFields \cap {"provider", "fallback"} = {}
      /\ {"auth"} \cap {"provider", "fallback"} = {}
      /\ ServerFields \cap {"provider", "fallback"} = {}
  BY DEF VoiceFields, WhatsAppFields, TelegramFields, ServerFields
<1>4. CASE Posts(c, "save", "save", GeneralBody(wsForm))
  BY <1>1, <1>3, <1>4 DEF GeneralBody
<1>5. CASE Posts(c, "save", "save", VoiceBody(wsForm))
  BY <1>1, <1>3, <1>5 DEF VoiceBody
<1>6. CASE Posts(c, "save", "save", WhatsAppBody(wsForm))
  BY <1>1, <1>3, <1>6 DEF WhatsAppBody
<1>7. CASE Posts(c, "save", "save", TelegramBody(wsForm))
  BY <1>1, <1>3, <1>7 DEF TelegramBody
<1>8. CASE Posts(c, "save", "tools", ToolsBody(wsForm))
  BY <1>1, <1>3, <1>8 DEF ToolsBody
<1>9. CASE Posts(c, "save", "save", ServerBody(wsForm))
  BY <1>1, <1>3, <1>9 DEF ServerBody
<1> QED BY <1>2, <1>4, <1>5, <1>6, <1>7, <1>8, <1>9 DEF SaveTab

\* A change that the backend handles leaves what the pages know of it true.
LEMMA StoredIsSound ==
    ASSUME WebSettingsInv, NEW c \in TabCalls, wsCalls[c].at = "sent", wsCalls[c].kind \notin {"none", "read"},
           NEW server, server = [f \in WebFields |-> Stores(f, wsCalls[c])]
    PROVE  /\ server \in WebBodies
           /\ ReadFrom(server, server)
           /\ \A f \in WebSecrets \ {"password"} : server[f] # ""
           /\ server["auth"] = "on" => server["password"] # ""
           /\ server["fallback"] \notin {server["provider"], "pq"}
           /\ wsServer["password"] # "" => server["password"] # ""
<1> DEFINE call == wsCalls[c]
<1>1. call \in TabRequests /\ Harmless(call.body, wsServer) /\ (call.kind = "password" => call.body["password"] # Unset)
  BY DEF WebSettingsInv, TabRequestsInv, SoundTabRequest
<1>2. /\ wsServer \in WebBodies
      /\ \A f \in WebFields : wsServer[f] \in WebInputs[f]
      /\ \A f \in WebSecrets \ {"password"} : wsServer[f] # ""
      /\ wsServer["auth"] = "on" => wsServer["password"] # ""
      /\ wsServer["fallback"] \notin {wsServer["provider"], "pq"}
  BY DEF WebSettingsInv, ServerInv, ReadFrom, WebSecretsAreKept, LoginNeedsPassword, FallbackIsAnother
<1>3. call.body \in WebBodies /\ call.kind \in {"save", "tools", "password", "restore"}
  BY <1>1 DEF TabRequests
<1>4. /\ WebSecrets \subseteq WebFields
      /\ {"auth", "provider", "fallback", "prompt", "password"} \subseteq WebFields
      /\ {"auth", "provider", "fallback", "prompt"} \cap WebSecrets = {} /\ "password" \in WebSecrets
      /\ WebInputs["prompt"] = {" ", "a", "b"} /\ WebInputs["auth"] = {"off", "on"}
  BY SomeFields, SecretInputs, InputsOfFields
<1>5. \A f \in WebFields : server[f] = Stores(f, call)
  OBVIOUS
<1>6. \A f \in WebFields \ {"auth", "prompt"} : server[f] = IF call.body[f] = Unset THEN wsServer[f] ELSE call.body[f]
  BY <1>5 DEF Stores
<1>7. server["prompt"] \in WebInputs["prompt"] /\ server["auth"] \in WebInputs["auth"]
  BY <1>2, <1>3, <1>4, <1>5 DEF Stores, WebBodies
<1>8. \A f \in WebFields : server[f] \in WebInputs[f]
  BY <1>2, <1>3, <1>6, <1>7 DEF WebBodies
<1>9. server \in WebBodies
  BY <1>8, InputsAreValues DEF WebBodies
<1>10. \A f \in WebSecrets \ {"password"} : server[f] # ""
  BY <1>1, <1>2, <1>4, <1>6 DEF Harmless
<1>11. /\ wsServer["password"] # "" => server["password"] # ""
       /\ call.kind = "password" => server["password"] # ""
  BY <1>1, <1>4, <1>6 DEF Harmless
<1>12. server["auth"] = "on" => server["password"] # ""
  BY <1>1, <1>2, <1>4, <1>5, <1>11 DEF Stores, Harmless
<1>13. server["fallback"] \notin {server["provider"], "pq"}
  BY <1>1, <1>2, <1>4, <1>6 DEF Harmless
<1>14. ReadFrom(server, server)
  BY <1>8, <1>12 DEF ReadFrom
<1> QED BY <1>9, <1>10, <1>11, <1>12, <1>13, <1>14

\* What was sound stays so when a password is set.
LEMMA SoundStays ==
    ASSUME NEW call, NEW server, NEW later, SoundTabRequest(call, server),
           server["password"] # "" => later["password"] # ""
    PROVE  SoundTabRequest(call, later)
BY DEF SoundTabRequest, ReadFrom, Harmless

LEMMA WebHandlesKeeps ==
    ASSUME WebSettingsInv, NEW c \in TabCalls, NEW applies \in BOOLEAN, NEW answers \in BOOLEAN,
           WebHandles(c, applies, answers)
    PROVE  WebSettingsInv'
<1> DEFINE old  == wsCalls[c]
           body == IF ~answers THEN NoFields
                   ELSE CASE old.kind = "read"  -> wsServer
                          [] old.kind = "tools" -> old.body
                          [] OTHER              -> NoFields
           call == [old EXCEPT !.at = IF answers THEN "done" ELSE "failed", !.body = body]
<1>2. SoundTabRequest(old, wsServer) /\ old \in TabRequests
  BY DEF WebSettingsInv, TabRequestsInv, SoundTabRequest
<1>1. wsCalls' = [wsCalls EXCEPT ![c] = call]
  <2>1. CASE ~answers
    BY <2>1 DEF WebHandles
  <2>2. CASE answers /\ old.kind = "read"
    BY <2>2 DEF WebHandles
  <2>3. CASE answers /\ old.kind = "tools"
    BY <2>3 DEF WebHandles
  <2>4. CASE answers /\ old.kind \notin {"read", "tools"}
    BY <2>4 DEF WebHandles
  <2> QED BY <2>1, <2>2, <2>3, <2>4
<1>3. ServerInv' /\ (wsServer["password"] # "" => wsServer'["password"] # "")
  <2>1. CASE UNCHANGED wsServer
    BY <2>1 DEF WebSettingsInv, ServerInv, WebSecretsAreKept, LoginNeedsPassword, FallbackIsAnother
  <2>2. CASE wsServer' = [f \in WebFields |-> Stores(f, old)] /\ old.kind # "read"
    BY <2>2, StoredIsSound DEF WebHandles, ServerInv, WebSecretsAreKept, LoginNeedsPassword, FallbackIsAnother
  <2> QED BY <2>1, <2>2 DEF WebHandles
<1>4. wsServer \in WebBodies /\ ReadFrom(wsServer, wsServer)
  BY DEF WebSettingsInv, ServerInv
<1>5. SoundTabRequest(call, wsServer)
  <2>1. body \in WebBodies
    BY <1>2, <1>4, NoFieldsIsABody DEF TabRequests
  <2>2. /\ call \in TabRequests /\ call.kind = old.kind /\ call.body = body
        /\ call.at = IF answers THEN "done" ELSE "failed"
    BY <1>2, <2>1 DEF TabRequests
  <2>3. old.kind # "read" => Harmless(body, wsServer)
    BY <1>2, NoFieldsIsABody DEF SoundTabRequest
  <2>4. call.kind = "read" /\ call.at = "done" => ReadFrom(call.body, wsServer)
    BY <1>4, <2>2
  <2> HIDE DEF call, body
  <2> QED BY <2>2, <2>3, <2>4 DEF SoundTabRequest
<1>6. TabRequestsInv'
  <2> HIDE DEF call
  <2>1. SoundTabRequest(call, wsServer')
    BY <1>3, <1>5, SoundStays
  <2>2. \A d \in TabCalls : SoundTabRequest(wsCalls[d], wsServer')
    BY <1>3, SoundStays DEF WebSettingsInv, TabRequestsInv
  <2> QED BY <1>1, <2>1, <2>2 DEF WebSettingsInv, TabRequestsInv
<1>7. UNCHANGED <<wsConfig, wsLoaded, wsLoading, wsTour, wsTab, wsForm, wsSaving, wsOverlap>>
  BY DEF WebHandles, wsPage
<1>8. \A d \in TabCalls : wsCalls'[d].kind = wsCalls[d].kind
  BY <1>1, <1>2 DEF WebSettingsInv, TabRequestsInv, TabRequests
<1>9. ReadsInv'
  BY <1>7, <1>8 DEF WebSettingsInv, ReadsInv
<1>10. ConfigInv' /\ FormInv' /\ PageTypes'
  BY <1>3, <1>7 DEF WebSettingsInv, ConfigInv, FormInv, PageTypes, ReadFrom, TabShown
<1> QED BY <1>3, <1>6, <1>9, <1>10 DEF WebSettingsInv

LEMMA ConfigAnsweredKeeps ==
    ASSUME WebSettingsInv, NEW c \in TabCalls, ConfigAnswered(c)
    PROVE  WebSettingsInv'
<1>1. SoundTabRequest(wsCalls[c], wsServer) /\ wsCalls[c] \in TabRequests
  BY DEF WebSettingsInv, TabRequestsInv, SoundTabRequest
<1>2. ConfigInv'
  BY <1>1 DEF ConfigAnswered, WebSettingsInv, ConfigInv, SoundTabRequest, TabRequests
<1>3. TabRequestsInv'
  BY PlainTabRequests, OneTabRequestChanges DEF ConfigAnswered, WebSettingsInv
<1>4. FormInv'
  <2>1. CASE wsForm' = Opened(wsTab, wsConfig') /\ wsLoaded'
    <3>1. wsConfig' \in WebBodies /\ ReadFrom(wsConfig', wsServer)
      BY <1>2, <2>1 DEF ConfigInv, ConfigAnswered
    <3>2. wsTab \in WebTabs
      BY WebSettingsAssumption DEF WebSettingsInv, PageTypes
    <3> QED BY <2>1, <3>1, <3>2, OpenedIsABody, FieldsOfTabs DEF FormInv, ConfigAnswered
  <2>2. CASE UNCHANGED wsForm /\ (TabShown \/ ~wsLoaded')
    BY <2>2 DEF ConfigAnswered, WebSettingsInv, FormInv, TabShown
  <2> QED BY <2>1, <2>2 DEF ConfigAnswered
<1>5. ReadsInv'
  <2>1. wsCalls'[c].kind = "none" /\ \A d \in TabCalls \ {c} : wsCalls'[d] = wsCalls[d]
    BY DEF ConfigAnswered, WebSettingsInv, TabRequestsInv, WsIdle
  <2> QED BY <2>1 DEF ConfigAnswered, WebSettingsInv, ReadsInv
<1> QED
  BY <1>2, <1>3, <1>4, <1>5 DEF ConfigAnswered, WebSettingsInv, ServerInv, PageTypes, WebSecretsAreKept,
                                LoginNeedsPassword, FallbackIsAnother

LEMMA SelectTabKeeps ==
    ASSUME WebSettingsInv, NEW tab \in wsTour, SelectTab(tab)
    PROVE  WebSettingsInv'
<1>1. \A d \in TabCalls : wsCalls[d] \in TabRequests /\ SoundTabRequest(wsCalls[d], wsServer)
  BY DEF WebSettingsInv, TabRequestsInv, SoundTabRequest
<1>2. \A d \in TabCalls : /\ SoundTabRequest([wsCalls[d] EXCEPT !.here = FALSE], wsServer)
                          /\ [wsCalls[d] EXCEPT !.here = FALSE].kind = wsCalls[d].kind
  BY <1>1 DEF SoundTabRequest, TabRequests
<1>3. TabRequestsInv' /\ ReadsInv'
  BY <1>2 DEF SelectTab, WebSettingsInv, TabRequestsInv, ReadsInv
<1>4. tab \in WebTabs
  BY WebSettingsAssumption DEF WebSettingsInv, PageTypes
<1>5. FormInv'
  <2>1. CASE TabShown
    <3>1. wsConfig \in WebBodies /\ ReadFrom(wsConfig, wsServer)
      BY <2>1 DEF WebSettingsInv, ConfigInv, TabShown
    <3> QED BY <2>1, <3>1, <1>4, OpenedIsABody, FieldsOfTabs DEF FormInv, SelectTab
  <2>2. CASE ~TabShown
    BY <2>2 DEF SelectTab, WebSettingsInv, FormInv, TabShown
  <2> QED BY <2>1, <2>2
<1> QED
  BY <1>3, <1>5 DEF SelectTab, WebSettingsInv, ServerInv, ConfigInv, PageTypes, WebSecretsAreKept,
                    LoginNeedsPassword, FallbackIsAnother

LEMMA FillKeeps ==
    ASSUME WebSettingsInv, NEW f \in WebFields, NEW v \in WebInputs[f], Fill(f, v)
    PROVE  WebSettingsInv'
<1>1. wsForm' = [wsForm EXCEPT ![f] = v] /\ wsForm \in WebBodies /\ TabShown
  BY DEF Fill, WebSettingsInv, FormInv
<1>2. v \in WebValues
  BY InputsAreValues
<1>3. wsForm' \in WebBodies
  BY <1>1, <1>2 DEF WebBodies
<1>4. \A e \in FieldsOfTab[wsTab] : wsForm'[e] \in WebInputs[e]
  <2>1. FieldsOfTab[wsTab] \subseteq WebFields
    BY WebSettingsAssumption, FieldsOfTabs DEF WebSettingsInv, PageTypes
  <2> QED BY <1>1, <2>1 DEF WebSettingsInv, FormInv, WebBodies
<1>5. wsForm'["auth"] = "on" => wsServer["password"] # ""
  <2>1. "auth" \in WebFields
    BY SomeFields
  <2>2. f = "auth" => wsServer["password"] # ""
    BY DEF Fill, LoginSwitchable, TabShown, WebSettingsInv, ConfigInv, FormInv, ReadFrom
  <2> QED BY <1>1, <2>1, <2>2 DEF WebSettingsInv, FormInv, WebBodies
<1> QED
  BY <1>3, <1>4, <1>5 DEF Fill, WebSettingsInv, ServerInv, ConfigInv, FormInv, TabRequestsInv, ReadsInv, PageTypes,
                          WebSecretsAreKept, LoginNeedsPassword, FallbackIsAnother, TabShown

LEMMA ChangeDoneKeeps ==
    ASSUME WebSettingsInv, NEW c \in TabCalls, ChangeDone(c)
    PROVE  WebSettingsInv'
<1>1. \A d \in TabCalls : wsCalls[d] \in TabRequests /\ SoundTabRequest(wsCalls[d], wsServer)
  BY DEF WebSettingsInv, TabRequestsInv, SoundTabRequest
<1>2. \A d \in TabCalls : /\ SoundTabRequest([wsCalls[d] EXCEPT !.here = FALSE], wsServer)
                          /\ [wsCalls[d] EXCEPT !.here = FALSE].kind = wsCalls[d].kind
  BY <1>1 DEF SoundTabRequest, TabRequests
<1>3. /\ wsCalls'[c] = WsRead
      /\ \A d \in TabCalls \ {c} : wsCalls'[d] = [wsCalls[d] EXCEPT !.here = FALSE]
      /\ wsCalls' = [d \in TabCalls |-> wsCalls'[d]]
  BY DEF ChangeDone, Refreshes
<1>4. TabRequestsInv'
  BY <1>2, <1>3, PlainTabRequests DEF ChangeDone, TabRequestsInv
<1>5. WsRead.kind = "read"
  BY DEF WsRead, WsIdle
<1>6. wsLoading' /\ (~wsOverlap' => \A d \in TabCalls \ {c} : wsCalls[d].kind # "read")
  BY DEF ChangeDone, Refreshes
<1>7. ReadsInv'
  BY <1>2, <1>3, <1>5, <1>6 DEF ReadsInv
<1>8. FormInv'
  BY NoFieldsIsABody DEF ChangeDone, Refreshes, FormInv, TabShown, NoFields, Unset, WebFields
<1> QED
  BY <1>4, <1>7, <1>8 DEF ChangeDone, Refreshes, WebSettingsInv, ServerInv, ConfigInv, PageTypes, WebSecretsAreKept,
                          LoginNeedsPassword, FallbackIsAnother

LEMMA RequestEndsKeeps ==
    ASSUME WebSettingsInv, NEW c \in TabCalls, ToolsAnswered(c) \/ ChangeFails(c)
    PROVE  WebSettingsInv'
<1>1. SoundTabRequest(wsCalls[c], wsServer) /\ wsCalls[c] \in TabRequests
  BY DEF WebSettingsInv, TabRequestsInv, SoundTabRequest
<1>2. CASE ToolsAnswered(c)
  <2> DEFINE call == [wsCalls[c] EXCEPT !.kind = "save", !.at = "sent"]
  <2>1. SoundTabRequest(call, wsServer) /\ call.kind = "save" /\ wsCalls[c].kind = "tools"
    BY <1>1, <1>2 DEF ToolsAnswered, SoundTabRequest, TabRequests
  <2>2. wsCalls' = [wsCalls EXCEPT ![c] = call]
    BY <1>2 DEF ToolsAnswered
  <2> HIDE DEF call
  <2>3. TabRequestsInv'
    BY <1>2, <2>1, <2>2, OneTabRequestChanges DEF ToolsAnswered, WebSettingsInv
  <2>4. wsCalls'[c].kind = "save" /\ \A d \in TabCalls \ {c} : wsCalls'[d] = wsCalls[d]
    BY <2>1, <2>2 DEF WebSettingsInv, TabRequestsInv
  <2>5. ReadsInv'
    BY <1>2, <2>1, <2>4 DEF ToolsAnswered, WebSettingsInv, ReadsInv
  <2> QED
    BY <1>2, <2>3, <2>5 DEF ToolsAnswered, wsPage, WebSettingsInv, ServerInv, ConfigInv, FormInv, PageTypes,
                      WebSecretsAreKept, LoginNeedsPassword, FallbackIsAnother, TabShown
<1>3. CASE ChangeFails(c)
  <2>1. wsCalls' = [wsCalls EXCEPT ![c] = WsIdle] /\ WsIdle.kind = "none" /\ wsCalls[c].kind # "read"
    BY <1>3 DEF ChangeFails, WsIdle
  <2>2. TabRequestsInv' /\ ReadsInv'
    BY <1>3, <2>1, PlainTabRequests, OneTabRequestChanges DEF ChangeFails, WebSettingsInv, TabRequestsInv, ReadsInv
  <2> QED
    BY <1>3, <2>2 DEF ChangeFails, WebSettingsInv, ServerInv, ConfigInv, FormInv, PageTypes,
                      WebSecretsAreKept, LoginNeedsPassword, FallbackIsAnother, TabShown
<1> QED BY <1>2, <1>3

LEMMA WebSettingsStep ==
    ASSUME WebSettingsInv, [WebSettingsNext]_wsVars
    PROVE  WebSettingsInv'
<1>1. ASSUME NEW c \in TabCalls, SavePrompt(c) PROVE WebSettingsInv'
  <2>1. {"prompt"} \cap {"provider", "fallback"} = {}
    OBVIOUS
  <2> QED BY <1>1, <2>1, SentIsHarmless, PostsKeeps DEF SavePrompt, PromptBody
<1>2. ASSUME NEW c \in TabCalls, RestorePrompt(c) PROVE WebSettingsInv'
  BY <1>2, NoFieldsIsABody, PostsKeeps DEF RestorePrompt
<1>3. ASSUME NEW c \in TabCalls, ChangePassword(c) PROVE WebSettingsInv'
  <2>1. {"password"} \cap {"provider", "fallback"} = {}
    OBVIOUS
  <2>2. wsForm["password"] \in WebInputs["password"] /\ wsForm["password"] # ""
    BY <1>3, FieldsOfTabs DEF ChangePassword, PasswordReady, Posts, WebSettingsInv, FormInv, ToolsFields
  <2>3. "password" \in WebFields /\ WebInputs["password"] = {"", "b"}
    BY SomeFields, SecretInputs, InputsOfFields
  <2>4. PasswordBody(wsForm)["password"] # Unset
    BY <2>2, <2>3 DEF PasswordBody, Sent, Unset
  <2> QED BY <1>3, <2>1, <2>4, SentIsHarmless, PostsKeeps DEF ChangePassword, PasswordBody
<1>4. CASE UNCHANGED wsVars
  BY <1>4 DEF wsVars, wsPage, WebSettingsInv, ServerInv, ConfigInv, FormInv, TabRequestsInv, ReadsInv, PageTypes,
              WebSecretsAreKept, LoginNeedsPassword, FallbackIsAnother, TabShown
<1> QED
  BY <1>1, <1>2, <1>3, <1>4, SelectTabKeeps, FillKeeps, SaveTabKeeps, WebHandlesKeeps, ConfigAnsweredKeeps,
     ChangeDoneKeeps, RequestEndsKeeps DEF WebSettingsNext

\* The configuration stays while a tab shows it, unless reads overlapped.
LEMMA ConfigStays ==
    ASSUME WebSettingsInv, [WebSettingsNext]_wsVars, ~wsOverlap, TabShown
    PROVE  wsConfig' = wsConfig
<1>1. ASSUME NEW c \in TabCalls PROVE ~ConfigAnswered(c)
  BY <1>1 DEF ConfigAnswered, WebSettingsInv, ReadsInv, TabShown
<1>2. ASSUME NEW c \in TabCalls, SaveTab(c) PROVE wsConfig' = wsConfig
  BY <1>2 DEF SaveTab, Posts
<1> QED
  BY <1>1, <1>2 DEF WebSettingsNext, wsVars, SelectTab, Fill, SavePrompt, RestorePrompt, ChangePassword, Posts,
                    WebHandles, ToolsAnswered, ChangeDone, ChangeFails

-----------------------------------------------------------------------------
(* The tables of the MCP servers.                                          *)

McpOps      == {"none", "read", "edit", "add", "install", "toggle", "export", "reconnect", "remove"}
McpRequests == [op : McpOps, at : {"nothing", "sent", "done", "failed"}, name : McpNames \cup {NoServerName},
                config : McpConfig, seen : McpConfig, here : BOOLEAN, read : McpFleet]
McpForms    == [mode : {"none", "add", "edit"}, name : McpNames \cup {NoServerName}, config : McpConfig, seen : McpConfig]

\* A request that is under way is about a server.  A change of a row with a
\* mask carries one, unless the secret was given up.
SoundMcpRequest(call, kept) ==
    /\ call \in McpRequests
    /\ call.at = "sent" /\ call.op # "read" => call.name \in McpNames
    /\ call.at = "sent" /\ call.name \in kept =>
          /\ Updates(call.op) /\ call.seen = "mask" => call.config \in {"mask", "secret"}
          /\ call.op # "remove"

McpTypes ==
    /\ mtPage \in {"desktop", "market", "web"}
    /\ mtServer \in McpFleet
    /\ mtConfig \in McpFleet
    /\ mtLoaded \in BOOLEAN /\ mtLoading \in BOOLEAN
    /\ mtBusy \in [name : McpNames \cup {NoServerName}, key : {"none", "row", "enabled", "export"}]
    /\ mtSaving \in BOOLEAN
    /\ mtInstalling \in McpNames \cup {NoServerName}
    /\ mtKept \subseteq McpNames
    /\ mtBehind \in BOOLEAN

McpRequestsInv ==
    /\ mtCalls = [c \in McpCalls |-> mtCalls[c]]
    /\ \A c \in McpCalls : SoundMcpRequest(mtCalls[c], mtKept)

\* A form is of a server, and is there once the table is.
McpFormInv ==
    /\ mtForm \in McpForms
    /\ mtForm # NoForm => mtForm.mode \in {"add", "edit"} /\ mtForm.name \in McpNames /\ mtLoaded
    /\ mtForm.seen = "mask" => mtForm.config # NoConfig
    /\ ~mtLoaded => mtBusy = NoBusy /\ ~mtSaving

\* A change that was made is still to be read back.
Unread(call)    == call.op = "read" \/ (call.op \notin {"none", "reconnect"} /\ call.at \in {"done", "failed"})
McpReadBackInv  == ~mtBehind => mtConfig = Shown(mtServer) \/ \E c \in McpCalls : Unread(mtCalls[c])

\* Whose answer takes "busy" away.
FreesRow(call, page) ==
    /\ call.here
    /\ \/ call.op \in {"toggle", "export", "reconnect", "remove"}
       \/ call.op \in {"edit", "add"} /\ page # "web"
McpFlagsInv ==
    /\ mtBusy # NoBusy => \E c \in McpCalls : FreesRow(mtCalls[c], mtPage)
    /\ mtSaving => \E c \in McpCalls : mtCalls[c].here /\ mtCalls[c].op \in {"add", "edit"}
    /\ mtLoading => \E c \in McpCalls : mtCalls[c].op = "read"

McpInv == McpTypes /\ McpRequestsInv /\ McpFormInv /\ StoredSecretsSurvive /\ McpReadBackInv /\ McpFlagsInv

LEMMA McpFollows == McpInv => McpTableTypeOK /\ StoredSecretsSurvive /\ TableIsTrue /\ McpBusyEnds
<1> SUFFICES ASSUME McpInv PROVE McpTableTypeOK /\ StoredSecretsSurvive /\ TableIsTrue /\ McpBusyEnds
  OBVIOUS
<1>1. \A c \in McpCalls : mtCalls[c] \in McpRequests
  BY DEF McpInv, McpRequestsInv, SoundMcpRequest
<1>2. McpTableTypeOK
  BY <1>1 DEF McpInv, McpTypes, McpFormInv, McpForms, McpRequests, McpOps, McpTableTypeOK
<1>3. ~Unread(McpIdle)
  BY DEF Unread, McpIdle
<1>4. TableIsTrue
  BY <1>3 DEF McpInv, McpReadBackInv, TableIsTrue
<1>5. McpBusyEnds
  BY DEF McpInv, McpFlagsInv, FreesRow, McpBusyEnds
<1> QED BY <1>2, <1>4, <1>5 DEF McpInv

LEMMA PlainMcpRequests == \A kept : SoundMcpRequest(McpIdle, kept) /\ SoundMcpRequest(McpRead, kept)
BY DEF SoundMcpRequest, McpRequests, McpOps, McpIdle, McpRead, McpConfig, McpFleet, NoneYet, NoConfig, Updates

LEMMA PlainOps == /\ McpIdle.op = "none" /\ ~McpIdle.here
                  /\ McpRead.op = "read" /\ ~McpRead.here
                  /\ McpIdle.at = "nothing"
BY DEF McpIdle, McpRead

\* Requests stay sound when a secret is given up.
LEMMA GivenUpIsSound ==
    ASSUME NEW call, NEW kept, NEW fewer \in SUBSET kept, SoundMcpRequest(call, kept)
    PROVE  SoundMcpRequest(call, fewer)
BY DEF SoundMcpRequest

\* One request changes and stays sound.
LEMMA OneMcpRequestChanges ==
    ASSUME McpRequestsInv, mtKept' \subseteq mtKept,
           NEW c \in McpCalls, NEW call, SoundMcpRequest(call, mtKept'),
           mtCalls' = [mtCalls EXCEPT ![c] = call]
    PROVE  /\ McpRequestsInv'
           /\ mtCalls'[c] = call
           /\ \A d \in McpCalls \ {c} : mtCalls'[d] = mtCalls[d]
<1>1. \A d \in McpCalls : SoundMcpRequest(mtCalls[d], mtKept')
  BY GivenUpIsSound DEF McpRequestsInv
<1> QED BY <1>1 DEF McpRequestsInv

LEMMA McpTableStart == McpTableInit => McpInv
<1> SUFFICES ASSUME McpTableInit PROVE McpInv
  OBVIOUS
<1> USE DEF McpTableInit, McpTableOpens
<1>1. mtServer \in McpFleet
  BY DEF McpFleet, NoneYet, McpConfig, NoConfig
<1>2. McpTypes
  BY <1>1 DEF McpTypes, McpFleet, NoneYet, McpConfig, NoConfig, NoBusy, InFleet
<1>3. PICK c \in McpCalls : mtCalls = [[d \in McpCalls |-> McpIdle] EXCEPT ![c] = McpRead]
  OBVIOUS
<1>4. McpRequestsInv
  BY <1>3, PlainMcpRequests DEF McpRequestsInv
<1>5. McpFormInv
  BY DEF McpFormInv, McpForms, NoForm, NoConfig, McpConfig
<1>6. StoredSecretsSurvive
  <2>1. PICK n \in McpNames : mtServer = [NoneYet EXCEPT ![n] = "secret"]
    OBVIOUS
  <2>2. \A m \in McpNames : mtServer[m] \in {"secret", NoConfig}
    BY <2>1 DEF NoneYet
  <2> QED BY <2>2 DEF StoredSecretsSurvive, InFleet
<1>7. McpReadBackInv /\ McpFlagsInv
  BY <1>3, PlainOps DEF McpReadBackInv, McpFlagsInv
<1> QED BY <1>2, <1>4, <1>5, <1>6, <1>7 DEF McpInv

\* A button that sends a change: the flags are those of its request.
LEMMA SendsKeeps ==
    ASSUME McpInv, NEW c \in McpCalls, NEW call, McpSends(c, call), mtKept' \subseteq mtKept,
           SoundMcpRequest([call EXCEPT !.at = "sent", !.here = TRUE], mtKept'),
           call \in McpRequests, call.op \notin {"none", "read"},
           UNCHANGED <<mtPage, mtServer, mtConfig, mtLoaded, mtLoading, mtForm, mtBehind>>,
           mtBusy' = mtBusy \/ (FreesRow([call EXCEPT !.at = "sent", !.here = TRUE], mtPage) /\ mtLoaded),
           mtSaving' = mtSaving \/ (call.op \in {"add", "edit"} /\ mtLoaded),
           mtBusy' \in [name : McpNames \cup {NoServerName}, key : {"none", "row", "enabled", "export"}],
           mtSaving' \in BOOLEAN, mtInstalling' \in McpNames \cup {NoServerName}
    PROVE  McpInv'
<1> DEFINE sent == [call EXCEPT !.at = "sent", !.here = TRUE]
<1>1. sent.op = call.op /\ sent.here /\ sent.at = "sent"
  BY DEF McpRequests
<1> HIDE DEF sent
<1>2. mtCalls[c] = McpIdle /\ mtCalls' = [mtCalls EXCEPT ![c] = sent]
  BY DEF McpSends, sent
<1>3. SoundMcpRequest(sent, mtKept')
  BY DEF sent
<1>4. /\ McpRequestsInv' /\ mtCalls'[c] = sent
      /\ \A d \in McpCalls \ {c} : mtCalls'[d] = mtCalls[d]
  BY <1>2, <1>3, OneMcpRequestChanges DEF McpInv
<1>5. McpTypes' /\ StoredSecretsSurvive'
  BY DEF McpInv, McpTypes, StoredSecretsSurvive
<1>6. McpFormInv'
  BY DEF McpInv, McpFormInv
<1>7. ~Unread(McpIdle) /\ ~FreesRow(McpIdle, mtPage) /\ ~McpIdle.here /\ McpIdle.op # "read"
  BY PlainOps DEF Unread, FreesRow
<1>8. McpReadBackInv'
  BY <1>2, <1>4, <1>7 DEF McpInv, McpReadBackInv
<1>9. mtBusy' = mtBusy \/ FreesRow(sent, mtPage)
  BY DEF sent
<1>10. McpFlagsInv'
  BY <1>1, <1>2, <1>4, <1>7, <1>9 DEF McpInv, McpFlagsInv
<1> QED BY <1>4, <1>5, <1>6, <1>8, <1>10 DEF McpInv

LEMMA FromRowKeeps ==
    ASSUME McpInv, NEW c \in McpCalls, NEW n \in McpNames,
           NEW op \in {"toggle", "export", "reconnect", "remove"}, NEW config \in McpConfig, NEW key \in {"row", "enabled", "export"},
           FromRow(c, n, op, config, key), mtKept' \subseteq mtKept,
           op = "remove" => n \notin mtKept',
           op \in {"toggle", "export"} => config = mtConfig[n]
    PROVE  McpInv'
<1> DEFINE call == RowRequest(n, op, config)
           sent == [call EXCEPT !.at = "sent", !.here = TRUE]
<1>1. mtConfig[n] \in McpConfig
  BY DEF McpInv, McpTypes, McpFleet
<1>2. /\ call \in McpRequests
      /\ call.op = op /\ call.name = n /\ call.config = config /\ call.seen = mtConfig[n]
  BY <1>1 DEF RowRequest, McpRequests, McpOps, McpIdle, McpFleet, NoneYet, McpConfig, NoConfig
<1> HIDE DEF call
<1>3. /\ sent \in McpRequests
      /\ sent.op = op /\ sent.name = n /\ sent.config = config /\ sent.seen = mtConfig[n]
      /\ sent.at = "sent" /\ sent.here
  BY <1>2 DEF McpRequests
<1>4. SoundMcpRequest(sent, mtKept')
  <2> HIDE DEF sent
  <2> QED BY <1>3 DEF SoundMcpRequest, Updates
<1>5. FreesRow(sent, mtPage)
  <2> HIDE DEF sent
  <2> QED BY <1>3 DEF FreesRow
<1>6. mtLoaded
  BY DEF FromRow, RowOffers, DesktopRow, WebRow, RowFree, TableMounted
<1>7. /\ McpSends(c, call)
      /\ mtBusy' = [name |-> n, key |-> key]
      /\ UNCHANGED <<mtPage, mtServer, mtConfig, mtLoaded, mtLoading, mtForm, mtSaving, mtInstalling, mtBehind>>
  BY DEF FromRow, mtRead, call
<1>8. /\ mtBusy' \in [name : McpNames \cup {NoServerName}, key : {"none", "row", "enabled", "export"}]
      /\ mtSaving' \in BOOLEAN /\ mtInstalling' \in McpNames \cup {NoServerName}
  BY <1>7 DEF McpInv, McpTypes
<1> QED BY <1>2, <1>4, <1>5, <1>6, <1>7, <1>8, SendsKeeps

LEMMA RowsKeep ==
    ASSUME McpInv, NEW c \in McpCalls, NEW n \in McpNames,
           ToggleEnabled(c, n) \/ SetExportFlag(c, n) \/ Reconnect(c, n) \/ RemoveServer(c, n)
    PROVE  McpInv'
<1>1. mtConfig[n] \in McpConfig /\ NoConfig \in McpConfig
  BY DEF McpInv, McpTypes, McpFleet, McpConfig
<1>2. CASE ToggleEnabled(c, n)
  BY <1>1, <1>2, FromRowKeeps DEF ToggleEnabled, Switched
<1>3. CASE SetExportFlag(c, n)
  BY <1>1, <1>3, FromRowKeeps DEF SetExportFlag, Switched
<1>4. CASE Reconnect(c, n)
  BY <1>1, <1>4, FromRowKeeps DEF Reconnect
<1>5. CASE RemoveServer(c, n)
  BY <1>1, <1>5, FromRowKeeps DEF RemoveServer
<1> QED BY <1>2, <1>3, <1>4, <1>5

\* What a form sends is sound: without a secret the server is given up.
LEMMA FormsKeep ==
    ASSUME McpInv, NEW c \in McpCalls, DesktopSubmits(c) \/ WebSubmits(c)
    PROVE  McpInv'
<1> DEFINE call == FormRequest
           sent == [call EXCEPT !.at = "sent", !.here = TRUE]
<1>1. /\ mtForm \in McpForms /\ mtForm.mode \in {"add", "edit"} /\ mtForm.name \in McpNames /\ mtLoaded
      /\ mtForm.seen = "mask" => mtForm.config # NoConfig
  BY DEF DesktopSubmits, WebSubmits, McpInv, McpFormInv
<1>2. /\ call \in McpRequests
      /\ call.op = mtForm.mode /\ call.name = mtForm.name /\ call.config = mtForm.config /\ call.seen = mtForm.seen
  BY <1>1 DEF FormRequest, McpForms, McpRequests, McpOps, McpIdle, McpFleet, NoneYet, McpConfig, NoConfig
<1> HIDE DEF call
<1>3. /\ sent \in McpRequests
      /\ sent.op = mtForm.mode /\ sent.name = mtForm.name /\ sent.config = mtForm.config /\ sent.seen = mtForm.seen
      /\ sent.at = "sent" /\ sent.here
  BY <1>2 DEF McpRequests
<1>4. mtKept' \subseteq mtKept /\ (mtForm.config = "plain" => mtForm.name \notin mtKept')
  BY DEF DesktopSubmits, WebSubmits, GivesUp
<1>5. SoundMcpRequest(sent, mtKept')
  <2>1. sent.config \in McpConfig
    BY <1>3 DEF McpRequests
  <2> HIDE DEF sent
  <2> QED BY <1>1, <1>3, <1>4, <2>1 DEF SoundMcpRequest, Updates, McpConfig
<1>6. CASE DesktopSubmits(c)
  <2>1. FreesRow(sent, mtPage)
    <3> HIDE DEF sent
    <3> QED BY <1>1, <1>3, <1>6 DEF FreesRow, DesktopSubmits
  <2>2. /\ McpSends(c, call)
        /\ mtBusy' = [name |-> mtForm.name, key |-> "row"]
        /\ UNCHANGED <<mtPage, mtServer, mtConfig, mtLoaded, mtLoading, mtForm, mtSaving, mtInstalling, mtBehind>>
    BY <1>6 DEF DesktopSubmits, mtRead, call
  <2>3. /\ mtBusy' \in [name : McpNames \cup {NoServerName}, key : {"none", "row", "enabled", "export"}]
        /\ mtSaving' \in BOOLEAN /\ mtInstalling' \in McpNames \cup {NoServerName}
    BY <1>1, <2>2 DEF McpInv, McpTypes
  <2> QED BY <1>1, <1>2, <1>4, <1>5, <2>1, <2>2, <2>3, SendsKeeps
<1>7. CASE WebSubmits(c)
  <2>1. /\ McpSends(c, call)
        /\ mtSaving' = TRUE
        /\ UNCHANGED <<mtPage, mtServer, mtConfig, mtLoaded, mtLoading, mtForm, mtBusy, mtInstalling, mtBehind>>
    BY <1>7 DEF WebSubmits, mtRead, call
  <2>2. /\ mtBusy' \in [name : McpNames \cup {NoServerName}, key : {"none", "row", "enabled", "export"}]
        /\ mtInstalling' \in McpNames \cup {NoServerName}
    BY <2>1 DEF McpInv, McpTypes
  <2> QED BY <1>1, <1>2, <1>4, <1>5, <2>1, <2>2, SendsKeeps
<1> QED BY <1>6, <1>7

LEMMA InstallsKeep ==
    ASSUME McpInv, NEW c \in McpCalls, NEW n \in McpNames, WebInstalls(c, n)
    PROVE  McpInv'
<1> DEFINE call == [McpIdle EXCEPT !.op = "install", !.name = n, !.config = "plain"]
           sent == [call EXCEPT !.at = "sent", !.here = TRUE]
<1>1. call \in McpRequests /\ call.op = "install" /\ call.name = n
  BY DEF McpRequests, McpOps, McpIdle, McpFleet, NoneYet, McpConfig, NoConfig
<1>2. McpSends(c, call)
  BY DEF WebInstalls
<1> HIDE DEF call
<1>3. sent \in McpRequests /\ sent.op = "install" /\ sent.name = n
  BY <1>1 DEF McpRequests
<1>4. UNCHANGED <<mtPage, mtServer, mtConfig, mtLoaded, mtLoading, mtForm, mtBusy, mtSaving, mtKept, mtBehind>> /\ mtInstalling' = n
  BY DEF WebInstalls, mtRead, mtPast
<1>5. SoundMcpRequest(sent, mtKept')
  <2> HIDE DEF sent
  <2> QED BY <1>3 DEF SoundMcpRequest, Updates
<1>6. /\ mtBusy' \in [name : McpNames \cup {NoServerName}, key : {"none", "row", "enabled", "export"}]
      /\ mtSaving' \in BOOLEAN /\ mtInstalling' \in McpNames \cup {NoServerName}
  BY <1>4 DEF McpInv, McpTypes
<1> QED BY <1>1, <1>2, <1>4, <1>5, <1>6, SendsKeeps

\* The backend: what it makes of a change keeps the secrets that nobody gave up.
LEMMA McpHandlesKeeps ==
    ASSUME McpInv, NEW c \in McpCalls, McpHandles(c)
    PROVE  McpInv'
<1> DEFINE call == mtCalls[c]
           answered(at) == [McpIdle EXCEPT !.op = call.op, !.at = at, !.here = call.here]
<1>1. /\ call.at = "sent" /\ call.op # "read" /\ call \in McpRequests /\ call.name \in McpNames
      /\ SoundMcpRequest(call, mtKept)
  BY DEF McpHandles, McpInv, McpRequestsInv, SoundMcpRequest
<1>2. ASSUME NEW at \in {"done", "failed"}
      PROVE  /\ answered(at).op = call.op /\ answered(at).at = at /\ answered(at).here = call.here
             /\ \A kept : SoundMcpRequest(answered(at), kept)
  <2>1. answered(at) \in McpRequests
    BY <1>1 DEF McpRequests, McpIdle, McpFleet, NoneYet, McpConfig, NoConfig
  <2>2. answered(at).op = call.op /\ answered(at).at = at /\ answered(at).here = call.here
    BY DEF McpIdle
  <2> HIDE DEF answered
  <2> QED BY <2>1, <2>2 DEF SoundMcpRequest
<1>3. PICK at \in {"done", "failed"} : mtCalls' = [mtCalls EXCEPT ![c] = answered(at)]
  BY DEF McpHandles, McpAnswer
<1>4. mtKept' \subseteq mtKept
  BY DEF McpHandles
<1>5. UNCHANGED <<mtPage, mtConfig, mtLoaded, mtLoading, mtForm, mtBusy, mtSaving, mtInstalling, mtBehind>>
  BY DEF McpHandles, mtRead, mtTable
<1>6. /\ McpRequestsInv' /\ mtCalls'[c] = answered(at)
      /\ \A d \in McpCalls \ {c} : mtCalls'[d] = mtCalls[d]
  <2> HIDE DEF answered
  <2> QED BY <1>2, <1>3, <1>4, OneMcpRequestChanges DEF McpInv
<1> HIDE DEF answered
<1>7. CASE UNCHANGED <<mtServer, mtKept>>
  <2>1. McpTypes' /\ StoredSecretsSurvive' /\ McpFormInv'
    BY <1>5, <1>7 DEF McpInv, McpTypes, McpFormInv, StoredSecretsSurvive
  <2>2. \A d \in McpCalls : Unread(mtCalls[d]) => Unread(mtCalls'[d])
    BY <1>1, <1>2, <1>6 DEF Unread
  <2>3. McpReadBackInv'
    BY <1>5, <1>7, <2>2 DEF McpInv, McpReadBackInv
  <2>4. McpFlagsInv'
    BY <1>2, <1>5, <1>6 DEF McpInv, McpFlagsInv, FreesRow
  <2> QED BY <1>6, <2>1, <2>3, <2>4 DEF McpInv
<1>8. CASE /\ McpAccepts(call)
           /\ mtServer' = [mtServer EXCEPT ![call.name] = McpBecomes(call)]
           /\ mtKept' = IF Updates(call.op) /\ call.seen # McpMasked(mtServer[call.name])
                        THEN mtKept \ {call.name} ELSE mtKept
  <2>1. mtServer \in McpFleet
    BY DEF McpInv, McpTypes
  <2>2. McpBecomes(call) \in McpConfig
    BY <1>1, <2>1 DEF McpBecomes, RestoreMasked, McpRequests, McpFleet, McpConfig, NoConfig
  <2>3. mtServer' \in McpFleet
    BY <1>8, <2>1, <2>2 DEF McpFleet
  <2>4. McpTypes' /\ McpFormInv'
    BY <1>4, <1>5, <2>3 DEF McpInv, McpTypes, McpFormInv
  <2>5. StoredSecretsSurvive'
    <3> SUFFICES ASSUME NEW n \in mtKept' PROVE mtServer'[n] = "secret"
      BY DEF StoredSecretsSurvive
    <3>1. n \in mtKept /\ n \in McpNames /\ mtServer[n] = "secret"
      BY <1>4 DEF McpInv, McpTypes, StoredSecretsSurvive
    <3>2. CASE n # call.name
      BY <1>8, <2>1, <3>1, <3>2 DEF McpFleet
    <3>3. CASE n = call.name
      <4>1. mtServer'[n] = McpBecomes(call)
        BY <1>1, <1>8, <2>1, <3>3 DEF McpFleet
      <4>2. ~Adds(call.op) /\ call.op # "remove"
        BY <1>1, <1>8, <3>1, <3>3 DEF McpAccepts, NoConfig, SoundMcpRequest
      <4>3. Updates(call.op) => call.config \in {"mask", "secret"}
        BY <1>1, <1>8, <3>1, <3>3 DEF McpMasked, SoundMcpRequest
      <4> QED BY <3>1, <3>3, <4>1, <4>2, <4>3 DEF McpBecomes, RestoreMasked
    <3> QED BY <3>2, <3>3
  <2>6. McpReadBackInv'
    <3>1. CASE call.op \in {"none", "reconnect"}
      <4>1. McpBecomes(call) = mtServer[call.name]
        BY <3>1 DEF McpBecomes, Adds, Updates
      <4>2. mtServer' = mtServer
        BY <1>1, <1>8, <2>1, <4>1 DEF McpFleet
      <4>3. \A d \in McpCalls : Unread(mtCalls[d]) => Unread(mtCalls'[d])
        BY <1>1, <1>2, <1>6 DEF Unread
      <4> QED BY <1>5, <4>2, <4>3 DEF McpInv, McpReadBackInv
    <3>2. CASE call.op \notin {"none", "reconnect"}
      <4>1. Unread(mtCalls'[c])
        BY <1>2, <1>6, <3>2 DEF Unread
      <4> QED BY <4>1 DEF McpReadBackInv
    <3> QED BY <3>1, <3>2
  <2>7. McpFlagsInv'
    BY <1>2, <1>5, <1>6 DEF McpInv, McpFlagsInv, FreesRow
  <2> QED BY <1>6, <2>4, <2>5, <2>6, <2>7 DEF McpInv
<1> QED BY <1>7, <1>8 DEF McpHandles

LEMMA ConfigReadKeeps ==
    ASSUME McpInv, NEW c \in McpCalls, ConfigRead(c)
    PROVE  McpInv'
<1>1. /\ mtCalls[c] \in McpRequests /\ mtCalls[c].at = "sent" /\ mtCalls[c].op = "read"
      /\ UNCHANGED <<mtPage, mtServer, mtConfig, mtLoaded, mtLoading, mtForm, mtBusy, mtSaving, mtInstalling, mtKept, mtBehind>>
  BY DEF ConfigRead, mtRead, mtTable, mtPast, McpInv, McpRequestsInv, SoundMcpRequest
<1>2. Shown(mtServer) \in McpFleet
  BY DEF Shown, McpMasked, McpFleet, McpConfig, McpInv, McpTypes
<1>3. /\ McpRequestsInv' /\ mtCalls'[c].op = "read" /\ mtCalls'[c].here = mtCalls[c].here
      /\ \A d \in McpCalls \ {c} : mtCalls'[d] = mtCalls[d]
  <2>1. CASE mtCalls' = [mtCalls EXCEPT ![c].at = "done", ![c].read = Shown(mtServer)]
    <3> DEFINE call == [mtCalls[c] EXCEPT !.at = "done", !.read = Shown(mtServer)]
    <3>1. mtCalls' = [mtCalls EXCEPT ![c] = call]
      BY <2>1
    <3>2. call \in McpRequests /\ call.op = "read" /\ call.here = mtCalls[c].here /\ call.at = "done"
      BY <1>1, <1>2 DEF McpRequests
    <3> HIDE DEF call
    <3>3. SoundMcpRequest(call, mtKept')
      BY <3>2 DEF SoundMcpRequest
    <3> QED BY <1>1, <3>1, <3>2, <3>3, OneMcpRequestChanges DEF McpInv
  <2>2. CASE mtCalls' = [mtCalls EXCEPT ![c].at = "failed"]
    <3> DEFINE call == [mtCalls[c] EXCEPT !.at = "failed"]
    <3>1. mtCalls' = [mtCalls EXCEPT ![c] = call]
      BY <2>2
    <3>2. call \in McpRequests /\ call.op = "read" /\ call.here = mtCalls[c].here /\ call.at = "failed"
      BY <1>1 DEF McpRequests
    <3> HIDE DEF call
    <3>3. SoundMcpRequest(call, mtKept')
      BY <3>2 DEF SoundMcpRequest
    <3> QED BY <1>1, <3>1, <3>2, <3>3, OneMcpRequestChanges DEF McpInv
  <2> QED BY <2>1, <2>2 DEF ConfigRead
<1>4. McpTypes' /\ McpFormInv' /\ StoredSecretsSurvive'
  BY <1>1 DEF McpInv, McpTypes, McpFormInv, StoredSecretsSurvive
<1>5. McpReadBackInv' /\ McpFlagsInv'
  BY <1>1, <1>3 DEF McpInv, McpReadBackInv, McpFlagsInv, FreesRow, Unread
<1> QED BY <1>3, <1>4, <1>5 DEF McpInv

LEMMA McpConfigShownKeeps ==
    ASSUME McpInv, NEW c \in McpCalls, McpConfigShown(c)
    PROVE  McpInv'
<1>1. /\ mtCalls[c] \in McpRequests /\ mtCalls[c].op = "read"
      /\ UNCHANGED <<mtPage, mtServer, mtForm, mtBusy, mtSaving, mtInstalling, mtKept>>
  BY DEF McpConfigShown, mtTable, McpInv, McpRequestsInv, SoundMcpRequest
<1>2. /\ McpRequestsInv' /\ mtCalls'[c] = McpIdle
      /\ \A d \in McpCalls \ {c} : mtCalls'[d] = mtCalls[d]
  BY <1>1, PlainMcpRequests, OneMcpRequestChanges DEF McpConfigShown, McpInv
<1>3. mtCalls[c].read \in McpFleet
  BY <1>1 DEF McpRequests
<1>4. McpTypes' /\ McpFormInv' /\ StoredSecretsSurvive'
  BY <1>1, <1>3 DEF McpConfigShown, McpInv, McpTypes, McpFormInv, StoredSecretsSurvive
<1>5. McpReadBackInv'
  BY <1>1 DEF McpConfigShown, McpReadBackInv
<1>6. McpFlagsInv'
  BY <1>1, <1>2 DEF McpConfigShown, McpInv, McpFlagsInv, FreesRow
<1> QED BY <1>2, <1>4, <1>5, <1>6 DEF McpInv

LEMMA ReopenPageKeeps ==
    ASSUME McpInv, NEW c \in McpCalls, ReopenPage(c)
    PROVE  McpInv'
<1>1. UNCHANGED <<mtPage, mtServer, mtConfig, mtLoaded, mtForm, mtBusy, mtSaving, mtInstalling, mtKept, mtBehind>>
  BY DEF ReopenPage, mtTable, mtPast
<1>2. /\ McpRequestsInv' /\ mtCalls'[c] = McpRead
      /\ \A d \in McpCalls \ {c} : mtCalls'[d] = mtCalls[d]
  BY <1>1, PlainMcpRequests, OneMcpRequestChanges DEF ReopenPage, McpInv
<1>3. McpTypes' /\ McpFormInv' /\ StoredSecretsSurvive'
  BY <1>1 DEF ReopenPage, McpInv, McpTypes, McpFormInv, StoredSecretsSurvive
<1>4. McpReadBackInv' /\ McpFlagsInv'
  BY <1>1, <1>2, PlainOps DEF ReopenPage, McpInv, McpFormInv, McpReadBackInv, McpFlagsInv, Unread
<1> QED BY <1>2, <1>3, <1>4 DEF McpInv

LEMMA McpChangedKeeps ==
    ASSUME McpInv, NEW c \in McpCalls, McpChanged(c)
    PROVE  McpInv'
<1> DEFINE call == mtCalls[c]
           made == call.at = "done" /\ call.op # "reconnect"
           form == call.op \in {"edit", "add"}
           row  == call.op \in {"toggle", "export", "reconnect", "remove"}
<1>1. /\ call.op \notin {"none", "read"} /\ call.at \in {"done", "failed"}
      /\ \A d \in McpCalls : mtCalls[d] \in McpRequests /\ SoundMcpRequest(mtCalls[d], mtKept)
      /\ UNCHANGED <<mtPage, mtServer, mtKept>>
  BY DEF McpChanged, McpInv, McpRequestsInv, SoundMcpRequest
<1>2. CASE made
  <2>1. /\ mtLoading' = TRUE
        /\ mtCalls' = [d \in McpCalls |-> IF d = c THEN McpRead
                                          ELSE IF mtPage = "market" THEN mtCalls[d]
                                          ELSE [mtCalls[d] EXCEPT !.here = FALSE]]
        /\ UNCHANGED <<mtConfig, mtLoaded>>
    BY <1>2 DEF McpChanged, McpRefreshes
  <2>2. ASSUME NEW d \in McpCalls
        PROVE  SoundMcpRequest([mtCalls[d] EXCEPT !.here = FALSE], mtKept)
    <3> DEFINE elsewhere == [mtCalls[d] EXCEPT !.here = FALSE]
    <3>1. /\ elsewhere \in McpRequests /\ elsewhere.op = mtCalls[d].op /\ elsewhere.at = mtCalls[d].at
          /\ elsewhere.name = mtCalls[d].name /\ elsewhere.config = mtCalls[d].config /\ elsewhere.seen = mtCalls[d].seen
      BY <1>1 DEF McpRequests
    <3> HIDE DEF elsewhere
    <3>2. SoundMcpRequest(elsewhere, mtKept)
      BY <1>1, <3>1 DEF SoundMcpRequest
    <3> QED BY <3>2 DEF elsewhere
  <2>3. McpRequestsInv'
    BY <1>1, <2>1, <2>2, PlainMcpRequests DEF McpRequestsInv
  <2>4. mtCalls'[c].op = "read"
    BY <2>1, PlainOps
  <2>5. McpReadBackInv'
    BY <2>4 DEF McpReadBackInv, Unread
  <2>6. CASE mtPage # "market"
    <3>1. mtForm' = NoForm /\ mtBusy' = NoBusy /\ mtSaving' = FALSE /\ mtInstalling' = NoServerName
      BY <1>2, <2>6 DEF McpChanged, TableUnmounts
    <3>2. McpTypes' /\ StoredSecretsSurvive'
      BY <1>1, <2>1, <3>1 DEF McpChanged, McpInv, McpTypes, StoredSecretsSurvive, NoBusy
    <3>3. McpFormInv'
      BY <3>1 DEF McpFormInv, McpForms, NoForm, McpConfig, NoConfig
    <3>4. McpFlagsInv'
      BY <2>1, <2>4, <3>1 DEF McpFlagsInv
    <3> QED BY <2>3, <2>5, <3>2, <3>3, <3>4 DEF McpInv
  <2>7. CASE mtPage = "market"
    <3>1. \A d \in McpCalls \ {c} : mtCalls'[d] = mtCalls[d]
      BY <2>1, <2>7
    <3>2. /\ ~call.here => UNCHANGED <<mtForm, mtBusy, mtSaving, mtInstalling>>
          /\ call.here => /\ mtForm' = IF form THEN NoForm ELSE mtForm
                          /\ mtBusy' = IF row \/ form THEN NoBusy ELSE mtBusy
                          /\ mtSaving' = (mtSaving /\ ~form)
                          /\ mtInstalling' = IF call.op = "install" THEN NoServerName ELSE mtInstalling
      BY <1>2, <2>7 DEF McpChanged, mtTable
    <3>3. /\ mtSaving' \in BOOLEAN
          /\ mtSaving' => mtSaving /\ ~(call.here /\ form)
      <4>1. mtSaving \in BOOLEAN
        BY DEF McpInv, McpTypes
      <4>2. CASE ~call.here
        BY <3>2,       <4>1,       <4>2
      <4>3. CASE call.here /\ form
        <5>1. mtSaving' = FALSE
          BY <3>2,       <4>3, Zenon
        <5> QED BY <5>1
      <4>4. CASE call.here /\ ~form
        <5>1. mtSaving' = mtSaving
          BY <3>2,       <4>1,       <4>4, Zenon
        <5> QED BY <5>1,       <4>1,       <4>4
      <4> QED BY       <4>2,       <4>3,       <4>4
    <3>4. /\ mtBusy' \in {mtBusy, NoBusy}
          /\ mtBusy' # NoBusy => mtBusy # NoBusy /\ ~(call.here /\ (row \/ form))
          /\ mtForm' \in {mtForm, NoForm}
          /\ mtInstalling' \in {mtInstalling, NoServerName}
      BY <3>2
    <3> HIDE DEF form, row
    <3>5. McpTypes' /\ StoredSecretsSurvive'
      <4>1. mtBehind' \in BOOLEAN
        BY Zenon DEF McpChanged, McpInv, McpTypes
      <4> QED BY <1>1, <2>1, <3>3, <3>4, <4>1 DEF McpInv, McpTypes, StoredSecretsSurvive, NoBusy
    <3>6. McpFormInv'
      <4>1. ~mtLoaded => mtBusy' = NoBusy /\ ~mtSaving'
        BY <3>3, <3>4 DEF McpInv, McpFormInv
      <4> QED BY <2>1, <3>4, <4>1 DEF McpInv, McpFormInv, McpForms, NoForm, McpConfig, NoConfig
    <3>7. mtBusy' # NoBusy => \E d \in McpCalls : FreesRow(mtCalls'[d], mtPage)
      BY <3>1, <3>4 DEF McpInv, McpFlagsInv, FreesRow, form, row
    <3>8. mtSaving' => \E d \in McpCalls : mtCalls'[d].here /\ mtCalls'[d].op \in {"add", "edit"}
      BY <3>1, <3>3 DEF McpInv, McpFlagsInv, form
    <3>9. McpFlagsInv'
      BY <1>1, <2>4, <3>7, <3>8 DEF McpFlagsInv
    <3> QED BY <2>3, <2>5, <3>5, <3>6, <3>9 DEF McpInv
  <2> QED BY <2>6, <2>7
<1>3. CASE ~made
  <2>1. mtCalls' = [mtCalls EXCEPT ![c] = McpIdle] /\ UNCHANGED <<mtConfig, mtLoaded, mtLoading>>
    BY <1>3 DEF McpChanged, mtRead
  <2>2. /\ McpRequestsInv' /\ mtCalls'[c] = McpIdle
        /\ \A d \in McpCalls \ {c} : mtCalls'[d] = mtCalls[d]
    BY <1>1, <2>1, PlainMcpRequests, OneMcpRequestChanges DEF McpInv
  <2>3. /\ ~call.here => UNCHANGED <<mtForm, mtBusy, mtSaving, mtInstalling>>
        /\ call.here => /\ mtForm' = mtForm
                        /\ mtBusy' = IF row \/ (form /\ mtPage # "web") THEN NoBusy ELSE mtBusy
                        /\ mtSaving' = (mtSaving /\ ~form)
                        /\ mtInstalling' = IF call.op = "install" THEN NoServerName ELSE mtInstalling
    BY <1>3 DEF McpChanged, mtTable
  <2>4. /\ mtSaving' \in BOOLEAN
        /\ mtSaving' => mtSaving /\ ~(call.here /\ form)
    <3>1. mtSaving \in BOOLEAN
      BY DEF McpInv, McpTypes
    <3>2. CASE ~call.here
      BY <2>3,     <3>1,     <3>2
    <3>3. CASE call.here /\ form
      <4>1. mtSaving' = FALSE
        BY <2>3,     <3>3, Zenon
      <4> QED BY <4>1
    <3>4. CASE call.here /\ ~form
      <4>1. mtSaving' = mtSaving
        BY <2>3,     <3>1,     <3>4, Zenon
      <4> QED BY <4>1,     <3>1,     <3>4
    <3> QED BY     <3>2,     <3>3,     <3>4
  <2>5. /\ mtForm' = mtForm
        /\ mtBusy' \in {mtBusy, NoBusy}
        /\ mtBusy' # NoBusy => mtBusy # NoBusy /\ ~(call.here /\ (row \/ (form /\ mtPage # "web")))
        /\ mtInstalling' \in {mtInstalling, NoServerName}
    BY <2>3
  <2> HIDE DEF form, row
  <2>8. McpTypes' /\ StoredSecretsSurvive'
    <3>1. mtBehind' \in BOOLEAN
      BY Zenon DEF McpChanged, McpInv, McpTypes
    <3> QED BY <1>1, <2>1, <2>4, <2>5, <3>1 DEF McpInv, McpTypes, StoredSecretsSurvive, NoBusy
  <2>9. McpFormInv'
    BY <2>1, <2>4, <2>5 DEF McpInv, McpFormInv
  <2>6. McpReadBackInv'
    <3>1. mtBehind' = (mtBehind \/ call.at = "failed")
      BY DEF McpChanged
    <3>2. ~mtBehind' => ~Unread(call)
      BY <1>1, <1>3, <3>1 DEF Unread
    <3> QED BY <1>1, <2>1, <2>2, <3>1, <3>2 DEF McpInv, McpReadBackInv
  <2>7. McpFlagsInv'
    <3>1. mtBusy' # NoBusy => \E d \in McpCalls : FreesRow(mtCalls'[d], mtPage)
      BY <2>2, <2>5 DEF McpInv, McpFlagsInv, FreesRow, form, row
    <3>2. mtSaving' => \E d \in McpCalls : mtCalls'[d].here /\ mtCalls'[d].op \in {"add", "edit"}
      BY <2>2, <2>4 DEF McpInv, McpFlagsInv, form
    <3> QED BY <1>1, <2>1, <2>2, <3>1, <3>2 DEF McpInv, McpFlagsInv
  <2> QED BY <2>2, <2>6, <2>7, <2>8, <2>9 DEF McpInv
<1> QED BY <1>2, <1>3

\* Opening, filling and closing a form.
LEMMA McpFormsKeep ==
    ASSUME McpInv,
           \/ CloseForm
           \/ \E config \in {"plain", "secret"} : FillForm(config)
           \/ \E n \in McpNames : OpenAdd(n) \/ OpenEdit(n)
    PROVE  McpInv'
<1>1. UNCHANGED <<mtPage, mtServer, mtConfig, mtLoaded, mtLoading, mtBusy, mtInstalling, mtCalls, mtKept, mtBehind>>
  BY DEF CloseForm, FillForm, OpenAdd, OpenEdit, mtRead, mtPast
<1>2. mtSaving' \in BOOLEAN /\ (mtSaving' => mtSaving)
  <2>1. mtSaving \in BOOLEAN
    BY DEF McpInv, McpTypes
  <2>2. CASE CloseForm
    <3>1. mtSaving' = (mtSaving /\ mtForm.mode = "add")
      BY <2>2 DEF CloseForm
    <3> QED BY <2>1, <3>1, Zenon
  <2>3. CASE ~CloseForm
    <3>1. UNCHANGED mtSaving
      BY <2>3 DEF FillForm, OpenAdd, OpenEdit
    <3> QED BY <2>1, <3>1
  <2> QED BY <2>2, <2>3
<1>3. /\ McpTypes' /\ McpRequestsInv' /\ StoredSecretsSurvive' /\ McpReadBackInv' /\ McpFlagsInv'
  BY <1>1, <1>2 DEF McpInv, McpTypes, McpRequestsInv, StoredSecretsSurvive, McpReadBackInv, McpFlagsInv
<1>4. McpFormInv'
  <2>1. CASE CloseForm
    BY <1>1, <1>2, <2>1 DEF CloseForm, McpInv, McpFormInv, McpForms, NoForm, McpConfig, NoConfig
  <2>2. ASSUME NEW config \in {"plain", "secret"}, FillForm(config) PROVE McpFormInv'
    BY <1>1, <1>2, <2>2 DEF FillForm, McpInv, McpFormInv, McpForms, McpConfig, NoConfig
  <2>3. ASSUME NEW n \in McpNames, OpenAdd(n) PROVE McpFormInv'
    BY <1>1, <1>2, <2>3 DEF OpenAdd, RowFree, TableMounted, McpInv, McpFormInv, McpForms, McpConfig, NoConfig
  <2>4. ASSUME NEW n \in McpNames, OpenEdit(n) PROVE McpFormInv'
    <3>1. mtLoaded
      BY <2>4 DEF OpenEdit, RowOffers, DesktopRow, WebRow, RowFree, TableMounted
    <3>2. mtConfig[n] \in McpConfig
      BY DEF McpInv, McpTypes, McpFleet
    <3> QED BY <1>1, <1>2, <2>4, <3>1, <3>2 DEF OpenEdit, McpInv, McpFormInv, McpForms, NoConfig
  <2> QED BY <2>1, <2>2, <2>3, <2>4
<1> QED BY <1>3, <1>4 DEF McpInv

LEMMA McpTableStep ==
    ASSUME McpInv, [McpTableNext]_mtVars
    PROVE  McpInv'
<1>1. CASE UNCHANGED mtVars
  BY <1>1 DEF mtVars, mtRead, mtTable, mtPast, McpInv, McpTypes, McpRequestsInv, McpFormInv, StoredSecretsSurvive,
              McpReadBackInv, McpFlagsInv
<1> QED
  BY <1>1, McpFormsKeep, McpHandlesKeeps, ConfigReadKeeps, McpConfigShownKeeps, McpChangedKeeps, ReopenPageKeeps,
     FormsKeep, RowsKeep, InstallsKeep DEF McpTableNext

-----------------------------------------------------------------------------
(* First run.                                                              *)

LEMMA SecondsArePositive == PairingSeconds \in Nat /\ 0 < PairingSeconds
BY FirstRunAssumption DEF FirstRunAssumption

SetupFlows == [op : {"none", "model", "code", "enroll", "service", "phone"}, at : {"sent", "done", "failed"},
               provider : Providers, carries : BOOLEAN]

SetupTypes ==
    /\ frDefault \in Providers /\ frKeys \subseteq KeyedProviders /\ frEnrolled \in BOOLEAN
    /\ frStep \in 0..FirstRunSteps
    /\ frProvider \in Providers /\ frTyped \in BOOLEAN /\ frSaved \in BOOLEAN
    /\ frNode \in BOOLEAN
    /\ frPairing \in BOOLEAN /\ frLeft \in 0..PairingSeconds
    /\ frBusy \in BOOLEAN
    /\ frStatus \in {"none", "asked", "enrolled", "not enrolled"}
    /\ frSwitched \in BOOLEAN

HasKey(p) == p \in frKeys \cup {LocalProvider}

\* A save is of the provider that is chosen, and carries its key unless the
\* backend has it; so what is saved has its key.
SetupModelInv ==
    ~frSwitched => /\ HasKey(frDefault)
                   /\ frSaved => HasKey(frProvider)
                   /\ frFlow.op = "model" => /\ frFlow.provider = frProvider
                                             /\ frFlow.carries \/ HasKey(frFlow.provider)
                                             /\ frFlow.at = "done" => HasKey(frFlow.provider)

SetupFlowInv ==
    /\ frFlow \in SetupFlows
    /\ frFlow.carries => frFlow.provider \in KeyedProviders
    /\ frBusy => frFlow.op # "none"

SetupNodeInv ==
    /\ frPairing => frLeft > 0
    /\ frNode => frEnrolled
    /\ frStatus = "enrolled" => frEnrolled
    /\ frFlow.op = "enroll" /\ frFlow.at = "done" => frEnrolled

SetupInv == SetupTypes /\ SetupFlowInv /\ SetupModelInv /\ SetupNodeInv

LEMMA SetupFollows == SetupInv => FirstRunTypeOK /\ DefaultHasItsKey /\ CodeIsAlive /\ SetupBusyEnds /\ NodeIsEnrolled
<1> SUFFICES ASSUME SetupInv PROVE FirstRunTypeOK /\ DefaultHasItsKey /\ CodeIsAlive /\ SetupBusyEnds /\ NodeIsEnrolled
  OBVIOUS
<1> USE DEF SetupInv
<1>1. FirstRunTypeOK
  BY DEF SetupTypes, SetupFlowInv, SetupFlows, FirstRunTypeOK
<1>2. DefaultHasItsKey
  BY DEF SetupModelInv, HasKey, DefaultHasItsKey
<1>3. CodeIsAlive /\ SetupBusyEnds /\ NodeIsEnrolled
  BY DEF SetupFlowInv, SetupNodeInv, CodeIsAlive, SetupBusyEnds, NodeIsEnrolled, NoSetupFlow
<1> QED BY <1>1, <1>2, <1>3

LEMMA SetupStart == WizardOpens /\ frProvider \in Providers => SetupInv
<1> SUFFICES ASSUME WizardOpens, frProvider \in Providers PROVE SetupInv
  OBVIOUS
<1>1. SetupTypes
  <2>1. frLeft \in 0..PairingSeconds
    BY SecondsArePositive DEF WizardOpens
  <2>2. frStep \in 0..FirstRunSteps
    BY DEF WizardOpens, FirstRunSteps
  <2>3. frDefault \in Providers
    BY DEF WizardOpens, Providers
  <2> QED BY <2>1, <2>2, <2>3 DEF WizardOpens, SetupTypes
<1>2. SetupFlowInv
  BY DEF WizardOpens, SetupFlowInv, SetupFlows, NoSetupFlow, Providers
<1>3. SetupModelInv
  BY DEF WizardOpens, SetupModelInv, HasKey, NoSetupFlow
<1>4. SetupNodeInv
  BY DEF WizardOpens, SetupNodeInv, NoSetupFlow
<1> QED BY <1>1, <1>2, <1>3, <1>4 DEF SetupInv

\* The requests: what starts one, and what the backend does with it.
LEMMA SetupStartsKeeps ==
    ASSUME SetupInv, NEW flow \in SetupFlows, Starts(flow), flow.op # "none", flow.at = "sent",
           flow.carries => flow.provider \in KeyedProviders,
           ~frSwitched /\ flow.op = "model" => /\ flow.provider = frProvider
                                               /\ flow.carries \/ HasKey(flow.provider)
    PROVE  SetupInv'
<1>1. /\ UNCHANGED <<frDefault, frKeys, frEnrolled, frStep, frProvider, frTyped, frSaved, frNode, frPairing, frLeft,
                     frStatus, frSwitched>>
      /\ frFlow' = flow /\ frBusy' = TRUE
  BY DEF Starts, frBackend, frModel, frPhone
<1>2. SetupTypes'
  BY <1>1 DEF SetupInv, SetupTypes
<1>3. SetupFlowInv' /\ SetupNodeInv'
  BY <1>1 DEF SetupInv, SetupFlowInv, SetupNodeInv
<1>4. SetupModelInv'
  <2> SUFFICES ASSUME ~frSwitched
               PROVE  /\ HasKey(frDefault)'
                      /\ frSaved' => HasKey(frProvider)'
                      /\ flow.op = "model" => /\ flow.provider = frProvider'
                                              /\ flow.carries \/ flow.provider \in frKeys' \cup {LocalProvider}
    BY <1>1 DEF SetupModelInv, HasKey
  <2>1. HasKey(frDefault)' /\ (frSaved' => HasKey(frProvider)')
    BY <1>1 DEF SetupInv, SetupModelInv, HasKey
  <2>2. CASE flow.op = "model"
    <3>1. flow.provider = frProvider /\ (flow.carries \/ HasKey(flow.provider))
      BY <2>2, Zenon
    <3> QED BY <1>1, <2>1, <3>1 DEF HasKey
  <2> QED BY <2>1, <2>2
<1> QED BY <1>2, <1>3, <1>4 DEF SetupInv

LEMMA SetupHandledKeeps ==
    ASSUME SetupInv, NEW applies \in BOOLEAN, NEW answers \in BOOLEAN, SetupHandled(applies, answers)
    PROVE  SetupInv'
<1>1. /\ UNCHANGED <<frStep, frProvider, frTyped, frSaved, frNode, frPairing, frLeft, frBusy, frStatus, frSwitched>>
      /\ frFlow.at = "sent"
  BY DEF SetupHandled, frModel, frPhone
<1>2. /\ frFlow' \in SetupFlows
      /\ frFlow'.op = frFlow.op /\ frFlow'.provider = frFlow.provider /\ frFlow'.carries = frFlow.carries
      /\ frFlow'.at = "done" => applies
  BY DEF SetupHandled, SetupInv, SetupFlowInv, SetupFlows
<1>3. /\ frEnrolled' \in BOOLEAN
      /\ frEnrolled => frEnrolled'
      /\ applies /\ frFlow.op = "enroll" => frEnrolled'
  BY Zenon DEF SetupHandled, SetupInv, SetupTypes
<1>4. /\ frKeys \subseteq frKeys' /\ frKeys' \subseteq KeyedProviders
      /\ applies /\ frFlow.op = "model" /\ frFlow.carries => frFlow.provider \in frKeys'
  BY DEF SetupHandled, SetupInv, SetupTypes, SetupFlowInv
<1>5. /\ frDefault' \in Providers
      /\ frDefault' = frDefault \/ (applies /\ frFlow.op = "model" /\ frDefault' = frFlow.provider)
  BY DEF SetupHandled, SetupInv, SetupTypes, SetupFlowInv, SetupFlows
<1>6. SetupTypes'
  BY <1>1, <1>3, <1>4, <1>5 DEF SetupInv, SetupTypes
<1>7. SetupFlowInv' /\ SetupNodeInv'
  BY <1>1, <1>2, <1>3 DEF SetupInv, SetupFlowInv, SetupNodeInv
<1>8. SetupModelInv'
  BY <1>1, <1>2, <1>4, <1>5 DEF SetupInv, SetupModelInv, HasKey
<1> QED BY <1>6, <1>7, <1>8 DEF SetupInv

LEMMA SetupModelKeeps ==
    ASSUME SetupInv, (\E p \in Providers : ChooseProvider(p)) \/ TypeKey \/ ModelSaved
    PROVE  SetupInv'
<1>1. UNCHANGED <<frDefault, frKeys, frEnrolled, frStep, frNode, frPairing, frLeft, frStatus>>
  BY DEF ChooseProvider, TypeKey, ModelSaved, frBackend, frPhone
<1>2. CASE \E p \in Providers : ChooseProvider(p)
  <2>1. frProvider' \in Providers /\ frSaved' = FALSE /\ UNCHANGED <<frTyped, frBusy, frFlow>>
    BY <1>2 DEF ChooseProvider, Rechosen
  <2>2. frSwitched' \in BOOLEAN /\ (~frSwitched' => ~frSwitched /\ frFlow.op # "model")
    BY <1>2, Zenon DEF ChooseProvider, SetupInv, SetupTypes
  <2> QED
    <3>1. SetupTypes'
      BY <1>1, <2>1, <2>2 DEF SetupInv, SetupTypes
    <3>2. SetupFlowInv'
      BY <1>1, <2>1, <2>2 DEF SetupInv, SetupFlowInv
    <3>3. SetupModelInv'
      BY <1>1, <2>1, <2>2 DEF SetupInv, SetupModelInv, HasKey
    <3>4. SetupNodeInv'
      BY <1>1, <2>1, <2>2 DEF SetupInv, SetupNodeInv
    <3> QED BY <3>1, <3>2, <3>3, <3>4 DEF SetupInv
<1>3. CASE TypeKey
  <2>1. SetupTypes'
    BY <1>1, <1>3 DEF SetupInv, SetupTypes, TypeKey
  <2>2. SetupFlowInv'
    BY <1>1, <1>3 DEF SetupInv, SetupFlowInv, TypeKey
  <2>3. SetupModelInv'
    BY <1>1, <1>3 DEF SetupInv, SetupModelInv, HasKey, TypeKey
  <2>4. SetupNodeInv'
    BY <1>1, <1>3 DEF SetupInv, SetupNodeInv, TypeKey
  <2> QED BY <2>1, <2>2, <2>3, <2>4 DEF SetupInv
<1>4. CASE ModelSaved
  <2>1. frFlow' = NoSetupFlow /\ frBusy' = FALSE /\ UNCHANGED <<frProvider, frSwitched>> /\ frFlow.op = "model"
    BY <1>4 DEF ModelSaved, FlowIsOver
  <2>2. frTyped' \in BOOLEAN /\ frSaved' \in BOOLEAN /\ (frSaved' => frSaved \/ frFlow.at = "done")
    <3>1. frTyped' \in BOOLEAN
      BY <1>4, Zenon DEF ModelSaved, SetupInv, SetupTypes
    <3>2. frSaved' \in BOOLEAN /\ (frSaved' => frSaved \/ frFlow.at = "done")
      BY <1>4, Zenon DEF ModelSaved, SetupInv, SetupTypes
    <3> QED BY <3>1, <3>2
  <2>3. NoSetupFlow \in SetupFlows /\ NoSetupFlow.op = "none" /\ ~NoSetupFlow.carries
    BY DEF NoSetupFlow, SetupFlows, Providers
  <2> QED
    <3>1. SetupTypes'
      BY <1>1, <2>1, <2>2, <2>3 DEF SetupInv, SetupTypes
    <3>2. SetupFlowInv'
      BY <1>1, <2>1, <2>2, <2>3 DEF SetupInv, SetupFlowInv
    <3>3. SetupModelInv'
      BY <1>1, <2>1, <2>2, <2>3 DEF SetupInv, SetupModelInv, HasKey
    <3>4. SetupNodeInv'
      BY <1>1, <2>1, <2>2, <2>3 DEF SetupInv, SetupNodeInv
    <3> QED BY <3>1, <3>2, <3>3, <3>4 DEF SetupInv
<1> QED BY <1>2, <1>3, <1>4

LEMMA SetupNodeKeeps ==
    ASSUME SetupInv, NodeStep \/ StatusRead \/ StatusShown
    PROVE  SetupInv'
<1>1. UNCHANGED <<frDefault, frKeys, frEnrolled, frStep, frProvider, frTyped, frSaved, frPairing, frLeft, frSwitched>>
  BY DEF NodeStep, StatusRead, StatusShown, frBackend, frModel, frPhone
<1>2. NoSetupFlow \in SetupFlows /\ NoSetupFlow.op = "none" /\ ~NoSetupFlow.carries
  BY DEF NoSetupFlow, SetupFlows, Providers
<1>3. CASE NodeStep
  <2>1. UNCHANGED frStatus /\ frFlow.op # "model"
    BY <1>3 DEF NodeStep
  <2>2. frNode' \in BOOLEAN /\ (frNode' => frNode \/ (frFlow.op = "enroll" /\ frFlow.at = "done"))
    BY <1>3, Zenon DEF NodeStep, SetupInv, SetupTypes
  <2>3. \/ frFlow' = NoSetupFlow /\ frBusy' = FALSE
        \/ /\ UNCHANGED frBusy /\ frFlow' \in SetupFlows
           /\ frFlow'.op \in {"enroll", "service"} /\ frFlow'.at = "sent"
           /\ frFlow'.provider = frFlow.provider /\ frFlow'.carries = frFlow.carries
    BY <1>3 DEF NodeStep, FlowIsOver, SetupInv, SetupFlowInv, SetupFlows
  <2> QED
    <3>1. SetupTypes'
      BY <1>1, <1>2, <2>1, <2>2, <2>3 DEF SetupInv, SetupTypes
    <3>2. SetupFlowInv'
      BY <1>1, <1>2, <2>1, <2>2, <2>3 DEF SetupInv, SetupFlowInv
    <3>3. SetupModelInv'
      BY <1>1, <1>2, <2>1, <2>2, <2>3 DEF SetupInv, SetupModelInv, HasKey
    <3>4. SetupNodeInv'
      BY <1>1, <1>2, <2>1, <2>2, <2>3 DEF SetupInv, SetupNodeInv
    <3> QED BY <3>1, <3>2, <3>3, <3>4 DEF SetupInv
<1>4. CASE StatusRead
  <2>1. /\ frStatus' \in {"enrolled", "not enrolled"}
        /\ frStatus' = "enrolled" => frEnrolled
    BY <1>4 DEF StatusRead
  <2>2. UNCHANGED <<frNode, frBusy, frFlow>>
    BY <1>4 DEF StatusRead
  <2>3. SetupTypes'
    BY <1>1, <2>1, <2>2 DEF SetupInv, SetupTypes
  <2>4. SetupFlowInv' /\ SetupNodeInv'
    BY <1>1, <2>1, <2>2 DEF SetupInv, SetupFlowInv, SetupNodeInv
  <2>5. SetupModelInv'
    BY <1>1, <2>2 DEF SetupInv, SetupModelInv, HasKey
  <2> QED BY <2>3, <2>4, <2>5 DEF SetupInv
<1>5. CASE StatusShown
  <2>1. frStatus' = "none" /\ UNCHANGED <<frBusy, frFlow>>
    BY <1>5 DEF StatusShown
  <2>2. frNode' \in BOOLEAN /\ (frNode' => frNode \/ frStatus = "enrolled")
    BY <1>5 DEF StatusShown, SetupInv, SetupTypes
  <2> QED
    <3>1. SetupTypes'
      BY <1>1, <2>1, <2>2 DEF SetupInv, SetupTypes
    <3>2. SetupFlowInv'
      BY <1>1, <2>1, <2>2 DEF SetupInv, SetupFlowInv
    <3>3. SetupModelInv'
      BY <1>1, <2>1, <2>2 DEF SetupInv, SetupModelInv, HasKey
    <3>4. SetupNodeInv'
      BY <1>1, <2>1, <2>2 DEF SetupInv, SetupNodeInv
    <3> QED BY <3>1, <3>2, <3>3, <3>4 DEF SetupInv
<1> QED BY <1>3, <1>4, <1>5

LEMMA SetupPhoneKeeps ==
    ASSUME SetupInv, PhonePaired \/ PairingTicks
    PROVE  SetupInv'
<1>1. UNCHANGED <<frDefault, frKeys, frEnrolled, frStep, frProvider, frTyped, frSaved, frNode, frStatus, frSwitched>>
  BY DEF PhonePaired, PairingTicks, frBackend, frModel
<1>2. CASE PhonePaired
  <2>1. frFlow' = NoSetupFlow /\ frBusy' = FALSE
    BY <1>2 DEF PhonePaired, FlowIsOver
  <2>2. UNCHANGED <<frPairing, frLeft>> \/ (frPairing' = TRUE /\ frLeft' = PairingSeconds)
    BY <1>2 DEF PhonePaired, frPhone
  <2>3. NoSetupFlow \in SetupFlows /\ NoSetupFlow.op = "none" /\ ~NoSetupFlow.carries
    BY DEF NoSetupFlow, SetupFlows, Providers
  <2> QED
    <3>1. SetupTypes'
      <4>1. PairingSeconds \in 0..PairingSeconds
        BY SecondsArePositive
      <4>2. frPairing' \in BOOLEAN /\ frLeft' \in 0..PairingSeconds
        BY <2>2, <4>1 DEF SetupInv, SetupTypes
      <4> QED BY <1>1, <2>1, <4>2 DEF SetupInv, SetupTypes
    <3>2. SetupFlowInv'
      BY <1>1, <2>1, <2>2, <2>3, SecondsArePositive DEF SetupInv, SetupFlowInv
    <3>3. SetupModelInv'
      BY <1>1, <2>1, <2>2, <2>3, SecondsArePositive DEF SetupInv, SetupModelInv, HasKey
    <3>4. SetupNodeInv'
      BY <1>1, <2>1, <2>2, <2>3, SecondsArePositive DEF SetupInv, SetupNodeInv
    <3> QED BY <3>1, <3>2, <3>3, <3>4 DEF SetupInv
<1>3. CASE PairingTicks
  <2>1. frLeft > 0 /\ frLeft' = frLeft - 1 /\ UNCHANGED <<frBusy, frFlow>>
    BY <1>3 DEF PairingTicks
  <2>2. frPairing' \in BOOLEAN /\ (frPairing' => frLeft' # 0)
    BY <1>3, Zenon DEF PairingTicks, SetupInv, SetupTypes
  <2>3. frLeft \in 0..PairingSeconds
    BY DEF SetupInv, SetupTypes
  <2>4. frLeft' \in 0..PairingSeconds /\ (frPairing' => frLeft' > 0)
    BY <2>1, <2>2, <2>3, SecondsArePositive
  <2> QED
    <3>1. SetupTypes'
      BY <1>1, <2>1, <2>2, <2>4 DEF SetupInv, SetupTypes
    <3>2. SetupFlowInv'
      BY <1>1, <2>1, <2>2, <2>4 DEF SetupInv, SetupFlowInv
    <3>3. SetupModelInv'
      BY <1>1, <2>1, <2>2, <2>4 DEF SetupInv, SetupModelInv, HasKey
    <3>4. SetupNodeInv'
      BY <1>1, <2>1, <2>2, <2>4 DEF SetupInv, SetupNodeInv
    <3> QED BY <3>1, <3>2, <3>3, <3>4 DEF SetupInv
<1> QED BY <1>2, <1>3

LEMMA SetupTurnsKeeps ==
    ASSUME SetupInv, (\E step \in 0..FirstRunSteps : Turns(step)) \/ SkipSetup \/ ReopenSetup
    PROVE  SetupInv'
<1>1. UNCHANGED <<frDefault, frKeys, frEnrolled, frFlow, frSwitched>>
  BY DEF Turns, SkipSetup, ReopenSetup, frBackend
<1>2. CASE (\E step \in 0..FirstRunSteps : Turns(step)) \/ SkipSetup
  <2>1. /\ frStep' \in 0..FirstRunSteps
        /\ UNCHANGED <<frProvider, frTyped, frSaved, frNode, frPairing, frLeft, frBusy, frStatus>>
    BY <1>2 DEF Turns, SkipSetup, frModel, frPhone, FirstRunSteps
  <2> QED
    <3>1. SetupTypes'
      BY <1>1, <2>1 DEF SetupInv, SetupTypes
    <3>2. SetupFlowInv'
      BY <1>1, <2>1 DEF SetupInv, SetupFlowInv
    <3>3. SetupModelInv'
      BY <1>1, <2>1 DEF SetupInv, SetupModelInv, HasKey
    <3>4. SetupNodeInv'
      BY <1>1, <2>1 DEF SetupInv, SetupNodeInv
    <3> QED BY <3>1, <3>2, <3>3, <3>4 DEF SetupInv
<1>3. CASE ReopenSetup
  <2>1. SetupTypes'
    <3>1. 0 \in 0..PairingSeconds /\ 0 \in 0..FirstRunSteps
      BY SecondsArePositive DEF FirstRunSteps
    <3>2. frLeft' \in 0..PairingSeconds /\ frStep' \in 0..FirstRunSteps
      BY <1>3, <3>1 DEF ReopenSetup
    <3>3. frProvider' \in Providers
      BY <1>3 DEF ReopenSetup, Providers
    <3> QED BY <1>1, <1>3, <3>2, <3>3 DEF SetupInv, SetupTypes, ReopenSetup
  <2>2. SetupFlowInv'
    BY <1>1, <1>3, SecondsArePositive DEF SetupInv, SetupFlowInv, ReopenSetup, Providers, FirstRunSteps, NoSetupFlow
  <2>3. SetupModelInv'
    BY <1>1, <1>3, SecondsArePositive DEF SetupInv, SetupModelInv, HasKey, ReopenSetup, Providers, FirstRunSteps, NoSetupFlow
  <2>4. SetupNodeInv'
    BY <1>1, <1>3, SecondsArePositive DEF SetupInv, SetupNodeInv, ReopenSetup, Providers, FirstRunSteps, NoSetupFlow
  <2> QED BY <2>1, <2>2, <2>3, <2>4 DEF SetupInv
<1> QED BY <1>2, <1>3

LEMMA SetupStep ==
    ASSUME SetupInv, [FirstRunNext]_frVars
    PROVE  SetupInv'
<1>1. CASE UNCHANGED frVars
  <2>1. SetupTypes'
    BY <1>1 DEF SetupInv, SetupTypes, frVars, frBackend, frModel, frPhone
  <2>2. SetupFlowInv'
    BY <1>1 DEF SetupInv, SetupFlowInv, frVars, frBackend, frModel, frPhone
  <2>3. SetupModelInv'
    BY <1>1 DEF SetupInv, SetupModelInv, HasKey, frVars, frBackend, frModel, frPhone
  <2>4. SetupNodeInv'
    BY <1>1 DEF SetupInv, SetupNodeInv, frVars, frBackend, frModel, frPhone
  <2> QED BY <2>1, <2>2, <2>3, <2>4 DEF SetupInv
<1>2. CASE SaveModel
  <2> DEFINE flow == [NoSetupFlow EXCEPT !.op = "model", !.provider = frProvider,
                                         !.carries = (frTyped /\ frProvider \in KeyedProviders)]
  <2>1. Starts(flow) /\ (frSaved \/ frProvider = LocalProvider \/ frTyped)
    BY <1>2 DEF SaveModel, CanAdvanceFirstRun
  <2>2. (frTyped /\ frProvider \in KeyedProviders) \in BOOLEAN
    BY Zenon
  <2>3. flow \in SetupFlows
    BY <2>2 DEF NoSetupFlow, SetupFlows, SetupInv, SetupTypes
  <2>4. /\ flow.op = "model" /\ flow.at = "sent" /\ flow.provider = frProvider
        /\ flow.carries <=> frTyped /\ frProvider \in KeyedProviders
    BY DEF NoSetupFlow
  <2> HIDE DEF flow
  <2>5. ~frSwitched => flow.carries \/ HasKey(frProvider)
    BY <2>1, <2>4 DEF SetupInv, SetupTypes, SetupModelInv, HasKey, Providers
  <2> QED BY <2>1, <2>3, <2>4, <2>5, SetupStartsKeeps
<1>3. CASE EnrolNode
  <2> DEFINE flow == [NoSetupFlow EXCEPT !.op = "code"]
  <2>1. flow \in SetupFlows /\ flow.op = "code" /\ flow.at = "sent" /\ ~flow.carries
    BY DEF NoSetupFlow, SetupFlows, Providers
  <2> QED BY <1>3, <2>1, SetupStartsKeeps DEF EnrolNode
<1>4. CASE PairPhone
  <2> DEFINE flow == [NoSetupFlow EXCEPT !.op = "phone"]
  <2>1. flow \in SetupFlows /\ flow.op = "phone" /\ flow.at = "sent" /\ ~flow.carries
    BY DEF NoSetupFlow, SetupFlows, Providers
  <2> QED BY <1>4, <2>1, SetupStartsKeeps DEF PairPhone
<1> QED BY <1>1, <1>2, <1>3, <1>4, SetupHandledKeeps, SetupModelKeeps, SetupNodeKeeps, SetupPhoneKeeps, SetupTurnsKeeps
        DEF FirstRunNext

-----------------------------------------------------------------------------
(* The editors of the memory.                                              *)

\* Names are numbered, so a set of them has a first.
LEMMA LeastSlug ==
    ASSUME NEW T, T \subseteq Nat, T # {}
    PROVE  \E x \in T : \A y \in T : x <= y
<1> DEFINE R == {ss \in Nat \X Nat : ss[1] < ss[2]}
<1>1. IsWellFoundedOn(R, Nat)
  BY NatLessThanWellFounded DEF OpToRel
<1>2. \E x \in T : \A y \in T : ~(<<y, x>> \in R)
  <2> HIDE DEF R
  <2> QED BY <1>1, WFMin
<1>3. \A x, y \in Nat : <<y, x>> \notin R => x <= y
  OBVIOUS
<1> QED BY <1>2, <1>3

\* The first of a set of names is one of them.
LEMMA FirstIsIn == ASSUME NEW S \in SUBSET Slugs, S # {} PROVE First(S) \in S
<1>1. S \in SUBSET Nat
  BY MemoryAssumption DEF MemoryAssumption
<1>2. \E s \in S : \A t \in S : s <= t
  BY <1>1, LeastSlug
<1> QED BY <1>2 DEF First

MemoryOps      == {"none", "refresh", "create", "edit", "delete", "open"}
MemoryPlaces   == {"nothing", "sent", "done", "failed", "listing", "listed", "unlisted"}
MemoryRequests == [op : MemoryOps, at : MemoryPlaces, slug : MaybeSlug, text : MaybeSlug, closes : BOOLEAN, list : Texts]

\* Every entry has its own text.
Own(list) == \A s \in Slugs : list[s] \in {s, NoSlug}

\* A request writes to the entry its text is from.
SoundMemoryCall(call, missed) ==
    /\ call \in MemoryRequests
    /\ ~missed => /\ Own(call.list)
                  /\ call.op = "edit" /\ call.at = "sent" => call.text = call.slug
                  /\ call.op = "open" => call.text = call.slug /\ call.slug \in Slugs

MemoryCallsInv ==
    /\ meCalls = [c \in MemoryCalls |-> meCalls[c]]
    /\ \A c \in MemoryCalls : SoundMemoryCall(meCalls[c], meMissed)

MemoryTypes ==
    /\ meClient \in {"web", "desktop"}
    /\ meServer \in Texts /\ meEntries \in Texts
    /\ meLoading \in BOOLEAN /\ meSaving \in BOOLEAN
    /\ meEditor \in {"none", "create", "edit"}
    /\ meText \in MaybeSlug /\ meSelected \in MaybeSlug
    /\ meMissed \in BOOLEAN

\* The editor is of the entry that is selected, which the web client lists.
MemoryTextInv ==
    ~meMissed => /\ Own(meServer) /\ Own(meEntries)
                 /\ meEditor = "edit" => /\ meText = meSelected /\ meSelected \in Slugs
                                         /\ meClient = "web" => meEntries[meSelected] # NoSlug

SavingOps(client) == IF client = "web" THEN {"create", "edit", "delete"} ELSE {"create", "edit"}
MemorySavingInv   == meSaving => \E c \in MemoryCalls : meCalls[c].op \in SavingOps(meClient)

MemoryInv == MemoryTypes /\ MemoryCallsInv /\ MemoryTextInv /\ MemorySavingInv

LEMMA MemoryFollows == MemoryInv => MemoryTypeOK /\ EntriesKeepTheirText /\ MemorySavingEnds
<1> SUFFICES ASSUME MemoryInv PROVE MemoryTypeOK /\ EntriesKeepTheirText /\ MemorySavingEnds
  OBVIOUS
<1>1. \A c \in MemoryCalls : meCalls[c] \in MemoryRequests
  BY DEF MemoryInv, MemoryCallsInv, SoundMemoryCall
<1>2. meCalls \in [MemoryCalls -> MemoryCall]
  BY <1>1 DEF MemoryInv, MemoryCallsInv, MemoryRequests, MemoryOps, MemoryPlaces, MemoryCall
<1>3. MemoryTypeOK
  BY <1>2 DEF MemoryInv, MemoryTypes, MemoryTypeOK
<1>4. EntriesKeepTheirText
  BY DEF MemoryInv, MemoryTextInv, Own, EntriesKeepTheirText
<1>5. MemorySavingEnds
  BY DEF MemoryInv, MemorySavingInv, SavingOps, MemorySavingEnds, WebMemory
<1> QED BY <1>3, <1>4, <1>5

LEMMA PlainMemoryCalls ==
    /\ Own(Empty) /\ Empty \in Texts
    /\ NoMemoryCall \in MemoryRequests /\ NoMemoryCall.op = "none" /\ NoMemoryCall.list = Empty
    /\ NoMemoryCall = [op |-> "none", at |-> "nothing", slug |-> NoSlug, text |-> NoSlug, closes |-> FALSE, list |-> Empty]
    /\ Listing \in MemoryRequests /\ Listing.op = "refresh" /\ Listing.list = Empty
    /\ \A missed : SoundMemoryCall(NoMemoryCall, missed) /\ SoundMemoryCall(Listing, missed)
<1>1. Own(Empty) /\ Empty \in Texts
  BY DEF Own, Empty, Texts, MaybeSlug
<1>2. /\ NoMemoryCall \in MemoryRequests /\ NoMemoryCall.op = "none" /\ NoMemoryCall.list = Empty
      /\ Listing \in MemoryRequests /\ Listing.op = "refresh" /\ Listing.list = Empty
  BY <1>1 DEF NoMemoryCall, Listing, MemoryRequests, MemoryOps, MemoryPlaces, MaybeSlug
<1>3. \A missed : SoundMemoryCall(NoMemoryCall, missed) /\ SoundMemoryCall(Listing, missed)
  BY <1>1, <1>2 DEF SoundMemoryCall
<1> QED BY <1>1, <1>2, <1>3 DEF NoMemoryCall

LEMMA MemoryStart ==
    ASSUME MemoryOpens,
           \/ \E c \in MemoryCalls : meCalls = [[d \in MemoryCalls |-> NoMemoryCall] EXCEPT ![c] = Listing]
           \/ meCalls = [c \in MemoryCalls |-> Listing]
    PROVE  MemoryInv
<1>1. \A s \in Slugs : s # NoSlug
  BY MemoryAssumption DEF MemoryAssumption
<1>2. MemoryTypes
  BY PlainMemoryCalls DEF MemoryOpens, MemoryTypes, Texts, MaybeSlug
<1>3. MemoryTextInv /\ MemorySavingInv
  BY PlainMemoryCalls DEF MemoryOpens, MemoryTextInv, MemorySavingInv, Own
<1>4. MemoryCallsInv
  BY PlainMemoryCalls DEF MemoryCallsInv
<1> QED BY <1>2, <1>3, <1>4 DEF MemoryInv

\* One request changes and stays sound.
LEMMA OneMemoryCallChanges ==
    ASSUME MemoryCallsInv, meMissed => meMissed',
           NEW c \in MemoryCalls, NEW call, SoundMemoryCall(call, meMissed'),
           meCalls' = [meCalls EXCEPT ![c] = call]
    PROVE  /\ MemoryCallsInv'
           /\ meCalls'[c] = call
           /\ \A d \in MemoryCalls \ {c} : meCalls'[d] = meCalls[d]
<1>1. \A d \in MemoryCalls : SoundMemoryCall(meCalls[d], meMissed')
  BY DEF MemoryCallsInv, SoundMemoryCall
<1> QED BY <1>1 DEF MemoryCallsInv

\* What each step leaves of the flag that is set while a change is under way.
LEMMA SavingStays ==
    ASSUME MemorySavingInv, NEW c \in MemoryCalls, UNCHANGED meClient,
           \A d \in MemoryCalls \ {c} : meCalls'[d] = meCalls[d],
           \/ meSaving' => meSaving /\ meCalls[c].op \notin SavingOps(meClient)
           \/ meSaving' => meCalls'[c].op \in SavingOps(meClient)
           \/ (meSaving' => meSaving) /\ meCalls'[c].op = meCalls[c].op
    PROVE  MemorySavingInv'
BY DEF MemorySavingInv

\* The backend.
LEMMA MemoryHandlesKeeps ==
    ASSUME MemoryInv, NEW c \in MemoryCalls, MemoryHandles(c)
    PROVE  MemoryInv'
<1>1. /\ UNCHANGED <<meClient, meEntries, meLoading, meSaving, meEditor, meText, meSelected, meMissed>>
      /\ meCalls[c].at = "sent" /\ meCalls[c] \in MemoryRequests /\ SoundMemoryCall(meCalls[c], meMissed)
      /\ meServer \in Texts /\ meCalls = [d \in MemoryCalls |-> meCalls[d]]
  BY DEF MemoryHandles, meList, meDraft, MemoryInv, MemoryTypes, MemoryCallsInv, SoundMemoryCall
<1> SUFFICES ASSUME NEW at \in {"done", "failed"}, NEW slug \in MaybeSlug, NEW text \in MaybeSlug,
                    meCalls[c].op = "open" /\ ~meMissed => text = slug /\ slug \in Slugs,
                    meCalls' = [meCalls EXCEPT ![c] = [meCalls[c] EXCEPT !.at = at, !.slug = slug, !.text = text]],
                    meServer' \in Texts, ~meMissed => Own(meServer')
             PROVE  MemoryInv'
  <2>1. CASE UNCHANGED meServer /\ meCalls[c].op = "open" /\ Moves(c, "failed")
    <3>1. meCalls' = [meCalls EXCEPT ![c] = [meCalls[c] EXCEPT !.at = "failed", !.slug = meCalls[c].slug, !.text = meCalls[c].text]]
      BY <1>1, <2>1 DEF Moves, MemoryRequests
    <3>2. meCalls[c].slug \in MaybeSlug /\ meCalls[c].text \in MaybeSlug
      BY <1>1 DEF MemoryRequests
    <3> QED BY <1>1, <2>1, <3>1, <3>2 DEF SoundMemoryCall, MemoryInv, MemoryTextInv
  <2>2. CASE UNCHANGED meServer /\ meCalls[c].op # "open" /\ MemoryAnswered(c, "failed", NoSlug, NoSlug)
    <3>1. meCalls' = [meCalls EXCEPT ![c] = [meCalls[c] EXCEPT !.at = "failed", !.slug = NoSlug, !.text = NoSlug]]
      BY <2>2 DEF MemoryAnswered
    <3>2. NoSlug \in MaybeSlug
      BY DEF MaybeSlug
    <3> QED BY <1>1, <2>2, <3>1, <3>2 DEF MemoryInv, MemoryTextInv
  <2>3. ASSUME NEW s \in Slugs,
               IF meCalls[c].op = "create" THEN s \notin In(meServer) ELSE s = meCalls[c].slug /\ s \in In(meServer),
               meServer' = Changed(meCalls[c], s),
               \/ MemoryAnswered(c, "done", s, IF meCalls[c].op = "open" THEN meServer[s] ELSE NoSlug)
               \/ meCalls[c].op # "open" /\ MemoryAnswered(c, "failed", NoSlug, NoSlug)
        PROVE  MemoryInv'
    <3>1. meServer' \in Texts /\ (~meMissed => Own(meServer'))
      <4>1. meCalls[c].text \in MaybeSlug /\ NoSlug \in MaybeSlug /\ s \in MaybeSlug
        BY <1>1 DEF MemoryRequests, MaybeSlug
      <4>2. \/ meServer' = meServer
            \/ meServer' = [meServer EXCEPT ![s] = NoSlug]
            \/ meServer' = [meServer EXCEPT ![s] = s]
            \/ meServer' = [meServer EXCEPT ![s] = meCalls[c].text] /\ meCalls[c].op = "edit" /\ meCalls[c].slug = s
        BY <2>3 DEF Changed
      <4>3. ~meMissed => Own(meServer)
        BY DEF MemoryInv, MemoryTextInv
      <4> QED BY <1>1, <4>1, <4>2, <4>3 DEF Texts, Own, SoundMemoryCall
    <3>2. CASE meCalls[c].op = "open" /\ MemoryAnswered(c, "done", s, meServer[s])
      <4>1. meCalls' = [meCalls EXCEPT ![c] = [meCalls[c] EXCEPT !.at = "done", !.slug = s, !.text = meServer[s]]]
        BY <3>2 DEF MemoryAnswered
      <4>2. meServer[s] \in MaybeSlug /\ s \in MaybeSlug
        BY <1>1 DEF Texts, MaybeSlug
      <4>3. ~meMissed => meServer[s] = s
        BY <2>3, <3>2 DEF MemoryInv, MemoryTextInv, Own, In
      <4> QED BY <3>1, <4>1, <4>2, <4>3
    <3>3. CASE meCalls[c].op # "open"
      <4>1. NoSlug \in MaybeSlug /\ s \in MaybeSlug
        BY DEF MaybeSlug
      <4>2. \/ meCalls' = [meCalls EXCEPT ![c] = [meCalls[c] EXCEPT !.at = "done", !.slug = s, !.text = NoSlug]]
            \/ meCalls' = [meCalls EXCEPT ![c] = [meCalls[c] EXCEPT !.at = "failed", !.slug = NoSlug, !.text = NoSlug]]
        BY <2>3, <3>3 DEF MemoryAnswered
      <4> QED BY <3>1, <3>3, <4>1, <4>2
    <3> QED BY <2>3, <3>2, <3>3
  <2> QED BY <2>1, <2>2, <2>3 DEF MemoryHandles
<1> DEFINE call == [meCalls[c] EXCEPT !.at = at, !.slug = slug, !.text = text]
<1>2. /\ call \in MemoryRequests /\ call.op = meCalls[c].op /\ call.list = meCalls[c].list
      /\ call.at = at /\ call.slug = slug /\ call.text = text
  BY <1>1 DEF MemoryRequests, MemoryPlaces
<1> HIDE DEF call
<1>3. SoundMemoryCall(call, meMissed')
  BY <1>1, <1>2 DEF SoundMemoryCall
<1>4. meCalls' = [meCalls EXCEPT ![c] = call]
  BY DEF call
<1>5. /\ MemoryCallsInv' /\ meCalls'[c] = call
      /\ \A d \in MemoryCalls \ {c} : meCalls'[d] = meCalls[d]
  BY <1>1, <1>3, <1>4, OneMemoryCallChanges DEF MemoryInv
<1>6. MemorySavingInv'
  BY <1>1, <1>2, <1>5, SavingStays DEF MemoryInv
<1>7. MemoryTypes' /\ MemoryTextInv'
  BY <1>1 DEF MemoryInv, MemoryTypes, MemoryTextInv
<1> QED BY <1>5, <1>6, <1>7 DEF MemoryInv

LEMMA MemoryListsKeeps ==
    ASSUME MemoryInv, NEW c \in MemoryCalls, MemoryLists(c)
    PROVE  MemoryInv'
<1>1. /\ UNCHANGED <<meClient, meServer, meEntries, meLoading, meSaving, meEditor, meText, meSelected, meMissed>>
      /\ meCalls[c] \in MemoryRequests /\ SoundMemoryCall(meCalls[c], meMissed)
      /\ meServer \in Texts
  BY DEF MemoryLists, meList, meDraft, MemoryInv, MemoryTypes, MemoryCallsInv, SoundMemoryCall
<1>2. PICK list \in {meServer, meCalls[c].list}, at \in {"listed", "unlisted"} :
         meCalls' = [meCalls EXCEPT ![c] = [meCalls[c] EXCEPT !.at = at, !.list = list]]
  BY <1>1 DEF MemoryLists, Moves, MemoryRequests
<1> DEFINE call == [meCalls[c] EXCEPT !.at = at, !.list = list]
<1>3. /\ call \in MemoryRequests /\ call.op = meCalls[c].op /\ call.list = list
      /\ call.at = at /\ call.slug = meCalls[c].slug /\ call.text = meCalls[c].text
  BY <1>1 DEF MemoryRequests, MemoryPlaces
<1>4. meCalls' = [meCalls EXCEPT ![c] = call]
  BY <1>2
<1> HIDE DEF call
<1>5. SoundMemoryCall(call, meMissed')
  BY <1>1, <1>3 DEF SoundMemoryCall, MemoryInv, MemoryTextInv
<1>6. /\ MemoryCallsInv' /\ meCalls'[c] = call
      /\ \A d \in MemoryCalls \ {c} : meCalls'[d] = meCalls[d]
  BY <1>1, <1>4, <1>5, OneMemoryCallChanges DEF MemoryInv
<1>7. MemorySavingInv'
  BY <1>1, <1>3, <1>6, SavingStays DEF MemoryInv
<1>8. MemoryTypes' /\ MemoryTextInv'
  BY <1>1 DEF MemoryInv, MemoryTypes, MemoryTextInv
<1> QED BY <1>6, <1>7, <1>8 DEF MemoryInv

\* How requests begin, end and go on.
LEMMA MemoryPostsKeeps ==
    ASSUME MemoryInv, NEW c \in MemoryCalls, NEW call, MemoryPosts(c, call), SoundMemoryCall(call, meMissed),
           UNCHANGED <<meClient, meServer, meEntries, meEditor, meText, meSelected, meMissed>>,
           meLoading' \in BOOLEAN, meSaving' \in BOOLEAN, meSaving' => meSaving \/ call.op \in SavingOps(meClient)
    PROVE  MemoryInv'
<1>1. meCalls[c] = NoMemoryCall /\ meCalls' = [meCalls EXCEPT ![c] = call]
  BY DEF MemoryPosts
<1>2. /\ MemoryCallsInv' /\ meCalls'[c] = call
      /\ \A d \in MemoryCalls \ {c} : meCalls'[d] = meCalls[d]
  BY <1>1, OneMemoryCallChanges DEF MemoryInv
<1>3. meCalls[c].op \notin SavingOps(meClient)
  BY <1>1, PlainMemoryCalls DEF SavingOps
<1>4. MemorySavingInv'
  BY <1>2, <1>3, SavingStays DEF MemoryInv
<1>5. MemoryTypes' /\ MemoryTextInv'
  BY DEF MemoryInv, MemoryTypes, MemoryTextInv
<1> QED BY <1>2, <1>4, <1>5 DEF MemoryInv

LEMMA MemoryCallEnds ==
    ASSUME MemoryInv, NEW c \in MemoryCalls, Done(c), meMissed => meMissed'
    PROVE  /\ MemoryCallsInv' /\ meCalls'[c].op = "none"
           /\ \A d \in MemoryCalls \ {c} : meCalls'[d] = meCalls[d]
BY PlainMemoryCalls, OneMemoryCallChanges DEF Done, MemoryInv

LEMMA MemoryCallGoesOn ==
    ASSUME MemoryInv, NEW c \in MemoryCalls, ThenLists(c), UNCHANGED meMissed
    PROVE  /\ MemoryCallsInv' /\ meCalls'[c].op = meCalls[c].op
           /\ \A d \in MemoryCalls \ {c} : meCalls'[d] = meCalls[d]
<1> DEFINE call == [meCalls[c] EXCEPT !.at = "listing"]
<1>1. meCalls[c] \in MemoryRequests /\ SoundMemoryCall(meCalls[c], meMissed)
  BY DEF MemoryInv, MemoryCallsInv, SoundMemoryCall
<1>2. /\ call \in MemoryRequests /\ call.op = meCalls[c].op /\ call.list = meCalls[c].list
      /\ call.at = "listing" /\ call.slug = meCalls[c].slug /\ call.text = meCalls[c].text
  BY <1>1 DEF MemoryRequests, MemoryPlaces
<1>3. meCalls' = [meCalls EXCEPT ![c] = call]
  BY DEF ThenLists
<1> HIDE DEF call
<1>4. SoundMemoryCall(call, meMissed')
  BY <1>1, <1>2 DEF SoundMemoryCall
<1> QED BY <1>2, <1>3, <1>4, OneMemoryCallChanges DEF MemoryInv

\* The entry that is shown is listed.
LEMMA ShownIsListed ==
    ASSUME MemoryInv
    PROVE  /\ ShownEntry \in MaybeSlug
           /\ ShownEntry # NoSlug => /\ ShownEntry \in Slugs /\ meEntries[ShownEntry] # NoSlug
                                     /\ ~meMissed => meEntries[ShownEntry] = ShownEntry
           /\ meEditor = "edit" /\ meClient = "web" /\ ~meMissed => ShownEntry = meSelected
<1>1. In(meEntries) \in SUBSET Slugs /\ meEntries \in Texts
  BY DEF In, MemoryInv, MemoryTypes
<1>2. ShownEntry \in MaybeSlug /\ (ShownEntry # NoSlug => ShownEntry \in In(meEntries))
  BY <1>1, FirstIsIn DEF ShownEntry, First, MaybeSlug
<1>3. ShownEntry # NoSlug => ShownEntry \in Slugs /\ meEntries[ShownEntry] # NoSlug
  BY <1>2 DEF In
<1>4. ShownEntry # NoSlug /\ ~meMissed => meEntries[ShownEntry] = ShownEntry
  BY <1>3 DEF MemoryInv, MemoryTextInv, Own
<1>5. meEditor = "edit" /\ meClient = "web" /\ ~meMissed => ShownEntry = meSelected
  BY DEF MemoryInv, MemoryTextInv, ShownEntry, In
<1> QED BY <1>2, <1>3, <1>4, <1>5

\* The buttons of the web client that ask for nothing.
LEMMA WebButtonsKeep ==
    ASSUME MemoryInv,
           \/ \E s \in Slugs : WebSelect(s)
           \/ WebOpenCreate
           \/ WebOpenEdit
           \/ EditorCancelled
    PROVE  MemoryInv'
<1>1. UNCHANGED <<meClient, meServer, meEntries, meLoading, meSaving, meCalls, meMissed>> /\ meClient = "web"
  BY DEF WebSelect, WebOpenCreate, WebOpenEdit, EditorCancelled, meList, WebMemory
<1>2. MemoryCallsInv' /\ MemorySavingInv'
  BY <1>1 DEF MemoryInv, MemoryCallsInv, MemorySavingInv
<1>3. /\ meEditor' \in {"none", "create", "edit"} /\ meText' \in MaybeSlug /\ meSelected' \in MaybeSlug
      /\ ~meMissed /\ meEditor' = "edit" => /\ meText' = meSelected' /\ meSelected' \in Slugs
                                            /\ meEntries[meSelected'] # NoSlug
  <2>1. CASE \E s \in Slugs : WebSelect(s)
    BY <2>1 DEF WebSelect, meDraft, MemoryInv, MemoryTypes, MaybeSlug
  <2>2. CASE WebOpenCreate \/ EditorCancelled
    BY <2>2 DEF WebOpenCreate, EditorCancelled, EditorCloses, MemoryInv, MemoryTypes, MaybeSlug
  <2>3. CASE WebOpenEdit
    <3>1. meEntries[ShownEntry] \in MaybeSlug
      BY <2>3, ShownIsListed DEF WebOpenEdit, MemoryInv, MemoryTypes, Texts
    <3> QED BY <2>3, <3>1, ShownIsListed DEF WebOpenEdit
  <2> QED BY <2>1, <2>2, <2>3
<1>4. MemoryTypes'
  BY <1>1, <1>3 DEF MemoryInv, MemoryTypes
<1>5. MemoryTextInv'
  BY <1>1, <1>3 DEF MemoryInv, MemoryTextInv
<1> QED BY <1>2, <1>4, <1>5 DEF MemoryInv

LEMMA WebAsksKeeps ==
    ASSUME MemoryInv, NEW c \in MemoryCalls, WebLoad(c) \/ WebDeleteEntry(c) \/ WebSave(c)
    PROVE  MemoryInv'
<1>1. CASE WebLoad(c)
  <2>1. MemoryPosts(c, Listing) /\ meLoading' = TRUE
        /\ UNCHANGED <<meClient, meServer, meEntries, meEditor, meText, meSelected, meMissed, meSaving>>
    BY <1>1 DEF WebLoad, meDraft
  <2> QED BY <2>1, PlainMemoryCalls, MemoryPostsKeeps DEF MemoryInv, MemoryTypes
<1>2. CASE WebDeleteEntry(c)
  <2> DEFINE call == [NoMemoryCall EXCEPT !.op = "delete", !.at = "sent", !.slug = ShownEntry]
  <2>1. /\ MemoryPosts(c, call) /\ meSaving' = TRUE /\ meClient = "web"
        /\ UNCHANGED <<meClient, meServer, meEntries, meEditor, meText, meSelected, meMissed, meLoading>>
    BY <1>2 DEF WebDeleteEntry, meDraft, meList, WebMemory
  <2>2. call \in MemoryRequests /\ call.op = "delete" /\ call.list = Empty
    BY PlainMemoryCalls, ShownIsListed DEF MemoryRequests, MemoryOps, MemoryPlaces
  <2> HIDE DEF call
  <2>3. SoundMemoryCall(call, meMissed)
    BY <2>2, PlainMemoryCalls DEF SoundMemoryCall
  <2> QED BY <2>1, <2>2, <2>3, MemoryPostsKeeps DEF MemoryInv, MemoryTypes, SavingOps
<1>3. CASE WebSave(c)
  <2>1. meClient = "web" /\ meEditor # "none"
        /\ UNCHANGED <<meClient, meServer, meEntries, meLoading, meSelected, meMissed>>
    BY <1>3 DEF WebSave, meList, WebMemory
  <2>2. CASE meEditor = "edit" /\ ShownEntry = NoSlug
    <3>1. meEditor' = "none" /\ meText' = NoSlug /\ UNCHANGED <<meCalls, meSaving>>
      BY <1>3, <2>2 DEF WebSave, EditorCloses
    <3>2. MemoryTypes' /\ MemoryTextInv'
      BY <2>1, <3>1 DEF MemoryInv, MemoryTypes, MemoryTextInv, MaybeSlug
    <3> QED BY <2>1, <3>1, <3>2 DEF MemoryInv, MemoryCallsInv, MemorySavingInv
  <2>3. CASE ~(meEditor = "edit" /\ ShownEntry = NoSlug)
    <3> DEFINE slug == IF meEditor = "edit" THEN ShownEntry ELSE NoSlug
               call == [NoMemoryCall EXCEPT !.op = meEditor, !.at = "sent", !.text = meText, !.slug = slug]
    <3>1. MemoryPosts(c, call) /\ meSaving' = TRUE /\ UNCHANGED <<meEditor, meText>>
      BY <1>3, <2>3 DEF WebSave, meDraft
    <3>2. slug \in MaybeSlug /\ meText \in MaybeSlug /\ meEditor \in {"create", "edit"}
      BY <2>1, ShownIsListed DEF MaybeSlug, MemoryInv, MemoryTypes
    <3>3. meEditor = "edit" /\ ~meMissed => meText = slug
      BY <2>1, ShownIsListed DEF MemoryInv, MemoryTextInv
    <3> HIDE DEF slug
    <3>4. /\ call \in MemoryRequests /\ call.op = meEditor /\ call.list = Empty
          /\ call.text = meText /\ call.slug = slug
      BY <3>2, PlainMemoryCalls DEF MemoryRequests, MemoryOps, MemoryPlaces
    <3> HIDE DEF call
    <3>5. SoundMemoryCall(call, meMissed)
      BY <3>2, <3>3, <3>4, PlainMemoryCalls DEF SoundMemoryCall
    <3> QED BY <2>1, <3>1, <3>2, <3>4, <3>5, MemoryPostsKeeps DEF MemoryInv, MemoryTypes, SavingOps
  <2> QED BY <2>2, <2>3
<1> QED BY <1>1, <1>2, <1>3

LEMMA WebLoadedKeeps ==
    ASSUME MemoryInv, NEW c \in MemoryCalls, WebLoaded(c)
    PROVE  MemoryInv'
<1>1. /\ meClient = "web" /\ Done(c) /\ UNCHANGED <<meClient, meServer>> /\ meLoading' = FALSE
      /\ meCalls[c] \in MemoryRequests /\ SoundMemoryCall(meCalls[c], meMissed)
  BY DEF WebLoaded, WebMemory, MemoryInv, MemoryCallsInv, SoundMemoryCall
<1>2. /\ meMissed' \in BOOLEAN /\ (meMissed => meMissed')
      /\ meCalls[c].at = "listed" /\ ~meMissed' /\ meEditor = "edit" => meText \in In(meCalls[c].list)
  BY Zenon DEF WebLoaded, Misses, MemoryInv, MemoryTypes
<1>3. meSaving' \in BOOLEAN /\ (meSaving' => meSaving /\ meCalls[c].op = "refresh")
  BY Zenon DEF WebLoaded, MemoryInv, MemoryTypes
<1>4. /\ MemoryCallsInv' /\ meCalls'[c].op = "none"
      /\ \A d \in MemoryCalls \ {c} : meCalls'[d] = meCalls[d]
  BY <1>1, <1>2, MemoryCallEnds
<1>5. MemorySavingInv'
  BY <1>1, <1>3, <1>4, SavingStays DEF MemoryInv, SavingOps
<1>6. /\ meEntries' = IF meCalls[c].at = "listed" THEN meCalls[c].list ELSE meEntries
      /\ meEntries' \in Texts /\ (~meMissed' => Own(meEntries'))
  <2>1. meEntries' = IF meCalls[c].at = "listed" THEN meCalls[c].list ELSE meEntries
    BY DEF WebLoaded
  <2>2. meCalls[c].list \in Texts
    BY <1>1 DEF MemoryRequests
  <2> QED BY <1>1, <1>2, <2>1, <2>2 DEF MemoryInv, MemoryTypes, MemoryTextInv, SoundMemoryCall
<1>7. meCalls[c].slug \in MaybeSlug /\ Reselects(meCalls[c].list) \in MaybeSlug
  <2>1. In(meCalls[c].list) \in SUBSET Slugs
    BY DEF In
  <2> QED BY <1>1, <2>1, FirstIsIn DEF Reselects, First, MaybeSlug, MemoryRequests, MemoryInv, MemoryTypes
<1>8. /\ meEditor' \in {"none", "create", "edit"} /\ meText' \in MaybeSlug /\ meSelected' \in MaybeSlug
  BY <1>7 DEF WebLoaded, EditorCloses, meDraft, MemoryInv, MemoryTypes, MaybeSlug
<1>9. ASSUME ~meMissed', meEditor' = "edit"
      PROVE  meText' = meSelected' /\ meSelected' \in Slugs /\ meEntries'[meSelected'] # NoSlug
  <2>1. UNCHANGED <<meEditor, meText>> /\ meCalls[c].op # "create"
    BY <1>9 DEF WebLoaded, EditorCloses, meDraft
  <2>2. meText = meSelected /\ meSelected \in Slugs /\ meEntries[meSelected] # NoSlug
    BY <1>1, <1>2, <1>9, <2>1 DEF MemoryInv, MemoryTextInv
  <2>3. meSelected' = meSelected
    <3>1. CASE meCalls[c].at = "listed"
      BY <1>2, <1>9, <2>1, <2>2, <3>1 DEF WebLoaded, Reselects
    <3>2. CASE meCalls[c].at # "listed"
      BY <2>1, <3>2 DEF WebLoaded
    <3> QED BY <3>1, <3>2
  <2>4. meEntries'[meSelected] # NoSlug
    BY <1>2, <1>6, <1>9, <2>1, <2>2 DEF In
  <2> QED BY <2>1, <2>2, <2>3, <2>4
<1>10. MemoryTypes'
  BY <1>1, <1>2, <1>3, <1>6, <1>8 DEF MemoryInv, MemoryTypes
<1>11. MemoryTextInv'
  BY <1>1, <1>2, <1>6, <1>9 DEF MemoryInv, MemoryTextInv
<1> QED BY <1>4, <1>5, <1>10, <1>11 DEF MemoryInv

LEMMA WebChangedKeeps ==
    ASSUME MemoryInv, NEW c \in MemoryCalls, WebChanged(c)
    PROVE  MemoryInv'
<1>1. UNCHANGED <<meClient, meServer, meEntries, meEditor, meText, meSelected, meMissed>>
  BY DEF WebChanged, meDraft
<1>2. \/ ThenLists(c) /\ meLoading' = TRUE /\ UNCHANGED meSaving
      \/ Done(c) /\ meSaving' = FALSE /\ UNCHANGED meLoading
  BY DEF WebChanged, ThenLists
<1>3. /\ MemoryCallsInv' /\ meCalls'[c].op \in {"none", meCalls[c].op}
      /\ \A d \in MemoryCalls \ {c} : meCalls'[d] = meCalls[d]
      /\ meSaving' => meCalls'[c].op = meCalls[c].op
  BY <1>1, <1>2, MemoryCallEnds, MemoryCallGoesOn
<1>4. MemorySavingInv'
  BY <1>1, <1>2, <1>3, SavingStays DEF MemoryInv
<1>5. MemoryTypes' /\ MemoryTextInv'
  BY <1>1, <1>2 DEF MemoryInv, MemoryTypes, MemoryTextInv
<1> QED BY <1>3, <1>4, <1>5 DEF MemoryInv

\* The tab of the desktop: its list, its entries and its draft.
LEMMA DesktopLoadedKeeps ==
    ASSUME MemoryInv, NEW c \in MemoryCalls, DesktopLoaded(c)
    PROVE  MemoryInv'
<1>1. /\ meClient = "desktop" /\ Done(c) /\ meLoading' = FALSE
      /\ UNCHANGED <<meClient, meServer, meEditor, meText, meSelected, meMissed>>
      /\ meCalls[c] \in MemoryRequests /\ SoundMemoryCall(meCalls[c], meMissed)
  BY DEF DesktopLoaded, DesktopMemory, meDraft, MemoryInv, MemoryCallsInv, SoundMemoryCall
<1>2. meSaving' \in BOOLEAN /\ (meSaving' => meSaving /\ meCalls[c].op \notin {"create", "edit"})
  BY Zenon DEF DesktopLoaded, MemoryInv, MemoryTypes
<1>3. /\ MemoryCallsInv' /\ meCalls'[c].op = "none"
      /\ \A d \in MemoryCalls \ {c} : meCalls'[d] = meCalls[d]
  BY <1>1, MemoryCallEnds
<1>4. MemorySavingInv'
  BY <1>1, <1>2, <1>3, SavingStays DEF MemoryInv, SavingOps
<1>5. meEntries' \in Texts /\ (~meMissed => Own(meEntries'))
  <2>1. meEntries' \in {meEntries, meCalls[c].list}
    BY DEF DesktopLoaded
  <2> QED BY <1>1, <2>1 DEF MemoryInv, MemoryTypes, MemoryTextInv, SoundMemoryCall, MemoryRequests
<1>6. MemoryTypes' /\ MemoryTextInv'
  BY <1>1, <1>2, <1>5 DEF MemoryInv, MemoryTypes, MemoryTextInv
<1> QED BY <1>3, <1>4, <1>6 DEF MemoryInv

LEMMA DesktopAsksKeeps ==
    ASSUME MemoryInv, NEW c \in MemoryCalls,
           DesktopSave(c) \/ \E s \in Slugs : DesktopOpen(c, s) \/ DesktopRemove(c, s)
    PROVE  MemoryInv'
<1>1. CASE DesktopSave(c)
  <2> DEFINE call == [NoMemoryCall EXCEPT !.op = meEditor, !.at = "sent", !.slug = meSelected, !.text = meText]
  <2>1. /\ MemoryPosts(c, call) /\ meSaving' = TRUE /\ meEditor # "none"
        /\ UNCHANGED <<meClient, meServer, meEntries, meEditor, meText, meSelected, meMissed, meLoading>>
    BY <1>1 DEF DesktopSave, meDraft, meList
  <2>2. /\ call \in MemoryRequests /\ call.op = meEditor /\ call.list = Empty
        /\ call.text = meText /\ call.slug = meSelected
    BY <2>1, PlainMemoryCalls DEF MemoryRequests, MemoryOps, MemoryPlaces, MemoryInv, MemoryTypes
  <2> HIDE DEF call
  <2>3. SoundMemoryCall(call, meMissed)
    BY <2>2, PlainMemoryCalls DEF SoundMemoryCall, MemoryInv, MemoryTypes, MemoryTextInv
  <2> QED BY <2>1, <2>2, <2>3, MemoryPostsKeeps DEF MemoryInv, MemoryTypes, SavingOps
<1>2. ASSUME NEW s \in Slugs, DesktopOpen(c, s) PROVE MemoryInv'
  <2> DEFINE call == [NoMemoryCall EXCEPT !.op = "open", !.at = "sent", !.slug = s, !.text = meEntries[s]]
  <2>1. /\ MemoryPosts(c, call) /\ meEntries[s] # NoSlug
        /\ UNCHANGED <<meClient, meServer, meEntries, meEditor, meText, meSelected, meMissed, meLoading, meSaving>>
    BY <1>2 DEF DesktopOpen, meDraft, meList, In
  <2>2. /\ call \in MemoryRequests /\ call.op = "open" /\ call.list = Empty
        /\ call.text = meEntries[s] /\ call.slug = s
    BY PlainMemoryCalls DEF MemoryRequests, MemoryOps, MemoryPlaces, MemoryInv, MemoryTypes, Texts, MaybeSlug
  <2> HIDE DEF call
  <2>3. SoundMemoryCall(call, meMissed)
    BY <2>1, <2>2, PlainMemoryCalls DEF SoundMemoryCall, MemoryInv, MemoryTextInv, Own
  <2> QED BY <2>1, <2>2, <2>3, MemoryPostsKeeps DEF MemoryInv, MemoryTypes
<1>3. ASSUME NEW s \in Slugs, DesktopRemove(c, s) PROVE MemoryInv'
  <2> DEFINE closes == meEditor # "none" /\ meSelected = s
             call == [NoMemoryCall EXCEPT !.op = "delete", !.at = "sent", !.slug = s, !.closes = closes]
  <2>1. /\ MemoryPosts(c, call)
        /\ UNCHANGED <<meClient, meServer, meEntries, meEditor, meText, meSelected, meMissed, meLoading, meSaving>>
    BY <1>3 DEF DesktopRemove, meDraft, meList
  <2>2. closes \in BOOLEAN
    BY Zenon
  <2> HIDE DEF closes
  <2>3. call \in MemoryRequests /\ call.op = "delete" /\ call.list = Empty
    BY <2>2, PlainMemoryCalls DEF MemoryRequests, MemoryOps, MemoryPlaces, MaybeSlug
  <2> HIDE DEF call
  <2>4. SoundMemoryCall(call, meMissed)
    BY <2>3, PlainMemoryCalls DEF SoundMemoryCall
  <2> QED BY <2>1, <2>3, <2>4, MemoryPostsKeeps DEF MemoryInv, MemoryTypes
<1> QED BY <1>1, <1>2, <1>3

LEMMA DesktopChangedKeeps ==
    ASSUME MemoryInv, NEW c \in MemoryCalls, DesktopOpened(c) \/ DesktopSaved(c) \/ DesktopRemoved(c)
    PROVE  MemoryInv'
<1>1. /\ meClient = "desktop" /\ UNCHANGED <<meClient, meServer, meEntries, meMissed>>
      /\ meCalls[c] \in MemoryRequests /\ SoundMemoryCall(meCalls[c], meMissed)
  BY DEF DesktopOpened, DesktopSaved, DesktopRemoved, DesktopMemory, meList, MemoryInv, MemoryCallsInv, SoundMemoryCall
<1>2. \/ ThenLists(c) /\ meLoading' = TRUE /\ UNCHANGED meSaving
      \/ Done(c) /\ UNCHANGED meLoading /\ meSaving' = FALSE
      \/ Done(c) /\ UNCHANGED <<meLoading, meSaving>> /\ meCalls[c].op \in {"open", "delete"}
  BY DEF DesktopOpened, DesktopSaved, DesktopRemoved, ThenLists, meList
<1>3. \/ UNCHANGED <<meEditor, meText, meSelected>>
      \/ meEditor' = "none" /\ meText' = NoSlug /\ meSelected' = NoSlug
      \/ /\ meEditor' = "edit" /\ meText' = meCalls[c].text /\ meSelected' = meCalls[c].slug
         /\ meCalls[c].op = "open"
  BY DEF DesktopOpened, DesktopSaved, DesktopRemoved, DraftGoes, EditorCloses, meDraft
<1>4. /\ MemoryCallsInv' /\ meCalls'[c].op \in {"none", meCalls[c].op}
      /\ \A d \in MemoryCalls \ {c} : meCalls'[d] = meCalls[d]
      /\ meSaving' /\ meCalls[c].op \in {"create", "edit"} => meCalls'[c].op = meCalls[c].op
  BY <1>1, <1>2, MemoryCallEnds, MemoryCallGoesOn
<1>5. meSaving' => meSaving
  BY <1>2
<1>6. MemorySavingInv'
  BY <1>1, <1>4, <1>5 DEF MemoryInv, MemorySavingInv, SavingOps
<1>7. meLoading' \in BOOLEAN /\ meSaving' \in BOOLEAN
  BY <1>2 DEF MemoryInv, MemoryTypes
<1>8. MemoryTypes'
  BY <1>1, <1>3, <1>7 DEF MemoryInv, MemoryTypes, MemoryRequests, MaybeSlug
<1>9. MemoryTextInv'
  BY <1>1, <1>3 DEF MemoryInv, MemoryTextInv, SoundMemoryCall
<1> QED BY <1>4, <1>6, <1>8, <1>9 DEF MemoryInv

LEMMA MemoryStep ==
    ASSUME MemoryInv, [MemoryNext]_meVars
    PROVE  MemoryInv'
<1>1. CASE UNCHANGED meVars
  BY <1>1 DEF meVars, meList, meDraft, MemoryInv, MemoryTypes, MemoryCallsInv, MemoryTextInv, MemorySavingInv
<1>2. CASE \E s \in Slugs : OthersDelete(s)
  <2>1. UNCHANGED <<meClient, meEntries, meLoading, meSaving, meEditor, meText, meSelected, meCalls, meMissed>>
    BY <1>2 DEF OthersDelete, meList, meDraft
  <2>2. meServer' \in Texts /\ (~meMissed => Own(meServer'))
    BY <1>2 DEF OthersDelete, MemoryInv, MemoryTypes, MemoryTextInv, Own, Texts, MaybeSlug
  <2>3. MemoryTypes' /\ MemoryTextInv'
    BY <2>1, <2>2 DEF MemoryInv, MemoryTypes, MemoryTextInv
  <2> QED BY <2>1, <2>3 DEF MemoryInv, MemoryCallsInv, MemorySavingInv
<1>3. CASE DesktopNewEntry \/ DesktopCancelled
  <2>1. /\ UNCHANGED <<meClient, meServer, meEntries, meLoading, meSaving, meCalls, meMissed>>
        /\ meEditor' \in {"create", "none"} /\ meText' = NoSlug /\ meSelected' = NoSlug
    BY <1>3 DEF DesktopNewEntry, DesktopCancelled, DraftGoes, EditorCloses, meList
  <2>2. MemoryTypes' /\ MemoryTextInv'
    BY <2>1 DEF MemoryInv, MemoryTypes, MemoryTextInv, MaybeSlug
  <2> QED BY <2>1, <2>2 DEF MemoryInv, MemoryCallsInv, MemorySavingInv
<1> QED BY <1>1, <1>2, <1>3, WebButtonsKeep, MemoryHandlesKeeps, MemoryListsKeeps, WebAsksKeeps, WebLoadedKeeps,
           WebChangedKeeps, DesktopLoadedKeeps, DesktopAsksKeeps, DesktopChangedKeeps DEF MemoryNext

-----------------------------------------------------------------------------
(* The panels of devices and nodes.                                        *)

DeviceOps      == {"none", "refresh", "pair", "revoke", "delete", "on", "off"}
DevicePlaces   == {"nothing", "sent", "done", "failed", "listing", "listed", "unlisted"}
DeviceRequests == [op : DeviceOps, at : DevicePlaces, device : Devices \cup {NoDevice}, kind : DeviceKinds \cup {"none"},
                   list : Rows]

\* A request about a device is one of those its panel offers.
SoundDeviceCall(call, panel) ==
    /\ call \in DeviceRequests
    /\ call.device # NoDevice => call.op \in IF panel = "nodes" THEN {"on", "off"} ELSE {"revoke", "delete"}

DeviceCallsInv ==
    /\ dvCalls = [c \in DeviceCalls |-> dvCalls[c]]
    /\ \A c \in DeviceCalls : SoundDeviceCall(dvCalls[c], dvPanel)

DeviceTypes ==
    /\ dvPanel \in {"web", "desktop", "nodes"}
    /\ dvServer \in Rows /\ dvRows \in Rows
    /\ dvRead \in BOOLEAN
    /\ dvBusy \in {"none", "pair", "change"} \cup Devices
    /\ dvConfirm # NoConfirm => /\ dvConfirm \in [device : Devices, action : {"revoke", "delete"}]
                                /\ dvPanel # "nodes"
    /\ dvCode \in DeviceKinds \cup {"none"}
    /\ dvLeft \in 0..CodeSeconds
    /\ dvCode # "none" => dvLeft # 0
    /\ dvBehind \in BOOLEAN

\* A switch that is under way is alone, shows what it asks for, and makes it so.
SoundSwitch(c, calls, rows, server) ==
    LET call == calls[c]
    IN  /\ rows[call.device] = call.op
        /\ call.at = "sent" => server[call.device] \in {"on", "off"}
        /\ call.at = "done" => server[call.device] = call.op
        /\ \A e \in DeviceCalls : calls[e].device = call.device => e = c

\* A row is the backend's or a request is about it.
RowsInv ==
    ~dvBehind =>
        /\ \A d \in Devices : dvRows[d] = dvServer[d] \/ \E c \in DeviceCalls : dvCalls[c].device = d
        /\ dvPanel = "nodes" =>
              \A c \in DeviceCalls : dvCalls[c].device # NoDevice => SoundSwitch(c, dvCalls, dvRows, dvServer)

OccupiesPanel(call) == call.device # NoDevice \/ call.op = "pair"
DeviceBusyInv       == dvBusy # "none" => \E c \in DeviceCalls : OccupiesPanel(dvCalls[c])

PanelInv == DeviceTypes /\ DeviceCallsInv /\ RowsInv /\ DeviceBusyInv

LEMMA PanelFollows == PanelInv => DeviceTypeOK /\ RowsAreTrue /\ DevicesBusyEnds
<1> SUFFICES ASSUME PanelInv PROVE DeviceTypeOK /\ RowsAreTrue /\ DevicesBusyEnds
  OBVIOUS
<1>1. \A c \in DeviceCalls : dvCalls[c] \in DeviceRequests
  BY DEF PanelInv, DeviceCallsInv, SoundDeviceCall
<1>2. dvCalls \in [DeviceCalls -> DeviceCall]
  BY <1>1 DEF PanelInv, DeviceCallsInv, DeviceRequests, DeviceOps, DevicePlaces, DeviceCall
<1>3. DeviceTypeOK
  BY <1>2 DEF PanelInv, DeviceTypes, DeviceTypeOK, Confirms
<1>4. RowsAreTrue
  <2> SUFFICES ASSUME ~dvBehind, \A c \in DeviceCalls : dvCalls[c] = NoRequest PROVE dvRows = dvServer
    BY DEF RowsAreTrue
  <2>1. \A c \in DeviceCalls : dvCalls[c].device = NoDevice
    BY DEF NoRequest
  <2>2. \A d \in Devices : d # NoDevice
    BY DeviceAssumption DEF DeviceAssumption
  <2>3. \A d \in Devices : dvRows[d] = dvServer[d]
    BY <2>1, <2>2 DEF PanelInv, RowsInv
  <2> QED BY <2>3 DEF PanelInv, DeviceTypes, Rows
<1>5. DevicesBusyEnds
  BY DEF PanelInv, DeviceBusyInv, OccupiesPanel, DevicesBusyEnds
<1> QED BY <1>3, <1>4, <1>5

LEMMA PlainDeviceCalls ==
    /\ NoRows \in Rows
    /\ NoRequest \in DeviceRequests /\ NoRequest.op = "none" /\ NoRequest.device = NoDevice
    /\ NoRequest = [op |-> "none", at |-> "nothing", device |-> NoDevice, kind |-> "none", list |-> NoRows]
    /\ ListAsked \in DeviceRequests /\ ListAsked.op = "refresh" /\ ListAsked.device = NoDevice
    /\ \A panel : SoundDeviceCall(NoRequest, panel) /\ SoundDeviceCall(ListAsked, panel)
    /\ ~OccupiesPanel(NoRequest) /\ ~OccupiesPanel(ListAsked)
<1>1. NoRows \in Rows
  BY DEF NoRows, Rows, RowStates
<1>2. /\ NoRequest \in DeviceRequests /\ NoRequest.op = "none" /\ NoRequest.device = NoDevice
      /\ ListAsked \in DeviceRequests /\ ListAsked.op = "refresh" /\ ListAsked.device = NoDevice
  BY <1>1 DEF NoRequest, ListAsked, DeviceRequests, DeviceOps, DevicePlaces
<1>3. /\ \A panel : SoundDeviceCall(NoRequest, panel) /\ SoundDeviceCall(ListAsked, panel)
      /\ ~OccupiesPanel(NoRequest) /\ ~OccupiesPanel(ListAsked)
  BY <1>2 DEF SoundDeviceCall, OccupiesPanel
<1> QED BY <1>1, <1>2, <1>3 DEF NoRequest

LEMMA PanelStart ==
    ASSUME DevicesOpen,
           \/ \E c \in DeviceCalls : dvCalls = [[d \in DeviceCalls |-> NoRequest] EXCEPT ![c] = ListAsked]
           \/ dvCalls = [c \in DeviceCalls |-> ListAsked]
    PROVE  PanelInv
<1>1. 0 \in 0..CodeSeconds
  BY DeviceAssumption DEF DeviceAssumption
<1>2. DeviceTypes
  BY <1>1, PlainDeviceCalls DEF DevicesOpen, DeviceTypes, Rows, RowStates
<1>3. RowsInv /\ DeviceBusyInv
  BY DEF DevicesOpen, RowsInv, DeviceBusyInv
<1>4. DeviceCallsInv
  BY PlainDeviceCalls DEF DeviceCallsInv
<1> QED BY <1>2, <1>3, <1>4 DEF PanelInv

\* One request changes and stays sound.
LEMMA OneDeviceCallChanges ==
    ASSUME DeviceCallsInv, UNCHANGED dvPanel,
           NEW c \in DeviceCalls, NEW call, SoundDeviceCall(call, dvPanel),
           dvCalls' = [dvCalls EXCEPT ![c] = call]
    PROVE  /\ DeviceCallsInv'
           /\ dvCalls'[c] = call
           /\ \A d \in DeviceCalls \ {c} : dvCalls'[d] = dvCalls[d]
BY DEF DeviceCallsInv

\* A request that stays what it is, further on.
LEMMA DeviceCallGoesOn ==
    ASSUME PanelInv, UNCHANGED dvPanel, NEW c \in DeviceCalls, NEW at \in DevicePlaces, NEW list \in Rows,
           dvCalls' = [dvCalls EXCEPT ![c] = [dvCalls[c] EXCEPT !.at = at, !.list = list]]
    PROVE  /\ DeviceCallsInv'
           /\ dvCalls'[c].device = dvCalls[c].device /\ dvCalls'[c].op = dvCalls[c].op
           /\ dvCalls'[c].at = at /\ dvCalls'[c].list = list
           /\ \A d \in DeviceCalls \ {c} : dvCalls'[d] = dvCalls[d]
<1> DEFINE call == [dvCalls[c] EXCEPT !.at = at, !.list = list]
<1>1. dvCalls[c] \in DeviceRequests /\ SoundDeviceCall(dvCalls[c], dvPanel)
  BY DEF PanelInv, DeviceCallsInv, SoundDeviceCall
<1>2. /\ call \in DeviceRequests /\ call.op = dvCalls[c].op /\ call.device = dvCalls[c].device
      /\ call.at = at /\ call.list = list
  BY <1>1 DEF DeviceRequests
<1>3. dvCalls' = [dvCalls EXCEPT ![c] = call]
  OBVIOUS
<1> HIDE DEF call
<1>4. SoundDeviceCall(call, dvPanel)
  BY <1>1, <1>2 DEF SoundDeviceCall
<1> QED BY <1>2, <1>3, <1>4, OneDeviceCallChanges DEF PanelInv

LEMMA ProceedsKeepsTheRest ==
    ASSUME PanelInv, NEW c \in DeviceCalls, NEW at \in DevicePlaces, Proceeds(c, at)
    PROVE  /\ dvCalls[c].list \in Rows
           /\ dvCalls' = [dvCalls EXCEPT ![c] = [dvCalls[c] EXCEPT !.at = at, !.list = dvCalls[c].list]]
<1>1. dvCalls[c] \in DeviceRequests
  BY DEF PanelInv, DeviceCallsInv, SoundDeviceCall
<1> QED BY <1>1 DEF Proceeds, DeviceRequests

LEMMA BusyStays ==
    ASSUME DeviceBusyInv, NEW c \in DeviceCalls,
           \A d \in DeviceCalls \ {c} : dvCalls'[d] = dvCalls[d],
           dvBusy' # "none" => \/ OccupiesPanel(dvCalls'[c])
                               \/ dvBusy # "none" /\ ~OccupiesPanel(dvCalls[c])
                               \/ dvBusy # "none" /\ dvCalls'[c].device = dvCalls[c].device /\ dvCalls'[c].op = dvCalls[c].op
    PROVE  DeviceBusyInv'
BY DEF DeviceBusyInv, OccupiesPanel

\* The backend.
LEMMA DeviceHandlesKeeps ==
    ASSUME PanelInv, NEW c \in DeviceCalls, DeviceHandles(c)
    PROVE  PanelInv'
<1> DEFINE d0 == dvCalls[c].device
<1>1. /\ UNCHANGED <<dvPanel, dvRead, dvRows, dvBusy, dvConfirm, dvCode, dvLeft, dvBehind>>
      /\ dvCalls[c].at = "sent" /\ dvCalls[c] \in DeviceRequests /\ SoundDeviceCall(dvCalls[c], dvPanel)
      /\ dvServer \in Rows
  BY DEF DeviceHandles, dvList, dvPair, PanelInv, DeviceTypes, DeviceCallsInv, SoundDeviceCall
<1>2. \A d \in Devices : d # NoDevice
  BY DeviceAssumption DEF DeviceAssumption
<1>3. PICK at \in {"done", "failed"} : Proceeds(c, at)
  BY DEF DeviceHandles
<1>4. /\ DeviceCallsInv'
      /\ dvCalls'[c].device = dvCalls[c].device /\ dvCalls'[c].op = dvCalls[c].op
      /\ dvCalls'[c].at = at
      /\ \A d \in DeviceCalls \ {c} : dvCalls'[d] = dvCalls[d]
  <2>1. at \in DevicePlaces
    BY DEF DevicePlaces
  <2>2. /\ dvCalls[c].list \in Rows
        /\ dvCalls' = [dvCalls EXCEPT ![c] = [dvCalls[c] EXCEPT !.at = at, !.list = dvCalls[c].list]]
    BY <1>3, <2>1, ProceedsKeepsTheRest
  <2> HIDE DEF d0
  <2> QED BY <1>1, <2>1, <2>2, DeviceCallGoesOn
<1>5. /\ dvServer' \in Rows
      /\ \A d \in Devices \ {d0} : dvServer'[d] = dvServer[d]
      /\ d0 \in Devices /\ dvCalls[c].op \in {"on", "off"} /\ dvServer[d0] \in {"on", "off"} =>
            \/ dvServer'[d0] = dvCalls[c].op
            \/ at = "failed"
  <2>1. CASE UNCHANGED dvServer /\ Proceeds(c, "failed")
    <3>1. dvCalls'[c].at = "failed"
      BY <1>1, <2>1 DEF Proceeds, DeviceRequests, PanelInv, DeviceCallsInv
    <3> QED BY <1>1, <1>4, <2>1, <3>1
  <2>2. CASE dvServer' = IF dvCalls[c].op = "pair" THEN dvServer
                         ELSE [dvServer EXCEPT ![d0] = Becomes(dvCalls[c].op, @)]
    <3>1. dvCalls[c].op # "pair" /\ d0 \in Devices =>
             Becomes(dvCalls[c].op, dvServer[d0]) \in RowStates
      BY <1>1, <1>2 DEF Becomes, RowStates, SoundDeviceCall
    <3>2. dvCalls[c].op \in {"on", "off"} /\ d0 \in Devices /\ dvServer[d0] \in {"on", "off"} =>
             Becomes(dvCalls[c].op, dvServer[d0]) = dvCalls[c].op
      BY DEF Becomes
    <3> HIDE DEF d0
    <3>3. /\ dvServer' \in Rows
          /\ \A d \in Devices \ {d0} : dvServer'[d] = dvServer[d]
      BY <1>1, <2>2, <3>1 DEF Rows
    <3>4. dvCalls[c].op \in {"on", "off"} /\ d0 \in Devices =>
             dvServer'[d0] = Becomes(dvCalls[c].op, dvServer[d0])
      BY <1>1, <2>2 DEF Rows
    <3> QED BY <3>2, <3>3, <3>4
  <2> QED BY <2>1, <2>2 DEF DeviceHandles
<1> HIDE DEF d0
<1>6. RowsInv'
  <2> SUFFICES ASSUME ~dvBehind
               PROVE  /\ \A d \in Devices : dvRows[d] = dvServer'[d] \/ \E e \in DeviceCalls : dvCalls'[e].device = d
                      /\ dvPanel = "nodes" =>
                            \A e \in DeviceCalls : dvCalls'[e].device # NoDevice
                                                      => SoundSwitch(e, dvCalls', dvRows, dvServer')
    BY <1>1 DEF RowsInv
  <2>1. \A e \in DeviceCalls : dvCalls'[e].device = dvCalls[e].device /\ dvCalls'[e].op = dvCalls[e].op
    BY <1>4
  <2>2. ASSUME NEW d \in Devices
        PROVE  dvRows[d] = dvServer'[d] \/ \E e \in DeviceCalls : dvCalls'[e].device = d
    BY <1>5, <2>1 DEF PanelInv, RowsInv, d0
  <2>3. ASSUME dvPanel = "nodes", NEW e \in DeviceCalls, dvCalls'[e].device # NoDevice
        PROVE  SoundSwitch(e, dvCalls', dvRows, dvServer')
    <3>1. SoundSwitch(e, dvCalls, dvRows, dvServer)
      BY <2>1, <2>3 DEF PanelInv, RowsInv
    <3>2. dvCalls[e] \in DeviceRequests /\ dvCalls[e].device \in Devices
      BY <2>1, <2>3 DEF PanelInv, DeviceCallsInv, SoundDeviceCall, DeviceRequests
    <3>3. CASE e = c
      <4>1. dvCalls[c].op \in {"on", "off"} /\ d0 \in Devices /\ dvServer[d0] \in {"on", "off"}
        BY <1>1, <2>1, <2>3, <3>1, <3>2, <3>3 DEF SoundDeviceCall, SoundSwitch, d0
      <4> QED BY <1>4, <1>5, <2>1, <3>1, <3>3, <4>1 DEF SoundSwitch, d0
    <3>4. CASE e # c
      <4>1. dvCalls[e].device # d0
        BY <3>1, <3>4 DEF SoundSwitch, d0
      <4>2. dvCalls'[e] = dvCalls[e] /\ dvServer'[dvCalls[e].device] = dvServer[dvCalls[e].device]
        BY <1>4, <1>5, <3>2, <3>4, <4>1
      <4> QED BY <2>1, <3>1, <4>2 DEF SoundSwitch
    <3> QED BY <3>3, <3>4
  <2> QED BY <2>2, <2>3
<1>7. DeviceBusyInv'
  BY <1>1, <1>4, BusyStays DEF PanelInv
<1>8. DeviceTypes'
  BY <1>1, <1>5 DEF PanelInv, DeviceTypes
<1> QED BY <1>4, <1>6, <1>7, <1>8 DEF PanelInv

\* What changes neither a row nor which devices requests are about.
LEMMA RowsStay ==
    ASSUME RowsInv, UNCHANGED <<dvPanel, dvServer, dvRows>>, dvBehind \in BOOLEAN, dvBehind => dvBehind',
           \A e \in DeviceCalls : /\ dvCalls'[e].device = dvCalls[e].device
                                  /\ dvCalls[e].device # NoDevice => dvCalls'[e].op = dvCalls[e].op
                                  /\ dvCalls'[e].at \in {dvCalls[e].at, "listing", "listed", "unlisted"}
    PROVE  RowsInv'
<1> SUFFICES ASSUME ~dvBehind
             PROVE  /\ \A d \in Devices : dvRows[d] = dvServer[d] \/ \E e \in DeviceCalls : dvCalls'[e].device = d
                    /\ dvPanel = "nodes" =>
                          \A e \in DeviceCalls : dvCalls'[e].device # NoDevice
                                                    => SoundSwitch(e, dvCalls', dvRows, dvServer)
  BY DEF RowsInv
<1>1. \A d \in Devices : dvRows[d] = dvServer[d] \/ \E e \in DeviceCalls : dvCalls'[e].device = d
  BY DEF RowsInv
<1>2. ASSUME dvPanel = "nodes", NEW e \in DeviceCalls, dvCalls'[e].device # NoDevice
      PROVE  SoundSwitch(e, dvCalls', dvRows, dvServer)
  <2>1. SoundSwitch(e, dvCalls, dvRows, dvServer)
    BY <1>2 DEF RowsInv
  <2> QED BY <1>2, <2>1 DEF SoundSwitch
<1> QED BY <1>1, <1>2

LEMMA DevicesListedKeeps ==
    ASSUME PanelInv, NEW c \in DeviceCalls, DevicesListed(c)
    PROVE  PanelInv'
<1>1. /\ UNCHANGED <<dvPanel, dvServer, dvRead, dvRows, dvBusy, dvConfirm, dvCode, dvLeft, dvBehind>>
      /\ dvCalls[c] \in DeviceRequests /\ dvServer \in Rows
  BY DEF DevicesListed, dvList, dvPair, PanelInv, DeviceTypes, DeviceCallsInv, SoundDeviceCall
<1>2. PICK at \in {"listed", "unlisted"}, list \in Rows :
         dvCalls' = [dvCalls EXCEPT ![c] = [dvCalls[c] EXCEPT !.at = at, !.list = list]]
  <2>1. CASE Proceeds(c, "unlisted")
    BY <2>1, ProceedsKeepsTheRest DEF DevicePlaces
  <2>2. CASE dvCalls' = [dvCalls EXCEPT ![c].at = "listed", ![c].list = dvServer]
    <3>1. dvCalls' = [dvCalls EXCEPT ![c] = [dvCalls[c] EXCEPT !.at = "listed", !.list = dvServer]]
      BY <2>2
    <3> QED BY <1>1, <3>1
  <2> QED BY <2>1, <2>2 DEF DevicesListed
<1>3. /\ DeviceCallsInv'
      /\ dvCalls'[c].device = dvCalls[c].device /\ dvCalls'[c].op = dvCalls[c].op
      /\ dvCalls'[c].at \in {"listed", "unlisted"}
      /\ \A d \in DeviceCalls \ {c} : dvCalls'[d] = dvCalls[d]
  <2>1. at \in DevicePlaces
    BY DEF DevicePlaces
  <2> QED BY <1>1, <1>2, <2>1, DeviceCallGoesOn
<1>4. RowsInv'
  BY <1>1, <1>3, RowsStay DEF PanelInv, DeviceTypes
<1>5. DeviceBusyInv'
  BY <1>1, <1>3, BusyStays DEF PanelInv
<1>6. DeviceTypes'
  BY <1>1 DEF PanelInv, DeviceTypes
<1> QED BY <1>3, <1>4, <1>5, <1>6 DEF PanelInv

LEMMA RefreshedKeeps ==
    ASSUME PanelInv, NEW c \in DeviceCalls, Refreshed(c)
    PROVE  PanelInv'
<1>1. /\ UNCHANGED <<dvPanel, dvServer, dvCode, dvLeft>>
      /\ dvCalls[c] \in DeviceRequests /\ dvServer \in Rows /\ dvRows \in Rows
      /\ dvPanel \in {"web", "desktop", "nodes"}
  BY DEF Refreshed, dvPair, PanelInv, DeviceTypes, DeviceCallsInv, SoundDeviceCall
<1>2. /\ DeviceCallsInv' /\ dvCalls'[c] = NoRequest
      /\ \A d \in DeviceCalls \ {c} : dvCalls'[d] = dvCalls[d]
  BY <1>1, PlainDeviceCalls, OneDeviceCallChanges DEF Refreshed, RequestEnds, PanelInv
<1>3. /\ dvRead' = TRUE
      /\ dvRows' \in {dvRows, NoRows, dvCalls[c].list}
      /\ dvBehind' \in BOOLEAN
      /\ ~dvBehind' => ~ListIsBehind(c) /\ dvRows' = dvCalls[c].list
  <2>1. ListIsBehind(c) \in BOOLEAN
    BY DEF ListIsBehind
  <2>2. CASE dvPanel = "web"
    <3>1. WebRefreshed(c)
      BY <2>2 DEF Refreshed
    <3> QED BY <2>1, <3>1 DEF WebRefreshed
  <2>3. ASSUME dvBehind' = (dvCalls[c].at # "listed" \/ ListIsBehind(c))
        PROVE  /\ dvBehind' \in BOOLEAN
               /\ ~dvBehind' => ~ListIsBehind(c) /\ dvCalls[c].at = "listed"
    BY <2>1, <2>3, Zenon
  <2>4. CASE dvPanel = "desktop"
    <3>1. DesktopRefreshed(c)
      BY <2>4 DEF Refreshed
    <3> QED BY <2>3, <3>1 DEF DesktopRefreshed
  <2>5. CASE dvPanel = "nodes"
    <3>1. NodesLoaded(c)
      BY <2>5 DEF Refreshed
    <3> QED BY <2>3, <3>1 DEF NodesLoaded
  <2> QED BY <1>1, <2>2, <2>4, <2>5
<1>4. \/ UNCHANGED <<dvBusy, dvConfirm>> /\ dvCalls[c].op = "refresh"
      \/ dvBusy' = "none" /\ dvConfirm' = NoConfirm
  BY DEF Refreshed
<1>5. DeviceTypes'
  <2>1. dvRows' \in Rows
    BY <1>1, <1>3, PlainDeviceCalls DEF DeviceRequests
  <2> QED BY <1>1, <1>3, <1>4, <2>1 DEF PanelInv, DeviceTypes
<1>6. RowsInv'
  <2> SUFFICES ASSUME ~dvBehind' PROVE RowsInv'
    BY DEF RowsInv
  <2>1. dvRows' = dvServer' /\ \A d \in DeviceCalls \ {c} : dvCalls[d].device = NoDevice
    BY <1>1, <1>3 DEF ListIsBehind
  <2>2. \A d \in DeviceCalls : dvCalls'[d].device = NoDevice
    BY <1>2, <2>1, PlainDeviceCalls
  <2> QED BY <2>1, <2>2 DEF RowsInv
<1>7. DeviceBusyInv'
  <2>1. dvCalls[c].op = "refresh" => ~OccupiesPanel(dvCalls[c])
    BY DEF OccupiesPanel, PanelInv, DeviceCallsInv, SoundDeviceCall
  <2> QED BY <1>2, <1>4, <2>1, BusyStays DEF PanelInv
<1> QED BY <1>2, <1>5, <1>6, <1>7 DEF PanelInv

\* Requests that are about no device, and the buttons that send none.
LEMMA PollsKeeps ==
    ASSUME PanelInv, NEW c \in DeviceCalls, Polls(c) \/ \E kind \in DeviceKinds : Pair(c, kind)
    PROVE  PanelInv'
<1>1. /\ UNCHANGED <<dvPanel, dvServer, dvRead, dvRows, dvConfirm, dvCode, dvLeft, dvBehind>>
      /\ dvCalls[c] = NoRequest
  BY DEF Polls, Pair, Request, dvList, dvPair
<1>2. PICK call : /\ SoundDeviceCall(call, dvPanel) /\ call.device = NoDevice
                  /\ dvCalls' = [dvCalls EXCEPT ![c] = call]
                  /\ UNCHANGED dvBusy \/ (dvBusy' = "pair" /\ OccupiesPanel(call))
  <2>1. CASE Polls(c)
    BY <2>1, PlainDeviceCalls DEF Polls, Request
  <2>2. ASSUME NEW kind \in DeviceKinds, Pair(c, kind)
        PROVE  \E call : /\ SoundDeviceCall(call, dvPanel) /\ call.device = NoDevice
                         /\ dvCalls' = [dvCalls EXCEPT ![c] = call]
                         /\ UNCHANGED dvBusy \/ (dvBusy' = "pair" /\ OccupiesPanel(call))
    <3> DEFINE asked == [NoRequest EXCEPT !.op = "pair", !.at = "sent", !.kind = kind]
    <3>1. asked \in DeviceRequests /\ asked.op = "pair" /\ asked.device = NoDevice
      BY PlainDeviceCalls DEF DeviceRequests, DeviceOps, DevicePlaces
    <3>2. dvCalls' = [dvCalls EXCEPT ![c] = asked] /\ dvBusy' = "pair"
      BY <2>2 DEF Pair, Request
    <3> HIDE DEF asked
    <3>3. SoundDeviceCall(asked, dvPanel) /\ OccupiesPanel(asked)
      BY <3>1 DEF SoundDeviceCall, OccupiesPanel
    <3> QED BY <3>1, <3>2, <3>3
  <2> QED BY <2>1, <2>2
<1>3. /\ DeviceCallsInv' /\ dvCalls'[c] = call
      /\ \A d \in DeviceCalls \ {c} : dvCalls'[d] = dvCalls[d]
  BY <1>1, <1>2, OneDeviceCallChanges DEF PanelInv
<1>4. RowsInv'
  <2> SUFFICES ASSUME ~dvBehind
               PROVE  /\ \A d \in Devices : dvRows[d] = dvServer[d] \/ \E e \in DeviceCalls : dvCalls'[e].device = d
                      /\ dvPanel = "nodes" =>
                            \A e \in DeviceCalls : dvCalls'[e].device # NoDevice
                                                      => SoundSwitch(e, dvCalls', dvRows, dvServer)
    BY <1>1 DEF RowsInv
  <2>1. \A e \in DeviceCalls : dvCalls'[e].device = dvCalls[e].device
    BY <1>1, <1>2, <1>3, PlainDeviceCalls
  <2>2. \A d \in Devices : dvRows[d] = dvServer[d] \/ \E e \in DeviceCalls : dvCalls'[e].device = d
    BY <2>1 DEF PanelInv, RowsInv
  <2>3. ASSUME dvPanel = "nodes", NEW e \in DeviceCalls, dvCalls'[e].device # NoDevice
        PROVE  SoundSwitch(e, dvCalls', dvRows, dvServer)
    <3>1. SoundSwitch(e, dvCalls, dvRows, dvServer)
      BY <2>1, <2>3 DEF PanelInv, RowsInv
    <3>2. dvCalls'[e] = dvCalls[e]
      BY <1>2, <1>3, <2>3
    <3> QED BY <2>1, <3>1, <3>2 DEF SoundSwitch
  <2> QED BY <2>2, <2>3
<1>5. DeviceBusyInv'
  BY <1>1, <1>2, <1>3, PlainDeviceCalls, BusyStays DEF PanelInv
<1>6. DeviceTypes'
  BY <1>1, <1>2 DEF PanelInv, DeviceTypes
<1> QED BY <1>3, <1>4, <1>5, <1>6 DEF PanelInv

LEMMA PairedKeeps ==
    ASSUME PanelInv, NEW c \in DeviceCalls, Paired(c)
    PROVE  PanelInv'
<1>1. /\ UNCHANGED <<dvPanel, dvServer, dvRead, dvRows, dvConfirm, dvBehind>>
      /\ dvBusy' = "none" /\ dvCalls[c].op = "pair"
      /\ dvCalls[c] \in DeviceRequests /\ SoundDeviceCall(dvCalls[c], dvPanel)
  BY DEF Paired, dvList, PanelInv, DeviceCallsInv, SoundDeviceCall
<1>2. /\ DeviceCallsInv' /\ dvCalls'[c] = NoRequest
      /\ \A d \in DeviceCalls \ {c} : dvCalls'[d] = dvCalls[d]
  BY <1>1, PlainDeviceCalls, OneDeviceCallChanges DEF Paired, RequestEnds, PanelInv
<1>3. dvCalls[c].device = NoDevice
  BY <1>1 DEF SoundDeviceCall
<1>4. RowsInv'
  <2> SUFFICES ASSUME ~dvBehind
               PROVE  /\ \A d \in Devices : dvRows[d] = dvServer[d] \/ \E e \in DeviceCalls : dvCalls'[e].device = d
                      /\ dvPanel = "nodes" =>
                            \A e \in DeviceCalls : dvCalls'[e].device # NoDevice
                                                      => SoundSwitch(e, dvCalls', dvRows, dvServer)
    BY <1>1 DEF RowsInv
  <2>1. \A e \in DeviceCalls : dvCalls'[e].device = dvCalls[e].device
    BY <1>2, <1>3, PlainDeviceCalls
  <2>2. \A d \in Devices : dvRows[d] = dvServer[d] \/ \E e \in DeviceCalls : dvCalls'[e].device = d
    BY <2>1 DEF PanelInv, RowsInv
  <2>3. ASSUME dvPanel = "nodes", NEW e \in DeviceCalls, dvCalls'[e].device # NoDevice
        PROVE  SoundSwitch(e, dvCalls', dvRows, dvServer)
    <3>1. SoundSwitch(e, dvCalls, dvRows, dvServer)
      BY <2>1, <2>3 DEF PanelInv, RowsInv
    <3>2. dvCalls'[e] = dvCalls[e]
      BY <1>2, <1>3, <2>1, <2>3
    <3> QED BY <2>1, <3>1, <3>2 DEF SoundSwitch
  <2> QED BY <2>2, <2>3
<1>5. DeviceBusyInv'
  BY <1>1 DEF DeviceBusyInv
<1>6. DeviceTypes'
  <2>1. CodeSeconds \in 0..CodeSeconds /\ CodeSeconds # 0
    BY DeviceAssumption DEF DeviceAssumption
  <2>2. \/ UNCHANGED <<dvCode, dvLeft>>
        \/ dvCode' = dvCalls[c].kind /\ dvLeft' = CodeSeconds
    BY DEF Paired
  <2>3. dvCode' \in DeviceKinds \cup {"none"} /\ dvLeft' \in 0..CodeSeconds /\ (dvCode' # "none" => dvLeft' # 0)
    BY <1>1, <2>1, <2>2 DEF PanelInv, DeviceTypes, DeviceRequests
  <2> QED BY <1>1, <2>3 DEF PanelInv, DeviceTypes
<1> QED BY <1>2, <1>4, <1>5, <1>6 DEF PanelInv

LEMMA PanelButtonsKeep ==
    ASSUME PanelInv,
           \/ CodeTicks
           \/ CancelsPairing
           \/ \E d \in Devices : OthersRevoke(d) \/ \E action \in {"revoke", "delete"} : AsksToConfirm(d, action)
    PROVE  PanelInv'
<1>1. UNCHANGED <<dvPanel, dvRead, dvRows, dvBusy, dvCalls>>
  BY DEF CodeTicks, CancelsPairing, OthersRevoke, AsksToConfirm, dvList, dvPair
<1>2. DeviceCallsInv' /\ DeviceBusyInv'
  BY <1>1 DEF PanelInv, DeviceCallsInv, DeviceBusyInv
<1>3. \/ UNCHANGED <<dvServer, dvBehind>>
      \/ dvBehind' = TRUE
  BY DEF CodeTicks, CancelsPairing, OthersRevoke, AsksToConfirm, dvList, dvPair
<1>4. RowsInv'
  BY <1>1, <1>3 DEF PanelInv, RowsInv
<1>5. dvServer' \in Rows
  <2>1. dvServer \in Rows
    BY DEF PanelInv, DeviceTypes
  <2> QED BY <2>1 DEF CodeTicks, CancelsPairing, OthersRevoke, AsksToConfirm, Rows, RowStates
<1>6. /\ dvCode' \in DeviceKinds \cup {"none"} /\ dvLeft' \in 0..CodeSeconds
      /\ dvCode' # "none" => dvLeft' # 0
  <2>1. CASE CodeTicks
    <3>1. dvLeft \in 0..CodeSeconds /\ dvLeft # 0 /\ CodeSeconds \in Nat
      BY <2>1, DeviceAssumption DEF CodeTicks, PanelInv, DeviceTypes, DeviceAssumption
    <3>2. dvLeft' = dvLeft - 1 /\ dvCode' = IF dvLeft' = 0 THEN "none" ELSE dvCode
      BY <2>1 DEF CodeTicks
    <3>3. dvLeft' \in 0..CodeSeconds
      BY <3>1, <3>2
    <3> QED BY <3>2, <3>3 DEF PanelInv, DeviceTypes
  <2>2. CASE ~CodeTicks
    <3>1. UNCHANGED <<dvCode, dvLeft>>
      BY <2>2 DEF CancelsPairing, OthersRevoke, AsksToConfirm, dvPair
    <3> QED BY <3>1 DEF PanelInv, DeviceTypes
  <2> QED BY <2>1, <2>2
<1>7. dvConfirm' # NoConfirm => /\ dvConfirm' \in [device : Devices, action : {"revoke", "delete"}]
                                /\ dvPanel # "nodes"
  BY DEF CodeTicks, CancelsPairing, OthersRevoke, AsksToConfirm, DeviceOffered, WebOffers, DesktopOffers, PanelInv, DeviceTypes
<1>8. DeviceTypes'
  BY <1>1, <1>3, <1>5, <1>6, <1>7 DEF PanelInv, DeviceTypes
<1> QED BY <1>2, <1>4, <1>8 DEF PanelInv

\* Changes of rows.
LEMMA MutateKeeps ==
    ASSUME PanelInv, NEW c \in DeviceCalls, Mutate(c)
    PROVE  PanelInv'
<1> DEFINE call == [NoRequest EXCEPT !.op = dvConfirm.action, !.at = "sent", !.device = dvConfirm.device]
<1>1. /\ UNCHANGED <<dvPanel, dvServer, dvRead, dvRows, dvConfirm, dvCode, dvLeft, dvBehind>>
      /\ dvBusy' = "change"
      /\ dvCalls[c] = NoRequest /\ dvCalls' = [dvCalls EXCEPT ![c] = call]
      /\ dvConfirm \in [device : Devices, action : {"revoke", "delete"}] /\ dvPanel # "nodes"
  BY DEF Mutate, Request, dvList, dvPair, PanelInv, DeviceTypes
<1>2. dvConfirm.device \in Devices /\ dvConfirm.action \in {"revoke", "delete"} /\ dvConfirm.device # NoDevice
  BY <1>1, DeviceAssumption DEF DeviceAssumption
<1>3. call \in DeviceRequests /\ call.op = dvConfirm.action /\ call.device = dvConfirm.device
  BY <1>2, PlainDeviceCalls DEF DeviceRequests, DeviceOps, DevicePlaces
<1> HIDE DEF call
<1>4. SoundDeviceCall(call, dvPanel) /\ OccupiesPanel(call)
  BY <1>1, <1>2, <1>3 DEF SoundDeviceCall, OccupiesPanel
<1>5. /\ DeviceCallsInv' /\ dvCalls'[c] = call
      /\ \A d \in DeviceCalls \ {c} : dvCalls'[d] = dvCalls[d]
  BY <1>1, <1>4, OneDeviceCallChanges DEF PanelInv
<1>6. RowsInv'
  <2>1. \A d \in Devices : (\E e \in DeviceCalls : dvCalls[e].device = d) => \E e \in DeviceCalls : dvCalls'[e].device = d
    <3>1. \A d \in Devices : d # NoDevice
      BY DeviceAssumption DEF DeviceAssumption
    <3> QED BY <1>1, <1>5, <3>1, PlainDeviceCalls
  <2> QED BY <1>1, <2>1 DEF PanelInv, RowsInv
<1>7. DeviceBusyInv'
  BY <1>4, <1>5 DEF DeviceBusyInv
<1>8. DeviceTypes'
  BY <1>1 DEF PanelInv, DeviceTypes
<1> QED BY <1>5, <1>6, <1>7, <1>8 DEF PanelInv

\* A change goes on with the list.
LEMMA ThenListsRows ==
    ASSUME PanelInv, NEW c \in DeviceCalls, Proceeds(c, "listing"),
           UNCHANGED <<dvPanel, dvServer, dvRead, dvRows, dvBusy, dvConfirm, dvCode, dvLeft, dvBehind>>
    PROVE  PanelInv'
<1>1. "listing" \in DevicePlaces
  BY DEF DevicePlaces
<1>2. /\ dvCalls[c].list \in Rows
      /\ dvCalls' = [dvCalls EXCEPT ![c] = [dvCalls[c] EXCEPT !.at = "listing", !.list = dvCalls[c].list]]
  BY <1>1, ProceedsKeepsTheRest
<1>3. /\ DeviceCallsInv'
      /\ dvCalls'[c].device = dvCalls[c].device /\ dvCalls'[c].op = dvCalls[c].op
      /\ dvCalls'[c].at = "listing"
      /\ \A d \in DeviceCalls \ {c} : dvCalls'[d] = dvCalls[d]
  BY <1>1, <1>2, DeviceCallGoesOn
<1>4. RowsInv'
  BY <1>3, RowsStay DEF PanelInv, DeviceTypes
<1>5. DeviceBusyInv'
  BY <1>3, BusyStays DEF PanelInv
<1>6. DeviceTypes'
  BY DEF PanelInv, DeviceTypes
<1> QED BY <1>3, <1>4, <1>5, <1>6 DEF PanelInv

LEMMA MutatedKeeps ==
    ASSUME PanelInv, NEW c \in DeviceCalls, Mutated(c)
    PROVE  PanelInv'
<1>1. UNCHANGED <<dvPanel, dvServer, dvRead, dvRows, dvCode, dvLeft>>
  BY DEF Mutated, dvList, dvPair
<1>2. CASE Proceeds(c, "listing") /\ UNCHANGED <<dvBusy, dvConfirm, dvBehind>>
  BY <1>1, <1>2, ThenListsRows
<1>3. CASE RequestEnds(c) /\ dvBusy' = "none" /\ dvConfirm' = NoConfirm /\ dvBehind' = TRUE
  <2>1. DeviceCallsInv'
    BY <1>1, <1>3, PlainDeviceCalls, OneDeviceCallChanges DEF RequestEnds, PanelInv
  <2>2. RowsInv' /\ DeviceBusyInv'
    BY <1>3 DEF RowsInv, DeviceBusyInv
  <2>3. DeviceTypes'
    BY <1>1, <1>3 DEF PanelInv, DeviceTypes
  <2> QED BY <2>1, <2>2, <2>3 DEF PanelInv
<1> QED BY <1>2, <1>3 DEF Mutated

LEMMA UpdatePolicyKeeps ==
    ASSUME PanelInv, NEW c \in DeviceCalls, NEW d \in Devices, UpdatePolicy(c, d)
    PROVE  PanelInv'
<1> DEFINE turned == IF dvRows[d] = "on" THEN "off" ELSE "on"
           call   == [NoRequest EXCEPT !.op = turned, !.at = "sent", !.device = d]
<1>1. /\ UNCHANGED <<dvPanel, dvServer, dvRead, dvConfirm, dvCode, dvLeft>>
      /\ dvPanel = "nodes" /\ dvRows[d] \in {"on", "off"} /\ dvBusy' = d
      /\ dvCalls[c] = NoRequest /\ dvCalls' = [dvCalls EXCEPT ![c] = call]
      /\ dvRows' = [dvRows EXCEPT ![d] = turned]
  BY DEF UpdatePolicy, NodeOffers, Request, dvPair
<1>2. /\ dvBehind' \in BOOLEAN
      /\ ~dvBehind' => ~dvBehind /\ \A e \in DeviceCalls : dvCalls[e].device # d
  BY Zenon DEF UpdatePolicy, PanelInv, DeviceTypes
<1>3. d # NoDevice /\ turned \in {"on", "off"}
  BY DeviceAssumption DEF DeviceAssumption
<1> HIDE DEF turned
<1>4. call \in DeviceRequests /\ call.op = turned /\ call.device = d /\ call.at = "sent"
  BY <1>3, PlainDeviceCalls DEF DeviceRequests, DeviceOps, DevicePlaces
<1> HIDE DEF call
<1>5. SoundDeviceCall(call, dvPanel) /\ OccupiesPanel(call)
  BY <1>1, <1>3, <1>4 DEF SoundDeviceCall, OccupiesPanel
<1>6. /\ DeviceCallsInv' /\ dvCalls'[c] = call
      /\ \A e \in DeviceCalls \ {c} : dvCalls'[e] = dvCalls[e]
  BY <1>1, <1>5, OneDeviceCallChanges DEF PanelInv
<1>7. dvRows' \in Rows /\ dvRows'[d] = turned /\ \A e \in Devices \ {d} : dvRows'[e] = dvRows[e]
  BY <1>1, <1>3 DEF PanelInv, DeviceTypes, Rows, RowStates
<1>8. RowsInv'
  <2> SUFFICES ASSUME ~dvBehind'
               PROVE  /\ \A e \in Devices : dvRows'[e] = dvServer[e] \/ \E x \in DeviceCalls : dvCalls'[x].device = e
                      /\ \A x \in DeviceCalls : dvCalls'[x].device # NoDevice
                                                  => SoundSwitch(x, dvCalls', dvRows', dvServer)
    BY <1>1 DEF RowsInv
  <2>1. dvServer[d] = dvRows[d]
    BY <1>2 DEF PanelInv, RowsInv
  <2>2. ASSUME NEW e \in Devices
        PROVE  dvRows'[e] = dvServer[e] \/ \E x \in DeviceCalls : dvCalls'[x].device = e
    <3>1. CASE e = d
      BY <1>4, <1>6, <3>1
    <3>2. CASE e # d
      <4>1. dvRows[e] = dvServer[e] \/ \E x \in DeviceCalls : dvCalls[x].device = e
        BY <1>2 DEF PanelInv, RowsInv
      <4>2. dvCalls[c].device # e
        BY <1>1, DeviceAssumption, PlainDeviceCalls DEF DeviceAssumption
      <4> QED BY <1>6, <1>7, <3>2, <4>1, <4>2
    <3> QED BY <3>1, <3>2
  <2>3. ASSUME NEW x \in DeviceCalls, dvCalls'[x].device # NoDevice
        PROVE  SoundSwitch(x, dvCalls', dvRows', dvServer)
    <3>1. CASE x = c
      BY <1>1, <1>2, <1>4, <1>6, <1>7, <2>1, <3>1 DEF SoundSwitch
    <3>2. CASE x # c
      <4>1. SoundSwitch(x, dvCalls, dvRows, dvServer) /\ dvCalls'[x] = dvCalls[x]
        BY <1>1, <1>2, <1>6, <2>3, <3>2 DEF PanelInv, RowsInv
      <4>2. dvCalls[x].device \in Devices /\ dvCalls[x].device # d
        BY <1>2, <2>3, <4>1 DEF PanelInv, DeviceCallsInv, SoundDeviceCall, DeviceRequests
      <4> QED BY <1>4, <1>6, <1>7, <3>2, <4>1, <4>2 DEF SoundSwitch
    <3> QED BY <3>1, <3>2
  <2> QED BY <2>2, <2>3
<1>9. DeviceBusyInv'
  BY <1>5, <1>6 DEF DeviceBusyInv
<1>10. DeviceTypes'
  BY <1>1, <1>2, <1>7 DEF PanelInv, DeviceTypes
<1> QED BY <1>6, <1>8, <1>9, <1>10 DEF PanelInv

LEMMA PolicyUpdatedKeeps ==
    ASSUME PanelInv, NEW c \in DeviceCalls, PolicyUpdated(c)
    PROVE  PanelInv'
<1>1. /\ UNCHANGED <<dvPanel, dvServer, dvRead, dvRows, dvConfirm, dvCode, dvLeft, dvBehind>>
      /\ dvPanel = "nodes" /\ dvCalls[c].device # NoDevice
  BY DEF PolicyUpdated, dvList, dvPair
<1>2. CASE dvCalls[c].at # "done"
  BY <1>1, <1>2, ThenListsRows DEF PolicyUpdated
<1>3. CASE dvCalls[c].at = "done"
  <2>1. RequestEnds(c) /\ dvBusy' = "none"
    BY <1>3 DEF PolicyUpdated
  <2>2. /\ DeviceCallsInv' /\ dvCalls'[c] = NoRequest
        /\ \A d \in DeviceCalls \ {c} : dvCalls'[d] = dvCalls[d]
    BY <1>1, <2>1, PlainDeviceCalls, OneDeviceCallChanges DEF RequestEnds, PanelInv
  <2>3. RowsInv'
    <3> SUFFICES ASSUME ~dvBehind
                 PROVE  /\ \A d \in Devices : dvRows[d] = dvServer[d] \/ \E e \in DeviceCalls : dvCalls'[e].device = d
                        /\ \A e \in DeviceCalls : dvCalls'[e].device # NoDevice
                                                     => SoundSwitch(e, dvCalls', dvRows, dvServer)
      BY <1>1 DEF RowsInv
    <3>1. SoundSwitch(c, dvCalls, dvRows, dvServer)
      BY <1>1 DEF PanelInv, RowsInv
    <3>2. dvRows[dvCalls[c].device] = dvServer[dvCalls[c].device]
      BY <1>3, <3>1 DEF SoundSwitch
    <3>3. ASSUME NEW d \in Devices
          PROVE  dvRows[d] = dvServer[d] \/ \E e \in DeviceCalls : dvCalls'[e].device = d
      <4>1. dvRows[d] = dvServer[d] \/ \E e \in DeviceCalls : dvCalls[e].device = d
        BY DEF PanelInv, RowsInv
      <4> QED BY <2>2, <3>2, <4>1
    <3>4. ASSUME NEW e \in DeviceCalls, dvCalls'[e].device # NoDevice
          PROVE  SoundSwitch(e, dvCalls', dvRows, dvServer)
      <4>1. e # c /\ dvCalls'[e] = dvCalls[e]
        BY <2>2, <3>4, PlainDeviceCalls
      <4>2. SoundSwitch(e, dvCalls, dvRows, dvServer)
        BY <1>1, <3>4, <4>1 DEF PanelInv, RowsInv
      <4> QED BY <2>2, <3>4, <4>1, <4>2, PlainDeviceCalls DEF SoundSwitch
    <3> QED BY <3>3, <3>4
  <2>4. DeviceBusyInv' /\ DeviceTypes'
    BY <1>1, <2>1 DEF DeviceBusyInv, PanelInv, DeviceTypes
  <2> QED BY <2>2, <2>3, <2>4 DEF PanelInv
<1> QED BY <1>2, <1>3

LEMMA PanelStep ==
    ASSUME PanelInv, [DevicesNext]_dvVars
    PROVE  PanelInv'
<1>1. CASE UNCHANGED dvVars
  BY <1>1 DEF dvVars, dvList, dvPair, PanelInv, DeviceTypes, DeviceCallsInv, RowsInv, DeviceBusyInv
<1> QED BY <1>1, DeviceHandlesKeeps, DevicesListedKeeps, RefreshedKeeps, PollsKeeps, PairedKeeps, PanelButtonsKeep,
           MutateKeeps, MutatedKeeps, UpdatePolicyKeeps, PolicyUpdatedKeeps DEF DevicesNext

-----------------------------------------------------------------------------
(* Enrolling a voice.                                                      *)

TakeStates    == {"idle", "asking", "countdown", "recording", "stopped", "adrift"}
VoiceRequestSet == [op : {"none", "read", "enroll", "remove"}, at : {"sent", "done", "failed"}, was : BOOLEAN]

EnrollmentTypes ==
    /\ veClient \in {"desktop", "web"}
    /\ veServer \in BOOLEAN /\ veMounted \in BOOLEAN
    /\ veTake \in [Takes -> TakeStates]
    /\ veLive \subseteq Takes
    /\ veLatest \in Takes \cup {NoTake} /\ veCurrent \in Takes \cup {NoTake} /\ veTimer \in Takes \cup {NoTake}
    /\ veAsking \in BOOLEAN /\ veActive \in BOOLEAN
    /\ veSamples \in Nat /\ veSamples <= MaxSamples
    /\ veEnrolled \in {"unknown", "yes", "no"}
    /\ veBusy \in BOOLEAN
    /\ veRequest \in [VoiceRequests -> VoiceRequestSet]
    /\ veCrossed \in BOOLEAN /\ veBlurred \in BOOLEAN

\* The desktop: the flags are about the latest take, for which there is room.
DesktopTakesInv ==
    veClient = "desktop" =>
        /\ \A t \in veLive : t = veCurrent /\ veMounted /\ veActive
        /\ veMounted /\ veActive => veCurrent = veLatest /\ veCurrent \in Takes /\ veTake[veCurrent] = "recording"
        /\ veMounted /\ veAsking => veLatest \in Takes /\ veTake[veLatest] = "asking"
        /\ veLatest \in Takes /\ veTake[veLatest] \in {"asking", "recording", "stopped"} => veSamples < MaxSamples

\* The web client: there is one take, of which the handles are.
WebTakesInv ==
    veClient = "web" =>
        /\ ~veCrossed => /\ \A t \in veLive : veTake[t] \in {"countdown", "recording", "stopped"} /\ t = veCurrent
                         /\ \A t \in Takes : /\ veTake[t] # "adrift"
                                             /\ veTake[t] \in {"countdown", "recording"} => t = veCurrent
                         /\ \A t, u \in Takes : veTake[t] # "idle" /\ veTake[u] # "idle" => t = u
        /\ ~veAsking
        /\ veMounted /\ veActive => \E t \in Takes : veTake[t] \in {"countdown", "recording", "stopped"}

BusyOps(client) == IF client = "desktop" THEN {"enroll"} ELSE {"enroll", "remove"}

\* The profile: one request at a time, whose answer is what is stored.
ProfileInv ==
    veMounted =>
        /\ veBusy => \E r \in VoiceRequests : veRequest[r].op \in BusyOps(veClient)
        /\ ~veBlurred =>
              /\ \A r, q \in VoiceRequests : veRequest[r] # NoVoiceRequest /\ veRequest[q] # NoVoiceRequest => r = q
              /\ \A r \in VoiceRequests : veRequest[r].op # "none" /\ veRequest[r].at = "done" => veRequest[r].was = veServer
              /\ veEnrolled # "unknown" /\ (\A r \in VoiceRequests : veRequest[r] = NoVoiceRequest)
                    => veEnrolled = YesOrNo(veServer)

EnrollmentInv == EnrollmentTypes /\ DesktopTakesInv /\ WebTakesInv /\ ProfileInv

LEMMA EnrollmentFollows ==
    EnrollmentInv => EnrollmentTypeOK /\ EnrollmentMicCloses /\ SamplesFit /\ EnrollmentBusyEnds /\ EnrolledIsTrue
<1> SUFFICES ASSUME EnrollmentInv
             PROVE  EnrollmentTypeOK /\ EnrollmentMicCloses /\ SamplesFit /\ EnrollmentBusyEnds /\ EnrolledIsTrue
  OBVIOUS
<1>1. EnrollmentTypeOK
  <2>1. veSamples \in 0..MaxSamples
    BY EnrollmentAssumption DEF EnrollmentAssumption, EnrollmentInv, EnrollmentTypes
  <2> QED BY <2>1 DEF EnrollmentInv, EnrollmentTypes, EnrollmentTypeOK, TakeStates, VoiceRequestSet
<1>2. EnrollmentMicCloses
  BY DEF EnrollmentInv, EnrollmentTypes, DesktopTakesInv, WebTakesInv, EnrollmentMicCloses
<1>3. SamplesFit
  BY DEF EnrollmentInv, EnrollmentTypes, SamplesFit
<1>4. EnrollmentBusyEnds
  <2>1. ASSUME veMounted, veBusy PROVE \E r \in VoiceRequests : veRequest[r].op \in {"enroll", "remove"}
    BY <2>1 DEF EnrollmentInv, ProfileInv, BusyOps
  <2> QED BY <2>1 DEF EnrollmentInv, EnrollmentTypes, DesktopTakesInv, WebTakesInv, EnrollmentBusyEnds
<1>5. EnrolledIsTrue
  BY DEF EnrollmentInv, ProfileInv, EnrolledIsTrue
<1> QED BY <1>1, <1>2, <1>3, <1>4, <1>5

LEMMA RoomForSamples == MaxSamples \in Nat /\ Phrases \in Nat /\ Phrases <= MaxSamples /\ NoTake \notin Takes
BY EnrollmentAssumption DEF EnrollmentAssumption

LEMMA EnrollmentStart == EnrollmentInit => EnrollmentInv
<1> SUFFICES ASSUME EnrollmentInit PROVE EnrollmentInv
  OBVIOUS
<1>1. EnrollmentTypes
  <2>1. veSamples \in Nat /\ veSamples <= MaxSamples
    BY RoomForSamples DEF EnrollmentInit
  <2>2. veTake \in [Takes -> TakeStates] /\ veRequest \in [VoiceRequests -> VoiceRequestSet]
    BY DEF EnrollmentInit, TakeStates, VoiceRequestSet, NoVoiceRequest
  <2> QED BY <2>1, <2>2 DEF EnrollmentInit, EnrollmentTypes
<1>2. DesktopTakesInv
  BY RoomForSamples DEF EnrollmentInit, DesktopTakesInv
<1>3. WebTakesInv
  BY DEF EnrollmentInit, WebTakesInv
<1>4. ProfileInv
  BY DEF EnrollmentInit, ProfileInv
<1> QED BY <1>1, <1>2, <1>3, <1>4 DEF EnrollmentInv

LEMMA OpenPanelKeeps ==
    ASSUME EnrollmentInv, OpenPanel
    PROVE  EnrollmentInv'
<1>1. /\ UNCHANGED <<veClient, veServer>> /\ veMounted' = TRUE
      /\ veTake' = [t \in Takes |-> "idle"] /\ veLive' = {}
      /\ veLatest' = NoTake /\ veCurrent' = NoTake /\ veTimer' = NoTake
      /\ veAsking' = FALSE /\ veActive' = FALSE /\ veSamples' = 0 /\ veBusy' = FALSE
      /\ veCrossed' = FALSE /\ veBlurred' = FALSE
      /\ veClient \in {"desktop", "web"}
  BY DEF OpenPanel, PanelOpens, EnrollmentInv, EnrollmentTypes
<1>2. /\ veRequest' \in [VoiceRequests -> VoiceRequestSet]
      /\ veEnrolled' \in {"unknown", YesOrNo(veServer)}
      /\ \A r, q \in VoiceRequests : veRequest'[r] # NoVoiceRequest /\ veRequest'[q] # NoVoiceRequest => r = q
      /\ \A r \in VoiceRequests : veRequest'[r].at = "sent"
  <2>1. NoVoiceRequest \in VoiceRequestSet /\ NoVoiceRequest.at = "sent"
    BY DEF NoVoiceRequest, VoiceRequestSet
  <2>2. CASE veClient = "web"
    <3>1. veEnrolled' = YesOrNo(veServer) /\ veRequest' = [r \in VoiceRequests |-> NoVoiceRequest]
      BY <2>2 DEF OpenPanel, PanelOpens
    <3> QED BY <2>1, <3>1
  <2>3. CASE veClient = "desktop"
    <3> DEFINE read == [NoVoiceRequest EXCEPT !.op = "read"]
    <3>1. veEnrolled' = "unknown"
      BY <2>3 DEF OpenPanel, PanelOpens
    <3>2. PICK r \in VoiceRequests : veRequest' = [[q \in VoiceRequests |-> NoVoiceRequest] EXCEPT ![r].op = "read"]
      BY <2>3 DEF OpenPanel, PanelOpens
    <3>3. read \in VoiceRequestSet /\ read.at = "sent"
      BY DEF NoVoiceRequest, VoiceRequestSet
    <3>4. veRequest' = [q \in VoiceRequests |-> IF q = r THEN read ELSE NoVoiceRequest]
      BY <3>2
    <3> HIDE DEF read
    <3> QED BY <2>1, <3>1, <3>3, <3>4
  <2> QED BY <1>1, <2>2, <2>3
<1>3. YesOrNo(veServer) \in {"yes", "no"}
  BY DEF YesOrNo
<1>4. EnrollmentTypes'
  <2>1. veTake' \in [Takes -> TakeStates]
    BY <1>1 DEF TakeStates
  <2>2. veSamples' \in Nat /\ veSamples' <= MaxSamples
    BY <1>1, RoomForSamples
  <2> QED BY <1>1, <1>2, <1>3, <2>1, <2>2 DEF EnrollmentInv, EnrollmentTypes
<1>5. DesktopTakesInv' /\ WebTakesInv'
  BY <1>1, RoomForSamples DEF DesktopTakesInv, WebTakesInv
<1>6. ProfileInv'
  BY <1>1, <1>2, <1>3 DEF ProfileInv
<1> QED BY <1>4, <1>5, <1>6 DEF EnrollmentInv

\* Takes and samples are no matter of the profile, and it is none of theirs.
LEMMA ProfileStays ==
    ASSUME EnrollmentInv, UNCHANGED <<veClient, veProfile>>, veMounted' => veMounted
    PROVE  /\ ProfileInv'
           /\ UNCHANGED <<veServer, veEnrolled, veBusy, veRequest, veBlurred>>
BY DEF veProfile, EnrollmentInv, ProfileInv

LEMMA TakesStay ==
    ASSUME EnrollmentInv, UNCHANGED <<veClient, veMounted, veCapture>>,
           veSamples' \in Nat, veSamples' <= veSamples,
           veServer' \in BOOLEAN, veEnrolled' \in {"unknown", "yes", "no"}, veBusy' \in BOOLEAN,
           veRequest' \in [VoiceRequests -> VoiceRequestSet], veBlurred' \in BOOLEAN
    PROVE  EnrollmentTypes' /\ DesktopTakesInv' /\ WebTakesInv'
<1>1. UNCHANGED <<veTake, veLive, veLatest, veCurrent, veTimer, veAsking, veActive, veCrossed>>
  BY DEF veCapture, veRefs, veFlags
<1>2. veSamples \in Nat /\ veSamples <= MaxSamples /\ MaxSamples \in Nat
  BY RoomForSamples DEF EnrollmentInv, EnrollmentTypes
<1>3. veSamples' <= MaxSamples /\ (veSamples < MaxSamples => veSamples' < MaxSamples)
  BY <1>2
<1>4. EnrollmentTypes'
  BY <1>1, <1>3 DEF EnrollmentInv, EnrollmentTypes
<1>5. DesktopTakesInv' /\ WebTakesInv'
  BY <1>1, <1>3 DEF EnrollmentInv, DesktopTakesInv, WebTakesInv
<1> QED BY <1>4, <1>5

\* The desktop: a take.
LEMMA StartRecordingKeeps ==
    ASSUME EnrollmentInv, NEW t \in Takes, StartRecording(t)
    PROVE  EnrollmentInv'
<1>1. /\ UNCHANGED <<veClient, veMounted, veLive, veCurrent, veTimer, veActive, veCrossed, veSamples, veProfile>>
      /\ veClient = "desktop" /\ ~veActive /\ ~veAsking /\ veSamples < MaxSamples
      /\ veTake' = [veTake EXCEPT ![t] = "asking"] /\ veLatest' = t /\ veAsking' = TRUE
  BY DEF StartRecording
<1>2. ProfileInv' /\ UNCHANGED <<veServer, veEnrolled, veBusy, veRequest, veBlurred>>
  BY <1>1, ProfileStays
<1>3. veTake' \in [Takes -> TakeStates] /\ veTake'[t] = "asking"
  BY <1>1 DEF EnrollmentInv, EnrollmentTypes, TakeStates
<1>4. EnrollmentTypes'
  BY <1>1, <1>2, <1>3 DEF EnrollmentInv, EnrollmentTypes
<1>5. DesktopTakesInv'
  BY <1>1, <1>3 DEF EnrollmentInv, DesktopTakesInv
<1>6. WebTakesInv'
  BY <1>1 DEF WebTakesInv
<1> QED BY <1>2, <1>4, <1>5, <1>6 DEF EnrollmentInv

LEMMA RecordingStartsKeeps ==
    ASSUME EnrollmentInv, NEW t \in Takes, RecordingStarts(t)
    PROVE  EnrollmentInv'
<1>1. /\ UNCHANGED <<veClient, veMounted, veLatest, veTimer, veCrossed, veSamples, veProfile>>
      /\ veClient = "desktop" /\ veTake[t] = "asking"
  BY DEF RecordingStarts
<1>2. ProfileInv' /\ UNCHANGED <<veServer, veEnrolled, veBusy, veRequest, veBlurred>>
  BY <1>1, ProfileStays
<1>3. WebTakesInv'
  BY <1>1 DEF WebTakesInv
<1>4. veTake \in [Takes -> TakeStates]
  BY DEF EnrollmentInv, EnrollmentTypes
<1>5. CASE Counts(t)
  <2>1. /\ veTake' = [veTake EXCEPT ![t] = "recording"] /\ veLive' = veLive \cup {t}
        /\ veCurrent' = t /\ veActive' = TRUE /\ veAsking' = FALSE
        /\ t = veLatest /\ veMounted
    BY <1>5 DEF RecordingStarts, Counts
  <2>2. veLive = {}
    BY <1>1, <2>1 DEF EnrollmentInv, DesktopTakesInv
  <2>3. veTake' \in [Takes -> TakeStates] /\ veTake'[t] = "recording"
    BY <1>4, <2>1 DEF TakeStates
  <2>4. EnrollmentTypes'
    BY <1>1, <1>2, <2>1, <2>2, <2>3 DEF EnrollmentInv, EnrollmentTypes
  <2>5. veSamples < MaxSamples
    BY <1>1, <2>1 DEF EnrollmentInv, DesktopTakesInv
  <2>6. DesktopTakesInv'
    BY <1>1, <2>1, <2>2, <2>3, <2>5 DEF DesktopTakesInv
  <2> QED BY <1>2, <1>3, <2>4, <2>6 DEF EnrollmentInv
<1>6. CASE ~Counts(t)
  <2>1. veTake' = [veTake EXCEPT ![t] = "idle"] /\ UNCHANGED <<veLive, veCurrent, veAsking, veActive>>
    BY <1>6 DEF RecordingStarts, veFlags
  <2>2. veTake' \in [Takes -> TakeStates] /\ veTake'[t] = "idle" /\ \A u \in Takes \ {t} : veTake'[u] = veTake[u]
    BY <1>4, <2>1 DEF TakeStates
  <2>3. EnrollmentTypes'
    BY <1>1, <1>2, <2>1, <2>2 DEF EnrollmentInv, EnrollmentTypes
  <2>4. DesktopTakesInv'
    BY <1>1, <1>6, <2>1, <2>2 DEF EnrollmentInv, DesktopTakesInv, Counts
  <2> QED BY <1>2, <1>3, <2>3, <2>4 DEF EnrollmentInv
<1> QED BY <1>5, <1>6

LEMMA RecordingDeniedKeeps ==
    ASSUME EnrollmentInv, NEW t \in Takes, RecordingDenied(t)
    PROVE  EnrollmentInv'
<1>1. /\ UNCHANGED <<veClient, veMounted, veLive, veLatest, veCurrent, veTimer, veActive, veCrossed, veSamples, veProfile>>
      /\ veClient = "desktop" /\ veTake[t] = "asking"
      /\ veTake' = [veTake EXCEPT ![t] = "idle"]
  BY DEF RecordingDenied, veRefs
<1>2. veAsking' \in BOOLEAN /\ (veAsking' => veAsking /\ ~Counts(t))
  BY Zenon DEF RecordingDenied, EnrollmentInv, EnrollmentTypes
<1>3. ProfileInv' /\ UNCHANGED <<veServer, veEnrolled, veBusy, veRequest, veBlurred>>
  BY <1>1, ProfileStays
<1>4. WebTakesInv'
  BY <1>1 DEF WebTakesInv
<1>5. veTake' \in [Takes -> TakeStates] /\ veTake'[t] = "idle" /\ \A u \in Takes \ {t} : veTake'[u] = veTake[u]
  BY <1>1 DEF EnrollmentInv, EnrollmentTypes, TakeStates
<1>6. EnrollmentTypes'
  BY <1>1, <1>2, <1>3, <1>5 DEF EnrollmentInv, EnrollmentTypes
<1>7. DesktopTakesInv'
  BY <1>1, <1>2, <1>5 DEF EnrollmentInv, DesktopTakesInv, Counts
<1> QED BY <1>3, <1>4, <1>6, <1>7 DEF EnrollmentInv

\* The stream of the current take closes.
LEMMA DesktopStopsKeeps ==
    ASSUME EnrollmentInv, veClient = "desktop", veTake' = Stopped(veTake), veLive' = veLive \ {veCurrent},
           UNCHANGED <<veClient, veLatest, veCurrent, veTimer, veAsking, veCrossed, veSamples, veProfile>>,
           veMounted' \in BOOLEAN, veActive' \in BOOLEAN, veMounted' => veMounted /\ ~veActive'
    PROVE  EnrollmentInv'
<1>1. ProfileInv' /\ UNCHANGED <<veServer, veEnrolled, veBusy, veRequest, veBlurred>>
  BY ProfileStays
<1>2. WebTakesInv'
  BY DEF WebTakesInv
<1>3. /\ veTake' \in [Takes -> TakeStates]
      /\ \A u \in Takes : veTake'[u] = veTake[u] \/ (veTake[u] = "recording" /\ veTake'[u] = "stopped")
  BY DEF Stopped, EnrollmentInv, EnrollmentTypes, TakeStates
<1>4. EnrollmentTypes'
  BY <1>1, <1>3 DEF EnrollmentInv, EnrollmentTypes
<1>5. veLive' = {}
  BY DEF EnrollmentInv, DesktopTakesInv
<1>6. DesktopTakesInv'
  BY <1>3, <1>5 DEF EnrollmentInv, DesktopTakesInv
<1> QED BY <1>1, <1>2, <1>4, <1>6 DEF EnrollmentInv

LEMMA DesktopTranscodedKeeps ==
    ASSUME EnrollmentInv, NEW t \in Takes, NEW usable \in BOOLEAN, DesktopTranscoded(t, usable)
    PROVE  EnrollmentInv'
<1>1. /\ UNCHANGED <<veClient, veMounted, veLive, veLatest, veCurrent, veTimer, veAsking, veActive, veCrossed, veProfile>>
      /\ veClient = "desktop" /\ veTake[t] = "stopped"
      /\ veTake' = [veTake EXCEPT ![t] = "idle"]
  BY DEF DesktopTranscoded, veRefs, veFlags
<1>2. UNCHANGED veSamples \/ (veSamples' = veSamples + 1 /\ t = veLatest)
  BY DEF DesktopTranscoded, Counts
<1>3. ProfileInv' /\ UNCHANGED <<veServer, veEnrolled, veBusy, veRequest, veBlurred>>
  BY <1>1, ProfileStays
<1>4. WebTakesInv'
  BY <1>1 DEF WebTakesInv
<1>5. veTake' \in [Takes -> TakeStates] /\ veTake'[t] = "idle" /\ \A u \in Takes \ {t} : veTake'[u] = veTake[u]
  BY <1>1 DEF EnrollmentInv, EnrollmentTypes, TakeStates
<1>6. t = veLatest => veSamples < MaxSamples
  BY <1>1 DEF EnrollmentInv, DesktopTakesInv
<1>7. veSamples' \in Nat /\ veSamples' <= MaxSamples
  <2>1. veSamples \in Nat /\ veSamples <= MaxSamples
    BY DEF EnrollmentInv, EnrollmentTypes
  <2> QED BY <1>2, <1>6, <2>1, RoomForSamples
<1>8. EnrollmentTypes'
  BY <1>1, <1>3, <1>5, <1>7 DEF EnrollmentInv, EnrollmentTypes
<1>9. DesktopTakesInv'
  BY <1>1, <1>2, <1>5 DEF EnrollmentInv, DesktopTakesInv
<1> QED BY <1>3, <1>4, <1>8, <1>9 DEF EnrollmentInv

LEMMA DesktopPanelKeeps ==
    ASSUME EnrollmentInv, StopRecording \/ RemoveSample \/ (LeavePanel /\ veClient = "desktop")
    PROVE  EnrollmentInv'
<1>1. CASE StopRecording
  BY <1>1, DesktopStopsKeeps DEF StopRecording, veRefs, EnrollmentInv, EnrollmentTypes
<1>2. CASE LeavePanel /\ veClient = "desktop"
  BY <1>2, DesktopStopsKeeps DEF LeavePanel, ClosePanel, DesktopUnmounts, veRefs, veFlags, EnrollmentInv, EnrollmentTypes
<1>3. CASE RemoveSample
  <2>1. /\ UNCHANGED <<veClient, veMounted, veCapture, veProfile>>
        /\ veSamples > 0 /\ veSamples' = veSamples - 1
    BY <1>3 DEF RemoveSample
  <2>2. ProfileInv' /\ UNCHANGED <<veServer, veEnrolled, veBusy, veRequest, veBlurred>>
    BY <2>1, ProfileStays
  <2>3. veSamples \in Nat
    BY DEF EnrollmentInv, EnrollmentTypes
  <2>4. veSamples' \in Nat /\ veSamples' <= veSamples
    BY <2>1, <2>3
  <2>5. /\ veServer' \in BOOLEAN /\ veEnrolled' \in {"unknown", "yes", "no"} /\ veBusy' \in BOOLEAN
        /\ veRequest' \in [VoiceRequests -> VoiceRequestSet] /\ veBlurred' \in BOOLEAN
    BY <2>2 DEF EnrollmentInv, EnrollmentTypes
  <2> QED BY <2>1, <2>2, <2>4, <2>5, TakesStay DEF EnrollmentInv
<1> QED BY <1>1, <1>2, <1>3

\* The web client: a take.
LEMMA WebCleansKeeps ==
    ASSUME EnrollmentInv, veClient = "web", NEW T \in [Takes -> TakeStates], CleanupCapture(T),
           \A t \in Takes : T[t] = veTake[t] \/ T[t] = "idle",
           UNCHANGED <<veClient, veAsking, veCrossed>>,
           veMounted' \in BOOLEAN, veActive' \in BOOLEAN, ~(veMounted' /\ veActive'),
           veSamples' \in Nat, veSamples' <= MaxSamples,
           veServer' \in BOOLEAN, veEnrolled' \in {"unknown", "yes", "no"}, veBusy' \in BOOLEAN,
           veRequest' \in [VoiceRequests -> VoiceRequestSet], veBlurred' \in BOOLEAN
    PROVE  EnrollmentTypes' /\ DesktopTakesInv' /\ WebTakesInv'
<1>1. /\ veLive' = veLive \ {veCurrent} /\ veCurrent' = NoTake /\ veTimer' = NoTake /\ UNCHANGED veLatest
      /\ veTake' = [t \in Takes |->
                      CASE T[t] = "countdown" /\ t = veCurrent                -> "idle"
                        [] T[t] = "recording" /\ t = veCurrent                -> "stopped"
                        [] T[t] = "recording" /\ t # veCurrent /\ t = veTimer -> "adrift"
                        [] T[t] = "adrift" /\ t = veCurrent                   -> "idle"
                        [] OTHER                                              -> T[t]]
  BY DEF CleanupCapture
<1>2. ASSUME NEW t \in Takes
      PROVE  /\ veTake'[t] \in TakeStates
             /\ T[t] = "idle" => veTake'[t] = "idle"
             /\ T[t] # "adrift" /\ (T[t] \in {"countdown", "recording"} => t = veCurrent)
                   => veTake'[t] \in {"idle", "asking", "stopped"}
  <2>1. T[t] \in TakeStates
    OBVIOUS
  <2> QED BY <1>1, <2>1 DEF TakeStates
<1>3. veTake' \in [Takes -> TakeStates]
  BY <1>1, <1>2
<1>4. EnrollmentTypes'
  BY <1>1, <1>3 DEF EnrollmentInv, EnrollmentTypes
<1>5. DesktopTakesInv'
  BY DEF DesktopTakesInv
<1>6. ASSUME ~veCrossed'
      PROVE  /\ veLive' = {}
             /\ \A t \in Takes : veTake'[t] \in {"idle", "asking", "stopped"}
             /\ \A t, u \in Takes : veTake'[t] # "idle" /\ veTake'[u] # "idle" => t = u
  <2>1. /\ \A t \in veLive : t = veCurrent
        /\ \A t \in Takes : veTake[t] # "adrift" /\ (veTake[t] \in {"countdown", "recording"} => t = veCurrent)
        /\ \A t, u \in Takes : veTake[t] # "idle" /\ veTake[u] # "idle" => t = u
    BY <1>6 DEF EnrollmentInv, WebTakesInv
  <2>2. veLive' = {}
    BY <1>1, <2>1
  <2>3. \A t \in Takes : veTake'[t] \in {"idle", "asking", "stopped"} /\ (veTake'[t] # "idle" => veTake[t] # "idle")
    BY <1>2, <2>1
  <2> QED BY <2>1, <2>2, <2>3
<1>7. WebTakesInv'
  BY <1>6 DEF EnrollmentInv, WebTakesInv
<1> QED BY <1>4, <1>5, <1>7

LEMMA WebTakeKeeps ==
    ASSUME EnrollmentInv, NEW t \in Takes,
           Record(t) \/ CountdownStarts(t) \/ StartRecorder(t) \/ RecorderTimesOut(t)
    PROVE  EnrollmentInv'
<1>1. /\ UNCHANGED <<veClient, veMounted, veLatest, veAsking, veSamples, veProfile>> /\ veClient = "web"
      /\ veTake \in [Takes -> TakeStates]
  BY DEF Record, CountdownStarts, StartRecorder, RecorderTimesOut, veRefs, veFlags, EnrollmentInv, EnrollmentTypes
<1>2. ProfileInv' /\ UNCHANGED <<veServer, veEnrolled, veBusy, veRequest, veBlurred>>
  BY <1>1, ProfileStays
<1>3. DesktopTakesInv'
  BY <1>1 DEF DesktopTakesInv
<1>4. CASE Record(t)
  <2>1. /\ UNCHANGED <<veLive, veCurrent, veTimer, veActive>> /\ veTake[t] = "idle" /\ ~veActive
        /\ veTake' = [veTake EXCEPT ![t] = "asking"]
    BY <1>4 DEF Record, veRefs, veFlags
  <2>2. veCrossed' \in BOOLEAN /\ (~veCrossed' => ~veCrossed /\ \A u \in Takes : veTake[u] = "idle")
    BY <1>4, Zenon DEF Record, EnrollmentInv, EnrollmentTypes
  <2>3. veTake' \in [Takes -> TakeStates] /\ veTake'[t] = "asking" /\ \A u \in Takes \ {t} : veTake'[u] = veTake[u]
    BY <1>1, <2>1 DEF TakeStates
  <2>4. EnrollmentTypes'
    BY <1>1, <1>2, <2>1, <2>2, <2>3 DEF EnrollmentInv, EnrollmentTypes
  <2>5. WebTakesInv'
    BY <1>1, <2>1, <2>2, <2>3 DEF EnrollmentInv, EnrollmentTypes, WebTakesInv
  <2> QED BY <1>2, <1>3, <2>4, <2>5 DEF EnrollmentInv
<1>5. CASE CountdownStarts(t)
  <2>1. /\ UNCHANGED <<veTimer, veCrossed>> /\ veTake[t] = "asking"
        /\ veTake' = [veTake EXCEPT ![t] = "countdown"] /\ veLive' = veLive \cup {t} /\ veCurrent' = t /\ veActive' = TRUE
    BY <1>5 DEF CountdownStarts
  <2>2. veTake' \in [Takes -> TakeStates] /\ veTake'[t] = "countdown" /\ \A u \in Takes \ {t} : veTake'[u] = veTake[u]
    BY <1>1, <2>1 DEF TakeStates
  <2>3. EnrollmentTypes'
    BY <1>1, <1>2, <2>1, <2>2 DEF EnrollmentInv, EnrollmentTypes
  <2>4. ~veCrossed => veLive = {} /\ \A u \in Takes \ {t} : veTake[u] = "idle"
    BY <1>1, <2>1 DEF EnrollmentInv, EnrollmentTypes, WebTakesInv
  <2>5. WebTakesInv'
    BY <1>1, <2>1, <2>2, <2>4 DEF EnrollmentInv, WebTakesInv
  <2> QED BY <1>2, <1>3, <2>3, <2>5 DEF EnrollmentInv
<1>6. CASE StartRecorder(t)
  <2>1. /\ UNCHANGED <<veLive, veCurrent, veActive, veCrossed>> /\ veTake[t] = "countdown" /\ veTimer' = t
        /\ veTake' = [u \in Takes |-> IF u = t THEN "recording"
                                      ELSE IF u = veCurrent /\ veTake[u] = "countdown" THEN "adrift"
                                      ELSE veTake[u]]
    BY <1>6 DEF StartRecorder, veFlags
  <2>2. veTake' \in [Takes -> TakeStates] /\ veTake'[t] = "recording"
    BY <1>1, <2>1 DEF TakeStates
  <2>3. EnrollmentTypes'
    BY <1>1, <1>2, <2>1, <2>2 DEF EnrollmentInv, EnrollmentTypes
  <2>4. ~veCrossed => \A u \in Takes \ {t} : veTake[u] = "idle" /\ veTake'[u] = "idle"
    BY <1>1, <2>1 DEF EnrollmentInv, WebTakesInv
  <2>5. ~veCrossed => \A u \in veLive : u = t /\ u = veCurrent
    BY <1>1, <2>1, <2>4 DEF EnrollmentInv, EnrollmentTypes, WebTakesInv
  <2>6. ~veCrossed => t = veCurrent
    BY <1>1, <2>1 DEF EnrollmentInv, WebTakesInv
  <2>7. WebTakesInv'
    BY <1>1, <2>1, <2>2, <2>4, <2>5, <2>6 DEF EnrollmentInv, WebTakesInv
  <2> QED BY <1>2, <1>3, <2>3, <2>7 DEF EnrollmentInv
<1>7. CASE RecorderTimesOut(t)
  <2>1. /\ UNCHANGED <<veLive, veCurrent, veTimer, veActive, veCrossed>> /\ veTake[t] = "recording"
        /\ veTake' = [veTake EXCEPT ![t] = "stopped"]
    BY <1>7 DEF RecorderTimesOut, veFlags, veRefs
  <2>2. veTake' \in [Takes -> TakeStates] /\ veTake'[t] = "stopped" /\ \A u \in Takes \ {t} : veTake'[u] = veTake[u]
    BY <1>1, <2>1 DEF TakeStates
  <2>3. EnrollmentTypes'
    BY <1>1, <1>2, <2>1, <2>2 DEF EnrollmentInv, EnrollmentTypes
  <2>4. WebTakesInv'
    BY <1>1, <2>1, <2>2 DEF EnrollmentInv, EnrollmentTypes, WebTakesInv
  <2> QED BY <1>2, <1>3, <2>3, <2>4 DEF EnrollmentInv
<1> QED BY <1>4, <1>5, <1>6, <1>7

LEMMA WebTakeEndsKeeps ==
    ASSUME EnrollmentInv, NEW t \in Takes, CountdownDenied(t) \/ \E usable \in BOOLEAN : WebTranscoded(t, usable)
    PROVE  EnrollmentInv'
<1> DEFINE T == [veTake EXCEPT ![t] = "idle"]
<1>1. /\ UNCHANGED <<veClient, veMounted, veAsking, veCrossed, veProfile>> /\ veClient = "web"
      /\ CleanupCapture(T) /\ veActive' = FALSE
  BY DEF CountdownDenied, WebTranscoded
<1>2. T \in [Takes -> TakeStates] /\ \A u \in Takes : T[u] = veTake[u] \/ T[u] = "idle"
  BY DEF EnrollmentInv, EnrollmentTypes, TakeStates
<1> HIDE DEF T
<1>3. veSamples' \in Nat /\ veSamples' <= MaxSamples
  <2>1. veSamples \in Nat /\ veSamples <= MaxSamples
    BY DEF EnrollmentInv, EnrollmentTypes
  <2>2. veSamples' = veSamples \/ veSamples' \in 1..Phrases
    BY DEF CountdownDenied, WebTranscoded
  <2> QED BY <2>1, <2>2, RoomForSamples
<1>4. ProfileInv' /\ UNCHANGED <<veServer, veEnrolled, veBusy, veRequest, veBlurred>>
  BY <1>1, ProfileStays
<1>5. /\ veServer' \in BOOLEAN /\ veEnrolled' \in {"unknown", "yes", "no"} /\ veBusy' \in BOOLEAN
      /\ veRequest' \in [VoiceRequests -> VoiceRequestSet] /\ veBlurred' \in BOOLEAN /\ veMounted' \in BOOLEAN
  BY <1>1, <1>4 DEF EnrollmentInv, EnrollmentTypes
<1> QED BY <1>1, <1>2, <1>3, <1>4, <1>5, WebCleansKeeps DEF EnrollmentInv

LEMMA WebLeavesKeeps ==
    ASSUME EnrollmentInv, LeavePanel, veClient = "web"
    PROVE  EnrollmentInv'
<1>1. /\ UNCHANGED <<veClient, veAsking, veActive, veCrossed, veSamples, veProfile>>
      /\ CleanupCapture(veTake) /\ veMounted' = FALSE
  BY DEF LeavePanel, ClosePanel, veFlags
<1>2. ProfileInv' /\ UNCHANGED <<veServer, veEnrolled, veBusy, veRequest, veBlurred>>
  BY <1>1, ProfileStays
<1>3. /\ veServer' \in BOOLEAN /\ veEnrolled' \in {"unknown", "yes", "no"} /\ veBusy' \in BOOLEAN
      /\ veRequest' \in [VoiceRequests -> VoiceRequestSet] /\ veBlurred' \in BOOLEAN
      /\ veActive' \in BOOLEAN /\ veSamples' \in Nat /\ veSamples' <= MaxSamples
      /\ veTake \in [Takes -> TakeStates]
  BY <1>1, <1>2 DEF EnrollmentInv, EnrollmentTypes
<1> QED BY <1>1, <1>2, <1>3, WebCleansKeeps DEF EnrollmentInv

\* The profile.
LEMMA ProfileAskedKeeps ==
    ASSUME EnrollmentInv, NEW r \in VoiceRequests, Upload(r) \/ RemoveProfile(r)
    PROVE  EnrollmentInv'
<1>1. /\ UNCHANGED <<veClient, veMounted, veCapture, veSamples, veServer, veEnrolled>> /\ veMounted
      /\ veServer \in BOOLEAN /\ veEnrolled \in {"unknown", "yes", "no"} /\ veRequest \in [VoiceRequests -> VoiceRequestSet]
      /\ veSamples \in Nat
  BY DEF Upload, RemoveProfile, EnrollmentInv, EnrollmentTypes
<1>2. PICK op \in {"enroll", "remove"} :
         /\ ProfileAsked(r, op)
         /\ op = "enroll" => veBusy' = TRUE
         /\ op = "remove" => veBusy' = (veBusy \/ veClient = "web")
  BY DEF Upload, RemoveProfile
<1> DEFINE request == [NoVoiceRequest EXCEPT !.op = op]
<1>3. request \in VoiceRequestSet /\ request.op = op /\ request.at = "sent"
  BY DEF NoVoiceRequest, VoiceRequestSet
<1>4. veRequest[r] = NoVoiceRequest /\ veRequest' = [veRequest EXCEPT ![r] = request]
  BY <1>2 DEF ProfileAsked
<1> HIDE DEF request
<1>5. /\ veRequest' \in [VoiceRequests -> VoiceRequestSet] /\ veRequest'[r] = request
      /\ \A q \in VoiceRequests \ {r} : veRequest'[q] = veRequest[q]
  BY <1>1, <1>3, <1>4
<1>6. veBlurred' \in BOOLEAN /\ (~veBlurred' => ~veBlurred /\ \A q \in VoiceRequests : veRequest[q] = NoVoiceRequest)
  BY <1>2, Zenon DEF ProfileAsked, EnrollmentInv, EnrollmentTypes
<1>7. veBusy' \in BOOLEAN /\ (veBusy' => veBusy \/ op \in BusyOps(veClient))
  <2>1. veBusy \in BOOLEAN /\ veClient \in {"desktop", "web"}
    BY DEF EnrollmentInv, EnrollmentTypes
  <2>2. CASE op = "enroll"
    BY <1>2, <2>2 DEF BusyOps
  <2>3. CASE op = "remove" /\ veClient = "web"
    <3>1. veBusy' = TRUE
      BY <1>2, <2>3, Zenon
    <3> QED BY <2>3, <3>1 DEF BusyOps
  <2>4. CASE op = "remove" /\ veClient # "web"
    <3>1. veBusy' = veBusy
      BY <1>2, <2>1, <2>4, Zenon
    <3> QED BY <2>1, <3>1
  <2> QED BY <2>2, <2>3, <2>4
<1>8. EnrollmentTypes' /\ DesktopTakesInv' /\ WebTakesInv'
  BY <1>1, <1>5, <1>6, <1>7, TakesStay
<1>9. ProfileInv'
  <2>1. veBusy' => \E q \in VoiceRequests : veRequest'[q].op \in BusyOps(veClient)
    <3>1. NoVoiceRequest.op \notin BusyOps(veClient)
      BY DEF NoVoiceRequest, BusyOps
    <3> QED BY <1>1, <1>3, <1>4, <1>5, <1>7, <3>1 DEF EnrollmentInv, ProfileInv
  <2>2. ASSUME ~veBlurred'
        PROVE  /\ \A q \in VoiceRequests \ {r} : veRequest'[q] = NoVoiceRequest
               /\ veRequest'[r] # NoVoiceRequest /\ veRequest'[r].at = "sent"
    <3>1. NoVoiceRequest.op = "none"
      BY DEF NoVoiceRequest
    <3> QED BY <1>3, <1>5, <1>6, <2>2, <3>1
  <2>3. NoVoiceRequest.op = "none"
    BY DEF NoVoiceRequest
  <2> QED BY <1>1, <2>1, <2>2, <2>3 DEF ProfileInv
<1> QED BY <1>8, <1>9 DEF EnrollmentInv

LEMMA ProfileHandlesKeeps ==
    ASSUME EnrollmentInv, NEW r \in VoiceRequests, NEW applies \in BOOLEAN, NEW answers \in BOOLEAN,
           ProfileHandles(r, applies, answers)
    PROVE  EnrollmentInv'
<1>1. /\ UNCHANGED <<veClient, veMounted, veCapture, veSamples, veEnrolled, veBusy, veBlurred>>
      /\ veRequest[r].op # "none"
      /\ veSamples \in Nat /\ veEnrolled \in {"unknown", "yes", "no"} /\ veBusy \in BOOLEAN /\ veBlurred \in BOOLEAN
      /\ veRequest \in [VoiceRequests -> VoiceRequestSet]
  BY DEF ProfileHandles, EnrollmentInv, EnrollmentTypes
<1>2. veServer' \in BOOLEAN
  <2>1. CASE ~applies \/ veRequest[r].op = "read"
    BY <2>1 DEF ProfileHandles, EnrollmentInv, EnrollmentTypes
  <2>2. CASE ~(~applies \/ veRequest[r].op = "read") /\ veRequest[r].op = "enroll"
    <3>1. veServer' = TRUE
      BY <2>2, Zenon DEF ProfileHandles
    <3> QED BY <3>1
  <2>3. CASE ~(~applies \/ veRequest[r].op = "read") /\ veRequest[r].op # "enroll"
    <3>1. veServer' = FALSE
      BY <2>3, Zenon DEF ProfileHandles
    <3> QED BY <3>1
  <2> QED BY <2>1, <2>2, <2>3
<1> DEFINE at == IF answers THEN "done" ELSE "failed"
           handled == [veRequest[r] EXCEPT !.at = at, !.was = veServer']
<1>3. veRequest' = [veRequest EXCEPT ![r] = handled]
  <2>1. veRequest' = [veRequest EXCEPT ![r].at = at, ![r].was = veServer']
    BY DEF ProfileHandles
  <2>2. [veRequest EXCEPT ![r].at = at, ![r].was = veServer'] = [veRequest EXCEPT ![r] = handled]
    BY <1>1
  <2> QED BY <2>1, <2>2
<1>4. handled \in VoiceRequestSet /\ handled.op = veRequest[r].op /\ handled.was = veServer'
  BY <1>1, <1>2 DEF VoiceRequestSet
<1> HIDE DEF handled
<1>5. /\ veRequest' \in [VoiceRequests -> VoiceRequestSet] /\ veRequest'[r] = handled
      /\ \A q \in VoiceRequests \ {r} : veRequest'[q] = veRequest[q]
  BY <1>1, <1>3, <1>4
<1>6. NoVoiceRequest.op = "none"
  BY DEF NoVoiceRequest
<1>7. EnrollmentTypes' /\ DesktopTakesInv' /\ WebTakesInv'
  BY <1>1, <1>2, <1>5, TakesStay
<1>8. ASSUME veMounted'
      PROVE  /\ veBusy' => \E q \in VoiceRequests : veRequest'[q].op \in BusyOps(veClient)
             /\ ~veBlurred' =>
                   /\ \A q \in VoiceRequests \ {r} : veRequest'[q] = NoVoiceRequest
                   /\ veRequest'[r].was = veServer' /\ veRequest'[r] # NoVoiceRequest
  <2>1. veBusy' => \E q \in VoiceRequests : veRequest'[q].op \in BusyOps(veClient)
    BY <1>1, <1>4, <1>5, <1>8 DEF EnrollmentInv, ProfileInv
  <2>2. ASSUME ~veBlurred' PROVE \A q \in VoiceRequests \ {r} : veRequest'[q] = NoVoiceRequest
    BY <1>1, <1>5, <1>6, <1>8, <2>2 DEF EnrollmentInv, ProfileInv
  <2> QED BY <1>1, <1>4, <1>5, <1>6, <2>1, <2>2
<1>9. ProfileInv'
  <2>1. veClient' = veClient
    BY <1>1
  <2> QED BY <1>6, <1>8, <2>1 DEF ProfileInv
<1> QED BY <1>7, <1>9 DEF EnrollmentInv

\* A request whose answer is taken is over.
LEMMA ProfileRequestEnds ==
    ASSUME EnrollmentInv, NEW r \in VoiceRequests, RequestOver(r)
    PROVE  /\ veRequest' \in [VoiceRequests -> VoiceRequestSet] /\ veRequest'[r] = NoVoiceRequest
           /\ \A q \in VoiceRequests \ {r} : veRequest'[q] = veRequest[q]
           /\ NoVoiceRequest.op = "none"
<1>1. NoVoiceRequest \in VoiceRequestSet /\ NoVoiceRequest.op = "none"
  BY DEF NoVoiceRequest, VoiceRequestSet
<1> QED BY <1>1 DEF RequestOver, EnrollmentInv, EnrollmentTypes

LEMMA DesktopProfileAnsweredKeeps ==
    ASSUME EnrollmentInv, NEW r \in VoiceRequests, DesktopProfileAnswered(r)
    PROVE  EnrollmentInv'
<1> DEFINE request == veRequest[r]
           done    == request.at = "done"
<1>1. /\ UNCHANGED <<veClient, veMounted, veCapture, veServer>>
      /\ veClient = "desktop" /\ request.op # "none" /\ RequestOver(r)
      /\ veSamples \in Nat /\ veEnrolled \in {"unknown", "yes", "no"} /\ veBusy \in BOOLEAN /\ veBlurred \in BOOLEAN
      /\ veServer \in BOOLEAN
  BY DEF DesktopProfileAnswered, EnrollmentInv, EnrollmentTypes
<1>2. /\ veRequest' \in [VoiceRequests -> VoiceRequestSet] /\ veRequest'[r] = NoVoiceRequest
      /\ \A q \in VoiceRequests \ {r} : veRequest'[q] = veRequest[q]
      /\ NoVoiceRequest.op = "none"
  BY <1>1, ProfileRequestEnds
<1>3. CASE ~veMounted
  <2>1. UNCHANGED <<veEnrolled, veSamples, veBusy, veBlurred>>
    BY <1>3 DEF DesktopProfileAnswered
  <2>2. EnrollmentTypes' /\ DesktopTakesInv' /\ WebTakesInv'
    BY <1>1, <1>2, <2>1, TakesStay
  <2>3. ProfileInv'
    BY <1>1, <1>3 DEF ProfileInv
  <2> QED BY <2>2, <2>3 DEF EnrollmentInv
<1>4. CASE veMounted
  <2>1. /\ veEnrolled' = IF done THEN YesOrNo(request.was)
                         ELSE IF request.op = "read" THEN "unknown" ELSE veEnrolled
        /\ veSamples' = IF done /\ request.op = "enroll" THEN 0 ELSE veSamples
    BY <1>4 DEF DesktopProfileAnswered
  <2>2. veBusy' \in BOOLEAN /\ (veBusy' => veBusy /\ request.op # "enroll")
    BY <1>1, <1>4, Zenon DEF DesktopProfileAnswered
  <2>3. veBlurred' \in BOOLEAN /\ (~veBlurred' => ~veBlurred /\ done)
    BY <1>1, <1>4, Zenon DEF DesktopProfileAnswered
  <2>4. veEnrolled' \in {"unknown", "yes", "no"} /\ veSamples' \in Nat /\ veSamples' <= veSamples
    BY <1>1, <2>1 DEF YesOrNo
  <2>5. EnrollmentTypes' /\ DesktopTakesInv' /\ WebTakesInv'
    BY <1>1, <1>2, <2>2, <2>3, <2>4, TakesStay
  <2>6. veBusy' => \E q \in VoiceRequests : veRequest'[q].op \in BusyOps(veClient)
    <3>1. ASSUME veBusy' PROVE \E q \in VoiceRequests : veRequest[q].op = "enroll"
      BY <1>1, <1>4, <2>2, <3>1 DEF EnrollmentInv, ProfileInv, BusyOps
    <3> QED BY <1>1, <1>2, <2>2, <3>1 DEF BusyOps
  <2>7. ASSUME ~veBlurred'
        PROVE  (\A q \in VoiceRequests : veRequest'[q] = NoVoiceRequest) /\ veEnrolled' = YesOrNo(veServer)
    BY <1>1, <1>2, <1>4, <2>1, <2>3, <2>7 DEF EnrollmentInv, ProfileInv
  <2>8. ProfileInv'
    BY <1>1, <1>2, <2>6, <2>7 DEF ProfileInv
  <2> QED BY <2>5, <2>8 DEF EnrollmentInv
<1> QED BY <1>3, <1>4

LEMMA WebProfileAnsweredKeeps ==
    ASSUME EnrollmentInv, NEW r \in VoiceRequests, WebProfileAnswered(r)
    PROVE  EnrollmentInv'
<1>1. /\ UNCHANGED <<veClient, veAsking, veActive, veCrossed, veSamples, veServer, veEnrolled>>
      /\ veClient = "web" /\ RequestOver(r)
      /\ veSamples \in Nat /\ veSamples <= MaxSamples /\ veEnrolled \in {"unknown", "yes", "no"}
      /\ veBusy \in BOOLEAN /\ veBlurred \in BOOLEAN /\ veServer \in BOOLEAN /\ veActive \in BOOLEAN
      /\ veTake \in [Takes -> TakeStates]
  BY DEF WebProfileAnswered, veFlags, EnrollmentInv, EnrollmentTypes
<1>2. /\ veRequest' \in [VoiceRequests -> VoiceRequestSet] /\ veRequest'[r] = NoVoiceRequest
      /\ \A q \in VoiceRequests \ {r} : veRequest'[q] = veRequest[q]
      /\ NoVoiceRequest.op = "none"
  BY <1>1, ProfileRequestEnds
<1>3. CASE veRequest[r].at = "done"
  <2>1. UNCHANGED <<veBusy, veBlurred>> /\ veMounted' = FALSE /\ CleanupCapture(veTake)
    BY <1>1, <1>3 DEF WebProfileAnswered, ClosePanel
  <2>2. EnrollmentTypes' /\ DesktopTakesInv' /\ WebTakesInv'
    BY <1>1, <1>2, <2>1, WebCleansKeeps
  <2>3. ProfileInv'
    BY <2>1 DEF ProfileInv
  <2> QED BY <2>2, <2>3 DEF EnrollmentInv
<1>4. CASE veRequest[r].at # "done"
  <2>1. veBusy' = FALSE /\ veBlurred' = TRUE /\ UNCHANGED <<veMounted, veTake, veLive, veRefs>>
    BY <1>4 DEF WebProfileAnswered
  <2>2. UNCHANGED <<veClient, veMounted, veCapture>>
    BY <1>1, <2>1 DEF veCapture, veFlags
  <2>3. /\ veSamples' \in Nat /\ veSamples' <= veSamples
        /\ veServer' \in BOOLEAN /\ veEnrolled' \in {"unknown", "yes", "no"}
    BY <1>1
  <2>4. veBusy' \in BOOLEAN /\ veBlurred' \in BOOLEAN
    BY <2>1, Zenon
  <2>5. EnrollmentTypes' /\ DesktopTakesInv' /\ WebTakesInv'
    BY <1>2, <2>2, <2>3, <2>4, TakesStay
  <2>6. ProfileInv'
    BY <2>1 DEF ProfileInv
  <2> QED BY <2>5, <2>6 DEF EnrollmentInv
<1> QED BY <1>3, <1>4

LEMMA EnrollmentStep == EnrollmentInv /\ [EnrollmentNext]_veVars => EnrollmentInv'
<1> SUFFICES ASSUME EnrollmentInv, [EnrollmentNext]_veVars PROVE EnrollmentInv'
  OBVIOUS
<1>1. CASE OpenPanel
  BY <1>1, OpenPanelKeeps
<1>2. CASE LeavePanel
  BY <1>2, DesktopPanelKeeps, WebLeavesKeeps DEF EnrollmentInv, EnrollmentTypes
<1>3. CASE StopRecording \/ RemoveSample
  BY <1>3, DesktopPanelKeeps
<1>4. ASSUME NEW t \in Takes,
             StartRecording(t) \/ RecordingStarts(t) \/ RecordingDenied(t) \/ \E usable \in BOOLEAN : DesktopTranscoded(t, usable)
      PROVE  EnrollmentInv'
  BY <1>4, StartRecordingKeeps, RecordingStartsKeeps, RecordingDeniedKeeps, DesktopTranscodedKeeps
<1>5. ASSUME NEW t \in Takes,
             \/ Record(t) \/ CountdownStarts(t) \/ StartRecorder(t) \/ RecorderTimesOut(t)
             \/ CountdownDenied(t) \/ \E usable \in BOOLEAN : WebTranscoded(t, usable)
      PROVE  EnrollmentInv'
  BY <1>5, WebTakeKeeps, WebTakeEndsKeeps
<1>6. ASSUME NEW r \in VoiceRequests, \E applies, answers \in BOOLEAN : ProfileHandles(r, applies, answers)
      PROVE  EnrollmentInv'
  BY <1>6, ProfileHandlesKeeps
<1>7. ASSUME NEW r \in VoiceRequests, Upload(r) \/ RemoveProfile(r) \/ DesktopProfileAnswered(r) \/ WebProfileAnswered(r)
      PROVE  EnrollmentInv'
  BY <1>7, ProfileAskedKeeps, DesktopProfileAnsweredKeeps, WebProfileAnsweredKeeps
<1>8. CASE UNCHANGED veVars
  <2>1. UNCHANGED <<veClient, veMounted, veCapture, veSamples, veProfile>>
    BY <1>8 DEF veVars
  <2>2. ProfileInv' /\ UNCHANGED <<veServer, veEnrolled, veBusy, veRequest, veBlurred>>
    BY <2>1, ProfileStays
  <2>3. /\ veSamples' \in Nat /\ veSamples' <= veSamples
        /\ veServer' \in BOOLEAN /\ veEnrolled' \in {"unknown", "yes", "no"} /\ veBusy' \in BOOLEAN
        /\ veRequest' \in [VoiceRequests -> VoiceRequestSet] /\ veBlurred' \in BOOLEAN
    BY <2>1, <2>2 DEF EnrollmentInv, EnrollmentTypes
  <2> QED BY <2>1, <2>2, <2>3, TakesStay DEF EnrollmentInv
<1> QED BY <1>1, <1>2, <1>3, <1>4, <1>5, <1>6, <1>7, <1>8 DEF EnrollmentNext
=============================================================================
