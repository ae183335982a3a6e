----------------------------- MODULE WebSettings -----------------------------
(***************************************************************************)
(* The settings page of the web client: the configuration it reads         *)
(* (hooks/useConfig.ts), the page that mounts one tab at a time            *)
(* (pages/settings/SettingsPage.tsx) and the tabs that edit and save it.   *)
(*                                                                         *)
(* A tab copies the configuration into its inputs when it mounts and sends *)
(* all of them when it is saved.  While the page reads the configuration   *)
(* it shows a notice in place of the tab: every read remounts the tab.     *)
(* The inputs of a tab that are filled, edited and sent together are one   *)
(* field here.  A handler goes on after its tab was unmounted: all that is *)
(* left of it is the refresh of the page.  Requests overlap; the backend   *)
(* handles each at some time, its answer comes later, in any order, or     *)
(* gets lost.  Left out: the exports of the general tab, the list of local *)
(* models, the policy of the tools; the tab of the memory stands for those *)
(* that read for themselves and have no inputs of the configuration.       *)
(***************************************************************************)
EXTENDS Naturals, FiniteSets

CONSTANTS WebTours, \* sets of tabs a user goes to and fro between
          TabCalls  \* bound: requests at one time

WebTabs == {"general", "llm", "voice", "whatsapp", "telegram", "tools", "server", "memory"}

ASSUME WebSettingsAssumption == WebTours \subseteq SUBSET WebTabs

\* Fields whose value is never returned.
WebSecrets == {"llmKey", "voiceKey", "whatsappKey", "telegramToken", "password"}

WebFields == {"name", "prompt", "provider", "fallback", "speech", "whatsapp", "telegram",
              "auth", "server"} \cup WebSecrets

\* What a field may hold in an input.  "a" is the default of the backend;
\* the fallback chain is one of two providers, both or none.
WebInputs == [f \in WebFields |->
                CASE f \in WebSecrets -> {"", "b"}
                  [] f = "prompt"   -> {" ", "a", "b"}
                  [] f = "provider" -> {"p", "q"}
                  [] f = "fallback" -> {"none", "p", "q", "pq"}
                  [] f = "speech"   -> {"local", "openai"}
                  [] f = "auth"     -> {"off", "on"}
                  [] OTHER          -> {"a", "b"}]

VARIABLES wsServer,  \* the configuration of the backend
          wsConfig,  \* config of useConfig, secrets as "" or "set"
          wsLoaded,  \* config # null
          wsLoading, \* loading
          wsTour,    \* the tabs that are visited
          wsTab,     \* active
          wsForm,    \* the inputs of the mounted tab
          wsSaving,  \* saving, pwSaving of the mounted tab
          wsCalls,   \* call -> the request it is
          wsOverlap  \* history: two reads were under way at once

wsPage == <<wsTour, wsTab, wsForm, wsSaving>>
wsVars == <<wsServer, wsConfig, wsLoaded, wsLoading, wsPage, wsCalls, wsOverlap>>

Unset    == "none set"  \* a field that a request, or the tab, does not have
NoFields == [f \in WebFields |-> Unset]
WsIdle   == [kind |-> "none", here |-> FALSE, at |-> "sent", body |-> NoFields]
WsRead   == [WsIdle EXCEPT !.kind = "read"]

Held(f)     == IF f \in WebSecrets THEN {"", "b"} ELSE WebInputs[f]
InBodies(b) == \A f \in WebFields : b[f] \in WebInputs[f] \cup {Unset, ""}

WebSettingsTypeOK ==
    /\ \A f \in WebFields : wsServer[f] \in Held(f)
    /\ InBodies(wsConfig)
    /\ wsLoaded \in BOOLEAN
    /\ wsLoading \in BOOLEAN
    /\ wsTour \in WebTours
    /\ wsTab \in wsTour
    /\ InBodies(wsForm)
    /\ wsSaving \subseteq {"save", "password"}
    /\ \A c \in TabCalls :
          /\ wsCalls[c].kind \in {"none", "read", "save", "tools", "password", "restore"}
          /\ wsCalls[c].here \in BOOLEAN
          /\ wsCalls[c].at \in {"sent", "done", "failed"}
          /\ InBodies(wsCalls[c].body)
    /\ wsOverlap \in BOOLEAN

-----------------------------------------------------------------------------
(* The tabs: the fields each shows, and what its button sends.             *)

\* The fields of a request: all those of the tab, but a secret left blank.
Sent(form, fields) == [f \in WebFields |-> IF f \in fields /\ (f \in WebSecrets => form[f] # "")
                                           THEN form[f] ELSE Unset]

GeneralFields      == {"name", "prompt"}
GeneralBody(form)  == Sent(form, {"name"})
PromptBody(form)   == Sent(form, {"prompt"})
PromptSavable      == wsForm["prompt"] # " "
PromptRestorable   == wsConfig["prompt"] # "a"

\* The default provider is not its own fallback.
Without(fallback, provider) == CASE fallback = "pq"     -> IF provider = "p" THEN "q" ELSE "p"
                                 [] fallback = provider -> "none"
                                 [] OTHER               -> fallback

LlmFields          == {"provider", "fallback", "llmKey"}
\* A button per provider but the default one, which adds or removes it.
FallbackToggled(p) == CASE wsForm["fallback"] = "none" -> p
                        [] wsForm["fallback"] = p      -> "none"
                        [] wsForm["fallback"] = "pq"   -> IF p = "p" THEN "q" ELSE "p"
                        [] OTHER                       -> "pq"
LlmBody(form)      == [Sent(form, LlmFields) EXCEPT !["fallback"] = Without(@, form["provider"])]

VoiceFields        == {"speech", "voiceKey"}
VoiceBody(form)    == Sent(form, VoiceFields)
VoiceKeyShown      == wsForm["speech"] = "openai"

WhatsAppFields     == {"whatsapp", "whatsappKey"}
WhatsAppBody(form) == Sent(form, WhatsAppFields)

TelegramFields     == {"telegram", "telegramToken"}
TelegramBody(form) == Sent(form, TelegramFields)

ToolsFields        == {"auth", "password"}
ToolsBody(form)    == Sent(form, {"auth"})
\* Login can be switched on once a password is set.
LoginSwitchable    == wsConfig["password"] # "" \/ wsForm["auth"] = "on"
PasswordReady      == wsForm["password"] # ""
PasswordBody(form) == Sent(form, {"password"})

ServerFields       == {"server"}
ServerBody(form)   == Sent(form, ServerFields)

FieldsOfTab == [general |-> GeneralFields, llm |-> LlmFields, voice |-> VoiceFields,
                whatsapp |-> WhatsAppFields, telegram |-> TelegramFields,
                tools |-> ToolsFields, server |-> ServerFields, memory |-> {}]

\* The inputs of a tab that mounts.
Opened(tab, config) == [f \in WebFields |-> IF f \notin FieldsOfTab[tab] THEN Unset
                                            ELSE IF f \in WebSecrets THEN "" ELSE config[f]]

TabShown == wsLoaded /\ ~wsLoading

-----------------------------------------------------------------------------
(* The page.                                                               *)

\* A call of refresh(): the page shows its notice, the tab is gone.
Refreshes(calls, c) ==
    /\ wsLoading' = TRUE
    /\ wsForm' = NoFields
    /\ wsSaving' = {}
    /\ wsCalls' = [[d \in TabCalls |-> [calls[d] EXCEPT !.here = FALSE]] EXCEPT ![c] = WsRead]
    /\ wsOverlap' = (wsOverlap \/ \E d \in TabCalls \ {c} : calls[d].kind = "read")

PageOpens ==
    /\ wsServer = [f \in WebFields |-> CASE f \in WebSecrets    -> IF f = "password" THEN "" ELSE "b"
                                         [] f = "provider"      -> "p"
                                         [] f = "fallback"      -> "q"
                                         [] f = "speech"        -> "local"
                                         [] f = "auth"          -> "off"
                                         [] OTHER               -> "a"]
    /\ wsConfig = NoFields
    /\ wsLoaded = FALSE
    /\ wsLoading = TRUE
    /\ wsTour \in WebTours
    /\ wsTab \in wsTour
    /\ wsForm = NoFields
    /\ wsSaving = {}
    /\ wsOverlap = FALSE

WebSettingsInit ==
    /\ PageOpens
    /\ \E c \in TabCalls : wsCalls = [[d \in TabCalls |-> WsIdle] EXCEPT ![c] = WsRead]

\* The answer of a read mounts the tab, unless another one did already.
ConfigAnswered(c) ==
    /\ wsCalls[c].kind = "read" /\ wsCalls[c].at # "sent"
    /\ wsCalls' = [wsCalls EXCEPT ![c] = WsIdle]
    /\ wsConfig' = IF wsCalls[c].at = "done" THEN wsCalls[c].body ELSE wsConfig
    /\ wsLoaded' = (wsLoaded \/ wsCalls[c].at = "done")
    /\ wsLoading' = FALSE
    /\ wsForm' = IF wsLoaded' /\ ~TabShown THEN Opened(wsTab, wsConfig') ELSE wsForm
    /\ UNCHANGED <<wsServer, wsTour, wsTab, wsSaving, wsOverlap>>

SelectTab(tab) ==
    /\ tab # wsTab
    /\ wsTab' = tab
    /\ wsForm' = IF TabShown THEN Opened(tab, wsConfig) ELSE wsForm
    /\ wsSaving' = {}
    /\ wsCalls' = [c \in TabCalls |-> [wsCalls[c] EXCEPT !.here = FALSE]]
    /\ UNCHANGED <<wsServer, wsConfig, wsLoaded, wsLoading, wsTour, wsOverlap>>

\* An input of the tab; nothing is disabled while a save is under way.
Fill(f, v) ==
    /\ TabShown
    /\ f \in FieldsOfTab[wsTab] /\ v \in WebInputs[f] \ {wsForm[f]}
    /\ f = "fallback" => \E p \in {"p", "q"} \ {wsForm["provider"]} : v = FallbackToggled(p)
    /\ f = "voiceKey" => VoiceKeyShown
    /\ f = "auth" => LoginSwitchable
    /\ wsForm' = [wsForm EXCEPT ![f] = v]
    /\ UNCHANGED <<wsServer, wsConfig, wsLoaded, wsLoading, wsTour, wsTab, wsSaving, wsCalls, wsOverlap>>

-----------------------------------------------------------------------------
(* The buttons.                                                            *)

Posts(c, flag, kind, body) ==
    /\ TabShown /\ flag \notin wsSaving
    /\ wsCalls[c] = WsIdle
    /\ wsCalls' = [wsCalls EXCEPT ![c] = [kind |-> kind, here |-> TRUE, at |-> "sent", body |-> body]]
    /\ wsSaving' = wsSaving \cup {flag}
    /\ UNCHANGED <<wsServer, wsConfig, wsLoaded, wsLoading, wsTour, wsTab, wsForm, wsOverlap>>

SaveTab(c) ==
    \/ wsTab = "general"  /\ Posts(c, "save", "save", GeneralBody(wsForm))
    \/ wsTab = "llm"      /\ Posts(c, "save", "save", LlmBody(wsForm))
    \/ wsTab = "voice"    /\ Posts(c, "save", "save", VoiceBody(wsForm))
    \/ wsTab = "whatsapp" /\ Posts(c, "save", "save", WhatsAppBody(wsForm))
    \/ wsTab = "telegram" /\ Posts(c, "save", "save", TelegramBody(wsForm))
    \/ wsTab = "server"   /\ Posts(c, "save", "save", ServerBody(wsForm))
    \/ wsTab = "tools"    /\ Posts(c, "save", "tools", ToolsBody(wsForm))

SavePrompt(c)     == wsTab = "general" /\ PromptSavable /\ Posts(c, "save", "save", PromptBody(wsForm))
RestorePrompt(c)  == wsTab = "general" /\ PromptRestorable /\ Posts(c, "save", "restore", NoFields)
ChangePassword(c) == wsTab = "tools" /\ PasswordReady /\ Posts(c, "password", "password", PasswordBody(wsForm))

\* What the backend makes of a request (external): the first request of the
\* tools tab carries the policy alone, a new password switches login on.
Stores(f, call) ==
    CASE call.kind = "restore" /\ f = "prompt" -> "a"
      [] call.kind = "password" /\ f = "auth"  -> "on"
      [] call.kind = "tools" /\ f = "auth"     -> wsServer[f]
      [] OTHER -> IF call.body[f] = Unset THEN wsServer[f] ELSE call.body[f]

WebHandles(c, applies, answers) ==
    /\ wsCalls[c].kind # "none" /\ wsCalls[c].at = "sent"
    /\ answers => applies
    /\ wsServer' = IF applies /\ wsCalls[c].kind # "read"
                   THEN [f \in WebFields |-> Stores(f, wsCalls[c])] ELSE wsServer
    /\ wsCalls' = [wsCalls EXCEPT ![c].at = IF answers THEN "done" ELSE "failed",
                                  ![c].body = IF ~answers THEN NoFields
                                              ELSE CASE wsCalls[c].kind = "read"  -> wsServer
                                                     [] wsCalls[c].kind = "tools" -> @
                                                     [] OTHER                     -> NoFields]
    /\ UNCHANGED <<wsConfig, wsLoaded, wsLoading, wsPage, wsOverlap>>

\* The tools tab goes on with the inputs of the click.
ToolsAnswered(c) ==
    /\ wsCalls[c].kind = "tools" /\ wsCalls[c].at = "done"
    /\ wsCalls' = [wsCalls EXCEPT ![c].kind = "save", ![c].at = "sent"]
    /\ UNCHANGED <<wsServer, wsConfig, wsLoaded, wsLoading, wsPage, wsOverlap>>

Flag(call) == IF call.kind = "password" THEN "password" ELSE "save"

ChangeDone(c) ==
    /\ wsCalls[c].kind \in {"save", "restore", "password"} /\ wsCalls[c].at = "done"
    /\ Refreshes(wsCalls, c)
    /\ UNCHANGED <<wsServer, wsConfig, wsLoaded, wsTour, wsTab>>

\* An error leaves the inputs as they are; its flag is the tab's, if it is
\* still the one that was mounted at the click.
ChangeFails(c) ==
    LET call == wsCalls[c]
    IN  /\ call.kind \in {"save", "tools", "restore", "password"} /\ call.at = "failed"
        /\ wsCalls' = [wsCalls EXCEPT ![c] = WsIdle]
        /\ wsSaving' = IF call.here THEN wsSaving \ {Flag(call)} ELSE wsSaving
        /\ UNCHANGED <<wsServer, wsConfig, wsLoaded, wsLoading, wsTour, wsTab, wsForm, wsOverlap>>

-----------------------------------------------------------------------------

WebSettingsNext ==
    \/ \E tab \in wsTour : SelectTab(tab)
    \/ \E f \in WebFields : \E v \in WebInputs[f] : Fill(f, v)
    \/ \E c \in TabCalls :
          \/ SaveTab(c)
          \/ SavePrompt(c)
          \/ RestorePrompt(c)
          \/ ChangePassword(c)
          \/ \E applies, answers \in BOOLEAN : WebHandles(c, applies, answers)
          \/ ConfigAnswered(c)
          \/ ToolsAnswered(c)
          \/ ChangeDone(c)
          \/ ChangeFails(c)

WebSettingsSpec == WebSettingsInit /\ [][WebSettingsNext]_wsVars

-----------------------------------------------------------------------------

\* A stored secret survives every save of its tab: inputs of secrets start
\* blank, and a blank one is never sent.
WebSecretsAreKept == \A f \in WebSecrets \ {"password"} : wsServer[f] # ""

\* Nobody is locked out: login is only required when there is a password,
\* though the switch, the password and the two requests of the tools tab are
\* saved apart, half way, and from inputs older than the configuration.
LoginNeedsPassword == wsServer["auth"] = "on" => wsServer["password"] # ""

\* The default provider is no fallback of itself, whatever was switched.
FallbackIsAnother == wsServer["fallback"] \notin {wsServer["provider"], "pq"}

\* The notice in place of a tab goes away: while it says that the
\* configuration loads, a read is under way, also when reads overlap.
LoadingEnds == wsLoading => \E c \in TabCalls : wsCalls[c].kind = "read"

\* A tab is not left behind by its page: the configuration is never
\* replaced under a mounted tab, whose inputs would keep the old one and
\* whose button would send it back, unless two reads overlapped.
TabShowsConfig ==
    [][~wsOverlap /\ TabShown => wsConfig' = wsConfig]_wsVars
=============================================================================
