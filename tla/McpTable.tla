------------------------------- MODULE McpTable -------------------------------
(***************************************************************************)
(* The table of MCP servers: the page of the desktop (screens/Mcp.tsx with *)
(* components/McpServers.tsx), the same table on the marketplace           *)
(* (screens/Marketplace.tsx), and the page of the web client               *)
(* (pages/Mcp.tsx with pages/settings/McpTab.tsx), one per behaviour.      *)
(*                                                                         *)
(* A row or a form sends the whole configuration of its server, as it was  *)
(* shown: its secrets are masked, and the backend keeps a value whose mask *)
(* comes back.  The pages read the configuration again after a change; two *)
(* of them unmount the table meanwhile, whose forms and flags go with it.  *)
(* Requests overlap and answers come late, in any order, or not at all.    *)
(*                                                                         *)
(* Of a configuration there is the secret only: that is what a change of   *)
(* something else could lose.  Left out: the other fields, the status of   *)
(* connections, the export panels, which copy text, and OAuth.             *)
(***************************************************************************)
EXTENDS Naturals, FiniteSets

CONSTANTS McpNames,  \* names of servers; the presets carry such names
          NoServerName,
          McpCalls   \* bound: requests at one time

ASSUME McpTableAssumption == NoServerName \notin McpNames

VARIABLES mtPage,       \* which page it is
          mtServer,     \* name -> its configuration in the backend
          mtConfig,     \* name -> its configuration as the page read it
          mtLoaded,     \* config # null
          mtLoading,    \* loading
          mtForm,       \* draft and editing; adding, editing and the modal's fields
          mtBusy,       \* busy
          mtSaving,     \* saving of the web form
          mtInstalling, \* installing
          mtCalls,      \* call -> the request it is
          mtKept,       \* history: servers whose secret nobody gave up, and for
                        \* which no change was made from an outdated row
          mtBehind      \* history: the page may show what was so before

mtRead  == <<mtConfig, mtLoaded, mtLoading>>
mtTable == <<mtForm, mtBusy, mtSaving, mtInstalling>>
mtPast  == <<mtKept, mtBehind>>
mtVars  == <<mtPage, mtServer, mtRead, mtTable, mtCalls, mtPast>>

\* A configuration is without a secret, or with one, or with a mask.
NoConfig  == "none"
McpConfig == {"plain", "secret", "mask", NoConfig}
McpFleet  == [McpNames -> McpConfig]

NoForm   == [mode |-> "none", name |-> NoServerName, config |-> NoConfig, seen |-> NoConfig]
NoBusy   == [name |-> NoServerName, key |-> "none"]
NoneYet  == [n \in McpNames |-> NoConfig]

\* seen is the row a change was made from; here: the table is still mounted.
McpIdle  == [op |-> "none", at |-> "nothing", name |-> NoServerName, config |-> NoConfig,
             seen |-> NoConfig, here |-> FALSE, read |-> NoneYet]
McpRead  == [McpIdle EXCEPT !.op = "read", !.at = "sent"]

McpTableTypeOK ==
    /\ mtPage \in {"desktop", "market", "web"}
    /\ mtServer \in McpFleet
    /\ mtConfig \in McpFleet
    /\ mtLoaded \in BOOLEAN
    /\ mtLoading \in BOOLEAN
    /\ mtForm \in [mode : {"none", "add", "edit"}, name : McpNames \cup {NoServerName},
                   config : McpConfig, seen : McpConfig]
    /\ mtBusy \in [name : McpNames \cup {NoServerName}, key : {"none", "row", "enabled", "export"}]
    /\ mtSaving \in BOOLEAN
    /\ mtInstalling \in McpNames \cup {NoServerName}
    /\ \A c \in McpCalls :
          /\ mtCalls[c].op \in {"none", "read", "edit", "add", "install", "toggle", "export", "reconnect", "remove"}
          /\ mtCalls[c].at \in {"nothing", "sent", "done", "failed"}
          /\ mtCalls[c].name \in McpNames \cup {NoServerName}
          /\ mtCalls[c].config \in McpConfig /\ mtCalls[c].seen \in McpConfig
          /\ mtCalls[c].here \in BOOLEAN
          /\ mtCalls[c].read \in McpFleet
    /\ mtKept \subseteq McpNames
    /\ mtBehind \in BOOLEAN

InFleet(fleet) == {n \in McpNames : fleet[n] # NoConfig}

\* server_response: every secret is masked.
McpMasked(config) == IF config = "secret" THEN "mask" ELSE config
Shown(fleet)   == [n \in McpNames |-> McpMasked(fleet[n])]

\* The web client and the page of the desktop unmount the table while they
\* read the configuration; the marketplace only waits for the first one.
TableMounted == mtLoaded /\ (mtPage = "market" \/ ~mtLoading)

McpTableOpens ==
    /\ mtPage \in {"desktop", "market", "web"}
    /\ \E n \in McpNames :
          mtServer = [NoneYet EXCEPT ![n] = "secret"]
    /\ mtConfig = NoneYet /\ mtLoaded = FALSE /\ mtLoading = TRUE
    /\ mtForm = NoForm /\ mtBusy = NoBusy /\ mtSaving = FALSE /\ mtInstalling = NoServerName
    /\ mtKept = InFleet(mtServer)
    /\ mtBehind = TRUE

McpTableInit ==
    /\ McpTableOpens
    /\ \E c \in McpCalls : mtCalls = [[d \in McpCalls |-> McpIdle] EXCEPT ![c] = McpRead]

-----------------------------------------------------------------------------
(* The backend (src/dax/web/routes/mcp.py).                                *)

\* A value whose mask comes back stays as it was.
RestoreMasked(incoming, previous) ==
    IF incoming = "mask" /\ previous = "secret" THEN previous ELSE incoming

Updates(op) == op \in {"edit", "toggle", "export"}
Adds(op)    == op \in {"add", "install"}

\* A name is added once; a server that is not there cannot be changed.
McpAccepts(call) == IF Adds(call.op) THEN mtServer[call.name] = NoConfig
                  ELSE mtServer[call.name] # NoConfig

McpBecomes(call) == CASE Adds(call.op)        -> call.config
                      [] Updates(call.op)     -> RestoreMasked(call.config, mtServer[call.name])
                      [] call.op = "remove"   -> NoConfig
                      [] OTHER                -> mtServer[call.name]

McpAnswer(c, at) == mtCalls' = [mtCalls EXCEPT ![c] = [McpIdle EXCEPT !.op = mtCalls[c].op, !.at = at,
                                                                      !.here = mtCalls[c].here]]

McpHandles(c) ==
    LET call == mtCalls[c]
    IN  /\ call.at = "sent" /\ call.op # "read"
        /\ UNCHANGED <<mtPage, mtRead, mtTable, mtBehind>>
        /\ \/ /\ McpAccepts(call)
              /\ mtServer' = [mtServer EXCEPT ![call.name] = McpBecomes(call)]
              /\ mtKept' = IF Updates(call.op) /\ call.seen # McpMasked(mtServer[call.name])
                           THEN mtKept \ {call.name} ELSE mtKept
              /\ \E at \in {"done", "failed"} : McpAnswer(c, at)
           \/ McpAnswer(c, "failed") /\ UNCHANGED <<mtServer, mtKept>>

ConfigRead(c) ==
    /\ mtCalls[c].at = "sent" /\ mtCalls[c].op = "read"
    /\ UNCHANGED <<mtPage, mtServer, mtRead, mtTable, mtPast>>
    /\ \/ mtCalls' = [mtCalls EXCEPT ![c].at = "done", ![c].read = Shown(mtServer)]
       \/ mtCalls' = [mtCalls EXCEPT ![c].at = "failed"]

-----------------------------------------------------------------------------
(* The pages.                                                              *)

\* refresh() of the page, after a change: where it unmounts the table, what
\* the table held is gone.
McpRefreshes(c) ==
    /\ mtLoading' = TRUE
    /\ mtCalls' = [d \in McpCalls |-> IF d = c THEN McpRead
                                      ELSE IF mtPage = "market" THEN mtCalls[d]
                                      ELSE [mtCalls[d] EXCEPT !.here = FALSE]]
    /\ UNCHANGED <<mtConfig, mtLoaded>>

TableUnmounts == mtForm' = NoForm /\ mtBusy' = NoBusy /\ mtSaving' = FALSE /\ mtInstalling' = NoServerName

\* The answer of a read.
McpConfigShown(c) ==
    /\ mtCalls[c].op = "read" /\ mtCalls[c].at \in {"done", "failed"}
    /\ mtCalls' = [mtCalls EXCEPT ![c] = McpIdle]
    /\ mtConfig' = IF mtCalls[c].at = "done" THEN mtCalls[c].read ELSE mtConfig
    /\ mtLoaded' = (mtLoaded \/ mtCalls[c].at = "done")
    /\ mtLoading' = FALSE
    /\ mtBehind' = (mtCalls[c].at = "failed" \/ mtCalls[c].read # Shown(mtServer))
    /\ UNCHANGED <<mtPage, mtServer, mtTable, mtKept>>

\* A page whose first read failed shows that it loads, and nothing to try
\* again with; leaving and coming back mounts it anew.
ReopenPage(c) ==
    /\ ~mtLoaded /\ ~mtLoading
    /\ mtCalls' = [mtCalls EXCEPT ![c] = McpRead]
    /\ mtLoading' = TRUE
    /\ UNCHANGED <<mtPage, mtServer, mtConfig, mtLoaded, mtTable, mtPast>>

McpSends(c, call) == mtCalls[c] = McpIdle /\ mtCalls' = [mtCalls EXCEPT ![c] = [call EXCEPT !.at = "sent", !.here = TRUE]]

RowFree == TableMounted /\ mtForm = NoForm

\* The rows: what each offers, with its configuration as it is shown.
DesktopRow(n, op) ==
    /\ mtPage \in {"desktop", "market"} /\ RowFree /\ n \in InFleet(mtConfig)
    /\ op \in {"toggle", "reconnect", "remove", "form"}
    /\ op # "form" => mtBusy.name # n

WebRow(n, op) ==
    /\ mtPage = "web" /\ RowFree /\ n \in InFleet(mtConfig)
    /\ op \in {"toggle", "export", "reconnect", "remove", "form"}
    /\ op = "toggle" => mtBusy = NoBusy
    /\ op = "export" => mtBusy # [name |-> n, key |-> "export"]
    /\ op \in {"reconnect", "remove", "form"} => mtBusy # [name |-> n, key |-> "row"]

RowOffers(n, op) == DesktopRow(n, op) \/ WebRow(n, op)

RowRequest(n, op, config) == [McpIdle EXCEPT !.op = op, !.name = n, !.config = config, !.seen = mtConfig[n]]

FromRow(c, n, op, config, key) ==
    /\ RowOffers(n, op)
    /\ McpSends(c, RowRequest(n, op, config))
    /\ mtBusy' = [name |-> n, key |-> key]
    /\ UNCHANGED <<mtPage, mtServer, mtRead, mtForm, mtSaving, mtInstalling, mtBehind>>

\* What a switch sends that knows its own field only.
SwitchedAlone(config) == "plain"

\* { ...cfg, enabled }: all of it as it is shown.
Switched(config) == config

ToggleEnabled(c, n) == /\ FromRow(c, n, "toggle", Switched(mtConfig[n]), IF mtPage = "web" THEN "enabled" ELSE "row")
                       /\ UNCHANGED mtKept
SetExportFlag(c, n) == FromRow(c, n, "export", Switched(mtConfig[n]), "export") /\ UNCHANGED mtKept
Reconnect(c, n)     == FromRow(c, n, "reconnect", NoConfig, "row") /\ UNCHANGED mtKept
RemoveServer(c, n)  == FromRow(c, n, "remove", NoConfig, "row") /\ mtKept' = mtKept \ {n}

\* A change is answered.  The page reads the configuration again after one
\* that was made; the flags belong to the table that set them.
McpChanged(c) ==
    LET call == mtCalls[c]
        made == call.at = "done" /\ call.op # "reconnect"
        form == call.op \in {"edit", "add"}
        row  == call.op \in {"toggle", "export", "reconnect", "remove"}
    IN  /\ call.op \notin {"none", "read"} /\ call.at \in {"done", "failed"}
        /\ IF made THEN McpRefreshes(c)
                   ELSE mtCalls' = [mtCalls EXCEPT ![c] = McpIdle] /\ UNCHANGED mtRead
        /\ IF made /\ mtPage # "market" THEN TableUnmounts
           ELSE IF ~call.here THEN UNCHANGED mtTable
           ELSE /\ mtForm' = IF made /\ form THEN NoForm ELSE mtForm
                /\ mtBusy' = IF row \/ (form /\ mtPage # "web") THEN NoBusy ELSE mtBusy
                /\ mtSaving' = (mtSaving /\ ~form)
                /\ mtInstalling' = IF call.op = "install" THEN NoServerName ELSE mtInstalling
        /\ mtBehind' = (mtBehind \/ call.at = "failed")
        /\ UNCHANGED <<mtPage, mtServer, mtKept>>

-----------------------------------------------------------------------------
(* The form of a server.                                                   *)

\* Of a new server, by hand or from the marketplace, or of a row.
OpenAdd(n) ==
    /\ RowFree
    /\ mtForm' = [mode |-> "add", name |-> n, config |-> "plain", seen |-> NoConfig]
    /\ UNCHANGED <<mtPage, mtServer, mtRead, mtBusy, mtSaving, mtInstalling, mtCalls, mtPast>>

OpenEdit(n) ==
    /\ RowOffers(n, "form")
    /\ mtForm' = [mode |-> "edit", name |-> n, config |-> mtConfig[n], seen |-> mtConfig[n]]
    /\ UNCHANGED <<mtPage, mtServer, mtRead, mtBusy, mtSaving, mtInstalling, mtCalls, mtPast>>

\* The fields: another secret, or none.
DesktopFills(config) == mtPage # "web" /\ config \in {"plain", "secret"}
WebFills(config)     == mtPage = "web" /\ config \in {"plain", "secret"}

FillForm(config) ==
    /\ mtForm # NoForm
    /\ DesktopFills(config) \/ WebFills(config)
    /\ config # mtForm.config
    /\ mtForm' = [mtForm EXCEPT !.config = config]
    /\ UNCHANGED <<mtPage, mtServer, mtRead, mtBusy, mtSaving, mtInstalling, mtCalls, mtPast>>

CloseForm ==
    /\ mtForm # NoForm
    /\ mtForm' = NoForm
    /\ mtSaving' = (mtSaving /\ mtForm.mode = "add")
    /\ UNCHANGED <<mtPage, mtServer, mtRead, mtBusy, mtInstalling, mtCalls, mtPast>>

\* Giving a server a configuration without its secret gives that up.
GivesUp(form) == mtKept' = IF form.config = "plain" THEN mtKept \ {form.name} ELSE mtKept

FormRequest == [McpIdle EXCEPT !.op = mtForm.mode, !.name = mtForm.name, !.config = mtForm.config, !.seen = mtForm.seen]

DesktopSubmits(c) ==
    /\ mtPage # "web" /\ mtForm # NoForm /\ mtBusy = NoBusy
    /\ McpSends(c, FormRequest)
    /\ GivesUp(mtForm)
    /\ mtBusy' = [name |-> mtForm.name, key |-> "row"]
    /\ UNCHANGED <<mtPage, mtServer, mtRead, mtForm, mtSaving, mtInstalling, mtBehind>>

WebSubmits(c) ==
    /\ mtPage = "web" /\ mtForm # NoForm /\ ~mtSaving
    /\ McpSends(c, FormRequest)
    /\ GivesUp(mtForm)
    /\ mtSaving' = TRUE
    /\ UNCHANGED <<mtPage, mtServer, mtRead, mtForm, mtBusy, mtInstalling, mtBehind>>

\* The web client installs a preset, or a server of the registry, at once.
WebInstallOffered(n) ==
    mtPage = "web" /\ RowFree /\ n \notin InFleet(mtConfig) /\ mtInstalling # n

WebInstalls(c, n) ==
    /\ WebInstallOffered(n)
    /\ McpSends(c, [McpIdle EXCEPT !.op = "install", !.name = n, !.config = "plain"])
    /\ mtInstalling' = n
    /\ UNCHANGED <<mtPage, mtServer, mtRead, mtForm, mtBusy, mtSaving, mtPast>>

-----------------------------------------------------------------------------

McpTableNext ==
    \/ CloseForm
    \/ \E config \in {"plain", "secret"} : FillForm(config)
    \/ \E n \in McpNames : OpenAdd(n) \/ OpenEdit(n)
    \/ \E c \in McpCalls :
          \/ McpHandles(c)
          \/ ConfigRead(c)
          \/ McpConfigShown(c)
          \/ McpChanged(c)
          \/ ReopenPage(c)
          \/ DesktopSubmits(c)
          \/ WebSubmits(c)
          \/ \E n \in McpNames :
                \/ ToggleEnabled(c, n)
                \/ SetExportFlag(c, n)
                \/ Reconnect(c, n)
                \/ RemoveServer(c, n)
                \/ WebInstalls(c, n)

McpTableSpec == McpTableInit /\ [][McpTableNext]_mtVars

-----------------------------------------------------------------------------

\* A server keeps its secret until the user gives it up: switches, exports
\* and forms send the configuration with masks, and every mask finds its
\* value, unless two requests raced for the server.
StoredSecretsSurvive ==
    \A n \in mtKept : mtServer[n] = "secret"

\* The table tells the truth once everything is answered: a change is read
\* back, unless an answer was lost or the last read was overtaken.
TableIsTrue ==
    ~mtBehind /\ (\A c \in McpCalls : mtCalls[c] = McpIdle) => mtConfig = Shown(mtServer)

\* No flag of a mounted table outlives the request it stands for.
McpBusyEnds ==
    /\ mtBusy # NoBusy => \E c \in McpCalls : mtCalls[c].here
    /\ mtSaving => \E c \in McpCalls : mtCalls[c].here /\ mtCalls[c].op \in {"add", "edit"}
    /\ mtLoading => \E c \in McpCalls : mtCalls[c].op = "read"
=============================================================================
