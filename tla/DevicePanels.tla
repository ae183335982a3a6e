----------------------------- MODULE DevicePanels -----------------------------
(***************************************************************************)
(* The panels that list paired devices: the devices of the web client      *)
(* (pages/settings/DevicesTab.tsx), those of the desktop                   *)
(* (components/PairedDevices.tsx) and the capability nodes of the desktop  *)
(* (components/CapabilityNodes.tsx), one of them per behaviour.            *)
(*                                                                         *)
(* Each polls its list while requests that change a row are under way.     *)
(* Answers come in any order, or get lost.  A row is "on", "off" (a node   *)
(* that lends nothing), "revoked" or "gone"; the switches and lists of a   *)
(* policy are one.  A panel stays mounted; the command that is copied and  *)
(* the enrollment of the machine itself change nothing and are left out.   *)
(***************************************************************************)
EXTENDS Naturals, FiniteSets

CONSTANTS Devices,
          NoDevice,   \* stands for null
          DeviceCalls, \* bound: requests at one time
          CodeSeconds  \* expires_in_seconds

ASSUME DeviceAssumption == CodeSeconds \in Nat \ {0} /\ NoDevice \notin Devices

VARIABLES dvPanel,   \* which panel it is
          dvServer,  \* device -> its row in the backend
          dvRead,    \* devices # null
          dvRows,    \* device -> its row in the list shown
          dvBusy,    \* busy: "pair", "change" or a node
          dvConfirm, \* confirming
          dvCode,    \* code and pairingKind
          dvLeft,    \* remaining
          dvCalls,   \* call -> the request it is, and where its flow is
          dvBehind   \* history: the list shows what was so before

dvList == <<dvRead, dvRows>>
dvPair == <<dvCode, dvLeft>>
dvVars == <<dvPanel, dvServer, dvList, dvBusy, dvConfirm, dvPair, dvCalls, dvBehind>>

RowStates   == {"on", "off", "revoked", "gone"}
Rows        == [Devices -> RowStates]
DeviceKinds == {"client", "capability_node"}
NoConfirm   == [device |-> NoDevice, action |-> "none"]
Confirms    == [device : Devices, action : {"revoke", "delete"}] \cup {NoConfirm}

DeviceCall == [op : {"none", "refresh", "pair", "revoke", "delete", "on", "off"},
               at : {"nothing", "sent", "done", "failed", "listing", "listed", "unlisted"},
               device : Devices \cup {NoDevice}, kind : DeviceKinds \cup {"none"}, list : Rows]

DeviceTypeOK ==
    /\ dvPanel \in {"web", "desktop", "nodes"}
    /\ dvServer \in Rows
    /\ dvRead \in BOOLEAN
    /\ dvRows \in Rows
    /\ dvBusy \in {"none", "pair", "change"} \cup Devices
    /\ dvConfirm \in Confirms
    /\ dvCode \in DeviceKinds \cup {"none"}
    /\ dvLeft \in 0..CodeSeconds
    /\ dvCalls \in [DeviceCalls -> DeviceCall]
    /\ dvBehind \in BOOLEAN

NoRows     == [d \in Devices |-> "gone"]
NoRequest  == [op |-> "none", at |-> "nothing", device |-> NoDevice, kind |-> "none", list |-> NoRows]
ListAsked  == [NoRequest EXCEPT !.op = "refresh", !.at = "listing"]

Request(c, call)  == dvCalls[c] = NoRequest /\ dvCalls' = [dvCalls EXCEPT ![c] = call]
RequestEnds(c)    == dvCalls' = [dvCalls EXCEPT ![c] = NoRequest]
Proceeds(c, at)   == dvCalls' = [dvCalls EXCEPT ![c].at = at]

DevicesOpen ==
    /\ dvPanel \in {"web", "desktop", "nodes"}
    /\ dvServer = [d \in Devices |-> "on"]
    /\ dvRead = FALSE /\ dvRows = NoRows
    /\ dvBusy = "none"
    /\ dvConfirm = NoConfirm
    /\ dvCode = "none" /\ dvLeft = 0
    /\ dvBehind = TRUE

DevicesInit ==
    /\ DevicesOpen
    /\ \E c \in DeviceCalls : dvCalls = [[d \in DeviceCalls |-> NoRequest] EXCEPT ![c] = ListAsked]

-----------------------------------------------------------------------------
(* The backend (external), and what else changes there.                    *)

Becomes(op, row) == IF op = "delete" THEN "gone"
                    ELSE IF op = "revoke" \/ row = "revoked" THEN "revoked"
                    ELSE op

\* A row that is gone cannot be changed.  A request that was handled may
\* seem to have failed.
DeviceHandles(c) ==
    LET call == dvCalls[c]
    IN  /\ call.at = "sent"
        /\ UNCHANGED <<dvPanel, dvList, dvBusy, dvConfirm, dvPair, dvBehind>>
        /\ \/ /\ call.op # "pair" => dvServer[call.device] # "gone"
              /\ dvServer' = IF call.op = "pair" THEN dvServer
                             ELSE [dvServer EXCEPT ![call.device] = Becomes(call.op, @)]
              /\ Proceeds(c, "done") \/ Proceeds(c, "failed")
           \/ UNCHANGED dvServer /\ Proceeds(c, "failed")

DevicesListed(c) ==
    /\ dvCalls[c].at = "listing"
    /\ UNCHANGED <<dvPanel, dvServer, dvList, dvBusy, dvConfirm, dvPair, dvBehind>>
    /\ \/ dvCalls' = [dvCalls EXCEPT ![c].at = "listed", ![c].list = dvServer]
       \/ Proceeds(c, "unlisted")

OthersRevoke(d) ==
    /\ dvServer[d] \in {"on", "off"}
    /\ dvServer' = [dvServer EXCEPT ![d] = "revoked"]
    /\ dvBehind' = TRUE
    /\ UNCHANGED <<dvPanel, dvList, dvBusy, dvConfirm, dvPair, dvCalls>>

-----------------------------------------------------------------------------
(* The lists, which all panels poll.                                       *)

Polls(c) ==
    /\ Request(c, ListAsked)
    /\ UNCHANGED <<dvPanel, dvServer, dvList, dvBusy, dvConfirm, dvPair, dvBehind>>

\* A list is behind when it was read before a change, or may have been.
ListIsBehind(c) == \/ dvCalls[c].list # dvServer
                   \/ \E d \in DeviceCalls \ {c} : dvCalls[d].device # NoDevice

\* A failed refresh keeps the list.
WebRefreshed(c) ==
    /\ dvRead' = TRUE
    /\ IF dvCalls[c].at = "listed"
       THEN dvRows' = dvCalls[c].list /\ dvBehind' = ListIsBehind(c)
       ELSE dvRows' = dvRows /\ dvBehind' = TRUE

DesktopRefreshed(c) ==
    /\ dvRead' = TRUE
    /\ dvRows' = IF dvCalls[c].at = "listed" THEN dvCalls[c].list ELSE dvRows
    /\ dvBehind' = (dvCalls[c].at # "listed" \/ ListIsBehind(c))

\* A failed load of the nodes shows none.
NodesLoaded(c) ==
    /\ dvRead' = TRUE
    /\ dvRows' = IF dvCalls[c].at = "listed" THEN dvCalls[c].list ELSE NoRows
    /\ dvBehind' = (dvCalls[c].at # "listed" \/ ListIsBehind(c))

\* A list is shown; a change that waited for it is over.
Refreshed(c) ==
    /\ dvCalls[c].at \in {"listed", "unlisted"}
    /\ CASE dvPanel = "web"     -> WebRefreshed(c)
         [] dvPanel = "desktop" -> DesktopRefreshed(c)
         [] dvPanel = "nodes"   -> NodesLoaded(c)
    /\ RequestEnds(c)
    /\ IF dvCalls[c].op = "refresh"
       THEN UNCHANGED <<dvBusy, dvConfirm>>
       ELSE dvBusy' = "none" /\ dvConfirm' = NoConfirm
    /\ UNCHANGED <<dvPanel, dvServer, dvPair>>

-----------------------------------------------------------------------------
(* Pairing, and changes of paired devices.                                 *)

\* What the panels offer: pairing, unless one is under way (the desktop
\* hides it behind a code that is shown), and per row to revoke or delete
\* it, which is confirmed in a dialog that covers the rest.
WebOffers(op, d) ==
    /\ dvPanel = "web" /\ dvBusy = "none" /\ dvConfirm = NoConfirm
    /\ d # NoDevice => dvRead /\ dvRows[d] # "gone"
    /\ op = "revoke" => dvRows[d] # "revoked"

DesktopOffers(op, d) ==
    /\ dvPanel = "desktop" /\ dvBusy = "none" /\ dvConfirm = NoConfirm
    /\ op = "pair" => dvCode = "none"
    /\ d # NoDevice => dvRead /\ dvRows[d] # "gone"
    /\ op = "revoke" => dvRows[d] # "revoked"

DeviceOffered(op, d) == WebOffers(op, d) \/ DesktopOffers(op, d)

Pair(c, kind) ==
    /\ DeviceOffered("pair", NoDevice)
    /\ Request(c, [NoRequest EXCEPT !.op = "pair", !.at = "sent", !.kind = kind])
    /\ dvBusy' = "pair"
    /\ UNCHANGED <<dvPanel, dvServer, dvList, dvConfirm, dvPair, dvBehind>>

Paired(c) ==
    LET call == dvCalls[c]
    IN  /\ call.op = "pair" /\ call.at \in {"done", "failed"}
        /\ RequestEnds(c)
        /\ dvBusy' = "none"
        /\ dvCode' = IF call.at = "done" THEN call.kind ELSE dvCode
        /\ dvLeft' = IF call.at = "done" THEN CodeSeconds ELSE dvLeft
        /\ UNCHANGED <<dvPanel, dvServer, dvList, dvConfirm, dvBehind>>

\* The countdown of the code takes it away.
CodeTicks ==
    /\ dvCode # "none"
    /\ dvLeft' = dvLeft - 1
    /\ dvCode' = IF dvLeft' = 0 THEN "none" ELSE dvCode
    /\ UNCHANGED <<dvPanel, dvServer, dvList, dvBusy, dvConfirm, dvCalls, dvBehind>>

AsksToConfirm(d, action) ==
    /\ DeviceOffered(action, d)
    /\ dvConfirm' = [device |-> d, action |-> action]
    /\ UNCHANGED <<dvPanel, dvServer, dvList, dvBusy, dvPair, dvCalls, dvBehind>>

\* The dialog closes, also while its change is under way.
CancelsPairing ==
    /\ dvConfirm # NoConfirm
    /\ dvConfirm' = NoConfirm
    /\ UNCHANGED <<dvPanel, dvServer, dvList, dvBusy, dvPair, dvCalls, dvBehind>>

Mutate(c) ==
    /\ dvConfirm # NoConfirm /\ dvBusy = "none"
    /\ Request(c, [NoRequest EXCEPT !.op = dvConfirm.action, !.at = "sent", !.device = dvConfirm.device])
    /\ dvBusy' = "change"
    /\ UNCHANGED <<dvPanel, dvServer, dvList, dvConfirm, dvPair, dvBehind>>

\* A change that was made refreshes the list, one that failed does not.
Mutated(c) ==
    LET call == dvCalls[c]
    IN  /\ call.op \in {"revoke", "delete"} /\ call.at \in {"done", "failed"}
        /\ IF call.at = "done"
           THEN Proceeds(c, "listing") /\ UNCHANGED <<dvBusy, dvConfirm, dvBehind>>
           ELSE /\ RequestEnds(c)
                /\ dvBusy' = "none" /\ dvConfirm' = NoConfirm
                /\ dvBehind' = TRUE
        /\ UNCHANGED <<dvPanel, dvServer, dvList, dvPair>>

-----------------------------------------------------------------------------
(* The policies of capability nodes.                                       *)

\* The switches of a node, but those of the one that is busy.
NodeOffers(d) == /\ dvPanel = "nodes" /\ dvRead
                 /\ dvRows[d] \in {"on", "off"} /\ dvBusy # d

\* The row shows the change before it is made.
UpdatePolicy(c, d) ==
    LET turned == IF dvRows[d] = "on" THEN "off" ELSE "on"
    IN  /\ NodeOffers(d)
        /\ Request(c, [NoRequest EXCEPT !.op = turned, !.at = "sent", !.device = d])
        /\ dvRows' = [dvRows EXCEPT ![d] = turned]
        /\ dvBusy' = d
        /\ dvBehind' = (dvBehind \/ \E e \in DeviceCalls : dvCalls[e].device = d)
        /\ UNCHANGED <<dvPanel, dvServer, dvRead, dvConfirm, dvPair>>

\* A failure loads the nodes again; "busy" goes, whichever node has it.
PolicyUpdated(c) ==
    /\ dvPanel = "nodes" /\ dvCalls[c].device # NoDevice /\ dvCalls[c].at \in {"done", "failed"}
    /\ IF dvCalls[c].at = "done"
       THEN RequestEnds(c) /\ dvBusy' = "none"
       ELSE Proceeds(c, "listing") /\ UNCHANGED dvBusy
    /\ UNCHANGED <<dvPanel, dvServer, dvList, dvConfirm, dvPair, dvBehind>>

-----------------------------------------------------------------------------

DevicesNext ==
    \/ CodeTicks
    \/ CancelsPairing
    \/ \E d \in Devices : OthersRevoke(d) \/ \E action \in {"revoke", "delete"} : AsksToConfirm(d, action)
    \/ \E c \in DeviceCalls :
          \/ DeviceHandles(c)
          \/ DevicesListed(c)
          \/ Polls(c)
          \/ Refreshed(c)
          \/ \E kind \in DeviceKinds : Pair(c, kind)
          \/ Paired(c)
          \/ Mutate(c)
          \/ Mutated(c)
          \/ \E d \in Devices : UpdatePolicy(c, d)
          \/ PolicyUpdated(c)

DevicesSpec == DevicesInit /\ [][DevicesNext]_dvVars

-----------------------------------------------------------------------------

\* A list tells the truth once the requests of its panel are answered: a
\* change that was made is shown and one that failed is not, unless others
\* changed a row, an answer was lost or a poll was overtaken -- until the
\* next poll that is not.
RowsAreTrue ==
    ~dvBehind /\ (\A c \in DeviceCalls : dvCalls[c] = NoRequest) => dvRows = dvServer

\* The buttons that "busy" disables come back: the request it stands for is
\* still under way.
DevicesBusyEnds ==
    dvBusy # "none" => \E c \in DeviceCalls : dvCalls[c].device # NoDevice \/ dvCalls[c].op = "pair"
=============================================================================
