------------------------------- MODULE FirstRun -------------------------------
(***************************************************************************)
(* The first run of the desktop (native/FirstRun.tsx): choosing a model,   *)
(* enrolling this machine and pairing a phone, each with a request that    *)
(* may fail half way, and each to be skipped while it is under way.        *)
(*                                                                         *)
(* This is the packaged application, which enrolls by itself; the command  *)
(* that is shown in a browser instead and the status of the service are    *)
(* left out.  The wizard is opened again when nothing of the last time is  *)
(* under way.                                                              *)
(***************************************************************************)
EXTENDS Naturals, FiniteSets

CONSTANTS KeyedProviders, \* the providers that need a key
          LocalProvider,  \* the one that needs none
          PairingSeconds  \* expires_in_seconds

ASSUME FirstRunAssumption == LocalProvider \notin KeyedProviders /\ PairingSeconds \in Nat \ {0}

VARIABLES frDefault,  \* the default provider of the backend
          frKeys,     \* the providers it has a key of
          frEnrolled, \* this machine is enrolled
          frStep,     \* step; FIRST_RUN_STEPS once the wizard is done
          frProvider, \* provider
          frTyped,    \* apiKey # ""
          frSaved,    \* modelSaved
          frNode,     \* nodeEnrollment?.enrolled
          frPairing,  \* pairing # null
          frLeft,     \* remaining
          frBusy,     \* busy
          frFlow,     \* the request under way, and what it carries
          frStatus,   \* the status asked for on mount, or its answer
          frSwitched  \* history: the provider was switched during a save

frBackend == <<frDefault, frKeys, frEnrolled>>
frModel   == <<frProvider, frTyped, frSaved>>
frPhone   == <<frPairing, frLeft>>
frVars    == <<frBackend, frStep, frModel, frNode, frPhone, frBusy, frFlow, frStatus, frSwitched>>

Providers     == KeyedProviders \cup {LocalProvider}
FirstRunSteps == 4
NoSetupFlow   == [op |-> "none", at |-> "sent", provider |-> LocalProvider, carries |-> FALSE]

FirstRunTypeOK ==
    /\ frDefault \in Providers /\ frKeys \subseteq KeyedProviders /\ frEnrolled \in BOOLEAN
    /\ frStep \in 0..FirstRunSteps
    /\ frProvider \in Providers /\ frTyped \in BOOLEAN /\ frSaved \in BOOLEAN
    /\ frNode \in BOOLEAN
    /\ frPairing \in BOOLEAN /\ frLeft \in 0..PairingSeconds
    /\ frBusy \in BOOLEAN
    /\ frFlow \in [op : {"none", "model", "code", "enroll", "service", "phone"},
                   at : {"sent", "done", "failed"}, provider : Providers, carries : BOOLEAN]
    /\ frStatus \in {"none", "asked", "enrolled", "not enrolled"}
    /\ frSwitched \in BOOLEAN

WizardOpens ==
    /\ frDefault = LocalProvider /\ frKeys = {} /\ frEnrolled = FALSE
    /\ frStep = 0
    /\ frTyped = FALSE /\ frSaved = FALSE
    /\ frNode = FALSE
    /\ frPairing = FALSE /\ frLeft = 0
    /\ frBusy = FALSE /\ frFlow = NoSetupFlow
    /\ frStatus = "asked"
    /\ frSwitched = FALSE

FirstRunInit == WizardOpens /\ frProvider \in KeyedProviders

Open    == frStep < FirstRunSteps
At(n)   == frStep = n /\ ~frBusy /\ frFlow = NoSetupFlow

Starts(flow) ==
    /\ frFlow' = flow
    /\ frBusy' = TRUE
    /\ UNCHANGED <<frBackend, frStep, frModel, frNode, frPhone, frStatus, frSwitched>>

-----------------------------------------------------------------------------
(* The backend, and the service manager of this machine (external).        *)

SetupHandled(applies, answers) ==
    /\ frFlow.op # "none" /\ frFlow.at = "sent"
    /\ answers => applies
    /\ frFlow' = [frFlow EXCEPT !.at = IF answers THEN "done" ELSE "failed"]
    /\ frDefault' = IF applies /\ frFlow.op = "model" THEN frFlow.provider ELSE frDefault
    /\ frKeys' = IF applies /\ frFlow.op = "model" /\ frFlow.carries THEN frKeys \cup {frFlow.provider} ELSE frKeys
    /\ frEnrolled' = (frEnrolled \/ (applies /\ frFlow.op = "enroll"))
    /\ UNCHANGED <<frStep, frModel, frNode, frPhone, frBusy, frStatus, frSwitched>>

\* An error is taken for "not enrolled".
StatusRead ==
    /\ frStatus = "asked"
    /\ frStatus' \in {IF frEnrolled THEN "enrolled" ELSE "not enrolled", "not enrolled"}
    /\ UNCHANGED <<frBackend, frStep, frModel, frNode, frPhone, frBusy, frFlow, frSwitched>>

-----------------------------------------------------------------------------
(* The model.                                                              *)

\* The key that was typed stays, and what was saved was for another.
Rechosen == FALSE

ChooseProvider(p) ==
    /\ frStep = 0 /\ p # frProvider
    /\ frProvider' = p
    /\ frSaved' = Rechosen
    /\ frSwitched' = (frSwitched \/ frFlow.op = "model")
    /\ UNCHANGED <<frBackend, frStep, frTyped, frNode, frPhone, frBusy, frFlow, frStatus>>

TypeKey ==
    /\ frStep = 0 /\ frProvider \in KeyedProviders
    /\ frTyped' = ~frTyped
    /\ UNCHANGED <<frBackend, frStep, frProvider, frSaved, frNode, frPhone, frBusy, frFlow, frStatus, frSwitched>>

CanAdvanceFirstRun == frSaved \/ frProvider = LocalProvider \/ frTyped

SaveModel ==
    /\ At(0) /\ CanAdvanceFirstRun
    /\ Starts([NoSetupFlow EXCEPT !.op = "model", !.provider = frProvider,
                                  !.carries = (frTyped /\ frProvider \in KeyedProviders)])

\* What a handler leaves when it ends; a wizard that is gone keeps nothing.
FlowIsOver == frFlow' = NoSetupFlow /\ frBusy' = FALSE

ModelSaved ==
    /\ frFlow.op = "model" /\ frFlow.at # "sent"
    /\ FlowIsOver
    /\ frSaved' = (frSaved \/ (Open /\ frFlow.at = "done"))
    /\ frTyped' = (frTyped /\ ~(Open /\ frFlow.at = "done"))
    /\ UNCHANGED <<frBackend, frStep, frProvider, frNode, frPhone, frStatus, frSwitched>>

-----------------------------------------------------------------------------
(* This machine as a node.                                                 *)

EnrolNode ==
    /\ At(1) /\ ~frNode
    /\ Starts([NoSetupFlow EXCEPT !.op = "code"])

\* A code, the enrolment with it, and the service, which is started or only
\* asked about, as the user consented.
NodeStep ==
    /\ frFlow.op \in {"code", "enroll", "service"} /\ frFlow.at # "sent"
    /\ frNode' = (frNode \/ (Open /\ frFlow.op = "enroll" /\ frFlow.at = "done"))
    /\ CASE frFlow.at = "done" /\ frFlow.op = "code" ->
               frFlow' = [frFlow EXCEPT !.op = "enroll", !.at = "sent"] /\ UNCHANGED frBusy
         [] frFlow.at = "done" /\ frFlow.op = "enroll" ->
               frFlow' = [frFlow EXCEPT !.op = "service", !.at = "sent"] /\ UNCHANGED frBusy
         [] OTHER -> FlowIsOver
    /\ UNCHANGED <<frBackend, frStep, frModel, frPhone, frStatus, frSwitched>>

\* The status asked for on mount, whenever it comes.
StatusShown ==
    /\ frStatus \notin {"none", "asked"}
    /\ frStatus' = "none"
    /\ frNode' = IF Open THEN frStatus = "enrolled" ELSE frNode
    /\ UNCHANGED <<frBackend, frStep, frModel, frPhone, frBusy, frFlow, frSwitched>>

-----------------------------------------------------------------------------
(* The phone, and the wizard.                                              *)

PairPhone ==
    /\ At(2)
    /\ Starts([NoSetupFlow EXCEPT !.op = "phone"])

PhonePaired ==
    /\ frFlow.op = "phone" /\ frFlow.at # "sent"
    /\ FlowIsOver
    /\ IF frFlow.at = "done" /\ Open
       THEN frPairing' = TRUE /\ frLeft' = PairingSeconds
       ELSE UNCHANGED frPhone
    /\ UNCHANGED <<frBackend, frStep, frModel, frNode, frStatus, frSwitched>>

\* The countdown, and the effect that takes the code away with it.
PairingTicks ==
    /\ frLeft > 0
    /\ frLeft' = frLeft - 1
    /\ frPairing' = (frPairing /\ frLeft' # 0)
    /\ UNCHANGED <<frBackend, frStep, frModel, frNode, frBusy, frFlow, frStatus, frSwitched>>

\* Back, which waits for a request; Continue, which does not; and the end.
Turns(step) ==
    /\ Open
    /\ \/ step = frStep - 1 /\ frStep > 0 /\ ~frBusy
       \/ step = frStep + 1
    /\ frStep' = step
    /\ UNCHANGED <<frBackend, frModel, frNode, frPhone, frBusy, frFlow, frStatus, frSwitched>>

SkipSetup ==
    /\ Open
    /\ frStep' = FirstRunSteps
    /\ UNCHANGED <<frBackend, frModel, frNode, frPhone, frBusy, frFlow, frStatus, frSwitched>>

\* From the settings.
ReopenSetup ==
    /\ ~Open /\ frFlow = NoSetupFlow /\ frStatus = "none"
    /\ frStep' = 0
    /\ frProvider' \in KeyedProviders /\ frTyped' = FALSE /\ frSaved' = FALSE
    /\ frNode' = FALSE
    /\ frPairing' = FALSE /\ frLeft' = 0 /\ frBusy' = FALSE
    /\ frStatus' = "asked"
    /\ UNCHANGED <<frBackend, frFlow, frSwitched>>

-----------------------------------------------------------------------------

FirstRunNext ==
    \/ \E applies, answers \in BOOLEAN : SetupHandled(applies, answers)
    \/ StatusRead
    \/ \E p \in Providers : ChooseProvider(p)
    \/ TypeKey
    \/ SaveModel
    \/ ModelSaved
    \/ EnrolNode
    \/ NodeStep
    \/ StatusShown
    \/ PairPhone
    \/ PhonePaired
    \/ PairingTicks
    \/ \E step \in 0..FirstRunSteps : Turns(step)
    \/ SkipSetup
    \/ ReopenSetup

FirstRunSpec == FirstRunInit /\ [][FirstRunNext]_frVars

-----------------------------------------------------------------------------

\* The wizard never leaves the backend with a default model that it has no
\* key for, though keys are forgotten once saved and a save may be repeated
\* without one; unless the provider was switched while one was under way.
DefaultHasItsKey == ~frSwitched => frDefault \in frKeys \cup {LocalProvider}

\* No dead code is on the screen, and every button comes back.
CodeIsAlive    == Open /\ frPairing => frLeft > 0
SetupBusyEnds  == frBusy => frFlow # NoSetupFlow

\* The wizard never says that a machine is enrolled that is not.
NodeIsEnrolled == Open /\ frNode => frEnrolled
=============================================================================
