--------------------------- MODULE BackendAuthority ---------------------------
(***************************************************************************)
(* Which backend the desktop client trusts, and with what credential:      *)
(* api/connection.ts, the screens that drive it (App.tsx, native/          *)
(* Onboarding.tsx, native/BackendConnection.tsx, native/                   *)
(* AuthorityRecovery.tsx, screens/Login.tsx, screens/settings/             *)
(* DesktopTab.tsx) and the native side that keeps the settings and the     *)
(* keyring (src-tauri/src/backend.rs, lib.rs).                             *)
(*                                                                         *)
(* A flow is one run of an async function of these screens.  It is         *)
(* suspended at each await; the steps of two flows interleave in any       *)
(* order.  A native command other than backend_resolve runs at once, and   *)
(* the answers of native commands arrive in the order in which they ended. *)
(* HTTP answers arrive at any time.                                        *)
(*                                                                         *)
(* A server has one instance_id and serves one origin, where another may   *)
(* take its place; any request to it may go unanswered.  The selected URL  *)
(* is always the preferred one of the strategy, so settings are the origin *)
(* they select.  Left out: URL validation, starting the service, the       *)
(* browser fallback and the HUD window, which has a client of its own.     *)
(***************************************************************************)
EXTENDS Naturals, Sequences

CONSTANTS Origins,
          Servers,   \* server instances
          NoServer,
          ServesAt,  \* server -> its origin
          AuthFlows, \* bound: flows at one time
          NoFlow

ASSUME AuthorityAssumption ==
    /\ NoServer \notin Servers
    /\ ServesAt \in [Servers -> Origins]
    /\ NoFlow \notin AuthFlows

VARIABLES auUp,       \* origin -> the server there
          auActive,   \* native: settings.active_url, its origin
          auPin,      \* native: settings.active_server_id
          auComplete, \* native: settings.onboarding_complete
          auBase,     \* configuredBaseUrl
          auIdentity, \* configuredServerInstanceId
          auDone,     \* cachedSettings.onboarding_complete
          auValid,    \* authorityValidated
          auToken,    \* cachedToken, by where it came from
          auView,     \* phase and authStatus, as the view they select
          auLatest,   \* the flow of the latest checkAuth
          auFlow,     \* flow -> what it runs and awaits
          auAnswers   \* flows whose native command has ended, in order

auNative == <<auActive, auPin, auComplete>>
auClient == <<auBase, auIdentity, auDone, auValid, auToken>>
auVars   == <<auUp, auNative, auClient, auView, auLatest, auFlow, auAnswers>>

MaybeServer == Servers \cup {NoServer}

\* Saving: check() and finish() of the onboarding, apply of the settings.
\* Recovering: AuthorityRecovery on the connection view and in the settings.
Saves    == {"draft", "finish", "apply"}
Recovers == {"recover", "replace"}

\* reevaluate and recheck are the buttons of these two views; monitor is the
\* probe of the disconnect monitor; lost is a flow of a window that reloaded.
Operations == Saves \cup Recovers
              \cup {"none", "check", "reevaluate", "recheck", "login", "logout", "monitor", "lost"}

\* What a flow awaits; got is the answer, or what the answer is about.
Awaits == {"nothing", "settings", "resolving", "resolved", "refused", "token", "posting", "storing",
           "clearing", "discarding", "status", "health"}

FlowState == [op : Operations, at : Awaits, fresh : BOOLEAN,
              origin : Origins, server : MaybeServer, ok : BOOLEAN]

NoToken == [origin |-> NoServer, server |-> NoServer, loaded |-> FALSE]
Tokens  == [origin : Origins, server : MaybeServer, loaded : BOOLEAN] \cup {NoToken}

AuthorityTypeOK ==
    /\ auUp \in [Origins -> Servers]
    /\ auActive \in Origins
    /\ auPin \in MaybeServer
    /\ auComplete \in BOOLEAN
    /\ auBase \in Origins
    /\ auIdentity \in MaybeServer
    /\ auDone \in BOOLEAN
    /\ auValid \in BOOLEAN
    /\ auToken \in Tokens
    /\ auView \in {"booting", "onboarding", "connection", "login", "shell"}
    /\ auLatest \in AuthFlows \cup {NoFlow}
    /\ auFlow \in [AuthFlows -> FlowState]
    /\ auAnswers \in Seq(AuthFlows)

-----------------------------------------------------------------------------
(* Flows.                                                                  *)

Quiet == [op |-> "none", at |-> "nothing", fresh |-> TRUE,
          origin |-> CHOOSE o \in Origins : TRUE, server |-> NoServer, ok |-> FALSE]

\* What backend_settings_get answers now.
Settings(op) == [op |-> op, at |-> "settings", fresh |-> TRUE,
                 origin |-> auActive', server |-> auPin', ok |-> auComplete']

\* tokenLoadGeneration += 1: a token on its way is not the latest any more.
TokensStale(flows) == [f \in AuthFlows |-> IF flows[f].at = "token"
                                           THEN [flows[f] EXCEPT !.fresh = FALSE] ELSE flows[f]]

\* The generation of the native settings moves: resolutions under way lapse.
ResolutionsStale(flows) == [f \in AuthFlows |-> IF flows[f].at = "resolving"
                                                THEN [flows[f] EXCEPT !.fresh = FALSE] ELSE flows[f]]

Arrives(f) == auAnswers # <<>> /\ Head(auAnswers) = f

FlowEnds(f, flows) == auFlow' = [flows EXCEPT ![f] = Quiet]

\* The flow calls a native command that ends at once.
Calls(f, flows, answers, next) == /\ auFlow' = [flows EXCEPT ![f] = next]
                                  /\ auAnswers' = Append(answers, f)

\* checkAuth(), past the resolution: asks the server for the auth status.
AsksStatus(f, flows) == auFlow' = [flows EXCEPT ![f] = [Quiet EXCEPT !.op = "check", !.at = "status"]]

\* checkAuth(false), when the onboarding is finished.
Completes(f, flows) == /\ auLatest' = f
                       /\ IF auDone
                          THEN AsksStatus(f, flows) /\ UNCHANGED auView
                          ELSE FlowEnds(f, flows) /\ auView' = "onboarding"

\* checkAuth(): reads the settings first.
StartsCheck(f, flows, answers) ==
    /\ auLatest' = f
    /\ Calls(f, flows, answers, Settings("check"))

\* window.location.reload(): a new client, with resolutions left running.
Reloads(f) == /\ auView' = "booting"
              /\ auLatest' = f
              /\ auIdentity' = NoServer /\ auDone' = FALSE
              /\ auValid' = FALSE /\ auToken' = NoToken
              /\ auAnswers' = <<f>>
              /\ auFlow' = [g \in AuthFlows |->
                               IF g = f THEN Settings("check")
                               ELSE IF auFlow[g].at = "resolving" THEN [auFlow[g] EXCEPT !.op = "lost"]
                               ELSE Quiet]

\* backend_resolve takes its snapshot of the settings.
Resolves(f, flows, op) ==
    auFlow' = [flows EXCEPT ![f] = [op |-> op, at |-> "resolving", fresh |-> TRUE,
                                    origin |-> auActive, server |-> auPin, ok |-> FALSE]]

\* The native side only touches the token of the authority it is pinned to.
TokenAuthority(o, s) == o = auActive /\ s = auPin

AuthorityInit ==
    /\ auUp \in [Origins -> Servers]
    /\ \A o \in Origins : ServesAt[auUp[o]] = o
    /\ auActive \in Origins
    /\ auPin \in {s \in Servers : ServesAt[s] = auActive} \cup {NoServer}
    /\ auComplete \in BOOLEAN
    /\ auBase = auActive
    /\ auIdentity = NoServer
    /\ auDone = FALSE
    /\ auValid = FALSE
    /\ auToken = NoToken
    /\ auView = "booting"
    /\ \E f \in AuthFlows :
          /\ auLatest = f
          /\ auFlow = [[g \in AuthFlows |-> Quiet] EXCEPT ![f] =
                          [op |-> "check", at |-> "settings", fresh |-> TRUE,
                           origin |-> auActive, server |-> auPin, ok |-> auComplete]]
          /\ auAnswers = <<f>>

-----------------------------------------------------------------------------
(* What the views offer.                                                   *)

OnboardingOffers(op) == op \in {"draft", "finish"}
ConnectionOffers(op) == op \in {"check", "reevaluate"} \/ (op = "recover" /\ auIdentity # NoServer)
LoginOffers(op)      == op = "login"
ShellOffers(op)      == op \in {"logout", "monitor", "apply", "recheck"} \/ (op = "replace" /\ auIdentity # NoServer)

Offered(op) == CASE auView = "onboarding" -> OnboardingOffers(op)
                 [] auView = "connection" -> ConnectionOffers(op)
                 [] auView = "login"      -> LoginOffers(op)
                 [] auView = "shell"      -> ShellOffers(op)
                 [] OTHER                 -> FALSE

\* A view that is left and opened again forgets the flows it started: the
\* busy flag of its buttons does not keep two of them from overlapping.
Begins(f, op) == auFlow[f].op = "none" /\ Offered(op)

OpenOnboarding ==
    /\ auView \in {"connection", "login", "shell"}
    /\ auView' = "onboarding"
    /\ auLatest' = NoFlow
    /\ UNCHANGED <<auUp, auNative, auClient, auFlow, auAnswers>>

Check(f) ==
    /\ Begins(f, "check")
    /\ UNCHANGED <<auUp, auNative, auClient, auView>>
    /\ StartsCheck(f, auFlow, auAnswers)

Reevaluate(f, op) ==
    /\ Begins(f, op) /\ op \in {"reevaluate", "recheck"}
    /\ Resolves(f, auFlow, op)
    /\ UNCHANGED <<auUp, auNative, auClient, auView, auLatest, auAnswers>>

\* saveConnectionSettings: for another origin the old credential goes
\* first, then the native side takes the settings.
Sets(f, flows, answers, op, o) ==
    /\ auActive' = o
    /\ auPin' = IF o = auActive THEN auPin ELSE NoServer
    /\ auComplete' = (op # "draft")
    /\ Calls(f, ResolutionsStale(flows), answers, Settings(op))

Save(f, op, o) ==
    /\ Begins(f, op) /\ op \in Saves
    /\ auValid' = FALSE
    /\ auToken' = NoToken
    /\ IF o # auBase /\ auIdentity # NoServer
       THEN /\ Calls(f, TokensStale(auFlow), auAnswers,
                     [op |-> op, at |-> "discarding", fresh |-> TRUE, origin |-> o, server |-> NoServer,
                      ok |-> TokenAuthority(auBase, auIdentity)])
            /\ UNCHANGED <<auActive, auPin, auComplete>>
       ELSE Sets(f, TokensStale(auFlow), auAnswers, op, o)
    /\ UNCHANGED <<auUp, auBase, auIdentity, auDone, auView, auLatest>>

\* backend_authority_replace_confirmed: the pin and the tokens of the origin go.
Recover(f, op) ==
    /\ Begins(f, op) /\ op \in Recovers
    /\ auPin' = NoServer
    /\ UNCHANGED <<auUp, auActive, auComplete, auClient, auView, auLatest>>
    /\ Calls(f, ResolutionsStale(auFlow), auAnswers, Settings(op))

\* A request that is sent to the server: sign in, sign out, health.
Requests(f, op, at) ==
    /\ Begins(f, op)
    /\ auFlow' = [auFlow EXCEPT ![f] = [Quiet EXCEPT !.op = op, !.at = at]]
    /\ UNCHANGED <<auUp, auNative, auClient, auView, auLatest, auAnswers>>

SignIn(f)  == Requests(f, "login", "posting")
LogOut(f)  == Requests(f, "logout", "posting")
Monitor(f) == Requests(f, "monitor", "health")

-----------------------------------------------------------------------------
(* Continuations.                                                          *)

Awaited(f, at) == auFlow[f].at = at /\ Arrives(f)

\* clearToken: the stored token goes only if it is the pinned authority's.
Clears(f, answers) ==
    IF auIdentity' = NoServer
    THEN auToken' = NoToken
    ELSE /\ UNCHANGED auToken
         /\ Calls(f, TokensStale(auFlow), answers,
                  [auFlow[f] EXCEPT !.at = "clearing", !.ok = TokenAuthority(auBase', auIdentity')])

\* An exception ends the flow; that of the latest check is shown.
Fails(f) == /\ FlowEnds(f, auFlow)
            /\ auView' = IF auFlow[f].op = "check" /\ auLatest = f THEN "connection" ELSE auView

SettingsAnswered(f) ==
    LET r == auFlow[f]
    IN  /\ Awaited(f, "settings")
        /\ auAnswers' = Tail(auAnswers)
        /\ auBase' = r.origin
        /\ auIdentity' = IF r.op \in Recovers THEN NoServer ELSE r.server
        /\ auDone' = r.ok
        /\ IF r.op \in Saves
           THEN UNCHANGED <<auValid, auToken>>
           ELSE auValid' = FALSE /\ auToken' = NoToken
        /\ IF r.op = "check" /\ ~r.ok
           THEN FlowEnds(f, TokensStale(auFlow)) /\ auView' = "onboarding"
           ELSE /\ Resolves(f, IF r.op \in Saves THEN auFlow ELSE TokensStale(auFlow), r.op)
                /\ UNCHANGED auView
        /\ UNCHANGED <<auUp, auNative, auLatest>>

\* The native resolution: the server that answers at the origin (or does
\* not, in time) is adopted unless another is pinned there, and unless the
\* settings have changed since the snapshot.
\* A server that is taken for the pinned one because it answers.
Answers(r, seen) == seen # NoServer

\* settings.active_server_id, if set, must be the server's.
Accepted(r, seen) == seen # NoServer /\ r.server \in {NoServer, seen}

ResolveEnds(f) ==
    \E seen \in {auUp[auFlow[f].origin], NoServer} :
        LET r == auFlow[f]
            adopts == r.fresh /\ Accepted(r, seen) /\ r.server # seen
        IN  /\ r.at = "resolving"
            /\ auPin' = IF adopts THEN seen ELSE auPin
            /\ auFlow' = [(IF adopts THEN ResolutionsStale(auFlow) ELSE auFlow) EXCEPT ![f] =
                             IF r.op = "lost" THEN Quiet
                             ELSE [r EXCEPT !.at = IF r.fresh THEN "resolved" ELSE "refused",
                                            !.fresh = TRUE, !.server = seen, !.ok = Accepted(r, seen)]]
            /\ auAnswers' = IF r.op = "lost" THEN auAnswers ELSE Append(auAnswers, f)
            /\ UNCHANGED <<auUp, auActive, auComplete, auClient, auView, auLatest>>

ResolveRefused(f) ==
    /\ Awaited(f, "refused")
    /\ auAnswers' = Tail(auAnswers)
    /\ UNCHANGED <<auUp, auNative, auClient, auLatest>>
    /\ Fails(f)

\* The identity the answer shows for the configured origin.
Observed(r) == IF r.origin = auBase \/ r.ok THEN r.server ELSE NoServer

IdentityChanged(r) == /\ r.op \notin Recovers
                      /\ auIdentity # NoServer /\ Observed(r) \notin {NoServer, auIdentity}

\* resolveConnection, for another identity than the configured one.
ResolvedToAnother(f) ==
    /\ Awaited(f, "resolved") /\ IdentityChanged(auFlow[f])
    /\ auValid' = FALSE
    /\ auToken' = NoToken
    /\ Calls(f, TokensStale(auFlow), Tail(auAnswers),
             [auFlow[f] EXCEPT !.at = "discarding", !.ok = FALSE])
    /\ UNCHANGED <<auUp, auActive, auPin, auComplete, auBase, auIdentity, auDone, auView, auLatest>>

\* ... for an endpoint that is not ready.
ResolvedUnhealthy(f) ==
    LET r == auFlow[f]
    IN  /\ Awaited(f, "resolved") /\ ~IdentityChanged(r) /\ ~r.ok
        /\ auBase' = IF r.op \in Recovers THEN auBase ELSE r.origin
        /\ UNCHANGED <<auUp, auNative>>
        /\ IF r.op = "apply"
           THEN Reloads(f)
           ELSE /\ IF r.op \in Recovers
                   THEN UNCHANGED <<auValid, auToken>>
                   ELSE auValid' = FALSE /\ auToken' = NoToken
                /\ auAnswers' = Tail(auAnswers)
                /\ UNCHANGED <<auIdentity, auDone>>
                /\ IF r.op = "finish"
                   THEN Completes(f, TokensStale(auFlow))
                   ELSE /\ FlowEnds(f, TokensStale(auFlow)) /\ UNCHANGED auLatest
                        /\ auView' = IF r.op = "check" /\ auLatest = f THEN "connection" ELSE auView

\* ... for the authority: it is validated, then its token is loaded, if the
\* keyring (external) holds one; after a confirmed replacement the token is
\* cleared instead.
Resolved(f) ==
    LET r == auFlow[f]
    IN  /\ Awaited(f, "resolved") /\ ~IdentityChanged(r) /\ r.ok
        /\ auBase' = r.origin
        /\ auIdentity' = r.server
        /\ auValid' = TRUE
        /\ IF r.op \in Recovers
           THEN Clears(f, Tail(auAnswers))
           ELSE /\ auToken' = IF r.origin = auBase THEN auToken ELSE NoToken
                /\ \E stored \in BOOLEAN :
                      Calls(f, TokensStale(auFlow), Tail(auAnswers),
                            [r EXCEPT !.at = "token", !.fresh = TRUE,
                                      !.ok = stored /\ TokenAuthority(r.origin, r.server)])
        /\ UNCHANGED <<auUp, auActive, auPin, auComplete, auDone, auView, auLatest>>

\* The answer of session_token_get is kept only if nothing changed since.
TokenIsCurrent(r) == r.fresh /\ r.origin = auBase /\ r.server = auIdentity /\ auValid

TokenLoaded(r) == IF ~TokenIsCurrent(r) THEN auToken
                  ELSE IF r.ok THEN [origin |-> r.origin, server |-> r.server, loaded |-> TRUE]
                  ELSE NoToken

TokenAnswered(f) ==
    LET r == auFlow[f]
    IN  /\ Awaited(f, "token")
        /\ UNCHANGED <<auUp, auNative, auBase>>
        /\ IF r.op = "apply"
           THEN Reloads(f)
           ELSE /\ auToken' = TokenLoaded(r)
                /\ UNCHANGED <<auIdentity, auDone, auValid>>
                /\ CASE r.op = "reevaluate" ->
                           StartsCheck(f, auFlow, Tail(auAnswers)) /\ UNCHANGED auView
                     [] r.op = "finish" ->
                           Completes(f, auFlow) /\ auAnswers' = Tail(auAnswers)
                     [] OTHER ->
                           /\ IF r.op = "check" /\ auLatest = f
                              THEN AsksStatus(f, auFlow) ELSE FlowEnds(f, auFlow)
                           /\ auAnswers' = Tail(auAnswers) /\ UNCHANGED <<auView, auLatest>>

\* The old credential is gone, or could not be: the settings are saved, or
\* the resolution fails.
Discarded(f) ==
    LET r == auFlow[f]
    IN  /\ Awaited(f, "discarding")
        /\ UNCHANGED <<auUp, auBase, auIdentity, auDone, auLatest>>
        /\ IF r.op \in Saves /\ r.ok
           THEN /\ auValid' = FALSE /\ auToken' = NoToken
                /\ Sets(f, TokensStale(auFlow), Tail(auAnswers), r.op, r.origin)
                /\ UNCHANGED auView
           ELSE /\ Fails(f)
                /\ auAnswers' = Tail(auAnswers)
                /\ UNCHANGED <<auActive, auPin, auComplete, auValid, auToken>>

\* The auth status of the server; only the latest check may show it.
StatusAnswered(f) ==
    /\ auFlow[f].at = "status"
    /\ UNCHANGED <<auUp, auNative, auClient, auLatest, auAnswers>>
    /\ FlowEnds(f, auFlow)
    /\ IF auLatest = f THEN auView' \in {"shell", "login", "connection"} ELSE UNCHANGED auView

\* The server answers a sign-in: it refuses, needs none, or gives a token.
LoginAnswered(f) ==
    /\ auFlow[f].op = "login" /\ auFlow[f].at = "posting"
    /\ UNCHANGED <<auUp, auActive, auPin, auComplete, auClient, auView>>
    /\ \/ /\ FlowEnds(f, auFlow)
          /\ UNCHANGED <<auLatest, auAnswers>>
       \/ StartsCheck(f, auFlow, auAnswers)
       \/ /\ auValid /\ auIdentity # NoServer
          /\ Calls(f, TokensStale(auFlow), auAnswers,
                   [auFlow[f] EXCEPT !.at = "storing", !.origin = auBase, !.server = auIdentity,
                                     !.ok = TokenAuthority(auBase, auIdentity)])
          /\ UNCHANGED auLatest

Stored(f) ==
    LET r == auFlow[f]
    IN  /\ Awaited(f, "storing")
        /\ UNCHANGED <<auUp, auNative, auBase, auIdentity, auDone, auValid, auView>>
        /\ IF r.ok
           THEN /\ auToken' = [origin |-> r.origin, server |-> r.server, loaded |-> FALSE]
                /\ StartsCheck(f, auFlow, Tail(auAnswers))
           ELSE FlowEnds(f, auFlow) /\ auAnswers' = Tail(auAnswers) /\ UNCHANGED <<auToken, auLatest>>

\* The server answered the sign-out, or did not; the monitor saw another
\* server or none.  Either way the token goes.
MustClear(f) ==
    \/ auFlow[f].op = "logout" /\ auFlow[f].at = "posting"
    \/ /\ auFlow[f].at = "health"
       /\ \E seen \in {auUp[auBase], NoServer} :
             seen = NoServer \/ (auIdentity # NoServer /\ seen # auIdentity)

ClearsToken(f) ==
    /\ MustClear(f)
    /\ UNCHANGED <<auUp, auActive, auPin, auComplete, auBase, auIdentity, auDone, auValid, auView, auLatest>>
    /\ Clears(f, auAnswers)
    /\ auIdentity = NoServer => FlowEnds(f, TokensStale(auFlow)) /\ UNCHANGED auAnswers

Healthy(f) ==
    /\ auFlow[f].at = "health"
    /\ auIdentity \in {NoServer, auUp[auBase]}
    /\ UNCHANGED <<auUp, auNative, auClient, auView, auLatest, auAnswers>>
    /\ FlowEnds(f, auFlow)

Cleared(f) ==
    LET r == auFlow[f]
    IN  /\ Awaited(f, "clearing")
        /\ UNCHANGED <<auUp, auNative, auBase>>
        /\ IF r.ok /\ r.op = "replace"
           THEN Reloads(f)
           ELSE /\ auToken' = IF r.ok THEN NoToken ELSE auToken
                /\ UNCHANGED <<auIdentity, auDone, auValid>>
                /\ IF r.ok /\ r.op \in {"logout", "recover"}
                   THEN /\ StartsCheck(f, auFlow, Tail(auAnswers))
                        /\ auView' = IF r.op = "logout" THEN "login" ELSE auView
                   ELSE /\ FlowEnds(f, auFlow)
                        /\ auAnswers' = Tail(auAnswers) /\ UNCHANGED <<auView, auLatest>>

\* A server takes the place of another (external).
ServerChanges(o) ==
    /\ \E s \in Servers \ {auUp[o]} : ServesAt[s] = o /\ auUp' = [auUp EXCEPT ![o] = s]
    /\ UNCHANGED <<auNative, auClient, auView, auLatest, auFlow, auAnswers>>

-----------------------------------------------------------------------------

AuthorityNext ==
    \/ OpenOnboarding
    \/ \E f \in AuthFlows :
          \/ Check(f)
          \/ \E op \in {"reevaluate", "recheck"} : Reevaluate(f, op)
          \/ \E op \in Saves, o \in Origins : Save(f, op, o)
          \/ \E op \in Recovers : Recover(f, op)
          \/ SignIn(f)
          \/ LogOut(f)
          \/ Monitor(f)
          \/ SettingsAnswered(f)
          \/ ResolveEnds(f)
          \/ ResolveRefused(f)
          \/ ResolvedToAnother(f)
          \/ ResolvedUnhealthy(f)
          \/ Resolved(f)
          \/ TokenAnswered(f)
          \/ Discarded(f)
          \/ StatusAnswered(f)
          \/ LoginAnswered(f)
          \/ Stored(f)
          \/ ClearsToken(f)
          \/ Healthy(f)
          \/ Cleared(f)
    \/ \E o \in Origins : ServerChanges(o)

AuthoritySpec == AuthorityInit /\ [][AuthorityNext]_auVars

-----------------------------------------------------------------------------

\* The identity that was pinned at an origin is never replaced in silence:
\* while the origin stays, the native side only drops its pin (the confirmed
\* replacement) and the client its identity, and neither goes from one
\* server to another, whatever resolutions, saves and replacements of
\* servers overlap.
AuthorityIsPinned ==
    [][/\ auActive' = auActive /\ auPin # NoServer => auPin' \in {auPin, NoServer}
       /\ auBase' = auBase /\ auIdentity # NoServer => auIdentity' \in {auIdentity, NoServer}]_auVars

\* The token that requests carry after it was read from the keyring is that
\* of the authority which is validated now: a token that arrives after the
\* origin, the identity or the validation has changed is dropped.
LoadedTokenIsOfTheAuthority ==
    auValid /\ auToken.loaded => auToken.origin = auBase /\ auToken.server = auIdentity
=============================================================================
