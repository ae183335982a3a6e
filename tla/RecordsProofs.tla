---------------------------- MODULE RecordsProofs -----------------------------
(*****************************************************************************)
(* What the program keeps record of: the trusted backend, for any origins,   *)
(* servers and flows; the tool servers, for any servers, versions and        *)
(* requests; the wake listener of a node, for any threads and claims; the    *)
(* mirror of the devices; and the permit and the tasks of a node.            *)
(*****************************************************************************)
EXTENDS BackendAuthority, McpLifecycle, WakeListener, DeviceRegistry, EdgeNode, SequenceTheorems,
        FiniteSetTheorems, TLAPS

-----------------------------------------------------------------------------
(* The trusted backend: what the client believes, the answers of native      *)
(* commands in their order, and the native settings are read as one list of  *)
(* claims about the authority.                                               *)

AnswerAwaits == {"settings", "resolved", "refused", "token", "storing", "clearing", "discarding"}

\* An answer shows the settings, with a pin or without, or names an origin.
ClaimKind(r) == CASE r.at = "settings" -> (IF r.server = NoServer THEN "unpins" ELSE "sees")
                  [] r.at = "resolved" -> (IF r.ok THEN "sees" ELSE "names")
                  [] OTHER -> "other"

ClaimOf(r)       == [kind |-> ClaimKind(r), origin |-> r.origin, server |-> r.server]
Believes(o, s)   == [kind |-> "sees", origin |-> o, server |-> s]

\* The client at o with identity s, the answers, the native side at a with pin p.
AuClaims(q, F, o, s, a, p) ==
    [i \in 0..(Len(q) + 1) |-> IF i = 0 THEN Believes(o, s)
                               ELSE IF i = Len(q) + 1 THEN Believes(a, p)
                               ELSE ClaimOf(F[q[i]])]

\* A later claim agrees with one that saw a server.
AuConfirms(x, y) == x.kind = "sees" /\ x.server # NoServer
                     => /\ y.kind \in {"sees", "names"} => y.origin = x.origin
                        /\ y.kind = "sees" => y.server = x.server

\* ... as long as no answer without a pin lies between them.
ClaimsAgree(c, n) ==
    \A i \in 0..n : \A j \in (i + 1)..n :
       (\A k \in (i + 1)..j : c[k].kind # "unpins") => AuConfirms(c[i], c[j])

SaveAnswer(r) == r.at = "settings" /\ r.op \in Saves
FreshToken(r) == r.at = "token" /\ r.fresh

\* The queue of answers: each flow waits for one at most, the claims agree,
\* and no answer of a save finds a token, l, or follows one on its way.
AnswersInv(q, F, o, s, l, a, p) ==
    /\ \A i \in 1..Len(q) : F[q[i]].at \in AnswerAwaits
    /\ \A i, j \in 1..Len(q) : q[i] = q[j] => i = j
    /\ ClaimsAgree(AuClaims(q, F, o, s, a, p), Len(q) + 1)
    /\ l => \A j \in 1..Len(q) : ~SaveAnswer(F[q[j]])
    /\ \A i, j \in 1..Len(q) : i < j /\ FreshToken(F[q[i]]) => ~SaveAnswer(F[q[j]])

\* A resolution that has not lapsed started from the native settings as they are.
SnapshotInv == \A f \in AuthFlows : auFlow[f].at = "resolving" /\ auFlow[f].fresh
                                       => auFlow[f].origin = auActive /\ auFlow[f].server = auPin

\* A flow that ended awaits nothing; a server was seen where one is accepted.
FlowsInv == \A f \in AuthFlows :
               /\ auFlow[f].op = "none" => auFlow[f].at = "nothing"
               /\ auFlow[f].at = "token" \/ (auFlow[f].at = "resolved" /\ auFlow[f].ok)
                     => auFlow[f].server # NoServer

\* A token that was loaded belongs to a validated authority.
TokenInv == /\ auToken.loaded => auValid /\ auToken.server # NoServer
            /\ LoadedTokenIsOfTheAuthority

AnswersAreInOrder == AnswersInv(auAnswers, auFlow, auBase, auIdentity, auToken.loaded, auActive, auPin)

AuthorityInv == AuthorityTypeOK /\ AnswersAreInOrder /\ FlowsInv /\ SnapshotInv /\ TokenInv

-----------------------------------------------------------------------------
(* The queue of answers.                                                   *)

LEMMA TailOfAnswers ==
    ASSUME NEW q \in Seq(AuthFlows), q # <<>>
    PROVE  /\ Tail(q) \in Seq(AuthFlows) /\ Len(q) \in Nat \ {0} /\ Len(Tail(q)) = Len(q) - 1
           /\ Head(q) = q[1] /\ q[1] \in AuthFlows
           /\ \A i \in 1..(Len(q) - 1) : Tail(q)[i] = q[i + 1]
  BY HeadTailProperties, EmptySeq, ElementOfSeq, LenProperties

LEMMA AppendedAnswer ==
    ASSUME NEW q \in Seq(AuthFlows), NEW f \in AuthFlows
    PROVE  /\ Append(q, f) \in Seq(AuthFlows) /\ Len(q) \in Nat /\ Len(Append(q, f)) = Len(q) + 1
           /\ Append(q, f)[Len(q) + 1] = f
           /\ \A i \in 1..Len(q) : Append(q, f)[i] = q[i]
  BY AppendProperties, LenProperties

\* The flows of the queue are as they were; a token on its way may have lapsed.
SameAnswers(q, F, G) ==
    \A i \in 1..Len(q) :
       /\ G[q[i]].at = F[q[i]].at /\ G[q[i]].op = F[q[i]].op
       /\ ClaimOf(G[q[i]]) = ClaimOf(F[q[i]])
       /\ G[q[i]].fresh => F[q[i]].fresh

\* Claims that agree still agree when the first is forgotten, repeated by
\* the next one, or merely followed by one that is no pin lost.
LEMMA ClaimsShift ==
    ASSUME NEW n \in Nat, NEW c, NEW d, ClaimsAgree(c, n + 1),
           \A i \in 1..n : d[i] = c[i + 1],
           d[0].kind = "sees",
           \/ d[0].server = NoServer
           \/ c[1].kind # "unpins" /\ d[0] = c[0]
           \/ d[0] = c[1]
    PROVE  ClaimsAgree(d, n)
<1> SUFFICES ASSUME NEW i \in 0..n, NEW j \in (i + 1)..n, \A k \in (i + 1)..j : d[k].kind # "unpins"
             PROVE  AuConfirms(d[i], d[j])
  BY DEF ClaimsAgree
<1>1. /\ i + 1 \in 0..(n + 1) /\ j + 1 \in (i + 2)..(n + 1) /\ j \in 1..n
      /\ d[j] = c[j + 1]
  OBVIOUS
<1>2. \A k \in (i + 2)..(j + 1) : c[k].kind # "unpins"
  <2> SUFFICES ASSUME NEW k \in (i + 2)..(j + 1) PROVE c[k].kind # "unpins"
    OBVIOUS
  <2>1. k - 1 \in (i + 1)..j /\ k - 1 \in 1..n /\ d[k - 1] = c[k]
    BY <1>1
  <2> QED BY <2>1
<1>3. AuConfirms(c[i + 1], c[j + 1])
  BY <1>1, <1>2 DEF ClaimsAgree
<1>4. CASE i # 0 \/ d[0] = c[1]
  BY <1>1, <1>3, <1>4
<1>5. CASE i = 0 /\ d[0].server = NoServer
  BY <1>5 DEF AuConfirms
<1>6. CASE i = 0 /\ c[1].kind # "unpins" /\ d[0] = c[0]
  <2>1. \A k \in 1..(j + 1) : c[k].kind # "unpins"
    BY <1>2, <1>6
  <2>2. AuConfirms(c[0], c[j + 1])
    BY <1>1, <2>1 DEF ClaimsAgree
  <2> QED BY <1>1, <1>6, <2>2
<1> QED BY <1>4, <1>5, <1>6

\* A claim put before the last one: it says nothing or what the last says,
\* or it is a pin lost and the last may change.
LEMMA ClaimsGrow ==
    ASSUME NEW n \in Nat, NEW c, NEW d, ClaimsAgree(c, n + 1),
           \A i \in 0..n : d[i] = c[i],
           c[n + 1].kind = "sees",
           \/ /\ d[n + 2] = c[n + 1]
              /\ \/ d[n + 1].kind = "other"
                 \/ d[n + 1].kind = "names" /\ d[n + 1].origin = c[n + 1].origin
                 \/ d[n + 1] = c[n + 1]
           \/ d[n + 1].kind = "unpins"
    PROVE  ClaimsAgree(d, n + 2)
<1> SUFFICES ASSUME NEW i \in 0..(n + 2), NEW j \in (i + 1)..(n + 2),
                    \A k \in (i + 1)..j : d[k].kind # "unpins"
             PROVE  AuConfirms(d[i], d[j])
  BY DEF ClaimsAgree
<1>1. CASE j \in 0..n
  <2>1. \A k \in i..j : d[k] = c[k]
    BY <1>1
  <2> QED BY <1>1, <2>1 DEF ClaimsAgree
<1>2. CASE i \in 0..n /\ j \in {n + 1, n + 2}
  <2>1. d[n + 1].kind # "unpins" /\ i \in 0..(n + 1) /\ n + 1 \in (i + 1)..(n + 1)
    BY <1>2
  <2>2. \A k \in (i + 1)..(n + 1) : c[k].kind # "unpins"
    BY <1>2, <2>1
  <2>3. AuConfirms(c[i], c[n + 1])
    BY <2>1, <2>2 DEF ClaimsAgree
  <2> QED BY <1>2, <2>1, <2>3 DEF AuConfirms
<1>3. CASE i = n + 1 /\ j = n + 2
  BY <1>3 DEF AuConfirms
<1> QED BY <1>1, <1>2, <1>3

\* The native side pins a server where it had none.
LEMMA ClaimsAdopt ==
    ASSUME NEW n \in Nat, NEW c, NEW d, ClaimsAgree(c, n + 1),
           \A i \in 0..n : d[i] = c[i],
           c[n + 1].kind = "sees", c[n + 1].server = NoServer,
           d[n + 1].kind = "sees"
    PROVE  ClaimsAgree(d, n + 1)
<1> SUFFICES ASSUME NEW i \in 0..(n + 1), NEW j \in (i + 1)..(n + 1),
                    \A k \in (i + 1)..j : d[k].kind # "unpins"
             PROVE  AuConfirms(d[i], d[j])
  BY DEF ClaimsAgree
<1>1. CASE j \in 0..n
  <2>1. \A k \in i..j : d[k] = c[k]
    BY <1>1
  <2> QED BY <1>1, <2>1 DEF ClaimsAgree
<1>2. CASE j = n + 1
  <2>1. i \in 0..n /\ \A k \in (i + 1)..j : c[k].kind # "unpins"
    BY <1>2
  <2>2. AuConfirms(c[i], c[n + 1])
    BY <1>2, <2>1 DEF ClaimsAgree
  <2> QED BY <1>2, <2>1, <2>2 DEF AuConfirms
<1> QED BY <1>1, <1>2

LEMMA AnswersStay ==
    ASSUME NEW q \in Seq(AuthFlows), NEW F, NEW G, NEW o, NEW s, NEW l \in BOOLEAN, NEW m \in BOOLEAN,
           NEW a, NEW p, AnswersInv(q, F, o, s, l, a, p), SameAnswers(q, F, G), m => l
    PROVE  AnswersInv(q, G, o, s, m, a, p)
<1>1. \A i \in 1..Len(q) : SaveAnswer(G[q[i]]) = SaveAnswer(F[q[i]])
                           /\ (FreshToken(G[q[i]]) => FreshToken(F[q[i]]))
  BY DEF SameAnswers, SaveAnswer, FreshToken
<1>2. \A i \in 0..(Len(q) + 1) : AuClaims(q, F, o, s, a, p)[i] = AuClaims(q, G, o, s, a, p)[i]
  BY LenProperties DEF AuClaims, SameAnswers
<1>3. ClaimsAgree(AuClaims(q, G, o, s, a, p), Len(q) + 1)
  BY <1>2, LenProperties DEF AnswersInv, ClaimsAgree
<1> QED BY <1>1, <1>3 DEF AnswersInv, SameAnswers

LEMMA AnswerTaken ==
    ASSUME NEW q \in Seq(AuthFlows), q # <<>>, NEW F, NEW o, NEW s, NEW l \in BOOLEAN, NEW m \in BOOLEAN,
           NEW a, NEW p, NEW o2, NEW s2,
           AnswersInv(q, F, o, s, l, a, p),
           \/ s2 = NoServer
           \/ ClaimKind(F[Head(q)]) # "unpins" /\ o2 = o /\ s2 = s
           \/ ClaimKind(F[Head(q)]) = "sees" /\ o2 = F[Head(q)].origin /\ s2 = F[Head(q)].server,
           m => l \/ FreshToken(F[Head(q)])
    PROVE  /\ AnswersInv(Tail(q), F, o2, s2, m, a, p)
           /\ \A i \in 1..Len(Tail(q)) : Tail(q)[i] # Head(q)
<1> DEFINE n == Len(Tail(q))
           c == AuClaims(q, F, o, s, a, p)
           d == AuClaims(Tail(q), F, o2, s2, a, p)
<1>1. n \in Nat /\ Len(q) = n + 1 /\ Head(q) = q[1] /\ \A i \in 1..n : Tail(q)[i] = q[i + 1]
  BY TailOfAnswers
<1>2. \A i \in 1..(n + 1) : d[i] = c[i + 1]
  <2> SUFFICES ASSUME NEW i \in 1..(n + 1) PROVE d[i] = c[i + 1]
    OBVIOUS
  <2>1. CASE i = n + 1
    BY <1>1, <2>1 DEF AuClaims
  <2>2. CASE i \in 1..n
    <3>1. d[i] = ClaimOf(F[Tail(q)[i]])
      BY <1>1, <2>2 DEF AuClaims
    <3>2. c[i + 1] = ClaimOf(F[q[i + 1]])
      BY <1>1, <2>2 DEF AuClaims
    <3> QED BY <1>1, <2>2, <3>1, <3>2
  <2> QED BY <2>1, <2>2
<1>3. /\ d[0] = Believes(o2, s2) /\ c[0] = Believes(o, s) /\ c[1] = ClaimOf(F[q[1]])
      /\ c[1].kind = ClaimKind(F[q[1]])
  BY <1>1 DEF AuClaims, ClaimOf
<1>4. /\ d[0].kind = "sees"
      /\ \/ d[0].server = NoServer
         \/ c[1].kind # "unpins" /\ d[0] = c[0]
         \/ d[0] = c[1]
  BY <1>1, <1>3 DEF Believes, ClaimOf
<1>5. ClaimsAgree(c, n + 2)
  BY <1>1 DEF AnswersInv
<1>6. ClaimsAgree(d, n + 1)
  <2> HIDE DEF c, d, n
  <2> QED BY <1>1, <1>2, <1>4, <1>5, ClaimsShift
<1>7. /\ \A i \in 1..n : F[Tail(q)[i]].at \in AnswerAwaits
      /\ \A i, j \in 1..n : Tail(q)[i] = Tail(q)[j] => i = j
      /\ \A i \in 1..n : Tail(q)[i] # Head(q)
  BY <1>1 DEF AnswersInv
<1>8. m => \A j \in 1..n : ~SaveAnswer(F[Tail(q)[j]])
  BY <1>1 DEF AnswersInv
<1>9. \A i, j \in 1..n : i < j /\ FreshToken(F[Tail(q)[i]]) => ~SaveAnswer(F[Tail(q)[j]])
  BY <1>1 DEF AnswersInv
<1> QED BY <1>6, <1>7, <1>8, <1>9 DEF AnswersInv

\* What the next answer, r, and the native side after it say.
Joins(r, a, p, a2, p2) ==
    \/ /\ a2 = a /\ p2 = p
       /\ \/ ClaimKind(r) = "other"
          \/ ClaimKind(r) = "names" /\ r.origin = a
          \/ ClaimKind(r) = "sees" /\ r.origin = a /\ r.server = p
    \/ ClaimKind(r) = "unpins"

LEMMA AnswerPut ==
    ASSUME NEW q \in Seq(AuthFlows), NEW F, NEW G, NEW f \in AuthFlows,
           NEW o, NEW s, NEW l \in BOOLEAN, NEW m \in BOOLEAN, NEW a, NEW p, NEW a2, NEW p2,
           AnswersInv(q, F, o, s, l, a, p), SameAnswers(q, F, G), m => l,
           \A i \in 1..Len(q) : q[i] # f,
           G[f].at \in AnswerAwaits,
           Joins(G[f], a, p, a2, p2),
           SaveAnswer(G[f]) => ~m /\ \A i \in 1..Len(q) : ~FreshToken(G[q[i]])
    PROVE  AnswersInv(Append(q, f), G, o, s, m, a2, p2)
<1> DEFINE n == Len(q)
           r == Append(q, f)
           c == AuClaims(q, G, o, s, a, p)
           d == AuClaims(r, G, o, s, a2, p2)
<1>1. AnswersInv(q, G, o, s, m, a, p)
  BY AnswersStay
<1>2. n \in Nat /\ Len(r) = n + 1 /\ r[n + 1] = f /\ \A i \in 1..n : r[i] = q[i]
  BY AppendedAnswer
<1>3. \A i \in 0..n : d[i] = c[i]
  BY <1>2 DEF AuClaims
<1>4. d[n + 1] = ClaimOf(G[f]) /\ d[n + 2] = Believes(a2, p2) /\ c[n + 1] = Believes(a, p)
  BY <1>2 DEF AuClaims
<1>5. /\ c[n + 1].kind = "sees"
      /\ \/ /\ d[n + 2] = c[n + 1]
            /\ \/ d[n + 1].kind = "other"
               \/ d[n + 1].kind = "names" /\ d[n + 1].origin = c[n + 1].origin
               \/ d[n + 1] = c[n + 1]
         \/ d[n + 1].kind = "unpins"
  BY <1>4 DEF Joins, Believes, ClaimOf
<1>6. ClaimsAgree(c, n + 1)
  BY <1>1 DEF AnswersInv
<1>7. ClaimsAgree(d, n + 2)
  <2> HIDE DEF c, d, n
  <2> QED BY <1>2, <1>3, <1>5, <1>6, ClaimsGrow
<1>8. /\ \A i \in 1..(n + 1) : G[r[i]].at \in AnswerAwaits
      /\ \A i, j \in 1..(n + 1) : r[i] = r[j] => i = j
  BY <1>1, <1>2 DEF AnswersInv
<1>9. m => \A j \in 1..(n + 1) : ~SaveAnswer(G[r[j]])
  BY <1>1, <1>2 DEF AnswersInv
<1>10. \A i, j \in 1..(n + 1) : i < j /\ FreshToken(G[r[i]]) => ~SaveAnswer(G[r[j]])
  BY <1>1, <1>2 DEF AnswersInv
<1> QED BY <1>2, <1>7, <1>8, <1>9, <1>10 DEF AnswersInv

LEMMA PinAdopted ==
    ASSUME NEW q \in Seq(AuthFlows), NEW F, NEW o, NEW s, NEW l \in BOOLEAN, NEW a, NEW p,
           AnswersInv(q, F, o, s, l, a, NoServer)
    PROVE  AnswersInv(q, F, o, s, l, a, p)
<1> DEFINE n == Len(q)
           c == AuClaims(q, F, o, s, a, NoServer)
           d == AuClaims(q, F, o, s, a, p)
<1>1. n \in Nat /\ ClaimsAgree(c, n + 1)
  BY LenProperties DEF AnswersInv
<1>2. /\ \A i \in 0..n : d[i] = c[i]
      /\ c[n + 1].kind = "sees" /\ c[n + 1].server = NoServer /\ d[n + 1].kind = "sees"
  BY <1>1 DEF AuClaims, Believes
<1>3. ClaimsAgree(d, n + 1)
  <2> HIDE DEF c, d, n
  <2> QED BY <1>1, <1>2, ClaimsAdopt
<1> QED BY <1>3 DEF AnswersInv

\* What the next answer says of the client's own belief.
LEMMA NextAnswerAgrees ==
    ASSUME NEW q \in Seq(AuthFlows), q # <<>>, NEW F, NEW o, NEW s, NEW l, NEW a, NEW p,
           AnswersInv(q, F, o, s, l, a, p), s # NoServer
    PROVE  /\ ClaimKind(F[Head(q)]) \in {"sees", "names"} => F[Head(q)].origin = o
           /\ ClaimKind(F[Head(q)]) = "sees" => F[Head(q)].server = s
<1> DEFINE n == Len(q)
           c == AuClaims(q, F, o, s, a, p)
<1>1. n \in Nat \ {0} /\ Head(q) = q[1]
  BY TailOfAnswers
<1>2. c[0] = Believes(o, s) /\ c[1] = ClaimOf(F[q[1]]) /\ ClaimsAgree(c, n + 1)
  BY <1>1 DEF AuClaims, AnswersInv
<1>3. c[1].kind # "unpins" => AuConfirms(c[0], c[1])
  <2> HIDE DEF c, n
  <2>1. 0 \in 0..(n + 1) /\ 1 \in (0 + 1)..(n + 1) /\ \A k \in (0 + 1)..1 : k = 1
    BY <1>1
  <2> QED BY <1>2, <2>1 DEF ClaimsAgree
<1> QED BY <1>1, <1>2, <1>3 DEF AuConfirms, Believes, ClaimOf

-----------------------------------------------------------------------------
(* Flows.                                                                  *)

LEMMA FlowTypes ==
    ASSUME AuthorityTypeOK
    PROVE  /\ Quiet \in FlowState
           /\ TokensStale(auFlow) \in [AuthFlows -> FlowState]
           /\ ResolutionsStale(auFlow) \in [AuthFlows -> FlowState]
           /\ ResolutionsStale(TokensStale(auFlow)) \in [AuthFlows -> FlowState]
<1>1. Quiet \in FlowState
  <2>1. (CHOOSE o \in Origins : TRUE) \in Origins
    BY DEF AuthorityTypeOK
  <2> QED BY <2>1 DEF Quiet, FlowState, Operations, Awaits, MaybeServer
<1>2. \A F \in [AuthFlows -> FlowState] : /\ TokensStale(F) \in [AuthFlows -> FlowState]
                                          /\ ResolutionsStale(F) \in [AuthFlows -> FlowState]
  BY DEF TokensStale, ResolutionsStale, FlowState
<1> QED BY <1>1, <1>2 DEF AuthorityTypeOK

LEMMA SettingsType ==
    ASSUME NEW op \in Operations, auActive' \in Origins, auPin' \in MaybeServer, auComplete' \in BOOLEAN
    PROVE  Settings(op) \in FlowState
  BY DEF Settings, FlowState, Awaits

LEMMA AwaitTypes ==
    ASSUME AuthorityTypeOK, NEW op \in Operations, NEW at \in Awaits
    PROVE  [Quiet EXCEPT !.op = op, !.at = at] \in FlowState
  BY FlowTypes DEF FlowState

LEMMA CallTypes ==
    ASSUME AuthorityTypeOK, NEW f \in AuthFlows, NEW F \in [AuthFlows -> FlowState],
           NEW q \in Seq(AuthFlows), NEW x \in FlowState, Calls(f, F, q, x)
    PROVE  auFlow' \in [AuthFlows -> FlowState] /\ auAnswers' \in Seq(AuthFlows)
  BY AppendedAnswer DEF Calls

LEMMA AnswerTypes ==
    ASSUME AuthorityTypeOK, NEW f \in AuthFlows, NEW at, Awaited(f, at)
    PROVE  auAnswers # <<>> /\ f = Head(auAnswers) /\ Tail(auAnswers) \in Seq(AuthFlows)
           /\ auFlow[f] \in FlowState /\ auFlow[f].at = at
  BY TailOfAnswers DEF AuthorityTypeOK, Awaited, Arrives

\* The views a check may show, and the flow it ends or goes on with.
LEMMA ReloadTypes ==
    ASSUME AuthorityTypeOK, NEW f \in AuthFlows, Reloads(f), UNCHANGED <<auUp, auNative>>, auBase' \in Origins
    PROVE  AuthorityTypeOK'
<1>1. <<f>> \in Seq(AuthFlows)
  OBVIOUS
<1>2. Settings("check") \in FlowState
  BY SettingsType DEF AuthorityTypeOK, auNative, Operations
<1>3. \A g \in AuthFlows : [auFlow[g] EXCEPT !.op = "lost"] \in FlowState
  BY DEF AuthorityTypeOK, FlowState, Operations
<1>4. auFlow' \in [AuthFlows -> FlowState]
  BY <1>2, <1>3, FlowTypes DEF Reloads, AuthorityTypeOK
<1> QED BY <1>1, <1>4 DEF Reloads, AuthorityTypeOK, auNative, MaybeServer, Tokens

LEMMA AuthorityTypes == AuthorityTypeOK /\ FlowsInv /\ [AuthorityNext]_auVars => AuthorityTypeOK'
<1> SUFFICES ASSUME AuthorityTypeOK, FlowsInv, [AuthorityNext]_auVars PROVE AuthorityTypeOK'
  OBVIOUS
<1> USE DEF auNative, auClient
<1>1. CASE OpenOnboarding
  BY <1>1 DEF OpenOnboarding, AuthorityTypeOK
<1>2. ASSUME NEW f \in AuthFlows, Check(f) PROVE AuthorityTypeOK'
  BY <1>2, SettingsType, CallTypes DEF Check, StartsCheck, AuthorityTypeOK, Operations
<1>3. ASSUME NEW f \in AuthFlows, NEW op \in {"reevaluate", "recheck"}, Reevaluate(f, op) PROVE AuthorityTypeOK'
  BY <1>3 DEF Reevaluate, Resolves, AuthorityTypeOK, FlowState, Operations, Awaits
<1>4. ASSUME NEW f \in AuthFlows, NEW op \in Saves, NEW o \in Origins, Save(f, op, o) PROVE AuthorityTypeOK'
  <2>1. op \in Operations
    BY DEF Operations
  <2>2. CASE o # auBase /\ auIdentity # NoServer
    <3>1. [op |-> op, at |-> "discarding", fresh |-> TRUE, origin |-> o, server |-> NoServer,
           ok |-> TokenAuthority(auBase, auIdentity)] \in FlowState
      BY <2>1 DEF FlowState, Awaits, MaybeServer, TokenAuthority
    <3> QED BY <1>4, <2>2, <3>1, CallTypes, FlowTypes DEF Save, AuthorityTypeOK, Tokens
  <2>3. CASE ~(o # auBase /\ auIdentity # NoServer)
    <3>1. auActive' \in Origins /\ auPin' \in MaybeServer /\ auComplete' \in BOOLEAN
      BY <1>4, <2>3 DEF Save, Sets, AuthorityTypeOK, MaybeServer
    <3>2. Settings(op) \in FlowState
      BY <2>1, <3>1, SettingsType
    <3> QED BY <1>4, <2>3, <3>1, <3>2, CallTypes, FlowTypes DEF Save, Sets, AuthorityTypeOK, Tokens
  <2> QED BY <2>2, <2>3
<1>5. ASSUME NEW f \in AuthFlows, NEW op \in Recovers, Recover(f, op) PROVE AuthorityTypeOK'
  <2>1. Settings(op) \in FlowState
    BY <1>5, SettingsType DEF Recover, AuthorityTypeOK, MaybeServer, Operations
  <2> QED BY <1>5, <2>1, CallTypes, FlowTypes DEF Recover, AuthorityTypeOK, MaybeServer
<1>6. ASSUME NEW f \in AuthFlows, SignIn(f) \/ LogOut(f) \/ Monitor(f) PROVE AuthorityTypeOK'
  <2>1. PICK op \in Operations, at \in Awaits : Requests(f, op, at)
    BY <1>6 DEF SignIn, LogOut, Monitor, Operations, Awaits
  <2>2. [Quiet EXCEPT !.op = op, !.at = at] \in FlowState
    BY AwaitTypes
  <2> QED BY <2>1, <2>2 DEF Requests, AuthorityTypeOK
<1>7. ASSUME NEW f \in AuthFlows, SettingsAnswered(f) PROVE AuthorityTypeOK'
  <2>1. auFlow[f] \in FlowState /\ auAnswers' \in Seq(AuthFlows)
    BY <1>7, AnswerTypes DEF SettingsAnswered
  <2>2. auFlow' \in [AuthFlows -> FlowState]
    <3>1. [op |-> auFlow[f].op, at |-> "resolving", fresh |-> TRUE,
           origin |-> auActive, server |-> auPin, ok |-> FALSE] \in FlowState
      BY <2>1 DEF AuthorityTypeOK, FlowState, Awaits
    <3> QED BY <1>7, <3>1, FlowTypes DEF SettingsAnswered, FlowEnds, Resolves, AuthorityTypeOK
  <2> QED BY <1>7, <2>1, <2>2 DEF SettingsAnswered, AuthorityTypeOK, FlowState, MaybeServer, Tokens
<1>8. ASSUME NEW f \in AuthFlows, ResolveEnds(f) PROVE AuthorityTypeOK'
  <2>1. PICK seen \in {auUp[auFlow[f].origin], NoServer} :
           LET r == auFlow[f]
               adopts == r.fresh /\ Accepted(r, seen) /\ r.server # seen
           IN  /\ auPin' = IF adopts THEN seen ELSE auPin
               /\ auFlow' = [(IF adopts THEN ResolutionsStale(auFlow) ELSE auFlow) EXCEPT ![f] =
                                IF r.op = "lost" THEN Quiet
                                ELSE [r EXCEPT !.at = IF r.fresh THEN "resolved" ELSE "refused",
                                               !.fresh = TRUE, !.server = seen, !.ok = Accepted(r, seen)]]
               /\ auAnswers' = IF r.op = "lost" THEN auAnswers ELSE Append(auAnswers, f)
               /\ UNCHANGED <<auUp, auActive, auComplete, auClient, auView, auLatest>>
    BY <1>8 DEF ResolveEnds
  <2>2. auFlow[f] \in FlowState /\ seen \in MaybeServer
    BY DEF AuthorityTypeOK, FlowState, MaybeServer
  <2>3. [auFlow[f] EXCEPT !.at = IF auFlow[f].fresh THEN "resolved" ELSE "refused",
                          !.fresh = TRUE, !.server = seen, !.ok = Accepted(auFlow[f], seen)] \in FlowState
    BY <2>2 DEF FlowState, Awaits, Accepted
  <2>4. auFlow' \in [AuthFlows -> FlowState]
    BY <2>1, <2>3, FlowTypes DEF AuthorityTypeOK
  <2>5. auAnswers' \in Seq(AuthFlows)
    BY <2>1, AppendedAnswer DEF AuthorityTypeOK
  <2> QED BY <2>1, <2>2, <2>4, <2>5 DEF AuthorityTypeOK
<1>9. ASSUME NEW f \in AuthFlows, ResolveRefused(f) PROVE AuthorityTypeOK'
  BY <1>9, AnswerTypes, FlowTypes DEF ResolveRefused, Fails, FlowEnds, AuthorityTypeOK
<1>10. ASSUME NEW f \in AuthFlows, ResolvedToAnother(f) PROVE AuthorityTypeOK'
  <2>1. auFlow[f] \in FlowState /\ Tail(auAnswers) \in Seq(AuthFlows)
    BY <1>10, AnswerTypes DEF ResolvedToAnother
  <2>2. [auFlow[f] EXCEPT !.at = "discarding", !.ok = FALSE] \in FlowState
    BY <2>1 DEF FlowState, Awaits
  <2> QED BY <1>10, <2>1, <2>2, CallTypes, FlowTypes DEF ResolvedToAnother, AuthorityTypeOK, Tokens
<1>11. ASSUME NEW f \in AuthFlows, ResolvedUnhealthy(f) PROVE AuthorityTypeOK'
  <2>1. auFlow[f] \in FlowState /\ Tail(auAnswers) \in Seq(AuthFlows)
    BY <1>11, AnswerTypes DEF ResolvedUnhealthy
  <2>2. auBase' \in Origins /\ UNCHANGED <<auUp, auNative>>
    BY <1>11, <2>1 DEF ResolvedUnhealthy, AuthorityTypeOK, FlowState
  <2>3. CASE auFlow[f].op = "apply"
    BY <1>11, <2>2, <2>3, ReloadTypes DEF ResolvedUnhealthy
  <2>4. CASE auFlow[f].op # "apply"
    <3>0. [Quiet EXCEPT !.op = "check", !.at = "status"] \in FlowState
      BY AwaitTypes DEF Operations, Awaits
    <3>1. auFlow' \in [AuthFlows -> FlowState]
      BY <1>11, <2>4, <3>0, FlowTypes DEF ResolvedUnhealthy, Completes, AsksStatus, FlowEnds
    <3> QED BY <1>11, <2>1, <2>2, <2>4, <3>1
            DEF ResolvedUnhealthy, Completes, AuthorityTypeOK, Tokens
  <2> QED BY <2>3, <2>4
<1>12. ASSUME NEW f \in AuthFlows, Resolved(f) PROVE AuthorityTypeOK'
  <2>1. auFlow[f] \in FlowState /\ Tail(auAnswers) \in Seq(AuthFlows)
    BY <1>12, AnswerTypes DEF Resolved
  <2>2. /\ [auFlow[f] EXCEPT !.at = "clearing", !.ok = TokenAuthority(auBase', auIdentity')] \in FlowState
        /\ \A stored \in BOOLEAN :
              [auFlow[f] EXCEPT !.at = "token", !.fresh = TRUE,
                                !.ok = stored /\ TokenAuthority(auFlow[f].origin, auFlow[f].server)] \in FlowState
    BY <2>1 DEF FlowState, Awaits, TokenAuthority
  <2>3. auFlow[f].at = "resolved" /\ auIdentity' = auFlow[f].server
    BY <1>12 DEF Resolved, Awaited
  <2>4. CASE auFlow[f].op \in Recovers
    <3>1. auFlow' \in [AuthFlows -> FlowState] /\ auAnswers' \in Seq(AuthFlows)
      <4>1. auIdentity' # NoServer
        BY <1>12, <2>3 DEF Resolved, FlowsInv
      <4> QED BY <1>12, <2>1, <2>2, <2>4, <4>1, CallTypes, FlowTypes DEF Resolved, Clears
    <3>2. auToken' \in Tokens
      BY <1>12, <2>4 DEF Resolved, Clears, AuthorityTypeOK, Tokens
    <3> QED BY <1>12, <2>1, <3>1, <3>2 DEF Resolved, AuthorityTypeOK, FlowState
  <2>5. CASE auFlow[f].op \notin Recovers
    BY <1>12, <2>1, <2>2, <2>5, CallTypes, FlowTypes
       DEF Resolved, AuthorityTypeOK, FlowState, Tokens
  <2> QED BY <2>4, <2>5
<1>13. ASSUME NEW f \in AuthFlows, TokenAnswered(f) PROVE AuthorityTypeOK'
  <2>1. auFlow[f] \in FlowState /\ Tail(auAnswers) \in Seq(AuthFlows)
    BY <1>13, AnswerTypes DEF TokenAnswered
  <2>2. CASE auFlow[f].op = "apply"
    BY <1>13, <2>2, ReloadTypes DEF TokenAnswered, AuthorityTypeOK
  <2>3. CASE auFlow[f].op # "apply"
    <3>1. auToken' \in Tokens
      <4>1. [origin |-> auFlow[f].origin, server |-> auFlow[f].server, loaded |-> TRUE] \in Tokens
        BY <2>1 DEF FlowState, Tokens
      <4>2. auToken' = TokenLoaded(auFlow[f])
        BY <1>13, <2>3 DEF TokenAnswered
      <4> QED BY <4>1, <4>2 DEF TokenLoaded, AuthorityTypeOK, Tokens
    <3>2. Settings("check") \in FlowState
      BY <1>13, SettingsType DEF TokenAnswered, AuthorityTypeOK, Operations
    <3>3. auFlow' \in [AuthFlows -> FlowState] /\ auAnswers' \in Seq(AuthFlows)
      <4>1. [Quiet EXCEPT !.op = "check", !.at = "status"] \in FlowState
        BY AwaitTypes DEF Operations, Awaits
      <4> QED BY <1>13, <2>1, <2>3, <3>2, <4>1, FlowTypes, CallTypes
              DEF TokenAnswered, StartsCheck, Completes, AsksStatus, FlowEnds, AuthorityTypeOK
    <3> QED BY <1>13, <2>3, <3>1, <3>3 DEF TokenAnswered, StartsCheck, Completes, AuthorityTypeOK
  <2> QED BY <2>2, <2>3
<1>14. ASSUME NEW f \in AuthFlows, Discarded(f) PROVE AuthorityTypeOK'
  <2>1. auFlow[f] \in FlowState /\ Tail(auAnswers) \in Seq(AuthFlows)
    BY <1>14, AnswerTypes DEF Discarded
  <2>2. CASE auFlow[f].op \in Saves /\ auFlow[f].ok
    <3>1. auActive' \in Origins /\ auPin' \in MaybeServer /\ auComplete' \in BOOLEAN
      BY <1>14, <2>1, <2>2 DEF Discarded, Sets, AuthorityTypeOK, MaybeServer, FlowState
    <3>2. Settings(auFlow[f].op) \in FlowState
      BY <2>1, <3>1, SettingsType DEF FlowState
    <3> QED BY <1>14, <2>1, <2>2, <3>1, <3>2, CallTypes, FlowTypes DEF Discarded, Sets, AuthorityTypeOK, Tokens
  <2>3. CASE ~(auFlow[f].op \in Saves /\ auFlow[f].ok)
    BY <1>14, <2>1, <2>3, FlowTypes DEF Discarded, Fails, FlowEnds, AuthorityTypeOK
  <2> QED BY <2>2, <2>3
<1>15. ASSUME NEW f \in AuthFlows, StatusAnswered(f) PROVE AuthorityTypeOK'
  BY <1>15, FlowTypes DEF StatusAnswered, FlowEnds, AuthorityTypeOK
<1>16. ASSUME NEW f \in AuthFlows, LoginAnswered(f) PROVE AuthorityTypeOK'
  <2>1. CASE FlowEnds(f, auFlow) /\ UNCHANGED <<auLatest, auAnswers>>
    BY <1>16, <2>1, FlowTypes DEF LoginAnswered, FlowEnds, AuthorityTypeOK
  <2>2. CASE StartsCheck(f, auFlow, auAnswers)
    <3>1. Settings("check") \in FlowState
      BY <1>16, SettingsType DEF LoginAnswered, AuthorityTypeOK, Operations
    <3> QED BY <1>16, <2>2, <3>1, CallTypes DEF LoginAnswered, StartsCheck, AuthorityTypeOK
  <2>3. CASE /\ Calls(f, TokensStale(auFlow), auAnswers,
                      [auFlow[f] EXCEPT !.at = "storing", !.origin = auBase, !.server = auIdentity,
                                        !.ok = TokenAuthority(auBase, auIdentity)])
             /\ UNCHANGED auLatest
    <3>1. [auFlow[f] EXCEPT !.at = "storing", !.origin = auBase, !.server = auIdentity,
                            !.ok = TokenAuthority(auBase, auIdentity)] \in FlowState
      BY DEF AuthorityTypeOK, FlowState, Awaits, TokenAuthority
    <3> QED BY <1>16, <2>3, <3>1, CallTypes, FlowTypes DEF LoginAnswered, AuthorityTypeOK
  <2> QED BY <1>16, <2>1, <2>2, <2>3 DEF LoginAnswered
<1>17. ASSUME NEW f \in AuthFlows, Stored(f) PROVE AuthorityTypeOK'
  <2>1. auFlow[f] \in FlowState /\ Tail(auAnswers) \in Seq(AuthFlows)
    BY <1>17, AnswerTypes DEF Stored
  <2>2. Settings("check") \in FlowState
    BY <1>17, SettingsType DEF Stored, AuthorityTypeOK, Operations
  <2>3. auFlow' \in [AuthFlows -> FlowState] /\ auAnswers' \in Seq(AuthFlows)
    BY <1>17, <2>1, <2>2, CallTypes, FlowTypes DEF Stored, StartsCheck, FlowEnds, AuthorityTypeOK
  <2>4. auToken' \in Tokens
    <3>1. [origin |-> auFlow[f].origin, server |-> auFlow[f].server, loaded |-> FALSE] \in Tokens
      BY <2>1 DEF FlowState, Tokens
    <3> QED BY <1>17, <3>1 DEF Stored, AuthorityTypeOK
  <2> QED BY <1>17, <2>3, <2>4 DEF Stored, StartsCheck, AuthorityTypeOK
<1>18. ASSUME NEW f \in AuthFlows, ClearsToken(f) PROVE AuthorityTypeOK'
  <2>1. [auFlow[f] EXCEPT !.at = "clearing", !.ok = TokenAuthority(auBase', auIdentity')] \in FlowState
    BY DEF AuthorityTypeOK, FlowState, Awaits, TokenAuthority
  <2>2. CASE auIdentity = NoServer
    BY <1>18, <2>2, FlowTypes DEF ClearsToken, Clears, FlowEnds, AuthorityTypeOK, Tokens
  <2>3. CASE auIdentity # NoServer
    BY <1>18, <2>1, <2>3, FlowTypes, CallTypes DEF ClearsToken, Clears, AuthorityTypeOK
  <2> QED BY <2>2, <2>3
<1>19. ASSUME NEW f \in AuthFlows, Healthy(f) PROVE AuthorityTypeOK'
  BY <1>19, FlowTypes DEF Healthy, FlowEnds, AuthorityTypeOK
<1>20. ASSUME NEW f \in AuthFlows, Cleared(f) PROVE AuthorityTypeOK'
  <2>1. auFlow[f] \in FlowState /\ Tail(auAnswers) \in Seq(AuthFlows)
    BY <1>20, AnswerTypes DEF Cleared
  <2>2. Settings("check") \in FlowState
    BY <1>20, SettingsType DEF Cleared, AuthorityTypeOK, Operations
  <2>3. CASE auFlow[f].ok /\ auFlow[f].op = "replace"
    BY <1>20, <2>3, ReloadTypes DEF Cleared, AuthorityTypeOK
  <2>4. CASE ~(auFlow[f].ok /\ auFlow[f].op = "replace")
    BY <1>20, <2>1, <2>2, <2>4, CallTypes, FlowTypes
       DEF Cleared, StartsCheck, FlowEnds, AuthorityTypeOK, Tokens
  <2> QED BY <2>3, <2>4
<1>21. ASSUME NEW o \in Origins, ServerChanges(o) PROVE AuthorityTypeOK'
  BY <1>21 DEF ServerChanges, AuthorityTypeOK
<1>22. CASE UNCHANGED auVars
  BY <1>22 DEF auVars, AuthorityTypeOK
<1> QED BY <1>1, <1>2, <1>3, <1>4, <1>5, <1>6, <1>7, <1>8, <1>9, <1>10, <1>11, <1>12, <1>13, <1>14,
           <1>15, <1>16, <1>17, <1>18, <1>19, <1>20, <1>21, <1>22 DEF AuthorityNext

-----------------------------------------------------------------------------
(* Steps on the queue of answers.                                          *)

\* r is r0, which may have lapsed.
Same(r, r0) == /\ r.at = r0.at /\ r.op = r0.op /\ r.ok = r0.ok
               /\ r.origin = r0.origin /\ r.server = r0.server
               /\ r.fresh => r0.fresh

\* A resolution that has not lapsed.
Pending(r) == r.at = "resolving" /\ r.fresh

\* The step is one of flow f.
AuMoves(f) ==
    \A g \in AuthFlows \ {f} : Same(auFlow'[g], auFlow[g])

Stalenesses == {auFlow, TokensStale(auFlow), ResolutionsStale(auFlow), ResolutionsStale(TokensStale(auFlow))}

LEMMA FlowMoves ==
    ASSUME AuthorityTypeOK, NEW f \in AuthFlows, NEW F \in Stalenesses, NEW x,
           auFlow' = [F EXCEPT ![f] = x]
    PROVE  /\ AuMoves(f)
           /\ auFlow'[f] = x
           /\ F \in {TokensStale(auFlow), ResolutionsStale(TokensStale(auFlow))}
                 => \A g \in AuthFlows \ {f} : ~FreshToken(auFlow'[g])
           /\ F \in {ResolutionsStale(auFlow), ResolutionsStale(TokensStale(auFlow))}
                 => \A g \in AuthFlows \ {f} : ~Pending(auFlow'[g])
<1>1. F \in [AuthFlows -> FlowState] /\ auFlow \in [AuthFlows -> FlowState]
  BY FlowTypes DEF Stalenesses, AuthorityTypeOK
<1>2. auFlow'[f] = x /\ \A g \in AuthFlows \ {f} : auFlow'[g] = F[g]
  BY <1>1
<1>3. \A G \in [AuthFlows -> FlowState] : \A g \in AuthFlows :
         /\ Same(TokensStale(G)[g], G[g]) /\ Same(ResolutionsStale(G)[g], G[g])
         /\ ~FreshToken(TokensStale(G)[g]) /\ ~Pending(ResolutionsStale(G)[g])
  BY DEF TokensStale, ResolutionsStale, FreshToken, FlowState, Same, Pending
<1>4. TokensStale(auFlow) \in [AuthFlows -> FlowState]
  BY FlowTypes
<1>5. \A g \in AuthFlows : /\ Same(ResolutionsStale(TokensStale(auFlow))[g], auFlow[g])
                           /\ ~FreshToken(ResolutionsStale(TokensStale(auFlow))[g])
  BY <1>1, <1>3, <1>4 DEF Same, FreshToken
<1>6. \A g \in AuthFlows : Same(F[g], auFlow[g])
  BY <1>1, <1>3, <1>5 DEF Stalenesses, Same
<1>7. AuMoves(f)
  BY <1>2, <1>6 DEF AuMoves, Same
<1>8. F \in {TokensStale(auFlow), ResolutionsStale(TokensStale(auFlow))}
         => \A g \in AuthFlows : ~FreshToken(F[g])
  BY <1>1, <1>3, <1>5
<1>9. F \in {ResolutionsStale(auFlow), ResolutionsStale(TokensStale(auFlow))}
         => \A g \in AuthFlows : ~Pending(F[g])
  BY <1>1, <1>3, <1>4
<1> QED BY <1>2, <1>7, <1>8, <1>9

LEMMA MovesSame ==
    ASSUME NEW f \in AuthFlows, AuMoves(f), NEW q \in Seq(AuthFlows), \A i \in 1..Len(q) : q[i] # f
    PROVE  SameAnswers(q, auFlow, auFlow')
<1>1. \A i \in 1..Len(q) : q[i] \in AuthFlows \ {f}
  BY ElementOfSeq
<1> QED BY <1>1 DEF AuMoves, Same, SameAnswers, ClaimOf, ClaimKind

\* A flow that awaits no answer is not in the queue.
Idle(f) == auFlow[f].at \notin AnswerAwaits

LEMMA IdleNotQueued ==
    ASSUME AuthorityTypeOK, AnswersAreInOrder, NEW f \in AuthFlows, Idle(f)
    PROVE  \A i \in 1..Len(auAnswers) : auAnswers[i] # f
  BY DEF AnswersAreInOrder, AnswersInv, Idle

LoadedType == auToken.loaded \in BOOLEAN /\ auToken'.loaded \in BOOLEAN

LEMMA LoadedIsBoolean ==
    ASSUME AuthorityTypeOK, AuthorityTypeOK' PROVE LoadedType
<1>1. \A t \in [origin : Origins, server : MaybeServer, loaded : BOOLEAN] : t.loaded \in BOOLEAN
  OBVIOUS
<1>2. NoToken.loaded \in BOOLEAN
  BY DEF NoToken
<1> QED BY <1>1, <1>2 DEF AuthorityTypeOK, Tokens, LoadedType

\* No answer is sent or received.
LEMMA AnswersWait ==
    ASSUME AuthorityTypeOK, LoadedType, AnswersAreInOrder, NEW f \in AuthFlows, Idle(f), AuMoves(f),
           UNCHANGED <<auAnswers, auBase, auIdentity, auActive>>,
           auPin' = auPin \/ auPin = NoServer,
           auToken'.loaded => auToken.loaded
    PROVE  AnswersAreInOrder'
<1>1. SameAnswers(auAnswers, auFlow, auFlow')
  BY IdleNotQueued, MovesSame DEF AuthorityTypeOK
<1>2. AnswersInv(auAnswers, auFlow', auBase, auIdentity, auToken'.loaded, auActive, auPin)
  BY <1>1, AnswersStay DEF AnswersAreInOrder, LoadedType, AuthorityTypeOK
<1>3. AnswersInv(auAnswers, auFlow', auBase, auIdentity, auToken'.loaded, auActive, auPin')
  BY <1>2, PinAdopted DEF LoadedType, AuthorityTypeOK
<1> QED BY <1>3 DEF AnswersAreInOrder

\* No save is to be answered with a token there, or one on its way before.
SaveIsAlone(f) == SaveAnswer(auFlow'[f])
                     => ~auToken'.loaded /\ \A g \in AuthFlows \ {f} : ~FreshToken(auFlow'[g])

\* Flow f, which awaits nothing, calls a native command.
LEMMA AnswerSent ==
    ASSUME AuthorityTypeOK, LoadedType, AnswersAreInOrder, NEW f \in AuthFlows, Idle(f), AuMoves(f),
           auAnswers' = Append(auAnswers, f),
           UNCHANGED <<auBase, auIdentity>>,
           auToken'.loaded => auToken.loaded,
           auFlow'[f].at \in AnswerAwaits,
           NEW p, p = auPin \/ auPin = NoServer,
           Joins(auFlow'[f], auActive, p, auActive', auPin'),
           SaveIsAlone(f)
    PROVE  AnswersAreInOrder'
<1>1. auAnswers \in Seq(AuthFlows) /\ SameAnswers(auAnswers, auFlow, auFlow')
  BY IdleNotQueued, MovesSame DEF AuthorityTypeOK
<1>2. AnswersInv(auAnswers, auFlow, auBase, auIdentity, auToken.loaded, auActive, p)
  BY <1>1, PinAdopted DEF AnswersAreInOrder, LoadedType
<1>3. SaveAnswer(auFlow'[f]) => ~auToken'.loaded
                                /\ \A i \in 1..Len(auAnswers) : ~FreshToken(auFlow'[auAnswers[i]])
  BY <1>1, IdleNotQueued, ElementOfSeq DEF SaveIsAlone
<1>4. AnswersInv(Append(auAnswers, f), auFlow', auBase, auIdentity, auToken'.loaded, auActive', auPin')
  BY <1>1, <1>2, <1>3, IdleNotQueued, AnswerPut DEF LoadedType
<1> QED BY <1>4 DEF AnswersAreInOrder

\* What the client believes after answer r.
ClientFollows(r) == \/ auIdentity' = NoServer
                    \/ ClaimKind(r) # "unpins" /\ UNCHANGED <<auBase, auIdentity>>
                    \/ ClaimKind(r) = "sees" /\ auBase' = r.origin /\ auIdentity' = r.server

LEMMA AnswerOut ==
    ASSUME AuthorityTypeOK, LoadedType, AnswersAreInOrder, NEW f \in AuthFlows, Arrives(f), AuMoves(f),
           ClientFollows(auFlow[f]),
           auToken'.loaded => auToken.loaded \/ FreshToken(auFlow[f])
    PROVE  /\ Tail(auAnswers) \in Seq(AuthFlows)
           /\ \A i \in 1..Len(Tail(auAnswers)) : Tail(auAnswers)[i] # f
           /\ SameAnswers(Tail(auAnswers), auFlow, auFlow')
           /\ AnswersInv(Tail(auAnswers), auFlow, auBase', auIdentity', auToken'.loaded, auActive, auPin)
<1>1. auAnswers \in Seq(AuthFlows) /\ auAnswers # <<>> /\ f = Head(auAnswers)
  BY DEF AuthorityTypeOK, Arrives
<1>2. Tail(auAnswers) \in Seq(AuthFlows)
  BY <1>1, TailOfAnswers
<1>3. /\ AnswersInv(Tail(auAnswers), auFlow, auBase', auIdentity', auToken'.loaded, auActive, auPin)
      /\ \A i \in 1..Len(Tail(auAnswers)) : Tail(auAnswers)[i] # f
  BY <1>1, AnswerTaken DEF AnswersAreInOrder, LoadedType, ClientFollows
<1>4. SameAnswers(Tail(auAnswers), auFlow, auFlow')
  BY <1>2, <1>3, MovesSame
<1> QED BY <1>2, <1>3, <1>4

\* The flow of the next answer goes on without another native command.
LEMMA AnswerReceived ==
    ASSUME AuthorityTypeOK, LoadedType, AnswersAreInOrder, NEW f \in AuthFlows, Arrives(f), AuMoves(f),
           ClientFollows(auFlow[f]),
           auToken'.loaded => auToken.loaded \/ FreshToken(auFlow[f]),
           auAnswers' = Tail(auAnswers),
           UNCHANGED <<auActive, auPin>>
    PROVE  AnswersAreInOrder'
<1>1. /\ Tail(auAnswers) \in Seq(AuthFlows)
      /\ SameAnswers(Tail(auAnswers), auFlow, auFlow')
      /\ AnswersInv(Tail(auAnswers), auFlow, auBase', auIdentity', auToken'.loaded, auActive, auPin)
  BY AnswerOut
<1>2. AnswersInv(Tail(auAnswers), auFlow', auBase', auIdentity', auToken'.loaded, auActive, auPin)
  BY <1>1, AnswersStay DEF LoadedType
<1> QED BY <1>2 DEF AnswersAreInOrder

\* It calls the next one at once.
LEMMA AnswerExchanged ==
    ASSUME AuthorityTypeOK, LoadedType, AnswersAreInOrder, NEW f \in AuthFlows, Arrives(f), AuMoves(f),
           ClientFollows(auFlow[f]),
           auToken'.loaded => auToken.loaded \/ FreshToken(auFlow[f]),
           auAnswers' = Append(Tail(auAnswers), f),
           auFlow'[f].at \in AnswerAwaits,
           Joins(auFlow'[f], auActive, auPin, auActive', auPin'),
           SaveIsAlone(f)
    PROVE  AnswersAreInOrder'
<1>1. /\ Tail(auAnswers) \in Seq(AuthFlows)
      /\ \A i \in 1..Len(Tail(auAnswers)) : Tail(auAnswers)[i] # f
      /\ SameAnswers(Tail(auAnswers), auFlow, auFlow')
      /\ AnswersInv(Tail(auAnswers), auFlow, auBase', auIdentity', auToken'.loaded, auActive, auPin)
  BY AnswerOut
<1>2. SaveAnswer(auFlow'[f]) => ~auToken'.loaded
                                /\ \A i \in 1..Len(Tail(auAnswers)) : ~FreshToken(auFlow'[Tail(auAnswers)[i]])
  BY <1>1, ElementOfSeq DEF SaveIsAlone
<1>3. AnswersInv(Append(Tail(auAnswers), f), auFlow', auBase', auIdentity', auToken'.loaded, auActive', auPin')
  BY <1>1, <1>2, AnswerPut DEF LoadedType
<1> QED BY <1>3 DEF AnswersAreInOrder

\* The answer of the settings says what the native side says.
LEMMA SettingsJoin ==
    ASSUME NEW op, UNCHANGED <<auActive, auPin>> \/ auPin' = NoServer
    PROVE  /\ Joins(Settings(op), auActive, auPin, auActive', auPin')
           /\ Settings(op).at \in AnswerAwaits
           /\ SaveAnswer(Settings(op)) => op \in Saves
  BY DEF Joins, Settings, ClaimKind, AnswerAwaits, SaveAnswer

\* Any other answer but a resolution says nothing of it.
LEMMA OthersJoin ==
    ASSUME NEW r, r.at \in {"token", "storing", "clearing", "discarding"}
    PROVE  /\ Joins(r, auActive, auPin, auActive, auPin)
           /\ r.at \in AnswerAwaits
           /\ ~SaveAnswer(r)
  BY DEF Joins, ClaimKind, AnswerAwaits, SaveAnswer

\* A window that reloads starts from one answer.
LEMMA ReloadAnswers ==
    ASSUME AuthorityTypeOK, NEW f \in AuthFlows, Reloads(f), UNCHANGED <<auActive, auPin>>
    PROVE  AnswersAreInOrder'
<1>1. ClaimsAgree(AuClaims(<<>>, auFlow', auBase', NoServer, auActive, auPin), 1)
  <2> DEFINE c == AuClaims(<<>>, auFlow', auBase', NoServer, auActive, auPin)
  <2>1. c[0] = Believes(auBase', NoServer)
    BY DEF AuClaims
  <2>2. \A j \in 1..1 : AuConfirms(c[0], c[j])
    BY <2>1 DEF AuConfirms, Believes
  <2> QED BY <2>2 DEF ClaimsAgree
<1>2. AnswersInv(<<>>, auFlow', auBase', NoServer, FALSE, auActive, auPin)
  BY <1>1 DEF AnswersInv
<1>3. <<>> \in Seq(AuthFlows) /\ Len(<<>>) = 0 /\ Append(<<>>, f) = <<f>>
  OBVIOUS
<1>4. auFlow'[f] = Settings("check") /\ auAnswers' = <<f>> /\ auIdentity' = NoServer /\ auToken'.loaded = FALSE
  BY DEF Reloads, NoToken
<1>5. ~SaveAnswer(auFlow'[f])
  BY <1>4, SettingsJoin DEF Saves
<1>6. SameAnswers(<<>>, auFlow', auFlow') /\ \A i \in 1..Len(<<>>) : <<>>[i] # f
  BY <1>3 DEF SameAnswers
<1>7. Joins(auFlow'[f], auActive, auPin, auActive, auPin) /\ auFlow'[f].at \in AnswerAwaits
  BY <1>4, SettingsJoin
<1>8. AnswersInv(Append(<<>>, f), auFlow', auBase', NoServer, FALSE, auActive, auPin)
  BY <1>2, <1>3, <1>5, <1>6, <1>7, AnswerPut
<1> QED BY <1>3, <1>4, <1>8 DEF AnswersAreInOrder

\* The server an answer shows for another identity than the client's is that
\* of an origin without one.
LEMMA ResolvedFollows ==
    ASSUME AuthorityTypeOK, AnswersAreInOrder, NEW f \in AuthFlows, Awaited(f, "resolved"), auIdentity # NoServer
    PROVE  /\ auFlow[f].origin = auBase
           /\ auFlow[f].ok => auFlow[f].server = auIdentity
  BY NextAnswerAgrees DEF AuthorityTypeOK, AnswersAreInOrder, Awaited, Arrives, ClaimKind

LEMMA AnswersStep ==
    AuthorityInv /\ AuthorityTypeOK' /\ [AuthorityNext]_auVars => AnswersAreInOrder'
<1> SUFFICES ASSUME AuthorityInv, AuthorityTypeOK', [AuthorityNext]_auVars PROVE AnswersAreInOrder'
  OBVIOUS
<1> USE DEF auNative, auClient
<1>0. /\ AuthorityTypeOK /\ AnswersAreInOrder /\ FlowsInv /\ SnapshotInv /\ TokenInv
      /\ LoadedType
      /\ \A f \in AuthFlows, op \in Operations : Begins(f, op) => Idle(f)
  BY LoadedIsBoolean DEF AuthorityInv, FlowsInv, Begins, Idle, AnswerAwaits
<1>a. /\ auFlow \in Stalenesses /\ TokensStale(auFlow) \in Stalenesses
      /\ ResolutionsStale(auFlow) \in Stalenesses /\ ResolutionsStale(TokensStale(auFlow)) \in Stalenesses
      /\ NoToken.loaded = FALSE
  BY DEF Stalenesses, NoToken
<1>1. CASE OpenOnboarding
  BY <1>0, <1>1 DEF OpenOnboarding, AnswersAreInOrder
<1>2. ASSUME NEW f \in AuthFlows, Check(f) PROVE AnswersAreInOrder'
  <2>1. Idle(f)
    BY <1>0, <1>2 DEF Check, Operations
  <2>2. AuMoves(f) /\ auFlow'[f] = Settings("check")
    BY <1>0, <1>2, <1>a, FlowMoves DEF Check, StartsCheck, Calls
  <2>3. SaveIsAlone(f)
    BY <2>2, SettingsJoin, <1>2 DEF Check, SaveIsAlone, Saves
  <2> QED BY <1>0, <1>2, <2>1, <2>2, <2>3, SettingsJoin, AnswerSent DEF Check, StartsCheck, Calls
<1>3. ASSUME NEW f \in AuthFlows, NEW op \in {"reevaluate", "recheck"}, Reevaluate(f, op) PROVE AnswersAreInOrder'
  <2>1. Idle(f)
    BY <1>0, <1>3 DEF Reevaluate, Operations
  <2>2. AuMoves(f)
    BY <1>0, <1>3, <1>a, FlowMoves DEF Reevaluate, Resolves
  <2> QED BY <1>0, <1>3, <2>1, <2>2, AnswersWait DEF Reevaluate
<1>4. ASSUME NEW f \in AuthFlows, NEW op \in Saves, NEW o \in Origins, Save(f, op, o) PROVE AnswersAreInOrder'
  <2>1. Idle(f) /\ auToken'.loaded = FALSE
    BY <1>0, <1>4, <1>a DEF Save, Operations
  <2>2. CASE o # auBase /\ auIdentity # NoServer
    <3> DEFINE x == [op |-> op, at |-> "discarding", fresh |-> TRUE, origin |-> o, server |-> NoServer,
                     ok |-> TokenAuthority(auBase, auIdentity)]
    <3>1. auFlow' = [TokensStale(auFlow) EXCEPT ![f] = x] /\ auAnswers' = Append(auAnswers, f)
          /\ UNCHANGED <<auActive, auPin, auBase, auIdentity>>
      BY <1>4, <2>2 DEF Save, Calls
    <3>2. AuMoves(f) /\ auFlow'[f] = x
      <4> HIDE DEF x
      <4> QED BY <1>0, <1>a, <3>1, FlowMoves
    <3>3. x.at = "discarding"
      OBVIOUS
    <3>4. SaveIsAlone(f) /\ auFlow'[f].at \in AnswerAwaits /\ Joins(auFlow'[f], auActive, auPin, auActive', auPin')
      <4> HIDE DEF x
      <4> QED BY <3>1, <3>2, <3>3, OthersJoin DEF SaveIsAlone
    <3> QED BY <1>0, <2>1, <3>1, <3>2, <3>4, AnswerSent
  <2>3. CASE ~(o # auBase /\ auIdentity # NoServer)
    <3>1. /\ auFlow' = [ResolutionsStale(TokensStale(auFlow)) EXCEPT ![f] = Settings(op)]
          /\ auAnswers' = Append(auAnswers, f)
          /\ UNCHANGED <<auBase, auIdentity>>
          /\ UNCHANGED <<auActive, auPin>> \/ auPin' = NoServer
      BY <1>4, <2>3 DEF Save, Sets, Calls
    <3>2. AuMoves(f) /\ auFlow'[f] = Settings(op) /\ \A g \in AuthFlows \ {f} : ~FreshToken(auFlow'[g])
      BY <1>0, <1>a, <3>1, FlowMoves
    <3> QED BY <1>0, <2>1, <3>1, <3>2, SettingsJoin, AnswerSent DEF SaveIsAlone
  <2> QED BY <2>2, <2>3
<1>5. ASSUME NEW f \in AuthFlows, NEW op \in Recovers, Recover(f, op) PROVE AnswersAreInOrder'
  <2>1. Idle(f)
    BY <1>0, <1>5 DEF Recover, Operations
  <2>2. AuMoves(f) /\ auFlow'[f] = Settings(op)
    BY <1>0, <1>5, <1>a, FlowMoves DEF Recover, Calls
  <2>3. auPin' = NoServer /\ op \notin Saves
    BY <1>5 DEF Recover, Recovers, Saves
  <2> QED BY <1>0, <1>5, <2>1, <2>2, <2>3, SettingsJoin, AnswerSent DEF Recover, Calls, SaveIsAlone
<1>6. ASSUME NEW f \in AuthFlows, SignIn(f) \/ LogOut(f) \/ Monitor(f) PROVE AnswersAreInOrder'
  <2>1. PICK op \in Operations, at \in Awaits : Requests(f, op, at)
    BY <1>6 DEF SignIn, LogOut, Monitor, Operations, Awaits
  <2>2. Idle(f) /\ AuMoves(f)
    BY <1>0, <1>a, <2>1, FlowMoves DEF Requests
  <2> QED BY <1>0, <2>1, <2>2, AnswersWait DEF Requests
<1>7. ASSUME NEW f \in AuthFlows, SettingsAnswered(f) PROVE AnswersAreInOrder'
  <2>1. Arrives(f) /\ auFlow[f].at = "settings" /\ auAnswers' = Tail(auAnswers) /\ UNCHANGED <<auActive, auPin>>
    BY <1>7 DEF SettingsAnswered, Awaited
  <2>2. AuMoves(f)
    <3>1. PICK F \in Stalenesses : \E x : auFlow' = [F EXCEPT ![f] = x]
      BY <1>7, <1>a DEF SettingsAnswered, FlowEnds, Resolves
    <3> QED BY <1>0, <3>1, FlowMoves
  <2>3. ClientFollows(auFlow[f])
    BY <1>7, <2>1 DEF SettingsAnswered, ClientFollows, ClaimKind
  <2>4. auToken'.loaded => auToken.loaded
    BY <1>7, <1>a DEF SettingsAnswered
  <2> QED BY <1>0, <2>1, <2>2, <2>3, <2>4, AnswerReceived
<1>8. ASSUME NEW f \in AuthFlows, ResolveEnds(f) PROVE AnswersAreInOrder'
  <2> DEFINE r == auFlow[f]
  <2>1. PICK seen \in {auUp[auFlow[f].origin], NoServer} :
           LET adopts == r.fresh /\ Accepted(r, seen) /\ r.server # seen
           IN  /\ r.at = "resolving"
               /\ auPin' = IF adopts THEN seen ELSE auPin
               /\ auFlow' = [(IF adopts THEN ResolutionsStale(auFlow) ELSE auFlow) EXCEPT ![f] =
                                IF r.op = "lost" THEN Quiet
                                ELSE [r EXCEPT !.at = IF r.fresh THEN "resolved" ELSE "refused",
                                               !.fresh = TRUE, !.server = seen, !.ok = Accepted(r, seen)]]
               /\ auAnswers' = IF r.op = "lost" THEN auAnswers ELSE Append(auAnswers, f)
               /\ UNCHANGED <<auUp, auActive, auComplete, auClient, auView, auLatest>>
    BY <1>8 DEF ResolveEnds
  <2>2. Idle(f) /\ r \in FlowState /\ r.fresh \in BOOLEAN
    BY <1>0, <2>1 DEF Idle, AnswerAwaits, AuthorityTypeOK, FlowState
  <2>3. AuMoves(f) /\ auFlow'[f] = IF r.op = "lost" THEN Quiet
                    ELSE [r EXCEPT !.at = IF r.fresh THEN "resolved" ELSE "refused",
                                   !.fresh = TRUE, !.server = seen, !.ok = Accepted(r, seen)]
    <3> DEFINE x == IF r.op = "lost" THEN Quiet
                    ELSE [r EXCEPT !.at = IF r.fresh THEN "resolved" ELSE "refused",
                                   !.fresh = TRUE, !.server = seen, !.ok = Accepted(r, seen)]
    <3>1. PICK F \in Stalenesses : auFlow' = [F EXCEPT ![f] = x]
      BY <1>a, <2>1
    <3> HIDE DEF x
    <3>2. AuMoves(f) /\ auFlow'[f] = x
      BY <1>0, <3>1, FlowMoves
    <3> QED BY <3>2 DEF x
  <2>4. auPin' = auPin \/ auPin = NoServer
    BY <1>0, <2>1 DEF SnapshotInv, Accepted
  <2>5. CASE r.op = "lost"
    <3>1. AnswersInv(auAnswers, auFlow', auBase, auIdentity, auToken.loaded, auActive, auPin)
      BY <1>0, <2>2, <2>3, IdleNotQueued, MovesSame, AnswersStay
         DEF AuthorityTypeOK, AnswersAreInOrder, LoadedType
    <3>2. AnswersInv(auAnswers, auFlow', auBase, auIdentity, auToken.loaded, auActive, auPin')
      BY <1>0, <2>4, <3>1, PinAdopted DEF AuthorityTypeOK, LoadedType
    <3> QED BY <2>1, <2>5, <3>2 DEF AnswersAreInOrder
  <2>6. CASE r.op # "lost"
    <3>1. /\ auFlow'[f].at = IF r.fresh THEN "resolved" ELSE "refused"
          /\ auFlow'[f].server = seen /\ auFlow'[f].ok = Accepted(r, seen) /\ auFlow'[f].origin = r.origin
      BY <2>2, <2>3, <2>6 DEF FlowState
    <3>2. r.fresh => r.origin = auActive /\ r.server = auPin
      BY <1>0, <2>1 DEF SnapshotInv
    <3>3. Joins(auFlow'[f], auActive, auPin', auActive', auPin')
      <4>1. CASE r.fresh /\ Accepted(r, seen)
        <5>1. auPin' = seen /\ seen # NoServer
          BY <2>1, <3>2, <4>1 DEF Accepted
        <5>2. ClaimKind(auFlow'[f]) = "sees"
          BY <3>1, <4>1 DEF ClaimKind
        <5> QED BY <2>1, <3>1, <3>2, <4>1, <5>1, <5>2 DEF Joins
      <4>2. CASE r.fresh /\ ~Accepted(r, seen)
        <5>1. ClaimKind(auFlow'[f]) = "names"
          BY <3>1, <4>2 DEF ClaimKind
        <5> QED BY <2>1, <3>1, <3>2, <4>2, <5>1 DEF Joins
      <4>3. CASE ~r.fresh
        <5>1. ClaimKind(auFlow'[f]) = "other"
          BY <3>1, <4>3 DEF ClaimKind
        <5> QED BY <2>1, <5>1 DEF Joins
      <4> QED BY <4>1, <4>2, <4>3
    <3>4. auFlow'[f].at \in AnswerAwaits /\ SaveIsAlone(f)
      BY <3>1 DEF AnswerAwaits, SaveIsAlone, SaveAnswer
    <3> QED BY <1>0, <2>1, <2>2, <2>3, <2>4, <2>6, <3>3, <3>4, AnswerSent
  <2> QED BY <2>5, <2>6
<1>9. ASSUME NEW f \in AuthFlows, ResolveRefused(f) PROVE AnswersAreInOrder'
  <2>1. AuMoves(f)
    BY <1>0, <1>a, <1>9, FlowMoves DEF ResolveRefused, Fails, FlowEnds
  <2>2. ClientFollows(auFlow[f])
    BY <1>9 DEF ResolveRefused, Awaited, ClientFollows, ClaimKind
  <2> QED BY <1>0, <1>9, <2>1, <2>2, AnswerReceived DEF ResolveRefused, Awaited
<1>10. ASSUME NEW f \in AuthFlows, ResolvedToAnother(f) PROVE AnswersAreInOrder'
  <2> DEFINE x == [auFlow[f] EXCEPT !.at = "discarding", !.ok = FALSE]
  <2>1. auFlow[f] \in FlowState /\ auFlow[f].at = "resolved" /\ x.at = "discarding"
    BY <1>0, <1>10 DEF ResolvedToAnother, Awaited, AuthorityTypeOK, FlowState
  <2>2. auFlow' = [TokensStale(auFlow) EXCEPT ![f] = x] /\ auAnswers' = Append(Tail(auAnswers), f)
        /\ Arrives(f) /\ UNCHANGED <<auActive, auPin, auBase, auIdentity>> /\ auToken'.loaded = FALSE
    BY <1>10, <1>a DEF ResolvedToAnother, Calls, Awaited
  <2> HIDE DEF x
  <2>3. AuMoves(f) /\ auFlow'[f] = x
    BY <1>0, <1>a, <2>2, FlowMoves
  <2>4. ClientFollows(auFlow[f])
    BY <2>1, <2>2 DEF ClientFollows, ClaimKind
  <2> QED BY <1>0, <2>1, <2>2, <2>3, <2>4, OthersJoin, AnswerExchanged DEF SaveIsAlone
<1>11. ASSUME NEW f \in AuthFlows, ResolvedUnhealthy(f) PROVE AnswersAreInOrder'
  <2>1. CASE auFlow[f].op = "apply"
    BY <1>0, <1>11, <2>1, ReloadAnswers DEF ResolvedUnhealthy
  <2>2. CASE auFlow[f].op # "apply"
    <3>1. Arrives(f) /\ auFlow[f].at = "resolved" /\ ~auFlow[f].ok
          /\ auAnswers' = Tail(auAnswers) /\ UNCHANGED <<auActive, auPin, auIdentity>>
          /\ auBase' \in {auBase, auFlow[f].origin}
      BY <1>11, <2>2 DEF ResolvedUnhealthy, Awaited
    <3>2. AuMoves(f)
      <4>1. \E x : auFlow' = [TokensStale(auFlow) EXCEPT ![f] = x]
        BY <1>11, <2>2 DEF ResolvedUnhealthy, Completes, AsksStatus, FlowEnds
      <4> QED BY <1>0, <1>a, <4>1, FlowMoves
    <3>3. auIdentity # NoServer => auBase' = auBase
      BY <1>0, <1>11, <3>1, ResolvedFollows DEF ResolvedUnhealthy
    <3>4. ClientFollows(auFlow[f])
      BY <3>1, <3>3 DEF ClientFollows, ClaimKind
    <3>5. auToken'.loaded => auToken.loaded
      BY <1>11, <2>2, <1>a DEF ResolvedUnhealthy
    <3> QED BY <1>0, <3>1, <3>2, <3>4, <3>5, AnswerReceived
  <2> QED BY <2>1, <2>2
<1>12. ASSUME NEW f \in AuthFlows, Resolved(f) PROVE AnswersAreInOrder'
  <2>1. /\ Arrives(f) /\ auFlow[f].at = "resolved" /\ auFlow[f].ok
        /\ auBase' = auFlow[f].origin /\ auIdentity' = auFlow[f].server
        /\ UNCHANGED <<auActive, auPin>>
        /\ auFlow[f].server # NoServer /\ auFlow[f] \in FlowState
    BY <1>0, <1>12 DEF Resolved, Awaited, FlowsInv, AuthorityTypeOK
  <2>2. AuMoves(f) /\ auFlow'[f].at \in {"token", "clearing"} /\ auAnswers' = Append(Tail(auAnswers), f)
    <3>1. CASE auFlow[f].op \in Recovers
      <4> DEFINE x == [auFlow[f] EXCEPT !.at = "clearing", !.ok = TokenAuthority(auBase', auIdentity')]
      <4>1. x.at = "clearing"
        BY <2>1 DEF FlowState
      <4>2. auFlow' = [TokensStale(auFlow) EXCEPT ![f] = x] /\ auAnswers' = Append(Tail(auAnswers), f)
        BY <1>12, <2>1, <3>1 DEF Resolved, Clears, Calls
      <4> HIDE DEF x
      <4> QED BY <1>0, <1>a, <4>1, <4>2, FlowMoves
    <3>2. CASE auFlow[f].op \notin Recovers
      <4>1. PICK stored \in BOOLEAN :
               Calls(f, TokensStale(auFlow), Tail(auAnswers),
                     [auFlow[f] EXCEPT !.at = "token", !.fresh = TRUE,
                                       !.ok = stored /\ TokenAuthority(auFlow[f].origin, auFlow[f].server)])
        BY <1>12, <3>2 DEF Resolved
      <4> DEFINE x == [auFlow[f] EXCEPT !.at = "token", !.fresh = TRUE,
                                        !.ok = stored /\ TokenAuthority(auFlow[f].origin, auFlow[f].server)]
      <4>2. x.at = "token"
        BY <2>1 DEF FlowState
      <4>3. auFlow' = [TokensStale(auFlow) EXCEPT ![f] = x] /\ auAnswers' = Append(Tail(auAnswers), f)
        BY <4>1 DEF Calls
      <4> HIDE DEF x
      <4> QED BY <1>0, <1>a, <4>2, <4>3, FlowMoves
    <3> QED BY <3>1, <3>2
  <2>5. ClientFollows(auFlow[f])
    BY <2>1 DEF ClientFollows, ClaimKind
  <2>6. auToken'.loaded => auToken.loaded
    BY <1>12, <1>a DEF Resolved, Clears
  <2>7. auFlow'[f].at \in AnswerAwaits /\ SaveIsAlone(f) /\ Joins(auFlow'[f], auActive, auPin, auActive', auPin')
    <3>1. auFlow'[f].at \in {"token", "storing", "clearing", "discarding"}
      BY <2>2
    <3>2. /\ Joins(auFlow'[f], auActive, auPin, auActive, auPin)
          /\ auFlow'[f].at \in AnswerAwaits /\ ~SaveAnswer(auFlow'[f])
      BY <3>1, OthersJoin
    <3> QED BY <2>1, <3>2 DEF SaveIsAlone
  <2> QED BY <1>0, <2>1, <2>2, <2>5, <2>6, <2>7, AnswerExchanged
<1>13. ASSUME NEW f \in AuthFlows, TokenAnswered(f) PROVE AnswersAreInOrder'
  <2>1. CASE auFlow[f].op = "apply"
    BY <1>0, <1>13, <2>1, ReloadAnswers DEF TokenAnswered
  <2>2. CASE auFlow[f].op # "apply"
    <3>1. Arrives(f) /\ auFlow[f].at = "token" /\ UNCHANGED <<auActive, auPin, auBase, auIdentity>>
      BY <1>13, <2>2 DEF TokenAnswered, Awaited
    <3>2. auToken'.loaded => auToken.loaded \/ FreshToken(auFlow[f])
      BY <1>13, <1>a, <2>2, <3>1 DEF TokenAnswered, TokenLoaded, TokenIsCurrent, FreshToken
    <3>3. ClientFollows(auFlow[f])
      BY <3>1 DEF ClientFollows, ClaimKind
    <3>4. CASE auFlow[f].op = "reevaluate"
      <4>1. auFlow' = [auFlow EXCEPT ![f] = Settings("check")] /\ auAnswers' = Append(Tail(auAnswers), f)
        BY <1>13, <3>4 DEF TokenAnswered, StartsCheck, Calls
      <4>2. AuMoves(f) /\ auFlow'[f] = Settings("check")
        BY <1>0, <1>a, <4>1, FlowMoves
      <4>3. SaveIsAlone(f)
        BY <3>1, <4>2, SettingsJoin DEF SaveIsAlone, Saves
      <4> QED BY <1>0, <3>1, <3>2, <3>3, <4>1, <4>2, <4>3, SettingsJoin, AnswerExchanged
    <3>5. CASE auFlow[f].op # "reevaluate"
      <4>1. auAnswers' = Tail(auAnswers) /\ \E x : auFlow' = [auFlow EXCEPT ![f] = x]
        BY <1>13, <2>2, <3>5 DEF TokenAnswered, Completes, AsksStatus, FlowEnds
      <4>2. AuMoves(f)
        BY <1>0, <1>a, <4>1, FlowMoves
      <4> QED BY <1>0, <3>1, <3>2, <3>3, <4>1, <4>2, AnswerReceived
    <3> QED BY <3>4, <3>5
  <2> QED BY <2>1, <2>2
<1>14. ASSUME NEW f \in AuthFlows, Discarded(f) PROVE AnswersAreInOrder'
  <2>1. Arrives(f) /\ auFlow[f].at = "discarding" /\ UNCHANGED <<auBase, auIdentity>>
    BY <1>14 DEF Discarded, Awaited
  <2>2. ClientFollows(auFlow[f])
    BY <2>1 DEF ClientFollows, ClaimKind
  <2>3. CASE auFlow[f].op \in Saves /\ auFlow[f].ok
    <3>1. /\ auFlow' = [ResolutionsStale(TokensStale(auFlow)) EXCEPT ![f] = Settings(auFlow[f].op)]
          /\ auAnswers' = Append(Tail(auAnswers), f)
          /\ auToken'.loaded = FALSE
          /\ UNCHANGED <<auActive, auPin>> \/ auPin' = NoServer
      BY <1>14, <1>a, <2>3 DEF Discarded, Sets, Calls
    <3>2. AuMoves(f) /\ auFlow'[f] = Settings(auFlow[f].op) /\ \A g \in AuthFlows \ {f} : ~FreshToken(auFlow'[g])
      BY <1>0, <1>a, <3>1, FlowMoves
    <3> QED BY <1>0, <2>1, <2>2, <3>1, <3>2, SettingsJoin, AnswerExchanged DEF SaveIsAlone
  <2>4. CASE ~(auFlow[f].op \in Saves /\ auFlow[f].ok)
    <3>1. AuMoves(f)
      BY <1>0, <1>a, <1>14, <2>4, FlowMoves DEF Discarded, Fails, FlowEnds
    <3> QED BY <1>0, <1>14, <2>1, <2>2, <2>4, <3>1, AnswerReceived DEF Discarded
  <2> QED BY <2>3, <2>4
<1>15. ASSUME NEW f \in AuthFlows, StatusAnswered(f) PROVE AnswersAreInOrder'
  <2>1. Idle(f) /\ AuMoves(f)
    BY <1>0, <1>a, <1>15, FlowMoves DEF StatusAnswered, FlowEnds, Idle, AnswerAwaits
  <2> QED BY <1>0, <1>15, <2>1, AnswersWait DEF StatusAnswered
<1>16. ASSUME NEW f \in AuthFlows, LoginAnswered(f) PROVE AnswersAreInOrder'
  <2>1. Idle(f) /\ UNCHANGED <<auActive, auPin, auClient>>
    BY <1>16 DEF LoginAnswered, Idle, AnswerAwaits
  <2>2. CASE FlowEnds(f, auFlow) /\ UNCHANGED <<auLatest, auAnswers>>
    <3>1. AuMoves(f)
      BY <1>0, <1>a, <2>2, FlowMoves DEF FlowEnds
    <3> QED BY <1>0, <2>1, <2>2, <3>1, AnswersWait
  <2>3. CASE StartsCheck(f, auFlow, auAnswers)
    <3>1. AuMoves(f) /\ auFlow'[f] = Settings("check")
      BY <1>0, <1>a, <2>3, FlowMoves DEF StartsCheck, Calls
    <3>2. SaveIsAlone(f)
      BY <2>1, <3>1, SettingsJoin DEF SaveIsAlone, Saves
    <3> QED BY <1>0, <2>1, <2>3, <3>1, <3>2, SettingsJoin, AnswerSent DEF StartsCheck, Calls
  <2>4. CASE Calls(f, TokensStale(auFlow), auAnswers,
                   [auFlow[f] EXCEPT !.at = "storing", !.origin = auBase, !.server = auIdentity,
                                     !.ok = TokenAuthority(auBase, auIdentity)])
    <3> DEFINE x == [auFlow[f] EXCEPT !.at = "storing", !.origin = auBase, !.server = auIdentity,
                                      !.ok = TokenAuthority(auBase, auIdentity)]
    <3>1. auFlow' = [TokensStale(auFlow) EXCEPT ![f] = x] /\ auAnswers' = Append(auAnswers, f)
      BY <2>4 DEF Calls
    <3>2. x.at = "storing"
      BY <1>0 DEF AuthorityTypeOK, FlowState
    <3> HIDE DEF x
    <3>3. AuMoves(f) /\ auFlow'[f] = x
      BY <1>0, <1>a, <3>1, FlowMoves
    <3> QED BY <1>0, <2>1, <3>1, <3>2, <3>3, OthersJoin, AnswerSent DEF SaveIsAlone
  <2> QED BY <1>16, <2>2, <2>3, <2>4 DEF LoginAnswered
<1>17. ASSUME NEW f \in AuthFlows, Stored(f) PROVE AnswersAreInOrder'
  <2>1. Arrives(f) /\ auFlow[f].at = "storing" /\ UNCHANGED <<auActive, auPin, auBase, auIdentity>>
        /\ (auToken'.loaded => auToken.loaded)
    BY <1>17 DEF Stored, Awaited
  <2>2. ClientFollows(auFlow[f])
    BY <2>1 DEF ClientFollows, ClaimKind
  <2>3. CASE auFlow[f].ok
    <3>1. auFlow' = [auFlow EXCEPT ![f] = Settings("check")] /\ auAnswers' = Append(Tail(auAnswers), f)
      BY <1>17, <2>3 DEF Stored, StartsCheck, Calls
    <3>2. AuMoves(f) /\ auFlow'[f] = Settings("check")
      BY <1>0, <1>a, <3>1, FlowMoves
    <3>3. SaveIsAlone(f)
      BY <2>1, <3>2, SettingsJoin DEF SaveIsAlone, Saves
    <3> QED BY <1>0, <2>1, <2>2, <3>1, <3>2, <3>3, SettingsJoin, AnswerExchanged
  <2>4. CASE ~auFlow[f].ok
    <3>1. AuMoves(f)
      BY <1>0, <1>a, <1>17, <2>4, FlowMoves DEF Stored, FlowEnds
    <3> QED BY <1>0, <1>17, <2>1, <2>2, <2>4, <3>1, AnswerReceived DEF Stored
  <2> QED BY <2>3, <2>4
<1>18. ASSUME NEW f \in AuthFlows, ClearsToken(f) PROVE AnswersAreInOrder'
  <2>1. Idle(f) /\ UNCHANGED <<auActive, auPin, auBase, auIdentity>> /\ (auToken'.loaded => auToken.loaded)
    BY <1>18, <1>0, <1>a DEF ClearsToken, MustClear, Clears, Idle, AnswerAwaits
  <2>2. CASE auIdentity = NoServer
    <3>1. AuMoves(f) /\ UNCHANGED auAnswers
      BY <1>0, <1>a, <1>18, <2>2, FlowMoves DEF ClearsToken, FlowEnds
    <3> QED BY <1>0, <2>1, <3>1, AnswersWait
  <2>3. CASE auIdentity # NoServer
    <3> DEFINE x == [auFlow[f] EXCEPT !.at = "clearing", !.ok = TokenAuthority(auBase', auIdentity')]
    <3>1. auFlow' = [TokensStale(auFlow) EXCEPT ![f] = x] /\ auAnswers' = Append(auAnswers, f)
      BY <1>18, <2>1, <2>3 DEF ClearsToken, Clears, Calls
    <3>2. x.at = "clearing"
      BY <1>0 DEF AuthorityTypeOK, FlowState
    <3> HIDE DEF x
    <3>3. AuMoves(f) /\ auFlow'[f] = x
      BY <1>0, <1>a, <3>1, FlowMoves
    <3> QED BY <1>0, <2>1, <3>1, <3>2, <3>3, OthersJoin, AnswerSent DEF SaveIsAlone
  <2> QED BY <2>2, <2>3
<1>19. ASSUME NEW f \in AuthFlows, Healthy(f) PROVE AnswersAreInOrder'
  <2>1. Idle(f) /\ AuMoves(f)
    BY <1>0, <1>a, <1>19, FlowMoves DEF Healthy, FlowEnds, Idle, AnswerAwaits
  <2> QED BY <1>0, <1>19, <2>1, AnswersWait DEF Healthy
<1>20. ASSUME NEW f \in AuthFlows, Cleared(f) PROVE AnswersAreInOrder'
  <2>1. CASE auFlow[f].ok /\ auFlow[f].op = "replace"
    BY <1>0, <1>20, <2>1, ReloadAnswers DEF Cleared
  <2>2. CASE ~(auFlow[f].ok /\ auFlow[f].op = "replace")
    <3>1. Arrives(f) /\ auFlow[f].at = "clearing" /\ UNCHANGED <<auActive, auPin, auBase, auIdentity>>
          /\ (auToken'.loaded => auToken.loaded)
      BY <1>20, <1>a, <2>2 DEF Cleared, Awaited
    <3>2. ClientFollows(auFlow[f])
      BY <3>1 DEF ClientFollows, ClaimKind
    <3>3. CASE auFlow[f].ok /\ auFlow[f].op \in {"logout", "recover"}
      <4>1. auFlow' = [auFlow EXCEPT ![f] = Settings("check")] /\ auAnswers' = Append(Tail(auAnswers), f)
        BY <1>20, <2>2, <3>3 DEF Cleared, StartsCheck, Calls
      <4>2. AuMoves(f) /\ auFlow'[f] = Settings("check")
        BY <1>0, <1>a, <4>1, FlowMoves
      <4>3. SaveIsAlone(f)
        BY <3>1, <4>2, SettingsJoin DEF SaveIsAlone, Saves
      <4> QED BY <1>0, <3>1, <3>2, <4>1, <4>2, <4>3, SettingsJoin, AnswerExchanged
    <3>4. CASE ~(auFlow[f].ok /\ auFlow[f].op \in {"logout", "recover"})
      <4>1. AuMoves(f)
        BY <1>0, <1>a, <1>20, <2>2, <3>4, FlowMoves DEF Cleared, FlowEnds
      <4> QED BY <1>0, <1>20, <2>2, <3>1, <3>2, <3>4, <4>1, AnswerReceived DEF Cleared
    <3> QED BY <3>3, <3>4
  <2> QED BY <2>1, <2>2
<1>21. ASSUME NEW o \in Origins, ServerChanges(o) PROVE AnswersAreInOrder'
  BY <1>0, <1>21 DEF ServerChanges, AnswersAreInOrder
<1>22. CASE UNCHANGED auVars
  BY <1>0, <1>22 DEF auVars, AnswersAreInOrder
<1> QED BY <1>1, <1>2, <1>3, <1>4, <1>5, <1>6, <1>7, <1>8, <1>9, <1>10, <1>11, <1>12, <1>13, <1>14,
           <1>15, <1>16, <1>17, <1>18, <1>19, <1>20, <1>21, <1>22 DEF AuthorityNext

-----------------------------------------------------------------------------
(* What a flow holds.                                                      *)

\* What is to be shown of the flow that moves, and of the others when the
\* native settings change.
LEMMA FlowsStay ==
    ASSUME FlowsInv, SnapshotInv, NEW f \in AuthFlows, AuMoves(f),
           auFlow'[f].op = "none" => auFlow'[f].at = "nothing",
           auFlow'[f].at = "token" \/ (auFlow'[f].at = "resolved" /\ auFlow'[f].ok)
              => auFlow'[f].server # NoServer,
           auFlow'[f].at = "resolving" => auFlow'[f].origin = auActive' /\ auFlow'[f].server = auPin',
           UNCHANGED <<auActive, auPin>> \/ \A g \in AuthFlows \ {f} : ~Pending(auFlow'[g])
    PROVE  FlowsInv' /\ SnapshotInv'
<1>1. FlowsInv'
  BY DEF FlowsInv, AuMoves, Same
<1>2. SnapshotInv'
  BY DEF SnapshotInv, AuMoves, Same, Pending
<1> QED BY <1>1, <1>2

\* A flow that rests or waits for HTTP holds nothing to be shown.
LEMMA RestStays ==
    ASSUME AuthorityTypeOK, FlowsInv, SnapshotInv, NEW f \in AuthFlows, NEW F \in Stalenesses,
           NEW op \in Operations \ {"none"}, NEW at \in {"status", "posting", "health"},
           auFlow' = [F EXCEPT ![f] = Quiet] \/ auFlow' = [F EXCEPT ![f] = [Quiet EXCEPT !.op = op, !.at = at]],
           UNCHANGED <<auActive, auPin>>
    PROVE  FlowsInv' /\ SnapshotInv'
<1>1. CASE auFlow' = [F EXCEPT ![f] = Quiet]
  <2>1. AuMoves(f) /\ auFlow'[f] = Quiet
    BY <1>1, FlowMoves
  <2> QED BY <2>1, FlowsStay DEF Quiet
<1>2. CASE auFlow' = [F EXCEPT ![f] = [Quiet EXCEPT !.op = op, !.at = at]]
  <2> DEFINE x == [Quiet EXCEPT !.op = op, !.at = at]
  <2>1. x.op = op /\ x.at = at
    BY DEF Quiet
  <2> HIDE DEF x
  <2>2. AuMoves(f) /\ auFlow'[f] = x
    BY <1>2, FlowMoves DEF x
  <2> QED BY <2>1, <2>2, FlowsStay
<1> QED BY <1>1, <1>2

\* A flow that calls a native command other than the resolution.
LEMMA CallStays ==
    ASSUME AuthorityTypeOK, FlowsInv, SnapshotInv, NEW f \in AuthFlows, NEW F \in Stalenesses,
           NEW x, auFlow' = [F EXCEPT ![f] = x],
           x.op # "none", x.at \in {"settings", "storing", "clearing", "discarding", "token"},
           x.at = "token" => x.server # NoServer,
           \/ UNCHANGED <<auActive, auPin>>
           \/ F \in {ResolutionsStale(auFlow), ResolutionsStale(TokensStale(auFlow))}
    PROVE  FlowsInv' /\ SnapshotInv'
<1>1. AuMoves(f) /\ auFlow'[f] = x
  BY FlowMoves
<1>2. UNCHANGED <<auActive, auPin>> \/ \A g \in AuthFlows \ {f} : ~Pending(auFlow'[g])
  BY FlowMoves
<1> QED BY <1>1, <1>2, FlowsStay

LEMMA SettingsCall == \A op : Settings(op).op = op /\ Settings(op).at = "settings"
  BY DEF Settings

LEMMA ReloadFlows ==
    ASSUME AuthorityTypeOK, FlowsInv, SnapshotInv, NEW f \in AuthFlows, Reloads(f), UNCHANGED <<auActive, auPin>>
    PROVE  FlowsInv' /\ SnapshotInv'
<1>1. auFlow'[f] = Settings("check")
  BY DEF Reloads
<1>2. Quiet.op = "none" /\ Quiet.at = "nothing"
  BY DEF Quiet
<1>3. ASSUME NEW g \in AuthFlows, g # f
      PROVE  \/ auFlow'[g].op = "none" /\ auFlow'[g].at = "nothing"
             \/ /\ auFlow'[g].op = "lost" /\ auFlow'[g].at = "resolving"
                /\ Pending(auFlow'[g]) => Pending(auFlow[g])
                /\ auFlow'[g].origin = auFlow[g].origin /\ auFlow'[g].server = auFlow[g].server
  <2>1. CASE auFlow[g].at = "resolving"
    <3>1. auFlow'[g] = [auFlow[g] EXCEPT !.op = "lost"] /\ auFlow[g] \in FlowState
      BY <1>3, <2>1 DEF Reloads, AuthorityTypeOK
    <3> QED BY <2>1, <3>1 DEF FlowState, Pending
  <2>2. CASE auFlow[g].at # "resolving"
    BY <1>2, <1>3, <2>2 DEF Reloads
  <2> QED BY <2>1, <2>2
<1>4. FlowsInv'
  <2> SUFFICES ASSUME NEW g \in AuthFlows
               PROVE  /\ auFlow'[g].op = "none" => auFlow'[g].at = "nothing"
                      /\ auFlow'[g].at \notin {"token", "resolved"}
    BY DEF FlowsInv
  <2> QED BY <1>1, <1>3, SettingsCall
<1>5. SnapshotInv'
  <2> SUFFICES ASSUME NEW g \in AuthFlows, Pending(auFlow'[g])
               PROVE  auFlow'[g].origin = auActive /\ auFlow'[g].server = auPin
    BY DEF SnapshotInv, Pending
  <2> QED BY <1>1, <1>3, SettingsCall DEF SnapshotInv, Pending
<1> QED BY <1>4, <1>5

LEMMA FlowsStep ==
    AuthorityInv /\ [AuthorityNext]_auVars => FlowsInv' /\ SnapshotInv'
<1> SUFFICES ASSUME AuthorityInv, [AuthorityNext]_auVars PROVE FlowsInv' /\ SnapshotInv'
  OBVIOUS
<1> USE DEF auNative, auClient
<1>0. AuthorityTypeOK /\ FlowsInv /\ SnapshotInv
  BY DEF AuthorityInv
<1>a. /\ auFlow \in Stalenesses /\ TokensStale(auFlow) \in Stalenesses
      /\ ResolutionsStale(auFlow) \in Stalenesses /\ ResolutionsStale(TokensStale(auFlow)) \in Stalenesses
  BY DEF Stalenesses
<1>b. "check" \in Operations \ {"none"} /\ "status" \in {"status", "posting", "health"}
  BY DEF Operations
<1>c. \A f \in AuthFlows : /\ auFlow[f] \in FlowState
                           /\ auFlow[f].at # "nothing" => auFlow[f].op # "none"
  BY <1>0 DEF AuthorityTypeOK, FlowsInv
<1>1. CASE OpenOnboarding
  BY <1>0, <1>1 DEF OpenOnboarding, FlowsInv, SnapshotInv
<1>2. ASSUME NEW f \in AuthFlows, Check(f) PROVE FlowsInv' /\ SnapshotInv'
  BY <1>0, <1>a, <1>2, SettingsCall, CallStays DEF Check, StartsCheck, Calls
<1>3. ASSUME NEW f \in AuthFlows, NEW op \in {"reevaluate", "recheck"}, Reevaluate(f, op)
      PROVE  FlowsInv' /\ SnapshotInv'
  <2> DEFINE x == [op |-> op, at |-> "resolving", fresh |-> TRUE,
                   origin |-> auActive, server |-> auPin, ok |-> FALSE]
  <2>1. x.op = op /\ x.at = "resolving" /\ x.origin = auActive /\ x.server = auPin
    OBVIOUS
  <2>2. auFlow' = [auFlow EXCEPT ![f] = x] /\ UNCHANGED <<auActive, auPin>>
    BY <1>3 DEF Reevaluate, Resolves
  <2> HIDE DEF x
  <2>3. AuMoves(f) /\ auFlow'[f] = x
    BY <1>0, <1>a, <2>2, FlowMoves
  <2> QED BY <1>0, <2>1, <2>2, <2>3, FlowsStay
<1>4. ASSUME NEW f \in AuthFlows, NEW op \in Saves, NEW o \in Origins, Save(f, op, o)
      PROVE  FlowsInv' /\ SnapshotInv'
  <2>1. CASE o # auBase /\ auIdentity # NoServer
    <3> DEFINE x == [op |-> op, at |-> "discarding", fresh |-> TRUE, origin |-> o, server |-> NoServer,
                     ok |-> TokenAuthority(auBase, auIdentity)]
    <3>1. x.op # "none" /\ x.at = "discarding"
      BY DEF Saves
    <3>2. auFlow' = [TokensStale(auFlow) EXCEPT ![f] = x] /\ UNCHANGED <<auActive, auPin>>
      BY <1>4, <2>1 DEF Save, Calls
    <3> HIDE DEF x
    <3> QED BY <1>0, <1>a, <3>1, <3>2, CallStays
  <2>2. CASE ~(o # auBase /\ auIdentity # NoServer)
    <3>1. auFlow' = [ResolutionsStale(TokensStale(auFlow)) EXCEPT ![f] = Settings(op)]
      BY <1>4, <2>2 DEF Save, Sets, Calls
    <3> QED BY <1>0, <1>a, <3>1, SettingsCall, CallStays DEF Saves
  <2> QED BY <2>1, <2>2
<1>5. ASSUME NEW f \in AuthFlows, NEW op \in Recovers, Recover(f, op) PROVE FlowsInv' /\ SnapshotInv'
  BY <1>0, <1>a, <1>5, SettingsCall, CallStays DEF Recover, Calls, Recovers
<1>6. ASSUME NEW f \in AuthFlows, SignIn(f) \/ LogOut(f) \/ Monitor(f) PROVE FlowsInv' /\ SnapshotInv'
  <2>1. PICK op \in Operations \ {"none"}, at \in {"status", "posting", "health"} : Requests(f, op, at)
    BY <1>6 DEF SignIn, LogOut, Monitor, Operations
  <2> QED BY <1>0, <1>a, <2>1, RestStays DEF Requests
<1>7. ASSUME NEW f \in AuthFlows, SettingsAnswered(f) PROVE FlowsInv' /\ SnapshotInv'
  <2>1. UNCHANGED <<auActive, auPin>> /\ auFlow[f].op # "none"
    BY <1>7, <1>c DEF SettingsAnswered, Awaited
  <2>2. CASE auFlow[f].op = "check" /\ ~auFlow[f].ok
    BY <1>0, <1>a, <1>b, <1>7, <2>1, <2>2, RestStays DEF SettingsAnswered, FlowEnds
  <2>3. CASE ~(auFlow[f].op = "check" /\ ~auFlow[f].ok)
    <3> DEFINE x == [op |-> auFlow[f].op, at |-> "resolving", fresh |-> TRUE,
                     origin |-> auActive, server |-> auPin, ok |-> FALSE]
    <3>1. x.op = auFlow[f].op /\ x.at = "resolving" /\ x.origin = auActive /\ x.server = auPin
      OBVIOUS
    <3>2. auFlow' = [auFlow EXCEPT ![f] = x] \/ auFlow' = [TokensStale(auFlow) EXCEPT ![f] = x]
      BY <1>7, <2>3 DEF SettingsAnswered, Resolves
    <3> HIDE DEF x
    <3>3. AuMoves(f) /\ auFlow'[f] = x
      BY <1>0, <1>a, <3>2, FlowMoves
    <3> QED BY <1>0, <2>1, <3>1, <3>3, FlowsStay
  <2> QED BY <2>2, <2>3
<1>8. ASSUME NEW f \in AuthFlows, ResolveEnds(f) PROVE FlowsInv' /\ SnapshotInv'
  <2> DEFINE r == auFlow[f]
  <2>1. PICK seen \in {auUp[auFlow[f].origin], NoServer} :
           LET adopts == r.fresh /\ Accepted(r, seen) /\ r.server # seen
           IN  /\ r.at = "resolving"
               /\ auPin' = IF adopts THEN seen ELSE auPin
               /\ auFlow' = [(IF adopts THEN ResolutionsStale(auFlow) ELSE auFlow) EXCEPT ![f] =
                                IF r.op = "lost" THEN Quiet
                                ELSE [r EXCEPT !.at = IF r.fresh THEN "resolved" ELSE "refused",
                                               !.fresh = TRUE, !.server = seen, !.ok = Accepted(r, seen)]]
               /\ UNCHANGED auActive
    BY <1>8 DEF ResolveEnds
  <2> DEFINE x == IF r.op = "lost" THEN Quiet
                  ELSE [r EXCEPT !.at = IF r.fresh THEN "resolved" ELSE "refused",
                                 !.fresh = TRUE, !.server = seen, !.ok = Accepted(r, seen)]
             adopts == r.fresh /\ Accepted(r, seen) /\ r.server # seen
  <2>2. /\ x.op = "none" => x.at = "nothing"
        /\ x.at \notin {"token", "resolving"}
        /\ x.at = "resolved" /\ x.ok => x.server # NoServer
    BY <1>c, <2>1 DEF Quiet, FlowState, Accepted
  <2>3. PICK F \in Stalenesses : /\ auFlow' = [F EXCEPT ![f] = x]
                                 /\ F = ResolutionsStale(auFlow) \/ UNCHANGED <<auActive, auPin>>
    <3>1. CASE adopts
      <4>1. auFlow' = [ResolutionsStale(auFlow) EXCEPT ![f] = x]
        BY <2>1, <3>1
      <4> HIDE DEF x
      <4> QED BY <1>a, <4>1
    <3>2. CASE ~adopts
      <4>1. auFlow' = [auFlow EXCEPT ![f] = x] /\ UNCHANGED <<auActive, auPin>>
        BY <2>1, <3>2
      <4> HIDE DEF x
      <4> QED BY <1>a, <4>1
    <3> QED BY <3>1, <3>2
  <2> HIDE DEF x
  <2>4. AuMoves(f) /\ auFlow'[f] = x
    BY <1>0, <2>3, FlowMoves
  <2>5. UNCHANGED <<auActive, auPin>> \/ \A g \in AuthFlows \ {f} : ~Pending(auFlow'[g])
    BY <1>0, <2>3, FlowMoves
  <2> QED BY <1>0, <2>2, <2>4, <2>5, FlowsStay
<1>9. ASSUME NEW f \in AuthFlows, ResolveRefused(f) PROVE FlowsInv' /\ SnapshotInv'
  BY <1>0, <1>a, <1>b, <1>9, RestStays DEF ResolveRefused, Fails, FlowEnds
<1>10. ASSUME NEW f \in AuthFlows, ResolvedToAnother(f) PROVE FlowsInv' /\ SnapshotInv'
  <2> DEFINE x == [auFlow[f] EXCEPT !.at = "discarding", !.ok = FALSE]
  <2>1. x.op # "none" /\ x.at = "discarding"
    BY <1>c, <1>10 DEF ResolvedToAnother, Awaited, FlowState
  <2>2. auFlow' = [TokensStale(auFlow) EXCEPT ![f] = x] /\ UNCHANGED <<auActive, auPin>>
    BY <1>10 DEF ResolvedToAnother, Calls
  <2> HIDE DEF x
  <2> QED BY <1>0, <1>a, <2>1, <2>2, CallStays
<1>11. ASSUME NEW f \in AuthFlows, ResolvedUnhealthy(f) PROVE FlowsInv' /\ SnapshotInv'
  <2>1. CASE auFlow[f].op = "apply"
    BY <1>0, <1>11, <2>1, ReloadFlows DEF ResolvedUnhealthy
  <2>2. CASE auFlow[f].op # "apply"
    BY <1>0, <1>a, <1>b, <1>11, <2>2, RestStays DEF ResolvedUnhealthy, Completes, AsksStatus, FlowEnds
  <2> QED BY <2>1, <2>2
<1>12. ASSUME NEW f \in AuthFlows, Resolved(f) PROVE FlowsInv' /\ SnapshotInv'
  <2>1. /\ auFlow[f].op # "none" /\ auFlow[f].server # NoServer
        /\ UNCHANGED <<auActive, auPin>> /\ auIdentity' = auFlow[f].server
    BY <1>0, <1>c, <1>12 DEF Resolved, Awaited, FlowsInv
  <2>2. CASE auFlow[f].op \in Recovers
    <3> DEFINE x == [auFlow[f] EXCEPT !.at = "clearing", !.ok = TokenAuthority(auBase', auIdentity')]
    <3>1. x.op # "none" /\ x.at = "clearing"
      BY <1>c, <2>1 DEF FlowState
    <3>2. auFlow' = [TokensStale(auFlow) EXCEPT ![f] = x]
      BY <1>12, <2>1, <2>2 DEF Resolved, Clears, Calls
    <3> HIDE DEF x
    <3> QED BY <1>0, <1>a, <2>1, <3>1, <3>2, CallStays
  <2>3. CASE auFlow[f].op \notin Recovers
    <3>1. PICK stored \in BOOLEAN :
             Calls(f, TokensStale(auFlow), Tail(auAnswers),
                   [auFlow[f] EXCEPT !.at = "token", !.fresh = TRUE,
                                     !.ok = stored /\ TokenAuthority(auFlow[f].origin, auFlow[f].server)])
      BY <1>12, <2>3 DEF Resolved
    <3> DEFINE x == [auFlow[f] EXCEPT !.at = "token", !.fresh = TRUE,
                                      !.ok = stored /\ TokenAuthority(auFlow[f].origin, auFlow[f].server)]
    <3>2. x.op # "none" /\ x.at = "token" /\ x.server # NoServer
      BY <1>c, <2>1 DEF FlowState
    <3>3. auFlow' = [TokensStale(auFlow) EXCEPT ![f] = x]
      BY <3>1 DEF Calls
    <3> HIDE DEF x
    <3> QED BY <1>0, <1>a, <2>1, <3>2, <3>3, CallStays
  <2> QED BY <2>2, <2>3
<1>13. ASSUME NEW f \in AuthFlows, TokenAnswered(f) PROVE FlowsInv' /\ SnapshotInv'
  <2>1. CASE auFlow[f].op = "apply"
    BY <1>0, <1>13, <2>1, ReloadFlows DEF TokenAnswered
  <2>2. CASE auFlow[f].op = "reevaluate"
    <3>1. auFlow' = [auFlow EXCEPT ![f] = Settings("check")] /\ UNCHANGED <<auActive, auPin>>
      BY <1>13, <2>2 DEF TokenAnswered, StartsCheck, Calls
    <3> QED BY <1>0, <1>a, <3>1, SettingsCall, CallStays
  <2>3. CASE auFlow[f].op \notin {"apply", "reevaluate"}
    BY <1>0, <1>a, <1>b, <1>13, <2>3, RestStays DEF TokenAnswered, Completes, AsksStatus, FlowEnds
  <2> QED BY <2>1, <2>2, <2>3
<1>14. ASSUME NEW f \in AuthFlows, Discarded(f) PROVE FlowsInv' /\ SnapshotInv'
  <2>1. CASE auFlow[f].op \in Saves /\ auFlow[f].ok
    <3>1. auFlow' = [ResolutionsStale(TokensStale(auFlow)) EXCEPT ![f] = Settings(auFlow[f].op)]
      BY <1>14, <2>1 DEF Discarded, Sets, Calls
    <3> QED BY <1>0, <1>a, <2>1, <3>1, SettingsCall, CallStays DEF Saves
  <2>2. CASE ~(auFlow[f].op \in Saves /\ auFlow[f].ok)
    BY <1>0, <1>a, <1>b, <1>14, <2>2, RestStays DEF Discarded, Fails, FlowEnds
  <2> QED BY <2>1, <2>2
<1>15. ASSUME NEW f \in AuthFlows, StatusAnswered(f) PROVE FlowsInv' /\ SnapshotInv'
  BY <1>0, <1>a, <1>b, <1>15, RestStays DEF StatusAnswered, FlowEnds
<1>16. ASSUME NEW f \in AuthFlows, LoginAnswered(f) PROVE FlowsInv' /\ SnapshotInv'
  <2>1. UNCHANGED <<auActive, auPin>> /\ auFlow[f].op # "none"
    BY <1>16 DEF LoginAnswered
  <2>2. CASE FlowEnds(f, auFlow)
    BY <1>0, <1>a, <1>b, <2>1, <2>2, RestStays DEF FlowEnds
  <2>3. CASE StartsCheck(f, auFlow, auAnswers)
    BY <1>0, <1>a, <2>1, <2>3, SettingsCall, CallStays DEF StartsCheck, Calls
  <2>4. CASE Calls(f, TokensStale(auFlow), auAnswers,
                   [auFlow[f] EXCEPT !.at = "storing", !.origin = auBase, !.server = auIdentity,
                                     !.ok = TokenAuthority(auBase, auIdentity)])
    <3> DEFINE x == [auFlow[f] EXCEPT !.at = "storing", !.origin = auBase, !.server = auIdentity,
                                      !.ok = TokenAuthority(auBase, auIdentity)]
    <3>1. x.op # "none" /\ x.at = "storing"
      BY <1>c, <2>1 DEF FlowState
    <3>2. auFlow' = [TokensStale(auFlow) EXCEPT ![f] = x]
      BY <2>4 DEF Calls
    <3> HIDE DEF x
    <3> QED BY <1>0, <1>a, <2>1, <3>1, <3>2, CallStays
  <2> QED BY <1>16, <2>2, <2>3, <2>4 DEF LoginAnswered
<1>17. ASSUME NEW f \in AuthFlows, Stored(f) PROVE FlowsInv' /\ SnapshotInv'
  <2>1. CASE auFlow[f].ok
    <3>1. auFlow' = [auFlow EXCEPT ![f] = Settings("check")]
      BY <1>17, <2>1 DEF Stored, StartsCheck, Calls
    <3> QED BY <1>0, <1>a, <1>17, <3>1, SettingsCall, CallStays DEF Stored
  <2>2. CASE ~auFlow[f].ok
    BY <1>0, <1>a, <1>b, <1>17, <2>2, RestStays DEF Stored, FlowEnds
  <2> QED BY <2>1, <2>2
<1>18. ASSUME NEW f \in AuthFlows, ClearsToken(f) PROVE FlowsInv' /\ SnapshotInv'
  <2>1. CASE auIdentity = NoServer
    BY <1>0, <1>a, <1>b, <1>18, <2>1, RestStays DEF ClearsToken, FlowEnds
  <2>2. CASE auIdentity # NoServer
    <3> DEFINE x == [auFlow[f] EXCEPT !.at = "clearing", !.ok = TokenAuthority(auBase', auIdentity')]
    <3>1. x.op # "none" /\ x.at = "clearing"
      BY <1>c, <1>18 DEF ClearsToken, MustClear, FlowState
    <3>2. auFlow' = [TokensStale(auFlow) EXCEPT ![f] = x] /\ UNCHANGED <<auActive, auPin>>
      BY <1>18, <2>2 DEF ClearsToken, Clears, Calls
    <3> HIDE DEF x
    <3> QED BY <1>0, <1>a, <3>1, <3>2, CallStays
  <2> QED BY <2>1, <2>2
<1>19. ASSUME NEW f \in AuthFlows, Healthy(f) PROVE FlowsInv' /\ SnapshotInv'
  BY <1>0, <1>a, <1>b, <1>19, RestStays DEF Healthy, FlowEnds
<1>20. ASSUME NEW f \in AuthFlows, Cleared(f) PROVE FlowsInv' /\ SnapshotInv'
  <2>1. CASE auFlow[f].ok /\ auFlow[f].op = "replace"
    BY <1>0, <1>20, <2>1, ReloadFlows DEF Cleared
  <2>2. CASE auFlow[f].ok /\ auFlow[f].op \in {"logout", "recover"}
    <3>1. auFlow' = [auFlow EXCEPT ![f] = Settings("check")]
      BY <1>20, <2>2 DEF Cleared, StartsCheck, Calls
    <3> QED BY <1>0, <1>a, <1>20, <3>1, SettingsCall, CallStays DEF Cleared
  <2>3. CASE ~(auFlow[f].ok /\ auFlow[f].op \in {"replace", "logout", "recover"})
    BY <1>0, <1>a, <1>b, <1>20, <2>3, RestStays DEF Cleared, FlowEnds
  <2> QED BY <2>1, <2>2, <2>3
<1>21. ASSUME NEW o \in Origins, ServerChanges(o) PROVE FlowsInv' /\ SnapshotInv'
  BY <1>0, <1>21 DEF ServerChanges, FlowsInv, SnapshotInv
<1>22. CASE UNCHANGED auVars
  BY <1>0, <1>22 DEF auVars, FlowsInv, SnapshotInv
<1> QED BY <1>1, <1>2, <1>3, <1>4, <1>5, <1>6, <1>7, <1>8, <1>9, <1>10, <1>11, <1>12, <1>13, <1>14,
           <1>15, <1>16, <1>17, <1>18, <1>19, <1>20, <1>21, <1>22 DEF AuthorityNext

-----------------------------------------------------------------------------
(* The token, and the theorems.                                            *)

\* A loaded token is kept, or replaced by one of the authority; a step that
\* keeps it keeps what it belongs to.
LEMMA TokenStep ==
    AuthorityInv /\ AuthorityTypeOK' /\ [AuthorityNext]_auVars => TokenInv'
<1> SUFFICES ASSUME AuthorityInv, AuthorityTypeOK', [AuthorityNext]_auVars PROVE TokenInv'
  OBVIOUS
<1> USE DEF auNative, auClient
<1>0. /\ AuthorityTypeOK /\ AnswersAreInOrder /\ FlowsInv /\ TokenInv
      /\ NoToken.loaded = FALSE
  BY DEF AuthorityInv, NoToken
<1>a. ASSUME UNCHANGED <<auBase, auIdentity, auValid, auToken>> PROVE TokenInv'
  BY <1>0, <1>a DEF TokenInv, LoadedTokenIsOfTheAuthority
<1>b. ASSUME ~auToken'.loaded PROVE TokenInv'
  BY <1>b DEF TokenInv, LoadedTokenIsOfTheAuthority
<1>c. ASSUME NEW f \in AuthFlows, Reloads(f) PROVE TokenInv'
  BY <1>0, <1>b, <1>c DEF Reloads
<1>1. ASSUME NEW f \in AuthFlows, SettingsAnswered(f) PROVE TokenInv'
  <2>1. CASE auFlow[f].op \in Saves
    <3>1. auAnswers \in Seq(AuthFlows) /\ auAnswers # <<>> /\ auAnswers[1] = f /\ SaveAnswer(auFlow[f])
      BY <1>0, <1>1, <2>1, TailOfAnswers
         DEF SettingsAnswered, Awaited, Arrives, AuthorityTypeOK, SaveAnswer
    <3>2. ~auToken.loaded
      BY <1>0, <3>1, TailOfAnswers DEF AnswersAreInOrder, AnswersInv
    <3>3. auToken' = auToken
      BY <1>1, <2>1 DEF SettingsAnswered
    <3> QED BY <1>b, <3>2, <3>3
  <2>2. CASE auFlow[f].op \notin Saves
    BY <1>0, <1>1, <1>b, <2>2 DEF SettingsAnswered
  <2> QED BY <2>1, <2>2
<1>2. ASSUME NEW f \in AuthFlows, ResolvedUnhealthy(f) PROVE TokenInv'
  <2>1. CASE auFlow[f].op = "apply"
    BY <1>2, <1>c, <2>1 DEF ResolvedUnhealthy
  <2>2. CASE auFlow[f].op # "apply" /\ auFlow[f].op \notin Recovers
    BY <1>0, <1>2, <1>b, <2>2 DEF ResolvedUnhealthy
  <2>3. CASE auFlow[f].op \in Recovers
    BY <1>2, <1>a, <2>3 DEF ResolvedUnhealthy, Recovers
  <2> QED BY <2>1, <2>2, <2>3
<1>3. ASSUME NEW f \in AuthFlows, Resolved(f) PROVE TokenInv'
  <2>1. CASE auToken'.loaded
    <3>1. auToken' = auToken
      BY <1>0, <1>3, <2>1 DEF Resolved, Clears
    <3>2. auValid /\ auToken.server # NoServer /\ auToken.origin = auBase /\ auToken.server = auIdentity
      BY <1>0, <2>1, <3>1 DEF TokenInv, LoadedTokenIsOfTheAuthority
    <3>3. /\ auValid' /\ auBase' = auFlow[f].origin /\ auIdentity' = auFlow[f].server
          /\ auFlow[f].ok /\ Awaited(f, "resolved")
      BY <1>3 DEF Resolved
    <3>4. auBase' = auBase /\ auIdentity' = auIdentity
      BY <1>0, <3>2, <3>3, ResolvedFollows
    <3> QED BY <3>1, <3>2, <3>3, <3>4 DEF TokenInv, LoadedTokenIsOfTheAuthority
  <2>2. CASE ~auToken'.loaded
    BY <1>b, <2>2
  <2> QED BY <2>1, <2>2
<1>4. ASSUME NEW f \in AuthFlows, TokenAnswered(f) PROVE TokenInv'
  <2>1. CASE auFlow[f].op = "apply"
    BY <1>4, <1>c, <2>1 DEF TokenAnswered
  <2>2. CASE auFlow[f].op # "apply"
    <3>1. /\ auToken' = TokenLoaded(auFlow[f])
          /\ UNCHANGED <<auBase, auIdentity, auValid>>
          /\ auFlow[f].server # NoServer
      BY <1>0, <1>4, <2>2 DEF TokenAnswered, Awaited, FlowsInv
    <3>2. CASE TokenIsCurrent(auFlow[f]) /\ auFlow[f].ok
      BY <3>1, <3>2 DEF TokenLoaded, TokenIsCurrent, TokenInv, LoadedTokenIsOfTheAuthority
    <3>3. CASE TokenIsCurrent(auFlow[f]) /\ ~auFlow[f].ok
      BY <1>0, <1>b, <3>1, <3>3 DEF TokenLoaded
    <3>4. CASE ~TokenIsCurrent(auFlow[f])
      BY <1>a, <3>1, <3>4 DEF TokenLoaded
    <3> QED BY <3>2, <3>3, <3>4
  <2> QED BY <2>1, <2>2
<1>5. ASSUME NEW f \in AuthFlows, Discarded(f) PROVE TokenInv'
  BY <1>0, <1>5, <1>a, <1>b DEF Discarded
<1>6. ASSUME NEW f \in AuthFlows, Stored(f) PROVE TokenInv'
  BY <1>6, <1>a, <1>b DEF Stored
<1>7. ASSUME NEW f \in AuthFlows, ClearsToken(f) PROVE TokenInv'
  BY <1>0, <1>7, <1>a, <1>b DEF ClearsToken, Clears
<1>8. ASSUME NEW f \in AuthFlows, Cleared(f) PROVE TokenInv'
  BY <1>0, <1>8, <1>a, <1>b, <1>c DEF Cleared
<1>9. ASSUME NEW f \in AuthFlows, NEW op \in Saves, NEW o \in Origins, Save(f, op, o) PROVE TokenInv'
  BY <1>0, <1>9, <1>b DEF Save
<1>10. ASSUME NEW f \in AuthFlows, ResolvedToAnother(f) PROVE TokenInv'
  BY <1>0, <1>10, <1>b DEF ResolvedToAnother
<1>11. CASE \/ OpenOnboarding
            \/ \E f \in AuthFlows : \/ Check(f) \/ SignIn(f) \/ LogOut(f) \/ Monitor(f)
                                    \/ \E op \in {"reevaluate", "recheck"} : Reevaluate(f, op)
                                    \/ \E op \in Recovers : Recover(f, op)
                                    \/ ResolveEnds(f) \/ ResolveRefused(f)
                                    \/ StatusAnswered(f) \/ LoginAnswered(f) \/ Healthy(f)
            \/ \E o \in Origins : ServerChanges(o)
            \/ UNCHANGED auVars
  <2>1. UNCHANGED <<auBase, auIdentity, auValid, auToken>>
    BY <1>11 DEF OpenOnboarding, Check, SignIn, LogOut, Monitor, Requests, Reevaluate, Recover, ResolveEnds,
                 ResolveRefused, StatusAnswered, LoginAnswered, Healthy, ServerChanges, auVars
  <2> QED BY <1>a, <2>1
<1> QED BY <1>1, <1>2, <1>3, <1>4, <1>5, <1>6, <1>7, <1>8, <1>9, <1>10, <1>11 DEF AuthorityNext

LEMMA AuthorityStart == AuthorityInit => AuthorityInv
<1> SUFFICES ASSUME AuthorityInit PROVE AuthorityInv
  OBVIOUS
<1>1. PICK f \in AuthFlows :
         /\ auLatest = f
         /\ auFlow = [[g \in AuthFlows |-> Quiet] EXCEPT ![f] =
                         [op |-> "check", at |-> "settings", fresh |-> TRUE,
                          origin |-> auActive, server |-> auPin, ok |-> auComplete]]
         /\ auAnswers = <<f>>
  BY DEF AuthorityInit
<1> DEFINE x == [op |-> "check", at |-> "settings", fresh |-> TRUE,
                 origin |-> auActive, server |-> auPin, ok |-> auComplete]
<1>2. /\ auActive \in Origins /\ auBase = auActive /\ auPin \in MaybeServer /\ auIdentity = NoServer
      /\ auToken = NoToken /\ auComplete \in BOOLEAN
  BY DEF AuthorityInit, MaybeServer
<1>3. x \in FlowState /\ x.op = "check" /\ x.at = "settings" /\ ~SaveAnswer(x) /\ ~Pending(x)
      /\ Joins(x, auActive, auPin, auActive, auPin)
  BY <1>2 DEF FlowState, Operations, Awaits, SaveAnswer, Saves, Pending, Joins, ClaimKind
<1>4. Quiet \in FlowState /\ Quiet.op = "none" /\ Quiet.at = "nothing"
  <2>1. (CHOOSE o \in Origins : TRUE) \in Origins
    BY <1>2
  <2> QED BY <2>1 DEF Quiet, FlowState, Operations, Awaits, MaybeServer
<1>5. auFlow[f] = x /\ \A g \in AuthFlows : g # f => auFlow[g] = Quiet
  BY <1>1
<1>6. AuthorityTypeOK
  <2>1. auFlow \in [AuthFlows -> FlowState]
    BY <1>1, <1>3, <1>4
  <2>2. <<f>> \in Seq(AuthFlows)
    OBVIOUS
  <2>3. auToken \in Tokens
    BY <1>2 DEF Tokens
  <2>4. auUp \in [Origins -> Servers] /\ auDone = FALSE /\ auValid = FALSE /\ auView = "booting"
    BY DEF AuthorityInit
  <2> HIDE DEF x
  <2> QED BY <1>1, <1>2, <2>1, <2>2, <2>3, <2>4 DEF AuthorityTypeOK, MaybeServer
<1> HIDE DEF x
<1>7. FlowsInv
  BY <1>3, <1>4, <1>5 DEF FlowsInv
<1>8. SnapshotInv
  BY <1>3, <1>4, <1>5 DEF SnapshotInv
<1>9. TokenInv
  BY <1>2 DEF TokenInv, LoadedTokenIsOfTheAuthority, NoToken
<1>10. ClaimsAgree(AuClaims(<<>>, auFlow, auBase, NoServer, auActive, auPin), 1)
  <2> DEFINE c == AuClaims(<<>>, auFlow, auBase, NoServer, auActive, auPin)
  <2>1. c[0] = Believes(auBase, NoServer)
    BY DEF AuClaims
  <2>2. \A j \in 1..1 : AuConfirms(c[0], c[j])
    BY <2>1 DEF AuConfirms, Believes
  <2> QED BY <2>2 DEF ClaimsAgree
<1>11. AnswersInv(<<>>, auFlow, auBase, NoServer, FALSE, auActive, auPin)
  BY <1>10 DEF AnswersInv
<1>12. <<>> \in Seq(AuthFlows) /\ Len(<<>>) = 0 /\ Append(<<>>, f) = <<f>>
  OBVIOUS
<1>13. SameAnswers(<<>>, auFlow, auFlow) /\ \A i \in 1..Len(<<>>) : <<>>[i] # f
  BY <1>12 DEF SameAnswers
<1>14. AnswersInv(Append(<<>>, f), auFlow, auBase, NoServer, FALSE, auActive, auPin)
  BY <1>3, <1>5, <1>11, <1>12, <1>13, AnswerPut DEF AnswerAwaits
<1>15. AnswersAreInOrder
  BY <1>1, <1>2, <1>12, <1>14 DEF AnswersAreInOrder, NoToken
<1> QED BY <1>6, <1>7, <1>8, <1>9, <1>15 DEF AuthorityInv

LEMMA AuthorityStep == AuthorityInv /\ [AuthorityNext]_auVars => AuthorityInv'
<1> SUFFICES ASSUME AuthorityInv, [AuthorityNext]_auVars PROVE AuthorityInv'
  OBVIOUS
<1>1. AuthorityTypeOK'
  BY AuthorityTypes DEF AuthorityInv
<1> QED BY <1>1, AnswersStep, FlowsStep, TokenStep DEF AuthorityInv

\* While an origin stays, its pin is only dropped.
LEMMA PinnedStep ==
    AuthorityInv /\ [AuthorityNext]_auVars
       => /\ auActive' = auActive /\ auPin # NoServer => auPin' \in {auPin, NoServer}
          /\ auBase' = auBase /\ auIdentity # NoServer => auIdentity' \in {auIdentity, NoServer}
<1> SUFFICES ASSUME AuthorityInv, [AuthorityNext]_auVars
             PROVE  /\ auActive' = auActive /\ auPin # NoServer => auPin' \in {auPin, NoServer}
                    /\ auBase' = auBase /\ auIdentity # NoServer => auIdentity' \in {auIdentity, NoServer}
  OBVIOUS
<1> USE DEF auNative, auClient
<1>0. AuthorityTypeOK /\ AnswersAreInOrder /\ SnapshotInv
  BY DEF AuthorityInv
<1>1. ASSUME NEW f \in AuthFlows, ResolveEnds(f), auPin # NoServer PROVE UNCHANGED <<auPin, auIdentity>>
  BY <1>0, <1>1 DEF ResolveEnds, SnapshotInv, Accepted
<1>2. ASSUME NEW f \in AuthFlows, ResolveEnds(f) PROVE UNCHANGED auIdentity
  BY <1>2 DEF ResolveEnds
<1>3. ASSUME NEW f \in AuthFlows, NEW op \in Saves, NEW o \in Origins, Save(f, op, o)
      PROVE  UNCHANGED auIdentity /\ (auActive' = auActive => auPin' = auPin)
  BY <1>3 DEF Save, Sets
<1>4. ASSUME NEW f \in AuthFlows, Discarded(f)
      PROVE  UNCHANGED auIdentity /\ (auActive' = auActive => auPin' = auPin)
  BY <1>4 DEF Discarded, Sets
<1>5. ASSUME NEW f \in AuthFlows, NEW op \in Recovers, Recover(f, op)
      PROVE  UNCHANGED auIdentity /\ auPin' = NoServer
  BY <1>5 DEF Recover
<1>6. ASSUME NEW f \in AuthFlows, SettingsAnswered(f), auIdentity # NoServer
      PROVE  UNCHANGED auPin /\ auIdentity' \in {auIdentity, NoServer}
  <2>1. auAnswers \in Seq(AuthFlows) /\ auAnswers # <<>> /\ f = Head(auAnswers) /\ auFlow[f].at = "settings"
    BY <1>0, <1>6 DEF SettingsAnswered, Awaited, Arrives, AuthorityTypeOK
  <2>2. auFlow[f].server # NoServer => auFlow[f].server = auIdentity
    BY <1>0, <1>6, <2>1, NextAnswerAgrees DEF AnswersAreInOrder, ClaimKind
  <2> QED BY <1>6, <2>2 DEF SettingsAnswered
<1>7. ASSUME NEW f \in AuthFlows, SettingsAnswered(f) PROVE UNCHANGED auPin
  BY <1>7 DEF SettingsAnswered
<1>8. ASSUME NEW f \in AuthFlows, Resolved(f)
      PROVE  UNCHANGED auPin /\ (auIdentity # NoServer => auIdentity' = auIdentity)
  BY <1>0, <1>8, ResolvedFollows DEF Resolved
<1>9. ASSUME NEW f \in AuthFlows, ResolvedUnhealthy(f) \/ TokenAnswered(f) \/ Cleared(f)
      PROVE  UNCHANGED auPin /\ auIdentity' \in {auIdentity, NoServer}
  BY <1>9 DEF ResolvedUnhealthy, TokenAnswered, Cleared, Reloads
<1>10. CASE \/ OpenOnboarding
            \/ \E f \in AuthFlows : \/ Check(f) \/ SignIn(f) \/ LogOut(f) \/ Monitor(f)
                                    \/ \E op \in {"reevaluate", "recheck"} : Reevaluate(f, op)
                                    \/ ResolveRefused(f) \/ ResolvedToAnother(f)
                                    \/ StatusAnswered(f) \/ LoginAnswered(f) \/ Healthy(f)
                                    \/ Stored(f) \/ ClearsToken(f)
            \/ \E o \in Origins : ServerChanges(o)
            \/ UNCHANGED auVars
  BY <1>10 DEF OpenOnboarding, Check, SignIn, LogOut, Monitor, Requests, Reevaluate, ResolveRefused,
               ResolvedToAnother, StatusAnswered, LoginAnswered, Healthy, Stored, ClearsToken,
               ServerChanges, auVars
<1> QED BY <1>1, <1>2, <1>3, <1>4, <1>5, <1>6, <1>7, <1>8, <1>9, <1>10 DEF AuthorityNext

\* What the client believes, what it waits to hear and what the native side
\* has stay in line.
THEOREM AuthorityInvariant == AuthoritySpec => []AuthorityInv
  BY AuthorityStart, AuthorityStep, PTL DEF AuthoritySpec

\* The token read from the keyring is that of the authority which is
\* validated now.
THEOREM LoadedTokenHolds == AuthoritySpec => []LoadedTokenIsOfTheAuthority
<1>1. AuthorityInv => LoadedTokenIsOfTheAuthority
  BY DEF AuthorityInv, TokenInv
<1> QED BY <1>1, AuthorityInvariant, PTL

\* While an origin stays, neither side goes from one server to another.
THEOREM AuthorityIsPinnedHolds == AuthoritySpec => AuthorityIsPinned
  BY AuthorityInvariant, PinnedStep, PTL DEF AuthoritySpec, AuthorityIsPinned

-----------------------------------------------------------------------------
(* The tool servers.                                                       *)

CallStates == {NoOp} \cup [op : {"add", "remove"}, server : ToolServers, at : {"queued"}]
                     \cup [op : {"remove"}, server : ToolServers, at : {"done"}]

QueuedAs(op) == [op |-> op.op, server |-> op.server, at |-> "queued"]

\* Each operation, in the queue or with the worker, is that of a request that
\* waits for it, and of no other.
CallsInv ==
    /\ mlCalls \in [LifecycleCalls -> CallStates]
    /\ \A i \in 1..Len(mlOps) : mlCalls[mlOps[i].call] = QueuedAs(mlOps[i])
    /\ \A i, j \in 1..Len(mlOps) : mlOps[i].call = mlOps[j].call => i = j
    /\ mlWorker # Resting => /\ mlCalls[mlWorker.op.call] = QueuedAs(mlWorker.op)
                             /\ \A i \in 1..Len(mlOps) : mlOps[i].call # mlWorker.op.call
    /\ RequestsAreServed

\* The worker has closed what it is about to connect, and connects a version.
WorkerInv ==
    /\ \A i \in 1..Len(mlOps) : mlOps[i].op = "add" => mlOps[i].version # 0
    /\ mlWorker # Resting => /\ mlClients[mlWorker.op.server] = 0
                             /\ mlWorker.op.op = "add" => mlWorker.op.version # 0
    /\ mlWorker.at = "connecting" => mlWorker.op.op = "add"

\* A server that is connected with version v, or is to be, is configured so.
Meant(s, v, config, revived, deleted) ==
    v # 0 => /\ \/ config[s].enabled /\ config[s].version = v
                \/ config[s] # NoServerConfig /\ ~config[s].enabled
                \/ config[s] = NoServerConfig /\ s \in revived
             /\ s \in deleted => s \in revived

Deleted == {s \in ToolServers : Deleting(s)}

InQueue(s) == \E i \in 1..Len(mlOps) : mlOps[i].server = s
AtWork(s)  == mlWorker # Resting /\ mlWorker.op.server = s

\* What counts is the last operation for the server, the one the worker is
\* at if none is queued, and its connection if nothing is under way.
IntentInv ==
    \A s \in ToolServers :
       /\ \A i \in 1..Len(mlOps) :
             mlOps[i].server = s /\ (\A j \in (i + 1)..Len(mlOps) : mlOps[j].server # s)
                => Meant(s, mlOps[i].version, mlConfig, mlRevived, Deleted)
       /\ ~InQueue(s) /\ AtWork(s) => Meant(s, mlWorker.op.version, mlConfig, mlRevived, Deleted)
       /\ ~InQueue(s) /\ ~AtWork(s) => Meant(s, mlClients[s], mlConfig, mlRevived, Deleted)

\* What RoutesLead says of the registry alone, and of the providers.
RegistryInv ==
    /\ mlListed \subseteq ServedTools \X ToolProviders
    /\ mlRoute \in [ServedTools -> ToolProviders \cup {NoProvider}]
    /\ mlTakenOver \subseteq mlListed
    /\ \A t \in ServedTools : mlRoute[t] # NoProvider => <<t, mlRoute[t]>> \in mlListed
    /\ \A l \in mlListed \ mlTakenOver : mlRoute[l[1]] = l[2]

CanAnswer(p) == IF p = NodeProvider THEN mlDynamic
              ELSE mlClients[p] # 0 \/ (mlWorker.at = "disconnecting" /\ mlWorker.op.server = p)

RoutesAnswer == \A t \in ServedTools : mlRoute[t] # NoProvider => CanAnswer(mlRoute[t])

LifecycleInv == LifecycleTypeOK /\ CallsInv /\ WorkerInv /\ RegistryInv /\ RoutesAnswer /\ IntentInv

-----------------------------------------------------------------------------

LEMMA OpsAppend ==
    ASSUME LifecycleTypeOK, NEW x \in Operation, mlOps' = Append(mlOps, x)
    PROVE  /\ mlOps' \in Seq(Operation) /\ Len(mlOps) \in Nat /\ Len(mlOps') = Len(mlOps) + 1
           /\ mlOps'[Len(mlOps) + 1] = x
           /\ \A i \in 1..Len(mlOps) : mlOps'[i] = mlOps[i] /\ mlOps[i] \in Operation
  BY AppendProperties, LenProperties, ElementOfSeq DEF LifecycleTypeOK

LEMMA OpsTail ==
    ASSUME LifecycleTypeOK, mlOps # <<>>, mlOps' = Tail(mlOps)
    PROVE  /\ mlOps' \in Seq(Operation) /\ Len(mlOps) \in Nat \ {0} /\ Len(mlOps') = Len(mlOps) - 1
           /\ Head(mlOps) = mlOps[1] /\ mlOps[1] \in Operation
           /\ \A i \in 1..Len(mlOps') : mlOps'[i] = mlOps[i + 1]
           /\ \A i \in 1..Len(mlOps) : mlOps[i] \in Operation
  BY HeadTailProperties, EmptySeq, ElementOfSeq, LenProperties DEF LifecycleTypeOK

\* A server that the step is not about is meant as before.
LEMMA MeantStays ==
    ASSUME NEW s \in ToolServers, NEW v, NEW config, NEW revived, NEW deleted,
           NEW config1, NEW revived1, NEW deleted1,
           Meant(s, v, config, revived, deleted),
           config1[s] = config[s], s \in revived1 <=> s \in revived, s \in deleted1 => s \in deleted
    PROVE  Meant(s, v, config1, revived1, deleted1)
  BY DEF Meant

\* Nothing is meant by no connection.
LEMMA NothingMeant ==
    ASSUME NEW s, NEW config, NEW revived, NEW deleted
    PROVE  Meant(s, 0, config, revived, deleted)
  BY DEF Meant

LEMMA WorkerTypes ==
    ASSUME LifecycleTypeOK
    PROVE  /\ mlWorker = Resting => mlWorker.at = "idle"
           /\ mlWorker # Resting => mlWorker.at \in {"disconnecting", "connecting"} /\ mlWorker.op \in Operation
           /\ \A op \in Operation : /\ op.op \in {"add", "remove"} /\ op.server \in ToolServers
                                    /\ op.call \in LifecycleCalls /\ op.version \in Versions
           /\ \A op, at : [at |-> at, op |-> op] # Resting \/ at = "idle"
  BY DEF LifecycleTypeOK, Resting, Operation

LEMMA CallTypesOfServers ==
    ASSUME CallsInv, NEW c \in LifecycleCalls
    PROVE  /\ mlCalls[c] # NoOp => /\ mlCalls[c].op \in {"add", "remove"} /\ mlCalls[c].server \in ToolServers
                                   /\ mlCalls[c].at \in {"queued", "done"}
                                   /\ mlCalls[c].at = "done" => mlCalls[c].op = "remove"
           /\ \A op \in {"add", "remove"} : \A s, at : [op |-> op, server |-> s, at |-> at] # NoOp
  BY DEF CallsInv, CallStates, NoOp

\* A request puts its operation in the queue.
LEMMA SubmitKeeps ==
    ASSUME LifecycleInv, NEW c \in LifecycleCalls, NEW s \in ToolServers,
           NEW op \in {"add", "remove"}, NEW v \in Versions,
           mlCalls[c] = NoOp,
           SubmitOp(c, op, s, v),
           \A x \in ToolServers : x # s => mlConfig'[x] = mlConfig[x],
           op = "add" => /\ v # 0
                         /\ mlConfig'[s] # NoServerConfig
                         /\ mlConfig'[s].enabled => mlConfig'[s].version = v
                         /\ mlConfig'[s].enabled \in BOOLEAN,
           op = "remove" => v = 0,
           UNCHANGED <<mlClients, mlWorker>>
    PROVE  CallsInv' /\ WorkerInv' /\ IntentInv' /\ mlOps' \in Seq(Operation)
<1> DEFINE new == [op |-> op, server |-> s, version |-> v, call |-> c]
           n == Len(mlOps)
<1>1. new \in Operation /\ new.op = op /\ new.server = s /\ new.version = v /\ new.call = c
  BY DEF Operation
<1>2. mlOps' = Append(mlOps, new)
  BY DEF SubmitOp
<1> HIDE DEF new
<1>3. /\ LifecycleTypeOK /\ CallsInv /\ WorkerInv /\ IntentInv
  BY DEF LifecycleInv
<1>4. /\ mlOps' \in Seq(Operation) /\ n \in Nat /\ Len(mlOps') = n + 1
      /\ mlOps'[n + 1] = new
      /\ \A i \in 1..n : mlOps'[i] = mlOps[i] /\ mlOps[i] \in Operation
  BY <1>1, <1>2, <1>3, OpsAppend
<1>13. DOMAIN mlOps = 1..n /\ DOMAIN mlOps' = 1..(n + 1)
  BY <1>3, <1>4, LenProperties DEF LifecycleTypeOK
<1> DEFINE call == [op |-> op, server |-> s, at |-> "queued"]
<1>5. call # NoOp /\ call \in CallStates /\ call = QueuedAs(new) /\ call.op = op /\ call.server = s
      /\ call.at = "queued"
  BY <1>1, <1>3, CallTypesOfServers DEF CallStates, QueuedAs
<1> HIDE DEF call
<1>6. /\ mlCalls' = [mlCalls EXCEPT ![c] = call] /\ mlCalls' \in [LifecycleCalls -> CallStates]
      /\ mlCalls'[c] = call /\ \A d \in LifecycleCalls : d # c => mlCalls'[d] = mlCalls[d]
  BY <1>3, <1>5 DEF SubmitOp, CallsInv, call
<1>7. /\ \A i \in 1..n : mlOps[i].call # c /\ mlOps[i].call \in LifecycleCalls
      /\ mlWorker # Resting => mlWorker.op.call # c /\ mlWorker.op.call \in LifecycleCalls
  <2>1. \A o \in Operation : mlCalls[o.call] = QueuedAs(o) => o.call # c
    <3> SUFFICES ASSUME NEW o \in Operation PROVE QueuedAs(o) # NoOp
      OBVIOUS
    <3> QED BY <1>3, WorkerTypes, CallTypesOfServers DEF QueuedAs
  <2> QED BY <1>3, <1>4, <2>1, WorkerTypes DEF CallsInv
<1>8. CallsInv'
  <2>1. \A i \in 1..(n + 1) : mlCalls'[mlOps'[i].call] = QueuedAs(mlOps'[i])
    BY <1>1, <1>3, <1>4, <1>5, <1>6, <1>7 DEF CallsInv
  <2>2. \A i, j \in 1..(n + 1) : mlOps'[i].call = mlOps'[j].call => i = j
    BY <1>1, <1>3, <1>4, <1>7 DEF CallsInv
  <2>3. mlWorker' # Resting => /\ mlCalls'[mlWorker'.op.call] = QueuedAs(mlWorker'.op)
                               /\ \A i \in 1..(n + 1) : mlOps'[i].call # mlWorker'.op.call
    BY <1>1, <1>3, <1>4, <1>6, <1>7 DEF CallsInv
  <2>4. RequestsAreServed'
    <3> SUFFICES ASSUME NEW d \in LifecycleCalls
                 PROVE  (mlCalls'[d] # NoOp /\ mlCalls'[d].at = "queued") <=>
                           \/ mlWorker' # Resting /\ mlWorker'.op.call = d
                           \/ \E i \in DOMAIN mlOps' : mlOps'[i].call = d
      BY DEF RequestsAreServed
    <3>1. CASE d = c
      BY <1>1, <1>4, <1>5, <1>6, <3>1
    <3>2. CASE d # c
      <4>1. (\E i \in DOMAIN mlOps' : mlOps'[i].call = d) <=> (\E i \in DOMAIN mlOps : mlOps[i].call = d)
        BY <1>1, <1>4, <1>13, <3>2
      <4> QED BY <1>3, <1>6, <3>2, <4>1 DEF CallsInv, RequestsAreServed
    <3> QED BY <3>1, <3>2
  <2> QED BY <1>4, <1>6, <2>1, <2>2, <2>3, <2>4 DEF CallsInv
<1>9. WorkerInv'
  BY <1>1, <1>3, <1>4 DEF WorkerInv
<1>10. ASSUME NEW x \in ToolServers, x # s, NEW w, Meant(x, w, mlConfig, mlRevived, Deleted)
       PROVE  Meant(x, w, mlConfig', mlRevived', Deleted')
  <2>1. x \in mlRevived' <=> x \in mlRevived
    BY <1>10 DEF SubmitOp
  <2>2. x \in Deleted' => x \in Deleted
    BY <1>5, <1>6, <1>10 DEF Deleted, Deleting
  <2>3. mlConfig'[x] = mlConfig[x]
    BY <1>10
  <2> QED BY <1>10, <2>1, <2>2, <2>3, MeantStays
<1>11. Meant(s, v, mlConfig', mlRevived', Deleted')
  <2>1. CASE op = "add"
    <3>1. s \in Deleted' => Deleting(s)
      BY <1>5, <1>6, <2>1 DEF Deleted, Deleting
    <3>2. s \in Deleted' => s \in mlRevived'
      BY <2>1, <3>1 DEF SubmitOp
    <3> QED BY <2>1, <3>2 DEF Meant
  <2>2. CASE op = "remove"
    BY <2>2, NothingMeant
  <2> QED BY <2>1, <2>2
<1>12. IntentInv'
  <2> SUFFICES ASSUME NEW x \in ToolServers
               PROVE  /\ \A i \in 1..(n + 1) :
                            mlOps'[i].server = x /\ (\A j \in (i + 1)..(n + 1) : mlOps'[j].server # x)
                               => Meant(x, mlOps'[i].version, mlConfig', mlRevived', Deleted')
                      /\ ~InQueue(x)' /\ AtWork(x)' => Meant(x, mlWorker'.op.version, mlConfig', mlRevived', Deleted')
                      /\ ~InQueue(x)' /\ ~AtWork(x)' => Meant(x, mlClients'[x], mlConfig', mlRevived', Deleted')
    BY <1>4 DEF IntentInv
  <2>1. CASE x = s
    <3>1. InQueue(x)'
      BY <1>1, <1>4, <2>1 DEF InQueue
    <3>2. ASSUME NEW i \in 1..(n + 1), mlOps'[i].server = x, \A j \in (i + 1)..(n + 1) : mlOps'[j].server # x
          PROVE  i = n + 1
      BY <1>1, <1>4, <2>1, <3>2
    <3> QED BY <1>1, <1>4, <1>11, <2>1, <3>1, <3>2
  <2>2. CASE x # s
    <3>1. InQueue(x)' <=> InQueue(x)
      BY <1>1, <1>4, <2>2 DEF InQueue
    <3>2. AtWork(x)' <=> AtWork(x)
      BY DEF AtWork
    <3>3. ASSUME NEW i \in 1..(n + 1), mlOps'[i].server = x, \A j \in (i + 1)..(n + 1) : mlOps'[j].server # x
          PROVE  Meant(x, mlOps'[i].version, mlConfig', mlRevived', Deleted')
      <4>1. i \in 1..n /\ mlOps'[i] = mlOps[i]
        BY <1>1, <1>4, <2>2, <3>3
      <4>2. \A j \in (i + 1)..n : mlOps[j].server # x
        <5> SUFFICES ASSUME NEW j \in (i + 1)..n PROVE mlOps[j].server # x
          OBVIOUS
        <5>1. j \in (i + 1)..(n + 1) /\ j \in 1..n
          BY <1>4, <4>1
        <5> QED BY <1>4, <3>3, <5>1
      <4>3. Meant(x, mlOps[i].version, mlConfig, mlRevived, Deleted)
        BY <1>3, <3>3, <4>1, <4>2 DEF IntentInv
      <4> QED BY <1>10, <2>2, <4>1, <4>3
    <3>4. ~InQueue(x)' /\ AtWork(x)' => Meant(x, mlWorker'.op.version, mlConfig', mlRevived', Deleted')
      BY <1>3, <1>10, <2>2, <3>1, <3>2 DEF IntentInv
    <3>5. ~InQueue(x)' /\ ~AtWork(x)' => Meant(x, mlClients'[x], mlConfig', mlRevived', Deleted')
      BY <1>3, <1>10, <2>2, <3>1, <3>2 DEF IntentInv
    <3> QED BY <3>3, <3>4, <3>5
  <2> QED BY <2>1, <2>2
<1> QED BY <1>4, <1>8, <1>9, <1>12

-----------------------------------------------------------------------------
(* The registry.                                                           *)

\* A provider that goes takes its tools along, and leaves the other routes.
LEMMA UnregistersKeeps ==
    ASSUME RegistryInv, NEW p \in ToolProviders, Unregisters(p)
    PROVE  /\ RegistryInv'
           /\ \A t \in ServedTools : mlRoute'[t] # NoProvider => mlRoute'[t] = mlRoute[t] /\ mlRoute'[t] # p
<1>1. \A t \in ServedTools : /\ mlRoute[t] = p => mlRoute'[t] = NoProvider
                             /\ mlRoute[t] # p => mlRoute'[t] = mlRoute[t]
  BY DEF Unregisters
<1>2. p # NoProvider
  BY LifecycleAssumption
<1>3. mlRoute' \in [ServedTools -> ToolProviders \cup {NoProvider}]
  BY DEF Unregisters, RegistryInv
<1>4. \A l \in mlListed' : l \in mlListed /\ l[2] # p
  BY DEF Unregisters
<1>5. mlListed' \subseteq ServedTools \X ToolProviders /\ mlTakenOver' \subseteq mlListed'
  BY <1>4 DEF Unregisters, RegistryInv
<1>6. ASSUME NEW t \in ServedTools, mlRoute'[t] # NoProvider
      PROVE  mlRoute'[t] = mlRoute[t] /\ mlRoute'[t] # p /\ <<t, mlRoute'[t]>> \in mlListed'
  BY <1>1, <1>2, <1>6 DEF Unregisters, RegistryInv
<1>7. ASSUME NEW l \in mlListed' \ mlTakenOver'
      PROVE  mlRoute'[l[1]] = l[2]
  <2>1. l \in mlListed \ mlTakenOver /\ l[2] # p
    BY <1>4, <1>7 DEF Unregisters
  <2>2. l[1] \in ServedTools /\ mlRoute[l[1]] = l[2]
    BY <2>1 DEF RegistryInv
  <2> QED BY <1>1, <2>1, <2>2
<1> QED BY <1>3, <1>5, <1>6, <1>7 DEF RegistryInv

\* The tools of a server that connects are routed to it.
LEMMA RegistersKeeps ==
    ASSUME RegistryInv, NEW s \in ToolProviders, NEW tools \in SUBSET ServedTools, Registers(s, tools)
    PROVE  /\ RegistryInv'
           /\ \A t \in ServedTools : mlRoute'[t] \in {s, mlRoute[t]}
<1>1. \A t \in ServedTools : /\ t \in tools => mlRoute'[t] = s
                             /\ t \notin tools => mlRoute'[t] = mlRoute[t]
  BY DEF Registers
<1>2. mlRoute' \in [ServedTools -> ToolProviders \cup {NoProvider}]
  BY DEF Registers, RegistryInv
<1>3. mlListed' \subseteq ServedTools \X ToolProviders /\ mlTakenOver' \subseteq mlListed'
  BY DEF Registers, RegistryInv
<1>4. ASSUME NEW t \in ServedTools, mlRoute'[t] # NoProvider
      PROVE  <<t, mlRoute'[t]>> \in mlListed'
  BY <1>1, <1>4 DEF Registers, RegistryInv
<1>5. ASSUME NEW l \in mlListed' \ mlTakenOver'
      PROVE  mlRoute'[l[1]] = l[2]
  <2>1. CASE l \in tools \X {s}
    BY <1>1, <2>1
  <2>2. CASE l \notin tools \X {s}
    <3>1. l \in mlListed \ mlTakenOver /\ l[1] \notin tools
      BY <1>5, <2>2 DEF Registers
    <3>2. l[1] \in ServedTools /\ mlRoute[l[1]] = l[2]
      BY <3>1 DEF RegistryInv
    <3> QED BY <1>1, <3>1, <3>2
  <2> QED BY <2>1, <2>2
<1> QED BY <1>1, <1>2, <1>3, <1>4, <1>5 DEF RegistryInv

\* An inventory replaces the one of the provider.
LEMMA ReplacesKeeps ==
    ASSUME RegistryInv, NEW p \in ToolProviders, NEW tools \in SUBSET ServedTools, Replaces(p, tools)
    PROVE  /\ RegistryInv'
           /\ \A t \in ServedTools : mlRoute'[t] \in {p, mlRoute[t], NoProvider}
<1>1. \A t \in ServedTools : /\ t \in tools => mlRoute'[t] = p
                             /\ t \notin tools /\ mlRoute[t] = p => mlRoute'[t] = NoProvider
                             /\ t \notin tools /\ mlRoute[t] # p => mlRoute'[t] = mlRoute[t]
  BY DEF Replaces
<1>2. mlRoute' \in [ServedTools -> ToolProviders \cup {NoProvider}]
  BY DEF Replaces, RegistryInv
<1>3. mlListed' \subseteq ServedTools \X ToolProviders /\ mlTakenOver' \subseteq mlListed'
  BY DEF Replaces, RegistryInv
<1>4. ASSUME NEW t \in ServedTools, mlRoute'[t] # NoProvider
      PROVE  <<t, mlRoute'[t]>> \in mlListed'
  <2>1. CASE t \in tools
    BY <1>1, <2>1 DEF Replaces
  <2>2. CASE t \notin tools
    <3>1. mlRoute'[t] = mlRoute[t] /\ mlRoute[t] # p /\ <<t, mlRoute[t]>> \in mlListed
      BY <1>1, <1>4, <2>2 DEF RegistryInv
    <3> QED BY <3>1 DEF Replaces
  <2> QED BY <2>1, <2>2
<1>5. ASSUME NEW l \in mlListed' \ mlTakenOver'
      PROVE  mlRoute'[l[1]] = l[2]
  <2>1. CASE l \in tools \X {p}
    BY <1>1, <2>1
  <2>2. CASE l \notin tools \X {p}
    <3>1. l \in mlListed \ mlTakenOver /\ l[2] # p /\ l[1] \notin tools
      BY <1>5, <2>2 DEF Replaces
    <3>2. l[1] \in ServedTools /\ mlRoute[l[1]] = l[2]
      BY <3>1 DEF RegistryInv
    <3> QED BY <1>1, <3>1, <3>2
  <2> QED BY <2>1, <2>2
<1> QED BY <1>1, <1>2, <1>3, <1>4, <1>5 DEF RegistryInv

-----------------------------------------------------------------------------
(* The worker.                                                             *)

\* Operation op is taken and the operations ops are queued: each is waited
\* for, and its server is meant as the last operation for it says.
Working(op, ops) ==
    /\ mlCalls[op.call] = QueuedAs(op)
    /\ \A i \in 1..Len(ops) : mlCalls[ops[i].call] = QueuedAs(ops[i]) /\ ops[i].call # op.call
    /\ \A i, j \in 1..Len(ops) : ops[i].call = ops[j].call => i = j
    /\ \A c \in LifecycleCalls : (mlCalls[c] # NoOp /\ mlCalls[c].at = "queued") <=>
                                   (c = op.call \/ \E i \in 1..Len(ops) : ops[i].call = c)
    /\ \A i \in 1..Len(ops) : ops[i].op = "add" => ops[i].version # 0
    /\ op.op = "add" => op.version # 0
    /\ \A s \in ToolServers :
          /\ \A i \in 1..Len(ops) : ops[i].server = s /\ (\A j \in (i + 1)..Len(ops) : ops[j].server # s)
                                      => Meant(s, ops[i].version, mlConfig, mlRevived, Deleted)
          /\ (\A i \in 1..Len(ops) : ops[i].server # s)
                => Meant(s, IF s = op.server THEN op.version ELSE mlClients[s], mlConfig, mlRevived, Deleted)

\* What the worker is at.
LEMMA WorkerWorks ==
    ASSUME LifecycleInv, mlWorker # Resting
    PROVE  /\ Working(mlWorker.op, mlOps) /\ mlWorker.op \in Operation
           /\ mlClients[mlWorker.op.server] = 0
<1>1. LifecycleTypeOK /\ CallsInv /\ WorkerInv /\ IntentInv
  BY DEF LifecycleInv
<1> DEFINE n == Len(mlOps)
<1>2. DOMAIN mlOps = 1..n /\ n \in Nat /\ mlWorker.op \in Operation
  BY <1>1, WorkerTypes, LenProperties DEF LifecycleTypeOK
<1>3. \A c \in LifecycleCalls : (mlCalls[c] # NoOp /\ mlCalls[c].at = "queued") <=>
                                  (c = mlWorker.op.call \/ \E i \in 1..n : mlOps[i].call = c)
  BY <1>1, <1>2 DEF CallsInv, RequestsAreServed
<1>4. ASSUME NEW s \in ToolServers
      PROVE  /\ \A i \in 1..n : mlOps[i].server = s /\ (\A j \in (i + 1)..n : mlOps[j].server # s)
                                  => Meant(s, mlOps[i].version, mlConfig, mlRevived, Deleted)
             /\ (\A i \in 1..n : mlOps[i].server # s)
                => Meant(s, IF s = mlWorker.op.server THEN mlWorker.op.version ELSE mlClients[s],
                         mlConfig, mlRevived, Deleted)
  BY <1>1 DEF IntentInv, InQueue, AtWork
<1> QED BY <1>1, <1>2, <1>3, <1>4 DEF Working, CallsInv, WorkerInv

\* The worker takes an operation.
LEMMA TakenWorks ==
    ASSUME LifecycleInv, mlWorker = Resting, mlOps # <<>>, mlOps' = Tail(mlOps)
    PROVE  Working(Head(mlOps), mlOps') /\ Head(mlOps) \in Operation /\ mlOps' \in Seq(Operation)
<1>1. LifecycleTypeOK /\ CallsInv /\ WorkerInv /\ IntentInv
  BY DEF LifecycleInv
<1> DEFINE n == Len(mlOps)
           op == Head(mlOps)
           m == Len(mlOps')
<1>2. DOMAIN mlOps = 1..n
  BY <1>1, LenProperties DEF LifecycleTypeOK
<1>3. /\ mlOps' \in Seq(Operation) /\ n \in Nat \ {0} /\ m = n - 1 /\ m \in Nat
      /\ op = mlOps[1] /\ op \in Operation
      /\ \A i \in 1..m : mlOps'[i] = mlOps[i + 1] /\ i + 1 \in 1..n /\ i + 1 # 1
      /\ 1 \in 1..n
  BY <1>1, OpsTail
<1> HIDE DEF op
<1>4. \A i \in 1..n : i = 1 \/ (i - 1 \in 1..m /\ mlOps'[i - 1] = mlOps[i])
  BY <1>3
<1>5. /\ mlCalls[op.call] = QueuedAs(op)
      /\ \A i \in 1..m : mlCalls[mlOps'[i].call] = QueuedAs(mlOps'[i]) /\ mlOps'[i].call # op.call
  BY <1>1, <1>3 DEF CallsInv
<1>6. \A i, j \in 1..m : mlOps'[i].call = mlOps'[j].call => i = j
  <2> SUFFICES ASSUME NEW i \in 1..m, NEW j \in 1..m, mlOps'[i].call = mlOps'[j].call PROVE i = j
    OBVIOUS
  <2>1. i + 1 = j + 1
    BY <1>1, <1>3 DEF CallsInv
  <2> QED BY <2>1
<1>7. ASSUME NEW c \in LifecycleCalls
      PROVE  (mlCalls[c] # NoOp /\ mlCalls[c].at = "queued") <=>
                (c = op.call \/ \E i \in 1..m : mlOps'[i].call = c)
  <2>1. (mlCalls[c] # NoOp /\ mlCalls[c].at = "queued") <=> \E i \in 1..n : mlOps[i].call = c
    BY <1>1, <1>2 DEF CallsInv, RequestsAreServed
  <2>2. (\E i \in 1..n : mlOps[i].call = c) <=> (c = op.call \/ \E i \in 1..m : mlOps'[i].call = c)
    BY <1>3, <1>4
  <2> QED BY <2>1, <2>2
<1>8. /\ \A i \in 1..m : mlOps'[i].op = "add" => mlOps'[i].version # 0
      /\ op.op = "add" => op.version # 0
  BY <1>1, <1>3 DEF WorkerInv
<1>9. ASSUME NEW s \in ToolServers, NEW i \in 1..m, mlOps'[i].server = s,
             \A j \in (i + 1)..m : mlOps'[j].server # s
      PROVE  Meant(s, mlOps'[i].version, mlConfig, mlRevived, Deleted)
  <2>1. \A j \in ((i + 1) + 1)..n : mlOps[j].server # s
    <3> SUFFICES ASSUME NEW j \in ((i + 1) + 1)..n PROVE mlOps[j].server # s
      OBVIOUS
    <3>1. j - 1 \in (i + 1)..m /\ j - 1 \in 1..m /\ (j - 1) + 1 = j
      BY <1>3
    <3> QED BY <1>3, <1>9, <3>1
  <2> QED BY <1>1, <1>3, <1>9, <2>1 DEF IntentInv
<1>10. ASSUME NEW s \in ToolServers, \A i \in 1..m : mlOps'[i].server # s
       PROVE  Meant(s, IF s = op.server THEN op.version ELSE mlClients[s], mlConfig, mlRevived, Deleted)
  <2>1. CASE s = op.server
    <3>1. \A j \in (1 + 1)..n : mlOps[j].server # s
      <4> SUFFICES ASSUME NEW j \in (1 + 1)..n PROVE mlOps[j].server # s
        OBVIOUS
      <4>1. j \in 1..n /\ j # 1
        BY <1>3
      <4> QED BY <1>4, <1>10, <4>1
    <3> QED BY <1>1, <1>3, <2>1, <3>1 DEF IntentInv
  <2>2. CASE s # op.server
    <3>1. ~InQueue(s) /\ ~AtWork(s)
      BY <1>3, <1>4, <1>10, <2>2 DEF InQueue, AtWork
    <3> QED BY <1>1, <2>2, <3>1 DEF IntentInv
  <2> QED BY <2>1, <2>2
<1>11. Working(op, mlOps')
  BY <1>5, <1>6, <1>7, <1>8, <1>9, <1>10 DEF Working
<1> QED BY <1>3, <1>11 DEF op

\* The worker goes on with its operation, or ends it.
LEMMA WorkerKeeps ==
    ASSUME LifecycleInv, NEW op \in Operation, Working(op, mlOps'), mlOps' \in Seq(Operation),
           UNCHANGED <<mlConfig, mlRevived>>,
           mlClients' \in [ToolServers -> Versions],
           \A s \in ToolServers : s # op.server => mlClients'[s] = mlClients[s],
           \/ /\ mlWorker' \in [at : {"disconnecting", "connecting"}, op : {op}]
              /\ mlWorker'.at = "connecting" => op.op = "add"
              /\ mlClients'[op.server] = 0
              /\ mlCalls' = mlCalls
           \/ OpEnds(op) /\ mlClients'[op.server] \in {0, op.version}
    PROVE  CallsInv' /\ WorkerInv' /\ IntentInv'
<1>1. LifecycleTypeOK /\ CallsInv /\ WorkerInv /\ IntentInv
  BY DEF LifecycleInv
<1> DEFINE m == Len(mlOps')
           going == mlWorker' \in [at : {"disconnecting", "connecting"}, op : {op}] /\ mlCalls' = mlCalls
<1>2. m \in Nat /\ DOMAIN mlOps' = 1..m /\ \A i \in 1..m : mlOps'[i] \in Operation
  BY LenProperties, ElementOfSeq
<1>3. op.op \in {"add", "remove"} /\ op.call \in LifecycleCalls /\ op.server \in ToolServers
  BY DEF Operation
<1>4. mlCalls[op.call] = QueuedAs(op) /\ mlCalls[op.call].op = op.op /\ mlCalls[op.call].server = op.server
  BY DEF Working, QueuedAs
<1>5. going => /\ mlWorker' # Resting /\ mlWorker'.op = op
               /\ mlWorker'.at \in {"disconnecting", "connecting"}
  BY DEF Resting
<1>6. ~going => OpEnds(op) /\ mlWorker' = Resting /\ mlClients'[op.server] \in {0, op.version}
  BY DEF OpEnds
<1>7. ~going => /\ mlCalls' \in [LifecycleCalls -> CallStates]
                /\ \A c \in LifecycleCalls : c # op.call => mlCalls'[c] = mlCalls[c]
                /\ op.op = "add" => mlCalls'[op.call] = NoOp
                /\ op.op = "remove" => /\ mlCalls'[op.call] \in [op : {"remove"}, server : {op.server}, at : {"done"}]
                                       /\ mlCalls'[op.call] # NoOp
  <2> SUFFICES ASSUME ~going
               PROVE  /\ mlCalls' \in [LifecycleCalls -> CallStates]
                      /\ \A c \in LifecycleCalls : c # op.call => mlCalls'[c] = mlCalls[c]
                      /\ op.op = "add" => mlCalls'[op.call] = NoOp
                      /\ op.op = "remove" => /\ mlCalls'[op.call] \in [op : {"remove"}, server : {op.server}, at : {"done"}]
                                             /\ mlCalls'[op.call] # NoOp
    OBVIOUS
  <2> DEFINE done == [op |-> op.op, server |-> op.server, at |-> "done"]
  <2>1. [mlCalls[op.call] EXCEPT !.at = "done"] = done
    BY <1>4 DEF QueuedAs
  <2>2. done # NoOp
    BY <1>1, <1>3, CallTypesOfServers
  <2>3. mlCalls' = [mlCalls EXCEPT ![op.call] = IF op.op = "add" THEN NoOp ELSE done]
    BY <1>6, <2>1 DEF OpEnds
  <2>4. op.op = "remove" => done \in CallStates /\ done \in [op : {"remove"}, server : {op.server}, at : {"done"}]
    BY <1>3 DEF CallStates
  <2>5. NoOp \in CallStates
    BY DEF CallStates
  <2> HIDE DEF done
  <2> QED BY <1>1, <1>3, <2>2, <2>3, <2>4, <2>5 DEF CallsInv
<1>8. CallsInv'
  <2>1. mlCalls' \in [LifecycleCalls -> CallStates]
    BY <1>1, <1>7 DEF CallsInv
  <2>2. \A i \in 1..m : mlOps'[i].call \in LifecycleCalls /\ mlOps'[i].call # op.call
                        /\ mlCalls[mlOps'[i].call] = QueuedAs(mlOps'[i])
    BY <1>2 DEF Working, Operation
  <2>3. \A i \in 1..m : mlCalls'[mlOps'[i].call] = QueuedAs(mlOps'[i])
    BY <1>7, <2>2
  <2>4. \A i, j \in 1..m : mlOps'[i].call = mlOps'[j].call => i = j
    BY DEF Working
  <2>5. mlWorker' # Resting => /\ mlCalls'[mlWorker'.op.call] = QueuedAs(mlWorker'.op)
                               /\ \A i \in 1..m : mlOps'[i].call # mlWorker'.op.call
    BY <1>4, <1>5, <1>6, <2>2
  <2>6. ASSUME NEW c \in LifecycleCalls
        PROVE  (mlCalls'[c] # NoOp /\ mlCalls'[c].at = "queued") <=>
                  \/ mlWorker' # Resting /\ mlWorker'.op.call = c
                  \/ \E i \in DOMAIN mlOps' : mlOps'[i].call = c
    <3>1. (mlCalls[c] # NoOp /\ mlCalls[c].at = "queued") <=>
             (c = op.call \/ \E i \in 1..m : mlOps'[i].call = c)
      BY DEF Working
    <3>2. CASE going
      BY <1>2, <1>5, <3>1, <3>2
    <3>3. CASE ~going /\ c # op.call
      BY <1>2, <1>6, <1>7, <3>1, <3>3
    <3>4. CASE ~going /\ c = op.call
      <4>1. ~\E i \in 1..m : mlOps'[i].call = c
        BY <2>2, <3>4
      <4>2. mlCalls'[c] = NoOp \/ mlCalls'[c].at = "done"
        BY <1>3, <1>7, <3>4
      <4> QED BY <1>2, <1>6, <3>4, <4>1, <4>2
    <3> QED BY <3>2, <3>3, <3>4
  <2>7. RequestsAreServed'
    BY <2>6 DEF RequestsAreServed
  <2> QED BY <2>1, <2>3, <2>4, <2>5, <2>7 DEF CallsInv
<1>9. WorkerInv'
  <2>1. /\ \A i \in 1..m : mlOps'[i].op = "add" => mlOps'[i].version # 0
        /\ op.op = "add" => op.version # 0
    BY DEF Working
  <2>2. ~going => mlWorker' = Resting /\ mlWorker'.at = "idle"
    BY <1>6 DEF Resting
  <2> QED BY <1>5, <2>1, <2>2 DEF WorkerInv, OpEnds
<1>10. Deleted' = Deleted
  <2>1. \A c \in LifecycleCalls :
          (mlCalls'[c] # NoOp /\ mlCalls'[c].op = "remove") <=> (mlCalls[c] # NoOp /\ mlCalls[c].op = "remove")
    <3> SUFFICES ASSUME NEW c \in LifecycleCalls
                 PROVE (mlCalls'[c] # NoOp /\ mlCalls'[c].op = "remove") <=> (mlCalls[c] # NoOp /\ mlCalls[c].op = "remove")
      OBVIOUS
    <3>1. mlCalls[op.call] # NoOp
      BY <1>1, <1>3, <1>4, CallTypesOfServers DEF QueuedAs
    <3>2. CASE going \/ c # op.call
      BY <1>7, <3>2
    <3>3. CASE ~going /\ c = op.call
      BY <1>3, <1>4, <1>7, <3>1, <3>3
    <3> QED BY <3>2, <3>3
  <2>2. \A c \in LifecycleCalls : mlCalls'[c] # NoOp => mlCalls'[c].server = mlCalls[c].server
    BY <1>3, <1>4, <1>7
  <2>3. \A s \in ToolServers : Deleting(s)' <=> Deleting(s)
    BY <2>1, <2>2 DEF Deleting
  <2> QED BY <2>3 DEF Deleted
<1>11. IntentInv'
  <2> SUFFICES ASSUME NEW s \in ToolServers
               PROVE  /\ \A i \in 1..m :
                            mlOps'[i].server = s /\ (\A j \in (i + 1)..m : mlOps'[j].server # s)
                               => Meant(s, mlOps'[i].version, mlConfig', mlRevived', Deleted')
                      /\ ~InQueue(s)' /\ AtWork(s)' => Meant(s, mlWorker'.op.version, mlConfig', mlRevived', Deleted')
                      /\ ~InQueue(s)' /\ ~AtWork(s)' => Meant(s, mlClients'[s], mlConfig', mlRevived', Deleted')
    BY DEF IntentInv
  <2>1. \A i \in 1..m : mlOps'[i].server = s /\ (\A j \in (i + 1)..m : mlOps'[j].server # s)
                               => Meant(s, mlOps'[i].version, mlConfig', mlRevived', Deleted')
    BY <1>10 DEF Working
  <2>2. ~InQueue(s)' => Meant(s, IF s = op.server THEN op.version ELSE mlClients[s], mlConfig', mlRevived', Deleted')
    BY <1>10 DEF Working, InQueue
  <2>3. AtWork(s)' => s = op.server /\ mlWorker'.op = op
    BY <1>5, <1>6 DEF AtWork
  <2>4. ~AtWork(s)' => s # op.server \/ mlClients'[s] \in {0, op.version}
    BY <1>5, <1>6 DEF AtWork
  <2>5. ~InQueue(s)' /\ AtWork(s)' => Meant(s, mlWorker'.op.version, mlConfig', mlRevived', Deleted')
    BY <2>2, <2>3
  <2>6. ~InQueue(s)' /\ ~AtWork(s)' => Meant(s, mlClients'[s], mlConfig', mlRevived', Deleted')
    BY <2>2, <2>4, NothingMeant
  <2> QED BY <2>1, <2>5, <2>6
<1> QED BY <1>8, <1>9, <1>11

-----------------------------------------------------------------------------
(* The steps.                                                              *)

\* What the parts of the invariant leave to say of the types.
LEMMA LifecycleTypes ==
    ASSUME mlConfig' \in [ToolServers -> [version : Versions, enabled : BOOLEAN]],
           \A s \in ToolServers : mlConfig'[s] \in ServerConfig(s) \cup {NoServerConfig},
           mlClients' \in [ToolServers -> Versions], mlDynamic' \in BOOLEAN, RegistryInv',
           mlOps' \in Seq(Operation),
           mlWorker' = Resting \/ mlWorker' \in [at : {"disconnecting", "connecting"}, op : Operation],
           CallsInv', mlRevived' \subseteq ToolServers
    PROVE  LifecycleTypeOK'
<1>1. \A c \in LifecycleCalls :
        mlCalls'[c] \in {NoOp} \cup [op : {"add", "remove"}, server : ToolServers, at : {"queued", "done"}]
  BY DEF CallsInv, CallStates
<1> QED BY <1>1 DEF LifecycleTypeOK, RegistryInv

\* A configuration is a version of its server.
LEMMA ConfigTypes ==
    ASSUME NEW s \in ToolServers, NEW config \in ServerConfig(s)
    PROVE  /\ config \in [version : Versions, enabled : BOOLEAN]
           /\ config.version \in Versions /\ config.version # 0 /\ config.enabled \in BOOLEAN
           /\ config # NoServerConfig
  BY LifecycleAssumption DEF ServerConfig, Versions, NoServerConfig

LEMMA NoVersion == 0 \in Versions
  BY DEF Versions

LEMMA InitLifecycle ==
    ASSUME LifecycleInit
    PROVE  LifecycleInv
<1>1. mlOps = <<>> /\ Len(mlOps) = 0 /\ mlOps \in Seq(Operation) /\ mlWorker = Resting
  BY DEF LifecycleInit
<1>2. mlClients \in [ToolServers -> Versions] /\ \A s \in ToolServers : mlClients[s] = 0
  BY NoVersion DEF LifecycleInit
<1>3. CallsInv
  <2>1. mlCalls \in [LifecycleCalls -> CallStates] /\ \A c \in LifecycleCalls : mlCalls[c] = NoOp
    BY DEF LifecycleInit, CallStates
  <2>2. RequestsAreServed
    BY <1>1, <2>1 DEF RequestsAreServed
  <2> QED BY <1>1, <2>1, <2>2 DEF CallsInv
<1>4. RegistryInv /\ RoutesAnswer
  BY DEF LifecycleInit, RegistryInv, RoutesAnswer
<1>5. IntentInv
  <2>1. \A s \in ToolServers : ~InQueue(s) /\ ~AtWork(s)
    BY <1>1 DEF InQueue, AtWork
  <2>2. \A s \in ToolServers : Meant(s, mlClients[s], mlConfig, mlRevived, Deleted)
    BY <1>2, NothingMeant
  <2>3. \A i \in 1..Len(mlOps) : FALSE
    BY <1>1
  <2> QED BY <1>1, <2>1, <2>2, <2>3 DEF IntentInv
<1>6. WorkerInv
  BY <1>1 DEF WorkerInv, Resting
<1>7. LifecycleTypeOK
  BY <1>1, <1>2, <1>3, <1>4 DEF LifecycleTypeOK, LifecycleInit, CallsInv, CallStates, RegistryInv
<1> QED BY <1>3, <1>4, <1>5, <1>6, <1>7 DEF LifecycleInv

\* A step that leaves the registry and the providers alone.
LEMMA RoutesAnswerStays ==
    ASSUME RegistryInv, RoutesAnswer, UNCHANGED <<mlClients, mlDynamic, mlRegistry, mlWorker>>
    PROVE  RegistryInv' /\ RoutesAnswer'
  BY DEF RegistryInv, RoutesAnswer, CanAnswer, mlRegistry

LEMMA RequestStep ==
    ASSUME LifecycleInv, NEW c \in LifecycleCalls, NEW s \in ToolServers,
           \/ \E config \in ServerConfig(s) : SaveServer(c, s, config)
           \/ ReconnectServer(c, s)
           \/ DeleteServer(c, s)
    PROVE  LifecycleInv'
<1>1. LifecycleTypeOK /\ CallsInv /\ WorkerInv /\ IntentInv /\ RegistryInv /\ RoutesAnswer
  BY DEF LifecycleInv
<1>2. UNCHANGED <<mlClients, mlDynamic, mlRegistry, mlWorker>>
  BY DEF SaveServer, ReconnectServer, DeleteServer
<1>3. RegistryInv' /\ RoutesAnswer'
  BY <1>1, <1>2, RoutesAnswerStays
<1>4. ASSUME CallsInv', WorkerInv', IntentInv', mlOps' \in Seq(Operation), mlRevived' \subseteq ToolServers,
             mlConfig' \in [ToolServers -> [version : Versions, enabled : BOOLEAN]],
             \A x \in ToolServers : mlConfig'[x] \in ServerConfig(x) \cup {NoServerConfig}
      PROVE  LifecycleInv'
  <2>1. /\ mlClients' \in [ToolServers -> Versions] /\ mlDynamic' \in BOOLEAN
        /\ mlWorker' = Resting \/ mlWorker' \in [at : {"disconnecting", "connecting"}, op : Operation]
    BY <1>1, <1>2 DEF LifecycleTypeOK
  <2>2. LifecycleTypeOK'
    BY <1>3, <1>4, <2>1, LifecycleTypes
  <2> QED BY <1>3, <1>4, <2>2 DEF LifecycleInv
<1>5. mlConfig \in [ToolServers -> [version : Versions, enabled : BOOLEAN]] /\ mlRevived \subseteq ToolServers
      /\ mlOps \in Seq(Operation) /\ \A x \in ToolServers : mlConfig[x] \in ServerConfig(x) \cup {NoServerConfig}
  BY <1>1 DEF LifecycleTypeOK
<1>6. 0 \in Versions
  BY NoVersion
<1>7. ASSUME NEW config \in ServerConfig(s), SaveServer(c, s, config)
      PROVE  LifecycleInv'
  <2>1. /\ config \in [version : Versions, enabled : BOOLEAN] /\ config # NoServerConfig
        /\ config.version \in Versions /\ config.version # 0 /\ config.enabled \in BOOLEAN
    BY ConfigTypes
  <2>2. /\ mlConfig' \in [ToolServers -> [version : Versions, enabled : BOOLEAN]]
        /\ mlConfig'[s] = config /\ \A x \in ToolServers : x # s => mlConfig'[x] = mlConfig[x]
    BY <1>5, <1>7, <2>1 DEF SaveServer
  <2>3. \A x \in ToolServers : mlConfig'[x] \in ServerConfig(x) \cup {NoServerConfig}
    BY <1>5, <2>2
  <2>4. CASE config.enabled /\ config # mlConfig[s]
    <3>1. SubmitOp(c, "add", s, config.version) /\ mlCalls[c] = NoOp
      BY <1>7, <2>4 DEF SaveServer
    <3>2. CallsInv' /\ WorkerInv' /\ IntentInv' /\ mlOps' \in Seq(Operation)
      BY <1>2, <2>1, <2>2, <3>1, SubmitKeeps
    <3>3. mlRevived' \subseteq ToolServers
      BY <1>5, <3>1 DEF SubmitOp
    <3> QED BY <1>4, <2>2, <2>3, <3>2, <3>3
  <2>5. CASE ~(config.enabled /\ config # mlConfig[s])
    <3>1. UNCHANGED <<mlOps, mlCalls, mlRevived, mlWorker, mlClients>>
      BY <1>2, <1>7, <2>5 DEF SaveServer
    <3>2. CallsInv' /\ WorkerInv'
      BY <1>1, <3>1 DEF CallsInv, RequestsAreServed, WorkerInv
    <3>3. Deleted' = Deleted
      BY <3>1 DEF Deleted, Deleting
    <3>4. ASSUME NEW x \in ToolServers, NEW v, Meant(x, v, mlConfig, mlRevived, Deleted)
          PROVE  Meant(x, v, mlConfig', mlRevived', Deleted')
      <4>1. CASE mlConfig'[x] = mlConfig[x]
        BY <3>1, <3>3, <3>4, <4>1, MeantStays
      <4>2. CASE mlConfig'[x] # mlConfig[x]
        BY <2>1, <2>2, <2>5, <3>1, <3>3, <3>4, <4>2 DEF Meant
      <4> QED BY <4>1, <4>2
    <3>5. \A x \in ToolServers : (InQueue(x)' <=> InQueue(x)) /\ (AtWork(x)' <=> AtWork(x))
      BY <3>1 DEF InQueue, AtWork
    <3>6. IntentInv'
      BY <1>1, <3>1, <3>4, <3>5 DEF IntentInv
    <3> QED BY <1>4, <1>5, <2>2, <2>3, <3>1, <3>2, <3>6
  <2> QED BY <2>4, <2>5
<1>8. ASSUME ReconnectServer(c, s)
      PROVE  LifecycleInv'
  <2> DEFINE config == mlConfig[s]
  <2>1. config \in ServerConfig(s)
    BY <1>5, <1>8 DEF ReconnectServer
  <2>2. config.version \in Versions /\ config.version # 0 /\ config.enabled \in BOOLEAN /\ config # NoServerConfig
    BY <2>1, ConfigTypes
  <2>3. UNCHANGED mlConfig /\ mlConfig'[s] = config
    BY <1>8 DEF ReconnectServer
  <2>4. SubmitOp(c, "add", s, config.version) /\ mlCalls[c] = NoOp
    BY <1>8 DEF ReconnectServer
  <2>5. CallsInv' /\ WorkerInv' /\ IntentInv' /\ mlOps' \in Seq(Operation)
    <3> HIDE DEF config
    <3> QED BY <1>2, <2>2, <2>3, <2>4, SubmitKeeps
  <2>6. mlRevived' \subseteq ToolServers
    BY <1>5, <2>4 DEF SubmitOp
  <2> QED BY <1>4, <1>5, <2>3, <2>5, <2>6
<1>9. ASSUME DeleteServer(c, s)
      PROVE  LifecycleInv'
  <2>1. UNCHANGED mlConfig /\ SubmitOp(c, "remove", s, 0) /\ mlCalls[c] = NoOp
    BY <1>9 DEF DeleteServer
  <2>2. CallsInv' /\ WorkerInv' /\ IntentInv' /\ mlOps' \in Seq(Operation)
    BY <1>2, <1>6, <2>1, SubmitKeeps
  <2>3. mlRevived' \subseteq ToolServers
    BY <1>5, <2>1 DEF SubmitOp
  <2> QED BY <1>4, <1>5, <2>1, <2>2, <2>3
<1> QED BY <1>7, <1>8, <1>9

\* The configuration goes while the server may be connected again.
LEMMA DropConfigStep ==
    ASSUME LifecycleInv, NEW c \in LifecycleCalls, DropConfig(c)
    PROVE  LifecycleInv'
<1>1. LifecycleTypeOK /\ CallsInv /\ WorkerInv /\ IntentInv /\ RegistryInv /\ RoutesAnswer
  BY DEF LifecycleInv
<1> DEFINE s == mlCalls[c].server
<1>2. mlCalls[c] # NoOp /\ mlCalls[c].at = "done" /\ mlCalls[c].op = "remove" /\ s \in ToolServers
  BY <1>1, CallTypesOfServers DEF DropConfig
<1>3. UNCHANGED <<mlClients, mlDynamic, mlRegistry, mlOps, mlWorker, mlRevived>>
  BY DEF DropConfig
<1>4. RegistryInv' /\ RoutesAnswer'
  BY <1>1, <1>3, RoutesAnswerStays
<1>5. /\ mlConfig' \in [ToolServers -> [version : Versions, enabled : BOOLEAN]]
      /\ mlConfig'[s] = NoServerConfig /\ \A x \in ToolServers : x # s => mlConfig'[x] = mlConfig[x]
  <2>1. NoServerConfig \in [version : Versions, enabled : BOOLEAN]
    BY NoVersion DEF NoServerConfig
  <2> QED BY <1>1, <1>2, <2>1 DEF DropConfig, LifecycleTypeOK
<1>6. /\ mlCalls' \in [LifecycleCalls -> CallStates]
      /\ mlCalls'[c] = NoOp /\ \A d \in LifecycleCalls : d # c => mlCalls'[d] = mlCalls[d]
  BY <1>1 DEF DropConfig, CallsInv, CallStates
<1>7. CallsInv'
  <2>1. \A op : mlCalls[op.call] = QueuedAs(op) => op.call # c
    BY <1>2 DEF QueuedAs
  <2>2. \A i \in 1..Len(mlOps) : mlOps[i].call \in LifecycleCalls
    <3>1. \A i \in 1..Len(mlOps) : mlOps[i] \in Operation
      BY <1>1, ElementOfSeq DEF LifecycleTypeOK
    <3> QED BY <3>1 DEF Operation
  <2>3. \A i \in 1..Len(mlOps) : mlCalls'[mlOps[i].call] = QueuedAs(mlOps[i])
    BY <1>1, <1>6, <2>1, <2>2 DEF CallsInv
  <2>4. mlWorker # Resting => mlCalls'[mlWorker.op.call] = QueuedAs(mlWorker.op)
    BY <1>1, <1>6, <2>1, WorkerTypes DEF CallsInv
  <2>5. RequestsAreServed'
    BY <1>1, <1>2, <1>3, <1>6 DEF CallsInv, RequestsAreServed
  <2> QED BY <1>1, <1>3, <1>6, <2>3, <2>4, <2>5 DEF CallsInv
<1>8. WorkerInv'
  BY <1>1, <1>3 DEF WorkerInv
<1>9. ASSUME NEW x \in ToolServers, NEW v, Meant(x, v, mlConfig, mlRevived, Deleted)
      PROVE  Meant(x, v, mlConfig', mlRevived', Deleted')
  <2>1. x \in Deleted' => x \in Deleted
    BY <1>6 DEF Deleted, Deleting
  <2>2. CASE x = s
    <3>1. x \in Deleted
      BY <1>2, <2>2 DEF Deleted, Deleting
    <3> QED BY <1>3, <1>5, <1>9, <2>2, <3>1 DEF Meant
  <2>3. CASE x # s
    BY <1>3, <1>5, <1>9, <2>1, <2>3, MeantStays
  <2> QED BY <2>2, <2>3
<1>10. \A x \in ToolServers : (InQueue(x)' <=> InQueue(x)) /\ (AtWork(x)' <=> AtWork(x))
  BY <1>3 DEF InQueue, AtWork
<1>11. IntentInv'
  BY <1>1, <1>3, <1>9, <1>10 DEF IntentInv
<1>12. LifecycleTypeOK'
  BY <1>1, <1>3, <1>4, <1>5, <1>7, LifecycleTypes DEF LifecycleTypeOK
<1> QED BY <1>4, <1>7, <1>8, <1>11, <1>12 DEF LifecycleInv

\* The worker takes an operation; the client it closes may be gone already.
LEMMA TakeOpStep ==
    ASSUME LifecycleInv, TakeOp
    PROVE  LifecycleInv'
<1>1. LifecycleTypeOK /\ CallsInv /\ WorkerInv /\ IntentInv /\ RegistryInv /\ RoutesAnswer
  BY DEF LifecycleInv
<1> DEFINE op == Head(mlOps)
<1>2. mlWorker = Resting /\ mlOps # <<>> /\ mlOps' = Tail(mlOps) /\ UNCHANGED <<mlConfig, mlDynamic, mlRevived>>
  BY DEF TakeOp
<1>3. Working(op, mlOps') /\ op \in Operation /\ mlOps' \in Seq(Operation)
  BY <1>2, TakenWorks
<1>4. /\ mlClients' = [mlClients EXCEPT ![op.server] = 0]
      /\ IF mlClients[op.server] = 0
         THEN Removed(op)
         ELSE mlWorker' = [at |-> "disconnecting", op |-> op] /\ UNCHANGED <<mlRegistry, mlCalls>>
  BY DEF TakeOp
<1> HIDE DEF op
<1>5. op.op \in {"add", "remove"} /\ op.server \in ToolServers
  BY <1>3 DEF Operation
<1>6. /\ mlClients' \in [ToolServers -> Versions] /\ mlClients'[op.server] = 0
      /\ \A s \in ToolServers : s # op.server => mlClients'[s] = mlClients[s]
  BY <1>1, <1>4, <1>5, NoVersion DEF LifecycleTypeOK
<1>7. CASE mlClients[op.server] = 0
  <2>1. Unregisters(op.server) /\ (IF op.op = "add" THEN mlWorker' = [at |-> "connecting", op |-> op] /\ UNCHANGED mlCalls
                                   ELSE OpEnds(op))
    BY <1>4, <1>7 DEF Removed
  <2>2. /\ RegistryInv'
        /\ \A t \in ServedTools : mlRoute'[t] # NoProvider => mlRoute'[t] = mlRoute[t] /\ mlRoute'[t] # op.server
    BY <1>1, <1>5, <2>1, UnregistersKeeps DEF ToolProviders
  <2>3. RoutesAnswer'
    <3> SUFFICES ASSUME NEW t \in ServedTools, mlRoute'[t] # NoProvider PROVE CanAnswer(mlRoute[t])'
      BY <2>2 DEF RoutesAnswer, CanAnswer
    <3>1. mlRoute[t] # op.server /\ mlRoute[t] # NoProvider /\ CanAnswer(mlRoute[t]) /\ mlRoute'[t] = mlRoute[t]
      BY <1>1, <2>2 DEF RoutesAnswer
    <3>2. mlRoute[t] \in ToolServers \cup {NodeProvider}
      BY <1>1, <3>1 DEF RegistryInv, ToolProviders
    <3>3. mlWorker.at = "idle"
      BY <1>2 DEF Resting
    <3> QED BY <1>2, <1>6, <3>1, <3>2, <3>3 DEF CanAnswer
  <2>4. CallsInv' /\ WorkerInv' /\ IntentInv'
    <3>1. CASE op.op = "add"
      BY <1>2, <1>3, <1>6, <2>1, <3>1, WorkerKeeps
    <3>2. CASE op.op # "add"
      BY <1>2, <1>3, <1>6, <2>1, <3>2, WorkerKeeps
    <3> QED BY <3>1, <3>2
  <2>5. mlWorker' = Resting \/ mlWorker' \in [at : {"disconnecting", "connecting"}, op : Operation]
    BY <1>3, <2>1 DEF OpEnds
  <2>6. LifecycleTypeOK'
    BY <1>1, <1>2, <1>3, <1>6, <2>2, <2>4, <2>5, LifecycleTypes DEF LifecycleTypeOK
  <2> QED BY <2>2, <2>3, <2>4, <2>6 DEF LifecycleInv
<1>8. CASE mlClients[op.server] # 0
  <2>1. mlWorker' = [at |-> "disconnecting", op |-> op] /\ UNCHANGED <<mlRegistry, mlCalls>>
    BY <1>4, <1>8
  <2>2. RegistryInv'
    BY <1>1, <2>1 DEF RegistryInv, mlRegistry
  <2>3. RoutesAnswer'
    <3> SUFFICES ASSUME NEW t \in ServedTools, mlRoute[t] # NoProvider PROVE CanAnswer(mlRoute[t])'
      BY <2>1 DEF RoutesAnswer, CanAnswer, mlRegistry
    <3>1. CanAnswer(mlRoute[t]) /\ mlRoute[t] \in ToolServers \cup {NodeProvider}
      BY <1>1 DEF RoutesAnswer, RegistryInv, ToolProviders
    <3>2. mlWorker.at = "idle" /\ mlWorker'.at = "disconnecting" /\ mlWorker'.op.server = op.server
      BY <1>2, <2>1 DEF Resting
    <3> QED BY <1>2, <1>6, <2>1, <3>1, <3>2 DEF CanAnswer, mlRegistry
  <2>4. CallsInv' /\ WorkerInv' /\ IntentInv'
    BY <1>2, <1>3, <1>6, <2>1, WorkerKeeps
  <2>5. mlWorker' \in [at : {"disconnecting", "connecting"}, op : Operation]
    BY <1>3, <2>1
  <2>6. LifecycleTypeOK'
    BY <1>1, <1>2, <1>3, <1>6, <2>2, <2>4, <2>5, LifecycleTypes DEF LifecycleTypeOK
  <2> QED BY <2>2, <2>3, <2>4, <2>6 DEF LifecycleInv
<1> QED BY <1>7, <1>8

\* The client is closed, the connection is made, or it fails.
LEMMA WorkerStep ==
    ASSUME LifecycleInv,
           Disconnected \/ ConnectFails \/ \E tools \in SUBSET ServedTools : Connected(tools)
    PROVE  LifecycleInv'
<1>1. LifecycleTypeOK /\ CallsInv /\ WorkerInv /\ IntentInv /\ RegistryInv /\ RoutesAnswer
  BY DEF LifecycleInv
<1> DEFINE op == mlWorker.op
<1>2. mlWorker # Resting /\ mlWorker.at \in {"disconnecting", "connecting"}
  BY <1>1, WorkerTypes DEF Disconnected, ConnectFails, Connected, Resting
<1>3. Working(op, mlOps) /\ op \in Operation /\ mlClients[op.server] = 0
  BY <1>2, WorkerWorks
<1>4. op.op \in {"add", "remove"} /\ op.server \in ToolServers /\ op.version \in Versions
  BY <1>3 DEF Operation
<1>5. UNCHANGED <<mlConfig, mlDynamic, mlRevived, mlOps>>
  BY DEF Disconnected, ConnectFails, Connected
<1>6. mlOps' \in Seq(Operation) /\ Working(op, mlOps')
  BY <1>1, <1>3, <1>5 DEF LifecycleTypeOK
<1>7. mlClients \in [ToolServers -> Versions] /\ mlDynamic \in BOOLEAN /\ mlRevived \subseteq ToolServers
  BY <1>1 DEF LifecycleTypeOK
<1>8. ASSUME CallsInv', WorkerInv', IntentInv', RegistryInv', RoutesAnswer', mlClients' \in [ToolServers -> Versions],
             mlWorker' = Resting \/ mlWorker' \in [at : {"disconnecting", "connecting"}, op : Operation]
      PROVE  LifecycleInv'
  <2>1. LifecycleTypeOK'
    BY <1>1, <1>5, <1>6, <1>8, LifecycleTypes DEF LifecycleTypeOK
  <2> QED BY <1>8, <2>1 DEF LifecycleInv
<1>9. ASSUME Disconnected
      PROVE  LifecycleInv'
  <2>1. UNCHANGED mlClients /\ Unregisters(op.server) /\ mlWorker.at = "disconnecting"
        /\ (IF op.op = "add" THEN mlWorker' = [at |-> "connecting", op |-> op] /\ UNCHANGED mlCalls ELSE OpEnds(op))
    BY <1>9 DEF Disconnected, Removed
  <2> HIDE DEF op
  <2>2. /\ RegistryInv'
        /\ \A t \in ServedTools : mlRoute'[t] # NoProvider => mlRoute'[t] = mlRoute[t] /\ mlRoute'[t] # op.server
    BY <1>1, <1>4, <2>1, UnregistersKeeps DEF ToolProviders
  <2>3. RoutesAnswer'
    <3> SUFFICES ASSUME NEW t \in ServedTools, mlRoute'[t] # NoProvider PROVE CanAnswer(mlRoute[t])'
      BY <2>2 DEF RoutesAnswer, CanAnswer
    <3>1. mlRoute[t] # op.server /\ mlRoute[t] # NoProvider /\ CanAnswer(mlRoute[t])
      BY <1>1, <2>2 DEF RoutesAnswer
    <3> QED BY <1>5, <2>1, <2>2, <3>1 DEF CanAnswer, op
  <2>4. CallsInv' /\ WorkerInv' /\ IntentInv'
    <3>1. CASE op.op = "add"
      BY <1>3, <1>5, <1>6, <1>7, <2>1, <3>1, WorkerKeeps
    <3>2. CASE op.op # "add"
      BY <1>3, <1>5, <1>6, <1>7, <2>1, <3>2, WorkerKeeps
    <3> QED BY <3>1, <3>2
  <2>5. mlWorker' = Resting \/ mlWorker' \in [at : {"disconnecting", "connecting"}, op : Operation]
    BY <1>3, <2>1 DEF OpEnds
  <2> QED BY <1>7, <1>8, <2>1, <2>2, <2>3, <2>4, <2>5
<1>10. ASSUME ConnectFails
       PROVE  LifecycleInv'
  <2>1. UNCHANGED <<mlClients, mlRegistry>> /\ mlWorker.at = "connecting" /\ OpEnds(op)
    BY <1>10 DEF ConnectFails
  <2>2. mlWorker' = Resting
    BY <2>1 DEF OpEnds
  <2> HIDE DEF op
  <2>3. RegistryInv'
    BY <1>1, <2>1 DEF RegistryInv, mlRegistry
  <2>4. RoutesAnswer'
    <3> SUFFICES ASSUME NEW t \in ServedTools, mlRoute[t] # NoProvider PROVE CanAnswer(mlRoute[t])'
      BY <2>1 DEF RoutesAnswer, CanAnswer, mlRegistry
    <3>1. CanAnswer(mlRoute[t])
      BY <1>1 DEF RoutesAnswer
    <3> QED BY <1>5, <2>1, <3>1 DEF CanAnswer, mlRegistry
  <2>5. CallsInv' /\ WorkerInv' /\ IntentInv'
    BY <1>3, <1>5, <1>6, <1>7, <2>1, WorkerKeeps
  <2> QED BY <1>7, <1>8, <2>1, <2>2, <2>3, <2>4, <2>5
<1>11. ASSUME NEW tools \in SUBSET ServedTools, Connected(tools)
       PROVE  LifecycleInv'
  <2>1. /\ mlClients' = [mlClients EXCEPT ![op.server] = op.version] /\ mlWorker.at = "connecting"
        /\ Registers(op.server, tools) /\ OpEnds(op)
    BY <1>11 DEF Connected
  <2>2. mlWorker' = Resting /\ mlWorker.at # "disconnecting"
    BY <2>1 DEF OpEnds
  <2>3. op.op = "add" /\ op.version # 0
    BY <1>1, <1>2, <2>1 DEF WorkerInv
  <2> HIDE DEF op
  <2>4. /\ mlClients' \in [ToolServers -> Versions] /\ mlClients'[op.server] = op.version
        /\ \A s \in ToolServers : s # op.server => mlClients'[s] = mlClients[s]
    BY <1>4, <1>7, <2>1
  <2>5. /\ RegistryInv'
        /\ \A t \in ServedTools : mlRoute'[t] \in {op.server, mlRoute[t]}
    BY <1>1, <1>4, <2>1, RegistersKeeps DEF ToolProviders
  <2>6. RoutesAnswer'
    <3> SUFFICES ASSUME NEW t \in ServedTools, mlRoute'[t] # NoProvider
                 PROVE  IF mlRoute'[t] = NodeProvider THEN mlDynamic' ELSE mlClients'[mlRoute'[t]] # 0
      BY DEF RoutesAnswer, CanAnswer
    <3>1. CASE mlRoute'[t] = op.server
      BY <1>4, <2>3, <2>4, <3>1, LifecycleAssumption
    <3>2. CASE mlRoute'[t] # op.server
      <4>1. mlRoute'[t] = mlRoute[t] /\ CanAnswer(mlRoute[t]) /\ mlRoute[t] \in ToolServers \cup {NodeProvider}
        BY <1>1, <2>5, <3>2 DEF RoutesAnswer, RegistryInv, ToolProviders
      <4> QED BY <1>5, <2>2, <2>4, <3>2, <4>1 DEF CanAnswer
    <3> QED BY <3>1, <3>2
  <2>7. CallsInv' /\ WorkerInv' /\ IntentInv'
    BY <1>3, <1>5, <1>6, <2>1, <2>4, WorkerKeeps
  <2> QED BY <1>8, <2>2, <2>4, <2>5, <2>6, <2>7
<1> QED BY <1>9, <1>10, <1>11

\* The provider of a node comes, offers something else, or goes.
LEMMA ProviderStep ==
    ASSUME LifecycleInv,
           UnregisterDynamic \/ \E tools \in SUBSET ServedTools : RegisterDynamic(tools)
    PROVE  LifecycleInv'
<1>1. LifecycleTypeOK /\ CallsInv /\ WorkerInv /\ IntentInv /\ RegistryInv /\ RoutesAnswer
  BY DEF LifecycleInv
<1>2. UNCHANGED <<mlConfig, mlClients, mlOps, mlWorker, mlCalls, mlRevived>> /\ mlDynamic' \in BOOLEAN
  BY DEF RegisterDynamic, UnregisterDynamic
<1>3. NodeProvider \in ToolProviders
  BY DEF ToolProviders
<1>4. CallsInv' /\ WorkerInv'
  BY <1>1, <1>2 DEF CallsInv, RequestsAreServed, WorkerInv
<1>5. IntentInv'
  <2>1. Deleted' = Deleted
    BY <1>2 DEF Deleted, Deleting
  <2>2. \A x \in ToolServers : (InQueue(x)' <=> InQueue(x)) /\ (AtWork(x)' <=> AtWork(x))
    BY <1>2 DEF InQueue, AtWork
  <2> QED BY <1>1, <1>2, <2>1, <2>2 DEF IntentInv
<1>6. RegistryInv' /\ RoutesAnswer'
  <2>1. ASSUME UnregisterDynamic PROVE RegistryInv' /\ RoutesAnswer'
    <3>1. /\ RegistryInv'
          /\ \A t \in ServedTools : mlRoute'[t] # NoProvider => mlRoute'[t] = mlRoute[t] /\ mlRoute'[t] # NodeProvider
      BY <1>1, <1>3, <2>1, UnregistersKeeps DEF UnregisterDynamic
    <3> QED BY <1>1, <1>2, <3>1 DEF RoutesAnswer, CanAnswer
  <2>2. ASSUME NEW tools \in SUBSET ServedTools, RegisterDynamic(tools) PROVE RegistryInv' /\ RoutesAnswer'
    <3>1. /\ RegistryInv' /\ mlDynamic' = TRUE
          /\ \A t \in ServedTools : mlRoute'[t] \in {NodeProvider, mlRoute[t], NoProvider}
      BY <1>1, <1>3, <2>2, ReplacesKeeps DEF RegisterDynamic
    <3> QED BY <1>1, <1>2, <3>1 DEF RoutesAnswer, CanAnswer
  <2> QED BY <2>1, <2>2
<1>7. LifecycleTypeOK'
  BY <1>1, <1>2, <1>4, <1>6, LifecycleTypes DEF LifecycleTypeOK
<1> QED BY <1>4, <1>5, <1>6, <1>7 DEF LifecycleInv

LEMMA LifecycleStutters ==
    ASSUME LifecycleInv, UNCHANGED mlVars
    PROVE  LifecycleInv'
<1>1. UNCHANGED <<mlConfig, mlClients, mlDynamic, mlListed, mlRoute, mlTakenOver, mlOps, mlWorker, mlCalls, mlRevived>>
  BY DEF mlVars, mlRegistry
<1>2. Deleted' = Deleted
  BY <1>1 DEF Deleted, Deleting
<1>3. \A x \in ToolServers : (InQueue(x)' <=> InQueue(x)) /\ (AtWork(x)' <=> AtWork(x))
  BY <1>1 DEF InQueue, AtWork
<1>4. IntentInv'
  BY <1>1, <1>2, <1>3 DEF LifecycleInv, IntentInv
<1>5. CallsInv' /\ WorkerInv' /\ RegistryInv' /\ LifecycleTypeOK'
  BY <1>1 DEF LifecycleInv, CallsInv, RequestsAreServed, WorkerInv, RegistryInv, LifecycleTypeOK
<1>6. RoutesAnswer'
  BY <1>1 DEF LifecycleInv, RoutesAnswer, CanAnswer
<1> QED BY <1>4, <1>5, <1>6 DEF LifecycleInv

LEMMA LifecycleKeepsInv ==
    ASSUME LifecycleInv, [LifecycleNext]_mlVars
    PROVE  LifecycleInv'
<1>1. CASE LifecycleNext
  <2>1. ASSUME NEW c \in LifecycleCalls, NEW s \in ToolServers,
               \/ \E config \in ServerConfig(s) : SaveServer(c, s, config)
               \/ ReconnectServer(c, s)
               \/ DeleteServer(c, s)
        PROVE  LifecycleInv'
    BY <2>1, RequestStep
  <2>2. ASSUME NEW c \in LifecycleCalls, DropConfig(c) PROVE LifecycleInv'
    BY <2>2, DropConfigStep
  <2>3. ASSUME TakeOp PROVE LifecycleInv'
    BY <2>3, TakeOpStep
  <2>4. ASSUME Disconnected \/ ConnectFails \/ \E tools \in SUBSET ServedTools : Connected(tools)
        PROVE  LifecycleInv'
    BY <2>4, WorkerStep
  <2>5. ASSUME UnregisterDynamic \/ \E tools \in SUBSET ServedTools : RegisterDynamic(tools)
        PROVE  LifecycleInv'
    BY <2>5, ProviderStep
  <2> QED BY <1>1, <2>1, <2>2, <2>3, <2>4, <2>5 DEF LifecycleNext
<1>2. CASE UNCHANGED mlVars
  BY <1>2, LifecycleStutters
<1> QED BY <1>1, <1>2

-----------------------------------------------------------------------------
(* The theorems.                                                           *)

LEMMA RoutesLeadFollows ==
    ASSUME LifecycleInv
    PROVE  RoutesLead
  BY DEF LifecycleInv, RegistryInv, RoutesAnswer, CanAnswer, RoutesLead

LEMMA ConnectedFollows ==
    ASSUME LifecycleInv
    PROVE  ConnectedAsConfigured
<1> SUFFICES ASSUME NEW s \in ToolServers, Settled(s), mlClients[s] # 0
             PROVE  \/ mlConfig[s].enabled /\ mlConfig[s].version = mlClients[s]
                    \/ mlConfig[s] # NoServerConfig /\ ~mlConfig[s].enabled
                    \/ mlConfig[s] = NoServerConfig /\ s \in mlRevived
  BY DEF ConnectedAsConfigured
<1>1. DOMAIN mlOps = 1..Len(mlOps)
  BY LenProperties DEF LifecycleInv, LifecycleTypeOK
<1>2. ~InQueue(s) /\ ~AtWork(s)
  BY <1>1 DEF Settled, InQueue, AtWork
<1>3. Meant(s, mlClients[s], mlConfig, mlRevived, Deleted)
  BY <1>2 DEF LifecycleInv, IntentInv
<1> QED BY <1>3 DEF Meant

LifecycleSpec == LifecycleInit /\ [][LifecycleNext]_mlVars

\* Whatever the requests, the failures and the nodes that come and go: the
\* last operation for a server says what its configuration says.
THEOREM LifecycleInvariant == LifecycleSpec => []LifecycleInv
<1>1. LifecycleInit => LifecycleInv
  BY InitLifecycle
<1>2. LifecycleInv /\ [LifecycleNext]_mlVars => LifecycleInv'
  BY LifecycleKeepsInv
<1> QED BY <1>1, <1>2, PTL DEF LifecycleSpec

\* Calls are sent to providers that list the tool and are there to run it.
THEOREM RoutesLeadHolds == LifecycleSpec => []RoutesLead
  BY LifecycleInvariant, RoutesLeadFollows, PTL

\* Once nothing is under way for a server it is connected as it is configured.
THEOREM ConnectedAsConfiguredHolds == LifecycleSpec => []ConnectedAsConfigured
  BY LifecycleInvariant, ConnectedFollows, PTL

\* No request waits for an operation that nobody has.
THEOREM RequestsAreServedHolds == LifecycleSpec => []RequestsAreServed
<1>1. LifecycleInv => RequestsAreServed
  BY DEF LifecycleInv, CallsInv
<1> QED BY <1>1, LifecycleInvariant, PTL

-----------------------------------------------------------------------------
(* The wake listener.                                                      *)

Listens(t) == wlAt[t] \notin {"dead", "closing"}
HasClaimed(t) == wlAt[t] \in {"claiming", "waiting", "dropping", "decided", "flushing", "streaming", "sending", "ending"}
HasStream(t) == wlAt[t] \in {"flushing", "streaming", "sending", "ending"}

\* One thread listens; the lease is that of the claim of the listener, which
\* is the claim of the thread, or none, from its detection to its end.
LeaseInv ==
    /\ \A t, u \in Captures : Listens(t) /\ Listens(u) => t = u
    /\ wlLease \in {NoClaim, wlClaim}
    /\ \A t \in Captures : HasClaimed(t) => wlClaim \in {NoClaim, wlMine[t]}
    /\ \A t \in Captures : HasStream(t) => wlStreams[t] = wlMine[t]

WakeInv == WakeTypeOK /\ OneCapture /\ (wlTwin \/ LeaseInv)

\* A new thread is the only one, unless it has a twin.
LEMMA StartsListeningKeeps ==
    ASSUME WakeInv, StartsListening, UNCHANGED wlTurn
    PROVE  /\ OneCapture' /\ (wlTwin' \/ LeaseInv')
           /\ wlStop' \in BOOLEAN /\ wlHandle' \in Captures /\ wlTwin' \in BOOLEAN
           /\ UNCHANGED <<wlMine, wlStreams>>
           /\ \E t \in Captures : wlAt' = [wlAt EXCEPT ![t] = "starting"]
<1>1. PICK t \in Captures : ~Alive(t) /\ wlHandle' = t /\ wlAt' = [wlAt EXCEPT ![t] = "starting"]
  BY DEF StartsListening
<1>2. wlTwin' \in BOOLEAN /\ wlStop' = FALSE /\ UNCHANGED <<wlMine, wlStreams, wlClaim, wlLease>>
  BY DEF StartsListening, WakeInv, WakeTypeOK, wlTurn
<1>3. wlAt'[t] = "starting" /\ \A u \in Captures : u # t => wlAt'[u] = wlAt[u]
  BY <1>1 DEF WakeInv, WakeTypeOK
<1>4. ~wlTwin' => ~wlTwin /\ \A u \in Captures : wlAt[u] = "dead"
  BY DEF StartsListening, Alive
<1>5. ~wlTwin' => \A u \in Captures : Listens(u)' => u = t
  BY <1>3, <1>4 DEF Listens
<1>6. ~wlTwin' => \A u \in Captures : ~HasClaimed(u)' /\ ~HasStream(u)'
  BY <1>3, <1>4 DEF HasClaimed, HasStream
<1>7. OneCapture'
  BY <1>1, <1>5 DEF OneCapture, Listens
<1>8. wlTwin' \/ LeaseInv'
  BY <1>2, <1>4, <1>5, <1>6 DEF LeaseInv, WakeInv
<1> QED BY <1>1, <1>2, <1>7, <1>8

\* What stop() and a new start leave.
LEMMA StopsListeningKeeps ==
    ASSUME WakeInv, NEW restart \in BOOLEAN, StopsListening(restart), UNCHANGED <<wlTurn, wlWire>>,
           wlPolicy' \in WakePolicies \cup {"off", "none"}
    PROVE  WakeInv'
<1>1. WakeTypeOK /\ OneCapture /\ (wlTwin \/ LeaseInv)
  BY DEF WakeInv
<1>2. wlClaim' = wlClaim /\ wlLease' = wlLease /\ wlGranted' = wlGranted /\ wlOut' = wlOut /\ wlVerdicts' = wlVerdicts
  BY DEF wlTurn, wlWire
<1>3. CASE wlHandle # NoCapture /\ Alive(wlHandle)
  <2>1. /\ wlStop' = TRUE /\ wlHandle' = NoCapture /\ UNCHANGED <<wlAt, wlMine, wlStreams, wlTwin>>
        /\ wlLoop' = [at |-> IF restart THEN "restarts" ELSE "joins", capture |-> wlHandle]
    BY <1>3 DEF StopsListening, wlLocal
  <2>2. wlLoop' \in [at : LoopSteps, capture : Captures \cup {NoCapture}]
    BY <1>1, <2>1 DEF LoopSteps, WakeTypeOK
  <2>3. WakeTypeOK'
    BY <1>1, <1>2, <2>1, <2>2 DEF WakeTypeOK
  <2>4. OneCapture' /\ (wlTwin' \/ LeaseInv')
    BY <1>1, <1>2, <2>1 DEF OneCapture, LeaseInv, Listens, HasClaimed, HasStream
  <2> QED BY <2>3, <2>4 DEF WakeInv
<1>4. CASE ~(wlHandle # NoCapture /\ Alive(wlHandle)) /\ restart
  <2>1. StartsListening /\ UNCHANGED wlLoop
    BY <1>4 DEF StopsListening
  <2>2. /\ OneCapture' /\ (wlTwin' \/ LeaseInv')
        /\ wlStop' \in BOOLEAN /\ wlHandle' \in Captures /\ wlTwin' \in BOOLEAN
        /\ UNCHANGED <<wlMine, wlStreams>>
        /\ \E t \in Captures : wlAt' = [wlAt EXCEPT ![t] = "starting"]
    BY <2>1, StartsListeningKeeps
  <2>3. WakeTypeOK'
    BY <1>1, <1>2, <2>1, <2>2 DEF WakeTypeOK
  <2> QED BY <2>2, <2>3 DEF WakeInv
<1>5. CASE ~(wlHandle # NoCapture /\ Alive(wlHandle)) /\ ~restart
  <2>1. wlStop' = TRUE /\ wlHandle' = NoCapture /\ UNCHANGED <<wlAt, wlMine, wlStreams, wlLoop, wlTwin>>
    BY <1>5 DEF StopsListening, wlLocal
  <2>2. WakeTypeOK'
    BY <1>1, <1>2, <2>1 DEF WakeTypeOK
  <2>3. OneCapture' /\ (wlTwin' \/ LeaseInv')
    BY <1>1, <1>2, <2>1 DEF OneCapture, LeaseInv, Listens, HasClaimed, HasStream
  <2> QED BY <2>2, <2>3 DEF WakeInv
<1> QED BY <1>3, <1>4, <1>5

\* Policies, joins and connections.
LEMMA WakePolicyStep ==
    ASSUME WakeInv,
           \/ \E policy \in WakePolicies \cup {"off"} : ApplyPolicy(policy)
           \/ PolicyMissing \/ JoinEnds \/ ConnectionEnds
    PROVE  WakeInv'
<1>1. WakeTypeOK /\ OneCapture /\ (wlTwin \/ LeaseInv)
  BY DEF WakeInv
<1>2. ASSUME NEW policy \in WakePolicies \cup {"off"}, ApplyPolicy(policy) PROVE WakeInv'
  <2>1. wlPolicy' = policy /\ UNCHANGED <<wlTurn, wlWire>>
    BY <1>2 DEF ApplyPolicy
  <2>2. CASE policy \in WakePolicies /\ Unchanged(policy)
    <3>1. UNCHANGED <<wlHandle, wlStop, wlAt, wlMine, wlStreams, wlLoop, wlTwin, wlClaim, wlLease, wlGranted, wlOut, wlVerdicts>>
      BY <1>2, <2>1, <2>2 DEF ApplyPolicy, wlLocal, wlTurn, wlWire
    <3>2. WakeTypeOK'
      BY <1>1, <2>1, <3>1 DEF WakeTypeOK
    <3>3. OneCapture' /\ (wlTwin' \/ LeaseInv')
      BY <1>1, <3>1 DEF OneCapture, LeaseInv, Listens, HasClaimed, HasStream
    <3> QED BY <3>2, <3>3 DEF WakeInv
  <2>3. CASE ~(policy \in WakePolicies /\ Unchanged(policy))
    <3>1. StopsListening(policy \in WakePolicies)
      BY <1>2, <2>3 DEF ApplyPolicy
    <3>2. (policy \in WakePolicies) \in BOOLEAN
      OBVIOUS
    <3>3. wlPolicy' \in WakePolicies \cup {"off", "none"}
      BY <2>1
    <3> QED BY <2>1, <3>1, <3>2, <3>3, StopsListeningKeeps
  <2> QED BY <2>2, <2>3
<1>3. ASSUME PolicyMissing PROVE WakeInv'
  BY <1>1, <1>3, StopsListeningKeeps DEF PolicyMissing, WakeTypeOK
<1>4. ASSUME JoinEnds PROVE WakeInv'
  <2>1. UNCHANGED <<wlPolicy, wlTurn, wlOut, wlVerdicts, wlClaim, wlLease, wlGranted>> /\ wlLoop' = LoopFree
    BY <1>4 DEF JoinEnds, wlTurn, wlWire
  <2>2. wlLoop' \in [at : LoopSteps, capture : Captures \cup {NoCapture}]
    BY <2>1 DEF LoopFree, LoopSteps
  <2>3. CASE wlLoop.at = "restarts"
    <3>1. /\ OneCapture' /\ (wlTwin' \/ LeaseInv')
          /\ wlStop' \in BOOLEAN /\ wlHandle' \in Captures /\ wlTwin' \in BOOLEAN
          /\ UNCHANGED <<wlMine, wlStreams>>
          /\ \E t \in Captures : wlAt' = [wlAt EXCEPT ![t] = "starting"]
      BY <1>4, <2>1, <2>3, StartsListeningKeeps DEF JoinEnds
    <3>2. WakeTypeOK'
      BY <1>1, <2>1, <2>2, <3>1 DEF WakeTypeOK
    <3> QED BY <3>1, <3>2 DEF WakeInv
  <2>4. CASE wlLoop.at # "restarts"
    <3>1. UNCHANGED <<wlStop, wlHandle, wlAt, wlMine, wlStreams, wlTwin>>
      BY <1>4, <2>4 DEF JoinEnds, wlLocal
    <3>2. WakeTypeOK'
      BY <1>1, <2>1, <2>2, <3>1 DEF WakeTypeOK
    <3>3. OneCapture' /\ (wlTwin' \/ LeaseInv')
      BY <1>1, <2>1, <3>1 DEF OneCapture, LeaseInv, Listens, HasClaimed, HasStream
    <3> QED BY <3>2, <3>3 DEF WakeInv
  <2> QED BY <2>3, <2>4
<1>5. ASSUME ConnectionEnds PROVE WakeInv'
  <2>1. /\ wlAt' \in [Captures -> {"dead", "closing"}]
        /\ wlMine' = [t \in Captures |-> NoClaim] /\ wlStreams' = wlMine'
        /\ wlClaim' = NoClaim /\ wlLease' = NoClaim /\ UNCHANGED wlLoop
    BY <1>5 DEF ConnectionEnds
  <2>2. wlAt' \in [Captures -> {"dead", "starting", "top", "reading", "claiming", "waiting", "dropping", "decided",
                              "flushing", "streaming", "sending", "ending", "closing"}]
    BY <2>1
  <2>6. /\ wlPolicy' = "none" /\ wlHandle' = NoCapture /\ wlStop' = FALSE /\ wlGranted' = FALSE
        /\ wlOut' = {} /\ wlVerdicts' = {} /\ wlTwin' = FALSE
        /\ wlMine' \in [Captures -> WakeClaims \cup {NoClaim}] /\ wlStreams' \in [Captures -> WakeClaims \cup {NoClaim}]
    BY <1>5, <2>1 DEF ConnectionEnds
  <2>3. WakeTypeOK'
    BY <1>1, <2>1, <2>2, <2>6 DEF WakeTypeOK
  <2>4. \A t \in Captures : wlAt'[t] \in {"dead", "closing"}
    BY <2>1
  <2>5. OneCapture' /\ LeaseInv'
    BY <2>1, <2>4 DEF OneCapture, LeaseInv, Listens, HasClaimed, HasStream
  <2> QED BY <2>3, <2>5 DEF WakeInv
<1> QED BY <1>2, <1>3, <1>4, <1>5

\* Frames and verdicts.
LEMMA WakeFrameStep ==
    ASSUME WakeInv,
           SetGranted \/ \E c \in WakeClaims : SendClaim(c) \/ OnGrant(c) \/ OnYield(c) \/ OnListenStop(c)
    PROVE  WakeInv'
<1>1. WakeTypeOK /\ OneCapture /\ (wlTwin \/ LeaseInv)
  BY DEF WakeInv
<1>2. LoopFree \in [at : LoopSteps, capture : Captures \cup {NoCapture}]
      /\ [LoopFree EXCEPT !.at = "decides"] \in [at : LoopSteps, capture : Captures \cup {NoCapture}]
  BY DEF LoopFree, LoopSteps
<1>3. ASSUME SetGranted PROVE WakeInv'
  <2>1. WakeTypeOK'
    BY <1>1, <1>2, <1>3 DEF SetGranted, WakeTypeOK, wlOwn, wlLocal, wlWire
  <2>2. OneCapture' /\ (wlTwin' \/ LeaseInv')
    BY <1>1, <1>3 DEF SetGranted, OneCapture, LeaseInv, Listens, HasClaimed, HasStream, wlOwn, wlLocal
  <2> QED BY <2>1, <2>2 DEF WakeInv
<1>4. ASSUME NEW c \in WakeClaims, SendClaim(c) PROVE WakeInv'
  <2>1. UNCHANGED <<wlPolicy, wlHandle, wlStop, wlClaim, wlLease, wlGranted, wlMine, wlStreams, wlLoop, wlTwin>>
    BY <1>4 DEF SendClaim, wlOwn, wlTurn
  <2>2. \A t \in Captures : \/ wlAt'[t] = wlAt[t]
                            \/ wlAt[t] = "claiming" /\ wlAt'[t] \in {"waiting", "top"}
    BY <1>4 DEF SendClaim
  <2>3. /\ wlAt' \in [Captures -> {"dead", "starting", "top", "reading", "claiming", "waiting", "dropping", "decided",
                              "flushing", "streaming", "sending", "ending", "closing"}]
        /\ wlOut' \subseteq WakeClaims /\ wlVerdicts' \subseteq Verdict
    BY <1>1, <1>4 DEF SendClaim, WakeTypeOK, Verdict
  <2>4. WakeTypeOK'
    BY <1>1, <2>1, <2>3 DEF WakeTypeOK
  <2>5. OneCapture' /\ (wlTwin' \/ LeaseInv')
    BY <1>1, <2>1, <2>2 DEF OneCapture, LeaseInv, Listens, HasClaimed, HasStream
  <2> QED BY <2>4, <2>5 DEF WakeInv
<1>5. ASSUME NEW c \in WakeClaims, OnGrant(c) \/ OnYield(c) \/ OnListenStop(c) PROVE WakeInv'
  <2>1. UNCHANGED <<wlPolicy, wlHandle, wlStop, wlGranted, wlAt, wlMine, wlStreams, wlOut, wlTwin>>
    BY <1>5 DEF OnGrant, OnYield, OnListenStop, wlOwn, wlLocal
  <2>2. wlVerdicts' \subseteq Verdict
    BY <1>1, <1>5 DEF OnGrant, OnYield, OnListenStop, WakeTypeOK, Verdict
  <2>3. wlLoop' \in [at : LoopSteps, capture : Captures \cup {NoCapture}]
    BY <1>1, <1>2, <1>5 DEF OnGrant, OnYield, OnListenStop, WakeTypeOK
  <2>4. /\ wlClaim' \in {wlClaim, NoClaim}
        /\ wlLease' \in {NoClaim, wlLease, c}
        /\ wlLease = wlClaim \/ wlLease = NoClaim => wlLease' \in {NoClaim, wlClaim'}
    BY <1>5 DEF OnGrant, OnYield, OnListenStop, IsCurrent
  <2>5. WakeTypeOK'
    BY <1>1, <2>1, <2>2, <2>3, <2>4 DEF WakeTypeOK
  <2>6. OneCapture' /\ (wlTwin' \/ LeaseInv')
    BY <1>1, <2>1, <2>4 DEF OneCapture, LeaseInv, Listens, HasClaimed, HasStream
  <2> QED BY <2>5, <2>6 DEF WakeInv
<1> QED BY <1>3, <1>4, <1>5

\* A step of the capture thread alone.
LEMMA CaptureStep ==
    ASSUME WakeInv, NEW t \in Captures, CaptureSteps(t)
    PROVE  WakeInv'
<1> DEFINE Places == {"dead", "starting", "top", "reading", "claiming", "waiting", "dropping", "decided",
                      "flushing", "streaming", "sending", "ending", "closing"}
<1>1. WakeTypeOK /\ OneCapture /\ (wlTwin \/ LeaseInv)
  BY DEF WakeInv
<1>2. UNCHANGED <<wlPolicy, wlHandle, wlStop, wlLoop, wlVerdicts, wlTwin>>
  BY DEF CaptureSteps, Runs, Detect, ClaimTimesOut, WaitEnds, DropClaim, Decided, Stream, EndLease,
         OnlySteps, wlOwn, wlWire
<1>3. wlAt' \in [Captures -> Places] /\ \A u \in Captures : u # t => wlAt'[u] = wlAt[u]
  <2>1. CASE Runs(t)
    BY <1>1, <2>1 DEF Runs, Steps, WakeTypeOK
  <2>2. CASE Stream(t)
    BY <1>1, <2>2 DEF Stream, Steps, WakeTypeOK
  <2>3. CASE ~Runs(t) /\ ~Stream(t)
    BY <1>1, <2>3 DEF CaptureSteps, Detect, ClaimTimesOut, WaitEnds, DropClaim, Decided, EndLease, Steps, WakeTypeOK
  <2> QED BY <2>1, <2>2, <2>3
<1>4. Listens(t)' => Listens(t)
  <2>1. CASE Runs(t)
    BY <1>1, <2>1 DEF Runs, Steps, Listens, WakeTypeOK
  <2>2. CASE ~Runs(t)
    BY <2>2 DEF CaptureSteps, Detect, ClaimTimesOut, WaitEnds, DropClaim, Decided, Stream, EndLease, Steps, Listens
  <2> QED BY <2>1, <2>2
<1>5. OneCapture'
  BY <1>1, <1>2, <1>3, <1>4 DEF OneCapture, Listens
<1>6. ~wlTwin => \A u \in Captures : u # t => ~Listens(u) \/ ~Listens(t)
  BY <1>1 DEF LeaseInv
<1>7. ~wlTwin => \A u, w \in Captures : Listens(u)' /\ Listens(w)' => u = w
  <2> SUFFICES ASSUME ~wlTwin, NEW u \in Captures, NEW w \in Captures, Listens(u)', Listens(w)' PROVE u = w
    OBVIOUS
  <2>1. Listens(u) /\ Listens(w)
    BY <1>3, <1>4 DEF Listens
  <2> QED BY <1>1, <2>1 DEF LeaseInv
<1>8. ASSUME wlClaim' = wlClaim, wlLease' \in {NoClaim, wlLease}, UNCHANGED <<wlMine, wlStreams, wlOut, wlGranted>>,
             HasClaimed(t)' => HasClaimed(t), HasStream(t)' => HasStream(t)
      PROVE  WakeInv'
  <2>1. WakeTypeOK'
    BY <1>1, <1>2, <1>3, <1>4, <1>8 DEF WakeTypeOK
  <2>2. wlTwin' \/ LeaseInv'
    BY <1>1, <1>2, <1>3, <1>4, <1>7, <1>8 DEF LeaseInv, HasClaimed, HasStream
  <2> QED BY <1>5, <2>1, <2>2 DEF WakeInv
<1>9. CASE Runs(t) \/ ClaimTimesOut(t) \/ WaitEnds(t) \/ Stream(t)
  <2>1. UNCHANGED <<wlClaim, wlLease, wlGranted, wlMine, wlStreams, wlOut>>
    BY <1>9 DEF Runs, ClaimTimesOut, WaitEnds, Stream, OnlySteps, wlTurn, wlWire
  <2>2. (HasClaimed(t)' => HasClaimed(t)) /\ (HasStream(t)' => HasStream(t))
    BY <1>1, <1>9 DEF Runs, ClaimTimesOut, WaitEnds, Stream, Steps, HasClaimed, HasStream, WakeTypeOK
  <2> QED BY <1>8, <2>1, <2>2
<1>10. CASE Detect(t)
  <2>1. PICK c \in WakeClaims : wlMine' = [wlMine EXCEPT ![t] = c] /\ wlClaim' = c /\ wlOut' = wlOut \cup {c}
    BY <1>10 DEF Detect
  <2>2. wlLease' = NoClaim /\ wlGranted' = FALSE /\ UNCHANGED wlStreams /\ Listens(t) /\ wlAt'[t] = "claiming"
    BY <1>1, <1>10 DEF Detect, Steps, Listens, WakeTypeOK
  <2>3. WakeTypeOK'
    BY <1>1, <1>2, <1>3, <1>4, <2>1, <2>2 DEF WakeTypeOK
  <2>4. ~wlTwin => \A u \in Captures : u # t => ~HasClaimed(u)' /\ ~HasStream(u)'
    BY <1>3, <1>4, <1>6, <2>2 DEF Listens, HasClaimed, HasStream
  <2>5. wlMine'[t] = c /\ ~HasStream(t)'
    BY <1>1, <2>1, <2>2 DEF WakeTypeOK, HasStream
  <2>6. wlTwin' \/ LeaseInv'
    BY <1>2, <1>7, <2>1, <2>2, <2>4, <2>5 DEF LeaseInv
  <2> QED BY <1>5, <2>3, <2>6 DEF WakeInv
<1>11. CASE DropClaim(t) \/ EndLease(t)
  <2>1. /\ wlClaim' \in {NoClaim, wlClaim} /\ wlLease' \in {NoClaim, wlLease}
        /\ UNCHANGED <<wlGranted, wlMine, wlStreams, wlOut>> /\ wlAt'[t] = "top"
    BY <1>1, <1>11 DEF DropClaim, EndLease, Steps, wlWire, WakeTypeOK
  <2>2. WakeTypeOK'
    BY <1>1, <1>2, <1>3, <1>4, <2>1 DEF WakeTypeOK
  <2>3. ~wlTwin => wlLease' \in {NoClaim, wlClaim'}
    <3>1. CASE DropClaim(t)
      BY <1>1, <3>1 DEF DropClaim, LeaseInv
    <3>2. CASE EndLease(t)
      <4>1. ~wlTwin => wlStreams[t] = wlMine[t] /\ wlClaim \in {NoClaim, wlMine[t]}
        BY <1>1, <3>2 DEF EndLease, Steps, LeaseInv, HasStream, HasClaimed
      <4> QED BY <1>1, <3>2, <4>1 DEF EndLease, LeaseInv
    <3> QED BY <1>11, <3>1, <3>2
  <2>4. ~HasClaimed(t)' /\ ~HasStream(t)'
    BY <2>1 DEF HasClaimed, HasStream
  <2>5. wlTwin' \/ LeaseInv'
    BY <1>1, <1>2, <1>3, <1>4, <1>7, <2>1, <2>3, <2>4 DEF LeaseInv, HasClaimed, HasStream
  <2> QED BY <1>5, <2>2, <2>5 DEF WakeInv
<1>12. CASE Decided(t)
  <2>1. /\ UNCHANGED <<wlClaim, wlLease, wlGranted, wlMine, wlOut>> /\ wlStreams' = [wlStreams EXCEPT ![t] = wlLease]
        /\ wlAt[t] = "decided" /\ wlAt'[t] = IF wlLease = NoClaim THEN "top" ELSE "flushing"
    BY <1>1, <1>12 DEF Decided, Steps, wlTurn, wlWire, WakeTypeOK
  <2>2. wlStreams'[t] = wlLease /\ \A u \in Captures : u # t => wlStreams'[u] = wlStreams[u]
    BY <1>1, <2>1 DEF WakeTypeOK
  <2>3. WakeTypeOK'
    BY <1>1, <1>2, <1>3, <1>4, <2>1 DEF WakeTypeOK
  <2>4. ~wlTwin => wlClaim \in {NoClaim, wlMine[t]} /\ wlLease \in {NoClaim, wlClaim}
    BY <1>1, <2>1 DEF LeaseInv, HasClaimed
  <2>5. ~wlTwin /\ HasStream(t)' => wlStreams'[t] = wlMine'[t]
    BY <2>1, <2>2, <2>4 DEF HasStream
  <2>6. wlTwin' \/ LeaseInv'
    BY <1>1, <1>2, <1>3, <1>4, <1>7, <2>1, <2>2, <2>4, <2>5 DEF LeaseInv, HasClaimed, HasStream
  <2> QED BY <1>5, <2>3, <2>6 DEF WakeInv
<1> QED BY <1>9, <1>10, <1>11, <1>12 DEF CaptureSteps

LEMMA WakeListenerKeepsInv ==
    ASSUME WakeInv, [WakeListenerNext]_wlVars
    PROVE  WakeInv'
<1>1. CASE WakeListenerNext
  BY <1>1, WakePolicyStep, WakeFrameStep, CaptureStep DEF WakeListenerNext
<1>2. CASE UNCHANGED wlVars
  <2>1. UNCHANGED <<wlPolicy, wlHandle, wlStop, wlClaim, wlLease, wlGranted, wlAt, wlMine, wlStreams, wlLoop,
                    wlOut, wlVerdicts, wlTwin>>
    BY <1>2 DEF wlVars, wlOwn, wlTurn, wlLocal, wlWire
  <2> QED BY <2>1 DEF WakeInv, WakeTypeOK, OneCapture, LeaseInv, Listens, HasClaimed, HasStream
<1> QED BY <1>1, <1>2

LEMMA InitWake ==
    ASSUME WakeInit
    PROVE  WakeInv
<1>1. WakeTypeOK
  BY DEF WakeInit, WakeTypeOK, LoopFree, LoopSteps
<1>2. OneCapture /\ LeaseInv
  BY DEF WakeInit, OneCapture, LeaseInv, Listens, HasClaimed, HasStream
<1> QED BY <1>1, <1>2 DEF WakeInv

LEMMA VerdictsFollow ==
    ASSUME WakeInv
    PROVE  VerdictsAreCurrent
  BY DEF WakeInv, LeaseInv, HasStream, VerdictsAreCurrent

WakeListenerSpec == WakeInit /\ [][WakeListenerNext]_wlVars

\* One thread listens, and the lease of the listener answers its claim.
THEOREM WakeInvariant == WakeListenerSpec => []WakeInv
<1>1. WakeInit => WakeInv
  BY InitWake
<1>2. WakeInv /\ [WakeListenerNext]_wlVars => WakeInv'
  BY WakeListenerKeepsInv
<1> QED BY <1>1, <1>2, PTL DEF WakeListenerSpec

\* A microphone streams only for a lease that answers the claim of its thread.
THEOREM VerdictsAreCurrentHolds == WakeListenerSpec => []VerdictsAreCurrent
  BY WakeInvariant, VerdictsFollow, PTL

\* Only the thread the listener knows captures, or one told to stop.
THEOREM OneCaptureHolds == WakeListenerSpec => []OneCapture
<1>1. WakeInv => OneCapture
  BY DEF WakeInv
<1> QED BY <1>1, WakeInvariant, PTL

-----------------------------------------------------------------------------
(* The mirror of the devices.                                              *)

Out(row) == row.kind = "none" \/ row.revoked

\* A request that enrols a device is the only one that knows it.
EnrolsAlone(c) ==
    drCalls[c] # NotAsked =>
        /\ drCalls[c].id \in drUsed
        /\ drCalls[c].op = "enroll" =>
              /\ drCalls[c].id \notin drTurnedOut
              /\ drMirror[drCalls[c].id] = NoRow
              /\ \A d \in RegistryCalls \ {c} : drCalls[d] = NotAsked \/ drCalls[d].id # drCalls[c].id

Holds(c) == drCalls[c].at \in {"writing", "committed"}

DrTypes ==
    /\ drTable \in [DeviceIds -> DeviceRow]
    /\ drMirror \in [DeviceIds -> DeviceRow]
    /\ drCalls \in [RegistryCalls -> RegistryCall \cup {NotAsked}]
    /\ drCodes \in Seq(EnrolledKinds)

\* One request has the lock; the row it committed is what it makes of the
\* mirror, and every other row is the mirror's.
LockInv ==
    /\ \A c, d \in RegistryCalls : Holds(c) /\ Holds(d) => c = d
    /\ \A c \in RegistryCalls :
          drCalls[c].at = "committed" =>
              drTable[drCalls[c].id] = RowWritten(drCalls[c], drMirror[drCalls[c].id])
    /\ MirrorIsTheTable

UsedInv ==
    /\ \A i \in DeviceIds \ drUsed : drMirror[i] = NoRow
    /\ \A c \in RegistryCalls : EnrolsAlone(c)

OutInv == \A i \in drTurnedOut : i \in DeviceIds /\ i \in drUsed /\ Out(drTable[i]) /\ Out(drMirror[i])

DrInv == DrTypes /\ LockInv /\ UsedInv /\ OutInv

LEMMA DrStart == DeviceRegistryInit => DrInv
BY DEF DeviceRegistryInit, DrInv, DrTypes, LockInv, UsedInv, OutInv, MirrorIsTheTable, EnrolsAlone, Holds,
       NoRow, NotAsked, DeviceRow

LEMMA RowIsARow ==
    ASSUME NEW call \in RegistryCall, NEW row \in DeviceRow
    PROVE  /\ RowWritten(call, row) \in DeviceRow
           /\ Out(row) /\ call.op # "enroll" => Out(RowWritten(call, row))
           /\ call.op \in {"revoke", "delete"} => Out(RowWritten(call, row))
BY DEF RegistryCall, DeviceRow, RowWritten, Out, NoRow, EnrolledKinds

LEMMA CodesStay ==
    ASSUME drCodes \in Seq(EnrolledKinds), NEW n \in DOMAIN drCodes
    PROVE  drCodes[n] \in EnrolledKinds /\ Spent(n) \in Seq(EnrolledKinds)
<1>1. Len(drCodes) \in Nat /\ n \in 1..Len(drCodes) /\ Len(drCodes) - 1 \in Nat
  OBVIOUS
<1>2. \A j \in 1..(Len(drCodes) - 1) : drCodes[IF j < n THEN j ELSE j + 1] \in EnrolledKinds
  BY <1>1
<1> QED BY <1>1, <1>2 DEF Spent

\* A new request, that takes no lock yet.
LEMMA RequestComes ==
    ASSUME DrInv, NEW c \in RegistryCalls, NEW op \in {"enroll", "revoke", "delete", "token"},
           NEW i \in DeviceIds, NEW kind \in EnrolledKinds,
           Comes(c, op, i, kind), UNCHANGED <<drTable, drMirror, drTurnedOut>>,
           drCodes' \in Seq(EnrolledKinds), drUsed' = drUsed \cup {i},
           IF op = "enroll" THEN i \notin drUsed ELSE drMirror[i] # NoRow
    PROVE  DrInv'
<1>1. /\ drCalls' \in [RegistryCalls -> RegistryCall \cup {NotAsked}]
      /\ drCalls'[c] = [op |-> op, at |-> "waiting", id |-> i, kind |-> kind]
      /\ \A d \in RegistryCalls \ {c} : drCalls'[d] = drCalls[d]
      /\ drCalls[c] = NotAsked
  BY DEF Comes, DrInv, DrTypes, RegistryCall
<1>2. DrTypes'
  BY <1>1 DEF DrInv, DrTypes
<1>3. LockInv'
  <2>1. ~Holds(c) /\ ~Holds(c)' /\ \A d \in RegistryCalls \ {c} : drCalls'[d] = drCalls[d]
    BY <1>1 DEF Holds, NotAsked
  <2>2. MirrorIsTheTable'
    BY <1>1, <2>1 DEF DrInv, LockInv, MirrorIsTheTable, Holds
  <2>3. \A d \in RegistryCalls : drCalls'[d].at = "committed" => drCalls'[d] = drCalls[d]
    BY <1>1
  <2> QED BY <2>1, <2>2, <2>3 DEF DrInv, LockInv, Holds
<1>4. UsedInv'
  <2>1. \A j \in DeviceIds \ drUsed' : drMirror'[j] = NoRow
    BY DEF DrInv, UsedInv
  <2>2. EnrolsAlone(c)'
    <3>1. drCalls'[c].id = i /\ drCalls'[c].op = op
      BY <1>1
    <3>2. op = "enroll" => i \notin drTurnedOut /\ drMirror[i] = NoRow
      BY DEF DrInv, OutInv, UsedInv
    <3>3. op = "enroll" => \A d \in RegistryCalls \ {c} : drCalls'[d] = NotAsked \/ drCalls'[d].id # i
      BY <1>1 DEF DrInv, UsedInv, EnrolsAlone
    <3> QED BY <3>1, <3>2, <3>3 DEF EnrolsAlone
  <2>3. ASSUME NEW d \in RegistryCalls \ {c} PROVE EnrolsAlone(d)'
    <3>1. drCalls'[d] = drCalls[d] /\ EnrolsAlone(d)
      BY <1>1 DEF DrInv, UsedInv
    <3>2. drCalls[d] # NotAsked /\ drCalls[d].op = "enroll" => drCalls[d].id # i
      BY <3>1 DEF EnrolsAlone
    <3>3. drCalls'[c].id = i
      BY <1>1
    <3> QED BY <1>1, <3>1, <3>2, <3>3 DEF EnrolsAlone
  <2> QED BY <2>1, <2>2, <2>3 DEF UsedInv
<1>5. OutInv'
  BY DEF DrInv, OutInv
<1> QED BY <1>2, <1>3, <1>4, <1>5 DEF DrInv

LEMMA DrStep == ASSUME DrInv, [DeviceRegistryNext]_drVars PROVE DrInv'
<1>0. DrTypes /\ LockInv /\ UsedInv /\ OutInv
  BY DEF DrInv
<1>1. ASSUME UNCHANGED <<drTable, drMirror, drCalls, drUsed, drTurnedOut>>, drCodes' \in Seq(EnrolledKinds)
      PROVE  DrInv'
  BY <1>0, <1>1 DEF DrInv, DrTypes, LockInv, MirrorIsTheTable, Holds, UsedInv, EnrolsAlone, OutInv
<1>2. ASSUME NEW kind \in EnrolledKinds, Issue(kind) PROVE DrInv'
  <2>1. drCodes' \in Seq(EnrolledKinds)
    <3>1. CASE Len(drCodes) < OutstandingCodes
      BY <1>0, <1>2, <3>1 DEF Issue, DrTypes
    <3>2. CASE ~(Len(drCodes) < OutstandingCodes)
      <4>1. drCodes \in Seq(EnrolledKinds) /\ drCodes # <<>>
        BY <1>0, <3>2, EnrolmentAssumption DEF DrTypes
      <4>2. Tail(drCodes) \in Seq(EnrolledKinds) /\ drCodes' = Append(Tail(drCodes), kind)
        BY <1>2, <3>2, <4>1 DEF Issue
      <4> QED BY <4>2
    <3> QED BY <3>1, <3>2
  <2> QED BY <1>1, <1>2, <2>1 DEF Issue
<1>3. ASSUME CodeExpires PROVE DrInv'
  BY <1>0, <1>1, <1>3, CodesStay DEF CodeExpires, DrTypes
<1>4. ASSUME NEW c \in RegistryCalls, Enroll(c) PROVE DrInv'
  <2>1. PICK n \in DOMAIN drCodes :
            /\ drCodes' = Spent(n)
            /\ \/ \E i \in DeviceIds \ drUsed : Comes(c, "enroll", i, drCodes[n]) /\ drUsed' = drUsed \cup {i}
               \/ UNCHANGED <<drCalls, drUsed>>
            /\ UNCHANGED <<drTable, drMirror, drJammed, drTurnedOut>>
    BY <1>4 DEF Enroll
  <2>2. drCodes' \in Seq(EnrolledKinds) /\ drCodes[n] \in EnrolledKinds
    BY <1>0, <2>1, CodesStay DEF DrTypes
  <2>3. CASE UNCHANGED <<drCalls, drUsed>>
    BY <1>1, <2>1, <2>2, <2>3
  <2>4. ASSUME NEW i \in DeviceIds \ drUsed, Comes(c, "enroll", i, drCodes[n]), drUsed' = drUsed \cup {i}
        PROVE  DrInv'
    BY <2>1, <2>2, <2>4, RequestComes
  <2> QED BY <2>1, <2>3, <2>4
<1>5. ASSUME NEW c \in RegistryCalls, NEW i \in DeviceIds,
             AskToken(c, i) \/ \E op \in {"revoke", "delete"} : RevokeOrDelete(c, op, i)
      PROVE  DrInv'
  <2>1. PICK op \in {"revoke", "delete", "token"} :
            /\ drMirror[i].kind # "none"
            /\ Comes(c, op, i, drMirror[i].kind)
            /\ UNCHANGED <<drTable, drMirror, drJammed, drCodes, drUsed, drTurnedOut>>
    BY <1>5 DEF AskToken, IsActive, RevokeOrDelete, Known
  <2>2. drMirror[i].kind \in EnrolledKinds /\ drMirror[i] # NoRow
    BY <1>0, <2>1 DEF DrTypes, DeviceRow, NoRow
  <2>3. i \in drUsed
    BY <1>0, <2>2 DEF UsedInv
  <2>4. drCodes' \in Seq(EnrolledKinds) /\ drUsed' = drUsed \cup {i}
    BY <1>0, <2>1, <2>3 DEF DrTypes
  <2> QED BY <2>1, <2>2, <2>4, RequestComes
<1>6. ASSUME NEW c \in RegistryCalls, Begin(c) \/ WriteFails(c) PROVE DrInv'
  <2>1. /\ drCalls[c] # NotAsked /\ drCalls[c] \in RegistryCall /\ drCalls[c].at # "committed"
        /\ UNCHANGED <<drTable, drMirror, drCodes, drUsed, drTurnedOut>>
    BY <1>0, <1>6 DEF Begin, WriteFails, DrTypes, NotAsked
  <2>2. /\ \/ drCalls'[c] = NotAsked
           \/ drCalls'[c] = [drCalls[c] EXCEPT !.at = "writing"] /\ LockIsFree
        /\ \A d \in RegistryCalls \ {c} : drCalls'[d] = drCalls[d]
        /\ drCalls' \in [RegistryCalls -> RegistryCall \cup {NotAsked}]
    BY <1>0, <1>6, <2>1 DEF Begin, WriteFails, DrTypes, RegistryCall
  <2>3. LockInv'
    BY <1>0, <2>1, <2>2 DEF LockInv, MirrorIsTheTable, Holds, LockIsFree, NotAsked, RegistryCall, RowWritten
  <2>4. UsedInv'
    BY <1>0, <2>1, <2>2 DEF UsedInv, EnrolsAlone, RegistryCall
  <2> QED BY <1>0, <2>1, <2>2, <2>3, <2>4 DEF DrInv, DrTypes, OutInv
<1>7. ASSUME NEW c \in RegistryCalls, Commit(c) PROVE DrInv'
  <2> DEFINE call == drCalls[c]
  <2>1. call \in RegistryCall /\ call.at = "writing" /\ call # NotAsked
    BY <1>0, <1>7 DEF Commit, DrTypes, NotAsked
  <2>2. call.id \in DeviceIds
    BY <2>1 DEF RegistryCall
  <2>3. /\ drCalls'[c] = [call EXCEPT !.at = "committed"]
        /\ \A d \in RegistryCalls \ {c} : drCalls'[d] = drCalls[d]
        /\ drCalls' \in [RegistryCalls -> RegistryCall \cup {NotAsked}]
        /\ UNCHANGED <<drMirror, drCodes, drUsed, drTurnedOut>>
    BY <1>0, <1>7, <2>1 DEF Commit, DrTypes, RegistryCall
  <2>4. /\ drTable'[call.id] = RowWritten(call, drTable[call.id])
        /\ \A i \in DeviceIds \ {call.id} : drTable'[i] = drTable[i]
        /\ drTable' \in [DeviceIds -> DeviceRow]
    BY <1>0, <1>7, <2>1, <2>2, RowIsARow DEF Commit, DrTypes
  <2>5. drTable[call.id] = drMirror[call.id] /\ \A d \in RegistryCalls : drCalls[d].at # "committed"
    BY <1>0, <2>1, <2>2 DEF LockInv, MirrorIsTheTable, Holds
  <2>6. RowWritten(drCalls'[c], drMirror[call.id]) = RowWritten(call, drMirror[call.id]) /\ drCalls'[c].id = call.id
    BY <2>1, <2>3 DEF RowWritten, RegistryCall
  <2>7. LockInv'
    <3>1. \A d, e \in RegistryCalls : Holds(d)' /\ Holds(e)' => d = e
      BY <1>0, <2>1, <2>3 DEF LockInv, Holds
    <3>2. ASSUME NEW d \in RegistryCalls, drCalls'[d].at = "committed"
          PROVE  drTable'[drCalls'[d].id] = RowWritten(drCalls'[d], drMirror'[drCalls'[d].id])
      <4>1. d = c
        BY <2>3, <2>5, <3>2
      <4> QED BY <2>3, <2>4, <2>5, <2>6, <4>1
    <3>3. MirrorIsTheTable'
      BY <1>0, <2>3, <2>4, <2>5, <2>6, <2>1 DEF LockInv, MirrorIsTheTable, RegistryCall
    <3> QED BY <3>1, <3>2, <3>3 DEF LockInv
  <2>8. UsedInv'
    BY <1>0, <2>1, <2>3, <2>6 DEF UsedInv, EnrolsAlone, RegistryCall
  <2>9. OutInv'
    BY <1>0, <2>1, <2>2, <2>3, <2>4, RowIsARow DEF OutInv, UsedInv, EnrolsAlone, DrTypes
  <2> QED BY <1>0, <2>3, <2>4, <2>7, <2>8, <2>9 DEF DrInv, DrTypes
<1>8. ASSUME NEW c \in RegistryCalls, Resume(c) PROVE DrInv'
  <2> DEFINE call == drCalls[c]
  <2>1. call \in RegistryCall /\ call.at = "committed" /\ call # NotAsked
    BY <1>0, <1>8 DEF Resume, DrTypes, NotAsked
  <2>2. call.id \in DeviceIds /\ call.id \in drUsed
    BY <1>0, <2>1 DEF RegistryCall, UsedInv, EnrolsAlone
  <2>3. /\ drCalls'[c] = NotAsked
        /\ \A d \in RegistryCalls \ {c} : drCalls'[d] = drCalls[d]
        /\ drCalls' \in [RegistryCalls -> RegistryCall \cup {NotAsked}]
        /\ UNCHANGED <<drTable, drCodes, drUsed>>
    BY <1>0, <1>8, <2>1 DEF Resume, DrTypes
  <2>4. /\ drMirror'[call.id] = drTable[call.id]
        /\ \A i \in DeviceIds \ {call.id} : drMirror'[i] = drMirror[i]
        /\ drMirror' \in [DeviceIds -> DeviceRow]
    BY <1>0, <1>8, <2>1, <2>2, RowIsARow DEF Resume, Entry, DrTypes, LockInv
  <2>5. \A d \in RegistryCalls : ~Holds(d)'
    BY <1>0, <2>1, <2>3 DEF LockInv, Holds, NotAsked
  <2>6. LockInv'
    BY <1>0, <2>1, <2>3, <2>4, <2>5 DEF LockInv, MirrorIsTheTable, Holds
  <2>7. /\ drTurnedOut \subseteq drTurnedOut'
        /\ drTurnedOut' \subseteq drTurnedOut \cup {call.id}
        /\ call.id \in drTurnedOut' => call.id \in drTurnedOut \/ call.op \in {"revoke", "delete"}
    BY <1>8 DEF Resume
  <2>8. call.op \in {"revoke", "delete"} => Out(drTable[call.id])
    BY <1>0, <2>1, <2>2, RowIsARow DEF LockInv, DrTypes
  <2>9. UsedInv'
    <3>1. \A i \in DeviceIds \ drUsed' : drMirror'[i] = NoRow
      BY <1>0, <2>2, <2>3, <2>4 DEF UsedInv
    <3>2. ASSUME NEW d \in RegistryCalls PROVE EnrolsAlone(d)'
      <4>1. CASE d = c
        BY <2>3, <4>1 DEF EnrolsAlone
      <4>2. CASE d # c
        <5>1. drCalls'[d] = drCalls[d] /\ EnrolsAlone(d)
          BY <1>0, <2>3, <4>2 DEF UsedInv
        <5>2. drCalls[d] # NotAsked /\ drCalls[d].op = "enroll" => drCalls[d].id # call.id /\ drCalls[d].id \in DeviceIds
          BY <1>0, <2>1, <4>2, <5>1 DEF EnrolsAlone, DrTypes, RegistryCall
        <5>3. \A e \in RegistryCalls : drCalls'[e] = drCalls[e] \/ drCalls'[e] = NotAsked
          BY <2>3
        <5> QED BY <2>3, <2>4, <2>7, <5>1, <5>2, <5>3 DEF EnrolsAlone
      <4> QED BY <4>1, <4>2
    <3> QED BY <3>1, <3>2 DEF UsedInv
  <2>10. OutInv'
    BY <1>0, <2>2, <2>3, <2>4, <2>7, <2>8 DEF OutInv
  <2> QED BY <1>0, <2>3, <2>4, <2>6, <2>9, <2>10 DEF DrInv, DrTypes
<1>9. ASSUME RestartBackend PROVE DrInv'
  <2>1. UsedInv'
    BY <1>0, <1>9 DEF RestartBackend, UsedInv, EnrolsAlone, LockInv, MirrorIsTheTable, DrTypes, NotAsked
  <2>2. LockInv' /\ DrTypes'
    BY <1>0, <1>9 DEF RestartBackend, LockInv, MirrorIsTheTable, DrTypes, Holds, NotAsked
  <2>3. OutInv'
    BY <1>0, <1>9 DEF RestartBackend, OutInv
  <2> QED BY <2>1, <2>2, <2>3 DEF DrInv
<1>10. ASSUME UNCHANGED drVars PROVE DrInv'
  BY <1>0, <1>1, <1>10 DEF drVars, DrTypes
<1> QED BY <1>2, <1>3, <1>4, <1>5, <1>6, <1>7, <1>8, <1>9, <1>10 DEF DeviceRegistryNext

\* The codes that are outstanding fit, and the ids are of devices.
CodesInv == Len(drCodes) <= OutstandingCodes /\ drJammed \in BOOLEAN /\ drUsed \subseteq DeviceIds

LEMMA DrTypesFollow == DrInv /\ CodesInv => DevicesTypeOK
BY DEF DrInv, DrTypes, OutInv, CodesInv, DevicesTypeOK

LEMMA CodesStart == DeviceRegistryInit => CodesInv
<1>1. 0 <= OutstandingCodes /\ Len(<<>>) = 0
  BY EnrolmentAssumption DEF EnrolmentAssumption
<1> QED BY <1>1 DEF DeviceRegistryInit, CodesInv

LEMMA CodesStep ==
    ASSUME DrInv, CodesInv, [DeviceRegistryNext]_drVars
    PROVE  CodesInv'
<1>1. OutstandingCodes \in Nat /\ OutstandingCodes >= 1 /\ drCodes \in Seq(EnrolledKinds) /\ Len(drCodes) \in Nat
  BY EnrolmentAssumption DEF EnrolmentAssumption, DrInv, DrTypes
<1>2. ASSUME NEW n \in DOMAIN drCodes PROVE Len(Spent(n)) <= Len(drCodes)
  <2>1. Len(drCodes) - 1 \in Nat
    BY <1>1
  <2>2. Spent(n) \in Seq(EnrolledKinds)
    BY <1>1, CodesStay
  <2>3. DOMAIN Spent(n) = 1..(Len(drCodes) - 1)
    BY DEF Spent
  <2>4. Len(Spent(n)) = Len(drCodes) - 1
    BY <2>1, <2>2, <2>3, LenProperties
  <2> QED BY <1>1, <2>4
<1>3. ASSUME NEW kind \in EnrolledKinds, Issue(kind) PROVE CodesInv'
  <2>1. Len(drCodes') <= OutstandingCodes
    <3>1. CASE Len(drCodes) < OutstandingCodes
      BY <1>1, <1>3, <3>1, AppendProperties DEF Issue
    <3>2. CASE ~(Len(drCodes) < OutstandingCodes)
      <4>1. drCodes # <<>> /\ Len(drCodes) = OutstandingCodes
        BY <1>1, <3>2 DEF CodesInv
      <4>2. Tail(drCodes) \in Seq(EnrolledKinds) /\ Len(Tail(drCodes)) = OutstandingCodes - 1
        BY <1>1, <4>1, HeadTailProperties
      <4>3. drCodes' = Append(Tail(drCodes), kind)
        BY <1>3, <3>2 DEF Issue
      <4>4. Len(drCodes') = OutstandingCodes - 1 + 1
        BY <4>2, <4>3, AppendProperties
      <4> QED BY <1>1, <4>4
    <3> QED BY <3>1, <3>2
  <2> QED BY <1>3, <2>1 DEF Issue, CodesInv
<1>4. ASSUME NEW n \in DOMAIN drCodes, drCodes' = Spent(n) PROVE Len(drCodes') <= OutstandingCodes
  <2>1. Len(Spent(n)) \in Nat /\ Len(Spent(n)) <= Len(drCodes)
    BY <1>1, <1>2, CodesStay, LenProperties
  <2> QED BY <1>1, <1>4, <2>1 DEF CodesInv
<1>5. CASE CodeExpires
  BY <1>4, <1>5 DEF CodeExpires, CodesInv
<1>6. ASSUME NEW c \in RegistryCalls, Enroll(c) PROVE CodesInv'
  <2>1. Len(drCodes') <= OutstandingCodes
    BY <1>4, <1>6 DEF Enroll
  <2>2. drUsed' \subseteq DeviceIds /\ UNCHANGED drJammed
    BY <1>6 DEF Enroll, CodesInv
  <2> QED BY <2>1, <2>2 DEF CodesInv
<1>7. ASSUME NEW c \in RegistryCalls,
             \/ \E i \in DeviceIds : AskToken(c, i) \/ \E op \in {"revoke", "delete"} : RevokeOrDelete(c, op, i)
             \/ Begin(c) \/ Commit(c) \/ WriteFails(c) \/ Resume(c)
      PROVE  CodesInv'
  <2>1. UNCHANGED <<drCodes, drUsed>> /\ drJammed' \in BOOLEAN
    BY <1>7 DEF AskToken, RevokeOrDelete, Begin, Commit, WriteFails, Resume, CodesInv
  <2> QED BY <2>1 DEF CodesInv
<1>8. CASE RestartBackend
  <2>1. Len(<<>>) <= OutstandingCodes
    <3>1. Len(<<>>) = 0
      OBVIOUS
    <3> QED BY <1>1, <3>1
  <2> QED BY <1>8, <2>1 DEF RestartBackend, CodesInv
<1>9. CASE UNCHANGED drVars
  BY <1>9 DEF drVars, CodesInv
<1> QED BY <1>3, <1>5, <1>6, <1>7, <1>8, <1>9 DEF DeviceRegistryNext

-----------------------------------------------------------------------------
(* The permit and the tasks of a node.                                     *)

Running   == {r \in EdgeRequests : enAt[r] # "none"}
Synthesis == {r \in EdgeRequests : enAt[r] \in {"synthesizing", "synthesized"}}

Unloading == IF enPhase = "unloading" THEN 1 ELSE 0

\* PermitIsInOnePlace, in these words.
Placed    == enPermits + enLeft + enReleases + Cardinality(Synthesis) + Unloading = 1

PermitInv == EdgeTypeOK /\ Placed

\* A task that is cancelled has not ended; what is in _tasks runs, and
\* outside a connection nothing does.
TasksInv == /\ EdgeTypeOK
            /\ enCancel \subseteq Running
            /\ Cardinality(Running) <= EdgeLimit
            /\ enTasks = IF enPhase = "serving" THEN Running ELSE {}
            /\ enPhase \in {"away", "unloading"} => Running = {}

LEMMA EdgeStart == EdgeInit => PermitInv /\ TasksInv
<1> SUFFICES ASSUME EdgeInit PROVE PermitInv /\ TasksInv
  OBVIOUS
<1>1. Running = {} /\ Synthesis = {} /\ EdgeTypeOK
  BY DEF EdgeInit, Running, Synthesis, EdgeTypeOK
<1>2. Cardinality(Running) = 0 /\ Cardinality(Synthesis) = 0
  BY <1>1, FS_EmptySet
<1>3. Placed
  BY <1>2 DEF EdgeInit, Placed, Unloading
<1> QED BY <1>1, <1>2, <1>3, EdgeAssumption DEF EdgeInit, PermitInv, TasksInv

LEMMA SynthesisIsFinite == IsFiniteSet(Synthesis) /\ Cardinality(Synthesis) \in Nat
<1>1. Synthesis \subseteq EdgeRequests
  BY DEF Synthesis
<1> QED BY <1>1, EdgeAssumption, FS_Subset, FS_CardinalityType

LEMMA RunningIsFinite == IsFiniteSet(Running) /\ Cardinality(Running) \in Nat
<1>1. Running \subseteq EdgeRequests
  BY DEF Running
<1> QED BY <1>1, EdgeAssumption, FS_Subset, FS_CardinalityType

\* The types.
LEMMA EdgeTypesStay == ASSUME EdgeTypeOK, [EdgeNodeNext]_enVars PROVE EdgeTypeOK'
<1>1. CASE EdgeConnects \/ EdgeStops \/ EdgeDisconnects \/ EdgeGathered \/ EdgeUnloads \/ LeftThreadEnds \/ ScheduledRelease
  BY <1>1 DEF EdgeTypeOK, EdgeConnects, EdgeStops, EdgeDisconnects, EdgeGathered, EdgeUnloads, LeftThreadEnds,
              ScheduledRelease, enTts
<1>2. ASSUME NEW r \in EdgeRequests, EdgeTask(r) PROVE EdgeTypeOK'
  <2>1. CASE EdgeReceive(r) \/ EdgeTaskSteps(r) \/ EdgeDiscard(r)
    BY <1>2, <2>1 DEF EdgeTypeOK, EdgeReceive, EdgeTaskSteps, EdgeDiscard, RequestAt, enTts
  <2>2. CASE TakePermit(r) \/ ThreadEnds(r) \/ TakeAudio(r)
    BY <1>2, <2>2 DEF EdgeTypeOK, TakePermit, ThreadEnds, TakeAudio, RequestAt, enTts
  <2>3. CASE SynthesisTimesOut(r) \/ EdgeCancelled(r)
    BY <1>2, <2>3 DEF EdgeTypeOK, SynthesisTimesOut, EdgeCancelled, Abandon, RequestAt, enTts
  <2> QED BY <1>2, <2>1, <2>2, <2>3 DEF EdgeTask
<1>3. CASE UNCHANGED enVars
  BY <1>3 DEF EdgeTypeOK, enVars
<1> QED BY <1>1, <1>2, <1>3 DEF EdgeNodeNext

\* A wait that is given up leaves its permit to the thread or to its release.
LEMMA AbandonKeeps ==
    ASSUME PermitInv, EdgeTypeOK', NEW r \in Synthesis, Abandon(r),
           Synthesis' = Synthesis \ {r}, UNCHANGED enPhase
    PROVE  Placed'
<1>1. Cardinality(Synthesis') = Cardinality(Synthesis) - 1 /\ Cardinality(Synthesis) \in Nat
  BY SynthesisIsFinite, FS_RemoveElement
<1>2. enAt[r] \in {"synthesizing", "synthesized"}
  BY DEF Synthesis
<1>3. /\ enPermits' = enPermits
      /\ \/ enLeft' = enLeft + 1 /\ enReleases' = enReleases
         \/ enLeft' = enLeft /\ enReleases' = enReleases + 1
  BY <1>2 DEF Abandon
<1>4. Unloading' = Unloading /\ Unloading \in Nat
  BY DEF Unloading
<1>5. enPermits \in Nat /\ enLeft \in Nat /\ enReleases \in Nat
  BY DEF PermitInv, EdgeTypeOK
<1>6. enPermits' + enLeft' + enReleases' + (Cardinality(Synthesis) - 1) + Unloading = 1
  BY <1>1, <1>3, <1>4, <1>5 DEF PermitInv, Placed
<1> QED BY <1>1, <1>4, <1>6 DEF Placed

LEMMA PermitStays == ASSUME PermitInv, [EdgeNodeNext]_enVars PROVE PermitInv'
<1>0. EdgeTypeOK /\ EdgeTypeOK' /\ Cardinality(Synthesis) \in Nat
  BY EdgeTypesStay, SynthesisIsFinite DEF PermitInv
<1>1. CASE EdgeConnects \/ EdgeStops \/ EdgeDisconnects \/ EdgeGathered \/ EdgeUnloads \/ LeftThreadEnds \/ ScheduledRelease
  <2>1. Synthesis' = Synthesis
    BY <1>1 DEF EdgeConnects, EdgeStops, EdgeDisconnects, EdgeGathered, EdgeUnloads, LeftThreadEnds,
                ScheduledRelease, Synthesis
  <2>2. CASE EdgeConnects \/ EdgeStops \/ EdgeDisconnects
    <3>1. Unloading' = Unloading /\ UNCHANGED enTts
      BY <2>2 DEF EdgeConnects, EdgeStops, EdgeDisconnects, Unloading
    <3> QED BY <1>0, <2>1, <3>1 DEF PermitInv, Placed, enTts
  <2>3. CASE EdgeGathered \/ EdgeUnloads
    BY <1>0, <2>1, <2>3 DEF EdgeGathered, EdgeUnloads, PermitInv, Placed, Unloading, EdgeTypeOK
  <2>4. CASE LeftThreadEnds \/ ScheduledRelease
    <3>1. Unloading' = Unloading /\ Unloading \in Nat
      BY <2>4 DEF LeftThreadEnds, ScheduledRelease, Unloading
    <3> QED BY <1>0, <2>1, <2>4, <3>1 DEF LeftThreadEnds, ScheduledRelease, PermitInv, Placed, EdgeTypeOK
  <2> QED BY <1>0, <1>1, <2>2, <2>3, <2>4 DEF PermitInv
<1>2. ASSUME NEW r \in EdgeRequests, EdgeTask(r) PROVE Placed'
  <2>1. CASE EdgeReceive(r) \/ EdgeTaskSteps(r) \/ EdgeDiscard(r) \/ ThreadEnds(r)
    <3>1. Synthesis' = Synthesis
      BY <1>0, <2>1 DEF EdgeTypeOK, EdgeReceive, EdgeTaskSteps, EdgeDiscard, ThreadEnds, RequestAt, Synthesis
    <3> QED BY <2>1, <3>1 DEF EdgeReceive, EdgeTaskSteps, EdgeDiscard, ThreadEnds, PermitInv, Placed,
                              Unloading, enTts
  <2>2. CASE TakePermit(r)
    <3>1. Synthesis' = Synthesis \cup {r} /\ r \notin Synthesis
      BY <1>0, <2>2 DEF EdgeTypeOK, TakePermit, RequestAt, Synthesis
    <3>2. Cardinality(Synthesis') = Cardinality(Synthesis) + 1
      BY <3>1, SynthesisIsFinite, FS_AddElement
    <3> QED BY <1>0, <2>2, <3>2 DEF TakePermit, PermitInv, Placed, Unloading, EdgeTypeOK
  <2>3. CASE TakeAudio(r)
    <3>1. Synthesis' = Synthesis \ {r} /\ r \in Synthesis
      BY <1>0, <2>3 DEF EdgeTypeOK, TakeAudio, RequestAt, Synthesis
    <3>2. Cardinality(Synthesis') = Cardinality(Synthesis) - 1
      BY <3>1, SynthesisIsFinite, FS_RemoveElement
    <3> QED BY <1>0, <2>3, <3>2 DEF TakeAudio, PermitInv, Placed, Unloading, EdgeTypeOK
  <2>4. CASE SynthesisTimesOut(r)
    <3>1. Synthesis' = Synthesis \ {r} /\ r \in Synthesis
      BY <1>0, <2>4 DEF EdgeTypeOK, SynthesisTimesOut, RequestAt, Synthesis
    <3> QED BY <1>0, <2>4, <3>1, AbandonKeeps DEF SynthesisTimesOut
  <2>5. CASE EdgeCancelled(r) /\ r \in Synthesis
    <3>1. Synthesis' = Synthesis \ {r} /\ Abandon(r) /\ UNCHANGED enPhase
      BY <1>0, <2>5 DEF EdgeTypeOK, EdgeCancelled, Synthesis
    <3> QED BY <1>0, <2>5, <3>1, AbandonKeeps
  <2>6. CASE EdgeCancelled(r) /\ r \notin Synthesis
    <3>1. Synthesis' = Synthesis /\ UNCHANGED <<enPhase, enTts>>
      BY <1>0, <2>6 DEF EdgeTypeOK, EdgeCancelled, Synthesis
    <3> QED BY <3>1 DEF PermitInv, Placed, Unloading, enTts
  <2> QED BY <1>2, <2>1, <2>2, <2>3, <2>4, <2>5, <2>6 DEF EdgeTask
<1>3. CASE UNCHANGED enVars
  <2>1. Synthesis' = Synthesis /\ Unloading' = Unloading
    BY <1>3 DEF Synthesis, Unloading, enVars
  <2> QED BY <1>0, <1>3, <2>1 DEF PermitInv, Placed, enVars
<1> QED BY <1>0, <1>1, <1>2, <1>3 DEF EdgeNodeNext, PermitInv

LEMMA TasksStay == ASSUME TasksInv, [EdgeNodeNext]_enVars PROVE TasksInv'
<1>0. EdgeTypeOK /\ EdgeTypeOK'
  BY EdgeTypesStay DEF TasksInv
<1>1. CASE EdgeConnects \/ EdgeStops \/ EdgeDisconnects \/ EdgeGathered \/ EdgeUnloads \/ LeftThreadEnds \/ ScheduledRelease
  <2>1. Running' = Running
    BY <1>1 DEF EdgeConnects, EdgeStops, EdgeDisconnects, EdgeGathered, EdgeUnloads, LeftThreadEnds,
                ScheduledRelease, Running
  <2>2. enCancel' \subseteq Running
    BY <1>1 DEF EdgeConnects, EdgeStops, EdgeDisconnects, EdgeGathered, EdgeUnloads, LeftThreadEnds,
                ScheduledRelease, Running, TasksInv
  <2>3. EdgeConnects => enTasks = {}
    BY <1>1 DEF EdgeConnects, TasksInv
  <2> QED BY <1>0, <1>1, <2>1, <2>2, <2>3 DEF EdgeConnects, EdgeStops, EdgeDisconnects, EdgeGathered, EdgeUnloads,
               LeftThreadEnds, ScheduledRelease, Running, TasksInv
<1>2. ASSUME NEW r \in EdgeRequests, EdgeTask(r) PROVE TasksInv'
  <2>1. CASE EdgeReceive(r)
    <3>1. Running' = Running \cup {r} /\ enTasks = Running /\ enPhase = "serving"
      BY <1>0, <2>1 DEF EdgeTypeOK, EdgeReceive, RequestAt, Running, TasksInv
    <3>2. Cardinality(Running') <= EdgeLimit
      <4>1. /\ Cardinality(Running \cup {r}) <= Cardinality(Running) + 1
            /\ Cardinality(Running) \in Nat /\ Cardinality(Running \cup {r}) \in Nat
        <5>1. Cardinality(Running \cup {r}) = IF r \in Running THEN Cardinality(Running) ELSE Cardinality(Running) + 1
          BY RunningIsFinite, FS_AddElement
        <5> QED BY <5>1, RunningIsFinite
      <4>2. Cardinality(Running) < EdgeLimit
        BY <2>1, <3>1 DEF EdgeReceive
      <4> QED BY <3>1, <4>1, <4>2, EdgeAssumption
    <3> QED BY <1>0, <2>1, <3>1, <3>2 DEF EdgeReceive, TasksInv
  <2>2. CASE EdgeDiscard(r)
    <3>1. Running' = Running \ {r} /\ r \in Running /\ r \notin enCancel
      BY <1>0, <2>2 DEF EdgeTypeOK, EdgeDiscard, RequestAt, Running
    <3>2. Cardinality(Running') <= EdgeLimit
      <4>1. Cardinality(Running \ {r}) = Cardinality(Running) - 1 /\ Cardinality(Running) \in Nat
        BY <3>1, RunningIsFinite, FS_RemoveElement
      <4>2. Cardinality(Running) <= EdgeLimit
        BY DEF TasksInv
      <4> QED BY <3>1, <4>1, <4>2, EdgeAssumption
    <3> QED BY <1>0, <2>2, <3>1, <3>2 DEF EdgeDiscard, TasksInv
  <2>3. CASE EdgeTaskSteps(r) \/ TakePermit(r) \/ ThreadEnds(r) \/ TakeAudio(r) \/ SynthesisTimesOut(r)
    <3>1. Running' = Running
      BY <1>0, <2>3 DEF EdgeTypeOK, EdgeTaskSteps, TakePermit, ThreadEnds, TakeAudio, SynthesisTimesOut, RequestAt, Running
    <3>2. UNCHANGED <<enPhase, enTasks, enCancel>>
      BY <2>3 DEF EdgeTaskSteps, TakePermit, ThreadEnds, TakeAudio, SynthesisTimesOut
    <3> QED BY <1>0, <3>1, <3>2 DEF TasksInv
  <2>4. CASE EdgeCancelled(r)
    <3>1. Running' = Running
      BY <1>0, <2>4 DEF EdgeTypeOK, EdgeCancelled, Running, TasksInv
    <3> QED BY <1>0, <2>4, <3>1 DEF EdgeCancelled, TasksInv
  <2> QED BY <1>2, <2>1, <2>2, <2>3, <2>4 DEF EdgeTask
<1>3. CASE UNCHANGED enVars
  BY <1>0, <1>3 DEF TasksInv, Running, enVars
<1> QED BY <1>1, <1>2, <1>3 DEF EdgeNodeNext
=============================================================================
