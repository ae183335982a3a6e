--------------------------- MODULE MCCapabilityHub ---------------------------
(* Model values, and what of a state is still read.                        *)
EXTENDS CapabilityHub

CONSTANTS n1, noNode, t1, t2, s1

MCOneNode == {n1}
MCOneCall == {t1}
MCThreeCalls == {t1, t2, s1}
MCToolAndSpeech == {t1, s1}
MCSpeech == {s1}
MCNoSpeech == {}

MCHeld(c) == stage[c] \notin {"none", "hello", "done"} /\ IsCurrent(c)

\* The transport of a socket that is neither held nor read matters only to a frame
\* still to be written on it.
MCSock(c) == IF \/ MCHeld(c) \/ stage[c] \in {"hello", "serving"}
                \/ \E k \in Calls : cpc[k] = "sending" /\ cconn[k] = c
             THEN sock[c] ELSE "none"

\* Left out: the heartbeat and inventory of a socket that is detached, and of a call
\* that has ended how it ended.  No guard reads them again, and no step changes them.
MCLive == <<fleet, table, stage, node, gen, closed, closing, cpc,
            [c \in ConnIds |-> MCSock(c)],
            {c \in ConnIds : MCHeld(c) /\ inv[c]},
            {c \in ConnIds : MCHeld(c) /\ pong[c] /\ stage[c] = "serving"},
            [k \in Calls |-> IF cpc[k] = "done" THEN <<>>
                             ELSE <<cconn[k], fut[k], k \in wired>>]>>

\* Liveness, with the fleet switch left on: the ways to detach a connection that
\* remain are those the calls and the heartbeat meet.
MCLiveSpec == Init /\ [][Next /\ UNCHANGED enabled]_vars /\ Fairness
=============================================================================
