------------------------------ MODULE WakePath ------------------------------
(***************************************************************************)
(* What src/dax/voice/arbiter.py promises to the detectors of one room,    *)
(* said without a clock, a window or a thread: every bid to answer a wake  *)
(* word gets one verdict that never changes, a bid wins only while nobody  *)
(* holds the wake path, and at most one bid wins at a time.                *)
(***************************************************************************)
CONSTANTS Bids,       \* the bids (claims) that detectors make
          Sources,    \* the microphones
          NoSource    \* nobody holds the wake path

VARIABLES holder,     \* the source that may answer now
          verdict,    \* bid -> "none" | "open" | "won" | "lost"
          bidder      \* bid -> its source, NoSource before it is made

vars == <<holder, verdict, bidder>>

Init == /\ holder = NoSource
        /\ verdict = [b \in Bids |-> "none"]
        /\ bidder = [b \in Bids |-> NoSource]

Free == holder' = NoSource

\* A bid made while somebody holds the path is lost on the spot.
Refuse(b, s) == /\ verdict[b] = "none"
                /\ holder # NoSource
                /\ verdict' = [verdict EXCEPT ![b] = "lost"]
                /\ bidder' = [bidder EXCEPT ![b] = s]
                /\ UNCHANGED holder

\* A bid on a free path waits; a hold that outlived its turn is dropped first.
Admit(b, s) == /\ verdict[b] = "none"
               /\ verdict' = [verdict EXCEPT ![b] = "open"]
               /\ bidder' = [bidder EXCEPT ![b] = s]
               /\ Free

\* The open bids are judged together: one wins, and its source holds the path.
Judge(w) == /\ holder = NoSource
            /\ verdict[w] = "open"
            /\ verdict' = [b \in Bids |-> IF b = w THEN "won"
                                          ELSE IF verdict[b] = "open" THEN "lost"
                                          ELSE verdict[b]]
            /\ holder' = bidder[w]
            /\ UNCHANGED bidder

\* The holder finishes, or its hold lapses.
Yield == Free /\ UNCHANGED <<verdict, bidder>>

\* The pipeline restarts: every open bid loses and nobody holds the path.
Drop == /\ verdict' = [b \in Bids |-> IF verdict[b] = "open" THEN "lost" ELSE verdict[b]]
        /\ Free
        /\ UNCHANGED bidder

Next == \/ \E b \in Bids, s \in Sources : Refuse(b, s) \/ Admit(b, s)
        \/ \E w \in Bids : Judge(w)
        \/ Yield
        \/ Drop

Spec == Init /\ [][Next]_vars
=============================================================================
