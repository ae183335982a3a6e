---------------------------- MODULE MCWakeArbiter ----------------------------
(* Two microphones and three claims: a rival inside a window, a claim      *)
(* during a turn, and one after a hold lapsed all fit the bounds.          *)
EXTENDS WakeArbiter

MCSources == {1, 2}
MCNoSource == 0
MCScores == {1}
=============================================================================
