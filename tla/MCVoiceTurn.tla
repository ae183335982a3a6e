----------------------------- MODULE MCVoiceTurn -----------------------------
(* Model values for VoiceTurn.                                             *)
EXTENDS VoiceTurn, TLC

CONSTANTS n1, n2, p1, p2

MCOneNode == {n1}
MCTwoNodes == {n1, n2}
MCNoPhones == {}
MCOnePhone == {p1}
MCTwoPhones == {p1, p2}

MCNoFaults == {}
MCDrops == {"drop"}
MCSilence == {"silence"}
MCShortTurns == {"drop", "silence", "button"}
MCAllFaults == {"drop", "silence", "button", "error", "long"}

MCSymmetry == Permutations(MCTwoNodes) \cup Permutations(MCTwoPhones)
=============================================================================
