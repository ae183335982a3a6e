--------------------------- MODULE MCToolApproval ---------------------------
(* Model values for ToolApproval.                                          *)
EXTENDS ToolApproval, TLC

CONSTANTS c1, c2, s1, noSession, note, ls

MCClients  == {c1, c2}
MCSessions == {s1}

\* A plain tool, and a command of the host that may be remembered.
MCTools   == {note, ls}
MCKind    == note :> "plain" @@ ls :> "host_shell"
MCSavable == {ls}
=============================================================================
