----------------------------- MODULE MCToolCalls -----------------------------
(* Small instances of ToolCalls.                                           *)
EXTENDS ToolCalls
CONSTANTS d1, d2
MCRequests == {{d1, d2}, {d1, 1}, {1, 2}}
MCPrograms == {1, 2}
MCChildren == {11, 12, 13}
=============================================================================
