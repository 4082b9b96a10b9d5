------------------------------ MODULE MCAccess ------------------------------
(***************************************************************************)
(* Small instances of the components of Access.                            *)
(***************************************************************************)
EXTENDS Access

CONSTANTS c1, c2, c3, p1, p2

MCCalls == {c1, c2, c3}
MCPair == {c1, c2}
MCProcesses == {p1, p2}
=============================================================================
