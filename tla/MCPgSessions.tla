---------------------------- MODULE MCPgSessions ----------------------------
(* An instance of PgSessions for TLC. *)
EXTENDS PgSessions, TLC
CONSTANTS reset1, reset2
MCResets == {reset1, reset2}
ResetSymmetry == Permutations(MCResets)
=============================================================================
