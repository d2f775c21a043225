---------------------------- MODULE MCSnapProvd ----------------------------
(* An instance of SnapProvd for TLC. *)
EXTENDS SnapProvd, TLC
CONSTANTS c0, c1, v0, v1
MCCreds == {c0, c1}
MCVersions == {v0, v1}
IdSymmetry == Permutations(MCCreds) \cup Permutations(MCVersions)
=============================================================================
