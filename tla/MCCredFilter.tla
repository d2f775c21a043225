---------------------------- MODULE MCCredFilter ----------------------------
(* An instance of CredFilter for TLC: three ids, so that one can be forked,
   freed and forked again below another. *)
EXTENDS CredFilter, TLC
CONSTANTS c1, c2, c3
MCCredIds == {c1, c2, c3}
MCTypes == {"setid"}
IdSymmetry == Permutations(MCCredIds)
=============================================================================
