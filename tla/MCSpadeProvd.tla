---------------------------- MODULE MCSpadeProvd ----------------------------
(* Instances of SpadeProvd for TLC: two credentials, one of them spade_cat's. *)
EXTENDS SpadeProvd
CONSTANTS c442, c2
MCCreds == {c442, c2}
MCVersions == {<<"file", 1>>, <<"file", 2>>}

Access(c, v, mask) == [type |-> "file_p", cred |-> c, iv |-> <<"file", v>>, mask |-> mask]

\* Accesses that differ in the credential, the version or the mask, and one record of
\* each other kind.
MCRecords ==
  {[type |-> "boot", cred |-> c442], [type |-> "credfree", cred |-> c442],
   [type |-> "credfork", cred |-> c442, forked |-> c2],
   [type |-> "setid", cred |-> c442, uid |-> "root"],
   [type |-> "exec", cred |-> c442, long |-> FALSE],
   [type |-> "exec", cred |-> c2, long |-> TRUE],
   Access(c442, 1, {"read"}), Access(c442, 1, {"write"}), Access(c2, 1, {"read"}),
   Access(c442, 2, {"read", "write"}), Access(c442, 2, {})}
=============================================================================
