----------------------------- MODULE MCLogTools -----------------------------
(* An instance of LogTools for TLC: id 9 lies in the vector's second byte,
   so that the vector grows. *)
EXTENDS LogTools
MCCreds == {0, 9}
MCInodes == {101}
MCMasks == {{"READ", "WRITE"}, {"APPEND"}, {"EXEC"}}

\* Every text of one to four characters that ends with a 0.
MCTexts == {Append(t, "nul") : t \in UNION {[1..n -> Characters] : n \in 0..3}}

\* Logs of up to three records, with the lengths of the links too small, right or too
\* large: 16 of base 4 carries into the third byte.
MCBangRecords ==
  {[type |-> "inode_alloc", name |-> <<>>, len |-> 9]}
    \cup [type : {"link"}, name : {<<>>, <<3, 1>>}, len : {0, 10, 16}]
MCBangLogs == UNION {[1..n -> MCBangRecords] : n \in 1..3}

\* Files of up to three records.
MCDbs == UNION {[1..n -> MCCreds] : n \in 0..3}
=============================================================================
