----------------------------- MODULE MCPgProvd -----------------------------
(* Instances of PgProvd for TLC. *)
EXTENDS PgProvd

\* One record of each fate: stored, clamped and stored, refused by the server,
\* without a handler.
MCRecords ==
  {[type |-> "credfork", wide |-> FALSE],
   [type |-> "inode_p",  wide |-> TRUE],
   [type |-> "exec",     wide |-> FALSE]}

\* What a process that runs a program emits.
MCExecRecords ==
  {[type |-> "credfork", wide |-> FALSE],
   [type |-> "exec",     wide |-> FALSE]}
=============================================================================
