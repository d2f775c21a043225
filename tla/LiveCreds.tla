------------------------------ MODULE LiveCreds ------------------------------
(***************************************************************************)
(* system/elijah.c and system/ncred.c: which credentials of a log still    *)
(* live, and how many.  elijah keeps a bit vector of them, ncred a count   *)
(* and the highest count.  Both read the log with system/plog.c, whose     *)
(* plog_process ends with the first handler that does not return 0.        *)
(***************************************************************************)
EXTENDS Bitvec

VARIABLES
  vector,       \* elijah: alive
  early,        \* elijah: the ids of "freed before fork!"
  creds,        \* ncred: the count
  max_creds,    \* ncred: its highest value
  setids,       \* ncred: how many setid records
  stopped       \* ncred: handle_credfree has returned 1

elijahVars == <<vector, early>>
ncredVars  == <<creds, max_creds, setids, stopped>>

LiveInit(ones) ==
  /\ vector = bitvec_init(ones) /\ early = {}
  /\ creds = 0 /\ max_creds = 0 /\ setids = 0 /\ stopped = FALSE

\* Mutant: the parent is the one that is set.
elijah_credfork_parent(m) ==
  /\ vector' = bitvec_set(vector, m.cred)
  /\ UNCHANGED early

elijah_credfork(m) ==
  /\ vector' = bitvec_set(vector, m.forked)
  /\ UNCHANGED early

elijah_credfree(m) ==
  IF bitvec_test(vector, m.cred)
  THEN vector' = bitvec_clear(vector, m.cred) /\ UNCHANGED early
  ELSE early' = early \cup {m.cred} /\ UNCHANGED vector

Elijah(m) ==
  \/ m.type = "credfork" /\ elijah_credfork(m)
  \/ m.type = "credfree" /\ elijah_credfree(m)
  \/ m.type \notin {"credfork", "credfree"} /\ UNCHANGED elijahVars

ncred_credfork ==
  /\ creds' = creds + 1
  /\ max_creds' = IF creds' > max_creds THEN creds' ELSE max_creds
  /\ UNCHANGED <<setids, stopped>>

\* Mutant: the count is held at zero instead of ending the reading.
ncred_credfree_floor ==
  /\ creds' = IF creds = 0 THEN 0 ELSE creds - 1
  /\ UNCHANGED <<max_creds, setids, stopped>>

ncred_credfree ==
  /\ creds' = creds - 1
  /\ stopped' = (creds' < 0)
  /\ UNCHANGED <<max_creds, setids>>

ncred_setid ==
  /\ setids' = setids + 1
  /\ UNCHANGED <<creds, max_creds, stopped>>

Ncred(m) ==
  \/ stopped /\ UNCHANGED ncredVars
  \/ ~stopped /\ m.type = "credfork" /\ ncred_credfork
  \/ ~stopped /\ m.type = "credfree" /\ ncred_credfree
  \/ ~stopped /\ m.type = "setid" /\ ncred_setid
  \/ /\ ~stopped /\ m.type \notin {"credfork", "credfree", "setid"}
     /\ UNCHANGED ncredVars
=============================================================================
