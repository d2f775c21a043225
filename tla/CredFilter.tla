----------------------------- MODULE CredFilter -----------------------------
(***************************************************************************)
(* gz_cat and pg_cat: select the records of one process tree from a log.   *)
(*                                                                         *)
(*    gz_cat -c CRED ... [-f [-f]] [-t TYPE ...]                           *)
(*                                                                         *)
(* plog_process reads the log record by record.  The handler of the type   *)
(* keeps the list extracreds of the credentials it follows beside those of *)
(* -c, and prints (gz_cat) or imports (pg_cat) what it wants.  With -t the *)
(* types left out get a silent handler if tracking needs them.             *)
(*                                                                         *)
(* The log comes from the kernel, which numbers live credentials and       *)
(* numbers new ones like freed ones; it may start at any moment.           *)
(***************************************************************************)
EXTENDS Naturals, Sequences, SequencesExt

CONSTANTS
  CredIds,      \* credential ids
  Types,        \* the other types of records than those of Tracking
  MaxLog        \* bound: records in the log

ASSUME FilterAssumption == MaxLog \in Nat

VARIABLES
  tool,         \* the program
  creds,        \* -c: only ever searched, so a set
  recurse,      \* -f: how often; twice is as good as more
  types,        \* -t; none means all
  extracreds,   \* the list of credentials followed, newest first
  hist,         \* the records read so far
  shown,        \* the positions in hist of those printed or imported
  alive         \* the kernel's live credentials

options    == <<tool, creds, recurse, types>>
filterVars == <<options, extracreds, hist, shown, alive>>

\* The types with an effect on tracking.
Tracking == {"credfork", "credfree", "exec"}
AllTypes == Types \cup Tracking

\* forked is the new credential of a credfork and the record's own otherwise.
LogRecord == [type : AllTypes, cred : CredIds, forked : CredIds]

TypeOK ==
  /\ tool \in {"gz_cat", "pg_cat"}
  /\ creds \subseteq CredIds /\ recurse \in 0..2
  /\ types \subseteq AllTypes
  /\ extracreds \in Seq(CredIds)
  /\ hist \in Seq(LogRecord) /\ Len(hist) <= MaxLog
  /\ shown \subseteq 1..Len(hist)
  /\ alive \subseteq CredIds

\* type_from_name knows every type by a name of its own.
TypeNames == AllTypes

\* A wrong option ends either tool before it reads.
CommandLine ==
  /\ tool \in {"gz_cat", "pg_cat"}
  /\ creds \in SUBSET CredIds /\ recurse \in 0..2
  /\ types \in SUBSET TypeNames

\* The command line, and a kernel that has been up for some time.
FilterInit ==
  /\ CommandLine
  /\ extracreds = <<>>
  /\ hist = <<>> /\ shown = {}
  /\ alive \in SUBSET CredIds

-----------------------------------------------------------------------------
(* The handlers *)

hasitem(list, item) == Contains(list, item)

\* Mutant: removal looks at the newest item only.
RemoveHead(list, item) == IF list # <<>> /\ Head(list) = item THEN Tail(list) ELSE list

removeitem(list, item) == RemoveFirst(list, item)

additem(list, item) == Cons(item, list)

want_cred(c) == creds = {} \/ c \in creds \/ hasitem(extracreds, c)

\* The type has the printing handler: every type but pg_cat's exec does, unless
\* -t names others.
Selected(type) ==
  /\ types = {} \/ type \in types
  /\ ~(tool = "pg_cat" /\ type = "exec")

\* Exec has no entry in pg_cat's table, so that its silent handler is installed
\* only by a -t that does not name exec.
ExecHandled == tool = "gz_cat" \/ (types # {} /\ "exec" \notin types)

Show(type) == shown' = IF Selected(type) THEN shown \cup {Len(hist) + 1} ELSE shown

\* The parts of the handlers that track, which are all of the silent ones: for a
\* credfork and a credfree that are wanted, and for an exec.
FollowFork(m) ==
  extracreds' = IF creds # {} /\ recurse >= 1 THEN additem(extracreds, m.forked) ELSE extracreds

Forget(m) ==
  extracreds' = IF creds # {} THEN removeitem(extracreds, m.cred) ELSE extracreds

\* -c names others.
Unselected(m) == creds # {} /\ m.cred \notin creds

ForgetExec(m) ==
  extracreds' = IF Unselected(m) /\ recurse < 2
                THEN removeitem(extracreds, m.cred) ELSE extracreds

\* Mutant: the silent handler forgets to track, as when -t installs none.
CredforkSelected(m) ==
  IF want_cred(m.cred)
  THEN /\ extracreds' = IF creds # {} /\ recurse >= 1 /\ Selected("credfork")
                        THEN additem(extracreds, m.forked) ELSE extracreds
       /\ Show("credfork")
  ELSE UNCHANGED <<extracreds, shown>>

\* handle_credfork, def_handle_credfork
HandleCredfork(m) ==
  IF want_cred(m.cred)
  THEN FollowFork(m) /\ Show("credfork")
  ELSE UNCHANGED <<extracreds, shown>>

\* handle_credfree, def_handle_credfree
HandleCredfree(m) ==
  IF want_cred(m.cred)
  THEN Forget(m) /\ Show("credfree")
  ELSE UNCHANGED <<extracreds, shown>>

\* Mutant: with a second -f nobody asks whether the process is followed.
ExecOfAnyone(m) ==
  IF ExecHandled
  THEN /\ ForgetExec(m)
       /\ IF Unselected(m) /\ recurse < 2 THEN UNCHANGED shown ELSE Show("exec")
  ELSE UNCHANGED <<extracreds, shown>>

\* handle_exec, def_handle_exec
HandleExec(m) ==
  IF ExecHandled
  THEN /\ ForgetExec(m)
       /\ IF Unselected(m) /\ (recurse < 2 \/ ~hasitem(extracreds, m.cred))
          THEN UNCHANGED shown
          ELSE Show("exec")
  ELSE UNCHANGED <<extracreds, shown>>

\* handle_boot, handle_setid, handle_file_p and so on
HandleOther(m) ==
  /\ IF want_cred(m.cred) THEN Show(m.type) ELSE UNCHANGED shown
  /\ UNCHANGED extracreds

-----------------------------------------------------------------------------
(* plog_process on a log as the kernel writes one *)

ReadRecord(m) ==
  /\ Len(hist) < MaxLog
  /\ hist' = Append(hist, m)
  /\ UNCHANGED options

Rec(type, c, d) == [type |-> type, cred |-> c, forked |-> d]

Credfork(c, d) ==
  /\ c \in alive /\ d \notin alive
  /\ alive' = alive \cup {d}
  /\ ReadRecord(Rec("credfork", c, d))
  /\ HandleCredfork(Rec("credfork", c, d))

Credfree(c) ==
  /\ c \in alive
  /\ alive' = alive \ {c}
  /\ ReadRecord(Rec("credfree", c, c))
  /\ HandleCredfree(Rec("credfree", c, c))

Exec(c) ==
  /\ c \in alive
  /\ ReadRecord(Rec("exec", c, c))
  /\ HandleExec(Rec("exec", c, c))
  /\ UNCHANGED alive

Other(c, t) ==
  /\ c \in alive
  /\ ReadRecord(Rec(t, c, c))
  /\ HandleOther(Rec(t, c, c))
  /\ UNCHANGED alive

FilterNext ==
  \E c \in CredIds :
    \/ \E d \in CredIds : Credfork(c, d)
    \/ Credfree(c)
    \/ Exec(c)
    \/ \E t \in AllTypes \ Tracking : Other(c, t)

FilterSpec == FilterInit /\ [][FilterNext]_filterVars

-----------------------------------------------------------------------------
(* Properties *)

\* The credential that record j forked is still in the life record j began when
\* record n + 1 is read, and with one -f has not executed a program.
Lives(j, n) ==
  \A k \in (j + 1)..n :
    hist[k].cred = hist[j].forked =>
      /\ hist[k].type # "credfree"
      /\ hist[k].type = "exec" => recurse = 2 \/ hist[k].cred \in creds \/ ~ExecHandled

\* Record i forks a descendant of a selected process, if those of S do: its credential
\* is selected or was itself forked so, whatever the log says of other lives of that id.
Descends(i, S) ==
  /\ hist[i].type = "credfork"
  /\ \/ hist[i].cred \in creds
     \/ \E j \in S : j < i /\ hist[j].forked = hist[i].cred /\ Lives(j, i - 1)

\* The records that do, which are those of the least such set.
Lineage ==
  {i \in 1..Len(hist) :
     \A S \in SUBSET (1..Len(hist)) :
       (\A k \in 1..Len(hist) : Descends(k, S) => k \in S) => i \in S}

\* The processes to follow.
Followed ==
  IF creds = {} \/ recurse = 0 THEN {}
  ELSE {hist[i].forked : i \in {j \in Lineage : Lives(j, Len(hist))}}

\* "Follow forks (twice for forks and execs)": what the list follows are the
\* living descendants of the selected processes and nobody else, whichever types
\* -t selects and however often the kernel numbers a new process like a dead one.
FollowsDescendants == ToSet(extracreds) = Followed

\* want_cred's "(Assert)": without -c nothing is on the list.  Nothing dead is,
\* and nothing twice: a second entry would outlive the credfree that removes one,
\* and select a stranger's records when the id is used again.
NoStaleEntry ==
  /\ creds = {} => extracreds = <<>>
  /\ ToSet(extracreds) \subseteq alive
  /\ \A i, j \in 1..Len(extracreds) : extracreds[i] = extracreds[j] => i = j

\* A record is shown only for a selected or a followed process.
ShowsOnlyFollowed ==
  [][\A m \in {hist'[i] : i \in shown' \ shown} :
        creds = {} \/ m.cred \in creds \cup Followed]_filterVars
=============================================================================
