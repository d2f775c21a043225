----------------------------- MODULE LogReaders -----------------------------
(***************************************************************************)
(* Three programs that read the log of one kernel: neo_cat (or neo_provd,  *)
(* on the relay itself), elijah and ncred.  The log may begin with the     *)
(* boot or while the system runs, and the kernel gives the id of a freed   *)
(* credential to a new one.                                                *)
(***************************************************************************)
EXTENDS NeoGraph, LiveCreds, FiniteSets

CONSTANTS
  Creds,        \* credential ids; the first process has 0
  Inodes,       \* inodes with their versions
  Masks,        \* what file_p records say is done to a file
  MaxRecords    \* bound: records in the log

ASSUME LogAssumption ==
  /\ Creds \subseteq Nat /\ 0 \in Creds /\ IsFiniteSet(Creds)
  /\ Masks \subseteq SUBSET {"READ", "WRITE", "APPEND", "EXEC"}
  /\ MaxRecords \in Nat

VARIABLES
  hist,         \* the records read so far
  alive,        \* the kernel's live credentials
  alive0        \* those that lived when the log began

kernelVars == <<hist, alive, alive0>>
readerVars == <<kernelVars, neoVars, elijahVars, ncredVars>>

\* forked, inode and mask mean something for credfork and file_p records only.
Rec(type, c) == [type |-> type, cred |-> c, forked |-> c, inode |-> c, mask |-> {}]

\* What malloc hands to elijah may have bits set; one bit of them will do.
ReadersInit ==
  /\ hist = <<>>
  /\ alive \in SUBSET Creds /\ alive0 = alive
  /\ NeoInit
  /\ \E ones \in {{}} \cup {{c} : c \in Creds} : LiveInit(ones)

-----------------------------------------------------------------------------
(* The kernel's next record, read by all three *)

Read(m) ==
  /\ Len(hist) < MaxRecords
  /\ hist' = Append(hist, m)
  /\ Elijah(m) /\ Ncred(m)
  /\ IF reader = "neo_cat" /\ ~running /\ posts = <<>>
     THEN UNCHANGED neoVars
     ELSE NeoRead(m, Len(hist) + 1)
  /\ UNCHANGED alive0

\* A log that begins with the boot knows of one process.
Boot ==
  /\ hist = <<>> /\ alive = {0}
  /\ Read(Rec("boot", 0))
  /\ UNCHANGED alive

Credfork(c, d) ==
  /\ c \in alive /\ d \notin alive
  /\ Read([Rec("credfork", c) EXCEPT !.forked = d])
  /\ alive' = alive \cup {d}

Credfree(c) ==
  /\ c \in alive
  /\ Read(Rec("credfree", c))
  /\ alive' = alive \ {c}

Access(c, i, mask) ==
  /\ c \in alive
  /\ Read([Rec("file_p", c) EXCEPT !.inode = i, !.mask = mask])
  /\ UNCHANGED alive

Other(c, type) ==
  /\ c \in alive
  /\ Read(Rec(type, c))
  /\ UNCHANGED alive

Emit ==
  \/ Boot
  \/ \E c, d \in Creds : Credfork(c, d)
  \/ \E c \in Creds : Credfree(c)
  \/ \E c \in Creds, i \in Inodes, mask \in Masks : Access(c, i, mask)
  \/ \E c \in Creds, type \in {"setid", "exec"} : Other(c, type)

NeoStep == (Post \/ KillReader \/ StartAgain) /\ UNCHANGED <<kernelVars, elijahVars, ncredVars>>

ReadersNext == Emit \/ NeoStep

-----------------------------------------------------------------------------
(* What the log says *)

Records(type) == {i \in 1..Len(hist) : hist[i].type = type}

ForkedInLog == {hist[i].forked : i \in Records("credfork")}
FreedInLog  == {hist[i].cred : i \in Records("credfree")}

\* How many more credentials the first n records fork than free, and the record that
\* first frees one too many.
UpTo(type, n) == {i \in Records(type) : i <= n}
Net(n) == Cardinality(UpTo("credfork", n)) - Cardinality(UpTo("credfree", n))

Stop ==
  IF \E n \in 1..Len(hist) : Net(n) < 0
  THEN CHOOSE n \in 1..Len(hist) : Net(n) < 0 /\ \A k \in 1..(n - 1) : Net(k) >= 0
  ELSE Len(hist)

\* The nodes of the first n records: one for a boot and for a fork, two for a
\* file_p record that reads or writes.
Accesses == {i \in Records("file_p") : hist[i].mask \cap {"READ", "WRITE", "APPEND"} # {}}

ToldNodes ==
       {Activity(hist[i].cred, i)      : i \in Records("boot") \cup Accesses}
  \cup {Activity(hist[i].forked, i)    : i \in Records("credfork")}
  \cup {InodeVersion(hist[i].inode, i) : i \in Accesses}

Until(k, label, id) == {x \in ToldNodes : x.rec <= k /\ x.label = label /\ x.id = id}

\* Record k relates every node its two things have been given so far.
ToldBy(k) ==
  LET m     == hist[k]
      inode == Until(k, "InodeVersion", m.inode)
      process == Until(k, "Activity", m.cred)
      child == Until(k, "Activity", m.forked)
      edge(rel, A, B) == [rel : {rel}, from : A, to : B, rec : {k}]
  IN IF m.type = "credfork" THEN edge("WasForkedFrom", child, process)
     ELSE IF k \notin Accesses THEN {}
     ELSE IF "READ" \in m.mask THEN edge("Used", process, inode)
     ELSE edge("WasGeneratedBy", inode, process)

-----------------------------------------------------------------------------
(* Properties *)

\* neo_handlers.c: however requests fail and readers die, no node and no edge is
\* in the graph that the log does not tell of, and a node that got lost takes
\* only its own edges with it: a record that was told relates all the nodes
\* there are.  Without a fault the graph has each of them, so that the n-th
\* access of a process to a version adds as many edges as there are pairs of
\* their nodes by then.
GraphWithinLog ==
  /\ nodes \subseteq ToldNodes
  /\ \A e \in edges : e \in ToldBy(e.rec)
  /\ \A k \in {e.rec : e \in edges} :
       {e \in edges : e.rec = k} = {e \in ToldBy(k) : {e.from, e.to} \subseteq nodes}
  /\ faults = 0 /\ running /\ posts = <<>> =>
       /\ nodes = ToldNodes
       /\ edges = UNION {ToldBy(k) : k \in 1..Len(hist)}

\* elijah.c: its vector holds the credentials that were forked in the log and
\* live, over any reuse of ids, and beside them only bits malloc left over that
\* no record has touched; and it reports as freed before fork those older than
\* the log, but for one that such a left-over bit stands for.
VectorHoldsLiving ==
  \E ones \in {{}} \cup {{c} : c \in Creds} :
    /\ Ones(vector) = (alive \cap ForkedInLog) \cup (ones \ (ForkedInLog \cup FreedInLog))
    /\ early = (alive0 \cap FreedInLog) \ ones

\* ncred.c: until it stops, the count is the number of living credentials less
\* those that lived when the log began; it stops the first time more of them
\* have been freed than forked, never for a log that has all of the forks, and
\* the highest count is the peak.
CounterCountsLiving ==
  /\ ~stopped => creds = Cardinality(alive) - Cardinality(alive0)
  /\ stopped <=> \E n \in 1..Len(hist) : Net(n) < 0
  /\ stopped => creds = -1 /\ alive0 # {}
  /\ \E n \in 0..Stop : max_creds = Net(n)
  /\ \A n \in 0..Stop : Net(n) <= max_creds

\* elijah.c and ncred.c together: which credentials live and how many, as far as the
\* log can say.
LivingKnown == VectorHoldsLiving /\ CounterCountsLiving
=============================================================================
