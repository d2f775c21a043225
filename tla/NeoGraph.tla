------------------------------ MODULE NeoGraph ------------------------------
(***************************************************************************)
(* neo_provd and neo_cat: the property graph that their Cypher statements  *)
(* build.  A handler sends its statements one by one, each in an HTTP      *)
(* request of its own; post() prints a failure and nobody looks at it.     *)
(* The tools keep nothing in memory between records: what is there already *)
(* is left to MATCH, and CREATE does not ask.                              *)
(***************************************************************************)
EXTENDS Naturals, Sequences

CONSTANTS
  NumEvents,    \* plog_process of neo_cat stops above this number (1000)
  MaxFaults     \* bound: requests that fail, and kills

ASSUME NeoAssumption == NumEvents \in Nat /\ MaxFaults \in Nat

VARIABLES
  reader,       \* "neo_cat" or "neo_provd"
  running,      \* the process is there and goes on reading
  nodes, edges, \* the graph
  posts,        \* the statements of the record in hand still to be sent
  num_events,   \* records handled by this process
  faults        \* how many requests have failed, and processes been killed

neoVars == <<reader, running, nodes, edges, posts, num_events, faults>>

\* A node has a label and an id; rec, the record that created it, tells nodes
\* with equal ids apart, as Neo4j's own node numbers do.
Activity(id, k)     == [label |-> "Activity", id |-> id, rec |-> k]
InodeVersion(id, k) == [label |-> "InodeVersion", id |-> id, rec |-> k]

NeoInit ==
  /\ reader \in {"neo_cat", "neo_provd"}
  /\ running = TRUE
  /\ nodes = {} /\ edges = {} /\ posts = <<>>
  /\ num_events = 0 /\ faults = 0

-----------------------------------------------------------------------------
(* The handlers: the statements of record m, the k-th of the log *)

Create(n)              == [op |-> "create", node |-> n]
Relate(rel, a, b, k)   == [op |-> "relate", rel |-> rel, from |-> a, to |-> b, rec |-> k]
SetLabel(id)           == [op |-> "label", id |-> id]

handle_boot(m, k) == <<Create(Activity(m.cred, k))>>

handle_credfork(m, k) ==
  << Create(Activity(m.forked, k)),
     Relate("WasForkedFrom", Activity(m.forked, k), Activity(m.cred, k), k) >>

handle_exec(m, k) == <<SetLabel(m.cred)>>

\* Mutant: the edge is asked for before the process has its node.
handle_file_p_early(m, k) ==
  LET inode == InodeVersion(m.inode, k)
      process == Activity(m.cred, k)
  IN IF m.mask \cap {"READ", "WRITE", "APPEND"} = {} THEN <<>>
     ELSE << Create(inode),
             IF "READ" \in m.mask THEN Relate("Used", process, inode, k)
             ELSE Relate("WasGeneratedBy", inode, process, k),
             Create(process) >>

handle_file_p(m, k) ==
  LET inode == InodeVersion(m.inode, k)
      process == Activity(m.cred, k)
  IN IF m.mask \cap {"READ", "WRITE", "APPEND"} = {} THEN <<>>
     ELSE << Create(inode), Create(process),
             IF "READ" \in m.mask THEN Relate("Used", process, inode, k)
             ELSE Relate("WasGeneratedBy", inode, process, k) >>

\* defhandlers: the types without an entry are passed over.
Handled == {"boot", "credfork", "exec", "file_p"}

Statements(m, k) ==
  CASE m.type = "boot"     -> handle_boot(m, k)
    [] m.type = "credfork" -> handle_credfork(m, k)
    [] m.type = "exec"     -> handle_exec(m, k)
    [] m.type = "file_p"   -> handle_file_p(m, k)

-----------------------------------------------------------------------------
(* Neo4j *)

SameKey(x, key) == x.label = key.label /\ x.id = key.id

\* MATCH takes every pair of nodes with the two labels and ids.
Pairs(s) ==
  {[rel |-> s.rel, from |-> x, to |-> y, rec |-> s.rec] :
     x \in {n \in nodes : SameKey(n, s.from)}, y \in {n \in nodes : SameKey(n, s.to)}}

\* No node has a property label, and null + 'text' is null: nothing is set.
Execute(s) ==
  \/ s.op = "create" /\ nodes' = nodes \cup {s.node} /\ UNCHANGED edges
  \/ s.op = "relate" /\ edges' = edges \cup Pairs(s) /\ UNCHANGED nodes
  \/ s.op = "label"  /\ UNCHANGED <<nodes, edges>>

-----------------------------------------------------------------------------
(* The processes *)

\* plog_process and plog_process_raw take the next record, the k-th, in hand.
NeoRead(m, k) ==
  /\ running /\ posts = <<>>
  /\ IF m.type \in Handled
     THEN posts' = Statements(m, k) /\ num_events' = num_events + 1
     ELSE UNCHANGED <<posts, num_events>>
  /\ running' = (reader = "neo_provd" \/ num_events' <= NumEvents)
  /\ UNCHANGED <<reader, nodes, edges, faults>>

\* post(), with and without an answer; a process out of its loop still sends
\* what its last record asks for.
Post ==
  /\ posts # <<>>
  /\ posts' = Tail(posts)
  /\ \/ Execute(Head(posts)) /\ UNCHANGED faults
     \/ faults < MaxFaults /\ faults' = faults + 1 /\ UNCHANGED <<nodes, edges>>
  /\ UNCHANGED <<reader, running, num_events>>

\* SIGKILL: the rest of the record in hand is gone.
KillReader ==
  /\ running /\ faults < MaxFaults
  /\ faults' = faults + 1
  /\ posts' = <<>> /\ running' = FALSE
  /\ UNCHANGED <<reader, nodes, edges, num_events>>

\* neo_provd is started again and goes on where the relay is.
StartAgain ==
  /\ reader = "neo_provd" /\ ~running
  /\ running' = TRUE /\ num_events' = 0
  /\ UNCHANGED <<reader, nodes, edges, posts, faults>>
=============================================================================
