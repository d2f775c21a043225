----------------------------- MODULE SpadeProvd -----------------------------
(***************************************************************************)
(* reporters/spade_provd: spade_provd reads the kernel's relay, spade_cat  *)
(* a saved log, and both turn records into lines for SPADE's pipe, one     *)
(* shell command "echo ... >> /tmp/spade_pipe" per line.  What a run has   *)
(* announced is remembered in lists of its own memory.                     *)
(*                                                                         *)
(* spade_provd is always "one-shot": main() parses a delay only when no    *)
(* delay is given (spade_provd.c:44), and strtod(NULL) is as far as such a *)
(* call gets.  Signals only set a flag that then changes nothing.  One     *)
(* program runs at a time, and the relay hands over whole records.         *)
(***************************************************************************)
EXTENDS Naturals, Sequences, FiniteSets, Functions

CONSTANTS
  Creds, Uids,
  Versions,     \* <<inode, version>> pairs
  Records,      \* the records the kernel may emit after boot
  FilterCred,   \* spade_cat's credential, 442
  MaxEvents,    \* spade_cat's limit, 4050
  MaxRecords,   \* bound: records emitted
  MaxRuns,      \* bound: runs of the programs
  MaxFaults     \* bound: kills and failed system calls

\* long: the command line overruns the buffer of the echo command, which has fewer
\* bytes (BUFFERSIZE) than a label may have (MAXENVLEN).  credfree stands for the
\* types without a handler.
RecordType ==
  [type : {"boot", "credfree"}, cred : Creds]
    \cup [type : {"credfork"}, cred : Creds, forked : Creds]
    \cup [type : {"setid"}, cred : Creds, uid : Uids]
    \cup [type : {"exec"}, cred : Creds, long : BOOLEAN]
    \cup [type : {"file_p"}, cred : Creds, iv : Versions, mask : SUBSET {"read", "write"}]

ASSUME RecordsAssumption == Records \subseteq RecordType
\* A new credential's id is not that of the one it is copied from: handle_credfork looks
\* both up before it pushes either.
ASSUME ForkAssumption == \A r \in Records : r.type = "credfork" => r.forked # r.cred
ASSUME BoundsAssumption ==
  /\ MaxEvents \in Nat /\ MaxRecords \in Nat /\ MaxRuns \in Nat /\ MaxFaults \in Nat

VARIABLES
  log,        \* every record the kernel has emitted, oldest first
  rd,         \* how many of them spade_provd has read out of the relay
  pc,         \* where the running program is
  tool,       \* which program it is
  pos,        \* the last record this run has read
  events,     \* records this run has handed to a handler
  p1, ag, ar, used, wasgenBy,  \* the lists: processes, agents, artifacts, edges
  counter,    \* number of the next exec vertex
  lines,      \* commands the handler has yet to run
  pipe,       \* what SPADE has been told
  dropped,    \* lines that did not get there
  first,      \* the record before this run's first
  whole,      \* the last record all of whose lines this run has printed
  start,      \* length of pipe when this run started
  runs, faults

lists  == <<p1, ag, ar, used, wasgenBy, counter>>
ghosts == <<first, whole, start>>
bounds == <<runs, faults>>
vars   == <<log, rd, pc, tool, pos, events, lists, lines, pipe, dropped, ghosts, bounds>>

\* The vertex ids the handlers print.
P(c)   == <<"P", c>>
AG(u)  == <<"AG", u>>
AR(iv) == <<"AR", iv>>
Exec(n) == <<"exec", n>>

\* Of which record a line tells is known to the model only.
Vertex(id, i)     == [op |-> "vertex", id |-> id, of |-> i]
Edge(rel, x, y, i) == [op |-> "edge", rel |-> rel, from |-> x, to |-> y, of |-> i]

NoLists ==
  /\ p1' = {} /\ ag' = {} /\ ar' = {} /\ used' = {} /\ wasgenBy' = {}
  /\ counter' = 0

Init ==
  /\ log = <<>> /\ rd = 0
  /\ pc = "off" /\ tool = "provd" /\ pos = 0 /\ events = 0
  /\ p1 = {} /\ ag = {} /\ ar = {} /\ used = {} /\ wasgenBy = {} /\ counter = 0
  /\ lines = <<>> /\ pipe = <<>> /\ dropped = {}
  /\ first = 0 /\ whole = 0 /\ start = 0 /\ runs = 0 /\ faults = 0

-----------------------------------------------------------------------------
(* The environment *)

\* The kernel's first record is boot, and it emits no other.
Emit(r) ==
  /\ Len(log) < MaxRecords
  /\ r.type = "boot" <=> log = <<>>
  /\ log' = Append(log, r)
  /\ UNCHANGED <<rd, pc, tool, pos, events, lists, lines, pipe, dropped, ghosts, bounds>>

Fault == faults < MaxFaults /\ faults' = faults + 1

\* The process ends and its lists with it.
Exit ==
  /\ pc' = "off" /\ lines' = <<>> /\ NoLists /\ events' = 0

Kill ==
  /\ pc # "off" /\ Fault /\ Exit
  /\ UNCHANGED <<log, rd, tool, pos, pipe, dropped, ghosts, runs>>

-----------------------------------------------------------------------------
(* The handlers: which lines a record becomes *)

\* The line of a new vertex, none for a known one.
NewProcess(c, i)   == IF c \in p1 THEN <<>> ELSE <<Vertex(P(c), i)>>
NewAgent(u, i)     == IF u \in ag THEN <<>> ELSE <<Vertex(AG(u), i)>>
NewArtifact(iv, i) == IF iv \in ar THEN <<>> ELSE <<Vertex(AR(iv), i)>>

checkUsedBy(c, iv)         == <<c, iv>> \in used
checkWasGeneratedBy(c, iv) == <<c, iv>> \in wasgenBy

\* Announces without a look at the list.
handle_boot(r, i) ==
  /\ r.type = "boot"
  /\ p1' = p1 \cup {r.cred}
  /\ lines' = <<Vertex(P(r.cred), i)>>
  /\ UNCHANGED <<ag, ar, used, wasgenBy, counter>>

\* Mutant: the child is looked up only when the parent is known.
CredforkOneVertex(r, i) ==
  /\ r.type = "credfork"
  /\ p1' = p1 \cup {r.cred, r.forked}
  /\ lines' = (IF r.cred \notin p1 THEN <<Vertex(P(r.cred), i)>>
               ELSE NewProcess(r.forked, i))
                 \o <<Edge("WasForkedby", P(r.forked), P(r.cred), i)>>
  /\ UNCHANGED <<ag, ar, used, wasgenBy, counter>>

handle_credfork(r, i) ==
  /\ r.type = "credfork"
  /\ p1' = p1 \cup {r.cred, r.forked}
  /\ lines' = NewProcess(r.cred, i) \o NewProcess(r.forked, i)
                \o <<Edge("WasForkedby", P(r.forked), P(r.cred), i)>>
  /\ UNCHANGED <<ag, ar, used, wasgenBy, counter>>

\* Mutant: the agent is not pushed.
SetidForgetsAgent(r, i) ==
  /\ r.type = "setid"
  /\ p1' = p1 \cup {r.cred}
  /\ lines' = NewProcess(r.cred, i) \o NewAgent(r.uid, i)
                \o <<Edge("WasControlledBy", P(r.cred), AG(r.uid), i)>>
  /\ UNCHANGED <<ag, ar, used, wasgenBy, counter>>

\* Only the uid of the eight ids counts; the edge is repeated for a known agent.
handle_setid(r, i) ==
  /\ r.type = "setid"
  /\ p1' = p1 \cup {r.cred} /\ ag' = ag \cup {r.uid}
  /\ lines' = NewProcess(r.cred, i) \o NewAgent(r.uid, i)
                \o <<Edge("WasControlledBy", P(r.cred), AG(r.uid), i)>>
  /\ UNCHANGED <<ar, used, wasgenBy, counter>>

\* A vertex for every exec, numbered by counter.
handle_exec(r, i) ==
  /\ r.type = "exec"
  /\ p1' = p1 \cup {r.cred} /\ counter' = counter + 1
  /\ lines' = NewProcess(r.cred, i)
                \o <<Vertex(Exec(counter), i),
                     Edge("WasTriggeredBy", Exec(counter), P(r.cred), i)>>
  /\ UNCHANGED <<ag, ar, used, wasgenBy>>

\* Mutant: an artifact's reader is taken for every reader.
UsedBySomeone(r, i) ==
  IF "read" \in r.mask /\ \A c \in Creds : <<c, r.iv>> \notin used
  THEN <<Edge("Used", P(r.cred), AR(r.iv), i)>> ELSE <<>>

UsedLines(r, i) ==
  IF "read" \in r.mask /\ ~checkUsedBy(r.cred, r.iv)
  THEN <<Edge("Used", P(r.cred), AR(r.iv), i)>> ELSE <<>>

\* For a mask with MAY_WRITE and without MAY_READ.
GeneratedLines(r, i) ==
  IF r.mask = {"write"} /\ ~checkWasGeneratedBy(r.cred, r.iv)
  THEN <<Edge("WasGeneratedBy", AR(r.iv), P(r.cred), i)>> ELSE <<>>

\* The lists keep pointers to ids; with one boot record an id has one pointer.
handle_file_p(r, i) ==
  /\ r.type = "file_p"
  /\ p1' = p1 \cup {r.cred} /\ ar' = ar \cup {r.iv}
  /\ used' = IF "read" \in r.mask THEN used \cup {<<r.cred, r.iv>>} ELSE used
  /\ wasgenBy' = IF r.mask = {"write"} THEN wasgenBy \cup {<<r.cred, r.iv>>} ELSE wasgenBy
  /\ lines' = NewProcess(r.cred, i) \o NewArtifact(r.iv, i)
                \o UsedLines(r, i) \o GeneratedLines(r, i)
  /\ UNCHANGED <<ag, counter>>

-----------------------------------------------------------------------------
(* The programs *)

\* The types with a handler that does something.
Handled == {"boot", "credfork", "setid", "exec", "file_p"}

\* spade_cat shows handlers boot records and those of one credential.
Passes(r) == tool = "cat" => r.type = "boot" \/ r.cred = FilterCred

Full == tool = "cat" /\ events > MaxEvents

\* main() of both, up to the loop.
Begin(program, at) ==
  /\ pc = "off" /\ runs < MaxRuns
  /\ runs' = runs + 1
  /\ pc' = "read" /\ tool' = program
  /\ pos' = at /\ first' = at /\ whole' = at /\ start' = Len(pipe)
  /\ UNCHANGED <<log, rd, events, lists, lines, pipe, dropped, faults>>

\* spade_provd goes on where the relay is, spade_cat reads a log from its beginning.
StartProvd == Begin("provd", rd)
StartCat   == Begin("cat", 0)

Advance ==
  /\ pc = "read" /\ pos < Len(log) /\ ~Full
  /\ pos' = pos + 1
  /\ rd' = IF tool = "provd" THEN pos + 1 ELSE rd

Dispatch(r, i) ==
  /\ Passes(r)
  /\ \/ handle_boot(r, i)
     \/ handle_credfork(r, i)
     \/ handle_setid(r, i)
     \/ handle_exec(r, i)
     \/ handle_file_p(r, i)
  /\ events' = events + 1
  /\ pc' = IF lines' = <<>> THEN "read" ELSE "tell"

\* No handler, or not the credential.
Skip(r) ==
  /\ ~Passes(r) \/ r.type \notin Handled
  /\ UNCHANGED <<lists, lines, events, pc>>

ReadRecord ==
  /\ Advance
  /\ Dispatch(log[pos + 1], pos + 1) \/ Skip(log[pos + 1])
  /\ whole' = IF lines' = <<>> THEN pos + 1 ELSE whole
  /\ UNCHANGED <<log, tool, pipe, dropped, first, start, bounds>>

\* Mutant: the rest of the relay goes with the record that fails.
ReadFailsFlushing ==
  /\ Fault /\ pc = "read" /\ pos < Len(log) /\ ~Full
  /\ pos' = pos + 1 /\ Exit
  /\ rd' = IF tool = "provd" THEN Len(log) ELSE rd
  /\ UNCHANGED <<log, tool, pipe, dropped, ghosts, runs>>

\* read() of the body or malloc() fails after the header is consumed.
ReadFails ==
  /\ Fault /\ Advance /\ Exit
  /\ UNCHANGED <<log, tool, pipe, dropped, ghosts, runs>>

\* The whole of a line that is too long is lost: what snprintf has cut off is the
\* closing quote and the name of the pipe.
Reaches(l) ==
  l.op = "vertex" /\ l.id[1] = "exec" => ~log[l.of].long

\* system(), whose result is not looked at.
Echo ==
  /\ pc = "tell"
  /\ LET l == Head(lines)
     IN \/ /\ Reaches(l)
           /\ pipe' = Append(pipe, l)
           /\ UNCHANGED <<dropped, faults>>
        \/ /\ ~Reaches(l)
           /\ dropped' = dropped \cup {l}
           /\ UNCHANGED <<pipe, faults>>
        \/ /\ Fault
           /\ dropped' = dropped \cup {l}
           /\ UNCHANGED pipe
  /\ lines' = Tail(lines)
  /\ pc' = IF Tail(lines) = <<>> THEN "read" ELSE "tell"
  /\ whole' = IF Tail(lines) = <<>> THEN pos ELSE whole
  /\ UNCHANGED <<log, rd, tool, pos, events, lists, first, start, runs>>

\* The input is drained, a read() of a header fails, or spade_cat has its events: the
\* loop ends, and but for an error on spade_cat's stream the status is 0.  With a delay
\* spade_provd opens the relay again, and ends on a signal or a failing call.
Finish ==
  /\ pc = "read"
  /\ \/ (pos = Len(log) \/ Full) /\ UNCHANGED faults
     \/ Fault
  /\ Exit
  /\ UNCHANGED <<log, rd, tool, pos, pipe, dropped, ghosts, runs>>

Next ==
  \/ \E r \in Records : Emit(r)
  \/ Kill
  \/ StartProvd
  \/ StartCat
  \/ ReadRecord
  \/ ReadFails
  \/ Echo
  \/ Finish

Spec == Init /\ [][Next]_vars

-----------------------------------------------------------------------------
(* Properties *)

\* What a record says, whatever its run has announced before.  A record that reads
\* and writes counts as a read.
Facts(r) ==
  CASE r.type = "credfork" -> {<<"WasForkedby", P(r.forked), P(r.cred)>>}
    [] r.type = "setid"    -> {<<"WasControlledBy", P(r.cred), AG(r.uid)>>}
    [] r.type = "exec"     -> {<<"WasTriggeredBy", <<"exec">>, P(r.cred)>>}
    [] r.type = "file_p" /\ "read" \in r.mask -> {<<"Used", P(r.cred), AR(r.iv)>>}
    [] r.type = "file_p" /\ r.mask = {"write"} -> {<<"WasGeneratedBy", AR(r.iv), P(r.cred)>>}
    [] OTHER -> {}

Said(l) == <<l.rel, IF l.from[1] = "exec" THEN <<"exec">> ELSE l.from, l.to>>

\* The lines in S say what record i does; an exec has an edge of its own.
Told(i, S) ==
  \A f \in Facts(log[i]) : \E l \in S :
    l.op = "edge" /\ Said(l) = f /\ (log[i].type = "exec" => l.of = i)

\* The lines of the last run.
Mine == SubSeq(pipe, start + 1, Len(pipe))

\* SPADE hears of both ends of an edge before the edge, from the same run: a vertex is
\* announced once per run, and a run does not rely on what an earlier one announced.
\* The exception is a vertex whose own line did not get through.
EdgeAfterVertices ==
  \A n \in DOMAIN Mine : Mine[n].op = "edge" =>
    \A id \in {Mine[n].from, Mine[n].to} :
      \/ \E m \in 1..(n - 1) : Mine[m].op = "vertex" /\ Mine[m].id = id
      \/ \E l \in dropped : l.op = "vertex" /\ l.id = id /\ l.of > first

\* The lists do their work: within a run no vertex is announced twice, and no Used or
\* WasGeneratedBy edge is repeated.
NothingToldTwice ==
  \A m, n \in DOMAIN Mine : m # n =>
    /\ Mine[m].op = "vertex" /\ Mine[n].op = "vertex" => Mine[m].id # Mine[n].id
    /\ Mine[m].op = "edge" /\ Mine[n].op = "edge"
         /\ Mine[m].rel \in {"Used", "WasGeneratedBy"} => Said(Mine[m]) # Said(Mine[n])

\* The lists do not do more: what a run has read and shown to a handler, it has told,
\* be it as the edge of an earlier record.
RunTellsItsRecords ==
  \A i \in (first + 1)..whole :
    Passes(log[i]) => Told(i, Range(Mine) \cup dropped)

\* The relay forgets what is read, but the daemon has no batch to lose: a kill or a
\* failed call costs one record.
FaultLosesOneRecord ==
  Cardinality({i \in 1..rd : ~Told(i, Range(pipe) \cup dropped)})
    <= faults + (IF pc = "tell" THEN 1 ELSE 0)
=============================================================================
