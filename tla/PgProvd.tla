------------------------------ MODULE PgProvd ------------------------------
(***************************************************************************)
(* reporters/pg_provd: the daemon that drains the kernel's provenance      *)
(* relay into a Postgres database.  One cycle of main() opens a            *)
(* transaction, hands every record of the relay to plog_process_raw, ends  *)
(* the transaction and sleeps.  A record becomes two rows: one of table    *)
(* main, which draws the event number, and one of the table of its type.   *)
(*                                                                         *)
(* The kernel, the database server and the other sessions that draw event  *)
(* numbers (a concurrent pg_cat import) are the environment.               *)
(***************************************************************************)
EXTENDS Naturals, Sequences, FiniteSets

CONSTANTS
  Records,      \* the records the kernel may emit
  MaxRecords,   \* bound: records emitted
  MaxLives,     \* bound: starts of the daemon
  MaxFaults,    \* bound: kills, failed system calls, lost database connections
  MaxForeign    \* bound: event numbers drawn by other sessions

\* plog.h's table of handlers has an entry for every type but exec.
Types == {"boot", "credfork", "credfree", "setid", "exec", "file_p", "mmap",
          "inode_p", "inode_alloc", "inode_dealloc", "setattr", "link",
          "unlink", "mqsend", "mqrecv", "shmat", "readlink", "socksend",
          "sockrecv", "sockalias"}

\* wide: the record carries a value that its column does not take as it stands: a
\* number with its top bit set in a signed column of the same width, or the path
\* of an AF_UNIX address that is no text once it is between quotes.
RecordType == [type : Types, wide : BOOLEAN]

ASSUME RecordsAssumption == Records \subseteq RecordType
ASSUME BoundsAssumption ==
  MaxRecords \in Nat /\ MaxLives \in Nat /\ MaxFaults \in Nat /\ MaxForeign \in Nat

VARIABLES
  log,       \* every record the kernel has emitted, oldest first
  rd,        \* how many of them the daemon has read out of the relay
  pc,        \* where main() is
  status,    \* what the last run of main() returned
  stopping,  \* the flag the signal handler sets
  oneShot,   \* no delay was given on the command line
  conn,      \* the connection to the database server
  eventid,   \* the event number insert_into_main returned last
  seq,       \* the last value of the sequence behind main.eventid
  txn,       \* the rows of the open transaction
  db,        \* the committed rows
  first,     \* rd when this process started
  base,      \* records 1..base are committed or lost for good
  lives, faults, foreign

daemon == <<pc, status, stopping, oneShot, eventid>>
store  == <<conn, seq, txn, db>>
bounds == <<lives, faults, foreign>>
vars   == <<log, rd, daemon, store, first, base, bounds>>

Row  == [eid : Nat, ev : Nat]
Rows == [main : SUBSET Row, detail : SUBSET Row]
NoRows == [main |-> {}, detail |-> {}]

TypeOK ==
  /\ log \in Seq(Records) /\ Len(log) <= MaxRecords
  /\ rd \in 0..Len(log) /\ first \in 0..rd /\ base \in 0..rd
  /\ pc \in {"off", "begin", "read", "insert", "detail", "end", "check", "sleep"}
  /\ status \in {"running", "ok", "failed"}
  /\ stopping \in BOOLEAN /\ oneShot \in BOOLEAN
  /\ conn \in {"ok", "bad"}
  /\ eventid \in Nat /\ seq \in Nat
  /\ txn \in Rows /\ db \in Rows
  /\ lives \in 0..MaxLives /\ faults \in 0..MaxFaults /\ foreign \in 0..MaxForeign

Init ==
  /\ log = <<>> /\ rd = 0 /\ first = 0 /\ base = 0
  /\ pc = "off" /\ status = "ok"
  /\ stopping = FALSE /\ oneShot = FALSE
  /\ conn = "bad" /\ eventid = 0 /\ seq = 0
  /\ txn = NoRows /\ db = NoRows
  /\ lives = 0 /\ faults = 0 /\ foreign = 0

-----------------------------------------------------------------------------
(* The environment *)

\* The kernel writes one record into the relay.
Emit(r) ==
  /\ Len(log) < MaxRecords
  /\ log' = Append(log, r)
  /\ UNCHANGED <<rd, daemon, store, first, base, bounds>>

\* Another session inserts into main and draws an event number.
ForeignInsert ==
  /\ foreign < MaxForeign
  /\ foreign' = foreign + 1
  /\ seq' = seq + 1
  /\ UNCHANGED <<log, rd, daemon, conn, txn, db, first, base, lives, faults>>

Fault == faults < MaxFaults /\ faults' = faults + 1

\* The server drops the connection: it rolls the open transaction back, and
\* what was read for it is lost; libpq reports an error from the next PQexec on.
DbDown ==
  /\ conn = "ok" /\ pc # "off"
  /\ Fault
  /\ conn' = "bad"
  /\ txn' = NoRows
  /\ base' = rd
  /\ UNCHANGED <<log, rd, daemon, seq, db, first, lives, foreign>>

\* handle(): SIGHUP, SIGINT, SIGQUIT or SIGTERM.
Signal ==
  /\ pc # "off" /\ ~stopping
  /\ stopping' = TRUE
  /\ UNCHANGED <<log, rd, pc, status, oneShot, eventid, store, first, base, bounds>>

-----------------------------------------------------------------------------
(* The daemon *)

\* The process ends, from main() or from exit() in handle_err: the server rolls
\* an open transaction back, and the n records read by now keep their fate.
Exit(st, n) ==
  /\ pc' = "off" /\ status' = st
  /\ txn' = NoRows
  /\ base' = n
  /\ UNCHANGED <<stopping, oneShot, eventid>>

\* main() up to the loop.  A failed connection is only printed.
Start ==
  /\ pc = "off" /\ lives < MaxLives
  /\ lives' = lives + 1
  /\ pc' = "begin" /\ status' = "running"
  /\ stopping' = FALSE /\ oneShot' \in BOOLEAN
  /\ \/ conn' = "ok" /\ UNCHANGED faults
     \/ conn' = "bad" /\ Fault
  /\ first' = rd /\ base' = rd
  /\ UNCHANGED <<log, rd, eventid, seq, txn, db, foreign>>

\* open() or daemon() fails before the loop.
StartFails ==
  /\ pc = "off" /\ lives < MaxLives
  /\ lives' = lives + 1
  /\ Fault
  /\ first' = rd
  /\ status' = "failed"
  /\ UNCHANGED <<log, rd, pc, stopping, oneShot, eventid, store, base, foreign>>

\* PQexec "BEGIN", whose result is checked.
Begin ==
  /\ pc = "begin"
  /\ \/ /\ conn = "ok"
        /\ pc' = "read"
        /\ UNCHANGED <<status, stopping, oneShot, eventid, txn, base>>
     \/ /\ conn = "bad"
        /\ Exit("failed", rd)
  /\ UNCHANGED <<log, rd, conn, seq, db, first, bounds>>

\* A type the handler table covers.
Handled(r) == r.type # "exec"

\* Mutant: a record without a handler is skipped, as neo_provd's loop does.
DispatchSkips(r) ==
  /\ pc' = IF Handled(r) THEN "insert" ELSE "read"
  /\ UNCHANGED <<status, stopping, oneShot, eventid, txn, base>>

\* plog_process_raw reads a header and a body and looks the handler up.  With
\* no handler rv still holds the number of body bytes, which main() takes for
\* an error.
Dispatch(r) ==
  \/ /\ Handled(r)
     /\ pc' = "insert"
     /\ UNCHANGED <<status, stopping, oneShot, eventid, txn, base>>
  \/ /\ ~Handled(r)
     /\ Exit("failed", rd + 1)

ReadRecord ==
  /\ pc = "read" /\ rd < Len(log)
  /\ rd' = rd + 1
  /\ Dispatch(log[rd + 1])
  /\ UNCHANGED <<log, conn, seq, db, first, bounds>>

\* read() of the body or malloc() fails after the header is consumed.
ReadFails ==
  /\ pc = "read" /\ rd < Len(log)
  /\ Fault
  /\ rd' = rd + 1
  /\ Exit("failed", rd + 1)
  /\ UNCHANGED <<log, conn, seq, db, first, lives, foreign>>

\* Mutant: the client numbers the row from what is committed.
InsertMainNumbered ==
  /\ pc = "insert" /\ conn = "ok"
  /\ eventid' = Cardinality(db.main) + 1
  /\ txn' = [txn EXCEPT !.main = @ \cup {[eid |-> Cardinality(db.main) + 1, ev |-> rd]}]
  /\ pc' = "detail"
  /\ UNCHANGED <<log, rd, status, stopping, oneShot, conn, seq, db, first, base, bounds>>

\* Mutant: BEGIN is missing, every insert commits on its own.
InsertMainAutocommits ==
  /\ pc = "insert" /\ conn = "ok"
  /\ seq' = seq + 1 /\ eventid' = seq + 1
  /\ db' = [db EXCEPT !.main = @ \cup {[eid |-> seq + 1, ev |-> rd]}]
  /\ pc' = "detail"
  /\ UNCHANGED <<log, rd, status, stopping, oneShot, conn, txn, first, base, bounds>>

\* insert_into_main: nextval is drawn whatever becomes of the transaction.
InsertMain ==
  /\ pc = "insert"
  /\ \/ /\ conn = "ok"
        /\ seq' = seq + 1
        /\ eventid' = seq + 1
        /\ txn' = [txn EXCEPT !.main = @ \cup {[eid |-> seq + 1, ev |-> rd]}]
        /\ pc' = "detail"
        /\ UNCHANGED <<status, stopping, oneShot, base>>
     \/ /\ conn = "bad"
        /\ UNCHANGED seq
        /\ Exit("failed", rd)
  /\ UNCHANGED <<log, rd, conn, db, first, bounds>>

\* %lu of a 64-bit version into a bigint column: file_p clamps it, inode_p and
\* mmap do not.
VersionFits(r) == r.type \in {"inode_p", "mmap"} => ~r.wide

\* %u of a 32-bit owner into an integer column.
OwnerFits(r) == r.type = "setattr" => ~r.wide

\* unsigned identifiers into integer and smallint columns.
IdFits(r) == r.type \in {"sockalias", "mqsend", "mqrecv", "shmat"} => ~r.wide

\* sockrecv writes the path of an AF_UNIX address into the statement as it is;
\* link and unlink pass their names through encode_to_utf8.
AddressFits(r) == r.type = "sockrecv" => ~r.wide

DetailFits(r) == VersionFits(r) /\ OwnerFits(r) /\ IdFits(r) /\ AddressFits(r)

\* Mutant: the second insert asks the sequence for its last value.
InsertDetailLastValue ==
  /\ pc = "detail" /\ conn = "ok" /\ DetailFits(log[rd])
  /\ txn' = [txn EXCEPT !.detail = @ \cup {[eid |-> seq, ev |-> rd]}]
  /\ pc' = "read"
  /\ UNCHANGED <<log, rd, status, stopping, oneShot, eventid, conn, seq, db, first, base,
                 bounds>>

\* The second insert of a handler, under the event number of the first.
InsertDetail ==
  /\ pc = "detail"
  /\ \/ /\ conn = "ok" /\ DetailFits(log[rd])
        /\ txn' = [txn EXCEPT !.detail = @ \cup {[eid |-> eventid, ev |-> rd]}]
        /\ pc' = "read"
        /\ UNCHANGED <<status, stopping, oneShot, eventid, base>>
     \/ /\ conn = "bad" \/ ~DetailFits(log[rd])
        /\ Exit("failed", rd)
  /\ UNCHANGED <<log, rd, conn, seq, db, first, bounds>>

\* Mutant: the stop flag is honoured before END.
DrainedStops ==
  /\ pc = "read" /\ rd = Len(log)
  /\ \/ stopping /\ Exit("ok", rd)
     \/ ~stopping /\ pc' = "end" /\ UNCHANGED <<status, stopping, oneShot, eventid, txn, base>>
  /\ UNCHANGED <<log, rd, conn, seq, db, first, bounds>>

\* Mutant: the loop polls the relay and never ends the transaction.
DrainedPolls == pc = "read" /\ rd = Len(log) /\ UNCHANGED vars

\* read() of a header returns 0 or fails: plog_process_raw returns 0.
Drained ==
  /\ pc = "read"
  /\ \/ rd = Len(log) /\ UNCHANGED faults
     \/ Fault
  /\ pc' = "end"
  /\ UNCHANGED <<log, rd, status, stopping, oneShot, eventid, store, first, base,
                 lives, foreign>>

\* PQexec "END", whose result is not looked at.
End ==
  /\ pc = "end"
  /\ pc' = "check"
  /\ \/ /\ conn = "ok"
        /\ db' = [main   |-> db.main \cup txn.main,
                  detail |-> db.detail \cup txn.detail]
        /\ txn' = NoRows
        /\ base' = rd
     \/ /\ conn = "bad"
        /\ UNCHANGED <<txn, db, base>>
  /\ UNCHANGED <<log, rd, status, stopping, oneShot, eventid, conn, seq, first, bounds>>

\* Mutant: only the one-shot mode leaves the loop.
CheckIgnoresSignal ==
  /\ pc = "check"
  /\ \/ oneShot /\ Exit("ok", rd)
     \/ ~oneShot /\ pc' = "sleep" /\ UNCHANGED <<status, stopping, oneShot, eventid, txn, base>>
  /\ UNCHANGED <<log, rd, conn, seq, db, first, bounds>>

\* The exit condition, and close() of the relay on either way on.
Check ==
  /\ pc = "check"
  /\ \/ /\ stopping \/ oneShot
        /\ Exit("ok", rd) /\ UNCHANGED faults
     \/ /\ Fault
        /\ Exit("failed", rd)
     \/ /\ ~stopping /\ ~oneShot
        /\ pc' = "sleep"
        /\ UNCHANGED <<status, stopping, oneShot, eventid, txn, base, faults>>
  /\ UNCHANGED <<log, rd, conn, seq, db, first, lives, foreign>>

\* usleep() returns and the relay is opened again.
Wake ==
  /\ pc = "sleep"
  /\ \/ pc' = "begin" /\ UNCHANGED <<status, stopping, oneShot, eventid, txn, base, faults>>
     \/ Fault /\ Exit("failed", rd)
  /\ UNCHANGED <<log, rd, conn, seq, db, first, lives, foreign>>

\* SIGKILL; the relay is the kernel's and keeps what was not read.
Kill ==
  /\ pc # "off"
  /\ Fault
  /\ Exit("failed", rd)
  /\ UNCHANGED <<log, rd, conn, seq, db, first, lives, foreign>>

Step ==
  \/ Begin \/ ReadRecord \/ InsertMain \/ InsertDetail \/ Drained \/ End
  \/ Check \/ Wake

Next ==
  \/ \E r \in Records : Emit(r)
  \/ ForeignInsert \/ DbDown \/ Signal
  \/ Start \/ StartFails \/ ReadFails \/ Kill
  \/ Step

\* The scheduler runs a runnable process; nothing obliges anyone to start it.
Spec == Init /\ [][Next]_vars /\ WF_vars(Step)

-----------------------------------------------------------------------------
(* Properties *)

Stored(e) == \E r \in db.main : r.ev = e

\* A query joins main with the table of the type by eventid: every committed row
\* of either has exactly one partner, made from the same record, whatever other
\* sessions insert between the two statements of a handler.
MainDetailMatched ==
  /\ \A m \in db.main : \A d \in db.detail : m.eid = d.eid => m.ev = d.ev
  /\ \A m \in db.main : \E d \in db.detail : d.eid = m.eid
  /\ \A d \in db.detail : \E m \in db.main : m.eid = d.eid

\* eventid is "for event ordering" (pg_cleardb.c): over every life of the daemon
\* the committed numbers order the records as the kernel emitted them, and no
\* record has two numbers, nor two records one.
EventOrder ==
  \A m, n \in db.main : m.eid < n.eid <=> m.ev < n.ev

\* What one process commits is a prefix of what it read: no record is skipped
\* while a later one is stored.
CommitsNoGap ==
  \A e \in (first + 1)..rd : Stored(e) => \A f \in (first + 1)..e : Stored(f)

\* The process returns 0 only after every record it took out of the relay is
\* stored, unless the server went away under the unchecked END.
CleanExitLosesNothing ==
  status = "ok" /\ conn = "ok" => \A e \in (first + 1)..rd : Stored(e)

\* The daemon implements the store of EventStore: batches of consecutive records
\* become visible or are lost as a whole, each record once, in order.
ES == INSTANCE EventStore WITH
        emitted <- Len(log), settled <- base, stored <- {r.ev : r \in db.main}
ImplementsEventStore == ES!ESSpec

\* "Shut down gracefully when given the chance": once the kernel falls silent a
\* signalled daemon ends (plog_process_raw never looks at the flag, so that
\* before that it may not).
StopsOnceQuiet == (stopping /\ pc # "off") ~> pc = "off"

\* A record in the relay of a running daemon is committed or lost after all: it
\* is not kept for ever in a transaction nobody ends.
EveryRecordSettled ==
  \A e \in 1..MaxRecords : (Len(log) >= e /\ pc # "off") ~> (base >= e \/ pc = "off")

\* "Write everything currently in relay to log" (pg_provd.c:100): a process that
\* met no fault has stored all it read when it ends.
RelayWrittenToLog ==
  status # "running" /\ faults = 0 => \A e \in (first + 1)..rd : Stored(e)

-----------------------------------------------------------------------------
(* The inductive invariant of PgProvdProofs *)

\* The records of the open transaction: the one just read has no row yet.
InTxn == (base + 1)..(IF pc = "insert" THEN rd - 1 ELSE rd)

\* While the connection lives the open transaction holds exactly the records read
\* since the last settled one; while it does not, it holds nothing.
TxnHoldsBatch ==
  /\ conn = "ok" =>
       /\ \A r \in txn.main : r.ev \in InTxn
       /\ \A e \in InTxn : \E r \in txn.main : r.ev = e
       /\ pc = "insert" => base < rd
       /\ pc = "detail" => base < rd
  /\ conn = "bad" =>
       /\ txn = NoRows
       /\ pc # "insert" => base = rd
       /\ pc = "insert" => rd - 1 <= base
  /\ pc \in {"off", "begin", "check", "sleep"} => txn = NoRows /\ base = rd

\* Both tables hold the same rows, but for the one a handler is half done with.
Half == IF pc = "detail" /\ conn = "ok" THEN {[eid |-> eventid, ev |-> rd]} ELSE {}
TablesAgree ==
  /\ db.main = db.detail
  /\ txn.main = txn.detail \cup Half

\* The order of the numbers, over committed and uncommitted rows.
AllOrdered ==
  /\ \A m \in db.main \cup txn.main : m.eid <= seq
  /\ \A m \in db.main : m.ev <= base
  /\ \A m, n \in db.main \cup txn.main : m.eid < n.eid <=> m.ev < n.ev

\* A process with a live connection has lost nothing yet.
NothingLost == \A e \in (first + 1)..base : Stored(e)
LossesEndTheLife ==
  /\ pc = "off" <=> status # "running"
  /\ (pc # "off" \/ status = "ok") /\ conn = "ok" => NothingLost
  /\ CommitsNoGap

IInv == TypeOK /\ TxnHoldsBatch /\ TablesAgree /\ AllOrdered /\ LossesEndTheLife
=============================================================================
