----------------------------- MODULE PgSessions -----------------------------
(***************************************************************************)
(* The programs of reporters/pg_provd as sessions of one Postgres server:  *)
(* pg_provd, and pg_cat that imports a log, insert into main and then into *)
(* the table of the record's type; pg_cleardb drops and creates all tables *)
(* in one transaction; pickle_links, pg_query and neo-tool read, in a      *)
(* transaction that psycopg2 opens and nobody ends before the connection.  *)
(*                                                                         *)
(* A transaction keeps the locks of its statements to its end: inserts and *)
(* selects of different sessions go together, a DROP with nothing.  Who    *)
(* waits is served in turn, and the server ends a deadlock by an error.    *)
(***************************************************************************)
EXTENDS Naturals, Sequences, FiniteSets, Functions, SequencesExt

CONSTANTS
  Daemons,     \* sessions of pg_provd
  Imports,     \* sessions of pg_cat
  Resets,      \* sessions of pg_cleardb
  Readers,     \* sessions of the programs that read
  NumTables,   \* table 1 is main
  MaxRecords,  \* bound: records inserted
  MaxFaults    \* bound: kills and lost connections

ASSUME ServerAssumption == NumTables \in Nat \ {0} /\ MaxRecords \in Nat /\ MaxFaults \in Nat

Writers  == Daemons \cup Imports
Sessions == Writers \cup Resets \cup Readers

\* A session is of one program.
ASSUME ProgramsAssumption ==
  Writers \cap Resets = {} /\ Writers \cap Readers = {} /\ Resets \cap Readers = {}

Tables   == 1..NumTables

VARIABLES
  tables,    \* the tables that are there
  rows,      \* the committed rows of main and of the others
  seq,       \* the last number drawn from the sequence of main.eventid
  held,      \* the tables each session has locked
  waiting,   \* the sessions that wait for a lock, in order of their requests
  pc,        \* the statement a session is at
  at,        \* the table that statement is about
  txn,       \* the rows a session has inserted and not committed
  records,   \* records inserted
  faults

store == <<tables, rows, seq>>
locks == <<held, waiting>>
session == <<pc, at, txn>>
vars == <<store, locks, session, records, faults>>

NoRows == [main |-> {}, detail |-> {}]
Row(n, ev) == [eid |-> n, ev |-> ev]

Init ==
  /\ tables \in {{}, Tables} /\ rows = NoRows /\ seq = 0
  /\ held = [s \in Sessions |-> {}] /\ waiting = <<>>
  /\ pc = [s \in Sessions |-> "begin"]
  /\ at = [s \in Sessions |-> 1]
  /\ txn = [s \in Sessions |-> NoRows]
  /\ records = 0 /\ faults = 0

-----------------------------------------------------------------------------
(* The server *)

Locking(s) == pc[s] \in {"main", "detail", "drop", "select"}

Conflict(s, t) == s # t /\ (s \in Resets \/ t \in Resets)

Place(s) == IF \E i \in DOMAIN waiting : waiting[i] = s
            THEN CHOOSE i \in DOMAIN waiting : waiting[i] = s ELSE Len(waiting) + 1

\* Whom s waits for: who holds its table, and who has asked for it before.
Blockers(s) ==
  IF ~Locking(s) \/ at[s] \in held[s] THEN {}
  ELSE {t \in Sessions : /\ Conflict(s, t)
                         /\ \/ at[s] \in held[t]
                            \/ at[s] = at[t] /\ Place(t) < Place(s) /\ t \in Range(waiting)}

Served(s) == Locking(s) /\ Blockers(s) = {}

Queue(s) == RemoveAt(waiting, Place(s))

Wait(s) ==
  /\ Locking(s) /\ ~Served(s) /\ s \notin Range(waiting)
  /\ waiting' = Append(waiting, s)
  /\ UNCHANGED <<store, held, session, records, faults>>

\* The session has its lock, and goes on at statement p about table k.
Locked(s, p, k) ==
  /\ held' = [held EXCEPT ![s] = @ \cup {at[s]}]
  /\ waiting' = Queue(s)
  /\ pc' = [pc EXCEPT ![s] = p] /\ at' = [at EXCEPT ![s] = k]

\* The transaction is over, and its rows and locks with it; the session is at p.
Over(s, p) ==
  /\ held' = [held EXCEPT ![s] = {}]
  /\ waiting' = Queue(s)
  /\ pc' = [pc EXCEPT ![s] = p] /\ at' = [at EXCEPT ![s] = 1]
  /\ txn' = [txn EXCEPT ![s] = NoRows]

RolledBack(s, p) == Over(s, p) /\ UNCHANGED <<store, records>>

\* A statement fails: a handler's handle_err and psycopg2's exception end the
\* program, while pg_cleardb does not look at the result of its DROP and is ended
\* by that of the CREATE that follows.
Fails(s) == RolledBack(s, IF pc[s] = "drop" THEN "aborted" ELSE "exit")

Missing(s) ==
  /\ Served(s) /\ at[s] \notin tables
  /\ Fails(s)
  /\ UNCHANGED faults

\* Sessions each of which waits for another of them.
Circle(S) == S # {} /\ \A s \in S : s \in Range(waiting) /\ Blockers(s) \cap S # {}

\* deadlock_timeout has passed for one of a smallest circle.
Detect(s) ==
  /\ \E S \in SUBSET Range(waiting) :
       s \in S /\ Circle(S) /\ \A T \in SUBSET S : Circle(T) => T = S
  /\ Fails(s)
  /\ UNCHANGED faults

\* SIGKILL, or the connection is lost.
Kill(s) ==
  /\ pc[s] # "exit" /\ faults < MaxFaults
  /\ faults' = faults + 1
  /\ RolledBack(s, "exit")

-----------------------------------------------------------------------------
(* pg_provd and pg_cat *)

\* BEGIN
Begin(s) ==
  /\ s \in Writers /\ pc[s] = "begin"
  /\ pc' = [pc EXCEPT ![s] = "main"]
  /\ UNCHANGED <<store, locks, at, txn, records, faults>>

\* The log or the relay has another record, and it has a handler.
NextRecord(s) ==
  /\ pc[s] = "main" /\ records < MaxRecords
  /\ records' = records + 1

\* insert_into_main, for a record of the type of table k.
InsertMain(s) ==
  /\ NextRecord(s) /\ Served(s) /\ 1 \in tables
  /\ seq' = seq + 1
  /\ txn' = [txn EXCEPT ![s].main = @ \cup {Row(seq + 1, records + 1)}]
  /\ \E k \in Tables \ {1} : Locked(s, "detail", k)
  /\ UNCHANGED <<tables, rows, faults>>

\* Mutant: the second insert takes the number the sequence is at.
InsertDetailLastValue(s) ==
  /\ pc[s] = "detail" /\ Served(s) /\ at[s] \in tables
  /\ txn' = [txn EXCEPT ![s].detail =
               @ \cup {Row(seq, r.ev) : r \in txn[s].main \ txn[s].detail}]
  /\ Locked(s, "main", 1)
  /\ UNCHANGED <<store, records, faults>>

\* The handler's second insert, under the number of the first.
InsertDetail(s) ==
  /\ pc[s] = "detail" /\ Served(s) /\ at[s] \in tables
  /\ txn' = [txn EXCEPT ![s].detail = @ \cup (txn[s].main \ @)]
  /\ Locked(s, "main", 1)
  /\ UNCHANGED <<store, records, faults>>

\* END, once the relay is empty or the log is read: pg_provd sleeps and goes on,
\* pg_cat is done, and so it is when its log breaks off in a record.
End(s) ==
  /\ s \in Writers /\ pc[s] = "main" /\ s \notin Range(waiting)
  /\ rows' = [main |-> rows.main \cup txn[s].main, detail |-> rows.detail \cup txn[s].detail]
  /\ Over(s, IF s \in Daemons THEN "begin" ELSE "exit")
  /\ UNCHANGED <<tables, seq, records, faults>>

-----------------------------------------------------------------------------
(* pg_cleardb *)

\* Mutant: main comes last in the list.
DropOrderMainLast(n) == NumTables + 1 - n

\* The n-th table of the DROP's list.
DropOrder(n) == n

BeginReset(s) ==
  /\ s \in Resets /\ pc[s] = "begin"
  /\ pc' = [pc EXCEPT ![s] = "drop"]
  /\ at' = [at EXCEPT ![s] = DropOrder(1)]
  /\ UNCHANGED <<store, locks, txn, records, faults>>

\* DROP TABLE locks the tables one after the other.
Drop(s) ==
  /\ pc[s] = "drop" /\ Served(s) /\ at[s] \in tables
  /\ LET n == Cardinality(held[s]) + 1
     IN IF n = NumTables THEN Locked(s, "create", 1) ELSE Locked(s, "drop", DropOrder(n + 1))
  /\ UNCHANGED <<store, txn, records, faults>>

\* CREATE TABLE, whose result is looked at.
Create(s) ==
  /\ \/ /\ pc[s] = "create"
        /\ IF at[s] = NumTables
           THEN pc' = [pc EXCEPT ![s] = "end"] /\ UNCHANGED at
           ELSE at' = [at EXCEPT ![s] = @ + 1] /\ UNCHANGED pc
        /\ UNCHANGED <<store, locks, txn, records>>
     \/ /\ pc[s] = "aborted"
        /\ RolledBack(s, "exit")
  /\ UNCHANGED faults

\* END: new tables, and a new sequence for the column eventid of main.
EndReset(s) ==
  /\ pc[s] = "end"
  /\ tables' = Tables /\ rows' = NoRows /\ seq' = 0
  /\ Over(s, "exit")
  /\ UNCHANGED <<records, faults>>

-----------------------------------------------------------------------------
(* pickle_links, pg_query and neo-tool *)

\* The next SELECT is about table k, which may be locked already.
Select(s) ==
  /\ s \in Readers /\ pc[s] \in {"begin", "idle"}
  /\ pc' = [pc EXCEPT ![s] = "select"]
  /\ \E k \in Tables \ held[s] : at' = [at EXCEPT ![s] = k]
  /\ UNCHANGED <<store, locks, txn, records, faults>>

Selected(s) ==
  /\ pc[s] = "select" /\ Served(s) /\ at[s] \in tables
  /\ Locked(s, "idle", at[s])
  /\ UNCHANGED <<store, txn, records, faults>>

\* conn.close(), or the end of the script.
Close(s) ==
  /\ pc[s] = "idle"
  /\ RolledBack(s, "exit")
  /\ UNCHANGED faults

Next ==
  \E s \in Sessions :
    \/ Wait(s) \/ Missing(s) \/ Detect(s) \/ Kill(s)
    \/ Begin(s) \/ InsertMain(s) \/ InsertDetail(s) \/ End(s)
    \/ BeginReset(s) \/ Drop(s) \/ Create(s) \/ EndReset(s)
    \/ Select(s) \/ Selected(s) \/ Close(s)

Spec == Init /\ [][Next]_vars

-----------------------------------------------------------------------------
(* Properties *)

\* pg_cleardb and the handlers both begin with main: sessions that write and reset
\* never wait for each other in a circle, so that in every deadlock there is a
\* reader, whose SELECTs begin with any table.
WritersNeverDeadlock == \A S \in SUBSET (Writers \cup Resets) : ~Circle(S)

\* Committed rows change in two ways.  A writer's transaction adds rows of main and
\* of the others in pairs, under numbers no other row has.  A reset takes all rows
\* away, while no session has inserted any, and begins the numbers again.  Neither
\* leaves fewer tables than there were, nor more: where there are no tables, the
\* DROP fails, and with it the transaction that was to "install the schema".
Pairs(new) ==
  /\ new.main = new.detail
  /\ \A m, n \in new.main : m.eid = n.eid <=> m.ev = n.ev

BatchesAndResets ==
  [][/\ tables' = tables
     /\ \/ rows' = rows
        \/ /\ rows.main \subseteq rows'.main /\ rows.detail \subseteq rows'.detail
           /\ Pairs(rows') /\ seq' = seq
        \/ /\ rows' = NoRows /\ seq' = 0
           /\ \A s \in Sessions : txn[s] = NoRows]_vars
=============================================================================
