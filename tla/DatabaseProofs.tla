-------------------------- MODULE DatabaseProofs --------------------------
(***************************************************************************)
(* Proofs about the Postgres database, for any contents and bounds: its    *)
(* sessions and their locks (PgSessions), and the programs that read it    *)
(* (DbReaders).                                                            *)
(*                                                                         *)
(* The inductive invariant of the sessions, IInv, has three parts that are *)
(* proved one after another: what a session holds at each of its           *)
(* statements, which locks go together, and which rows are in the tables   *)
(* and in transactions.  The readers' invariants are OffInv with GraphInv  *)
(* and CrawlInv for pg_query; ToolInv with WholeApart, OnceApart and       *)
(* RepairInv for neo-tool; and LinkInv with TreeInv for pickle_links and   *)
(* the file system whose records it reads.                                 *)
(***************************************************************************)
EXTENDS PgSessions, DbReaders, TLAPS, WellFoundedInduction, FiniteSetTheorems, NaturalsInduction

Numbered == [eid : Nat, ev : Nat]
RowSets  == [main : SUBSET Numbered, detail : SUBSET Numbered]

AllStatements == {"begin", "main", "detail", "drop", "create", "end", "aborted",
                  "select", "idle", "exit"}

Statements(s) ==
  IF s \in Writers THEN {"begin", "main", "detail", "exit"}
  ELSE IF s \in Resets THEN {"begin", "drop", "create", "end", "aborted", "exit"}
  ELSE {"begin", "select", "idle", "exit"}

TypeOK ==
  /\ tables \in {{}, Tables} /\ rows \in RowSets /\ seq \in Nat
  /\ held \in [Sessions -> SUBSET Tables] /\ waiting \in Seq(Sessions)
  /\ pc \in [Sessions -> AllStatements] /\ \A s \in Sessions : pc[s] \in Statements(s)
  /\ at \in [Sessions -> Tables]
  /\ txn \in [Sessions -> RowSets]
  /\ records \in Nat

\* The tables a session has locked when it is at its statement: a writer and a
\* reset lock main before any other table, a reset all of them in order.
HoldsOK(s) ==
  /\ s \in Writers => /\ pc[s] \in {"begin", "exit"} => held[s] = {}
                      /\ pc[s] \in {"begin", "main"} => at[s] = 1
                      /\ held[s] # {} => 1 \in held[s]
                      /\ pc[s] = "detail" => 1 \in held[s]
  /\ s \in Resets => /\ pc[s] \in {"begin", "aborted", "exit"} => held[s] = {}
                     /\ pc[s] = "drop" => held[s] = 1..(at[s] - 1)
                     /\ pc[s] \in {"create", "end"} => held[s] = Tables /\ tables = Tables

Held == \A s \in Sessions : HoldsOK(s)

\* Locks of one table that are held together do not conflict.
Compatible == \A s, t \in Sessions : Conflict(s, t) => held[s] \cap held[t] = {}

\* A transaction has rows only of a writer that holds main, and a row of main
\* without its second one only while the writer is at the second insert.
TxnOK(s) ==
  /\ txn[s] # NoRows => s \in Writers /\ 1 \in held[s]
  /\ txn[s].detail \subseteq txn[s].main
  /\ pc[s] # "detail" => txn[s].main = txn[s].detail

Written == rows.main \cup UNION {txn[s].main : s \in Sessions}

\* The numbers given to rows are the sequence's, and no two rows have one.
NumbersOK ==
  /\ \A m \in Written : m.eid <= seq /\ m.ev <= records
  /\ \A m, n \in Written : m.eid = n.eid <=> m.ev = n.ev

RowsOK == rows.main = rows.detail /\ NumbersOK /\ \A s \in Sessions : TxnOK(s)

IInv == TypeOK /\ Held /\ Compatible /\ RowsOK

-----------------------------------------------------------------------------

\* Each nonempty set of numbers has a least.
LEMMA LeastNumber ==
  ASSUME NEW T, T \subseteq Nat, T # {}
  PROVE  \E x \in T : \A y \in T : x <= y
<1>1. \E x \in T : \A y \in T : ~ (<<y, x>> \in OpToRel(<, Nat))
  BY NatLessThanWellFounded, WFMin
<1>2. PICK x \in T : \A y \in T : ~ (<<y, x>> \in OpToRel(<, Nat))
  BY <1>1
<1>3. ASSUME NEW y \in T PROVE x <= y
  <2>1. x \in Nat /\ y \in Nat
    BY <1>2
  <2>2. ~ (y < x)
    BY <1>2, <2>1 DEF OpToRel
  <2> QED BY <2>1, <2>2
<1> QED BY <1>2, <1>3

LEMMA PlaceInQueue ==
  ASSUME waiting \in Seq(Sessions), NEW s
  PROVE  /\ Place(s) \in 1..(Len(waiting) + 1)
         /\ s \in Range(waiting) => Place(s) \in 1..Len(waiting)
BY DEF Place, Range

LEMMA QueueTyped ==
  ASSUME waiting \in Seq(Sessions), NEW s
  PROVE  Queue(s) \in Seq(Sessions)
<1>1. Place(s) \in 1..(Len(waiting) + 1)
  BY PlaceInQueue
<1>2. SubSeq(waiting, 1, Place(s) - 1) \in Seq(Sessions)
  BY <1>1
<1>3. SubSeq(waiting, Place(s) + 1, Len(waiting)) \in Seq(Sessions)
  BY <1>1
<1> QED BY <1>2, <1>3 DEF Queue, RemoveAt

\* The end of a transaction, and a lock.
LEMMA OverTyped ==
  ASSUME TypeOK, NEW s \in Sessions, NEW p \in Statements(s), Over(s, p)
  PROVE  /\ held' \in [Sessions -> SUBSET Tables] /\ waiting' \in Seq(Sessions)
         /\ pc' \in [Sessions -> AllStatements] /\ \A t \in Sessions : pc'[t] \in Statements(t)
         /\ at' \in [Sessions -> Tables] /\ txn' \in [Sessions -> RowSets]
<1>1. NoRows \in RowSets /\ 1 \in Tables /\ p \in AllStatements
  BY ServerAssumption DEF NoRows, RowSets, Tables, Statements, AllStatements
<1> QED BY <1>1, QueueTyped DEF Over, TypeOK

LEMMA LockedTyped ==
  ASSUME TypeOK, NEW s \in Sessions, NEW p \in Statements(s), NEW k \in Tables, Locked(s, p, k)
  PROVE  /\ held' \in [Sessions -> SUBSET Tables] /\ waiting' \in Seq(Sessions)
         /\ pc' \in [Sessions -> AllStatements] /\ \A t \in Sessions : pc'[t] \in Statements(t)
         /\ at' \in [Sessions -> Tables]
<1>1. p \in AllStatements
  BY DEF Statements, AllStatements
<1> QED BY <1>1, QueueTyped DEF Locked, TypeOK

LEMMA InitIInv == Init => IInv
<1> SUFFICES ASSUME Init PROVE IInv
  OBVIOUS
<1>1. TypeOK
  <2>1. NoRows \in RowSets /\ 1 \in Tables /\ <<>> \in Seq(Sessions)
    BY ServerAssumption DEF NoRows, RowSets, Tables
  <2> QED BY <2>1 DEF Init, TypeOK, Statements, AllStatements
<1>2. Held
  BY ProgramsAssumption DEF Init, Held, HoldsOK
<1>3. Compatible
  BY DEF Init, Compatible
<1>4. RowsOK
  <2>1. Written = {}
    BY DEF Init, Written, NoRows
  <2> QED BY <2>1 DEF Init, RowsOK, NumbersOK, TxnOK, NoRows
<1> QED BY <1>1, <1>2, <1>3, <1>4 DEF IInv

-----------------------------------------------------------------------------

LEMMA RolledBackTyped ==
  ASSUME TypeOK, NEW s \in Sessions, NEW p \in Statements(s), RolledBack(s, p)
  PROVE  TypeOK'
<1>1. UNCHANGED <<store, records>> /\ Over(s, p)
  BY DEF RolledBack
<1> QED BY <1>1, OverTyped DEF TypeOK, store

LEMMA FailsTyped ==
  ASSUME TypeOK, NEW s \in Sessions, Fails(s)
  PROVE  TypeOK'
<1>1. CASE pc[s] = "drop"
  <2>1. "aborted" \in Statements(s)
    BY <1>1, ProgramsAssumption DEF TypeOK, Statements
  <2> QED BY <1>1, <2>1, RolledBackTyped DEF Fails
<1>2. CASE pc[s] # "drop"
  BY <1>2, RolledBackTyped DEF Fails, Statements
<1> QED BY <1>1, <1>2

\* The rows a writer adds are numbered ones.
LEMMA InsertTyped ==
  ASSUME TypeOK, NEW s \in Sessions, InsertMain(s) \/ InsertDetail(s)
  PROVE  txn' \in [Sessions -> RowSets]
<1>1. txn[s] \in RowSets
  BY DEF TypeOK
<1>2. CASE InsertMain(s)
  <2>1. Row(seq + 1, records + 1) \in Numbered
    BY DEF TypeOK, Row, Numbered
  <2>2. [txn[s] EXCEPT !.main = @ \cup {Row(seq + 1, records + 1)}] \in RowSets
    BY <1>1, <2>1 DEF RowSets
  <2> QED BY <1>2, <2>2 DEF TypeOK, InsertMain
<1>3. CASE InsertDetail(s)
  <2>1. [txn[s] EXCEPT !.detail = @ \cup (txn[s].main \ @)] \in RowSets
    BY <1>1 DEF RowSets
  <2> QED BY <1>3, <2>1 DEF TypeOK, InsertDetail
<1> QED BY <1>2, <1>3

\* A DROP's next table is one of the list.
LEMMA DropNext ==
  ASSUME IInv, NEW s \in Sessions, Drop(s)
  PROVE  /\ s \in Resets /\ held[s] = 1..(at[s] - 1) /\ tables = Tables
         /\ at[s] = NumTables => Locked(s, "create", 1)
         /\ at[s] # NumTables => at[s] + 1 \in Tables /\ Locked(s, "drop", at[s] + 1)
<1>1. s \in Resets
  BY DEF IInv, TypeOK, Statements, Drop
<1>2. held[s] = 1..(at[s] - 1) /\ at[s] \in Tables
  BY <1>1 DEF IInv, TypeOK, Held, HoldsOK, Drop
<1>3. Cardinality(1..(at[s] - 1)) = at[s] - 1
  <2>1. at[s] - 1 \in Nat
    BY <1>2, ServerAssumption DEF Tables
  <2>2. PICK n \in Nat : n = at[s] - 1
    BY <2>1
  <2>3. Cardinality(1..n) = IF 1 > n THEN 0 ELSE n - 1 + 1
    BY FS_Interval
  <2>4. Cardinality(1..n) = n
    BY <2>3
  <2> QED BY <2>2, <2>4
<1>4. Cardinality(held[s]) + 1 = at[s]
  BY <1>2, <1>3, ServerAssumption DEF Tables
<1>5. at[s] # NumTables => at[s] + 1 \in Tables
  BY <1>2, ServerAssumption DEF Tables
<1>6. tables = Tables
  BY DEF IInv, TypeOK, Drop
<1> QED BY <1>1, <1>2, <1>4, <1>5, <1>6 DEF Drop, DropOrder

LEMMA TypeStep == IInv /\ [Next]_vars => TypeOK'
<1> SUFFICES ASSUME IInv, [Next]_vars PROVE TypeOK'
  OBVIOUS
<1>1. TypeOK
  BY DEF IInv
<1>2. CASE UNCHANGED vars
  BY <1>1, <1>2 DEF TypeOK, vars, store, locks, session
<1>3. CASE Next
  <2>1. PICK s \in Sessions :
          \/ Wait(s) \/ Missing(s) \/ Detect(s) \/ Kill(s)
          \/ Begin(s) \/ InsertMain(s) \/ InsertDetail(s) \/ End(s)
          \/ BeginReset(s) \/ Drop(s) \/ Create(s) \/ EndReset(s)
          \/ Select(s) \/ Selected(s) \/ Close(s)
    BY <1>3 DEF Next
  <2>2. CASE Wait(s)
    BY <1>1, <2>2 DEF TypeOK, Wait, store, session
  <2>3. CASE Missing(s) \/ Detect(s)
    BY <1>1, <2>3, FailsTyped DEF Missing, Detect
  <2>4. CASE Kill(s)
    BY <1>1, <2>4, RolledBackTyped DEF Kill, Statements
  <2>5. CASE Begin(s)
    BY <1>1, <2>5 DEF TypeOK, Begin, store, locks, Statements, AllStatements
  <2>6. CASE InsertMain(s)
    <3>1. s \in Writers
      BY <1>1, <2>6 DEF TypeOK, InsertMain, NextRecord, Statements
    <3>2. PICK k \in Tables : Locked(s, "detail", k)
      BY <2>6 DEF InsertMain
    <3>3. "detail" \in Statements(s)
      BY <3>1 DEF Statements
    <3>4. txn' \in [Sessions -> RowSets]
      BY <1>1, <2>6, InsertTyped
    <3> QED BY <1>1, <2>6, <3>2, <3>3, <3>4, LockedTyped DEF TypeOK, InsertMain, NextRecord
  <2>7. CASE InsertDetail(s)
    <3>1. s \in Writers
      BY <1>1, <2>7 DEF TypeOK, InsertDetail, Statements
    <3>2. "main" \in Statements(s) /\ 1 \in Tables
      BY <3>1, ServerAssumption DEF Statements, Tables
    <3> QED BY <1>1, <2>7, <3>2, LockedTyped, InsertTyped DEF TypeOK, InsertDetail, store
  <2>8. CASE End(s)
    <3>1. rows' \in RowSets
      BY <1>1, <2>8 DEF TypeOK, RowSets, End
    <3>2. \E p \in Statements(s) : Over(s, p)
      BY <2>8 DEF End, Statements
    <3> QED BY <1>1, <2>8, <3>1, <3>2, OverTyped DEF TypeOK, End
  <2>9. CASE BeginReset(s)
    <3>1. 1 \in Tables
      BY ServerAssumption DEF Tables
    <3> QED BY <1>1, <2>9, <3>1, ProgramsAssumption
              DEF TypeOK, BeginReset, store, locks, Statements, AllStatements, DropOrder
  <2>10. CASE Drop(s)
    <3>1. s \in Resets /\ \E p \in {"drop", "create"}, k \in Tables : Locked(s, p, k)
      BY <2>10, DropNext, ServerAssumption DEF Tables
    <3>2. {"drop", "create"} \subseteq Statements(s)
      BY <3>1, ProgramsAssumption DEF Statements
    <3> QED BY <1>1, <2>10, <3>1, <3>2, LockedTyped DEF TypeOK, Drop, store
  <2>11. CASE Create(s)
    <3>1. CASE pc[s] = "aborted" /\ RolledBack(s, "exit")
      BY <1>1, <3>1, RolledBackTyped DEF Statements
    <3>2. CASE pc[s] = "create" /\ UNCHANGED <<store, locks, txn, records>>
      <4>1. s \in Resets /\ at[s] \in Tables
        BY <1>1, <3>2 DEF TypeOK, Statements
      <4>2. "end" \in Statements(s) /\ "end" \in AllStatements
        BY <4>1, ProgramsAssumption DEF Statements, AllStatements
      <4>3. /\ pc' \in [Sessions -> AllStatements] /\ \A t \in Sessions : pc'[t] \in Statements(t)
            /\ at' \in [Sessions -> Tables]
        <5>1. CASE at[s] = NumTables
          BY <1>1, <2>11, <3>2, <4>1, <4>2, <5>1 DEF TypeOK, Create
        <5>2. CASE at[s] # NumTables
          <6>1. at[s] + 1 \in Tables
            BY <4>1, <5>2, ServerAssumption DEF Tables
          <6> QED BY <1>1, <2>11, <3>2, <5>2, <6>1 DEF TypeOK, Create
        <5> QED BY <5>1, <5>2
      <4> QED BY <1>1, <3>2, <4>3 DEF TypeOK, store, locks
    <3> QED BY <2>11, <3>1, <3>2 DEF Create
  <2>12. CASE EndReset(s)
    <3>1. NoRows \in RowSets /\ "exit" \in Statements(s)
      BY DEF NoRows, RowSets, Statements
    <3> QED BY <1>1, <2>12, <3>1, OverTyped DEF TypeOK, EndReset
  <2>13. CASE Select(s)
    <3>1. "select" \in Statements(s) /\ "select" \in AllStatements
      BY <2>13, ProgramsAssumption DEF Select, Statements, AllStatements
    <3> QED BY <1>1, <2>13, <3>1 DEF TypeOK, Select, store, locks
  <2>14. CASE Selected(s)
    <3>1. "idle" \in Statements(s) /\ at[s] \in Tables
      BY <1>1, <2>14 DEF TypeOK, Selected, Statements
    <3> QED BY <1>1, <2>14, <3>1, LockedTyped DEF TypeOK, Selected, store
  <2>15. CASE Close(s)
    BY <1>1, <2>15, RolledBackTyped DEF Close, Statements
  <2> QED BY <2>1, <2>2, <2>3, <2>4, <2>5, <2>6, <2>7, <2>8, <2>9, <2>10, <2>11, <2>12, <2>13, <2>14, <2>15
<1> QED BY <1>2, <1>3

-----------------------------------------------------------------------------

\* What a step does to the locks: it takes one that was free for the session, gives
\* all of a session up, or leaves them.
Takes(s)    == Locking(s) /\ Served(s) /\ held' = [held EXCEPT ![s] = @ \cup {at[s]}]
GivesUp(s)  == held' = [held EXCEPT ![s] = {}]

LEMMA LockSteps ==
  ASSUME Next
  PROVE  (\E s \in Sessions : Takes(s) \/ GivesUp(s)) \/ UNCHANGED held
<1> USE DEF Takes, GivesUp
<1>1. PICK s \in Sessions :
        \/ Wait(s) \/ Missing(s) \/ Detect(s) \/ Kill(s)
        \/ Begin(s) \/ InsertMain(s) \/ InsertDetail(s) \/ End(s)
        \/ BeginReset(s) \/ Drop(s) \/ Create(s) \/ EndReset(s)
        \/ Select(s) \/ Selected(s) \/ Close(s)
  BY DEF Next
<1>2. ASSUME NEW p, RolledBack(s, p) PROVE GivesUp(s)
  BY <1>2 DEF RolledBack, Over
<1>3. CASE Wait(s) \/ Begin(s) \/ BeginReset(s) \/ Select(s)
  BY <1>3 DEF Wait, Begin, BeginReset, Select, locks
<1>4. CASE Missing(s) \/ Detect(s) \/ Kill(s) \/ Close(s)
  BY <1>2, <1>4 DEF Missing, Detect, Kill, Close, Fails
<1>5. CASE Create(s)
  BY <1>2, <1>5 DEF Create, locks
<1>6. CASE End(s) \/ EndReset(s)
  BY <1>6 DEF End, EndReset, Over
<1>7. CASE InsertMain(s)
  BY <1>7 DEF InsertMain, NextRecord, Locked, Served
<1>8. CASE InsertDetail(s)
  BY <1>8 DEF InsertDetail, Locked, Served
<1>9. CASE Drop(s)
  <2>1. \E p, k : Locked(s, p, k)
    BY <1>9 DEF Drop
  <2> QED BY <1>9, <2>1 DEF Drop, Locked, Served
<1>10. CASE Selected(s)
  BY <1>10 DEF Selected, Locked, Served
<1> QED BY <1>1, <1>3, <1>4, <1>5, <1>6, <1>7, <1>8, <1>9, <1>10

LEMMA CompatibleStep == IInv /\ [Next]_vars => Compatible'
<1> SUFFICES ASSUME IInv, [Next]_vars, NEW s \in Sessions, NEW t \in Sessions, Conflict(s, t)
             PROVE  held'[s] \cap held'[t] = {}
  BY DEF Compatible, Conflict
<1>1. held \in [Sessions -> SUBSET Tables] /\ held[s] \cap held[t] = {} /\ s # t
  BY DEF IInv, TypeOK, Compatible, Conflict
<1>2. CASE UNCHANGED held
  BY <1>1, <1>2
<1>3. ASSUME NEW r \in Sessions, GivesUp(r) PROVE held'[s] \cap held'[t] = {}
  BY <1>1, <1>3 DEF GivesUp
<1>4. ASSUME NEW r \in Sessions, Takes(r) PROVE held'[s] \cap held'[t] = {}
  <2>1. at[r] \in held[r] \/ \A u \in Sessions : Conflict(r, u) => at[r] \notin held[u]
    BY <1>4 DEF Takes, Served, Blockers
  <2>2. Conflict(t, s)
    BY DEF Conflict
  <2>3. CASE r = s
    <3>1. at[s] \in held[s] \/ at[s] \notin held[t]
      BY <2>1, <2>3
    <3> QED BY <1>1, <1>4, <2>3, <3>1 DEF Takes
  <2>4. CASE r = t
    <3>1. at[t] \in held[t] \/ at[t] \notin held[s]
      BY <2>1, <2>2, <2>4
    <3> QED BY <1>1, <1>4, <2>4, <3>1 DEF Takes
  <2>5. CASE r # s /\ r # t
    BY <1>1, <1>4, <2>5 DEF Takes
  <2> QED BY <2>3, <2>4, <2>5
<1>5. UNCHANGED held \/ \E r \in Sessions : Takes(r) \/ GivesUp(r)
  BY LockSteps DEF vars, locks
<1> QED BY <1>2, <1>3, <1>4, <1>5

-----------------------------------------------------------------------------

\* Who does not step holds what its statement says.
LEMMA OthersHold ==
  ASSUME Held, NEW t \in Sessions, held'[t] = held[t], pc'[t] = pc[t], at'[t] = at[t],
         tables' \in {tables, Tables}
  PROVE  HoldsOK(t)'
BY DEF Held, HoldsOK

LEMMA OverHeld ==
  ASSUME IInv, NEW s \in Sessions, NEW p \in {"begin", "aborted", "exit"}, Over(s, p),
         tables' \in {tables, Tables}, p = "aborted" => s \in Resets
  PROVE  Held'
<1>1. ASSUME NEW t \in Sessions, t # s PROVE HoldsOK(t)'
  <2>1. held'[t] = held[t] /\ pc'[t] = pc[t] /\ at'[t] = at[t]
    BY <1>1 DEF IInv, TypeOK, Over
  <2> QED BY <2>1, OthersHold DEF IInv
<1>2. HoldsOK(s)'
  <2>1. held'[s] = {} /\ pc'[s] = p /\ at'[s] = 1
    BY DEF IInv, TypeOK, Over
  <2> QED BY <2>1, ProgramsAssumption DEF HoldsOK
<1> QED BY <1>1, <1>2 DEF Held

LEMMA LockedHeld ==
  ASSUME IInv, NEW s \in Sessions, NEW p, NEW k \in Tables, Locked(s, p, k), UNCHANGED tables,
         HoldsOK(s)'
  PROVE  Held'
<1>1. ASSUME NEW t \in Sessions, t # s PROVE HoldsOK(t)'
  <2>1. held'[t] = held[t] /\ pc'[t] = pc[t] /\ at'[t] = at[t]
    BY <1>1 DEF IInv, TypeOK, Locked
  <2> QED BY <2>1, OthersHold DEF IInv
<1> QED BY <1>1 DEF Held

LEMMA HeldStep == IInv /\ [Next]_vars => Held'
<1> SUFFICES ASSUME IInv, [Next]_vars PROVE Held'
  OBVIOUS
<1>0. TypeOK /\ Held
  BY DEF IInv
<1>1. CASE UNCHANGED vars
  BY <1>0, <1>1 DEF Held, HoldsOK, vars, store, locks, session
<1>2. CASE Next
  <2>1. PICK s \in Sessions :
          \/ Wait(s) \/ Missing(s) \/ Detect(s) \/ Kill(s)
          \/ Begin(s) \/ InsertMain(s) \/ InsertDetail(s) \/ End(s)
          \/ BeginReset(s) \/ Drop(s) \/ Create(s) \/ EndReset(s)
          \/ Select(s) \/ Selected(s) \/ Close(s)
    BY <1>2 DEF Next
  <2>2. CASE Wait(s)
    BY <1>0, <2>2 DEF Held, HoldsOK, Wait, store, session
  <2>3. CASE Missing(s) \/ Detect(s)
    <3>1. RolledBack(s, IF pc[s] = "drop" THEN "aborted" ELSE "exit")
      BY <2>3 DEF Missing, Detect, Fails
    <3>2. pc[s] = "drop" => s \in Resets
      BY <1>0 DEF TypeOK, Statements
    <3>3. \E p \in {"begin", "aborted", "exit"} :
            RolledBack(s, p) /\ (p = "aborted" => s \in Resets)
      BY <3>1, <3>2
    <3> QED BY <3>3, OverHeld DEF RolledBack, store
  <2>4. CASE Kill(s) \/ Close(s)
    <3>1. RolledBack(s, "exit")
      BY <2>4 DEF Kill, Close
    <3> QED BY <3>1, OverHeld DEF RolledBack, store
  <2>5. CASE Begin(s)
    <3>1. ASSUME NEW t \in Sessions, t # s PROVE HoldsOK(t)'
      BY <1>0, <2>5, <3>1, OthersHold DEF TypeOK, Begin, store, locks
    <3>2. HoldsOK(s)'
      BY <1>0, <2>5, ProgramsAssumption DEF TypeOK, Held, HoldsOK, Begin, locks
    <3> QED BY <3>1, <3>2 DEF Held
  <2>6. CASE InsertMain(s)
    <3>1. PICK k \in Tables : Locked(s, "detail", k)
      BY <2>6 DEF InsertMain
    <3>2. at[s] = 1 /\ s \in Writers
      BY <1>0, <2>6, ProgramsAssumption
         DEF TypeOK, Statements, Held, HoldsOK, InsertMain, NextRecord
    <3>3. HoldsOK(s)'
      BY <1>0, <3>1, <3>2, ProgramsAssumption DEF TypeOK, Locked, HoldsOK
    <3> QED BY <2>6, <3>1, <3>3, LockedHeld DEF InsertMain
  <2>7. CASE InsertDetail(s)
    <3>1. Locked(s, "main", 1) /\ 1 \in Tables
      BY <2>7, ServerAssumption DEF InsertDetail, Tables
    <3>2. 1 \in held[s] /\ s \in Writers
      BY <1>0, <2>7, ProgramsAssumption DEF TypeOK, Statements, Held, HoldsOK, InsertDetail
    <3>3. HoldsOK(s)'
      BY <1>0, <3>1, <3>2, ProgramsAssumption DEF TypeOK, Locked, HoldsOK
    <3> QED BY <2>7, <3>1, <3>3, LockedHeld DEF InsertDetail, store
  <2>8. CASE End(s)
    <3>1. \E p \in {"begin", "exit"} : Over(s, p)
      BY <2>8 DEF End
    <3> QED BY <2>8, <3>1, OverHeld DEF End
  <2>9. CASE BeginReset(s)
    <3>1. ASSUME NEW t \in Sessions, t # s PROVE HoldsOK(t)'
      BY <1>0, <2>9, <3>1, OthersHold DEF TypeOK, BeginReset, store, locks
    <3>2. held[s] = {} /\ s \in Resets /\ 1..(1 - 1) = {}
      BY <1>0, <2>9 DEF Held, HoldsOK, BeginReset
    <3>3. HoldsOK(s)'
      BY <1>0, <2>9, <3>2, ProgramsAssumption DEF TypeOK, HoldsOK, BeginReset, locks, DropOrder
    <3> QED BY <3>1, <3>3 DEF Held
  <2>10. CASE Drop(s)
    <3>1. /\ s \in Resets /\ held[s] = 1..(at[s] - 1) /\ tables = Tables
          /\ at[s] \in Tables
          /\ at[s] = NumTables => Locked(s, "create", 1)
          /\ at[s] # NumTables => at[s] + 1 \in Tables /\ Locked(s, "drop", at[s] + 1)
      BY <1>0, <2>10, DropNext DEF TypeOK
    <3>2. held[s] \cup {at[s]} = 1..at[s]
      BY <3>1, ServerAssumption DEF Tables
    <3>3. CASE at[s] = NumTables
      <4>1. Locked(s, "create", 1) /\ 1 \in Tables
        BY <3>1, <3>3, ServerAssumption DEF Tables
      <4>2. held'[s] = Tables
        BY <1>0, <3>2, <3>3, <4>1 DEF TypeOK, Locked, Tables
      <4>3. HoldsOK(s)'
        BY <1>0, <2>10, <3>1, <4>1, <4>2, ProgramsAssumption DEF TypeOK, Locked, HoldsOK, Drop, store
      <4> QED BY <2>10, <4>1, <4>3, LockedHeld DEF Drop, store
    <3>4. CASE at[s] # NumTables
      <4>1. Locked(s, "drop", at[s] + 1) /\ at[s] + 1 \in Tables
        BY <3>1, <3>4
      <4>2. held'[s] = 1..((at[s] + 1) - 1)
        BY <1>0, <3>1, <3>2, <4>1, ServerAssumption DEF TypeOK, Locked, Tables
      <4>3. HoldsOK(s)'
        BY <1>0, <3>1, <4>1, <4>2, ProgramsAssumption DEF TypeOK, Locked, HoldsOK
      <4> QED BY <2>10, <4>1, <4>3, LockedHeld DEF Drop, store
    <3> QED BY <3>3, <3>4
  <2>11. CASE Create(s)
    <3>1. CASE pc[s] = "aborted" /\ RolledBack(s, "exit")
      BY <3>1, OverHeld DEF RolledBack, store
    <3>2. CASE pc[s] = "create" /\ UNCHANGED <<store, locks, txn, records>>
      <4>1. s \in Resets /\ held[s] = Tables /\ tables = Tables
        BY <1>0, <3>2 DEF TypeOK, Statements, Held, HoldsOK
      <4>2. ASSUME NEW t \in Sessions, t # s PROVE HoldsOK(t)'
        <5>1. pc'[t] = pc[t] /\ at'[t] = at[t]
          BY <1>0, <2>11, <3>2, <4>2 DEF TypeOK, Create
        <5> QED BY <1>0, <3>2, <5>1, OthersHold DEF store, locks
      <4>3. pc'[s] \in {"create", "end"}
        BY <1>0, <2>11, <3>2 DEF TypeOK, Create
      <4>4. HoldsOK(s)'
        BY <3>2, <4>1, <4>3, ProgramsAssumption DEF HoldsOK, store, locks
      <4> QED BY <4>2, <4>4 DEF Held
    <3> QED BY <2>11, <3>1, <3>2 DEF Create
  <2>12. CASE EndReset(s)
    BY <2>12, OverHeld DEF EndReset
  <2>13. CASE Select(s)
    <3>1. ASSUME NEW t \in Sessions, t # s PROVE HoldsOK(t)'
      <4>1. pc'[t] = pc[t] /\ at'[t] = at[t]
        BY <1>0, <2>13, <3>1 DEF TypeOK, Select
      <4> QED BY <1>0, <2>13, <4>1, OthersHold DEF Select, store, locks
    <3>2. HoldsOK(s)'
      BY <2>13, ProgramsAssumption DEF HoldsOK, Select
    <3> QED BY <3>1, <3>2 DEF Held
  <2>14. CASE Selected(s)
    <3>1. s \in Readers
      BY <1>0, <2>14 DEF TypeOK, Statements, Selected, Sessions
    <3>2. HoldsOK(s)'
      BY <3>1, ProgramsAssumption DEF HoldsOK
    <3>3. Locked(s, "idle", at[s]) /\ at[s] \in Tables /\ UNCHANGED tables
      BY <1>0, <2>14 DEF TypeOK, Selected, store
    <3> QED BY <3>2, <3>3, LockedHeld
  <2> QED BY <2>1, <2>2, <2>3, <2>4, <2>5, <2>6, <2>7, <2>8, <2>9, <2>10, <2>11, <2>12, <2>13, <2>14
<1> QED BY <1>1, <1>2

-----------------------------------------------------------------------------

LEMMA SameWritten ==
  ASSUME \A t \in Sessions : txn'[t].main = txn[t].main, rows' = rows
  PROVE  Written' = Written
BY DEF Written

\* A transaction that ends: its rows are committed or lost, and no number is new.
LEMMA OverRows ==
  ASSUME IInv, NEW s \in Sessions, NEW p, p # "detail", Over(s, p),
         rows'.main = rows'.detail, rows'.main \subseteq rows.main \cup txn[s].main,
         UNCHANGED <<seq, records>>
  PROVE  RowsOK'
<1>0. TypeOK /\ RowsOK
  BY DEF IInv
<1>1. ASSUME NEW t \in Sessions PROVE TxnOK(t)' /\ txn'[t].main \subseteq txn[t].main
  <2>1. CASE t = s
    BY <1>0, <2>1 DEF TypeOK, Over, TxnOK, NoRows
  <2>2. CASE t # s
    <3>1. held'[t] = held[t] /\ pc'[t] = pc[t] /\ txn'[t] = txn[t]
      BY <1>0, <2>2 DEF TypeOK, Over
    <3> QED BY <1>0, <3>1 DEF RowsOK, TxnOK
  <2> QED BY <2>1, <2>2
<1>2. Written' \subseteq Written
  BY <1>1 DEF Written
<1>3. NumbersOK'
  BY <1>0, <1>2 DEF RowsOK, NumbersOK
<1> QED BY <1>1, <1>3 DEF RowsOK

LEMMA RolledBackRows ==
  ASSUME IInv, NEW s \in Sessions, NEW p, p # "detail", RolledBack(s, p)
  PROVE  RowsOK'
<1>1. rows' = rows /\ UNCHANGED <<seq, records>> /\ Over(s, p)
  BY DEF RolledBack, store
<1> QED BY <1>1, OverRows DEF IInv, RowsOK

\* A step that leaves the rows and the locks of main alone, and is not about a
\* second insert.
LEMMA SameRows ==
  ASSUME IInv, NEW s \in Sessions, UNCHANGED <<rows, seq, records, txn>>,
         \A t \in Sessions : t # s => pc'[t] = pc[t] /\ held'[t] = held[t],
         held[s] \subseteq held'[s],
         pc[s] # "detail", pc'[s] # "detail"
  PROVE  RowsOK'
<1>1. Written' = Written
  BY SameWritten
<1>2. NumbersOK'
  BY <1>1 DEF IInv, RowsOK, NumbersOK
<1>3. ASSUME NEW t \in Sessions PROVE TxnOK(t)'
  <2>1. CASE t = s
    BY <2>1 DEF IInv, RowsOK, TxnOK
  <2>2. CASE t # s
    BY <2>2 DEF IInv, RowsOK, TxnOK
  <2> QED BY <2>1, <2>2
<1> QED BY <1>2, <1>3 DEF IInv, RowsOK

\* Who has main to itself has it without anyone's rows.
LEMMA ResetAlone ==
  ASSUME IInv, NEW s \in Sessions, s \in Resets, 1 \in held[s], NEW t \in Sessions
  PROVE  txn[t] = NoRows
<1>1. CASE t = s
  BY <1>1, ProgramsAssumption DEF IInv, RowsOK, TxnOK
<1>2. CASE t # s
  <2>1. 1 \notin held[t]
    BY <1>2 DEF IInv, Compatible, Conflict
  <2> QED BY <2>1 DEF IInv, RowsOK, TxnOK
<1> QED BY <1>1, <1>2

LEMMA InsertMainRows ==
  ASSUME IInv, NEW s \in Sessions, InsertMain(s)
  PROVE  RowsOK'
<1>0. TypeOK /\ Held /\ RowsOK
  BY DEF IInv
<1> DEFINE new == Row(seq + 1, records + 1)
<1>1. PICK k \in Tables : Locked(s, "detail", k)
  BY DEF InsertMain
<1>2. /\ seq' = seq + 1 /\ records' = records + 1 /\ rows' = rows
      /\ txn' = [txn EXCEPT ![s].main = @ \cup {new}]
  BY DEF InsertMain, NextRecord
<1>3. s \in Writers /\ at[s] = 1
  BY <1>0, ProgramsAssumption DEF TypeOK, Statements, Held, HoldsOK, InsertMain, NextRecord
<1>4. new.eid = seq + 1 /\ new.ev = records + 1
  BY DEF Row
<1>5. txn \in [Sessions -> RowSets] /\ txn[s].detail = txn[s].main
  BY <1>0 DEF TypeOK, RowsOK, TxnOK, InsertMain, NextRecord
<1>6. txn'[s].main = txn[s].main \cup {new} /\ txn'[s].detail = txn[s].detail
  BY <1>2, <1>5 DEF RowSets
<1>7. ASSUME NEW t \in Sessions, t # s PROVE txn'[t] = txn[t]
  BY <1>2, <1>5, <1>7
<1> HIDE DEF new
<1>8. Written' = Written \cup {new}
  <2>1. Written' \subseteq Written \cup {new}
    BY <1>2, <1>6, <1>7 DEF Written
  <2>2. Written \subseteq Written'
    BY <1>2, <1>6, <1>7 DEF Written
  <2>3. new \in Written'
    BY <1>6 DEF Written
  <2> QED BY <2>1, <2>2, <2>3
<1>9. NumbersOK'
  <2>1. seq \in Nat /\ records \in Nat /\ rows.main \subseteq Numbered
    BY <1>0 DEF TypeOK, RowSets
  <2>2. \A m \in Written : m.eid \in Nat /\ m.ev \in Nat
    BY <1>5, <2>1 DEF Written, RowSets, Numbered
  <2>3. \A m \in Written : m.eid <= seq /\ m.ev <= records
    BY <1>0 DEF RowsOK, NumbersOK
  <2>4. \A m \in Written' : m.eid <= seq' /\ m.ev <= records'
    BY <1>2, <1>4, <1>8, <2>1, <2>2, <2>3
  <2>5. \A m \in Written : m.eid # new.eid /\ m.ev # new.ev
    BY <1>4, <2>1, <2>2, <2>3
  <2>6. \A m, n \in Written : m.eid = n.eid <=> m.ev = n.ev
    BY <1>0 DEF RowsOK, NumbersOK
  <2>7. \A m, n \in Written' : m.eid = n.eid <=> m.ev = n.ev
    BY <1>8, <2>5, <2>6
  <2> QED BY <2>4, <2>7 DEF NumbersOK
<1>10. ASSUME NEW t \in Sessions PROVE TxnOK(t)'
  <2>1. CASE t = s
    <3>1. pc'[s] = "detail" /\ 1 \in held'[s]
      BY <1>0, <1>1, <1>3 DEF TypeOK, Locked
    <3> QED BY <1>3, <1>5, <1>6, <2>1, <3>1 DEF TxnOK
  <2>2. CASE t # s
    <3>1. pc'[t] = pc[t] /\ held'[t] = held[t]
      BY <1>0, <1>1, <2>2 DEF TypeOK, Locked
    <3> QED BY <1>0, <1>7, <2>2, <3>1 DEF RowsOK, TxnOK
  <2> QED BY <2>1, <2>2
<1> QED BY <1>0, <1>2, <1>9, <1>10 DEF RowsOK

LEMMA InsertDetailRows ==
  ASSUME IInv, NEW s \in Sessions, InsertDetail(s)
  PROVE  RowsOK'
<1>0. TypeOK /\ Held /\ RowsOK
  BY DEF IInv
<1>1. Locked(s, "main", 1) /\ UNCHANGED <<rows, seq, records>>
  BY DEF InsertDetail, store
<1>2. txn \in [Sessions -> RowSets] /\ txn[s] \in RowSets /\ txn[s].detail \subseteq txn[s].main
  BY <1>0 DEF TypeOK, RowsOK, TxnOK
<1>3. txn' = [txn EXCEPT ![s].detail = @ \cup (txn[s].main \ @)]
  BY DEF InsertDetail
<1>4. txn'[s].main = txn[s].main /\ txn'[s].detail = txn[s].main
  BY <1>2, <1>3 DEF RowSets
<1>5. ASSUME NEW t \in Sessions, t # s PROVE txn'[t] = txn[t]
  BY <1>2, <1>3, <1>5
<1>6. Written' = Written
  BY <1>1, <1>4, <1>5, SameWritten
<1>7. NumbersOK'
  BY <1>0, <1>1, <1>6 DEF RowsOK, NumbersOK
<1>8. s \in Writers /\ 1 \in held'[s]
  BY <1>0, <1>1, ProgramsAssumption
     DEF TypeOK, Statements, Held, HoldsOK, InsertDetail, Locked
<1>9. ASSUME NEW t \in Sessions PROVE TxnOK(t)'
  <2>1. CASE t = s
    BY <1>4, <1>8, <2>1 DEF TxnOK
  <2>2. CASE t # s
    <3>1. pc'[t] = pc[t] /\ held'[t] = held[t]
      BY <1>0, <1>1, <2>2 DEF TypeOK, Locked
    <3> QED BY <1>0, <1>5, <2>2, <3>1 DEF RowsOK, TxnOK
  <2> QED BY <2>1, <2>2
<1> QED BY <1>0, <1>1, <1>7, <1>9 DEF RowsOK

\* A transaction that a writer ends has its rows in pairs.
LEMMA EndInPairs ==
  ASSUME IInv, NEW s \in Sessions, End(s)
  PROVE  /\ rows'.main = rows.main \cup txn[s].main
         /\ rows'.detail = rows.detail \cup txn[s].detail
         /\ rows'.main = rows'.detail
BY DEF IInv, RowsOK, TxnOK, End

LEMMA RowsStep == IInv /\ [Next]_vars => RowsOK'
<1> SUFFICES ASSUME IInv, [Next]_vars PROVE RowsOK'
  OBVIOUS
<1>0. TypeOK /\ Held /\ RowsOK
  BY DEF IInv
<1>1. CASE UNCHANGED vars
  <2>1. Written' = Written
    BY <1>1, SameWritten DEF vars, store, session
  <2> QED BY <1>0, <1>1, <2>1 DEF RowsOK, NumbersOK, TxnOK, vars, store, locks, session
<1>2. CASE Next
  <2>1. PICK s \in Sessions :
          \/ Wait(s) \/ Missing(s) \/ Detect(s) \/ Kill(s)
          \/ Begin(s) \/ InsertMain(s) \/ InsertDetail(s) \/ End(s)
          \/ BeginReset(s) \/ Drop(s) \/ Create(s) \/ EndReset(s)
          \/ Select(s) \/ Selected(s) \/ Close(s)
    BY <1>2 DEF Next
  <2>2. CASE Wait(s)
    <3>1. UNCHANGED <<rows, seq, records, txn, pc, held>>
      BY <2>2 DEF Wait, store, session
    <3>2. Written' = Written
      BY <3>1, SameWritten
    <3> QED BY <1>0, <3>1, <3>2 DEF RowsOK, NumbersOK, TxnOK
  <2>3. CASE Missing(s) \/ Detect(s) \/ Kill(s) \/ Close(s)
    <3>1. \E p : p # "detail" /\ RolledBack(s, p)
      BY <2>3 DEF Missing, Detect, Kill, Close, Fails
    <3> QED BY <3>1, RolledBackRows
  <2>4. CASE Begin(s) \/ BeginReset(s) \/ Select(s)
    <3>1. UNCHANGED <<rows, seq, records, txn, held>>
      BY <2>4 DEF Begin, BeginReset, Select, store, locks
    <3>2. /\ \A t \in Sessions : t # s => pc'[t] = pc[t]
          /\ pc[s] # "detail" /\ pc'[s] # "detail"
      BY <1>0, <2>4 DEF TypeOK, Begin, BeginReset, Select
    <3> QED BY <3>1, <3>2, SameRows
  <2>5. CASE InsertMain(s)
    BY <2>5, InsertMainRows
  <2>6. CASE InsertDetail(s)
    BY <2>6, InsertDetailRows
  <2>7. CASE End(s)
    <3>1. \E p : p # "detail" /\ Over(s, p)
      BY <2>7 DEF End
    <3>2. UNCHANGED <<seq, records>>
      BY <2>7 DEF End
    <3> QED BY <2>7, <3>1, <3>2, EndInPairs, OverRows
  <2>8. CASE Drop(s) \/ Selected(s)
    <3>1. \E p \in {"create", "drop", "idle"} : \E k : Locked(s, p, k)
      BY <2>8 DEF Drop, Selected
    <3>2. UNCHANGED <<rows, seq, records, txn>> /\ pc[s] # "detail"
      BY <2>8 DEF Drop, Selected, store
    <3>3. /\ \A t \in Sessions : t # s => pc'[t] = pc[t] /\ held'[t] = held[t]
          /\ held[s] \subseteq held'[s] /\ pc'[s] # "detail"
      BY <1>0, <3>1 DEF TypeOK, Locked
    <3> QED BY <3>2, <3>3, SameRows
  <2>9. CASE Create(s)
    <3>1. CASE pc[s] = "aborted" /\ RolledBack(s, "exit")
      BY <3>1, RolledBackRows
    <3>2. CASE pc[s] = "create" /\ UNCHANGED <<store, locks, txn, records>>
      <4>1. /\ \A t \in Sessions : t # s => pc'[t] = pc[t]
            /\ pc'[s] # "detail"
        BY <1>0, <2>9, <3>2 DEF TypeOK, Create
      <4> QED BY <3>2, <4>1, SameRows DEF store, locks
    <3> QED BY <2>9, <3>1, <3>2 DEF Create
  <2>10. CASE EndReset(s)
    <3>1. s \in Resets /\ 1 \in held[s]
      BY <1>0, <2>10, ServerAssumption DEF TypeOK, Statements, Held, HoldsOK, EndReset, Tables
    <3>2. \A t \in Sessions : txn[t] = NoRows
      BY <3>1, ResetAlone
    <3>3. /\ txn' = [txn EXCEPT ![s] = NoRows] /\ rows' = NoRows
          /\ txn \in [Sessions -> RowSets]
      BY <1>0, <2>10 DEF EndReset, Over, TypeOK
    <3>4. \A t \in Sessions : txn'[t] = NoRows
      BY <3>2, <3>3
    <3>5. Written' = {}
      BY <3>3, <3>4 DEF Written, NoRows
    <3> QED BY <3>3, <3>4, <3>5 DEF RowsOK, NumbersOK, TxnOK, NoRows
  <2> QED BY <2>1, <2>2, <2>3, <2>4, <2>5, <2>6, <2>7, <2>8, <2>9, <2>10
<1> QED BY <1>1, <1>2

THEOREM Inductive == Spec => []IInv
<1>1. IInv /\ [Next]_vars => IInv'
  BY TypeStep, HeldStep, CompatibleStep, RowsStep DEF IInv
<1> QED BY <1>1, InitIInv, PTL DEF Spec

\* Every field of every state has its type, and a session is at a statement of its
\* own program.
THEOREM TypeCorrect == Spec => []TypeOK
<1>1. IInv => TypeOK
  BY DEF IInv
<1> QED BY <1>1, Inductive, PTL

-----------------------------------------------------------------------------

\* Who waits for a table other than main holds main, as does who holds anything.
LEMMA MainFirst ==
  ASSUME IInv, NEW s \in Writers \cup Resets, Locking(s), at[s] \notin held[s],
         at[s] # 1 \/ held[s] # {}
  PROVE  1 \in held[s] /\ at[s] # 1
<1>1. s \in Sessions /\ at[s] \in Tables /\ HoldsOK(s) /\ TypeOK
  BY DEF IInv, Held, TypeOK, Sessions
<1>2. CASE s \in Writers
  <2>1. pc[s] \in {"main", "detail"}
    BY <1>1, <1>2, ProgramsAssumption DEF TypeOK, Statements, Locking
  <2> QED BY <1>1, <1>2, <2>1 DEF HoldsOK
<1>3. CASE s \in Resets
  <2>1. pc[s] = "drop"
    BY <1>1, <1>3, ProgramsAssumption DEF TypeOK, Statements, Locking
  <2>2. held[s] = 1..(at[s] - 1)
    BY <1>1, <1>3, <2>1 DEF HoldsOK
  <2>3. at[s] \in Nat /\ at[s] >= 1
    BY <1>1, ServerAssumption DEF Tables
  <2> QED BY <2>2, <2>3
<1> QED BY <1>2, <1>3

\* In a circle of sessions that write and reset, one holds main, or all ask for it;
\* in the first case the one it waits for would hold main too, in the second the
\* one that asked first waits for nobody.
LEMMA NoCircle ==
  ASSUME IInv, NEW S \in SUBSET (Writers \cup Resets), Circle(S)
  PROVE  FALSE
<1>1. waiting \in Seq(Sessions) /\ S \subseteq Sessions
  BY DEF IInv, TypeOK, Sessions
<1>2. ASSUME NEW s \in S
      PROVE  /\ s \in Range(waiting) /\ Locking(s) /\ at[s] \notin held[s]
             /\ \E t \in S : /\ Conflict(s, t)
                             /\ \/ at[s] \in held[t]
                                \/ at[s] = at[t] /\ Place(t) < Place(s)
  BY DEF Circle, Blockers
<1>3. ASSUME NEW s \in S, 1 \in held[s] \/ at[s] # 1 PROVE FALSE
  <2>1. 1 \in held[s] /\ at[s] # 1
    BY <1>2, <1>3, MainFirst
  <2>2. PICK t \in S : /\ Conflict(s, t)
                       /\ at[s] \in held[t] \/ at[s] = at[t]
    BY <1>2
  <2>3. 1 \in held[t]
    BY <1>1, <1>2, <2>1, <2>2, MainFirst DEF IInv, Held, HoldsOK
  <2>4. held[s] \cap held[t] = {}
    BY <1>1, <2>2 DEF IInv, Compatible
  <2> QED BY <2>1, <2>3, <2>4
<1>4. \A s \in S : held[s] = {} /\ at[s] = 1
  BY <1>2, <1>3, MainFirst
<1> DEFINE Places == {Place(s) : s \in S}
<1>5. PICK s \in S : \A t \in S : Place(s) <= Place(t)
  <2>1. Places \subseteq Nat /\ Places # {}
    BY <1>1, PlaceInQueue DEF Circle
  <2>2. PICK x \in Places : \A y \in Places : x <= y
    BY <2>1, LeastNumber
  <2> QED BY <2>2
<1>6. PICK t \in S : Place(t) < Place(s)
  BY <1>2, <1>4
<1>7. Place(s) \in Nat /\ Place(t) \in Nat /\ Place(s) <= Place(t)
  BY <1>1, <1>5, PlaceInQueue
<1> QED BY <1>6, <1>7

\* Sessions that write and reset are never in a circle of waits, whatever the
\* readers do and however many there are of each.
THEOREM OnlyReadersDeadlock == Spec => []WritersNeverDeadlock
<1>1. IInv => WritersNeverDeadlock
  BY NoCircle DEF WritersNeverDeadlock
<1> QED BY <1>1, Inductive, PTL

-----------------------------------------------------------------------------

\* The committed rows that a step leaves alone, adds, or takes away.
LEMMA BatchOrReset ==
  ASSUME IInv, NEW s \in Sessions, End(s) \/ EndReset(s)
  PROVE  /\ tables' = tables
         /\ \/ /\ rows.main \subseteq rows'.main /\ rows.detail \subseteq rows'.detail
               /\ Pairs(rows') /\ seq' = seq
            \/ /\ rows' = NoRows /\ seq' = 0
               /\ \A t \in Sessions : txn[t] = NoRows
<1>1. CASE End(s)
  <2>1. rows'.main \subseteq Written
    BY <1>1, EndInPairs DEF Written
  <2>2. Pairs(rows')
    BY <1>1, <2>1, EndInPairs DEF Pairs, IInv, RowsOK, NumbersOK
  <2> QED BY <1>1, <2>2, EndInPairs DEF End
<1>2. CASE EndReset(s)
  <2>1. s \in Resets /\ HoldsOK(s)
    BY <1>2 DEF IInv, TypeOK, Statements, Held, EndReset
  <2>2. 1 \in held[s] /\ tables = Tables
    BY <1>2, <2>1, ServerAssumption DEF HoldsOK, EndReset, Tables
  <2>3. \A t \in Sessions : txn[t] = NoRows
    BY <2>1, <2>2, ResetAlone
  <2> QED BY <1>2, <2>2, <2>3 DEF EndReset
<1> QED BY <1>1, <1>2

\* What is committed changes by whole batches of pairs under new numbers, or by a
\* whole reset that no transaction with rows overlaps.
THEOREM CommitsWhole == Spec => BatchesAndResets
<1> DEFINE Change ==
      /\ tables' = tables
      /\ \/ rows' = rows
         \/ /\ rows.main \subseteq rows'.main /\ rows.detail \subseteq rows'.detail
            /\ Pairs(rows') /\ seq' = seq
         \/ /\ rows' = NoRows /\ seq' = 0
            /\ \A s \in Sessions : txn[s] = NoRows
<1>1. IInv /\ [Next]_vars => [Change]_vars
  <2> SUFFICES ASSUME IInv, Next PROVE Change
    OBVIOUS
  <2>1. PICK s \in Sessions :
          \/ Wait(s) \/ Missing(s) \/ Detect(s) \/ Kill(s)
          \/ Begin(s) \/ InsertMain(s) \/ InsertDetail(s) \/ End(s)
          \/ BeginReset(s) \/ Drop(s) \/ Create(s) \/ EndReset(s)
          \/ Select(s) \/ Selected(s) \/ Close(s)
    BY DEF Next
  <2>2. CASE End(s) \/ EndReset(s)
    BY <2>2, BatchOrReset
  <2>3. CASE Missing(s) \/ Detect(s) \/ Kill(s) \/ Create(s) \/ Close(s)
    BY <2>3 DEF Missing, Detect, Kill, Create, Close, Fails, RolledBack, store
  <2>4. CASE \/ Wait(s) \/ Begin(s) \/ InsertMain(s) \/ InsertDetail(s)
             \/ BeginReset(s) \/ Drop(s) \/ Select(s) \/ Selected(s)
    BY <2>4 DEF Wait, Begin, InsertMain, InsertDetail, BeginReset, Drop, Select, Selected, store
  <2> QED BY <2>1, <2>2, <2>3, <2>4
<1>2. Spec => [][Change]_vars
  BY <1>1, Inductive, PTL DEF Spec
<1> QED BY <1>2 DEF BatchesAndResets

-----------------------------------------------------------------------------
(* DbReaders: what the tables say depends on nothing but the rows *)

LEMMA SameTables ==
  ASSUME db' = db
  PROVE  /\ \A type : Table(type)' = Table(type)
         /\ \A type, c : RowsOf(type, c)' = RowsOf(type, c)
         /\ \A c : Setids(c)' = Setids(c) /\ Execs(c)' = Execs(c) /\ FilePs(c)' = FilePs(c)
         /\ \A c : Parents(c)' = Parents(c)
  BY DEF Table, RowsOf, Setids, Execs, FilePs, Parents

LastUid(e, S) == e[CHOOSE n \in S : \A k \in S : k <= n].uid

LEMMA SameUid ==
  ASSUME db' = db
  PROVE  \A c : LatestUid(c)' = LatestUid(c)
<1>1. \A c : LatestUid(c) = LastUid(db, Setids(c))
  BY DEF LatestUid, LastUid
<1>2. \A c : LatestUid(c)' = LastUid(db', Setids(c)')
  BY DEF LatestUid, LastUid
<1> QED BY <1>1, <1>2, SameTables

ParentsIn(e, c) ==
  {e[n].provid : n \in {k \in {m \in DOMAIN e : e[m].event_type = "credfork"} : e[k].newid = c}}

WalkIn(e, cs, P) ==
  LET back[n \in Nat] ==
        IF n = 0 THEN cs
        ELSE LET before == back[n - 1]
             IN before \cup (UNION {ParentsIn(e, d) : d \in before} \cap P)
  IN back

LEMMA SameWalk ==
  ASSUME db' = db
  PROVE  \A cs, P : WalkBack(cs, P)' = WalkBack(cs, P)
<1>1. \A cs, P : WalkBack(cs, P) = WalkIn(db, cs, P)[Cardinality(Table("credfork"))]
  BY DEF WalkBack, WalkIn, Parents, ParentsIn, Table
<1>2. \A cs, P : WalkBack(cs, P)' = WalkIn(db', cs, P)[Cardinality(Table("credfork")')]
  BY DEF WalkBack, WalkIn, Parents, ParentsIn, Table
<1> QED BY <1>1, <1>2, SameTables

LEMMA SameLabels ==
  ASSUME db' = db
  PROVE  /\ \A c : AgentLabels(c)' = AgentLabels(c)
         /\ \A c, label : Facts(c, label)' = Facts(c, label)
         /\ \A c : FilesRead(c)' = FilesRead(c)
<1>1. Passing' = Passing
  BY SameTables DEF Passing
<1>2. \A c : AgentLabels(c)' = AgentLabels(c)
  <2> SUFFICES ASSUME NEW c PROVE AgentLabels(c)' = AgentLabels(c)
    OBVIOUS
  <2> DEFINE path == WalkBack({c}, Passing)
             seen == UNION {Parents(d) : d \in path}
             uids == {LatestUid(p) : p \in {s \in seen : Setids(s) # {}}}
  <2>1. path' = path
    BY <1>1, SameWalk
  <2>2. seen' = seen
    BY <2>1, SameTables
  <2>3. uids' = uids
    <3> HIDE DEF path, seen
    <3> DEFINE told == {s \in seen : Setids(s) # {}}
    <3>1. told' = told
      BY <2>2, SameTables
    <3> HIDE DEF told
    <3>2. {LatestUid(p)' : p \in told'} = {LatestUid(p) : p \in told}
      BY <3>1, SameUid
    <3> QED BY <3>2 DEF told
  <2>4. (\E d \in path : Parents(d) = {})' <=> (\E d \in path : Parents(d) = {})
    BY <2>1, SameTables
  <2>5. AgentLabels(c) = IF Setids(c) # {} THEN {LatestUid(c)}
          ELSE uids \cup (IF 0 \in seen /\ Setids(0) = {} THEN {c} ELSE {})
                    \cup (IF \E d \in path : Parents(d) = {} THEN {None} ELSE {})
    BY DEF AgentLabels
  <2>6. AgentLabels(c)' = IF Setids(c)' # {} THEN {LatestUid(c)'}
          ELSE uids' \cup (IF 0 \in seen' /\ Setids(0)' = {} THEN {c} ELSE {})
                    \cup (IF (\E d \in path : Parents(d) = {})' THEN {None} ELSE {})
    BY DEF AgentLabels, None
  <2> HIDE DEF path, seen, uids
  <2> QED BY <2>2, <2>3, <2>4, <2>5, <2>6, SameTables, SameUid
<1>3. \A c, label : /\ ExecEdges(c, label)' = ExecEdges(c, label)
                    /\ FileEdges(c, label)' = FileEdges(c, label)
                    /\ SockEdges(c, label)' = SockEdges(c, label)
  BY SameTables DEF ExecEdges, FileEdges, SockEdges
<1>4. \A c : FilesRead(c)' = FilesRead(c)
  BY SameTables DEF FilesRead
<1> QED BY <1>2, <1>3, <1>4 DEF Facts

-----------------------------------------------------------------------------
(* pg_query: a program that does not run, and its steps *)

\* Nothing has happened to pg_query yet; neo-tool runs without it.
Idling ==
  /\ iter = 0 /\ begun = {} /\ starts = {} /\ scanned_creds = {} /\ new_creds = {}
  /\ threads = <<>> /\ queue = <<>> /\ results = <<>> /\ lost = {}
  /\ graph = [p \in Processes |-> {}] /\ scanned_inodes = [p \in Processes |-> {}]

OffInv ==
  /\ tool = "neo-tool" => qstep = "import"
  /\ qstep = "import" => Idling

\* The actions of pg_query apart.
QueryActs ==
  \/ BeginQuery \/ (\E c \in starts : ScanStart(c)) \/ (\E c \in new_creds : Submit(c))
  \/ Collect \/ TimeOut \/ EndScan \/ Finish(Hanging)
  \/ \E w \in Workers : Work(w)

\* Each step is one of pg_query, or leaves it alone, or starts it; and the database
\* grows only while it is off.
LEMMA StepsOfQuery ==
  ASSUME OffInv, [ReaderNext]_readerVars
  PROVE  \/ qstep \notin {"import", "done", "dead", "hung"} /\ QueryActs /\ db' = db /\ tool' = tool
         \/ UNCHANGED pgVars /\ tool' = tool /\ (db' = db \/ qstep = "import")
         \/ Import_pkl
<1>1. CASE UNCHANGED readerVars
  BY <1>1 DEF readerVars
<1>2. CASE LinkStep
  BY <1>2 DEF LinkStep
<1>3. CASE QueryStep
  BY <1>3 DEF QueryStep, PgNext, QueryActs
<1>4. CASE ToolStep
  BY <1>4 DEF ToolStep
<1>5. CASE Commit
  BY <1>5 DEF Commit, OffInv
<1> QED BY <1>1, <1>2, <1>3, <1>4, <1>5 DEF ReaderNext

LEMMA InitOff == ReaderInit => OffInv
  BY DEF ReaderInit, PgInit, OffInv, Idling

LEMMA StepOff ==
  ASSUME OffInv, [ReaderNext]_readerVars
  PROVE  OffInv'
<1>1. CASE qstep \notin {"import", "done", "dead", "hung"} /\ QueryActs /\ db' = db /\ tool' = tool
  <2>1. tool # "neo-tool"
    BY <1>1 DEF OffInv
  <2>2. qstep' # "import"
    BY <1>1 DEF QueryActs, BeginQuery, ScanStart, Submit, Collect, TimeOut, EndScan, Finish, Work
  <2> QED BY <1>1, <2>1, <2>2 DEF OffInv
<1>2. CASE UNCHANGED pgVars /\ tool' = tool
  BY <1>2 DEF pgVars, OffInv, Idling
<1>3. CASE Import_pkl
  BY <1>3 DEF Import_pkl, OffInv
<1> QED BY <1>1, <1>2, <1>3, StepsOfQuery

-----------------------------------------------------------------------------
(* What the main process writes out *)

MainTells == \A c \in begun : \E label \in AgentLabels(c) : Facts(c, label) \subseteq graph[Main]
Tellable == UNION {Facts(c, label) : c \in begun, label \in UNION {AgentLabels(d) : d \in begun}}

GraphInv ==
  /\ OffInv
  /\ graph = [p \in Processes |-> graph[p]]
  /\ qstep # "hung" => MainTells
  /\ graph[Main] \subseteq Tellable

LEMMA ProcessFacts == Main \in Processes /\ \A w \in Workers : w \in Processes /\ w # Main
  BY QueryAssumption DEF Processes, Main, Workers

\* Nothing about the graph has changed.
LEMMA GraphStays ==
  ASSUME GraphInv, db' = db, begun' = begun, graph'[Main] = graph[Main],
         graph' = [p \in Processes |-> graph'[p]],
         qstep' # "hung" => qstep # "hung", OffInv'
  PROVE  GraphInv'
<1>1. MainTells => MainTells'
  BY SameLabels DEF MainTells
<1>2. graph'[Main] \subseteq Tellable'
  BY SameLabels DEF Tellable, GraphInv
<1>3. OffInv'
  OBVIOUS
<1> QED BY <1>1, <1>2, <1>3 DEF GraphInv

LEMMA ScanMain ==
  ASSUME GraphInv, NEW c, ScanStart(c), db' = db, OffInv'
  PROVE  GraphInv'
<1>1. qstep = "query" /\ begun' = begun \cup {c}
  BY DEF ScanStart
<1>2. CASE Scan(Main, c) /\ qstep' = "crawl"
  <2>1. PICK label \in AgentLabels(c) : graph' = [graph EXCEPT ![Main] = @ \cup Facts(c, label)]
    BY <1>2 DEF Scan
  <2>2. graph'[Main] = graph[Main] \cup Facts(c, label)
    BY <2>1, ProcessFacts DEF GraphInv
  <2>3. graph' = [p \in Processes |-> graph'[p]]
    BY <2>1 DEF GraphInv
  <2>4. MainTells
    BY <1>1 DEF GraphInv
  <2>5. MainTells'
    BY <1>1, <2>1, <2>2, <2>4, SameLabels DEF MainTells
  <2>6. graph'[Main] \subseteq Tellable'
    <3> SUFFICES ASSUME NEW e \in graph'[Main] PROVE e \in Tellable'
      OBVIOUS
    <3>1. CASE e \in Facts(c, label)
      BY <3>1, <1>1, SameLabels DEF Tellable
    <3>2. CASE e \in graph[Main]
      <4>1. PICK a \in begun, l \in UNION {AgentLabels(d) : d \in begun} : e \in Facts(a, l)
        BY <3>2 DEF GraphInv, Tellable
      <4> QED BY <4>1, <1>1, SameLabels DEF Tellable
    <3> QED BY <2>2, <3>1, <3>2
  <2> QED BY <2>3, <2>5, <2>6 DEF GraphInv
<1>3. CASE qstep' = "hung" /\ graph' = graph
  <2>1. graph'[Main] \subseteq Tellable'
    <3> SUFFICES ASSUME NEW e \in graph[Main] PROVE e \in Tellable'
      BY <1>3
    <3>1. PICK a \in begun, l \in UNION {AgentLabels(d) : d \in begun} : e \in Facts(a, l)
      BY DEF GraphInv, Tellable
    <3> QED BY <3>1, <1>1, SameLabels DEF Tellable
  <2> QED BY <1>3, <2>1 DEF GraphInv
<1> QED BY <1>2, <1>3 DEF ScanStart

LEMMA StepGraph ==
  ASSUME GraphInv, [ReaderNext]_readerVars
  PROVE  GraphInv'
<1>1. OffInv /\ OffInv'
  BY StepOff DEF GraphInv
<1>2. CASE qstep \notin {"import", "done", "dead", "hung"} /\ QueryActs /\ db' = db
  <2>1. CASE BeginQuery \/ (\E c \in new_creds : Submit(c)) \/ Collect \/ TimeOut \/ EndScan \/ Finish(Hanging)
    <3>1. begun' = begun /\ graph' = graph
      BY <2>1 DEF BeginQuery, Submit, Collect, TimeOut, EndScan, Finish
    <3>2. graph' = [p \in Processes |-> graph'[p]]
      BY <3>1 DEF GraphInv
    <3> QED BY <1>1, <1>2, <3>1, <3>2, GraphStays
  <2>2. ASSUME NEW c \in starts, ScanStart(c) PROVE GraphInv'
    BY <1>1, <1>2, <2>2, ScanMain
  <2>3. ASSUME NEW w \in Workers, Work(w) PROVE GraphInv'
    <3>1. begun' = begun /\ qstep' = qstep
      BY <2>3 DEF Work
    <3>2. graph' = graph \/ \E new : graph' = [graph EXCEPT ![w] = new]
      BY <2>3 DEF Work, Scan
    <3>3. graph'[Main] = graph[Main] /\ graph' = [p \in Processes |-> graph'[p]]
      BY <3>2, ProcessFacts DEF GraphInv
    <3> QED BY <1>1, <1>2, <3>1, <3>3, GraphStays
  <2> QED BY <1>2, <2>1, <2>2, <2>3 DEF QueryActs
<1>3. CASE UNCHANGED pgVars /\ tool' = tool /\ (db' = db \/ qstep = "import")
  <2>1. CASE db' = db
    <3>1. begun' = begun /\ graph' = graph /\ qstep' = qstep
      BY <1>3 DEF pgVars
    <3>2. graph' = [p \in Processes |-> graph'[p]]
      BY <3>1 DEF GraphInv
    <3> QED BY <1>1, <2>1, <3>1, <3>2, GraphStays
  <2>2. CASE qstep = "import"
    <3>1. begun' = {} /\ graph' = [p \in Processes |-> {}]
      BY <1>1, <1>3, <2>2 DEF pgVars, OffInv, Idling
    <3>2. graph'[Main] = {} /\ graph' = [p \in Processes |-> graph'[p]]
      BY <3>1, ProcessFacts
    <3> QED BY <1>1, <3>1, <3>2 DEF GraphInv, MainTells
  <2> QED BY <1>3, <2>1, <2>2
<1>4. CASE Import_pkl
  <2>1. begun' = {} /\ graph' = [p \in Processes |-> {}]
    BY <1>1, <1>4 DEF Import_pkl, OffInv, Idling
  <2>2. graph'[Main] = {} /\ graph' = [p \in Processes |-> graph'[p]]
    BY <2>1, ProcessFacts
  <2> QED BY <1>1, <2>1, <2>2 DEF GraphInv, MainTells
<1> QED BY <1>1, <1>2, <1>3, <1>4, StepsOfQuery

\* pg_query writes out what the scans of the start credentials told the main
\* process, all of it in every iteration, and nothing that only a worker found.
THEOREM WritesOutStarts == ReaderSpec => []GraphTellsStarts
<1>1. ReaderInit => GraphInv
  <2> SUFFICES ASSUME ReaderInit PROVE GraphInv
    OBVIOUS
  <2>1. begun = {} /\ graph = [p \in Processes |-> {}]
    BY DEF ReaderInit, PgInit
  <2>2. graph[Main] = {} /\ graph = [p \in Processes |-> graph[p]]
    BY <2>1, ProcessFacts
  <2> QED BY <2>1, <2>2, InitOff DEF GraphInv, MainTells, Tellable
<1>2. GraphInv /\ [ReaderNext]_readerVars => GraphInv'
  BY StepGraph
<1>3. GraphInv => GraphTellsStarts
  BY DEF GraphInv, GraphTellsStarts, MainTells, Tellable, out_to_dot
<1> QED BY <1>1, <1>2, <1>3, PTL DEF ReaderSpec

-----------------------------------------------------------------------------
(* Whom the crawl knows of *)

Tasks == {1} \X Provids

\* The tasks of the first iteration: each is queued once, has no result then, and
\* is one whose result will still be seen or be lost.
PoolOK ==
  /\ scanned_inodes = [p \in Processes |-> scanned_inodes[p]]
  /\ new_creds \subseteq Provids
  /\ threads \in Seq(Tasks) /\ queue \in Seq(Tasks)
  /\ results = [t \in DOMAIN results |-> results[t]] /\ DOMAIN results \subseteq Tasks
  /\ \A t \in DOMAIN results : results[t] \subseteq Provids /\ t[2] \in scanned_creds
  /\ qstep = "query" => new_creds = {} /\ threads = <<>>
  /\ qstep = "collect" => threads # <<>>
  /\ \A i, j \in 1..Len(queue) : queue[i] = queue[j] => i = j
  /\ \A i \in 1..Len(queue) : /\ queue[i] \notin DOMAIN results
                              /\ queue[i] \in Uncollected
                              /\ queue[i][2] \in scanned_creds

Looked  == UNION {scanned_inodes[p] : p \in Processes}
Scanned == begun \cup {t[2] : t \in DOMAIN results}
Found   == UNION {results[t] : t \in Uncollected \cap DOMAIN results}
Covered == starts \cup scanned_creds \cup new_creds \cup Found

\* What was read by whom was scanned has been looked at by some process, and who
\* wrote what was looked at is known somewhere.
NoneLost ==
  /\ \A c \in Scanned : FilesRead(c) \subseteq Looked
  /\ \A i \in Looked : WroteFor(i) \subseteq Covered

CrawlInv ==
  /\ OffInv
  /\ iter \in Nat
  /\ iter = 0 => Idling /\ qstep \in {"import", "begin", "dead"}
  /\ iter <= 1 /\ qstep # "hung" => PoolOK /\ NoneLost

LEMMA IdlePool == Idling /\ qstep \in {"import", "begin", "dead"} => PoolOK /\ NoneLost
<1> SUFFICES ASSUME Idling, qstep \in {"import", "begin", "dead"} PROVE PoolOK /\ NoneLost
  OBVIOUS
<1>1. /\ begun = {} /\ starts = {} /\ scanned_creds = {} /\ new_creds = {}
      /\ threads = <<>> /\ queue = <<>> /\ results = <<>> /\ lost = {}
      /\ scanned_inodes = [p \in Processes |-> {}]
  BY DEF Idling
<1>2. DOMAIN results = {} /\ results = [t \in DOMAIN results |-> results[t]]
  BY <1>1
<1>3. threads \in Seq(Tasks) /\ queue \in Seq(Tasks) /\ Len(queue) = 0
  BY <1>1
<1>4. PoolOK
  BY <1>1, <1>2, <1>3 DEF PoolOK
<1>5. Looked = {} /\ Scanned = {}
  BY <1>1, <1>2 DEF Looked, Scanned
<1> QED BY <1>4, <1>5 DEF NoneLost

\* What query_handlers returns: the writers of the file, and credentials of the table.
LEMMA WritersReturned ==
  ASSUME NEW i, NEW known
  PROVE  /\ WroteFor(i) \subseteq get_creds_by_inode("file_p", i, CrawlMasks, known) \cup known
         /\ WroteFor(i) \subseteq get_creds_by_inode("file_p", i, {}, {})
         /\ get_creds_by_inode("file_p", i, CrawlMasks, known) \subseteq Provids
<1>1. ASSUME NEW c \in WroteFor(i)
      PROVE \E n \in Table("file_p") : db[n].provid = c /\ db[n].inode = i /\ db[n].mask \in CrawlMasks
  BY <1>1 DEF WroteFor, FilePs, RowsOf
<1>2. Table("file_p") \subseteq DOMAIN db
  BY DEF Table
<1> HIDE DEF CrawlMasks
<1> QED BY <1>1, <1>2 DEF get_creds_by_inode, Provids

LEMMA SameCrawl ==
  ASSUME db' = db
  PROVE  /\ Provids' = Provids /\ Tasks' = Tasks
         /\ \A i : WroteFor(i)' = WroteFor(i)
         /\ \A c : FilesRead(c)' = FilesRead(c)
<1>1. Provids' = Provids
  BY DEF Provids
<1>2. \A i : WroteFor(i)' = WroteFor(i)
  BY SameTables DEF WroteFor
<1> QED BY <1>1, <1>2, SameLabels DEF Tasks

LEMMA KnownStays ==
  ASSUME NoneLost, db' = db, Looked' = Looked, Scanned' = Scanned, Covered \subseteq Covered'
  PROVE  NoneLost'
  BY SameCrawl DEF NoneLost

\* A scan of c by p that hands over its result.
LEMMA ScanKnown ==
  ASSUME NoneLost, db' = db, NEW p \in Processes, NEW c,
         scanned_inodes = [q \in Processes |-> scanned_inodes[q]], Scan(p, c),
         Scanned' \subseteq Scanned \cup {c}, Covered \subseteq Covered',
         ScanResult(p, c) \subseteq Covered', scanned_creds' \subseteq Covered'
  PROVE  NoneLost' /\ scanned_inodes' = [q \in Processes |-> scanned_inodes'[q]]
<1>1. scanned_inodes' = [scanned_inodes EXCEPT ![p] = @ \cup FilesRead(c)]
  BY DEF Scan
<1>2. scanned_inodes' = [q \in Processes |-> scanned_inodes'[q]]
  BY <1>1
<1>3. Looked' = Looked \cup FilesRead(c) /\ scanned_inodes[p] \subseteq Looked
  BY <1>1 DEF Looked
<1>4. ASSUME NEW i \in Looked' PROVE WroteFor(i) \subseteq Covered'
  <2>1. CASE i \in Looked
    BY <2>1 DEF NoneLost
  <2>2. CASE i \in FilesRead(c) \ scanned_inodes[p]
    <3>1. get_creds_by_inode("file_p", i, CrawlMasks, Known(p)) \subseteq ScanResult(p, c)
      BY <2>2 DEF ScanResult
    <3>2. Known(p) \subseteq scanned_creds'
      BY DEF Known
    <3>3. WroteFor(i) \subseteq get_creds_by_inode("file_p", i, CrawlMasks, Known(p)) \cup Known(p)
      BY WritersReturned
    <3> QED BY <3>1, <3>2, <3>3
  <2> QED BY <1>3, <1>4, <2>1, <2>2
<1>5. \A d \in Scanned' : FilesRead(d) \subseteq Looked'
  BY <1>3 DEF NoneLost
<1> QED BY <1>2, <1>4, <1>5, SameCrawl DEF NoneLost

LEMMA BeginCrawl ==
  ASSUME Idling, BeginQuery, db' = db
  PROVE  iter' = 1 /\ qstep' = "query" /\ PoolOK' /\ NoneLost'
<1>1. /\ begun' = {} /\ threads' = <<>> /\ new_creds' = {} /\ queue' = <<>> /\ results' = <<>>
      /\ lost' = {} /\ qstep' = "query" /\ iter' = 1
  BY DEF Idling, BeginQuery
<1>2. DOMAIN results' = {} /\ results' = [t \in DOMAIN results' |-> results'[t]]
  BY <1>1
<1>3. threads' \in Seq(Tasks') /\ queue' \in Seq(Tasks') /\ Len(queue') = 0
  BY <1>1
<1>4. scanned_inodes = [p \in Processes |-> {}]
  BY DEF Idling
<1>5. CASE scanned_inodes' = scanned_inodes
  <2>1. scanned_inodes' = [p \in Processes |-> scanned_inodes'[p]]
    BY <1>4, <1>5
  <2>2. PoolOK'
    BY <1>1, <1>2, <1>3, <2>1 DEF PoolOK
  <2>3. Looked' = {} /\ Scanned' = {}
    BY <1>1, <1>2, <1>4, <1>5 DEF Looked, Scanned
  <2> QED BY <1>1, <2>2, <2>3 DEF NoneLost
<1>6. CASE /\ scanned_inodes' = [scanned_inodes EXCEPT ![Main] = {target'}]
           /\ starts' = get_creds_by_inode("file_p", target', {}, {})
  <2>1. scanned_inodes' = [p \in Processes |-> scanned_inodes'[p]]
    BY <1>4, <1>6
  <2>2. PoolOK'
    BY <1>1, <1>2, <1>3, <2>1 DEF PoolOK
  <2>3. Looked' = {target'} /\ Scanned' = {}
    BY <1>1, <1>2, <1>4, <1>6, ProcessFacts DEF Looked, Scanned
  <2>4. \A i \in Looked' : WroteFor(i) \subseteq starts'
    <3> SUFFICES ASSUME NEW i, i = target' PROVE WroteFor(i) \subseteq starts'
      BY <2>3
    <3> QED BY <1>6, WritersReturned
  <2>5. starts' \subseteq Covered'
    BY DEF Covered
  <2> QED BY <1>1, <2>2, <2>3, <2>4, <2>5, SameCrawl DEF NoneLost
<1> QED BY <1>5, <1>6 DEF BeginQuery

LEMMA ScanStartCrawl ==
  ASSUME PoolOK, NoneLost, db' = db, NEW c \in starts, ScanStart(c), qstep' # "hung"
  PROVE  PoolOK' /\ NoneLost'
<1>1. /\ qstep = "query" /\ qstep' = "crawl" /\ starts' = starts \ {c} /\ begun' = begun \cup {c}
      /\ scanned_creds' = scanned_creds \cup {c} /\ Scan(Main, c)
      /\ new_creds' = ScanResult(Main, c) /\ threads' = <<>>
      /\ queue' = queue /\ results' = results /\ lost' = lost
  BY DEF ScanStart
<1>2. threads = <<>> /\ new_creds = {}
  BY <1>1 DEF PoolOK
<1>3. Uncollected' = Uncollected
  BY <1>1, <1>2 DEF Uncollected
<1>4. Found' = Found
  BY <1>1, <1>3 DEF Found
<1>5. Covered \subseteq Covered' /\ new_creds' \subseteq Covered' /\ scanned_creds' \subseteq Covered'
  BY <1>1, <1>2, <1>4 DEF Covered
<1>6. Scanned' \subseteq Scanned \cup {c}
  BY <1>1 DEF Scanned
<1>7. NoneLost' /\ scanned_inodes' = [p \in Processes |-> scanned_inodes'[p]]
  BY <1>1, <1>5, <1>6, ScanKnown, ProcessFacts DEF PoolOK
<1>8. new_creds' \subseteq Provids
  BY <1>1, WritersReturned DEF ScanResult
<1>9. threads' \in Seq(Tasks')
  BY <1>1
<1> QED BY <1>1, <1>3, <1>7, <1>8, <1>9, SameCrawl DEF PoolOK

LEMMA SubmitCrawl ==
  ASSUME PoolOK, NoneLost, db' = db, iter = 1, NEW c \in new_creds, Submit(c)
  PROVE  PoolOK' /\ NoneLost'
<1>1. /\ new_creds' = new_creds \ {c} /\ qstep' \in {"collect", "crawl"}
      /\ qstep' = "collect" => Len(threads') = NumThreads
      /\ starts' = starts /\ begun' = begun /\ results' = results /\ lost' = lost
      /\ scanned_inodes' = scanned_inodes
  BY DEF Submit
<1>2. threads \in Seq(Tasks) /\ queue \in Seq(Tasks) /\ c \in Provids
  BY DEF PoolOK
<1>3. Looked' = Looked /\ Scanned' = Scanned
  BY <1>1 DEF Looked, Scanned
<1>4. qstep' = "collect" => threads' # <<>>
  BY <1>1, QueryAssumption
<1>5. CASE c \in scanned_creds /\ UNCHANGED <<scanned_creds, threads, queue>>
  <2>1. Uncollected' = Uncollected
    BY <1>1, <1>5 DEF Uncollected
  <2>2. Found' = Found
    BY <1>1, <2>1 DEF Found
  <2>3. Covered \subseteq Covered'
    BY <1>1, <1>5, <2>2 DEF Covered
  <2>4. NoneLost'
    BY <1>3, <2>3, KnownStays
  <2> QED BY <1>1, <1>4, <1>5, <2>1, <2>4, SameCrawl DEF PoolOK
<1>6. CASE /\ c \notin scanned_creds /\ scanned_creds' = scanned_creds \cup {c}
           /\ threads' = Append(threads, <<iter, c>>) /\ queue' = Append(queue, <<iter, c>>)
  <2> DEFINE task == <<iter, c>>
  <2>1. task \in Tasks /\ task[2] = c
    BY <1>2 DEF Tasks
  <2> HIDE DEF task
  <2>2. threads' = Append(threads, task) /\ queue' = Append(queue, task)
    BY <1>6 DEF task
  <2> PICK k \in Nat : k = Len(threads) + 1
    BY <1>2
  <2> PICK l \in Nat : l = Len(queue) + 1
    BY <1>2
  <2>3. /\ threads' \in Seq(Tasks) /\ queue' \in Seq(Tasks)
        /\ DOMAIN threads' = 1..k /\ threads'[k] = task
        /\ \A i \in 1..Len(threads) : threads'[i] = threads[i] /\ i \in 1..k
        /\ Len(queue') = l /\ queue'[l] = task
        /\ \A i \in 1..l : i = l \/ (i \in 1..Len(queue) /\ queue'[i] = queue[i])
    BY <1>2, <2>1, <2>2
  <2>4. Uncollected \subseteq Uncollected' /\ task \in Uncollected'
    <3>1. k \in DOMAIN threads' /\ task = threads'[k]
      BY <2>3
    <3>2. DOMAIN threads = 1..Len(threads)
      BY <1>2
    <3> QED BY <1>1, <2>3, <3>1, <3>2 DEF Uncollected
  <2>5. Found \subseteq Found'
    BY <1>1, <2>4 DEF Found
  <2>6. Covered \subseteq Covered'
    BY <1>1, <1>6, <2>5 DEF Covered
  <2>7. NoneLost'
    BY <1>3, <2>6, KnownStays
  <2>8. task \notin DOMAIN results /\ \A i \in 1..Len(queue) : queue[i] # task
    BY <1>6, <2>1 DEF PoolOK
  <2>9. \A i \in 1..Len(queue) : queue[i] \notin DOMAIN results /\ queue[i] \in Uncollected
                                  /\ queue[i][2] \in scanned_creds
    BY DEF PoolOK
  <2>10. \A i, j \in 1..Len(queue') : queue'[i] = queue'[j] => i = j
    BY <2>3, <2>8 DEF PoolOK
  <2>11. \A i \in 1..Len(queue') : /\ queue'[i] \notin DOMAIN results'
                                   /\ queue'[i] \in Uncollected'
                                   /\ queue'[i][2] \in scanned_creds'
    <3> SUFFICES ASSUME NEW i \in 1..l
                 PROVE queue'[i] \notin DOMAIN results /\ queue'[i] \in Uncollected'
                       /\ queue'[i][2] \in scanned_creds'
      BY <1>1, <2>3
    <3>1. CASE i = l
      BY <3>1, <1>6, <2>1, <2>3, <2>4, <2>8
    <3>2. CASE i \in 1..Len(queue) /\ queue'[i] = queue[i]
      BY <3>2, <1>6, <2>4, <2>9
    <3> QED BY <2>3, <3>1, <3>2
  <2> QED BY <1>1, <1>4, <1>6, <2>3, <2>7, <2>10, <2>11, SameCrawl DEF PoolOK
<1> QED BY <1>5, <1>6 DEF Submit

LEMMA CollectCrawl ==
  ASSUME PoolOK, NoneLost, db' = db, Collect
  PROVE  PoolOK' /\ NoneLost'
<1> DEFINE head == Head(threads)
<1>1. /\ head \in DOMAIN results /\ new_creds' = new_creds \cup results[head]
      /\ threads' = Tail(threads) /\ qstep' \in {"collect", "crawl"}
      /\ qstep' = "collect" => threads' # <<>>
      /\ starts' = starts /\ begun' = begun /\ results' = results /\ lost' = lost
      /\ scanned_creds' = scanned_creds /\ queue' = queue /\ scanned_inodes' = scanned_inodes
  BY DEF Collect
<1>2. threads \in Seq(Tasks) /\ threads # <<>>
  BY DEF PoolOK, Collect
<1>3. head = threads[1] /\ DOMAIN threads = 1..Len(threads) /\ Len(threads) \in Nat \ {0}
  BY <1>2
<1> HIDE DEF head
<1>4. threads' \in Seq(Tasks) /\ DOMAIN threads' = 1..(Len(threads) - 1)
      /\ \A i \in 1..(Len(threads) - 1) : threads'[i] = threads[i + 1]
  BY <1>1, <1>2
<1>5. ASSUME NEW t \in Uncollected, t # head PROVE t \in Uncollected'
  <2>1. CASE t \in lost
    BY <1>1, <2>1 DEF Uncollected
  <2>2. ASSUME NEW i \in DOMAIN threads, t = threads[i] PROVE t \in Uncollected'
    <3> PICK j \in Int : j = i - 1
      BY <1>3
    <3>1. j \in DOMAIN threads' /\ threads'[j] = t
      BY <1>3, <1>4, <1>5, <2>2
    <3> QED BY <3>1 DEF Uncollected
  <2> QED BY <2>1, <2>2 DEF Uncollected
<1>6. Covered \subseteq Covered'
  <2> SUFFICES ASSUME NEW d \in Found PROVE d \in Covered'
    BY <1>1 DEF Covered
  <2>1. PICK t \in Uncollected \cap DOMAIN results : d \in results[t]
    BY DEF Found
  <2>2. CASE t = head
    BY <1>1, <2>1, <2>2 DEF Covered
  <2>3. CASE t # head
    BY <1>1, <1>5, <2>1, <2>3 DEF Covered, Found
  <2> QED BY <2>2, <2>3
<1>7. Looked' = Looked /\ Scanned' = Scanned
  BY <1>1 DEF Looked, Scanned
<1>8. NoneLost'
  BY <1>6, <1>7, KnownStays
<1>9. \A i \in 1..Len(queue) : queue[i] \in Uncollected'
  BY <1>1, <1>5 DEF PoolOK
<1>10. new_creds' \subseteq Provids
  BY <1>1 DEF PoolOK
<1> QED BY <1>1, <1>4, <1>8, <1>9, <1>10, SameCrawl DEF PoolOK

\* The loop ends; what was not collected is lost.
LEMMA EndScanCrawl ==
  ASSUME PoolOK, NoneLost, db' = db, EndScan
  PROVE  PoolOK' /\ NoneLost'
<1>1. /\ lost' = lost \cup {threads[k] : k \in DOMAIN threads}
      /\ threads' = <<>> /\ qstep' = "query" /\ new_creds = {}
      /\ starts' = starts /\ begun' = begun /\ results' = results /\ new_creds' = new_creds
      /\ scanned_creds' = scanned_creds /\ queue' = queue /\ scanned_inodes' = scanned_inodes
  BY DEF EndScan
<1>2. Uncollected' = Uncollected
  BY <1>1 DEF Uncollected
<1>3. Looked' = Looked /\ Scanned' = Scanned /\ Found' = Found
  BY <1>1, <1>2 DEF Looked, Scanned, Found
<1>4. Covered \subseteq Covered'
  BY <1>1, <1>3 DEF Covered
<1>5. NoneLost'
  BY <1>3, <1>4, KnownStays
<1>6. threads' \in Seq(Tasks')
  BY <1>1
<1> QED BY <1>1, <1>2, <1>5, <1>6, SameCrawl DEF PoolOK

LEMMA WorkCrawl ==
  ASSUME PoolOK, NoneLost, db' = db, NEW w \in Workers, Work(w)
  PROVE  PoolOK' /\ NoneLost'
<1> DEFINE task == Head(queue)
<1>1. /\ queue # <<>> /\ queue' = Tail(queue)
      /\ starts' = starts /\ begun' = begun /\ lost' = lost /\ threads' = threads
      /\ scanned_creds' = scanned_creds /\ new_creds' = new_creds /\ qstep' = qstep
  BY DEF Work
<1>2. queue \in Seq(Tasks)
  BY DEF PoolOK
<1>3. task = queue[1] /\ Len(queue) \in Nat \ {0} /\ task \in Tasks /\ 1 \in 1..Len(queue)
  BY <1>1, <1>2
<1>4. task \notin DOMAIN results /\ task \in Uncollected /\ task[2] \in scanned_creds
  BY <1>3 DEF PoolOK
<1>5. \/ /\ Scan(w, task[2])
         /\ results' = [t \in DOMAIN results \cup {task} |->
                          IF t = task THEN ScanResult(w, task[2]) ELSE results[t]]
      \/ UNCHANGED <<scanned_inodes, graph, results>>
  BY DEF Work
<1> HIDE DEF task
<1>6. Uncollected' = Uncollected
  BY <1>1 DEF Uncollected
<1>7. queue' \in Seq(Tasks) /\ Len(queue') = Len(queue) - 1
      /\ \A i \in 1..Len(queue') : queue'[i] = queue[i + 1]
  BY <1>1, <1>2
<1>8. /\ \A i, j \in 1..Len(queue') : queue'[i] = queue'[j] => i = j
      /\ \A i \in 1..Len(queue') : /\ queue'[i] \notin DOMAIN results \cup {task}
                                   /\ queue'[i] \in Uncollected
                                   /\ queue'[i][2] \in scanned_creds
  <2>1. ASSUME NEW i \in 1..Len(queue'), NEW j \in 1..Len(queue'), queue'[i] = queue'[j]
        PROVE i = j
    <3> PICK k \in Nat, l \in Nat : k = i + 1 /\ l = j + 1
      OBVIOUS
    <3>1. k \in 1..Len(queue) /\ l \in 1..Len(queue) /\ queue[k] = queue[l]
      BY <1>3, <1>7, <2>1
    <3>2. k = l
      BY <3>1 DEF PoolOK
    <3> QED BY <3>2
  <2>2. ASSUME NEW i \in 1..Len(queue')
        PROVE /\ queue'[i] \notin DOMAIN results \cup {task}
              /\ queue'[i] \in Uncollected /\ queue'[i][2] \in scanned_creds
    <3> PICK k \in Nat : k = i + 1
      OBVIOUS
    <3>1. k \in 1..Len(queue) /\ queue'[i] = queue[k] /\ k # 1
      BY <1>3, <1>7
    <3>2. queue[k] # task
      BY <1>3, <3>1 DEF PoolOK
    <3> QED BY <3>1, <3>2 DEF PoolOK
  <2> QED BY <2>1, <2>2
<1>9. CASE UNCHANGED <<scanned_inodes, graph, results>>
  <2>1. Looked' = Looked /\ Scanned' = Scanned /\ Found' = Found
    BY <1>1, <1>6, <1>9 DEF Looked, Scanned, Found
  <2>2. Covered \subseteq Covered'
    BY <1>1, <2>1 DEF Covered
  <2>3. NoneLost'
    BY <2>1, <2>2, KnownStays
  <2> QED BY <1>1, <1>6, <1>7, <1>8, <1>9, <2>3, SameCrawl DEF PoolOK
<1>10. CASE /\ Scan(w, task[2])
            /\ results' = [t \in DOMAIN results \cup {task} |->
                             IF t = task THEN ScanResult(w, task[2]) ELSE results[t]]
  <2>1. DOMAIN results' = DOMAIN results \cup {task} /\ results'[task] = ScanResult(w, task[2])
        /\ \A t \in DOMAIN results : results'[t] = results[t]
    BY <1>4, <1>10
  <2>2. Found \subseteq Found' /\ ScanResult(w, task[2]) \subseteq Found'
    BY <1>4, <1>6, <2>1 DEF Found
  <2>3. Covered \subseteq Covered' /\ ScanResult(w, task[2]) \subseteq Covered'
        /\ scanned_creds' \subseteq Covered'
    BY <1>1, <2>2 DEF Covered
  <2>4. Scanned' \subseteq Scanned \cup {task[2]}
    BY <1>1, <2>1 DEF Scanned
  <2>5. NoneLost' /\ scanned_inodes' = [p \in Processes |-> scanned_inodes'[p]]
    BY <1>10, <2>3, <2>4, ScanKnown, ProcessFacts DEF PoolOK
  <2>6. ScanResult(w, task[2]) \subseteq Provids
    BY WritersReturned DEF ScanResult
  <2>7. /\ results' = [t \in DOMAIN results' |-> results'[t]] /\ DOMAIN results' \subseteq Tasks
        /\ \A t \in DOMAIN results' : results'[t] \subseteq Provids /\ t[2] \in scanned_creds
    BY <1>3, <1>4, <1>10, <2>1, <2>6 DEF PoolOK
  <2> QED BY <1>1, <1>6, <1>7, <1>8, <2>1, <2>5, <2>7, SameCrawl DEF PoolOK
<1> QED BY <1>5, <1>9, <1>10

LEMMA StepCrawl ==
  ASSUME CrawlInv, [ReaderNext]_readerVars
  PROVE  CrawlInv'
<1>1. OffInv /\ OffInv' /\ iter \in Nat
  BY StepOff DEF CrawlInv
<1>2. CASE qstep \notin {"import", "done", "dead", "hung"} /\ QueryActs /\ db' = db
  <2>1. CASE iter = 0
    <3>1. Idling /\ qstep = "begin"
      BY <1>2, <2>1 DEF CrawlInv
    <3>2. CASE BeginQuery
      BY <1>1, <1>2, <3>1, <3>2, BeginCrawl DEF CrawlInv
    <3>3. CASE ~BeginQuery
      BY <1>2, <3>1, <3>3 DEF QueryActs, Idling, ScanStart, Submit, Collect, TimeOut, EndScan, Finish, Work
    <3> QED BY <3>2, <3>3
  <2>2. CASE iter # 0 /\ BeginQuery
    <3>1. iter' = iter + 1
      BY <2>2 DEF BeginQuery
    <3> QED BY <1>1, <2>2, <3>1 DEF CrawlInv
  <2>3. CASE iter # 0 /\ ~BeginQuery
    <3>1. iter' = iter
      BY <1>2, <2>3 DEF QueryActs, ScanStart, Submit, Collect, TimeOut, EndScan, Finish, Work
    <3> SUFFICES ASSUME iter <= 1, qstep' # "hung" PROVE PoolOK' /\ NoneLost'
      BY <1>1, <2>3, <3>1 DEF CrawlInv
    <3>2. PoolOK /\ NoneLost /\ iter = 1
      BY <1>1, <1>2, <2>3 DEF CrawlInv
    <3>3. CASE TimeOut \/ Finish(Hanging)
      <4>1. UNCHANGED <<starts, scanned_creds, new_creds, threads, queue, results, scanned_inodes, begun, lost>>
            /\ qstep' \notin {"query", "collect"}
        BY <3>3 DEF TimeOut, Finish
      <4>2. Uncollected' = Uncollected
        BY <4>1 DEF Uncollected
      <4>3. Looked' = Looked /\ Scanned' = Scanned /\ Found' = Found
        BY <4>1, <4>2 DEF Looked, Scanned, Found
      <4>4. Covered \subseteq Covered'
        BY <4>1, <4>3 DEF Covered
      <4>5. NoneLost'
        BY <1>2, <3>2, <4>3, <4>4, KnownStays
      <4> QED BY <1>2, <3>2, <4>1, <4>2, <4>5, SameCrawl DEF PoolOK
    <3>4. ASSUME NEW c \in starts, ScanStart(c) PROVE PoolOK' /\ NoneLost'
      BY <1>2, <3>2, <3>4, ScanStartCrawl
    <3>5. ASSUME NEW c \in new_creds, Submit(c) PROVE PoolOK' /\ NoneLost'
      BY <1>2, <3>2, <3>5, SubmitCrawl
    <3>6. ASSUME NEW w \in Workers, Work(w) PROVE PoolOK' /\ NoneLost'
      BY <1>2, <3>2, <3>6, WorkCrawl
    <3> QED BY <1>2, <2>3, <3>2, <3>3, <3>4, <3>5, <3>6, CollectCrawl, EndScanCrawl DEF QueryActs
  <2> QED BY <2>1, <2>2, <2>3
<1>3. CASE UNCHANGED pgVars /\ tool' = tool /\ (db' = db \/ qstep = "import")
  <2>1. CASE iter = 0
    <3>1. (Idling /\ qstep \in {"import", "begin", "dead"})' /\ iter' = 0
      BY <1>3, <2>1 DEF pgVars, CrawlInv, Idling
    <3>2. PoolOK' /\ NoneLost'
      BY <3>1, IdlePool, PTL
    <3> QED BY <1>1, <3>1, <3>2 DEF CrawlInv
  <2>2. CASE iter # 0
    <3>1. db' = db
      BY <1>1, <1>3, <2>2 DEF OffInv, Idling
    <3>2. /\ UNCHANGED <<starts, scanned_creds, new_creds, threads, queue, results, scanned_inodes, begun, lost>>
          /\ qstep' = qstep /\ iter' = iter
      BY <1>3 DEF pgVars
    <3>3. Uncollected' = Uncollected
      BY <3>2 DEF Uncollected
    <3>4. Looked' = Looked /\ Scanned' = Scanned /\ Found' = Found
      BY <3>2, <3>3 DEF Looked, Scanned, Found
    <3>5. Covered \subseteq Covered'
      BY <3>2, <3>4 DEF Covered
    <3>6. NoneLost => NoneLost'
      BY <3>1, <3>4, <3>5, KnownStays
    <3>7. PoolOK => PoolOK'
      BY <3>1, <3>2, <3>3, SameCrawl DEF PoolOK
    <3> QED BY <1>1, <2>2, <3>2, <3>6, <3>7 DEF CrawlInv
  <2> QED BY <2>1, <2>2
<1>4. CASE Import_pkl
  <2>1. (Idling /\ qstep \in {"import", "begin", "dead"})' /\ iter' = 0
    BY <1>1, <1>4 DEF Import_pkl, OffInv, Idling
  <2>2. PoolOK' /\ NoneLost'
    BY <2>1, IdlePool, PTL
  <2> QED BY <1>1, <2>1, <2>2 DEF CrawlInv
<1> QED BY <1>1, <1>2, <1>3, <1>4, StepsOfQuery

\* pg_query: although each worker keeps its own list of the inodes it has looked
\* at, whoever wrote what a scanned credential read is scanned, waits to be, or is
\* in a result that was not collected.
THEOREM CrawlForgetsNobody == ReaderSpec => []NothingForgotten
<1>1. ReaderInit => CrawlInv
  <2> SUFFICES ASSUME ReaderInit PROVE CrawlInv
    OBVIOUS
  <2>1. Idling /\ qstep = "import" /\ iter = 0
    BY DEF ReaderInit, PgInit, Idling
  <2>2. PoolOK /\ NoneLost
    BY <2>1, IdlePool
  <2> QED BY <2>1, <2>2, InitOff DEF CrawlInv
<1>2. CrawlInv /\ [ReaderNext]_readerVars => CrawlInv'
  BY StepCrawl
<1>3. CrawlInv => NothingForgotten
  <2> SUFFICES ASSUME CrawlInv, iter <= 1, qstep # "hung", NEW c \in Scanned, NEW i \in FilesRead(c)
               PROVE  WroteFor(i) \subseteq Covered
    BY DEF NothingForgotten, Scanned, TasksDone, Covered, Found
  <2> QED BY DEF CrawlInv, NoneLost
<1> QED BY <1>1, <1>2, <1>3, PTL DEF ReaderSpec

-----------------------------------------------------------------------------
(* The search for a version that was not written *)

\* Each nonempty set of numbers up to v has a largest.
LEMMA LargestNumber ==
  ASSUME NEW v \in Nat, NEW T, T \subseteq 0..v, T # {}
  PROVE  Largest(T) \in T /\ \A y \in T : y <= Largest(T)
<1> DEFINE Gaps == {n \in Nat : v - n \in T}
<1>1. Gaps \subseteq Nat /\ Gaps # {}
  <2>1. PICK x \in T : TRUE
    OBVIOUS
  <2>2. v - x \in Nat /\ v - (v - x) = x
    OBVIOUS
  <2> QED BY <2>1, <2>2
<1>2. PICK g \in Gaps : \A y \in Gaps : ~(<<y, g>> \in OpToRel(<, Nat))
  <2> HIDE DEF Gaps
  <2> QED BY <1>1, NatLessThanWellFounded, WFMin
<1>3. ASSUME NEW y \in T PROVE y <= v - g
  <2>1. v - y \in Nat /\ v - (v - y) = y
    OBVIOUS
  <2>2. v - y \in Gaps
    BY <2>1
  <2>3. ~(v - y < g)
    BY <1>2, <2>1, <2>2 DEF OpToRel
  <2> QED BY <2>1, <2>3
<1>4. \E x \in T : \A y \in T : y <= x
  BY <1>2, <1>3
<1> QED BY <1>4 DEF Largest

\* The versions the loop may stop at.
Stops(i, W, v) == {k \in 0..v : k = 0 \/ <<i, k>> \notin W}

Goes(g, i, W) == g = [v \in Nat |-> IF <<i, v>> \in W /\ v > 0 THEN g[v - 1] ELSE v]

LEMMA StopsFacts ==
  ASSUME NEW i, NEW W, NEW v \in Nat
  PROVE  /\ Largest(Stops(i, W, v)) \in Stops(i, W, v)
         /\ <<i, v>> \in W /\ v > 0 => Stops(i, W, v) = Stops(i, W, v - 1) /\ v - 1 \in Nat
         /\ ~(<<i, v>> \in W /\ v > 0) => Largest(Stops(i, W, v)) = v
<1>1. Stops(i, W, v) \subseteq 0..v /\ 0 \in Stops(i, W, v)
  BY DEF Stops
<1>2. Largest(Stops(i, W, v)) \in Stops(i, W, v) /\ \A k \in Stops(i, W, v) : k <= Largest(Stops(i, W, v))
  BY <1>1, LargestNumber
<1>3. ASSUME <<i, v>> \in W, v > 0 PROVE Stops(i, W, v) = Stops(i, W, v - 1) /\ v - 1 \in Nat
  BY <1>3 DEF Stops
<1>4. ASSUME ~(<<i, v>> \in W /\ v > 0) PROVE Largest(Stops(i, W, v)) = v
  <2>1. v \in Stops(i, W, v)
    BY <1>4 DEF Stops
  <2> QED BY <1>1, <1>2, <2>1
<1> QED BY <1>2, <1>3, <1>4

LEMMA GoesExists == \A i, W : \E g : Goes(g, i, W)
<1> SUFFICES ASSUME NEW i, NEW W PROVE \E g : Goes(g, i, W)
  OBVIOUS
<1> DEFINE g == [v \in Nat |-> Largest(Stops(i, W, v))]
<1>1. ASSUME NEW v \in Nat PROVE g[v] = IF <<i, v>> \in W /\ v > 0 THEN g[v - 1] ELSE v
  BY StopsFacts
<1>2. g = [v \in Nat |-> g[v]]
  OBVIOUS
<1> HIDE DEF g
<1> DEFINE h == [v \in Nat |-> IF <<i, v>> \in W /\ v > 0 THEN g[v - 1] ELSE v]
<1>3. g = h
  <2>1. \A v \in Nat : h[v] = IF <<i, v>> \in W /\ v > 0 THEN g[v - 1] ELSE v
    OBVIOUS
  <2>2. h = [v \in Nat |-> h[v]]
    OBVIOUS
  <2> HIDE DEF h
  <2> QED BY <1>1, <1>2, <2>1, <2>2
<1> QED BY <1>3 DEF Goes

\* The loop stops at the largest version below that may be read: one that was not
\* written, or 0.
LEMMA LowerIs ==
  ASSUME NEW i, NEW W, NEW v \in Nat
  PROVE  Lower(<<i, v>>, W) = <<i, Largest(Stops(i, W, v))>>
<1> DEFINE d == CHOOSE g : Goes(g, i, W)
           Wrong == {n \in Nat : d[n] # Largest(Stops(i, W, n))}
<1>1. Goes(d, i, W)
  BY GoesExists
<1>2. Lower(<<i, v>>, W) = <<i, d[v]>>
  BY DEF Lower, Goes
<1> HIDE DEF d
<1>3. \A n \in Nat : d[n] = IF <<i, n>> \in W /\ n > 0 THEN d[n - 1] ELSE n
  BY <1>1 DEF Goes
<1>4. Wrong = {}
  <2> SUFFICES ASSUME Wrong # {} PROVE FALSE
    OBVIOUS
  <2>1. Wrong \subseteq Nat
    OBVIOUS
  <2>2. PICK n \in Wrong : \A m \in Wrong : ~(<<m, n>> \in OpToRel(<, Nat))
    <3> HIDE DEF Wrong
    <3> QED BY <2>1, NatLessThanWellFounded, WFMin
  <2>3. \A m \in Nat : m < n => d[m] = Largest(Stops(i, W, m))
    BY <2>2 DEF OpToRel
  <2>4. CASE <<i, n>> \in W /\ n > 0
    <3>1. n - 1 \in Nat /\ n - 1 < n /\ d[n] = d[n - 1]
      BY <1>3, <2>4
    <3>2. d[n - 1] = Largest(Stops(i, W, n - 1))
      BY <2>3, <3>1
    <3>3. Stops(i, W, n) = Stops(i, W, n - 1)
      BY <2>4, StopsFacts
    <3> QED BY <3>1, <3>2, <3>3
  <2>5. CASE ~(<<i, n>> \in W /\ n > 0)
    BY <1>3, <2>5, StopsFacts
  <2> QED BY <2>4, <2>5
<1> QED BY <1>2, <1>4

\* What get_files takes for read was not written in the same scan, but for version 0.
LEMMA ReadsApart ==
  ASSUME NEW c, NEW W, NEW p \in get_reads(c, W),
         \A n \in DOMAIN db : db[n].version \in Nat
  PROVE  p[2] = 0 \/ p \notin W
<1>1. PICK iv \in Versions(c, {{"READ"}}) : p = Lower(iv, W)
  BY DEF get_reads
<1>2. PICK r \in FilePs(c) : iv = <<r.inode, r.version>>
  BY DEF Versions
<1>3. r.version \in Nat
  BY DEF FilePs, RowsOf, Table
<1>4. p = <<r.inode, Largest(Stops(r.inode, W, r.version))>>
  BY <1>1, <1>2, <1>3, LowerIs
<1>5. Largest(Stops(r.inode, W, r.version)) \in Stops(r.inode, W, r.version)
  BY <1>3, StopsFacts
<1> QED BY <1>4, <1>5 DEF Stops

-----------------------------------------------------------------------------
(* neo-tool: what the edges of one activity say together *)

LEMMA SameVersions ==
  ASSUME db' = db
  PROVE  /\ \A c, masks : Versions(c, masks)' = Versions(c, masks)
         /\ \A c : get_writes(c)' = get_writes(c)
         /\ \A c, W : get_reads(c, W)' = get_reads(c, W)
<1>1. \A c, masks : Versions(c, masks)' = Versions(c, masks)
  BY SameTables DEF Versions
<1> QED BY <1>1 DEF get_writes, get_reads

Uses(c, i, v) == Relation(Activity(c), "Used", FileVersion(i, v)) \in neo_edges \cup pending
Gens(c, i, v) == Relation(FileVersion(i, v), "WasGeneratedBy", Activity(c)) \in neo_edges \cup pending

LEMMA RelationFacts ==
  /\ \A a, rel, b : Relation(a, rel, b).rel = rel /\ Relation(a, rel, b).from = a /\ Relation(a, rel, b).to = b
  /\ \A c, d : Activity(c) = Activity(d) => c = d
  /\ \A c : Activity(c)[2] = c
  /\ \A i, v, j, w : FileVersion(i, v) = FileVersion(j, w) => i = j /\ v = w
  /\ \A i, v : FileVersion(i, v)[3] = v
<1>1. \A a, rel, b : Relation(a, rel, b).rel = rel /\ Relation(a, rel, b).from = a /\ Relation(a, rel, b).to = b
  BY DEF Relation
<1>2. \A c : Activity(c)[2] = c
  BY DEF Activity
<1>3. \A i, v : FileVersion(i, v)[2] = i /\ FileVersion(i, v)[3] = v
  BY DEF FileVersion
<1> QED BY <1>1, <1>2, <1>3

Pairs2(S) == \A o \in S : o = <<o[1], o[2]>>

\* Between two steps of any run.
ToolInv ==
  /\ db \in Seq(JoinedRow)
  /\ tool # "neo-tool" => runs = 0
  /\ runs = 0 => neo_edges = {} /\ pending = {} /\ tstep = "off" /\ ends = "none"
  /\ runs \in Nat /\ len1 \in Nat /\ len1 <= Len(db) /\ len0 \in Nat /\ len0 <= Len(db)
  /\ Pairs2(outputs)
  /\ \A e \in neo_edges \cup pending :
       e.rel = "Used" => \E c, i, v : e = Relation(Activity(c), "Used", FileVersion(i, v))

\* A database that has not grown since the first run.
WholeApart ==
  Len(db) = len1 =>
    /\ \A c, i, v : Gens(c, i, v) => <<i, v>> \in get_writes(c)
    /\ \A c, i, v : Uses(c, i, v) /\ <<i, v>> \in get_writes(c) => v = 0
    /\ tstep \in {"reads", "outputs"} => outputs = get_writes(cred)

\* A credential whose files were asked for once at most.
OnceApart ==
  /\ \A c : ScansOf(c) \in Nat
  /\ \A c : ScansOf(c) = 0 => \A i, v : ~Uses(c, i, v) /\ ~Gens(c, i, v)
  /\ \A c : ScansOf(c) <= 1 => \A i, v : Uses(c, i, v) /\ Gens(c, i, v) => v = 0
  /\ tstep \in {"reads", "outputs"} => ScansOf(cred) # 0
  /\ tstep = "reads" /\ ScansOf(cred) <= 1 => \A i, v : ~Uses(cred, i, v) /\ ~Gens(cred, i, v)
  /\ tstep = "outputs" /\ ScansOf(cred) <= 1 =>
       \A i, v : ~Gens(cred, i, v) /\ (Uses(cred, i, v) /\ <<i, v>> \in outputs => v = 0)

\* A step that adds no edge of the two kinds.
LEMMA OtherEdges ==
  ASSUME WholeApart, OnceApart, db' = db, scans' = scans, len1' = len1,
         \A e \in neo_edges' \cup pending' :
           e \in neo_edges \cup pending \/ e.rel \notin {"Used", "WasGeneratedBy"},
         UNCHANGED <<tstep, cred, outputs>> \/ tstep' \notin {"reads", "outputs"}
  PROVE  WholeApart' /\ OnceApart'
<1>1. \A c, i, v : (Uses(c, i, v)' => Uses(c, i, v)) /\ (Gens(c, i, v)' => Gens(c, i, v))
  BY RelationFacts DEF Uses, Gens
<1>2. \A c : ScansOf(c)' = ScansOf(c)
  BY DEF ScansOf
<1>3. CASE UNCHANGED <<tstep, cred, outputs>>
  <2>1. WholeApart'
    BY <1>1, <1>3, SameVersions DEF WholeApart
  <2>2. OnceApart'
    BY <1>1, <1>2, <1>3 DEF OnceApart
  <2> QED BY <2>1, <2>2
<1>4. CASE tstep' \notin {"reads", "outputs"}
  <2>1. WholeApart'
    BY <1>1, <1>4, SameVersions DEF WholeApart
  <2>2. OnceApart'
    BY <1>1, <1>2, <1>4 DEF OnceApart
  <2> QED BY <2>1, <2>2
<1> QED BY <1>3, <1>4

LEMMA SelectWritesApart ==
  ASSUME ToolInv, WholeApart, OnceApart, db' = db, SelectWrites
  PROVE  WholeApart' /\ OnceApart' /\ Pairs2(outputs')
<1>1. /\ tstep = "writes" /\ tstep' = "reads" /\ pending = {} /\ pending' = {}
      /\ neo_edges' = neo_edges /\ len1' = len1 /\ cred' = cred /\ outputs' = get_writes(cred)
  BY DEF SelectWrites, Step, Idle
<1>2. \A c, i, v : (Uses(c, i, v)' <=> Uses(c, i, v)) /\ (Gens(c, i, v)' <=> Gens(c, i, v))
  BY <1>1 DEF Uses, Gens
<1>3. \A c : ScansOf(c)' = ScansOf(c) + (IF c = cred THEN 1 ELSE 0)
  <2> SUFFICES ASSUME NEW c PROVE ScansOf(c)' = ScansOf(c) + (IF c = cred THEN 1 ELSE 0)
    OBVIOUS
  <2>1. scans' = [d \in DOMAIN scans \cup {cred} |->
                    (IF d \in DOMAIN scans THEN scans[d] ELSE 0) + (IF d = cred THEN 1 ELSE 0)]
    BY DEF SelectWrites
  <2>2. CASE c \in DOMAIN scans \cup {cred}
    BY <2>1, <2>2 DEF ScansOf
  <2>3. CASE c \notin DOMAIN scans \cup {cred}
    BY <2>1, <2>3 DEF ScansOf
  <2> QED BY <2>2, <2>3
<1>4. WholeApart'
  BY <1>1, <1>2, SameVersions DEF WholeApart
<1>5. \A c : ScansOf(c) \in Nat /\ ScansOf(c)' \in Nat /\ ScansOf(c) <= ScansOf(c)'
  BY <1>3 DEF OnceApart
<1> PICK k : k = cred
  OBVIOUS
<1>6. (ScansOf(k)' <= 1 => ScansOf(k) = 0) /\ ScansOf(k)' # 0
  BY <1>3, <1>5
<1>7. ScansOf(k)' <= 1 => \A i, v : ~Uses(k, i, v)' /\ ~Gens(k, i, v)'
  BY <1>2, <1>6 DEF OnceApart
<1>8. \A c : ScansOf(c)' = 0 => \A i, v : ~Uses(c, i, v)' /\ ~Gens(c, i, v)'
  BY <1>2, <1>5 DEF OnceApart
<1>9. \A c : ScansOf(c)' <= 1 => \A i, v : Uses(c, i, v)' /\ Gens(c, i, v)' => v = 0
  BY <1>2, <1>5 DEF OnceApart
<1>10. OnceApart'
  <2>1. tstep' = "reads" /\ cred' = k
    BY <1>1
  <2> QED BY <1>5, <1>6, <1>7, <1>8, <1>9, <2>1 DEF OnceApart
<1>11. Pairs2(outputs')
  BY <1>1 DEF Pairs2, get_writes, Versions
<1> QED BY <1>4, <1>10, <1>11

LEMMA SelectReadsApart ==
  ASSUME ToolInv, WholeApart, OnceApart, db' = db, SelectReads
  PROVE  WholeApart' /\ OnceApart'
<1>1. /\ tstep = "reads" /\ tstep' = "outputs" /\ pending = {}
      /\ pending' = {Relation(Activity(cred), "Used", FileVersion(i[1], i[2])) : i \in inputs'}
      /\ inputs' = get_reads(cred, outputs)
      /\ neo_edges' = neo_edges /\ len1' = len1 /\ cred' = cred /\ outputs' = outputs /\ scans' = scans
  BY DEF SelectReads, Step, Idle
<1> PICK k : k = cred
  OBVIOUS
<1>2. \A n \in DOMAIN db : db[n].version \in Nat
  <2>1. \A n \in DOMAIN db : db[n] \in JoinedRow
    BY DEF ToolInv
  <2> QED BY <2>1 DEF JoinedRow
<1>3. \A p \in inputs' : p[2] = 0 \/ p \notin outputs
  BY <1>1, <1>2, ReadsApart
<1>4. \A p \in inputs' : p = <<p[1], p[2]>>
  BY <1>1 DEF get_reads, Lower
<1>5. \A c, i, v : Uses(c, i, v)' => Uses(c, i, v) \/ (c = cred /\ <<i, v>> \in inputs')
  BY <1>1, <1>4, RelationFacts DEF Uses
<1>6. \A c, i, v : Gens(c, i, v)' => Gens(c, i, v)
  BY <1>1, RelationFacts DEF Gens
<1>7. \A c : ScansOf(c)' = ScansOf(c)
  BY <1>1 DEF ScansOf
<1>8. WholeApart'
  <2> SUFFICES ASSUME Len(db) = len1
               PROVE  /\ \A c, i, v : Gens(c, i, v)' => <<i, v>> \in get_writes(c)
                      /\ \A c, i, v : Uses(c, i, v)' /\ <<i, v>> \in get_writes(c) => v = 0
                      /\ outputs = get_writes(cred)
    BY <1>1, SameVersions DEF WholeApart
  <2>1. outputs = get_writes(cred)
    BY <1>1 DEF WholeApart
  <2>2. ASSUME NEW c, NEW i, NEW v, Uses(c, i, v)', <<i, v>> \in get_writes(c) PROVE v = 0
    <3>1. CASE Uses(c, i, v)
      BY <2>2, <3>1 DEF WholeApart
    <3>2. CASE c = cred /\ <<i, v>> \in inputs'
      <4>1. <<i, v>>[2] = 0
        BY <1>3, <2>1, <2>2, <3>2
      <4> QED BY <4>1
    <3> QED BY <1>5, <2>2, <3>1, <3>2
  <2>3. \A c, i, v : Gens(c, i, v)' => <<i, v>> \in get_writes(c)
    BY <1>6 DEF WholeApart
  <2> QED BY <2>1, <2>2, <2>3
<1>9. ASSUME ScansOf(k) <= 1
      PROVE \A i, v : ~Gens(k, i, v)' /\ (Uses(k, i, v)' /\ <<i, v>> \in outputs => v = 0)
  <2>1. \A i, v : ~Uses(k, i, v) /\ ~Gens(k, i, v)
    BY <1>1, <1>9 DEF OnceApart
  <2> SUFFICES ASSUME NEW i, NEW v, Uses(k, i, v)', <<i, v>> \in outputs PROVE v = 0
    BY <1>6, <2>1
  <2>2. <<i, v>> \in inputs'
    BY <1>5, <2>1
  <2>3. <<i, v>>[2] = 0
    BY <1>3, <2>2
  <2> QED BY <2>3
<1>10. ASSUME NEW c, ScansOf(c) <= 1, NEW i, NEW v, Uses(c, i, v)', Gens(c, i, v)' PROVE v = 0
  <2>1. CASE c = k
    BY <1>9, <1>10, <2>1
  <2>2. CASE c # k
    BY <1>5, <1>6, <1>10, <2>2 DEF OnceApart
  <2> QED BY <2>1, <2>2
<1>11. ASSUME NEW c, ScansOf(c) = 0, NEW i, NEW v PROVE ~Uses(c, i, v)' /\ ~Gens(c, i, v)'
  <2>1. c # k
    BY <1>1, <1>11 DEF OnceApart
  <2>2. ~Uses(c, i, v) /\ ~Gens(c, i, v)
    BY <1>11 DEF OnceApart
  <2>3. ~Uses(c, i, v)'
    BY <1>5, <2>1, <2>2
  <2>4. ~Gens(c, i, v)'
    BY <1>6, <2>2
  <2> QED BY <2>3, <2>4
<1>12. OnceApart'
  <2>1. tstep' = "outputs" /\ cred' = k /\ outputs' = outputs /\ ScansOf(k) # 0
    BY <1>1 DEF OnceApart
  <2>2. \A c : ScansOf(c) \in Nat
    BY DEF OnceApart
  <2> QED BY <1>7, <1>9, <1>10, <1>11, <2>1, <2>2 DEF OnceApart
<1> QED BY <1>8, <1>12

LEMMA OutputsApart ==
  ASSUME ToolInv, WholeApart, OnceApart, db' = db, Outputs
  PROVE  WholeApart' /\ OnceApart'
<1>1. /\ tstep = "outputs" /\ tstep' = "next" /\ pending = {}
      /\ pending' = {Relation(FileVersion(o[1], o[2]), "WasGeneratedBy", Activity(cred)) : o \in Chosen}
                      \cup DerivedFrom(Chosen, inputs)
      /\ neo_edges' = neo_edges /\ len1' = len1 /\ cred' = cred /\ outputs' = outputs /\ scans' = scans
  BY DEF Outputs, Step, Idle
<1> PICK k : k = cred
  OBVIOUS
<1>2. Chosen \subseteq outputs
  BY DEF Chosen
<1>3. \A o \in Chosen : o = <<o[1], o[2]>>
  BY <1>2 DEF ToolInv, Pairs2
<1>4. \A e \in DerivedFrom(Chosen, inputs) : e.rel = "WasDerivedFrom"
  BY RelationFacts DEF DerivedFrom
<1>5. \A c, i, v : Gens(c, i, v)' => Gens(c, i, v) \/ (c = k /\ <<i, v>> \in outputs)
  <2> SUFFICES ASSUME NEW c, NEW i, NEW v, Gens(c, i, v)', ~Gens(c, i, v)
               PROVE  c = k /\ <<i, v>> \in outputs
    OBVIOUS
  <2>1. PICK o \in Chosen : Relation(FileVersion(i, v), "WasGeneratedBy", Activity(c))
                             = Relation(FileVersion(o[1], o[2]), "WasGeneratedBy", Activity(cred))
    BY <1>1, <1>4, RelationFacts DEF Gens
  <2>2. FileVersion(i, v) = FileVersion(o[1], o[2]) /\ Activity(c) = Activity(cred)
    BY <2>1, RelationFacts
  <2>3. i = o[1] /\ v = o[2] /\ c = cred
    BY <2>2, RelationFacts
  <2> QED BY <1>2, <1>3, <2>3
<1>6. \A c, i, v : Uses(c, i, v)' => Uses(c, i, v)
  BY <1>1, <1>4, RelationFacts DEF Uses
<1>7. \A c : ScansOf(c)' = ScansOf(c)
  BY <1>1 DEF ScansOf
<1>8. WholeApart'
  <2>1. Len(db) = len1 => outputs = get_writes(k)
    BY <1>1 DEF WholeApart
  <2> QED BY <1>1, <1>5, <1>6, <2>1, SameVersions DEF WholeApart
<1>9. ASSUME NEW c, ScansOf(c) <= 1, NEW i, NEW v, Uses(c, i, v)', Gens(c, i, v)' PROVE v = 0
  <2>1. Uses(c, i, v)
    BY <1>6, <1>9
  <2>2. CASE Gens(c, i, v)
    BY <1>9, <2>1, <2>2 DEF OnceApart
  <2>3. CASE c = k /\ <<i, v>> \in outputs
    BY <1>1, <1>9, <2>1, <2>3 DEF OnceApart
  <2> QED BY <1>5, <1>9, <2>2, <2>3
<1>10. ASSUME NEW c, ScansOf(c) = 0, NEW i, NEW v PROVE ~Uses(c, i, v)' /\ ~Gens(c, i, v)'
  <2>1. c # k
    BY <1>1, <1>10 DEF OnceApart
  <2>2. ~Uses(c, i, v) /\ ~Gens(c, i, v)
    BY <1>10 DEF OnceApart
  <2>3. ~Uses(c, i, v)'
    BY <1>6, <2>2
  <2>4. ~Gens(c, i, v)'
    BY <1>5, <2>1, <2>2
  <2> QED BY <2>3, <2>4
<1>11. OnceApart'
  <2>1. tstep' = "next"
    BY <1>1
  <2>2. \A c : ScansOf(c) \in Nat
    BY DEF OnceApart
  <2> QED BY <1>7, <1>9, <1>10, <2>1, <2>2 DEF OnceApart
<1> QED BY <1>8, <1>11

LEMMA NoEdgesApart == neo_edges = {} /\ pending = {} => \A c, i, v : ~Uses(c, i, v) /\ ~Gens(c, i, v)
  BY DEF Uses, Gens

LEMMA ToolStepApart ==
  ASSUME ToolInv, WholeApart, OnceApart, db' = db, ToolNext
  PROVE  WholeApart' /\ OnceApart'
<1>1. CASE StartTool
  <2>1. /\ neo_edges' = neo_edges /\ pending' = pending /\ scans' = scans /\ cred' = cred
        /\ tstep' \notin {"reads", "outputs"}
        /\ len1' = IF runs = 0 THEN Len(db) ELSE len1
    BY <1>1 DEF StartTool
  <2>2. CASE runs # 0
    BY <2>1, <2>2, OtherEdges
  <2>3. CASE runs = 0
    <3>1. neo_edges' = {} /\ pending' = {}
      BY <2>1, <2>3 DEF ToolInv
    <3>2. \A c, i, v : ~Uses(c, i, v)' /\ ~Gens(c, i, v)'
      BY <3>1 DEF Uses, Gens
    <3>3. \A c : ScansOf(c)' \in Nat
      BY <2>1 DEF OnceApart, ScansOf
    <3> QED BY <2>1, <3>2, <3>3 DEF WholeApart, OnceApart
  <2> QED BY <2>2, <2>3
<1>2. ASSUME NEW t \in todo, Peek(t) PROVE WholeApart' /\ OnceApart'
  <2>1. /\ neo_edges' = neo_edges /\ pending' = pending /\ scans' = scans /\ len1' = len1
        /\ tstep' \notin {"reads", "outputs"}
    BY <1>2 DEF Peek
  <2> QED BY <2>1, OtherEdges
<1>3. ASSUME NEW e \in pending, Merge(e) PROVE WholeApart' /\ OnceApart'
  <2>1. /\ neo_edges' \cup pending' \subseteq neo_edges \cup pending /\ scans' = scans /\ len1' = len1
        /\ UNCHANGED <<tstep, cred, outputs>>
    BY <1>3 DEF Merge
  <2> QED BY <2>1, OtherEdges
<1>4. CASE Forks \/ Associate
  <2>1. /\ \A e \in pending' : e.rel \in {"WasForkedFrom", "WasAssociatedWith"}
        /\ neo_edges' = neo_edges /\ scans' = scans /\ len1' = len1 /\ tstep' \notin {"reads", "outputs"}
    <3>1. CASE Forks
      BY <3>1, RelationFacts DEF Forks, Step
    <3>2. CASE Associate
      BY <3>2, RelationFacts DEF Associate, Step
    <3> QED BY <1>4, <3>1, <3>2
  <2> QED BY <2>1, OtherEdges
<1>5. CASE ScanNext
  <2>1. /\ neo_edges' = neo_edges /\ pending' = pending /\ scans' = scans /\ len1' = len1
        /\ tstep' \notin {"reads", "outputs"}
    BY <1>5 DEF ScanNext, NextCred
  <2> QED BY <2>1, OtherEdges
<1>6. CASE Complete \/ Die \/ Bench \/ KillTool
  <2>1. /\ neo_edges' = neo_edges /\ pending' = {} /\ scans' = scans /\ len1' = len1
        /\ tstep' \notin {"reads", "outputs"}
    BY <1>6 DEF Complete, Die, Bench, KillTool, Stop
  <2> QED BY <2>1, OtherEdges
<1> QED BY <1>1, <1>2, <1>3, <1>4, <1>5, <1>6, SelectWritesApart, SelectReadsApart, OutputsApart DEF ToolNext

LEMMA UsedForm ==
  ASSUME ToolInv,
         \A e \in neo_edges' \cup pending' : e \in neo_edges \cup pending \/ e.rel # "Used"
            \/ \E c, i, v : e = Relation(Activity(c), "Used", FileVersion(i, v))
  PROVE  \A e \in neo_edges' \cup pending' :
           e.rel = "Used" => \E c, i, v : e = Relation(Activity(c), "Used", FileVersion(i, v))
  BY DEF ToolInv

LEMMA ToolStepInv ==
  ASSUME ToolInv, WholeApart, OnceApart, db' = db, tool' = tool, tool = "neo-tool", ToolNext
  PROVE  ToolInv'
<1>1. /\ runs' \in Nat /\ len1' \in Nat /\ len1' <= Len(db) /\ len0' \in Nat /\ len0' <= Len(db)
      /\ runs' # 0
  <2>1. CASE StartTool
    <3>1. Len(db) \in Nat
      BY DEF ToolInv
    <3> QED BY <2>1, <3>1 DEF StartTool, ToolInv
  <2>2. CASE ~StartTool
    <3>1. UNCHANGED <<runs, len0, len1>> /\ (tstep # "off" \/ pending # {})
      BY <2>2 DEF ToolNext, Peek, Merge, Forks, Associate, SelectWrites, SelectReads, Outputs, Step,
                  ScanNext, Complete, Die, Bench, KillTool, Stop
    <3> QED BY <3>1 DEF ToolInv
  <2> QED BY <2>1, <2>2
<1>2. Pairs2(outputs')
  <2>1. CASE SelectWrites
    BY <2>1, SelectWritesApart
  <2>2. CASE ~SelectWrites
    <3>1. outputs' = outputs \/ outputs' = {}
      BY <2>2 DEF ToolNext, StartTool, Peek, Merge, Forks, Associate, SelectReads, Outputs, Step,
                  ScanNext, NextCred, Complete, Die, Bench, KillTool, Stop
    <3> QED BY <3>1 DEF ToolInv, Pairs2
  <2> QED BY <2>1, <2>2
<1>3. \A e \in neo_edges' \cup pending' : e \in neo_edges \cup pending \/ e.rel # "Used"
            \/ \E c, i, v : e = Relation(Activity(c), "Used", FileVersion(i, v))
  <2>1. CASE Forks
    BY <2>1, RelationFacts DEF Forks, Step
  <2>2. CASE Associate
    BY <2>2, RelationFacts DEF Associate, Step
  <2>3. CASE SelectReads
    BY <2>3 DEF SelectReads, Step
  <2>4. CASE Outputs
    BY <2>4, RelationFacts DEF Outputs, Step, DerivedFrom
  <2>5. CASE ~(Forks \/ Associate \/ SelectReads \/ Outputs)
    <3>1. neo_edges' \cup pending' \subseteq neo_edges \cup pending
      BY <2>5 DEF ToolNext, StartTool, Peek, Merge, SelectWrites, Step,
                  ScanNext, Complete, Die, Bench, KillTool, Stop
    <3> QED BY <3>1
  <2> QED BY <2>1, <2>2, <2>3, <2>4, <2>5
<1>4. \A e \in neo_edges' \cup pending' :
        e.rel = "Used" => \E c, i, v : e = Relation(Activity(c), "Used", FileVersion(i, v))
  BY <1>3, UsedForm
<1> QED BY <1>1, <1>2, <1>4 DEF ToolInv

\* Each step is one of neo-tool, a row of pg_provd's, or none of its business.
LEMMA StepsOfTool ==
  ASSUME [ReaderNext]_readerVars
  PROVE  \/ tool = "neo-tool" /\ ToolNext /\ db' = db /\ tool' = tool
         \/ UNCHANGED <<tool, db, toolVars>>
         \/ tool = "neo-tool" /\ UNCHANGED <<tool, toolVars>> /\ \E row \in Accesses : db' = Append(db, row)
<1>1. CASE UNCHANGED readerVars
  BY <1>1 DEF readerVars
<1>2. CASE LinkStep \/ Import_pkl \/ QueryStep
  BY <1>2 DEF LinkStep, Import_pkl, QueryStep
<1>3. CASE ToolStep
  BY <1>3 DEF ToolStep
<1>4. CASE Commit
  BY <1>4 DEF Commit
<1> QED BY <1>1, <1>2, <1>3, <1>4 DEF ReaderNext

LEMMA InitTool == ReaderInit => ToolInv /\ WholeApart /\ OnceApart
<1> SUFFICES ASSUME ReaderInit PROVE ToolInv /\ WholeApart /\ OnceApart
  OBVIOUS
<1>1. /\ tstep = "off" /\ ends = "none" /\ outputs = {} /\ neo_edges = {} /\ pending = {}
      /\ runs = 0 /\ len0 = 0 /\ len1 = 0 /\ scans = <<>>
  BY DEF ReaderInit, ToolInit
<1>2. db \in Seq(JoinedRow)
  BY DatabaseAssumption DEF ReaderInit
<1>3. Len(db) \in Nat
  BY <1>2
<1>4. ToolInv
  BY <1>1, <1>2, <1>3 DEF ToolInv, Pairs2
<1>5. \A c : ScansOf(c) \in Nat
  BY <1>1 DEF ScansOf
<1> QED BY <1>1, <1>4, <1>5, NoEdgesApart DEF WholeApart, OnceApart

LEMMA StepTool ==
  ASSUME ToolInv, WholeApart, OnceApart, [ReaderNext]_readerVars
  PROVE  ToolInv' /\ WholeApart' /\ OnceApart'
<1>1. CASE tool = "neo-tool" /\ ToolNext /\ db' = db /\ tool' = tool
  BY <1>1, ToolStepInv, ToolStepApart
<1>2. CASE UNCHANGED <<tool, db, toolVars>>
  <2>1. /\ neo_edges' = neo_edges /\ pending' = pending /\ scans' = scans /\ len1' = len1 /\ db' = db
        /\ tstep' = tstep /\ cred' = cred /\ outputs' = outputs /\ tool' = tool /\ runs' = runs
        /\ ends' = ends /\ len0' = len0
    BY <1>2 DEF toolVars
  <2>2. WholeApart' /\ OnceApart'
    BY <2>1, OtherEdges
  <2> QED BY <2>1, <2>2 DEF ToolInv, Pairs2
<1>3. ASSUME NEW row \in Accesses, db' = Append(db, row), UNCHANGED <<tool, toolVars>>, tool = "neo-tool"
      PROVE  ToolInv' /\ WholeApart' /\ OnceApart'
  <2>1. /\ neo_edges' = neo_edges /\ pending' = pending /\ scans' = scans /\ len1' = len1
        /\ tstep' = tstep /\ cred' = cred /\ outputs' = outputs /\ tool' = tool /\ runs' = runs
        /\ ends' = ends /\ len0' = len0
    BY <1>3 DEF toolVars
  <2>2. row \in JoinedRow
    BY DatabaseAssumption
  <2>3. db' \in Seq(JoinedRow) /\ Len(db') = Len(db) + 1 /\ Len(db) \in Nat
    BY <1>3, <2>2 DEF ToolInv
  <2>4. ToolInv'
    BY <1>3, <2>1, <2>3 DEF ToolInv, Pairs2
  <2>5. Len(db') # len1'
    BY <2>1, <2>3 DEF ToolInv
  <2>6. WholeApart'
    BY <2>5 DEF WholeApart
  <2>7. \A c, i, v : (Uses(c, i, v)' <=> Uses(c, i, v)) /\ (Gens(c, i, v)' <=> Gens(c, i, v))
    BY <2>1 DEF Uses, Gens
  <2>8. \A c : ScansOf(c)' = ScansOf(c)
    BY <2>1 DEF ScansOf
  <2>9. OnceApart'
    BY <2>1, <2>7, <2>8 DEF OnceApart
  <2> QED BY <2>4, <2>6, <2>9
<1> QED BY <1>1, <1>2, <1>3, StepsOfTool

\* neo-tool: used and generated by one activity is only the version 0 of a file,
\* in every interleaving with pg_provd's commits, after kills and in further runs;
\* but for a credential scanned again in a database that has grown.
THEOREM ActivitiesHaveNoCycles == ReaderSpec => []CyclesOnlyAtZero
<1> DEFINE Inv == ToolInv /\ WholeApart /\ OnceApart
<1>1. ReaderInit => Inv
  BY InitTool
<1>2. Inv /\ [ReaderNext]_readerVars => Inv'
  BY StepTool
<1>3. Inv => CyclesOnlyAtZero
  <2> SUFFICES ASSUME Inv, NEW e \in neo_edges, e.rel = "Used",
                      Relation(e.to, "WasGeneratedBy", e.from) \in neo_edges
               PROVE  e.to[3] = 0 \/ (ScansOf(e.from[2]) > 1 /\ Len(db) > len1)
    BY DEF CyclesOnlyAtZero
  <2>1. PICK c, i, v : e = Relation(Activity(c), "Used", FileVersion(i, v))
    BY DEF ToolInv
  <2>2. e.to = FileVersion(i, v) /\ e.from = Activity(c) /\ e.to[3] = v /\ e.from[2] = c
    BY <2>1, RelationFacts
  <2>3. Uses(c, i, v) /\ Gens(c, i, v)
    BY <2>1, <2>2 DEF Uses, Gens
  <2>4. CASE Len(db) = len1
    BY <2>2, <2>3, <2>4 DEF WholeApart
  <2>5. CASE ScansOf(c) <= 1
    BY <2>2, <2>3, <2>5 DEF OnceApart
  <2>6. ScansOf(c) \in Nat /\ Len(db) \in Nat /\ len1 \in Nat /\ len1 <= Len(db)
    BY DEF OnceApart, ToolInv
  <2> QED BY <2>2, <2>4, <2>5, <2>6
<1> HIDE DEF Inv
<1> QED BY <1>1, <1>2, <1>3, PTL DEF ReaderSpec

-----------------------------------------------------------------------------
(* neo-tool: what a run leaves *)

ForkPart(c)       == {Relation(Activity(d), "WasForkedFrom", Activity(c)) : d \in get_credforks(c)}
AgentPart(c, us)  == {Relation(Activity(c), "WasAssociatedWith", AgentNode(u)) : u \in us}
UsedPart(c, ins)  == {Relation(Activity(c), "Used", FileVersion(i[1], i[2])) : i \in ins}
GenPart(c, outs)  == {Relation(FileVersion(o[1], o[2]), "WasGeneratedBy", Activity(c)) : o \in outs}
FilePart(c, outs, ins) == UsedPart(c, ins) \cup GenPart(c, outs) \cup DerivedFrom(outs, ins)
ReadsOf(c) == get_reads(c, get_writes(c))
UsedOf(c)  == UsedPart(c, ReadsOf(c))
FilesOf(c) == FilePart(c, get_writes(c), ReadsOf(c))
Told(c, us) == ForkPart(c) \cup AgentPart(c, us) \cup FilesOf(c)

LEMMA SaysIs ==
  ASSUME \A n \in DOMAIN db : db[n].version \in Nat
  PROVE  \A c, us : Says(c, us) = Told(c, us)
<1> SUFFICES ASSUME NEW c, NEW us PROVE Says(c, us) = Told(c, us)
  OBVIOUS
<1> DEFINE W == get_writes(c)
           below(r) == {v \in 0..r.version : v = 0 \/ <<r.inode, v>> \notin W}
           R == {<<r.inode, Largest(below(r))>> : r \in {x \in FilePs(c) : x.mask = {"READ"}}}
<1>1. W = {<<r.inode, r.version>> : r \in {x \in FilePs(c) : x.mask \in {{"WRITE"}, {"APPEND"}}}}
  BY DEF get_writes, Versions
<1>2. Says(c, us) = ForkPart(c) \cup AgentPart(c, us) \cup UsedPart(c, R) \cup GenPart(c, W) \cup DerivedFrom(W, R)
  BY <1>1 DEF Says, ForkPart, AgentPart, UsedPart, GenPart
<1> HIDE DEF W
<1>3. \A r \in FilePs(c) : r.version \in Nat
  BY DEF FilePs, RowsOf, Table
<1>4. \A r \in FilePs(c) : Lower(<<r.inode, r.version>>, W) = <<r.inode, Largest(below(r))>>
  BY <1>3, LowerIs DEF Stops
<1>5. get_reads(c, W) = {Lower(<<r.inode, r.version>>, W) : r \in {x \in FilePs(c) : x.mask = {"READ"}}}
  BY DEF get_reads, Versions
<1>6. get_reads(c, W) = R
  <2> HIDE DEF below
  <2> QED BY <1>4, <1>5
<1> QED BY <1>2, <1>6 DEF Told, FilesOf, ReadsOf, FilePart, W

LEMMA SameSetids ==
  ASSUME db' = db
  PROVE  \A c : get_setids(c)' = get_setids(c)
<1>1. NoSetid' = NoSetid
  BY SameTables DEF NoSetid
<1> SUFFICES ASSUME NEW c PROVE get_setids(c)' = get_setids(c)
  OBVIOUS
<1> DEFINE path == WalkBack({c}, NoSetid)
           seen == UNION {Parents(d) : d \in path}
           told == {s \in seen : Setids(s) # {}}
<1>2. path' = path
  BY <1>1, SameWalk
<1>3. seen' = seen
  BY <1>2, SameTables
<1> HIDE DEF path, seen
<1>4. told' = told
  BY <1>3, SameTables
<1> HIDE DEF told
<1>5. {LatestUid(p)' : p \in told'} = {LatestUid(p) : p \in told}
  BY <1>4, SameUid
<1>6. get_setids(c) = IF Setids(c) # {} THEN {LatestUid(c)} ELSE {LatestUid(p) : p \in told}
  BY DEF get_setids, told, seen, path
<1>7. get_setids(c)' = IF Setids(c)' # {} THEN {LatestUid(c)'} ELSE {LatestUid(p)' : p \in told'}
  BY DEF get_setids, told, seen, path
<1> QED BY <1>5, <1>6, <1>7, SameTables, SameUid

LEMMA SameTold ==
  ASSUME db' = db
  PROVE  /\ Scannable' = Scannable /\ Provids' = Provids
         /\ \A c : ForkPart(c)' = ForkPart(c) /\ get_setids(c)' = get_setids(c)
         /\ \A c : get_writes(c)' = get_writes(c) /\ ReadsOf(c)' = ReadsOf(c)
         /\ \A c : UsedOf(c)' = UsedOf(c) /\ FilesOf(c)' = FilesOf(c)
         /\ \A c, us : AgentPart(c, us)' = AgentPart(c, us) /\ Told(c, us)' = Told(c, us)
<1>1. \A c : get_credforks(c)' = get_credforks(c)
  BY SameTables DEF get_credforks
<1>2. \A c : ForkPart(c)' = ForkPart(c)
  BY <1>1 DEF ForkPart
<1>3. Scannable' = Scannable /\ Provids' = Provids
  BY SameTables DEF Scannable, Provids
<1>4. \A c, us : AgentPart(c, us)' = AgentPart(c, us)
  BY DEF AgentPart
<1>5. \A c : get_writes(c)' = get_writes(c)
  BY SameVersions
<1>6. ASSUME NEW c PROVE ReadsOf(c)' = ReadsOf(c)
  BY <1>5, SameVersions DEF ReadsOf
<1>7. ASSUME NEW c PROVE UsedOf(c)' = UsedOf(c)
  <2>1. UsedOf(c)' = UsedPart(c, ReadsOf(c)')
    BY DEF UsedOf, UsedPart
  <2> QED BY <1>6, <2>1 DEF UsedOf
<1>8. ASSUME NEW c PROVE FilesOf(c)' = FilesOf(c)
  <2>1. FilesOf(c)' = FilePart(c, get_writes(c)', ReadsOf(c)')
    BY DEF FilesOf, FilePart, UsedPart, GenPart, DerivedFrom
  <2> QED BY <1>5, <1>6, <2>1 DEF FilesOf
<1>9. ASSUME NEW c, NEW us PROVE Told(c, us)' = Told(c, us)
  BY <1>2, <1>4, <1>8 DEF Told
<1> QED BY <1>2, <1>3, <1>4, <1>5, <1>6, <1>7, <1>8, <1>9, SameSetids

InHand   == tstep \in {"forks", "agent", "writes", "reads", "outputs", "next"}
AllEdges == neo_edges \cup pending
Done(c)  == \E u \in get_setids(c) : Told(c, {u}) \subseteq neo_edges

\* What the steps behind it have told of the credential in hand.
SoFar(c) ==
  /\ tstep # "forks" => ForkPart(c) \subseteq AllEdges
  /\ tstep \notin {"forks", "agent"} => \E u \in get_setids(c) : AgentPart(c, {u}) \subseteq AllEdges
  /\ tstep \in {"outputs", "next"} => UsedOf(c) \subseteq AllEdges
  /\ tstep = "next" => FilesOf(c) \subseteq AllEdges

\* While no row came since this run began, what it holds is of the database.
InHandFresh ==
  Len(db) = len0 => \A c : InHand /\ cred = c =>
    /\ c \in Scannable
    /\ tstep \in {"reads", "outputs", "next"} => outputs = get_writes(c)
    /\ tstep \in {"outputs", "next"} => inputs = ReadsOf(c)

\* A run over all credentials passes over none.
NonePassed ==
  Len(db) = len0 /\ option[1] = "all" =>
    /\ \A t \in todo : t = <<t[2], t[2]>>
    /\ \A c : InHand /\ cred = c => SoFar(c)
    /\ tstep = "scan" \/ InHand =>
         \A c \in Scannable : <<c, c>> \in todo \/ (InHand /\ cred = c) \/ Done(c)
    /\ ends = "complete" => \A c \in Scannable : Done(c)

\* The graph of a database that never changed.
OnlyTold ==
  Len(db) = len1 => \A e \in AllEdges : \E c \in Scannable : e \in Told(c, get_setids(c))

RepairInv == len1 <= len0 /\ InHandFresh /\ NonePassed /\ OnlyTold

\* A step that tells nothing and goes on with the same credential.
LEMMA QuietStep ==
  ASSUME RepairInv, db' = db, UNCHANGED <<tstep, option, todo, cred, outputs, inputs, ends, len0, len1>>,
         AllEdges' = AllEdges, neo_edges \subseteq neo_edges'
  PROVE  RepairInv'
<1>1. \A c : (Done(c) => Done(c)') /\ (SoFar(c) => SoFar(c)')
  BY SameTold DEF Done, SoFar
<1>2. InHand' <=> InHand
  BY DEF InHand
<1>3. InHandFresh'
  BY <1>2, SameTold DEF RepairInv, InHandFresh
<1>4. NonePassed'
  BY <1>1, <1>2, SameTold DEF RepairInv, NonePassed
<1>5. OnlyTold'
  BY SameTold DEF RepairInv, OnlyTold
<1> QED BY <1>3, <1>4, <1>5 DEF RepairInv

\* A statement of scan_pg_cred that tells some edges of the credential in hand.
LEMMA TellingStep ==
  ASSUME ToolInv, RepairInv, db' = db, NEW from, NEW to, NEW edges, Step(from, to, edges), InHand, InHand',
         Len(db) = len0 => \A c : cred = c =>
           /\ tstep' \in {"reads", "outputs", "next"} => outputs' = get_writes(c)
           /\ tstep' \in {"outputs", "next"} => inputs' = ReadsOf(c)
           /\ edges \subseteq Told(c, get_setids(c)),
         Len(db) = len0 /\ option[1] = "all" => \A c : cred = c => SoFar(c)'
  PROVE  RepairInv'
<1>1. /\ UNCHANGED <<option, todo, cred, neo_edges, ends, len0, len1>>
      /\ AllEdges = neo_edges /\ AllEdges' = AllEdges \cup edges
  BY DEF Step, Idle, AllEdges
<1>2. \A c : Done(c)' <=> Done(c)
  BY <1>1, SameTold DEF Done
<1>3. InHandFresh'
  BY <1>1, SameTold DEF RepairInv, InHandFresh
<1>4. NonePassed'
  BY <1>1, <1>2, SameTold DEF RepairInv, NonePassed
<1>5. OnlyTold'
  <2> SUFFICES ASSUME Len(db) = len1, NEW e \in AllEdges'
               PROVE  \E c \in Scannable : e \in Told(c, get_setids(c))
    BY <1>1, SameTold DEF OnlyTold
  <2>1. CASE e \in AllEdges
    BY <2>1 DEF RepairInv, OnlyTold
  <2>2. CASE e \in edges
    <3>1. Len(db) = len0
      BY DEF RepairInv, ToolInv
    <3>2. PICK c : c = cred
      OBVIOUS
    <3>3. c \in Scannable
      BY <3>1, <3>2 DEF RepairInv, InHandFresh
    <3> QED BY <2>2, <3>1, <3>2, <3>3
  <2> QED BY <1>1, <2>1, <2>2
<1> QED BY <1>1, <1>3, <1>4, <1>5 DEF RepairInv

LEMMA ForksRepair ==
  ASSUME ToolInv, RepairInv, db' = db, Forks
  PROVE  RepairInv'
<1> PICK k : k = cred
  OBVIOUS
<1> DEFINE edges == {Relation(Activity(d), "WasForkedFrom", Activity(cred)) : d \in get_credforks(cred)}
<1>1. Step("forks", "agent", edges) /\ edges = ForkPart(k)
  BY DEF Forks, ForkPart
<1>2. tstep = "forks" /\ tstep' = "agent" /\ InHand /\ InHand' /\ AllEdges' = neo_edges \cup edges
  BY <1>1 DEF Step, InHand, AllEdges
<1>3. edges \subseteq Told(k, get_setids(k))
  BY <1>1 DEF Told
<1>4. SoFar(k)'
  BY <1>1, <1>2, SameTold DEF SoFar
<1> HIDE DEF edges
<1> QED BY <1>1, <1>2, <1>3, <1>4, TellingStep

LEMMA AssociateRepair ==
  ASSUME ToolInv, RepairInv, db' = db, Associate
  PROVE  RepairInv'
<1> PICK k : k = cred
  OBVIOUS
<1>0. PICK u \in get_setids(k) :
        Step("agent", "writes", {Relation(Activity(cred), "WasAssociatedWith", AgentNode(u))})
  BY DEF Associate
<1> DEFINE edges == AgentPart(k, {u})
<1>1. Step("agent", "writes", edges)
  BY <1>0 DEF AgentPart
<1>2. tstep = "agent" /\ tstep' = "writes" /\ InHand /\ InHand'
      /\ AllEdges = neo_edges /\ AllEdges' = neo_edges \cup edges
  BY <1>1 DEF Step, InHand, AllEdges, Idle
<1>3. edges \subseteq Told(k, get_setids(k))
  BY DEF Told, AgentPart
<1>4. Len(db) = len0 /\ option[1] = "all" => SoFar(k)'
  <2> SUFFICES ASSUME Len(db) = len0 /\ option[1] = "all" PROVE SoFar(k)'
    OBVIOUS
  <2>1. ForkPart(k) \subseteq AllEdges
    BY <1>2 DEF RepairInv, NonePassed, SoFar
  <2>2. ForkPart(k)' = ForkPart(k) /\ get_setids(k)' = get_setids(k) /\ AgentPart(k, {u})' = AgentPart(k, {u})
    BY SameTold
  <2>3. ForkPart(k) \subseteq AllEdges' /\ AgentPart(k, {u}) \subseteq AllEdges'
    BY <1>2, <2>1
  <2>4. \E w \in get_setids(k)' : AgentPart(k, {w})' \subseteq AllEdges'
    BY <2>2, <2>3
  <2> QED BY <1>2, <2>2, <2>3, <2>4 DEF SoFar
<1> HIDE DEF edges
<1> QED BY <1>1, <1>2, <1>3, <1>4, TellingStep

LEMMA SelectWritesRepair ==
  ASSUME ToolInv, RepairInv, db' = db, SelectWrites
  PROVE  RepairInv'
<1> PICK k : k = cred
  OBVIOUS
<1>1. Step("writes", "reads", {}) /\ outputs' = get_writes(k)
  BY DEF SelectWrites
<1>2. tstep = "writes" /\ tstep' = "reads" /\ InHand /\ InHand' /\ AllEdges' = AllEdges
  BY <1>1 DEF Step, InHand, AllEdges, Idle
<1>4. Len(db) = len0 /\ option[1] = "all" => SoFar(k)'
  BY <1>2, SameTold DEF RepairInv, NonePassed, SoFar
<1> QED BY <1>1, <1>2, <1>4, TellingStep

LEMMA SelectReadsRepair ==
  ASSUME ToolInv, RepairInv, db' = db, SelectReads
  PROVE  RepairInv'
<1> PICK k : k = cred
  OBVIOUS
<1> DEFINE edges == UsedPart(k, inputs')
<1>1. Step("reads", "outputs", edges) /\ inputs' = get_reads(k, outputs) /\ outputs' = outputs
  BY DEF SelectReads, UsedPart
<1>2. /\ tstep = "reads" /\ tstep' = "outputs" /\ InHand /\ InHand'
      /\ AllEdges = neo_edges /\ AllEdges' = neo_edges \cup edges
  BY <1>1 DEF Step, InHand, AllEdges, Idle
<1>3. Len(db) = len0 => /\ outputs' = get_writes(k) /\ inputs' = ReadsOf(k)
                        /\ edges = UsedOf(k) /\ edges \subseteq Told(k, get_setids(k))
  BY <1>1, <1>2 DEF RepairInv, InHandFresh, ReadsOf, UsedOf, Told, FilesOf, FilePart
<1>4. Len(db) = len0 /\ option[1] = "all" => SoFar(k)'
  BY <1>2, <1>3, SameTold DEF RepairInv, NonePassed, SoFar
<1> HIDE DEF edges
<1> QED BY <1>1, <1>2, <1>3, <1>4, TellingStep

LEMMA OutputsRepair ==
  ASSUME ToolInv, RepairInv, db' = db, Outputs
  PROVE  RepairInv'
<1> PICK k : k = cred
  OBVIOUS
<1> DEFINE edges == GenPart(k, Chosen) \cup DerivedFrom(Chosen, inputs)
<1>1. Step("outputs", "next", edges) /\ inputs' = inputs /\ outputs' = outputs
  BY DEF Outputs, GenPart
<1>2. /\ tstep = "outputs" /\ tstep' = "next" /\ InHand /\ InHand'
      /\ AllEdges = neo_edges /\ AllEdges' = neo_edges \cup edges
  BY <1>1 DEF Step, InHand, AllEdges, Idle
<1>3. Len(db) = len0 => outputs = get_writes(k) /\ inputs = ReadsOf(k)
  BY <1>2 DEF RepairInv, InHandFresh
<1>4. Chosen \subseteq outputs /\ (option[1] = "all" => Chosen = outputs)
  BY DEF Chosen
<1>5. Len(db) = len0 => edges \subseteq Told(k, get_setids(k))
  BY <1>3, <1>4 DEF Told, FilesOf, FilePart, GenPart, DerivedFrom
<1>6. Len(db) = len0 /\ option[1] = "all" => SoFar(k)'
  <2> SUFFICES ASSUME Len(db) = len0 /\ option[1] = "all" PROVE SoFar(k)'
    OBVIOUS
  <2>1. SoFar(k)
    BY <1>2 DEF RepairInv, NonePassed
  <2>2. UsedOf(k) \subseteq AllEdges /\ FilesOf(k) \subseteq AllEdges \cup edges
    BY <1>2, <1>3, <1>4, <2>1 DEF SoFar, FilesOf, FilePart, UsedOf
  <2> HIDE DEF edges
  <2> QED BY <1>2, <2>1, <2>2, SameTold DEF SoFar
<1> HIDE DEF edges
<1> QED BY <1>1, <1>2, <1>3, <1>5, <1>6, TellingStep

LEMMA StartRepair ==
  ASSUME ToolInv, RepairInv, db' = db, StartTool
  PROVE  RepairInv'
<1>1. /\ tstep' \in {"scan", "bench"} /\ ends' = "none" /\ neo_edges' = neo_edges /\ pending' = pending
      /\ len0' = Len(db) /\ len1' = (IF runs = 0 THEN Len(db) ELSE len1)
      /\ todo' = Listed(option')
  BY DEF StartTool
<1>2. len1' <= len0'
  BY <1>1 DEF ToolInv
<1>3. ~InHand'
  BY <1>1 DEF InHand
<1>4. InHandFresh'
  BY <1>3 DEF InHandFresh
<1>5. NonePassed'
  <2>1. option'[1] = "all" => todo' = {<<c, c>> : c \in Provids}
    BY <1>1 DEF Listed
  <2>2. Scannable \subseteq Provids
    BY DEF Scannable, Provids
  <2>3. Scannable' = Scannable
    BY SameTold
  <2> QED BY <1>1, <1>3, <2>1, <2>2, <2>3 DEF NonePassed
<1>6. OnlyTold'
  <2>1. CASE runs = 0
    BY <1>1, <2>1 DEF ToolInv, OnlyTold, AllEdges
  <2>2. CASE runs # 0
    <3>1. AllEdges' = AllEdges
      BY <1>1 DEF AllEdges
    <3> QED BY <1>1, <2>2, <3>1, SameTold DEF RepairInv, OnlyTold
  <2> QED BY <2>1, <2>2
<1> QED BY <1>2, <1>4, <1>5, <1>6 DEF RepairInv

LEMMA PeekRepair ==
  ASSUME ToolInv, RepairInv, db' = db, NEW t \in todo, Peek(t)
  PROVE  RepairInv'
<1>1. /\ tstep = "scan" /\ todo' = todo \ {t}
      /\ UNCHANGED <<option, outputs, inputs, pending, neo_edges, ends, len0, len1>>
      /\ AllEdges' = AllEdges /\ ~InHand
  BY DEF Peek, AllEdges, InHand
<1>2. CASE Execs(t[2]) = {}
  <2>1. tstep' = "scan" /\ cred' = cred /\ ~InHand'
    BY <1>1, <1>2 DEF Peek, InHand
  <2>2. t[2] \notin Scannable
    BY <1>2 DEF Scannable
  <2>3. InHandFresh'
    BY <2>1 DEF InHandFresh
  <2>4. \A c : Done(c)' <=> Done(c)
    BY <1>1, SameTold DEF Done
  <2>5. NonePassed'
    BY <1>1, <2>1, <2>2, <2>4, SameTold DEF RepairInv, NonePassed
  <2>6. OnlyTold'
    BY <1>1, SameTold DEF RepairInv, OnlyTold
  <2> QED BY <1>1, <2>3, <2>5, <2>6 DEF RepairInv
<1>3. CASE Execs(t[2]) # {}
  <2>1. tstep' = "forks" /\ cred' = t[2] /\ InHand'
    BY <1>3 DEF Peek, InHand
  <2>2. t[2] \in Scannable /\ (Len(db) = len0 /\ option[1] = "all" => t = <<t[2], t[2]>>)
    BY <1>3 DEF RepairInv, NonePassed, Scannable, Execs, RowsOf, Table
  <2>3. InHandFresh'
    BY <2>1, <2>2, SameTold DEF InHandFresh
  <2>4. \A c : Done(c)' <=> Done(c)
    BY <1>1, SameTold DEF Done
  <2>5. NonePassed'
    BY <1>1, <2>1, <2>2, <2>4, SameTold DEF RepairInv, NonePassed, SoFar
  <2>6. OnlyTold'
    BY <1>1, SameTold DEF RepairInv, OnlyTold
  <2> QED BY <1>1, <2>3, <2>5, <2>6 DEF RepairInv
<1> QED BY <1>2, <1>3

LEMMA ScanNextRepair ==
  ASSUME ToolInv, RepairInv, db' = db, ScanNext
  PROVE  RepairInv'
<1> PICK k : k = cred
  OBVIOUS
<1>1. /\ tstep = "next" /\ tstep' = "scan" /\ pending = {} /\ InHand /\ ~InHand'
      /\ UNCHANGED <<todo, option, pending, neo_edges, ends, len0, len1>>
      /\ AllEdges = neo_edges /\ AllEdges' = AllEdges
  BY DEF ScanNext, NextCred, Idle, AllEdges, InHand
<1>2. InHandFresh'
  BY <1>1 DEF InHandFresh
<1>3. \A c : Done(c)' <=> Done(c)
  BY <1>1, SameTold DEF Done
<1>4. Len(db) = len0 /\ option[1] = "all" => Done(k)
  <2> SUFFICES ASSUME Len(db) = len0, option[1] = "all" PROVE Done(k)
    OBVIOUS
  <2>1. SoFar(k)
    BY <1>1 DEF RepairInv, NonePassed
  <2>2. PICK u \in get_setids(k) : AgentPart(k, {u}) \subseteq neo_edges
    BY <1>1, <2>1 DEF SoFar
  <2>3. ForkPart(k) \subseteq neo_edges /\ FilesOf(k) \subseteq neo_edges
    BY <1>1, <2>1 DEF SoFar
  <2> QED BY <2>2, <2>3 DEF Done, Told
<1>5. NonePassed'
  BY <1>1, <1>3, <1>4, SameTold DEF RepairInv, NonePassed
<1>6. OnlyTold'
  BY <1>1, SameTold DEF RepairInv, OnlyTold
<1> QED BY <1>1, <1>2, <1>5, <1>6 DEF RepairInv

LEMMA StopRepair ==
  ASSUME ToolInv, RepairInv, db' = db, Complete \/ Die \/ Bench \/ KillTool
  PROVE  RepairInv'
<1>1. /\ tstep' = "off" /\ todo' = {} /\ ~InHand' /\ UNCHANGED <<option, neo_edges, len0, len1>>
      /\ AllEdges' \subseteq AllEdges
      /\ ends' = "complete" => tstep = "scan" /\ todo = {} /\ ~InHand
  BY DEF Complete, Die, Bench, KillTool, Stop, InHand, AllEdges
<1>2. InHandFresh'
  BY <1>1 DEF InHandFresh
<1>3. \A c : Done(c)' <=> Done(c)
  BY <1>1, SameTold DEF Done
<1>4. NonePassed'
  BY <1>1, <1>3, SameTold DEF RepairInv, NonePassed
<1>5. OnlyTold'
  BY <1>1, SameTold DEF RepairInv, OnlyTold
<1> QED BY <1>1, <1>2, <1>4, <1>5 DEF RepairInv

LEMMA RepairStep ==
  ASSUME ToolInv, RepairInv, [ReaderNext]_readerVars
  PROVE  RepairInv'
<1>1. CASE tool = "neo-tool" /\ ToolNext /\ db' = db /\ tool' = tool
  <2>1. ASSUME NEW e \in pending, Merge(e) PROVE RepairInv'
    BY <1>1, <2>1, QuietStep DEF Merge, AllEdges
  <2> QED BY <1>1, <2>1, StartRepair, PeekRepair, ForksRepair, AssociateRepair, SelectWritesRepair,
             SelectReadsRepair, OutputsRepair, ScanNextRepair, StopRepair DEF ToolNext
<1>2. CASE UNCHANGED <<tool, db, toolVars>>
  BY <1>2, QuietStep DEF toolVars, AllEdges
<1>3. ASSUME NEW row \in Accesses, db' = Append(db, row), UNCHANGED <<tool, toolVars>>
      PROVE  RepairInv'
  <2>1. Len(db') > len0' /\ Len(db') > len1' /\ len1' <= len0'
    BY <1>3 DEF ToolInv, RepairInv, toolVars
  <2> QED BY <2>1 DEF RepairInv, InHandFresh, NonePassed, OnlyTold, ToolInv
<1> QED BY <1>1, <1>2, <1>3, StepsOfTool

\* neo-tool: after kills, deaths in get_setids and runs for one credential or one
\* file, a run over all credentials leaves the whole graph of a database that did not
\* change meanwhile; and only that graph, if the database never changed.
THEOREM RepeatedRunsRepair == ReaderSpec => []RerunRepairs
<1> DEFINE Inv == ToolInv /\ WholeApart /\ OnceApart /\ RepairInv
<1>1. ReaderInit => Inv
  <2> SUFFICES ASSUME ReaderInit PROVE RepairInv
    BY InitTool
  <2>1. /\ tstep = "off" /\ ends = "none" /\ neo_edges = {} /\ pending = {}
        /\ len0 = 0 /\ len1 = 0 /\ todo = {}
    BY DEF ReaderInit, ToolInit
  <2> QED BY <2>1 DEF RepairInv, InHandFresh, NonePassed, OnlyTold, InHand, AllEdges
<1>2. Inv /\ [ReaderNext]_readerVars => Inv'
  BY StepTool, RepairStep
<1>3. Inv => RerunRepairs
  <2> SUFFICES ASSUME Inv PROVE RerunRepairs
    OBVIOUS
  <2>1. \A n \in DOMAIN db : db[n].version \in Nat
    <3>1. \A n \in DOMAIN db : db[n] \in JoinedRow
      BY DEF ToolInv
    <3> QED BY <3>1 DEF JoinedRow
  <2>2. \A c, us : Says(c, us) = Told(c, us)
    BY <2>1, SaysIs
  <2>3. ends = "complete" /\ option[1] = "all" /\ Len(db) = len0 =>
          \A c \in Scannable : \E u \in get_setids(c) : Says(c, {u}) \subseteq neo_edges
    BY <2>2 DEF RepairInv, NonePassed, Done
  <2>4. Len(db) = len1 => neo_edges \subseteq UNION {Says(c, get_setids(c)) : c \in Scannable}
    BY <2>2 DEF RepairInv, OnlyTold, AllEdges
  <2> QED BY <2>3, <2>4 DEF RerunRepairs
<1> HIDE DEF Inv
<1> QED BY <1>1, <1>2, <1>3, PTL DEF ReaderSpec

-----------------------------------------------------------------------------
(* pickle_links: the replay *)

ReplayEvent(r, n) ==
  IF r.error THEN r
  ELSE IF n \in link_rows THEN ReplayLink(r, events[n])
  ELSE IF n \in unlink_rows THEN ReplayUnlink(r, events[n])
  ELSE r

NoEvents == [dentries |-> <<>>, id2cm |-> <<>>, error |-> FALSE]

Replays(g) == g = [n \in Nat |-> IF n = 0 THEN NoEvents ELSE ReplayEvent(g[n - 1], n)]

\* The replay of the first m events only.
ReplaysTo(h, m) ==
  /\ h = [n \in 0..m |-> h[n]] /\ h[0] = NoEvents
  /\ \A n \in 1..m : h[n] = ReplayEvent(h[n - 1], n)

LEMMA LeastOf ==
  ASSUME NEW S, S \subseteq Nat, S # {}
  PROVE  \E n \in S : \A m \in Nat : m < n => m \notin S
<1>1. PICK n \in S : \A m \in S : ~(<<m, n>> \in OpToRel(<, Nat))
  BY NatLessThanWellFounded, WFMin
<1> QED BY <1>1 DEF OpToRel

LEMMA ReplayToExists == \A m \in Nat : \E h : ReplaysTo(h, m)
<1> DEFINE Wrong == {m \in Nat : ~\E h : ReplaysTo(h, m)}
<1> SUFFICES ASSUME Wrong # {} PROVE FALSE
  OBVIOUS
<1>1. PICK m \in Wrong : \A n \in Nat : n < m => n \notin Wrong
  <2>1. Wrong \subseteq Nat
    OBVIOUS
  <2> HIDE DEF Wrong
  <2> QED BY <2>1, LeastOf
<1>2. CASE m = 0
  <2> DEFINE h == [n \in 0..0 |-> NoEvents]
  <2>1. h = [n \in 0..0 |-> h[n]] /\ h[0] = NoEvents
    OBVIOUS
  <2>2. ReplaysTo(h, 0)
    <3> HIDE DEF h
    <3> QED BY <2>1 DEF ReplaysTo
  <2> QED BY <1>2, <2>2
<1>3. CASE m # 0
  <2>1. m - 1 \in Nat /\ m - 1 < m
    BY <1>3
  <2>2. PICK k : ReplaysTo(k, m - 1)
    BY <1>1, <2>1
  <2> DEFINE h == [n \in 0..m |-> IF n < m THEN k[n] ELSE ReplayEvent(k[m - 1], m)]
  <2>3. h = [n \in 0..m |-> h[n]] /\ h[0] = NoEvents
    BY <1>3, <2>2 DEF ReplaysTo
  <2>4. ASSUME NEW n \in 1..m PROVE h[n] = ReplayEvent(h[n - 1], n)
    <3>1. h[n - 1] = k[n - 1]
      BY <2>1
    <3>2. CASE n < m
      <4>1. n \in 1..(m - 1) /\ h[n] = k[n]
        BY <2>1, <3>2
      <4>2. k[n] = ReplayEvent(k[n - 1], n)
        BY <2>2, <4>1 DEF ReplaysTo
      <4> HIDE DEF h
      <4> QED BY <3>1, <4>1, <4>2
    <3>3. CASE n = m
      <4>1. h[n] = ReplayEvent(k[m - 1], m)
        BY <3>3
      <4> HIDE DEF h
      <4> QED BY <3>1, <3>3, <4>1
    <3> QED BY <3>2, <3>3
  <2>5. ReplaysTo(h, m)
    <3> HIDE DEF h
    <3> QED BY <2>3, <2>4 DEF ReplaysTo
  <2> QED BY <2>5
<1> QED BY <1>2, <1>3

LEMMA ReplayToUnique ==
  ASSUME NEW m \in Nat, NEW k \in Nat, NEW h, NEW g, ReplaysTo(h, m), ReplaysTo(g, k)
  PROVE  \A n \in Nat : n <= m /\ n <= k => h[n] = g[n]
<1> DEFINE Wrong == {n \in Nat : n <= m /\ n <= k /\ h[n] # g[n]}
<1> SUFFICES ASSUME Wrong # {} PROVE FALSE
  OBVIOUS
<1>1. PICK n \in Wrong : \A j \in Nat : j < n => j \notin Wrong
  <2>1. Wrong \subseteq Nat
    OBVIOUS
  <2> HIDE DEF Wrong
  <2> QED BY <2>1, LeastOf
<1>2. CASE n = 0
  BY <1>1, <1>2 DEF ReplaysTo
<1>3. CASE n # 0
  <2>1. n - 1 \in Nat /\ n - 1 < n /\ n \in 1..m /\ n \in 1..k
    BY <1>1, <1>3
  <2>2. h[n - 1] = g[n - 1]
    BY <1>1, <2>1
  <2>3. h[n] = ReplayEvent(h[n - 1], n) /\ g[n] = ReplayEvent(g[n - 1], n)
    BY <2>1 DEF ReplaysTo
  <2> QED BY <1>1, <2>2, <2>3
<1> QED BY <1>2, <1>3

LEMMA ReplayExists == \E g : Replays(g)
<1> DEFINE H(n) == CHOOSE h : ReplaysTo(h, n)
           g == [n \in Nat |-> H(n)[n]]
           f == [n \in Nat |-> IF n = 0 THEN NoEvents ELSE ReplayEvent(g[n - 1], n)]
<1>1. \A n \in Nat : ReplaysTo(H(n), n)
  BY ReplayToExists
<1>2. \A n \in Nat : g[n] = H(n)[n]
  OBVIOUS
<1>3. g = [n \in Nat |-> g[n]]
  OBVIOUS
<1>4. f = [n \in Nat |-> f[n]] /\ \A n \in Nat : f[n] = IF n = 0 THEN NoEvents ELSE ReplayEvent(g[n - 1], n)
  OBVIOUS
<1> HIDE DEF H, g, f
<1>5. ASSUME NEW n \in Nat PROVE g[n] = IF n = 0 THEN NoEvents ELSE ReplayEvent(g[n - 1], n)
  <2>1. CASE n = 0
    BY <1>1, <1>2, <2>1 DEF ReplaysTo
  <2>2. CASE n # 0
    <3>1. n - 1 \in Nat /\ n \in 1..n
      BY <2>2
    <3>2. H(n)[n] = ReplayEvent(H(n)[n - 1], n)
      BY <1>1, <3>1 DEF ReplaysTo
    <3>3. ReplaysTo(H(n), n) /\ ReplaysTo(H(n - 1), n - 1)
      BY <1>1, <3>1
    <3>4. H(n)[n - 1] = H(n - 1)[n - 1]
      BY <3>1, <3>3, ReplayToUnique
    <3>5. g[n - 1] = H(n - 1)[n - 1]
      BY <1>2, <3>1
    <3> QED BY <1>2, <2>2, <3>2, <3>4, <3>5
  <2> QED BY <2>1, <2>2
<1>6. g = f
  BY <1>3, <1>4, <1>5
<1> QED BY <1>6 DEF Replays, f

LinksUpTo(i, n) == {m \in link_rows : m <= n /\ events[m].inode = i}
EntryOf(n)      == [inode_dir |-> events[n].dir, fname |-> events[n].fname]
LinkedUpTo(n)   == {events[m].inode : m \in {k \in link_rows : k <= n}}

\* What the SELECTs gave are rows of the table link, whichever they asked for.
SelectsLinks ==
  /\ link_rows \subseteq DOMAIN events /\ unlink_rows \subseteq DOMAIN events
  /\ DOMAIN events \subseteq Nat \ {0}
  /\ \A n \in link_rows \cup unlink_rows : events[n].type = "link"

\* No link is taken for a removal.
NoneRemoved == {n \in unlink_rows : n < max_eventid /\ events[n].type = "link"} \subseteq link_rows

ReplayOK(r, n) ==
  /\ r = [dentries |-> r.dentries, id2cm |-> r.id2cm, error |-> r.error]
  /\ r.error \/ /\ \A i \in DOMAIN r.dentries :
                     LinksUpTo(i, n) # {} /\ r.dentries[i] = EntryOf(Largest(LinksUpTo(i, n)))
                /\ NoneRemoved => DOMAIN r.dentries = LinkedUpTo(n)

\* One more event that is a link, or none.
LEMMA OneMoreLink ==
  ASSUME SelectsLinks, NEW n \in Nat \ {0}
  PROVE  /\ n \notin link_rows => /\ \A i : LinksUpTo(i, n) = LinksUpTo(i, n - 1)
                                  /\ LinkedUpTo(n) = LinkedUpTo(n - 1)
         /\ n \in link_rows =>
              /\ \A i : i # events[n].inode => LinksUpTo(i, n) = LinksUpTo(i, n - 1)
              /\ LinksUpTo(events[n].inode, n) # {} /\ Largest(LinksUpTo(events[n].inode, n)) = n
              /\ LinkedUpTo(n) = LinkedUpTo(n - 1) \cup {events[n].inode}
<1>0. link_rows \subseteq Nat
  BY DEF SelectsLinks
<1>1. \A m \in Nat : m <= n <=> m <= n - 1 \/ m = n
  OBVIOUS
<1>2. ASSUME n \notin link_rows
      PROVE  (\A i : LinksUpTo(i, n) = LinksUpTo(i, n - 1)) /\ LinkedUpTo(n) = LinkedUpTo(n - 1)
  BY <1>0, <1>1, <1>2 DEF LinksUpTo, LinkedUpTo
<1>3. ASSUME NEW i, i # events[n].inode PROVE LinksUpTo(i, n) = LinksUpTo(i, n - 1)
  BY <1>0, <1>1, <1>3 DEF LinksUpTo
<1>4. ASSUME n \in link_rows PROVE LinkedUpTo(n) = LinkedUpTo(n - 1) \cup {events[n].inode}
  BY <1>0, <1>1, <1>4 DEF LinkedUpTo
<1>5. ASSUME n \in link_rows
      PROVE  LinksUpTo(events[n].inode, n) # {} /\ Largest(LinksUpTo(events[n].inode, n)) = n
  <2> DEFINE T == LinksUpTo(events[n].inode, n)
  <2>1. n \in T
    BY <1>5 DEF LinksUpTo
  <2>2. T \subseteq 0..n
    <3> SUFFICES ASSUME NEW m \in T PROVE m \in 0..n
      OBVIOUS
    <3>1. m \in link_rows /\ m <= n
      BY DEF LinksUpTo
    <3> QED BY <1>0, <3>1
  <2> HIDE DEF T
  <2> PICK k : k = Largest(T)
    OBVIOUS
  <2>3. k \in T /\ n <= k
    BY <2>1, <2>2, LargestNumber
  <2>4. Largest(T) = n
    BY <2>2, <2>3
  <2> QED BY <2>1, <2>4 DEF T
<1> QED BY <1>2, <1>3, <1>4, <1>5

LEMMA ReplayLinkOK ==
  ASSUME SelectsLinks, NEW n \in link_rows, NEW r, ReplayOK(r, n - 1), ~r.error
  PROVE  ReplayOK(ReplayLink(r, events[n]), n)
<1>1. n \in Nat \ {0}
  BY DEF SelectsLinks
<1> DEFINE e == events[n]
           q == ReplayLink(r, e)
           d == [i \in DOMAIN r.dentries \cup {e.inode} |->
                   IF i = e.inode THEN EntryOf(n) ELSE r.dentries[i]]
<1>2. q = [dentries |-> q.dentries, id2cm |-> q.id2cm, error |-> q.error] /\ q.dentries = d
  <2>1. r = [dentries |-> r.dentries, id2cm |-> r.id2cm, error |-> r.error]
    BY DEF ReplayOK
  <2>2. PICK ds, cm, er : r = [dentries |-> ds, id2cm |-> cm, error |-> er]
    BY <2>1
  <2> DEFINE key == <<e.dir, e.fname>>
             old == IF key \in DOMAIN r.id2cm THEN r.id2cm[key] ELSE <<>>
             c2  == [k \in DOMAIN r.id2cm \cup {key} |-> IF k = key THEN Append(old, e.inode) ELSE r.id2cm[k]]
  <2>3. q = [r EXCEPT !.dentries = d, !.id2cm = c2]
    BY DEF ReplayLink, EntryOf
  <2> HIDE DEF q, d, c2
  <2>4. q = [dentries |-> d, id2cm |-> c2, error |-> er]
    BY <2>2, <2>3
  <2> QED BY <2>4
<1>3. \A i \in DOMAIN d : LinksUpTo(i, n) # {} /\ d[i] = EntryOf(Largest(LinksUpTo(i, n)))
  BY <1>1, OneMoreLink DEF ReplayOK
<1>4. NoneRemoved => DOMAIN d = LinkedUpTo(n)
  BY <1>1, OneMoreLink DEF ReplayOK
<1> HIDE DEF q, d
<1> QED BY <1>2, <1>3, <1>4 DEF ReplayOK, q

LEMMA ReplayUnlinkOK ==
  ASSUME SelectsLinks, NEW n \in Nat \ {0}, n \notin link_rows, n \in unlink_rows, n < max_eventid,
         NEW r, ReplayOK(r, n - 1), ~r.error
  PROVE  ReplayOK(ReplayUnlink(r, events[n]), n)
<1> DEFINE q == ReplayUnlink(r, events[n])
<1>1. ~NoneRemoved
  BY DEF NoneRemoved, SelectsLinks
<1>2. PICK ds, cm, er : r = [dentries |-> ds, id2cm |-> cm, error |-> er]
  BY DEF ReplayOK
<1>3. \/ q = [r EXCEPT !.error = TRUE]
      \/ q = r
      \/ \E gone, cm2 : q = [dentries |-> [i \in DOMAIN r.dentries \ gone |-> r.dentries[i]],
                             id2cm |-> cm2, error |-> er]
  BY <1>2 DEF ReplayUnlink
<1>4. \A i : LinksUpTo(i, n) = LinksUpTo(i, n - 1)
  BY OneMoreLink
<1> HIDE DEF q
<1>5. CASE q = [r EXCEPT !.error = TRUE]
  BY <1>2, <1>5 DEF ReplayOK, q
<1>6. CASE q = r
  BY <1>1, <1>4, <1>6 DEF ReplayOK, q
<1>7. ASSUME NEW gone, NEW cm2,
             q = [dentries |-> [i \in DOMAIN r.dentries \ gone |-> r.dentries[i]], id2cm |-> cm2, error |-> er]
      PROVE  ReplayOK(q, n)
  <2>1. q.dentries = [i \in DOMAIN r.dentries \ gone |-> r.dentries[i]]
        /\ q = [dentries |-> q.dentries, id2cm |-> q.id2cm, error |-> q.error]
    BY <1>7
  <2>2. \A i \in DOMAIN q.dentries : i \in DOMAIN r.dentries /\ q.dentries[i] = r.dentries[i]
    BY <2>1
  <2> QED BY <1>1, <1>4, <2>1, <2>2 DEF ReplayOK
<1> QED BY <1>3, <1>5, <1>6, <1>7 DEF q

LEMMA ReplayedOK ==
  ASSUME SelectsLinks, max_eventid \in Nat \ {0}
  PROVE  ReplayOK(Replayed, max_eventid - 1)
<1> DEFINE g == CHOOSE h : Replays(h)
           Wrong == {n \in Nat : n < max_eventid /\ ~ReplayOK(g[n], n)}
<1>1. Replays(g)
  BY ReplayExists
<1>2. Replayed = g[max_eventid - 1]
  BY DEF Replayed, Replays, ReplayEvent, NoEvents
<1> HIDE DEF g
<1>3. \A n \in Nat : g[n] = IF n = 0 THEN NoEvents ELSE ReplayEvent(g[n - 1], n)
  BY <1>1 DEF Replays
<1>4. Wrong = {}
  <2> SUFFICES ASSUME Wrong # {} PROVE FALSE
    OBVIOUS
  <2>1. PICK n \in Wrong : \A j \in Nat : j < n => j \notin Wrong
    <3>1. Wrong \subseteq Nat
      OBVIOUS
    <3> HIDE DEF Wrong
    <3> QED BY <3>1, LeastOf
  <2>2. CASE n = 0
    <3>1. g[0] = NoEvents
      BY <1>3
    <3>2. LinkedUpTo(0) = {}
      BY DEF LinkedUpTo, SelectsLinks
    <3>3. ReplayOK(NoEvents, 0)
      BY <3>2 DEF ReplayOK, NoEvents
    <3> QED BY <2>1, <2>2, <3>1, <3>3
  <2>3. CASE n # 0
    <3>1. n - 1 \in Nat /\ n - 1 < n /\ n - 1 < max_eventid /\ n \in Nat \ {0} /\ n < max_eventid
      BY <2>1, <2>3
    <3>2. PICK r : r = g[n - 1]
      OBVIOUS
    <3>3. ReplayOK(r, n - 1) /\ g[n] = ReplayEvent(r, n)
      BY <1>3, <2>1, <3>1, <3>2
    <3>4. CASE r.error
      BY <3>3, <3>4, <2>1 DEF ReplayOK, ReplayEvent
    <3>5. CASE ~r.error /\ n \in link_rows
      BY <3>3, <3>5, <2>1, ReplayLinkOK DEF ReplayEvent
    <3>6. CASE ~r.error /\ n \notin link_rows /\ n \in unlink_rows
      BY <3>1, <3>3, <3>6, <2>1, ReplayUnlinkOK DEF ReplayEvent
    <3>7. CASE ~r.error /\ n \notin link_rows /\ n \notin unlink_rows
      BY <3>1, <3>3, <3>7, <2>1, OneMoreLink DEF ReplayEvent, ReplayOK
    <3> QED BY <3>4, <3>5, <3>6, <3>7
  <2> QED BY <2>2, <2>3
<1> QED BY <1>2, <1>4

-----------------------------------------------------------------------------
(* pickle_links: the last links of a file system make no cycle *)

\* The file system's own links to i among the first n events, and where the last
\* of them is.
OwnIn(ev, i, n)   == {m \in 1..n : ev[m].type = "link" /\ ~ev[m].imported /\ ev[m].inode = i}
LastDir(ev, i, n) == ev[Largest(OwnIn(ev, i, n))].dir

\* Inodes each of which is last linked into one of them.
CycleIn(ev, S, n) == S # {} /\ \A i \in S : OwnIn(ev, i, n) # {} /\ LastDir(ev, i, n) \in S

Agree(ev, ev2, n) ==
  \A m \in 1..n : /\ ev2[m].type = ev[m].type /\ ev2[m].dir = ev[m].dir
                  /\ ev2[m].inode = ev[m].inode /\ ev2[m].imported = ev[m].imported

LEMMA AgreeFacts ==
  ASSUME NEW ev, NEW ev2, NEW k \in Nat, Agree(ev, ev2, k), NEW n \in 0..k
  PROVE  /\ \A i : OwnIn(ev2, i, n) = OwnIn(ev, i, n)
         /\ \A i : OwnIn(ev, i, n) # {} => LastDir(ev2, i, n) = LastDir(ev, i, n)
         /\ \A S : CycleIn(ev2, S, n) <=> CycleIn(ev, S, n)
<1>1. \A i : OwnIn(ev2, i, n) = OwnIn(ev, i, n)
  BY DEF OwnIn, Agree
<1>2. ASSUME NEW i, OwnIn(ev, i, n) # {} PROVE LastDir(ev2, i, n) = LastDir(ev, i, n)
  <2> DEFINE T == OwnIn(ev, i, n)
  <2>1. T \subseteq 0..n /\ T \subseteq 1..k
    BY DEF OwnIn
  <2> HIDE DEF T
  <2>2. Largest(T) \in T
    BY <1>2, <2>1, LargestNumber DEF T
  <2> QED BY <1>1, <2>1, <2>2 DEF LastDir, Agree, T
<1> QED BY <1>1, <1>2 DEF CycleIn

\* One event more: a link of the file system's own, or something else.
LEMMA OneMoreEvent ==
  ASSUME NEW ev, NEW n \in Nat \ {0}
  PROVE  /\ \A i : ~(ev[n].type = "link" /\ ~ev[n].imported /\ ev[n].inode = i) =>
                OwnIn(ev, i, n) = OwnIn(ev, i, n - 1) /\ LastDir(ev, i, n) = LastDir(ev, i, n - 1)
         /\ \A i : ev[n].type = "link" /\ ~ev[n].imported /\ ev[n].inode = i =>
                OwnIn(ev, i, n) # {} /\ LastDir(ev, i, n) = ev[n].dir
<1>1. 1..n = 1..(n - 1) \cup {n}
  OBVIOUS
<1>2. ASSUME NEW i, ~(ev[n].type = "link" /\ ~ev[n].imported /\ ev[n].inode = i)
      PROVE  OwnIn(ev, i, n) = OwnIn(ev, i, n - 1) /\ LastDir(ev, i, n) = LastDir(ev, i, n - 1)
  <2>1. OwnIn(ev, i, n) = OwnIn(ev, i, n - 1)
    BY <1>1, <1>2 DEF OwnIn
  <2> QED BY <2>1 DEF LastDir
<1>3. ASSUME NEW i, ev[n].type = "link" /\ ~ev[n].imported /\ ev[n].inode = i
      PROVE  OwnIn(ev, i, n) # {} /\ LastDir(ev, i, n) = ev[n].dir
  <2> DEFINE T == OwnIn(ev, i, n)
  <2>1. n \in T
    BY <1>3 DEF OwnIn
  <2>2. T \subseteq 0..n
    BY DEF OwnIn
  <2> HIDE DEF T
  <2> PICK k : k = Largest(T)
    OBVIOUS
  <2>3. k \in T /\ n <= k
    BY <2>1, <2>2, LargestNumber
  <2>4. Largest(T) = n
    BY <2>2, <2>3
  <2> QED BY <2>1, <2>4 DEF LastDir, T
<1> QED BY <1>2, <1>3

\* The root is linked at the beginning only.
RootFirst(ev, n) ==
  \A m \in 1..n : ev[m].type = "link" /\ ~ev[m].imported =>
    ev[m].inode \in Nat /\ (ev[m].inode = Root => ev[m].dir = NoParent)

LEMMA RootInNone ==
  ASSUME NEW ev, NEW n \in Nat, RootFirst(ev, n), NEW S, CycleIn(ev, S, n)
  PROVE  Root \notin S
<1> SUFFICES ASSUME Root \in S PROVE FALSE
  OBVIOUS
<1> DEFINE T == OwnIn(ev, Root, n)
<1>1. T \subseteq 0..n /\ T # {} /\ LastDir(ev, Root, n) \in S
  BY DEF CycleIn, OwnIn
<1>2. Largest(T) \in T
  <2> HIDE DEF T
  <2> QED BY <1>1, LargestNumber
<1>3. LastDir(ev, Root, n) = NoParent
  BY <1>2 DEF LastDir, OwnIn, RootFirst
<1>4. OwnIn(ev, NoParent, n) # {}
  BY <1>1, <1>3 DEF CycleIn
<1> QED BY <1>4 DEF OwnIn, RootFirst, NoParent

\* A link of i into d makes no cycle if i is not among way, the directories above d.
LEMMA NoNewCycle ==
  ASSUME NEW ev, NEW n \in Nat \ {0}, RootFirst(ev, n), \A S : ~CycleIn(ev, S, n - 1),
         ev[n].type = "link", ~ev[n].imported,
         NEW way, ev[n].dir \in way, ev[n].inode \notin way,
         \A x \in way : x # Root => OwnIn(ev, x, n - 1) # {} /\ LastDir(ev, x, n - 1) \in way
  PROVE  \A S : ~CycleIn(ev, S, n)
<1> SUFFICES ASSUME NEW S, CycleIn(ev, S, n) PROVE FALSE
  OBVIOUS
<1> DEFINE i == ev[n].inode
<1>1. Root \notin S
  BY RootInNone
<1>2. \A x : x # i => OwnIn(ev, x, n) = OwnIn(ev, x, n - 1) /\ LastDir(ev, x, n) = LastDir(ev, x, n - 1)
  BY OneMoreEvent
<1>3. CASE i \notin S
  <2>1. CycleIn(ev, S, n - 1)
    BY <1>2, <1>3 DEF CycleIn
  <2> QED BY <2>1
<1>4. CASE i \in S
  <2>1. LastDir(ev, i, n) = ev[n].dir
    BY OneMoreEvent
  <2>2. ev[n].dir \in S \cap way
    BY <1>4, <2>1 DEF CycleIn
  <2>3. CycleIn(ev, S \cap way, n - 1)
    BY <1>1, <1>2, <2>2 DEF CycleIn
  <2> QED BY <2>3
<1> QED BY <1>3, <1>4

LinkRecord == [type : {"link", "unlink"}, dir : {NoParent, Root} \cup Dirs, fname : Names \cup {"root_inode"},
               inode : {Root} \cup Dirs \cup Files, status : {"in", "lost", "open"}, imported : BOOLEAN]

Steps4 == {"max_link", "max_unlink", "links", "unlinks"}

\* pickle_links' variables at each of its statements.
LinkInv ==
  /\ events \in Seq(LinkRecord) /\ \A n \in DOMAIN events : events[n].status = "open" => events[n].imported
  /\ SelectsLinks
  /\ max_eventid \in 0..Len(events) /\ (lstep \in Steps4 => max_eventid # 0)
  /\ lstep \in {"links", "unlinks", "done"} =>
       \A n \in 1..max_eventid : events[n].type = "link" /\ events[n].status = "in" /\ ~events[n].imported
                                  => n \in link_rows
  /\ EntriesAreLastLinks

\* The file system and what its records say of it.
TreeInv ==
  /\ tree \subseteq ({Root} \cup Dirs) \X Names \X (Dirs \cup Files)
  /\ \A s, t \in tree : s[3] = t[3] /\ s[3] \in Dirs => s = t
  /\ \A t \in tree : t[1] \in Live
  /\ \A t \in tree : t[3] \in Dirs => /\ OwnIn(events, t[3], Len(events)) # {}
                                      /\ LastDir(events, t[3], Len(events)) = t[1]
  /\ RootFirst(events, Len(events))
  /\ \A n \in 0..Len(events) : \A S : ~CycleIn(events, S, n)

LEMMA LinkTyped ==
  ASSUME NEW d \in {Root} \cup Dirs, NEW name \in Names, NEW i \in Dirs \cup Files,
         NEW s \in {"in", "lost", "open"}
  PROVE  /\ Link(<<d, name, i>>, s) \in LinkRecord /\ Unlink(<<d, name, i>>, s) \in LinkRecord
         /\ Link(<<d, name, i>>, s).type = "link" /\ Unlink(<<d, name, i>>, s).type = "unlink"
         /\ Link(<<d, name, i>>, s).status = s /\ Unlink(<<d, name, i>>, s).status = s
         /\ Link(<<d, name, i>>, s).imported = (s = "open")
         /\ Unlink(<<d, name, i>>, s).imported = (s = "open")
         /\ Link(<<d, name, i>>, s).dir = d /\ Link(<<d, name, i>>, s).inode = i
  BY DEF Link, Unlink, LinkRecord

\* What pickle_links has read already stays true while the log grows.
LEMMA LogGrows ==
  ASSUME LinkInv, lstep \notin {"done", "failed"},
         UNCHANGED <<lstep, max_eventid, max_unlink, link_rows, unlink_rows, dentry_map>>,
         events' \in Seq(LinkRecord), Len(events) <= Len(events'), Agree(events, events', Len(events)),
         \A n \in DOMAIN events' : events'[n].status = "open" => events'[n].imported,
         \A n \in 1..Len(events) : ~events[n].imported => events'[n].status = events[n].status
  PROVE  LinkInv'
<1>1. Len(events) \in Nat /\ Len(events') \in Nat /\ DOMAIN events = 1..Len(events)
      /\ DOMAIN events' = 1..Len(events') /\ DOMAIN events \subseteq DOMAIN events'
  BY DEF LinkInv
<1>2. SelectsLinks'
  BY <1>1 DEF LinkInv, SelectsLinks, Agree
<1>3. max_eventid' \in 0..Len(events') /\ (lstep' \in Steps4 => max_eventid' # 0)
  BY <1>1 DEF LinkInv
<1>4. lstep' \in {"links", "unlinks", "done"} =>
        \A n \in 1..max_eventid' : events'[n].type = "link" /\ events'[n].status = "in" /\ ~events'[n].imported
                                   => n \in link_rows'
  <2>1. \A n \in 1..max_eventid : n \in 1..Len(events)
    BY <1>1 DEF LinkInv
  <2>2. \A n \in 1..Len(events) : events'[n].type = events[n].type /\ events'[n].imported = events[n].imported
    BY DEF Agree
  <2> QED BY <2>1, <2>2 DEF LinkInv
<1>5. EntriesAreLastLinks'
  BY DEF EntriesAreLastLinks
<1> QED BY <1>2, <1>3, <1>4, <1>5 DEF LinkInv

\* Entries d/name of a directory that is there.
LEMMA LiveDir ==
  ASSUME TreeInv, NEW d \in Live \ Files
  PROVE  d \in {Root} \cup Dirs
  BY DEF TreeInv, Live

LEMMA WorldStepLinks ==
  ASSUME LinkInv, TreeInv, lstep \notin {"done", "failed"}, Tree0 \subseteq ({Root} \cup Dirs) \X Names \X (Dirs \cup Files),
         LinkWorld
  PROVE  LinkInv'
<1>0. UNCHANGED <<lstep, max_eventid, max_unlink, link_rows, unlink_rows, dentry_map>>
  BY DEF LinkWorld
<1>1. Len(events) \in Nat /\ DOMAIN events = 1..Len(events) /\ events \in Seq(LinkRecord)
      /\ \A n \in DOMAIN events : events[n].status = "open" => events[n].imported
  BY DEF LinkInv
<1>2. ASSUME NEW e \in LinkRecord, e.status = "open" => e.imported, events' = Append(events, e)
      PROVE  LinkInv'
  <2>1. /\ events' \in Seq(LinkRecord) /\ Len(events') = Len(events) + 1
        /\ \A n \in 1..Len(events) : events'[n] = events[n]
        /\ events'[Len(events) + 1] = e /\ DOMAIN events' = 1..(Len(events) + 1)
    BY <1>1, <1>2
  <2>2. \A n \in DOMAIN events' : events'[n].status = "open" => events'[n].imported
    <3>1. \A n \in DOMAIN events' : n \in 1..Len(events) \/ n = Len(events) + 1
      BY <1>1, <2>1
    <3> QED BY <1>1, <1>2, <2>1, <3>1
  <2>3. Agree(events, events', Len(events))
    BY <2>1 DEF Agree
  <2> QED BY <1>0, <1>1, <2>1, <2>2, <2>3, LogGrows
<1>3. ASSUME NEW d \in {Root} \cup Dirs, NEW name \in Names, NEW i \in Dirs \cup Files, MakeEntry(d, name, i)
      PROVE  LinkInv'
  <2>1. PICK s \in Statuses(1) : events' = Append(events, Link(<<d, name, i>>, s))
    BY <1>3 DEF MakeEntry
  <2>2. s \in {"in", "lost"}
    BY DEF Statuses
  <2> QED BY <1>2, <2>1, <2>2, LinkTyped
<1>4. ASSUME NEW t \in tree, RemoveEntry(t) PROVE LinkInv'
  <2>1. PICK s \in Statuses(1) : events' = Append(events, Unlink(t, s))
    BY <1>4 DEF RemoveEntry
  <2>2. s \in {"in", "lost"}
    BY DEF Statuses
  <2>3. PICK d \in {Root} \cup Dirs, name \in Names, i \in Dirs \cup Files : t = <<d, name, i>>
    BY DEF TreeInv
  <2> QED BY <1>2, <2>1, <2>2, <2>3, LinkTyped
<1>5. ASSUME NEW t \in tree, NEW d \in {Root} \cup Dirs, NEW name \in Names, Rename(t, d, name)
      PROVE  LinkInv'
  <2>1. PICK s1 \in Statuses(1), s2 \in Statuses(1) :
          events' = events \o <<Link(<<d, name, t[3]>>, s1), Unlink(t, s2)>>
    BY <1>5 DEF Rename
  <2>2. s1 \in {"in", "lost"} /\ s2 \in {"in", "lost"}
    BY DEF Statuses
  <2>3. PICK d1 \in {Root} \cup Dirs, n1 \in Names, i \in Dirs \cup Files : t = <<d1, n1, i>>
    BY DEF TreeInv
  <2>4. PICK e1 \in LinkRecord, e2 \in LinkRecord :
          /\ e1 = Link(<<d, name, t[3]>>, s1) /\ e2 = Unlink(t, s2)
          /\ e1.status # "open" /\ e2.status # "open"
    BY <2>2, <2>3, LinkTyped
  <2>5. /\ events' \in Seq(LinkRecord) /\ Len(events') = Len(events) + 2
        /\ \A n \in 1..Len(events) : events'[n] = events[n]
        /\ events'[Len(events) + 1] = e1 /\ events'[Len(events) + 2] = e2
        /\ DOMAIN events' = 1..(Len(events) + 2)
    BY <1>1, <2>1, <2>4
  <2>6. \A n \in DOMAIN events' : events'[n].status = "open" => events'[n].imported
    <3>1. \A n \in DOMAIN events' : n \in 1..Len(events) \/ n = Len(events) + 1 \/ n = Len(events) + 2
      BY <1>1, <2>5
    <3> QED BY <1>1, <2>4, <2>5, <3>1
  <2>7. Agree(events, events', Len(events))
    BY <2>5 DEF Agree
  <2> QED BY <1>0, <1>1, <2>5, <2>6, <2>7, LogGrows
<1>6. ASSUME NEW t, Import(t) PROVE LinkInv'
  <2>1. t \in Tree0 /\ events' = Append(events, Link(t, "open"))
    BY <1>6 DEF Import
  <2>2. PICK d \in {Root} \cup Dirs, name \in Names, i \in Dirs \cup Files : t = <<d, name, i>>
    BY <2>1
  <2> QED BY <1>2, <2>1, <2>2, LinkTyped
<1>7. ASSUME CommitImport PROVE LinkInv'
  <2>1. events' = [n \in DOMAIN events |-> IF events[n].status = "open" THEN [events[n] EXCEPT !.status = "in"]
                                           ELSE events[n]]
    BY <1>7 DEF CommitImport
  <2>2. \A n \in DOMAIN events : events[n] \in LinkRecord
    BY <1>1
  <2>3. \A n \in DOMAIN events :
          /\ events'[n] \in LinkRecord /\ events'[n].type = events[n].type /\ events'[n].dir = events[n].dir
          /\ events'[n].inode = events[n].inode /\ events'[n].imported = events[n].imported
          /\ events'[n].status # "open" /\ (events[n].status # "open" => events'[n].status = events[n].status)
    BY <2>1, <2>2 DEF LinkRecord
  <2>4. DOMAIN events' = 1..Len(events)
    BY <1>1, <2>1
  <2>5. events' \in Seq(LinkRecord) /\ Len(events') = Len(events)
    BY <1>1, <2>1, <2>3
  <2>6. Agree(events, events', Len(events))
    BY <1>1, <2>3 DEF Agree
  <2> QED BY <1>0, <1>1, <2>3, <2>4, <2>5, <2>6, LogGrows
<1> QED BY <1>3, <1>4, <1>5, <1>6, <1>7 DEF LinkWorld

LEMMA TableNumbers ==
  ASSUME events \in Seq(LinkRecord), NEW type, InTable(type) # {}
  PROVE  Largest(InTable(type)) \in 1..Len(events)
<1> DEFINE T == InTable(type)
<1>1. T \subseteq 0..Len(events) /\ T \subseteq 1..Len(events) /\ Len(events) \in Nat
  BY DEF InTable
<1> HIDE DEF T
<1>2. Largest(T) \in T
  BY <1>1, LargestNumber DEF T
<1> QED BY <1>1, <1>2 DEF T

LEMMA ReplayStep ==
  ASSUME LinkInv, Replay
  PROVE  LinkInv'
<1>1. /\ lstep = "unlinks" /\ UNCHANGED <<tree, events, max_eventid, max_unlink, link_rows, unlink_rows>>
      /\ lstep' \in {"failed", "done"}
  BY DEF Replay
<1>2. max_eventid \in Nat \ {0} /\ SelectsLinks /\ SelectsLinks'
  BY <1>1 DEF LinkInv, Steps4, SelectsLinks
<1>3. ReplayOK(Replayed, max_eventid - 1)
  BY <1>2, ReplayedOK
<1>4. EntriesAreLastLinks'
  <2>1. CASE Replayed.error
    BY <2>1 DEF Replay, EntriesAreLastLinks
  <2>2. CASE ~Replayed.error
    <3>1. dentry_map' = Replayed.dentries
      BY <2>2 DEF Replay
    <3> PICK r : r = Replayed
      OBVIOUS
    <3>2. /\ \A i \in DOMAIN dentry_map' :
               LinksUpTo(i, max_eventid - 1) # {} /\ dentry_map'[i] = EntryOf(Largest(LinksUpTo(i, max_eventid - 1)))
          /\ NoneRemoved => DOMAIN dentry_map' = LinkedUpTo(max_eventid - 1)
      BY <1>3, <2>2, <3>1 DEF ReplayOK
    <3>3. \A n \in link_rows : n <= max_eventid - 1 <=> n < max_eventid
      BY <1>2 DEF SelectsLinks
    <3>4. (\A i : LinksUpTo(i, max_eventid - 1) = LinksOf(i))
      BY <3>3 DEF LinksUpTo, LinksOf, Visible
    <3>5. LinkedUpTo(max_eventid - 1) = {events[n].inode : n \in Visible}
      BY <3>3 DEF LinkedUpTo, Visible
    <3>6. (\A i : LinksOf(i)' = LinksOf(i)) /\ Visible' = Visible
      BY <1>1 DEF LinksOf, Visible
    <3>7. \A i \in DOMAIN dentry_map' :
            LinksOf(i)' # {} /\ dentry_map'[i] = EntryOf(Largest(LinksOf(i)'))
      BY <3>2, <3>4, <3>6
    <3>8. NoneRemoved => DOMAIN dentry_map' = {events[n].inode : n \in Visible}
      BY <3>2, <3>5
    <3> QED BY <1>1, <3>6, <3>7, <3>8 DEF EntriesAreLastLinks, NoneRemoved, EntryOf
  <2> QED BY <2>1, <2>2
<1> QED BY <1>1, <1>2, <1>4 DEF LinkInv, Steps4

LEMMA PickleStepLinks ==
  ASSUME LinkInv, lstep \notin {"done", "failed"}, Pickle
  PROVE  LinkInv'
<1>0. events \in Seq(LinkRecord) /\ Len(events) \in Nat /\ DOMAIN events = 1..Len(events)
  BY DEF LinkInv
<1>1. CASE MaxLink
  <2>1. /\ UNCHANGED <<events, link_rows, unlink_rows, dentry_map>> /\ lstep' \in {"failed", "max_link"}
        /\ lstep' = "max_link" => InTable("link") # {} /\ max_eventid' = Largest(InTable("link"))
        /\ lstep' = "failed" => max_eventid' = max_eventid
    BY <1>1 DEF MaxLink, PickleFails
  <2>2. max_eventid' \in 0..Len(events) /\ (lstep' \in Steps4 => max_eventid' # 0)
    BY <1>0, <2>1, TableNumbers DEF LinkInv, Steps4
  <2> QED BY <2>1, <2>2 DEF LinkInv, SelectsLinks, EntriesAreLastLinks
<1>2. CASE MaxUnlink
  <2>1. /\ UNCHANGED <<events, link_rows, unlink_rows, dentry_map>> /\ lstep' \in {"failed", "max_unlink"}
        /\ lstep = "max_link"
        /\ lstep' = "max_unlink" => /\ InTable("unlink") # {} /\ max_unlink' = Largest(InTable("unlink"))
                                    /\ max_eventid' \in {max_eventid, max_unlink'}
        /\ lstep' = "failed" => max_eventid' = max_eventid
    BY <1>2 DEF MaxUnlink, PickleFails, Later
  <2>2. max_eventid' \in 0..Len(events) /\ (lstep' \in Steps4 => max_eventid' # 0)
    BY <1>0, <2>1, TableNumbers DEF LinkInv, Steps4
  <2> QED BY <2>1, <2>2 DEF LinkInv, SelectsLinks, EntriesAreLastLinks
<1>3. CASE SelectLinks
  <2>1. /\ UNCHANGED <<events, max_eventid, unlink_rows, dentry_map>> /\ lstep = "max_unlink" /\ lstep' = "links"
        /\ link_rows' = InTable("link")
    BY <1>3 DEF SelectLinks
  <2>2. SelectsLinks'
    BY <2>1 DEF LinkInv, SelectsLinks, InTable
  <2>3. \A n \in 1..max_eventid : events[n].type = "link" /\ events[n].status = "in" => n \in link_rows'
    BY <1>0, <2>1 DEF LinkInv, InTable
  <2> QED BY <2>1, <2>2, <2>3 DEF LinkInv, Steps4, EntriesAreLastLinks
<1>4. CASE SelectUnlinks
  <2>1. /\ UNCHANGED <<events, max_eventid, link_rows, dentry_map>> /\ lstep = "links" /\ lstep' = "unlinks"
        /\ unlink_rows' = InTable("link")
    BY <1>4 DEF SelectUnlinks
  <2>2. SelectsLinks'
    BY <2>1 DEF LinkInv, SelectsLinks, InTable
  <2> QED BY <2>1, <2>2 DEF LinkInv, Steps4, EntriesAreLastLinks
<1>5. CASE Replay
  BY <1>5, ReplayStep
<1> QED BY <1>1, <1>2, <1>3, <1>4, <1>5 DEF Pickle

LogOK(ev, n) == RootFirst(ev, n) /\ \A k \in 0..n : \A S : ~CycleIn(ev, S, k)

\* The records agree with a log one longer, whose last record is no link of the file
\* system's own.
LEMMA OtherAppended ==
  ASSUME NEW ev, NEW ev2, NEW n \in Nat, LogOK(ev, n), Agree(ev, ev2, n),
         ~(ev2[n + 1].type = "link" /\ ~ev2[n + 1].imported)
  PROVE  /\ LogOK(ev2, n + 1)
         /\ \A i : OwnIn(ev, i, n) # {} =>
              OwnIn(ev2, i, n + 1) # {} /\ LastDir(ev2, i, n + 1) = LastDir(ev, i, n)
<1> PICK m \in Nat \ {0} : m = n + 1
  OBVIOUS
<1>1. m - 1 = n /\ n \in 0..n /\ 1..m = 1..n \cup {m} /\ 0..m = 0..n \cup {m}
  OBVIOUS
<1>2. \A i : OwnIn(ev2, i, m) = OwnIn(ev2, i, n) /\ LastDir(ev2, i, m) = LastDir(ev2, i, n)
  BY <1>1, OneMoreEvent
<1>3. \A i : OwnIn(ev, i, n) # {} => OwnIn(ev2, i, m) # {} /\ LastDir(ev2, i, m) = LastDir(ev, i, n)
  BY <1>1, <1>2, AgreeFacts
<1>4. RootFirst(ev2, m)
  BY <1>1 DEF LogOK, RootFirst, Agree
<1>5. \A k \in 0..n : \A S : ~CycleIn(ev2, S, k)
  BY AgreeFacts DEF LogOK
<1>6. \A S : ~CycleIn(ev2, S, m)
  BY <1>1, <1>2, <1>5 DEF CycleIn
<1> QED BY <1>1, <1>3, <1>4, <1>5, <1>6 DEF LogOK

\* Whose last record links i into d, and i is not among way, the directories above d.
Extends(ev, ev2, n, i, d, way) ==
  /\ n \in Nat /\ LogOK(ev, n) /\ Agree(ev, ev2, n)
  /\ ev2[n + 1].type = "link" /\ ~ev2[n + 1].imported /\ ev2[n + 1].inode = i /\ ev2[n + 1].dir = d
  /\ i \in Nat \ {Root} /\ i \notin way /\ d \in way
  /\ \A x \in way : x # Root => OwnIn(ev, x, n) # {} /\ LastDir(ev, x, n) \in way

LEMMA LinkAppended ==
  ASSUME NEW ev, NEW ev2, NEW n, NEW i, NEW d, NEW way, Extends(ev, ev2, n, i, d, way)
  PROVE  /\ LogOK(ev2, n + 1)
         /\ \A x : OwnIn(ev, x, n) # {} /\ x # i =>
              OwnIn(ev2, x, n + 1) # {} /\ LastDir(ev2, x, n + 1) = LastDir(ev, x, n)
         /\ OwnIn(ev2, i, n + 1) # {} /\ LastDir(ev2, i, n + 1) = d
<1> USE DEF Extends
<1> PICK m \in Nat \ {0} : m = n + 1
  OBVIOUS
<1>1. m - 1 = n /\ n \in 0..n /\ 1..m = 1..n \cup {m} /\ 0..m = 0..n \cup {m}
  OBVIOUS
<1>2. \A x : x # i =>
        OwnIn(ev2, x, m) = OwnIn(ev2, x, n) /\ LastDir(ev2, x, m) = LastDir(ev2, x, n)
  BY <1>1, OneMoreEvent
<1>3. \A x : OwnIn(ev2, x, n) = OwnIn(ev, x, n)
             /\ (OwnIn(ev, x, n) # {} => LastDir(ev2, x, n) = LastDir(ev, x, n))
  BY <1>1, AgreeFacts
<1>4. RootFirst(ev2, m)
  BY <1>1 DEF LogOK, RootFirst, Agree
<1>5. \A k \in 0..n : \A S : ~CycleIn(ev2, S, k)
  BY AgreeFacts DEF LogOK
<1>6. \A x \in way : x # Root => OwnIn(ev2, x, m - 1) # {} /\ LastDir(ev2, x, m - 1) \in way
  BY <1>1, <1>3
<1>7. \A S : ~CycleIn(ev2, S, m - 1)
  BY <1>1, <1>5
<1>8. \A S : ~CycleIn(ev2, S, m)
  BY <1>4, <1>6, <1>7, NoNewCycle
<1>9. OwnIn(ev2, i, m) # {} /\ LastDir(ev2, i, m) = d
  BY OneMoreEvent
<1> QED BY <1>1, <1>2, <1>3, <1>4, <1>5, <1>8, <1>9 DEF LogOK

\* The directories above one that is there, as the records have them.
LEMMA WayInRecords ==
  ASSUME TreeInv, NEW way0, way0 \subseteq Live, \A t \in tree : t[3] \in way0 => t[1] \in way0
  PROVE  LET way == (way0 \cap Dirs) \cup {Root}
         IN \A x \in way : x # Root => /\ OwnIn(events, x, Len(events)) # {}
                                       /\ LastDir(events, x, Len(events)) \in way
<1> DEFINE way == (way0 \cap Dirs) \cup {Root}
<1> SUFFICES ASSUME NEW x \in way, x # Root
             PROVE  OwnIn(events, x, Len(events)) # {} /\ LastDir(events, x, Len(events)) \in way
  OBVIOUS
<1>1. x \in way0 /\ x \in Dirs /\ x \in Live
  OBVIOUS
<1>2. PICK t \in tree : t[3] = x
  BY <1>1 DEF Live
<1>3. t[1] \in way0 /\ t[1] \in {Root} \cup Dirs
  BY <1>1, <1>2 DEF TreeInv
<1>4. OwnIn(events, x, Len(events)) # {} /\ LastDir(events, x, Len(events)) = t[1]
  BY <1>1, <1>2 DEF TreeInv
<1> QED BY <1>3, <1>4

LEMMA TreeLog == TreeInv => LogOK(events, Len(events))
  BY DEF TreeInv, LogOK

LEMMA MakeEntryTree ==
  ASSUME LinkInv, TreeInv, NEW d \in {Root} \cup Dirs, NEW name \in Names, NEW i \in Dirs \cup Files,
         MakeEntry(d, name, i)
  PROVE  TreeInv'
<1> DEFINE n == Len(events)
           way == ((Live \ {i}) \cap Dirs) \cup {Root}
<1>1. n \in Nat /\ events \in Seq(LinkRecord)
  BY DEF LinkInv
<1>2. PICK s \in {"in", "lost"} : events' = Append(events, Link(<<d, name, i>>, s))
  BY DEF MakeEntry, Statuses
<1>3. /\ Len(events') = n + 1 /\ Agree(events, events', n)
      /\ events'[n + 1] = Link(<<d, name, i>>, s)
  <2>1. \A k \in 1..n : events'[k] = events[k]
    BY <1>1, <1>2
  <2> QED BY <1>1, <1>2, <2>1 DEF Agree
<1>4. /\ events'[n + 1].type = "link" /\ ~events'[n + 1].imported /\ events'[n + 1].inode = i
      /\ events'[n + 1].dir = d /\ i \in Nat \ {Root}
  <2> PICK e : e = Link(<<d, name, i>>, s)
    OBVIOUS
  <2>1. e.type = "link" /\ ~e.imported /\ e.inode = i /\ e.dir = d
    BY DEF Link
  <2>2. events'[n + 1] = e /\ i \in Nat \ {Root}
    BY <1>3, LinksAssumption
  <2> QED BY <2>1, <2>2
<1>5. /\ d \in Live \ Files /\ (i \in Files \/ i \notin Live)
      /\ tree' = tree \cup {<<d, name, i>>}
  BY DEF MakeEntry
<1>6. \A t \in tree : t[1] \in Live /\ t[1] # i
  BY <1>5, LinksAssumption DEF TreeInv
<1>7. \A x \in way : x # Root => OwnIn(events, x, n) # {} /\ LastDir(events, x, n) \in way
  BY <1>6, WayInRecords
<1>8. d \in way /\ i \notin way
  BY <1>4, <1>5
<1>9. /\ LogOK(events', n + 1)
      /\ \A x : OwnIn(events, x, n) # {} /\ x # i =>
           OwnIn(events', x, n + 1) # {} /\ LastDir(events', x, n + 1) = LastDir(events, x, n)
      /\ OwnIn(events', i, n + 1) # {} /\ LastDir(events', i, n + 1) = d
  <2> PICK ev, ev2 : ev = events /\ ev2 = events'
    OBVIOUS
  <2> HIDE DEF way, n
  <2>1. LogOK(ev, n) /\ Agree(ev, ev2, n) /\ n \in Nat
    BY <1>1, <1>3, TreeLog DEF n
  <2>2. ev2[n + 1].type = "link" /\ ~ev2[n + 1].imported /\ ev2[n + 1].inode = i /\ ev2[n + 1].dir = d
    BY <1>4
  <2>3. \A x \in way : x # Root => OwnIn(ev, x, n) # {} /\ LastDir(ev, x, n) \in way
    BY <1>7
  <2>4. i \in Nat \ {Root} /\ d \in way /\ i \notin way
    BY <1>4, <1>8
  <2>5. Extends(ev, ev2, n, i, d, way)
    BY <2>1, <2>2, <2>3, <2>4 DEF Extends
  <2> QED BY <2>5, LinkAppended
<1> HIDE DEF way
<1>10. i \in Dirs => \A t \in tree : t[3] # i
  BY <1>5, LinksAssumption DEF Live
<1>11. tree' \subseteq ({Root} \cup Dirs) \X Names \X (Dirs \cup Files)
  BY <1>5 DEF TreeInv
<1>12. \A q, t \in tree' : q[3] = t[3] /\ q[3] \in Dirs => q = t
  BY <1>5, <1>10 DEF TreeInv
<1>13. \A t \in tree' : t[1] \in Live'
  BY <1>5 DEF TreeInv, Live
<1>14. \A t \in tree' : t[3] \in Dirs => OwnIn(events', t[3], n + 1) # {} /\ LastDir(events', t[3], n + 1) = t[1]
  BY <1>5, <1>9, <1>10 DEF TreeInv
<1> QED BY <1>3, <1>9, <1>11, <1>12, <1>13, <1>14 DEF TreeInv, LogOK

LEMMA RemoveEntryTree ==
  ASSUME LinkInv, TreeInv, NEW t \in tree, RemoveEntry(t)
  PROVE  TreeInv'
<1> DEFINE n == Len(events)
<1>1. n \in Nat /\ events \in Seq(LinkRecord)
  BY DEF LinkInv
<1>2. PICK s \in {"in", "lost"} : events' = Append(events, Unlink(t, s))
  BY DEF RemoveEntry, Statuses
<1>3. Len(events') = n + 1 /\ Agree(events, events', n) /\ events'[n + 1].type = "unlink"
  <2>1. \A k \in 1..n : events'[k] = events[k]
    BY <1>1, <1>2
  <2>2. events'[n + 1] = Unlink(t, s)
    BY <1>1, <1>2
  <2> QED BY <1>1, <1>2, <2>1, <2>2 DEF Agree, Unlink, Link
<1>4. /\ LogOK(events', n + 1)
      /\ \A x : OwnIn(events, x, n) # {} =>
           OwnIn(events', x, n + 1) # {} /\ LastDir(events', x, n + 1) = LastDir(events, x, n)
  BY <1>1, <1>3, TreeLog, OtherAppended
<1>5. tree' = tree \ {t} /\ \A q \in tree : q[1] # t[3]
  BY DEF RemoveEntry
<1>6. \A q \in tree' : q[1] \in Live'
  BY <1>5 DEF TreeInv, Live
<1> QED BY <1>3, <1>4, <1>5, <1>6 DEF TreeInv, LogOK

LEMMA RenameTree ==
  ASSUME LinkInv, TreeInv, NEW t \in tree, NEW d \in {Root} \cup Dirs, NEW name \in Names, Rename(t, d, name)
  PROVE  TreeInv'
<1> PICK n \in Nat : n = Len(events)
  BY DEF LinkInv
<1> PICK i \in Dirs \cup Files : i = t[3]
  BY DEF TreeInv
<1>1. events \in Seq(LinkRecord)
  BY DEF LinkInv
<1>2. PICK s1 \in {"in", "lost"}, s2 \in {"in", "lost"} :
        events' = events \o <<Link(<<d, name, i>>, s1), Unlink(t, s2)>>
  BY DEF Rename, Statuses
<1> PICK e1, e2 : e1 = Link(<<d, name, i>>, s1) /\ e2 = Unlink(t, s2)
  OBVIOUS
<1>3. /\ Len(events') = n + 2 /\ Agree(events, events', n)
      /\ events'[n + 1] = e1 /\ events'[n + 2] = e2
  <2>1. e1 \in LinkRecord /\ e2 \in LinkRecord
    <3>1. PICK d1 \in {Root} \cup Dirs, n1 \in Names : t = <<d1, n1, i>>
      BY DEF TreeInv
    <3> QED BY <3>1, LinkTyped
  <2>2. events' = events \o <<e1, e2>>
    BY <1>2
  <2>3. \A k \in 1..n : events'[k] = events[k]
    BY <1>1, <2>1, <2>2
  <2>4. Len(events') = n + 2 /\ events'[n + 1] = e1 /\ events'[n + 2] = e2
    BY <1>1, <2>1, <2>2
  <2> QED BY <2>3, <2>4 DEF Agree
<1>4. /\ e1.type = "link" /\ ~e1.imported /\ e1.inode = i /\ e1.dir = d /\ i \in Nat \ {Root}
      /\ e2.type = "unlink"
  BY LinksAssumption DEF Link, Unlink
<1>5. /\ d \in Live /\ tree' = (tree \ {t}) \cup {<<d, name, i>>}
  BY DEF Rename
<1>6. PICK way0 \in SUBSET Live : d \in way0 /\ i \notin way0 /\ \A q \in tree : q[3] \in way0 => q[1] \in way0
  BY DEF Rename, NotAbove
<1> DEFINE way == (way0 \cap Dirs) \cup {Root}
<1>7. \A x \in way : x # Root => OwnIn(events, x, n) # {} /\ LastDir(events, x, n) \in way
  BY <1>6, WayInRecords
<1>8. d \in way /\ i \notin way
  BY <1>4, <1>6
<1>9. /\ LogOK(events', n + 1)
      /\ \A x : OwnIn(events, x, n) # {} /\ x # i =>
           OwnIn(events', x, n + 1) # {} /\ LastDir(events', x, n + 1) = LastDir(events, x, n)
      /\ OwnIn(events', i, n + 1) # {} /\ LastDir(events', i, n + 1) = d
  <2>0. PICK ev, ev2 : ev = events /\ ev2 = events'
    OBVIOUS
  <2> HIDE DEF way
  <2>1. LogOK(ev, n) /\ Agree(ev, ev2, n) /\ n \in Nat
    BY <1>3, <2>0, TreeLog
  <2>2. ev2[n + 1].type = "link" /\ ~ev2[n + 1].imported /\ ev2[n + 1].inode = i /\ ev2[n + 1].dir = d
    BY <1>3, <1>4, <2>0
  <2>3. \A x \in way : x # Root => OwnIn(ev, x, n) # {} /\ LastDir(ev, x, n) \in way
    BY <1>7, <2>0
  <2>4. i \in Nat \ {Root} /\ d \in way /\ i \notin way
    BY <1>4, <1>8
  <2>5. /\ LogOK(ev2, n + 1)
        /\ \A x : OwnIn(ev, x, n) # {} /\ x # i =>
             OwnIn(ev2, x, n + 1) # {} /\ LastDir(ev2, x, n + 1) = LastDir(ev, x, n)
        /\ OwnIn(ev2, i, n + 1) # {} /\ LastDir(ev2, i, n + 1) = d
    <3>1. Extends(ev, ev2, n, i, d, way)
      BY <2>1, <2>2, <2>3, <2>4 DEF Extends
    <3> QED BY <3>1, LinkAppended
  <2> QED BY <2>0, <2>5
<1> HIDE DEF way
<1>10. /\ LogOK(events', n + 2)
       /\ \A x : OwnIn(events', x, n + 1) # {} =>
            OwnIn(events', x, n + 2) # {} /\ LastDir(events', x, n + 2) = LastDir(events', x, n + 1)
  <2>1. PICK m \in Nat : m = n + 1
    OBVIOUS
  <2>2. m + 1 = n + 2 /\ Agree(events', events', m)
    BY <2>1 DEF Agree
  <2>3. events'[m + 1].type # "link"
    BY <1>3, <1>4, <2>2
  <2>4. LogOK(events', m)
    BY <1>9, <2>1
  <2>5. /\ LogOK(events', m + 1)
        /\ \A x : OwnIn(events', x, m) # {} =>
             OwnIn(events', x, m + 1) # {} /\ LastDir(events', x, m + 1) = LastDir(events', x, m)
    BY <2>2, <2>3, <2>4, OtherAppended
  <2> QED BY <2>1, <2>2, <2>5
<1>11. i \in Dirs => \A q \in tree : q[3] = i => q = t
  BY DEF TreeInv
<1>12. tree' \subseteq ({Root} \cup Dirs) \X Names \X (Dirs \cup Files)
  BY <1>5 DEF TreeInv
<1>13. \A q, p \in tree' : q[3] = p[3] /\ q[3] \in Dirs => q = p
  BY <1>5, <1>11 DEF TreeInv
<1>14. \A q \in tree' : q[1] \in Live'
  <2>1. d \in Live'
    BY <1>5, <1>6 DEF Live
  <2>2. ASSUME NEW q \in tree PROVE q[1] \in Live'
    BY <1>5, <2>2 DEF TreeInv, Live
  <2> QED BY <1>5, <2>1, <2>2
<1>15. \A q \in tree' : q[3] \in Dirs => OwnIn(events', q[3], n + 2) # {} /\ LastDir(events', q[3], n + 2) = q[1]
  <2>1. ASSUME NEW q \in tree, q # t, q[3] \in Dirs
        PROVE  OwnIn(events', q[3], n + 2) # {} /\ LastDir(events', q[3], n + 2) = q[1]
    <3>1. q[3] # i
      BY <2>1, <1>11
    <3>2. OwnIn(events, q[3], n) # {} /\ LastDir(events, q[3], n) = q[1]
      BY <2>1 DEF TreeInv
    <3> QED BY <1>9, <1>10, <3>1, <3>2
  <2>2. OwnIn(events', i, n + 2) # {} /\ LastDir(events', i, n + 2) = d
    BY <1>9, <1>10
  <2> QED BY <1>5, <2>1, <2>2
<1> QED BY <1>3, <1>10, <1>12, <1>13, <1>14, <1>15 DEF TreeInv, LogOK

LEMMA SameLengthTree ==
  ASSUME LinkInv, TreeInv, UNCHANGED tree, Len(events') = Len(events), Agree(events, events', Len(events))
  PROVE  TreeInv'
<1> PICK n \in Nat : n = Len(events)
  BY DEF LinkInv
<1>1. /\ \A i : OwnIn(events', i, n) = OwnIn(events, i, n)
      /\ \A i : OwnIn(events, i, n) # {} => LastDir(events', i, n) = LastDir(events, i, n)
  BY AgreeFacts
<1>2. \A k \in 0..n : \A S : CycleIn(events', S, k) <=> CycleIn(events, S, k)
  BY AgreeFacts
<1>3. RootFirst(events', n)
  BY DEF TreeInv, RootFirst, Agree
<1>4. Live' = Live
  BY DEF Live
<1> QED BY <1>1, <1>2, <1>3, <1>4 DEF TreeInv

LEMMA WorldStepTree ==
  ASSUME LinkInv, TreeInv, LinkWorld
  PROVE  TreeInv'
<1>1. ASSUME NEW t, Import(t) PROVE TreeInv'
  <2> PICK n \in Nat : n = Len(events)
    BY DEF LinkInv
  <2> PICK e : e = Link(t, "open")
    OBVIOUS
  <2>1. events' = Append(events, e) /\ UNCHANGED tree /\ e.imported
    BY <1>1 DEF Import, Link
  <2>2. events \in Seq(LinkRecord)
    BY DEF LinkInv
  <2>3. /\ Len(events') = n + 1 /\ events'[n + 1] = e
        /\ \A k \in 1..n : events'[k] = events[k]
    BY <2>1, <2>2
  <2>4. Agree(events, events', n)
    BY <2>3 DEF Agree
  <2>5. /\ LogOK(events', n + 1)
        /\ \A x : OwnIn(events, x, n) # {} =>
             OwnIn(events', x, n + 1) # {} /\ LastDir(events', x, n + 1) = LastDir(events, x, n)
    <3>1. LogOK(events, n) /\ ~(events'[n + 1].type = "link" /\ ~events'[n + 1].imported)
      BY <2>1, <2>3, TreeLog
    <3> QED BY <2>4, <3>1, OtherAppended
  <2>6. Live' = Live
    BY <2>1 DEF Live
  <2> QED BY <2>1, <2>3, <2>5, <2>6 DEF TreeInv, LogOK
<1>2. ASSUME CommitImport PROVE TreeInv'
  <2>1. UNCHANGED tree
        /\ events' = [n \in DOMAIN events |-> IF events[n].status = "open" THEN [events[n] EXCEPT !.status = "in"]
                                              ELSE events[n]]
    BY <1>2 DEF CommitImport
  <2>2. events \in Seq(LinkRecord)
    BY DEF LinkInv
  <2>3. \A n \in DOMAIN events : events[n] \in LinkRecord
    BY <2>2
  <2>4. \A n \in DOMAIN events :
          /\ events'[n] \in LinkRecord /\ events'[n].type = events[n].type /\ events'[n].dir = events[n].dir
          /\ events'[n].inode = events[n].inode /\ events'[n].imported = events[n].imported
    BY <2>1, <2>3 DEF LinkRecord
  <2>5. Len(events') = Len(events) /\ DOMAIN events = 1..Len(events)
    BY <2>1, <2>2
  <2>6. Agree(events, events', Len(events))
    BY <2>4, <2>5 DEF Agree
  <2> QED BY <2>1, <2>5, <2>6, SameLengthTree
<1> QED BY <1>1, <1>2, MakeEntryTree, RemoveEntryTree, RenameTree DEF LinkWorld

LEMMA PickleStepTree ==
  ASSUME TreeInv, UNCHANGED <<tree, events>>
  PROVE  TreeInv'
<1>1. Live' = Live
  BY DEF Live
<1> QED BY <1>1 DEF TreeInv

\* In the beginning: what the first records say is Tree0, in any order.
LEMMA InitLinks == ReaderInit => LinkInv /\ TreeInv
<1> SUFFICES ASSUME ReaderInit PROVE LinkInv /\ TreeInv
  OBVIOUS
<1>1. CASE tool # "pickle_links"
  <2>1. /\ tree = {} /\ events = <<>> /\ lstep = "done" /\ max_eventid = 0
        /\ link_rows = {} /\ unlink_rows = {} /\ dentry_map = <<>>
    BY <1>1 DEF ReaderInit
  <2>2. DOMAIN events = {} /\ Len(events) = 0 /\ events \in Seq(LinkRecord) /\ DOMAIN dentry_map = {}
    BY <2>1
  <2>3. LinkInv
    BY <2>1, <2>2 DEF LinkInv, SelectsLinks, EntriesAreLastLinks, LinksOf, Visible, Steps4
  <2>4. TreeInv
    BY <2>1, <2>2 DEF TreeInv, RootFirst, CycleIn, OwnIn
  <2> QED BY <2>3, <2>4
<1>2. CASE tool = "pickle_links"
  <2>1. /\ tree = Tree0 /\ lstep = "off" /\ max_eventid = 0
        /\ link_rows = {} /\ unlink_rows = {} /\ dentry_map = <<>>
    BY <1>2 DEF ReaderInit, LinkInit
  <2>2. PICK s \in Orders :
          events = <<Link(RootLink, "in")>> \o [n \in 1..Cardinality(Tree0) |-> Link(s[n], "in")]
    BY <1>2 DEF ReaderInit, LinkInit
  <2> PICK k \in Nat : k = Cardinality(Tree0)
    BY TreeAssumption, FS_CardinalityType
  <2>3. /\ s \in [1..k -> Tree0] /\ \A t \in Tree0 : \E n \in 1..k : s[n] = t
    BY <2>2 DEF Orders
  <2> DEFINE links == [n \in 1..k |-> Link(s[n], "in")]
             rl == Link(RootLink, "in")
  <2>4. \A n \in 1..k : /\ links[n] \in LinkRecord /\ links[n].type = "link" /\ ~links[n].imported
                        /\ links[n].dir = s[n][1] /\ links[n].inode = s[n][3] /\ links[n].status = "in"
                        /\ s[n] \in Tree0
    <3> SUFFICES ASSUME NEW n \in 1..k
                 PROVE  /\ links[n] \in LinkRecord /\ links[n].type = "link" /\ ~links[n].imported
                        /\ links[n].dir = s[n][1] /\ links[n].inode = s[n][3] /\ links[n].status = "in"
                        /\ s[n] \in Tree0
      OBVIOUS
    <3>1. s[n] \in Tree0
      BY <2>3
    <3>2. PICK d \in {Root} \cup Dirs, name \in Names, i \in Dirs \cup Files : s[n] = <<d, name, i>>
      BY <3>1, TreeAssumption
    <3>3. PICK e : e = links[n]
      OBVIOUS
    <3>4. e = Link(<<d, name, i>>, "in")
      BY <3>2, <3>3
    <3>5. e \in LinkRecord /\ e.type = "link" /\ ~e.imported /\ e.dir = d /\ e.inode = i /\ e.status = "in"
      BY <3>4 DEF Link, LinkRecord
    <3> HIDE DEF links
    <3> QED BY <3>1, <3>2, <3>3, <3>5
  <2>5. /\ rl \in LinkRecord /\ rl.type = "link" /\ ~rl.imported /\ rl.dir = NoParent /\ rl.inode = Root
        /\ rl.status = "in"
    BY DEF Link, RootLink, LinkRecord
  <2>6. links \in Seq(LinkRecord) /\ Len(links) = k
    <3>1. links \in [1..k -> LinkRecord]
      BY <2>4
    <3> HIDE DEF links
    <3> QED BY <3>1
  <2>7. events = <<rl>> \o links
    BY <2>2
  <2> HIDE DEF links, rl
  <2>8. /\ events \in Seq(LinkRecord) /\ Len(events) = k + 1 /\ events[1] = rl
        /\ \A n \in 1..k : events[n + 1] = links[n]
    BY <2>5, <2>6, <2>7
  <2>9. /\ DOMAIN events = 1..(k + 1)
        /\ \A n \in 1..(k + 1) : n = 1 \/ (n - 1 \in 1..k /\ events[n] = links[n - 1])
    <3>1. \A n \in 1..(k + 1) : n # 1 => n - 1 \in 1..k /\ (n - 1) + 1 = n
      OBVIOUS
    <3> QED BY <2>8, <3>1
  <2>10. \A n \in 1..(k + 1) :
           /\ events[n].status = "in" /\ events[n].type = "link" /\ ~events[n].imported
           /\ n = 1 \/ \E t \in Tree0 : events[n].dir = t[1] /\ events[n].inode = t[3]
    <3> SUFFICES ASSUME NEW n \in 1..(k + 1)
                 PROVE  /\ events[n].status = "in" /\ events[n].type = "link" /\ ~events[n].imported
                        /\ n = 1 \/ \E t \in Tree0 : events[n].dir = t[1] /\ events[n].inode = t[3]
      OBVIOUS
    <3>1. CASE n = 1
      BY <2>5, <2>8, <3>1
    <3>2. CASE n # 1
      <4>1. PICK j \in 1..k : events[n] = links[j]
        BY <2>9, <3>2
      <4> QED BY <2>4, <4>1
    <3> QED BY <3>1, <3>2
  <2>11. LinkInv
    BY <2>1, <2>8, <2>9, <2>10 DEF LinkInv, SelectsLinks, EntriesAreLastLinks, Steps4
  <2>12. ASSUME NEW n \in 0..(k + 1), NEW x \in Dirs, OwnIn(events, x, n) # {}
         PROVE  \E t \in Tree0 : t[3] = x /\ LastDir(events, x, n) = t[1]
    <3> DEFINE T == OwnIn(events, x, n)
    <3>1. T \subseteq 0..n /\ T \subseteq 1..(k + 1)
      BY DEF OwnIn
    <3>2. Largest(T) \in T
      <4> HIDE DEF T
      <4> QED BY <2>12, <3>1, LargestNumber DEF T
    <3> PICK m : m = Largest(T)
      OBVIOUS
    <3>3. m \in 1..(k + 1) /\ events[m].inode = x /\ LastDir(events, x, n) = events[m].dir
      BY <3>1, <3>2 DEF OwnIn, LastDir
    <3>4. m # 1
      BY <2>5, <2>8, <3>3, LinksAssumption
    <3> QED BY <2>10, <3>3, <3>4
  <2>13. \A t \in Tree0 : OwnIn(events, t[3], k + 1) # {}
    <3> SUFFICES ASSUME NEW t \in Tree0 PROVE OwnIn(events, t[3], k + 1) # {}
      OBVIOUS
    <3>1. PICK n \in 1..k : s[n] = t
      BY <2>3
    <3>2. n + 1 \in 1..(k + 1) /\ events[n + 1] = links[n] /\ links[n].inode = t[3]
      BY <2>4, <2>8, <3>1
    <3> QED BY <2>10, <3>2 DEF OwnIn
  <2>14. RootFirst(events, k + 1)
    BY <2>5, <2>8, <2>10, TreeAssumption, LinksAssumption DEF RootFirst
  <2>15. ASSUME NEW n \in 0..(k + 1), NEW S, CycleIn(events, S, n) PROVE FALSE
    <3>1. RootFirst(events, n) /\ n \in Nat
      BY <2>14 DEF RootFirst
    <3>2. Root \notin S
      BY <2>15, <3>1, RootInNone
    <3>3. \A x \in S : \E m \in 1..(k + 1) : events[m].inode = x /\ events[m].dir = LastDir(events, x, n)
      <4> SUFFICES ASSUME NEW x \in S
                   PROVE  \E m \in 1..(k + 1) : events[m].inode = x /\ events[m].dir = LastDir(events, x, n)
        OBVIOUS
      <4> DEFINE T == OwnIn(events, x, n)
      <4>1. T \subseteq 0..n /\ T \subseteq 1..(k + 1) /\ T # {} /\ n \in Nat
        BY <2>15 DEF OwnIn, CycleIn
      <4>2. Largest(T) \in T
        <5> HIDE DEF T
        <5> QED BY <4>1, LargestNumber
      <4> QED BY <4>1, <4>2 DEF OwnIn, LastDir
    <3>4. \A x \in S : LastDir(events, x, n) \in S \cap Dirs
      <4> SUFFICES ASSUME NEW x \in S PROVE LastDir(events, x, n) \in S \cap Dirs
        OBVIOUS
      <4>1. PICK m \in 1..(k + 1) : events[m].inode = x /\ events[m].dir = LastDir(events, x, n)
        BY <3>3
      <4>2. m # 1
        BY <2>5, <2>8, <3>2, <4>1
      <4>3. events[m].dir \in {Root} \cup Dirs
        BY <2>10, <4>2, TreeAssumption
      <4>4. LastDir(events, x, n) \in S
        BY <2>15 DEF CycleIn
      <4> QED BY <3>2, <4>1, <4>3, <4>4
    <3> DEFINE D == S \cap Dirs
    <3>5. D # {} /\ D \in SUBSET Dirs
      BY <2>15, <3>4 DEF CycleIn
    <3>6. PICK t \in Tree0 : t[3] \in D /\ t[1] \notin D
      <4> HIDE DEF D
      <4> QED BY <3>5, TreeAssumption
    <3>7. OwnIn(events, t[3], n) # {}
      BY <2>15, <3>6 DEF CycleIn
    <3>8. PICK q \in Tree0 : q[3] = t[3] /\ LastDir(events, t[3], n) = q[1]
      BY <2>12, <3>6, <3>7
    <3>9. q = t
      BY <3>6, <3>8, TreeAssumption
    <3> QED BY <3>4, <3>6, <3>8, <3>9
  <2>16. \A t \in tree : t[1] \in Live
    BY <2>1, TreeAssumption DEF Live
  <2>17. \A t \in tree : t[3] \in Dirs => /\ OwnIn(events, t[3], k + 1) # {}
                                          /\ LastDir(events, t[3], k + 1) = t[1]
    <3> SUFFICES ASSUME NEW t \in Tree0, t[3] \in Dirs
                 PROVE  OwnIn(events, t[3], k + 1) # {} /\ LastDir(events, t[3], k + 1) = t[1]
      BY <2>1
    <3>1. OwnIn(events, t[3], k + 1) # {}
      BY <2>13
    <3>2. PICK q \in Tree0 : q[3] = t[3] /\ LastDir(events, t[3], k + 1) = q[1]
      BY <2>12, <3>1
    <3> QED BY <3>1, <3>2, TreeAssumption
  <2>18. TreeInv
    BY <2>1, <2>8, <2>14, <2>15, <2>16, <2>17, TreeAssumption DEF TreeInv
  <2> QED BY <2>11, <2>18
<1> QED BY <1>1, <1>2

LEMMA StepLinks ==
  ASSUME LinkInv, TreeInv, [ReaderNext]_readerVars
  PROVE  LinkInv' /\ TreeInv'
<1>1. CASE UNCHANGED linkVars
  <2>1. UNCHANGED <<tree, events, lstep, max_eventid, max_unlink, link_rows, unlink_rows, dentry_map>>
    BY <1>1 DEF linkVars
  <2>2. LinkInv'
    BY <2>1 DEF LinkInv, SelectsLinks, EntriesAreLastLinks, LinksOf, Visible
  <2> QED BY <2>1, <2>2, PickleStepTree
<1>2. CASE LinkStep
  <2>1. lstep \notin {"done", "failed"} /\ (LinkWorld \/ Pickle)
    BY <1>2 DEF LinkStep, LinkNext
  <2>2. CASE LinkWorld
    BY <2>1, <2>2, WorldStepLinks, WorldStepTree, TreeAssumption
  <2>3. CASE Pickle
    <3>1. UNCHANGED <<tree, events>>
      BY <2>3 DEF Pickle, MaxLink, MaxUnlink, SelectLinks, SelectUnlinks, Replay
    <3> QED BY <2>1, <2>3, <3>1, PickleStepLinks, PickleStepTree
  <2> QED BY <2>1, <2>2, <2>3
<1> QED BY <1>1, <1>2 DEF ReaderNext, Import_pkl, QueryStep, ToolStep, Commit, readerVars

\* pickle_links: in every interleaving with the log, an import and lost rows, each
\* entry of the map is the last link of its inode below the largest number; and none
\* is missing if no link was taken for a removal.
THEOREM MapHoldsLastLinks == ReaderSpec => []EntriesAreLastLinks
<1> DEFINE Inv == LinkInv /\ TreeInv
<1>1. ReaderInit => Inv
  BY InitLinks
<1>2. Inv /\ [ReaderNext]_readerVars => Inv'
  BY StepLinks
<1>3. Inv => EntriesAreLastLinks
  BY DEF LinkInv
<1> HIDE DEF Inv
<1> QED BY <1>1, <1>2, <1>3, PTL DEF ReaderSpec

LEMMA NoneLostIn ==
  ASSUME With("lost") = 0, events \in Seq(LinkRecord)
  PROVE  \A n \in DOMAIN events : events[n].status # "lost"
<1> DEFINE L == {n \in DOMAIN events : events[n].status = "lost"}
<1>1. IsFiniteSet(L)
  <2>1. L \subseteq 1..Len(events) /\ Len(events) \in Nat
    OBVIOUS
  <2> HIDE DEF L
  <2>2. IsFiniteSet(1..Len(events))
    BY <2>1, FS_Interval
  <2> QED BY <2>1, <2>2, FS_Subset
<1>2. Cardinality(L) = 0
  BY DEF With
<1>3. L = {}
  <2> HIDE DEF L
  <2> QED BY <1>1, <1>2, FS_EmptySet
<1> QED BY <1>3

\* The map of a log from which nothing is missing has no entries that lead to none
\* but each other.
LEMMA NoRound ==
  ASSUME LinkInv, TreeInv, lstep = "done", With("lost") = 0, \A n \in Visible : ~events[n].imported,
         NEW round, round \subseteq DOMAIN dentry_map, round # {}
  PROVE  \E j \in round : dentry_map[j].inode_dir \notin round
<1> SUFFICES ASSUME \A j \in round : dentry_map[j].inode_dir \in round PROVE FALSE
  OBVIOUS
<1>1. events \in Seq(LinkRecord) /\ Len(events) \in Nat /\ DOMAIN events = 1..Len(events)
      /\ max_eventid \in 0..Len(events) /\ SelectsLinks
  BY DEF LinkInv
<1>2. \A m \in DOMAIN events : ~events[m].imported => events[m].status = "in"
  <2>1. \A m \in DOMAIN events : events[m] \in LinkRecord /\ events[m].status # "lost"
    BY <1>1, NoneLostIn
  <2>2. \A m \in DOMAIN events : events[m].status = "open" => events[m].imported
    BY DEF LinkInv
  <2> QED BY <2>1, <2>2 DEF LinkRecord
<1>3. round # {} => max_eventid # 0
  <2>1. \A i \in DOMAIN dentry_map : LinksOf(i) # {}
    BY DEF LinkInv, EntriesAreLastLinks
  <2> QED BY <1>1, <2>1 DEF LinksOf, Visible, SelectsLinks
<1> PICK n \in Nat : n = max_eventid - 1
  BY <1>1, <1>3
<1>4. n \in 0..Len(events) /\ \A m \in Nat : m < max_eventid <=> m <= n
  BY <1>1
<1>5. \A i : LinksOf(i) = OwnIn(events, i, n)
  <2>1. ASSUME NEW i, NEW m \in LinksOf(i) PROVE m \in OwnIn(events, i, n)
    <3>1. m \in link_rows /\ m < max_eventid /\ events[m].inode = i /\ ~events[m].imported
      BY <2>1 DEF LinksOf, Visible
    <3>2. m \in 1..n /\ events[m].type = "link"
      BY <1>1, <1>4, <3>1 DEF SelectsLinks
    <3> QED BY <3>1, <3>2 DEF OwnIn
  <2>2. ASSUME NEW i, NEW m \in OwnIn(events, i, n) PROVE m \in LinksOf(i)
    <3>1. m \in 1..n /\ events[m].type = "link" /\ ~events[m].imported /\ events[m].inode = i
      BY <2>2 DEF OwnIn
    <3>2. m \in 1..max_eventid /\ m \in DOMAIN events /\ m < max_eventid
      BY <1>1, <1>4, <3>1
    <3>3. m \in link_rows
      BY <1>2, <3>1, <3>2 DEF LinkInv
    <3> QED BY <3>1, <3>2, <3>3 DEF LinksOf, Visible
  <2>3. \A i : LinksOf(i) \subseteq OwnIn(events, i, n) /\ OwnIn(events, i, n) \subseteq LinksOf(i)
    BY <2>1, <2>2
  <2>4. ASSUME NEW A, NEW B, A \subseteq B, B \subseteq A PROVE A = B
    BY <2>4
  <2> QED BY <2>3, <2>4
<1>6. ASSUME NEW j \in round PROVE OwnIn(events, j, n) # {} /\ LastDir(events, j, n) \in round
  <2>1. /\ LinksOf(j) # {}
        /\ dentry_map[j] = [inode_dir |-> events[Largest(LinksOf(j))].dir,
                            fname |-> events[Largest(LinksOf(j))].fname]
    BY <1>6 DEF LinkInv, EntriesAreLastLinks
  <2>2. dentry_map[j].inode_dir = events[Largest(LinksOf(j))].dir
    BY <2>1
  <2> QED BY <1>5, <2>1, <2>2 DEF LastDir
<1>7. CycleIn(events, round, n)
  BY <1>6 DEF CycleIn
<1> QED BY <1>4, <1>7 DEF TreeInv

\* label_inodes comes to an end for every file system and every order of its records,
\* the import's and pickle_links' statements, if nothing was lost or imported.
THEOREM LabelsComeToAnEnd == ReaderSpec => []LabelsEnd
<1> DEFINE Inv == LinkInv /\ TreeInv
<1>1. ReaderInit => Inv
  BY InitLinks
<1>2. Inv /\ [ReaderNext]_readerVars => Inv'
  BY StepLinks
<1>3. Inv => LabelsEnd
  <2> SUFFICES ASSUME Inv, lstep = "done", With("lost") = 0, \A n \in Visible : ~events[n].imported,
                      NEW i, label_inodes_hangs(i)
               PROVE  FALSE
    BY DEF LabelsEnd
  <2>1. PICK round \in SUBSET DOMAIN dentry_map :
          i \in round /\ \A j \in round : dentry_map[j].inode_dir \in round
    BY DEF label_inodes_hangs
  <2> QED BY <2>1, NoRound
<1> HIDE DEF Inv
<1> QED BY <1>1, <1>2, <1>3, PTL DEF ReaderSpec

=============================================================================
