--------------------------- MODULE PgProvdProofs ---------------------------
(***************************************************************************)
(* Proofs about PgProvd for every set of records and every value of the    *)
(* bounds.  The inductive invariant IInv is PgProvd's; one lemma per part  *)
(* of it shows that a step keeps the part.                                 *)
(***************************************************************************)
EXTENDS PgProvd, TLAPS

LEMMA TypeCorrectInit == Init => TypeOK
<1> SUFFICES ASSUME Init PROVE TypeOK
  OBVIOUS
<1>1. log \in Seq(Records) /\ Len(log) = 0
  BY DEF Init
<1>2. stopping \in BOOLEAN /\ oneShot \in BOOLEAN
  BY Zenon DEF Init
<1>3. txn \in Rows /\ db \in Rows
  BY DEF Init, Rows, NoRows
<1> QED
  BY <1>1, <1>2, <1>3, BoundsAssumption DEF Init, TypeOK

\* Every field of every state has its type (the counters of the environment
\* included): the relay's read position never passes its end, the settled
\* records never pass the read ones.
THEOREM TypeCorrect == Spec => []TypeOK
<1>1. Init => TypeOK
  BY TypeCorrectInit
<1>2. TypeOK /\ [Next]_vars => TypeOK'
  <2> SUFFICES ASSUME TypeOK, [Next]_vars PROVE TypeOK'
    OBVIOUS
  <2> USE BoundsAssumption DEF TypeOK, Rows, NoRows, Row
  <2>1. ASSUME NEW r \in Records, Emit(r) PROVE TypeOK'
    BY <2>1 DEF Emit, daemon, store, bounds
  <2>2. CASE ForeignInsert
    BY <2>2 DEF ForeignInsert, daemon
  <2>3. CASE DbDown
    BY <2>3 DEF DbDown, Fault, daemon
  <2>4. CASE Signal
    BY <2>4 DEF Signal, store, bounds
  <2>5. CASE Start
    <3>1. stopping' \in BOOLEAN /\ oneShot' \in BOOLEAN
      BY <2>5, Zenon DEF Start
    <3> QED
      BY <2>5, <3>1 DEF Start, Fault
  <2>6. CASE StartFails
    BY <2>6 DEF StartFails, Fault, store
  <2>7. CASE ReadFails
    BY <2>7 DEF ReadFails, Fault, Exit
  <2>8. CASE Kill
    BY <2>8 DEF Kill, Fault, Exit
  <2>9. CASE Begin
    BY <2>9 DEF Begin, Exit, bounds
  <2>10. CASE ReadRecord
    BY <2>10 DEF ReadRecord, Dispatch, Exit, bounds
  <2>11. CASE InsertMain
    BY <2>11 DEF InsertMain, Exit, bounds
  <2>12. CASE InsertDetail
    BY <2>12 DEF InsertDetail, Exit, bounds
  <2>13. CASE Drained
    BY <2>13 DEF Drained, Fault, store
  <2>14. CASE End
    BY <2>14 DEF End, bounds
  <2>15. CASE Check
    BY <2>15 DEF Check, Fault, Exit
  <2>16. CASE Wake
    BY <2>16 DEF Wake, Fault, Exit
  <2>17. CASE UNCHANGED vars
    BY <2>17 DEF vars, daemon, store, bounds
  <2> QED
    BY <2>1, <2>2, <2>3, <2>4, <2>5, <2>6, <2>7, <2>8, <2>9, <2>10, <2>11, <2>12,
       <2>13, <2>14, <2>15, <2>16, <2>17 DEF Next, Step
<1> QED
  BY <1>1, <1>2, PTL DEF Spec

\* The open transaction holds exactly the records read since the last settled one.
LEMMA TxnStep ==
  ASSUME IInv, TypeOK', [Next]_vars
  PROVE  TxnHoldsBatch'
<1> USE DEF IInv, TypeOK, TxnHoldsBatch, InTxn, NoRows
<1>1. ASSUME NEW r \in Records, Emit(r) PROVE TxnHoldsBatch'
  BY <1>1 DEF Emit, daemon, store, bounds
<1>2. CASE ForeignInsert
  BY <1>2 DEF ForeignInsert, daemon
<1>3. CASE DbDown
  BY <1>3 DEF DbDown, Fault, daemon
<1>4. CASE Signal
  BY <1>4 DEF Signal, store, bounds
<1>5. CASE Start
  BY <1>5 DEF Start
<1>6. CASE StartFails
  BY <1>6 DEF StartFails, store
<1>7. CASE ReadFails
  BY <1>7 DEF ReadFails, Exit
<1>8. CASE Kill
  BY <1>8 DEF Kill, Exit
<1>9. CASE Begin
  BY <1>9 DEF Begin, Exit
<1>10. CASE ReadRecord
  <2>1. CASE Handled(log[rd + 1])
    <3>1. /\ pc = "read" /\ pc' = "insert" /\ rd' = rd + 1
          /\ UNCHANGED <<conn, txn, base>>
      BY <1>10, <2>1 DEF ReadRecord, Dispatch
    <3>2. CASE conn = "ok"
      <4>1. /\ \A r \in txn.main : r.ev \in (base + 1)..rd
            /\ \A e \in (base + 1)..rd : \E r \in txn.main : r.ev = e
        BY <3>1, <3>2
      <4>2. rd' - 1 = rd /\ base' < rd'
        BY <3>1
      <4> QED
        BY <3>1, <3>2, <4>1, <4>2
    <3>3. CASE conn = "bad"
      BY <3>1, <3>3
    <3> QED
      BY <3>2, <3>3
  <2>2. CASE ~Handled(log[rd + 1])
    <3>1. /\ pc' = "off" /\ txn' = NoRows /\ base' = rd' /\ UNCHANGED conn
      BY <1>10, <2>2 DEF ReadRecord, Dispatch, Exit
    <3> QED
      BY <3>1, <1>10 DEF ReadRecord
  <2> QED
    BY <2>1, <2>2
<1>11. CASE InsertMain
  <2> DEFINE new == [eid |-> seq + 1, ev |-> rd]
  <2>1. CASE conn = "ok"
    <3>1. /\ pc = "insert" /\ pc' = "detail" /\ conn' = "ok"
          /\ UNCHANGED <<rd, base>>
      BY <1>11, <2>1 DEF InsertMain
    <3>2. txn'.main = txn.main \cup {new}
      BY <1>11, <2>1 DEF InsertMain, Rows
    <3>3. /\ \A r \in txn.main : r.ev \in (base + 1)..(rd - 1)
          /\ \A e \in (base + 1)..(rd - 1) : \E r \in txn.main : r.ev = e
          /\ base < rd
      BY <2>1, <3>1
    <3>4. \A r \in txn'.main : r.ev \in (base + 1)..rd
      BY <3>2, <3>3
    <3>5. \A e \in (base + 1)..rd : \E r \in txn'.main : r.ev = e
      <4> SUFFICES ASSUME NEW e \in (base + 1)..rd PROVE \E r \in txn'.main : r.ev = e
        OBVIOUS
      <4>1. CASE e = rd
        <5>1. new \in txn'.main /\ new.ev = e
          BY <4>1, <3>2
        <5> QED
          BY <5>1
      <4>2. CASE e # rd
        <5>1. e \in (base + 1)..(rd - 1)
          BY <4>2
        <5> QED
          BY <5>1, <3>2, <3>3
      <4> QED
        BY <4>1, <4>2
    <3> QED
      BY <3>1, <3>3, <3>4, <3>5
  <2>2. CASE conn = "bad"
    BY <1>11, <2>2 DEF InsertMain, Exit
  <2> QED
    BY <2>1, <2>2
<1>12. CASE InsertDetail
  <2>1. CASE pc' = "read"
    <3>1. /\ pc = "detail" /\ conn = "ok" /\ UNCHANGED <<rd, base, conn>>
      BY <1>12, <2>1 DEF InsertDetail, Exit
    <3>2. txn'.main = txn.main
      BY <1>12, <2>1 DEF InsertDetail, Exit, Rows
    <3> QED
      BY <2>1, <3>1, <3>2
  <2>2. CASE pc' # "read"
    BY <1>12, <2>2 DEF InsertDetail, Exit
  <2> QED
    BY <2>1, <2>2
<1>13. CASE Drained
  BY <1>13 DEF Drained, store
<1>14. CASE End
  <2>1. CASE conn = "ok"
    <3>1. /\ pc' = "check" /\ txn' = NoRows /\ base' = rd /\ rd' = rd /\ conn' = "ok"
      BY <1>14, <2>1 DEF End
    <3>2. (rd + 1)..rd = {}
      OBVIOUS
    <3>3. txn'.main = {}
      BY <3>1
    <3>4. InTxn' = {}
      BY <3>1, <3>2
    <3> HIDE DEF InTxn
    <3> QED
      BY <3>1, <3>3, <3>4
  <2>2. CASE conn = "bad"
    BY <1>14, <2>2 DEF End
  <2> QED
    BY <2>1, <2>2
<1>15. CASE Check
  BY <1>15 DEF Check, Exit
<1>16. CASE Wake
  BY <1>16 DEF Wake, Exit
<1>17. CASE UNCHANGED vars
  BY <1>17 DEF vars, daemon, store, bounds
<1> QED
  BY <1>1, <1>2, <1>3, <1>4, <1>5, <1>6, <1>7, <1>8, <1>9, <1>10, <1>11, <1>12, <1>13, <1>14, <1>15, <1>16, <1>17 DEF Next, Step

\* Both tables hold the same rows, but for the one a handler is half done with.
LEMMA TablesStep ==
  ASSUME IInv, TypeOK', [Next]_vars
  PROVE  TablesAgree'
<1> USE DEF IInv, TypeOK, TablesAgree, TxnHoldsBatch, Half, NoRows
<1>1. ASSUME NEW r \in Records, Emit(r) PROVE TablesAgree'
  BY <1>1 DEF Emit, daemon, store, bounds
<1>2. CASE ForeignInsert
  BY <1>2 DEF ForeignInsert, daemon
<1>3. CASE DbDown
  BY <1>3 DEF DbDown, Fault, daemon
<1>4. CASE Signal
  BY <1>4 DEF Signal, store, bounds
<1>5. CASE Start
  BY <1>5 DEF Start
<1>6. CASE StartFails
  BY <1>6 DEF StartFails, store
<1>7. CASE ReadFails
  BY <1>7 DEF ReadFails, Exit
<1>8. CASE Kill
  BY <1>8 DEF Kill, Exit
<1>9. CASE Begin
  BY <1>9 DEF Begin, Exit
<1>10. CASE ReadRecord
  BY <1>10 DEF ReadRecord, Dispatch, Exit
<1>11. CASE InsertMain
  <2>1. CASE conn = "ok"
    <3>1. /\ pc = "insert" /\ pc' = "detail" /\ eventid' = seq + 1
          /\ UNCHANGED <<rd, db, conn>>
      BY <1>11, <2>1 DEF InsertMain
    <3>2. /\ txn'.main = txn.main \cup {[eid |-> seq + 1, ev |-> rd]}
          /\ txn'.detail = txn.detail
      BY <1>11, <2>1 DEF InsertMain, Rows
    <3> QED
      BY <2>1, <3>1, <3>2
  <2>2. CASE conn = "bad"
    BY <1>11, <2>2 DEF InsertMain, Exit
  <2> QED
    BY <2>1, <2>2
<1>12. CASE InsertDetail
  <2>1. CASE pc' = "read"
    <3>1. /\ pc = "detail" /\ conn = "ok" /\ UNCHANGED <<db, conn>>
      BY <1>12, <2>1 DEF InsertDetail, Exit
    <3>2. /\ txn'.main = txn.main
          /\ txn'.detail = txn.detail \cup {[eid |-> eventid, ev |-> rd]}
      BY <1>12, <2>1 DEF InsertDetail, Exit, Rows
    <3> QED
      BY <2>1, <3>1, <3>2
  <2>2. CASE pc' # "read"
    BY <1>12, <2>2 DEF InsertDetail, Exit
  <2> QED
    BY <2>1, <2>2
<1>13. CASE Drained
  BY <1>13 DEF Drained, store
<1>14. CASE End
  <2>1. CASE conn = "ok"
    <3>1. /\ pc' = "check" /\ txn' = NoRows /\ pc = "end"
          /\ db'.main = db.main \cup txn.main
          /\ db'.detail = db.detail \cup txn.detail
      BY <1>14, <2>1 DEF End
    <3> QED
      BY <3>1
  <2>2. CASE conn = "bad"
    BY <1>14, <2>2 DEF End
  <2> QED
    BY <2>1, <2>2
<1>15. CASE Check
  BY <1>15 DEF Check, Exit
<1>16. CASE Wake
  BY <1>16 DEF Wake, Exit
<1>17. CASE UNCHANGED vars
  BY <1>17 DEF vars, daemon, store, bounds
<1> QED
  BY <1>1, <1>2, <1>3, <1>4, <1>5, <1>6, <1>7, <1>8, <1>9, <1>10, <1>11, <1>12, <1>13, <1>14, <1>15, <1>16, <1>17 DEF Next, Step

\* A row with a number and a record beyond all others keeps the order.
LEMMA OrderExtends ==
  ASSUME NEW S, NEW a \in Nat, NEW b \in Nat,
         \A m \in S : m.eid \in Nat /\ m.ev \in Nat,
         \A m \in S : m.eid < a,
         \A m \in S : m.ev < b,
         \A m, n \in S : m.eid < n.eid <=> m.ev < n.ev
  PROVE  \A m, n \in S \cup {[eid |-> a, ev |-> b]} : m.eid < n.eid <=> m.ev < n.ev
OBVIOUS

\* Numbers and emission order agree over committed and uncommitted rows.
LEMMA OrderStep ==
  ASSUME IInv, TypeOK', [Next]_vars
  PROVE  AllOrdered'
<1> USE DEF IInv, TypeOK, AllOrdered, TxnHoldsBatch, InTxn, NoRows, Rows, Row
<1>1. ASSUME NEW r \in Records, Emit(r) PROVE AllOrdered'
  BY <1>1 DEF Emit, daemon, store, bounds
<1>2. CASE ForeignInsert
  BY <1>2 DEF ForeignInsert, daemon
<1>3. CASE DbDown
  BY <1>3 DEF DbDown, Fault, daemon
<1>4. CASE Signal
  BY <1>4 DEF Signal, store, bounds
<1>5. CASE Start
  BY <1>5 DEF Start
<1>6. CASE StartFails
  BY <1>6 DEF StartFails, store
<1>7. CASE ReadFails
  BY <1>7 DEF ReadFails, Exit
<1>8. CASE Kill
  BY <1>8 DEF Kill, Exit
<1>9. CASE Begin
  BY <1>9 DEF Begin, Exit
<1>10. CASE ReadRecord
  BY <1>10 DEF ReadRecord, Dispatch, Exit
<1>11. CASE InsertMain
  <2> DEFINE new == [eid |-> seq + 1, ev |-> rd]
             all == db.main \cup txn.main
  <2> HIDE DEF all
  <2>1. CASE conn = "ok"
    <3>1. /\ seq' = seq + 1 /\ UNCHANGED <<db, base>> /\ pc = "insert"
          /\ txn'.main = txn.main \cup {new}
      BY <1>11, <2>1 DEF InsertMain
    <3>2. \A m \in all : m.eid \in Nat /\ m.ev \in Nat /\ m.eid <= seq
      BY DEF all
    <3>3. \A m \in all : m.ev < rd
      BY <2>1, <3>1 DEF all
    <3>4. (db'.main \cup txn'.main) = all \cup {new}
      BY <3>1 DEF all
    <3>5. \A m \in all : m.eid < seq + 1
      <4> HIDE DEF IInv, TypeOK, AllOrdered, TxnHoldsBatch
      <4>1. seq \in Nat
        BY DEF IInv, TypeOK
      <4> QED
        BY <3>2, <4>1
    <3>6. \A m, n \in all : m.eid < n.eid <=> m.ev < n.ev
      BY DEF all
    <3>7. seq + 1 \in Nat /\ rd \in Nat
      OBVIOUS
    <3>8. \A m, n \in all \cup {new} : m.eid < n.eid <=> m.ev < n.ev
      <4> HIDE DEF IInv, TypeOK, AllOrdered, TxnHoldsBatch
      <4> QED
        BY <3>2, <3>3, <3>5, <3>6, <3>7, OrderExtends
    <3>9. \A m \in all \cup {new} : m.eid <= seq + 1
      <4> HIDE DEF IInv, TypeOK, AllOrdered, TxnHoldsBatch
      <4>1. \A m \in all : m.eid <= seq + 1
        BY <3>2, <3>5, <3>7
      <4>2. new.eid <= seq + 1
        BY <3>7
      <4> QED
        BY <4>1, <4>2
    <3> QED
      BY <3>1, <3>4, <3>8, <3>9
  <2>2. CASE conn = "bad"
    BY <1>11, <2>2 DEF InsertMain, Exit
  <2> QED
    BY <2>1, <2>2
<1>12. CASE InsertDetail
  <2>1. UNCHANGED <<db, seq>> /\ txn'.main \subseteq txn.main /\ base <= base'
    BY <1>12 DEF InsertDetail, Exit
  <2>2. db'.main \cup txn'.main \subseteq db.main \cup txn.main
    BY <2>1
  <2>3. \A m \in db.main : m.ev <= base'
    BY <2>1
  <2> QED
    BY <2>1, <2>2, <2>3
<1>13. CASE Drained
  BY <1>13 DEF Drained, store
<1>14. CASE End
  BY <1>14 DEF End
<1>15. CASE Check
  BY <1>15 DEF Check, Exit
<1>16. CASE Wake
  BY <1>16 DEF Wake, Exit
<1>17. CASE UNCHANGED vars
  BY <1>17 DEF vars, daemon, store, bounds
<1> QED
  BY <1>1, <1>2, <1>3, <1>4, <1>5, <1>6, <1>7, <1>8, <1>9, <1>10, <1>11, <1>12, <1>13, <1>14, <1>15, <1>16, <1>17 DEF Next, Step

\* The record next in the relay is not stored yet.
LEMMA NextNotStored ==
  ASSUME TypeOK, AllOrdered
  PROVE  ~Stored(rd + 1)
<1>1. \A r \in db.main : r.ev \in Nat /\ r.ev <= base
  BY DEF TypeOK, AllOrdered, Rows, Row
<1>2. base \in Nat /\ rd \in Nat /\ base <= rd
  BY DEF TypeOK
<1> QED
  BY <1>1, <1>2 DEF Stored

\* Reading one more record opens no gap.
LEMMA ReadKeepsNoGap ==
  ASSUME TypeOK, CommitsNoGap, AllOrdered
  PROVE  \A e \in (first + 1)..(rd + 1) :
           Stored(e) => \A f \in (first + 1)..e : Stored(f)
<1>1. first \in Nat /\ rd \in Nat
  BY DEF TypeOK
<1> QED
  BY <1>1, NextNotStored DEF CommitsNoGap

\* A process with a live connection has lost nothing; what it commits has no gap.
LEMMA LifeStep ==
  ASSUME IInv, TypeOK', [Next]_vars
  PROVE  LossesEndTheLife'
<1> USE DEF IInv, TypeOK, LossesEndTheLife, NothingLost, CommitsNoGap, Stored, TxnHoldsBatch, InTxn, NoRows
<1>1. ASSUME NEW r \in Records, Emit(r) PROVE LossesEndTheLife'
  BY <1>1 DEF Emit, daemon, store, bounds
<1>2. CASE ForeignInsert
  BY <1>2 DEF ForeignInsert, daemon
<1>3. CASE DbDown
  BY <1>3 DEF DbDown, Fault, daemon
<1>4. CASE Signal
  BY <1>4 DEF Signal, store, bounds
<1>5. CASE Start
  BY <1>5 DEF Start
<1>6. CASE StartFails
  BY <1>6 DEF StartFails, store
<1>7. CASE ReadFails
  <2>1. /\ pc' = "off" /\ status' = "failed" /\ rd' = rd + 1
        /\ pc = "read" /\ UNCHANGED <<first, db>>
    BY <1>7 DEF ReadFails, Exit
  <2> QED
    BY <2>1, ReadKeepsNoGap
<1>8. CASE Kill
  BY <1>8 DEF Kill, Exit
<1>9. CASE Begin
  BY <1>9 DEF Begin, Exit
<1>10. CASE ReadRecord
  <2>1. /\ pc = "read" /\ rd' = rd + 1 /\ UNCHANGED <<first, db, conn>>
        /\ \/ pc' = "insert" /\ UNCHANGED <<status, base>>
           \/ pc' = "off" /\ status' = "failed"
    BY <1>10 DEF ReadRecord, Dispatch, Exit
  <2> QED
    BY <2>1, ReadKeepsNoGap
<1>11. CASE InsertMain
  BY <1>11 DEF InsertMain, Exit
<1>12. CASE InsertDetail
  BY <1>12 DEF InsertDetail, Exit
<1>13. CASE Drained
  BY <1>13 DEF Drained, store
<1>14. CASE End
  BY <1>14 DEF End
<1>15. CASE Check
  BY <1>15 DEF Check, Exit
<1>16. CASE Wake
  BY <1>16 DEF Wake, Exit
<1>17. CASE UNCHANGED vars
  BY <1>17 DEF vars, daemon, store, bounds
<1> QED
  BY <1>1, <1>2, <1>3, <1>4, <1>5, <1>6, <1>7, <1>8, <1>9, <1>10, <1>11, <1>12, <1>13, <1>14, <1>15, <1>16, <1>17 DEF Next, Step

-----------------------------------------------------------------------------
LEMMA InitIInv == Init => IInv
<1> SUFFICES ASSUME Init PROVE IInv
  OBVIOUS
<1>1. TypeOK
  BY TypeCorrectInit
<1>2. TxnHoldsBatch
  BY DEF Init, TxnHoldsBatch, InTxn, NoRows
<1>3. TablesAgree
  BY DEF Init, TablesAgree, Half, NoRows
<1>4. AllOrdered
  BY DEF Init, AllOrdered, NoRows
<1>5. LossesEndTheLife
  BY DEF Init, LossesEndTheLife, NothingLost, CommitsNoGap
<1> QED
  BY <1>1, <1>2, <1>3, <1>4, <1>5 DEF IInv

LEMMA InductiveInvariant == Spec => []IInv
<1>1. IInv /\ TypeOK' /\ [Next]_vars => IInv'
  BY TxnStep, TablesStep, OrderStep, LifeStep DEF IInv
<1> QED
  BY InitIInv, TypeCorrect, <1>1, PTL DEF Spec

\* Every committed row of main joins with exactly one row of a detail table, made
\* from the same record, and the other way round.
THEOREM CommittedRowsJoin == Spec => []MainDetailMatched
<1>1. IInv => MainDetailMatched
  <2> SUFFICES ASSUME IInv PROVE MainDetailMatched
    OBVIOUS
  <2>1. db.main = db.detail /\ \A m \in db.main : m.eid \in Nat /\ m.ev \in Nat
    BY DEF IInv, TypeOK, TablesAgree, Rows, Row
  <2>2. \A m, n \in db.main : m.eid < n.eid <=> m.ev < n.ev
    BY DEF IInv, AllOrdered
  <2>3. \A m, n \in db.main : m.eid = n.eid => m.ev = n.ev
    BY <2>1, <2>2
  <2> QED
    BY <2>1, <2>3 DEF MainDetailMatched
<1> QED
  BY InductiveInvariant, <1>1, PTL

\* Event numbers order the committed records as the kernel emitted them, over all
\* lives of the daemon and whatever other sessions draw from the sequence.
THEOREM NumbersFollowEmission == Spec => []EventOrder
<1>1. IInv => EventOrder
  BY DEF IInv, AllOrdered, EventOrder
<1> QED
  BY InductiveInvariant, <1>1, PTL

\* What one process commits is a prefix of what it took out of the relay.
THEOREM PrefixCommitted == Spec => []CommitsNoGap
<1>1. IInv => CommitsNoGap
  BY DEF IInv, LossesEndTheLife
<1> QED
  BY InductiveInvariant, <1>1, PTL

\* A process that returns 0 over a living connection has stored all it read.
THEOREM CleanExitComplete == Spec => []CleanExitLosesNothing
<1>1. IInv => CleanExitLosesNothing
  <2> SUFFICES ASSUME IInv, status = "ok", conn = "ok"
               PROVE  \A e \in (first + 1)..rd : Stored(e)
    BY DEF CleanExitLosesNothing
  <2>1. pc = "off" /\ base = rd
    BY DEF IInv, LossesEndTheLife, TxnHoldsBatch
  <2> QED
    BY <2>1 DEF IInv, LossesEndTheLife, NothingLost
<1> QED
  BY InductiveInvariant, <1>1, PTL

-----------------------------------------------------------------------------
(* Refinement of EventStore *)

\* A step that leaves the kernel's log and the committed rows alone and only
\* settles records that were read loses them as one batch, or is a stutter.
LEMMA SettlingLoses ==
  ASSUME TypeOK, UNCHANGED <<log, db>>, base' \in base..Len(log)
  PROVE  ES!LoseBatch(base')
BY DEF ES!LoseBatch

\* Each step of the daemon, the kernel or the server is a step of EventStore.
LEMMA StepRefines ==
  ASSUME IInv, IInv', [Next]_vars
  PROVE  [ES!ESNext]_<<Len(log), base, {r.ev : r \in db.main}>>
<1> DEFINE Quiet == UNCHANGED <<log, db>> /\ base' \in base..Len(log)
<1>1. ASSUME NEW r \in Records, Emit(r) PROVE ES!ESEmit
  <2>1. log' = Append(log, r) /\ UNCHANGED <<base, db>>
    BY <1>1 DEF Emit, store
  <2>2. Len(log') = Len(log) + 1
    BY <2>1 DEF IInv, TypeOK
  <2> QED
    BY <2>1, <2>2 DEF ES!ESEmit
<1>2. ASSUME End, conn = "ok" PROVE ES!StoreBatch(rd) /\ rd \in base..Len(log)
  <2>1. /\ base' = rd /\ db'.main = db.main \cup txn.main /\ UNCHANGED log /\ pc = "end"
    BY <1>2 DEF End
  <2>2. {r.ev : r \in txn.main} = (base + 1)..rd
    BY <1>2, <2>1 DEF IInv, TxnHoldsBatch, InTxn
  <2>3. {r.ev : r \in db'.main} = {r.ev : r \in db.main} \cup {r.ev : r \in txn.main}
    BY <2>1
  <2>4. rd \in base..Len(log)
    BY DEF IInv, TypeOK
  <2> QED
    BY <2>1, <2>2, <2>3, <2>4 DEF ES!StoreBatch
<1>3. ASSUME End, conn # "ok" PROVE Quiet
  BY <1>3 DEF End, IInv, TypeOK
<1>4. ASSUME ForeignInsert PROVE Quiet
  BY <1>4 DEF ForeignInsert, IInv, TypeOK
<1>5. ASSUME DbDown PROVE Quiet
  BY <1>5 DEF DbDown, IInv, TypeOK
<1>6. ASSUME Signal PROVE Quiet
  BY <1>6 DEF Signal, store, IInv, TypeOK
<1>7. ASSUME Start PROVE Quiet
  BY <1>7 DEF Start, IInv, TypeOK
<1>8. ASSUME StartFails PROVE Quiet
  BY <1>8 DEF StartFails, store, IInv, TypeOK
<1>9. ASSUME ReadFails PROVE Quiet
  BY <1>9 DEF ReadFails, Exit, IInv, TypeOK
<1>10. ASSUME Kill PROVE Quiet
  BY <1>10 DEF Kill, Exit, IInv, TypeOK
<1>11. ASSUME Begin PROVE Quiet
  BY <1>11 DEF Begin, Exit, IInv, TypeOK
<1>12. ASSUME ReadRecord PROVE Quiet
  BY <1>12 DEF ReadRecord, Dispatch, Exit, IInv, TypeOK
<1>13. ASSUME InsertMain PROVE Quiet
  BY <1>13 DEF InsertMain, Exit, IInv, TypeOK
<1>14. ASSUME InsertDetail PROVE Quiet
  BY <1>14 DEF InsertDetail, Exit, IInv, TypeOK
<1>15. ASSUME Drained PROVE Quiet
  BY <1>15 DEF Drained, store, IInv, TypeOK
<1>16. ASSUME Check PROVE Quiet
  BY <1>16 DEF Check, Exit, IInv, TypeOK
<1>17. ASSUME Wake PROVE Quiet
  BY <1>17 DEF Wake, Exit, IInv, TypeOK
<1>18. ASSUME UNCHANGED vars PROVE UNCHANGED <<Len(log), base, {r.ev : r \in db.main}>>
  BY <1>18 DEF vars, store
<1>19. ASSUME Quiet PROVE ES!ESNext
  <2>1. ES!LoseBatch(base')
    BY <1>19, SettlingLoses DEF IInv
  <2> QED
    BY <1>19, <2>1 DEF ES!ESNext
<1> HIDE DEF Quiet
<1>20. ASSUME NEW r \in Records, Emit(r) PROVE ES!ESNext
  BY <1>1, <1>20 DEF ES!ESNext
<1>21. ASSUME End PROVE ES!ESNext
  <2>1. CASE conn = "ok"
    <3>1. ES!StoreBatch(rd) /\ rd \in base..Len(log)
      BY <1>2, <1>21, <2>1
    <3> QED
      BY <3>1 DEF ES!ESNext, ES!StoreBatch
  <2>2. CASE conn # "ok"
    BY <1>3, <1>19, <1>21, <2>2
  <2> QED
    BY <2>1, <2>2
<1>22. ASSUME Next PROVE ES!ESNext
  BY <1>4, <1>5, <1>6, <1>7, <1>8, <1>9, <1>10, <1>11, <1>12, <1>13, <1>14, <1>15,
     <1>16, <1>17, <1>19, <1>20, <1>21, <1>22 DEF Next, Step
<1> QED
  BY <1>18, <1>22

\* The daemon with its relay, its database, its crashes and the other sessions
\* implements the abstract store: batches of consecutive records are stored or
\* lost as a whole, each record once and in order.
THEOREM Refinement == Spec => ImplementsEventStore
<1>1. Init => ES!ESInit
  BY DEF Init, ES!ESInit, NoRows
<1>2. IInv /\ IInv' /\ [Next]_vars => [ES!ESNext]_<<Len(log), base, {r.ev : r \in db.main}>>
  BY StepRefines
<1> QED
  BY <1>1, <1>2, InductiveInvariant, PTL DEF Spec, ImplementsEventStore, ES!ESSpec, ES!esVars
=============================================================================
