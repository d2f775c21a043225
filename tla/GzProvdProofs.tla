--------------------------- MODULE GzProvdProofs ---------------------------
(***************************************************************************)
(* Proofs about GzProvd for any applications, sizes and bounds: what the   *)
(* log holds, what of it survives a crash, and, if the applications'       *)
(* addresses are equally long, that no answer goes astray.                 *)
(*                                                                         *)
(* A step does one of seven things to the log (LogStep); the parts of the  *)
(* invariant about the log are proved for these.                           *)
(***************************************************************************)
EXTENDS GzProvd, TLAPS, FiniteSetTheorems, SequenceTheorems

Entry == Nat \cup Clients
Places == {"off", "funnel", "recv", "lookup", "ack", "commit", "check", "flush", "sleep"}

RelayType ==
  /\ sent \in Nat /\ rd \in Nat /\ cycle \in Nat /\ first \in Nat
  /\ first <= cycle /\ cycle <= rd /\ rd <= sent
  /\ pc \in Places

LogType == file \in Seq(Entry) /\ disk \in Nat /\ disk <= Len(file)

IpcType ==
  /\ sockq \in Seq(Clients) /\ from \in Clients
  /\ namelen \in Nat /\ client_addr \in [1..AddrLen -> Nat]
  /\ state \in [Clients -> {"idle", "waiting", "dead"}] /\ inbox \in [Clients -> Nat]

BoundsType == sends \in Nat /\ lives \in Nat /\ faults \in Nat

TypeOK == RelayType /\ LogType /\ IpcType /\ BoundsType

\* The log has all that this process has read.
Taken ==
  pc # "off" => /\ UnitsUpTo(Len(file)) = rd - first
                /\ \A u \in (first + 1)..rd : \E i \in 1..Len(file) : file[i] = u

\* Once a cycle is over, so is the log on disk.
Flushed == pc = "sleep" => disk = Len(file)

\* An application's record is taken only where no kernel message is cut.
AtBoundary ==
  /\ sent % MsgLen = 0
  /\ pc \in {"lookup", "ack", "commit"} \/ (pc = "recv" /\ ~stopping) => rd % MsgLen = 0

LogInv ==
  /\ LogIsRelayStream /\ AppRecordsAtBoundary /\ CrashLosesOneCycle /\ CleanExitComplete
  /\ Taken /\ Flushed /\ AtBoundary

IInv == TypeOK /\ LogInv

-----------------------------------------------------------------------------
(* The operators the model is built from *)

LEMMA MinOfTwo ==
  ASSUME NEW a \in Int, NEW b \in Int
  PROVE  Min({a, b}) = IF a <= b THEN a ELSE b
BY DEF Min

\* A read takes as many units as are there, or fewer.
LEMMA ReadSize ==
  ASSUME RelayType, NEW n \in 1..Min({BufSize, sent - rd})
  PROVE  n \in Nat \ {0} /\ rd + n <= sent
<1>1. BufSize \in Int /\ sent - rd \in Int
  BY BoundsAssumption DEF RelayType
<1>2. n \in Nat \ {0} /\ n <= sent - rd
  BY <1>1, MinOfTwo
<1> QED BY <1>2 DEF RelayType

LEMMA UnitsTyped ==
  ASSUME rd \in Nat, NEW n \in Nat
  PROVE  Units(n) \in Seq(Entry) /\ Len(Units(n)) = n /\ \A i \in 1..n : Units(n)[i] = rd + i
BY DEF Units, Entry

LEMMA SaveTyped ==
  ASSUME LogType, SaveSome \/ SaveAll
  PROVE  /\ LogType'
         /\ disk <= Len(file') /\ Len(file') <= Len(file)
         /\ \A i \in 1..Len(file') : file'[i] = file[i]
<1>1. CASE SaveAll
  BY <1>1 DEF LogType, SaveAll
<1>2. CASE SaveSome
  <2>1. PICK n \in disk..Len(file) : file' = SubSeq(file, 1, n) /\ disk' = n
    BY <1>2 DEF SaveSome
  <2>2. n \in 0..Len(file)
    BY <2>1 DEF LogType
  <2> QED BY <2>1, <2>2 DEF LogType
<1> QED BY <1>1, <1>2

\* Whole messages in the stream of the kernel end at whole messages.
LEMMA WholeMessages ==
  ASSUME NEW a \in Nat, a % MsgLen = 0
  PROVE  (a + MsgLen) % MsgLen = 0
<1>1. MsgLen \in Nat \ {0}
  BY BoundsAssumption
<1>2. PICK k \in Nat : a = k * MsgLen
  BY <1>1
<1>3. a + MsgLen = (k + 1) * MsgLen /\ k + 1 \in Nat
  BY <1>1, <1>2
<1>4. \A m \in Nat : (m * MsgLen) % MsgLen = 0
  BY <1>1
<1> QED BY <1>3, <1>4

-----------------------------------------------------------------------------
(* Types *)

LEMMA Sizes ==
  /\ AddrLen \in Nat /\ MaxUnits \in Nat /\ MaxSends \in Nat /\ MaxLives \in Nat /\ MaxFaults \in Nat
  /\ MsgLen \in Nat \ {0} /\ BufSize \in Nat \ {0} /\ QueueLen \in Nat \ {0}
BY BoundsAssumption

LEMMA InitType == Init => TypeOK
<1> SUFFICES ASSUME Init PROVE TypeOK
  OBVIOUS
<1>1. RelayType
  BY DEF Init, RelayType, Places
<1>2. LogType
  BY DEF Init, LogType
<1>3. IpcType
  BY Sizes DEF Init, IpcType
<1>4. BoundsType
  BY DEF Init, BoundsType
<1> QED BY <1>1, <1>2, <1>3, <1>4 DEF TypeOK

LEMMA AddressTyped ==
  ASSUME TypeOK, NEW c \in Clients, CopyAddress(c)
  PROVE  namelen' \in Nat /\ client_addr' \in [1..AddrLen -> Nat]
<1>1. /\ Address[c] \in Seq(Nat) /\ Len(Address[c]) \in Nat
      /\ namelen \in Nat /\ client_addr \in [1..AddrLen -> Nat]
  BY AddressAssumption DEF TypeOK, IpcType
<1>2. ASSUME NEW i \in 1..AddrLen, i <= Min({namelen, Len(Address[c])}) PROVE Address[c][i] \in Nat
  <2>1. Min({namelen, Len(Address[c])}) =
          IF namelen <= Len(Address[c]) THEN namelen ELSE Len(Address[c])
    BY <1>1, MinOfTwo
  <2> QED BY <1>1, <1>2, <2>1, Sizes
<1> QED BY <1>1, <1>2 DEF CopyAddress

LEMMA RelayTypeStep == TypeOK /\ [Next]_vars => RelayType'
<1> SUFFICES ASSUME TypeOK, [Next]_vars PROVE RelayType'
  OBVIOUS
<1>0. RelayType
  BY DEF TypeOK
<1> USE <1>0 DEF RelayType, Places, relay, main, marks
<1>1. CASE UNCHANGED vars
  BY <1>1 DEF vars
<1>2. CASE Emit \/ Signal
  BY <1>2, Sizes DEF Emit, Signal
<1>3. ASSUME NEW c \in Clients, Send(c) \/ ReadAck(c) \/ Die(c) PROVE RelayType'
  BY <1>3 DEF Send, ReadAck, Die
<1>4. CASE Start \/ StartFails
  BY <1>4 DEF Start, StartFails
<1>5. CASE FunnelChunk \/ FunnelFails
  <2>1. rd' = rd \/ \E n \in 1..Min({BufSize, sent - rd}) : rd' = rd + n
    BY <1>5 DEF FunnelChunk, FunnelFails
  <2>2. rd' \in Nat /\ rd <= rd' /\ rd' <= sent
    BY <2>1, ReadSize
  <2>3. UNCHANGED <<relay, marks>> /\ pc' \in {"funnel", "off"}
    <3>1. CASE FunnelChunk
      BY <3>1 DEF FunnelChunk, Gone
    <3>2. CASE FunnelFails
      BY <3>2 DEF FunnelFails, Exit, Gone
    <3> QED BY <1>5, <3>1, <3>2
  <2> QED BY <2>2, <2>3
<1>6. CASE FunnelDone \/ Recv \/ Lookup \/ Ack \/ ImaFails \/ Commit
  BY <1>6 DEF FunnelDone, Recv, Lookup, Ack, ImaFails, Commit, Return
<1>7. CASE Check \/ Flush \/ Kill
  BY <1>7 DEF Check, Flush, Kill, Exit, Gone
<1>8. CASE Wake
  BY <1>8 DEF Wake, Exit, Gone
<1> QED BY <1>1, <1>2, <1>3, <1>4, <1>5, <1>6, <1>7, <1>8 DEF Next, Step

\* What a step does to the log and to the marks in the stream.
Keeps(k)   == UNCHANGED <<file, first, cycle, rd>> /\ disk' = k
Empties    == file' = <<>> /\ disk' = 0 /\ first' = rd /\ cycle' = rd /\ UNCHANGED rd
Reads(n)   == /\ pc = "funnel" /\ pc' = "funnel"
              /\ rd' = rd + n /\ file' = file \o Units(n) /\ UNCHANGED <<first, cycle, disk>>
Ends       == pc # "off" /\ pc' = "off" /\ (SaveSome \/ SaveAll) /\ UNCHANGED <<first, cycle>>
Commits    == pc = "commit" /\ file' = Append(file, from) /\ UNCHANGED <<first, cycle, disk, rd>>
Wakes      == pc = "sleep" /\ cycle' = rd /\ UNCHANGED <<file, first, disk, rd>>

LogStep ==
  \/ Keeps(disk) /\ pc' # "sleep" /\ (pc = "off" => pc' = "off")
  \/ Keeps(Len(file)) /\ pc = "flush" /\ pc' = "sleep"
  \/ Keeps(disk) /\ pc' = pc
  \/ Empties /\ pc' # "sleep"
  \/ \E n \in 1..Min({BufSize, sent - rd}) : Reads(n)
  \/ Ends
  \/ Commits /\ pc' = "check"
  \/ Wakes /\ pc' = "funnel"

LEMMA LogSteps == TypeOK /\ [Next]_vars => LogStep
<1> SUFFICES ASSUME TypeOK, [Next]_vars PROVE LogStep
  OBVIOUS
<1> USE DEF LogStep, Keeps, Empties, Reads, Ends, Commits, Wakes, main, log, marks
<1>1. CASE UNCHANGED vars
  BY <1>1 DEF vars
<1>2. CASE Emit \/ Signal
  BY <1>2 DEF Emit, Signal
<1>3. ASSUME NEW c \in Clients, Send(c) \/ ReadAck(c) \/ Die(c) PROVE LogStep
  BY <1>3 DEF Send, ReadAck, Die
<1>4. CASE Start
  BY <1>4 DEF Start
<1>5. CASE StartFails
  BY <1>5 DEF StartFails
<1>6. CASE FunnelChunk
  BY <1>6 DEF FunnelChunk, Gone
<1>7. CASE FunnelFails
  BY <1>7 DEF FunnelFails, Exit, Gone
<1>8. CASE FunnelDone \/ Recv \/ Lookup \/ Ack \/ ImaFails
  BY <1>8 DEF FunnelDone, Recv, Lookup, Ack, ImaFails, Return
<1>9. CASE Commit
  BY <1>9 DEF Commit, Return
<1>10. CASE Check
  BY <1>10 DEF Check, Exit, Gone
<1>11. CASE Flush
  BY <1>11 DEF Flush, Exit, Gone
<1>12. CASE Wake
  BY <1>12 DEF Wake, Exit, Gone
<1>13. CASE Kill
  BY <1>13 DEF Kill, Gone
<1> QED BY <1>1, <1>2, <1>3, <1>4, <1>5, <1>6, <1>7, <1>8, <1>9, <1>10, <1>11, <1>12, <1>13
        DEF Next, Step

LEMMA LogTypeStep == TypeOK /\ [Next]_vars => LogType'
<1> SUFFICES ASSUME TypeOK, [Next]_vars PROVE LogType'
  OBVIOUS
<1>0. LogType /\ RelayType /\ from \in Clients
  BY DEF TypeOK, IpcType
<1>1. CASE Keeps(disk) \/ Keeps(Len(file)) \/ Wakes
  BY <1>0, <1>1 DEF LogType, Keeps, Wakes
<1>2. CASE Empties
  BY <1>2 DEF LogType, Empties
<1>3. ASSUME NEW n \in 1..Min({BufSize, sent - rd}), Reads(n) PROVE LogType'
  <2>1. n \in Nat /\ rd \in Nat
    BY <1>0, ReadSize DEF RelayType
  <2> QED BY <1>0, <1>3, <2>1, UnitsTyped DEF LogType, Reads
<1>4. CASE Ends
  BY <1>0, <1>4, SaveTyped DEF Ends
<1>5. CASE Commits
  BY <1>0, <1>5 DEF LogType, Commits, Entry
<1> QED BY <1>1, <1>2, <1>3, <1>4, <1>5, LogSteps DEF LogStep

LEMMA GoneTyped ==
  ASSUME IpcType, NEW f, Gone(f) \/ Exit(f) \/ UNCHANGED ipc, UNCHANGED apps
  PROVE  IpcType'
<1>1. /\ UNCHANGED <<from, namelen, client_addr, state, inbox>>
      /\ sockq' = <<>> \/ sockq' = sockq
  BY DEF Exit, Gone, ipc, apps
<1>2. sockq \in Seq(Clients) /\ <<>> \in Seq(Clients)
  BY DEF IpcType
<1>3. sockq' \in Seq(Clients)
  BY <1>1, <1>2
<1> QED BY <1>1, <1>3 DEF IpcType

LEMMA IpcTypeStep == TypeOK /\ [Next]_vars => IpcType'
<1> SUFFICES ASSUME TypeOK, [Next]_vars PROVE IpcType'
  OBVIOUS
<1>0. IpcType
  BY DEF TypeOK
<1>1. CASE UNCHANGED vars \/ Emit \/ Signal
  BY <1>0, <1>1, GoneTyped DEF vars, Emit, Signal
<1>2. ASSUME NEW c \in Clients, Send(c) \/ ReadAck(c) \/ Die(c) PROVE IpcType'
  <2>1. CASE Send(c)
    BY <1>0, <2>1 DEF IpcType, Send, ipc
  <2>2. CASE ReadAck(c)
    BY <1>0, <2>2 DEF IpcType, ReadAck, ipc
  <2>3. CASE Die(c)
    BY <1>0, <2>3 DEF IpcType, Die, ipc
  <2> QED BY <1>2, <2>1, <2>2, <2>3
<1>3. CASE Start
  BY <1>0, <1>3, Sizes DEF IpcType, Start, apps
<1>4. CASE StartFails
  BY <1>0, <1>4, GoneTyped DEF StartFails
<1>5. CASE FunnelChunk \/ FunnelFails \/ Kill
  BY <1>0, <1>5, GoneTyped DEF FunnelChunk, FunnelFails, Kill
<1>6. CASE Recv
  <2>1. CASE UNCHANGED ipc
    BY <1>0, <1>6, <2>1, GoneTyped DEF Recv
  <2>2. CASE /\ sockq # <<>> /\ sockq' = Tail(sockq) /\ from' = Head(sockq)
             /\ CopyAddress(Head(sockq))
    <3>1. Head(sockq) \in Clients /\ Tail(sockq) \in Seq(Clients)
      BY <1>0, <2>2 DEF IpcType
    <3> QED BY <1>0, <1>6, <2>2, <3>1, AddressTyped DEF IpcType, Recv, apps
  <2> QED BY <1>6, <2>1, <2>2 DEF Recv
<1>7. CASE FunnelDone \/ Lookup \/ ImaFails \/ Commit
  BY <1>0, <1>7, GoneTyped DEF FunnelDone, Lookup, ImaFails, Commit
<1>8. CASE Ack
  BY <1>0, <1>8 DEF IpcType, Ack, Target, ipc
<1>9. CASE Check
  BY <1>0, <1>9, GoneTyped DEF Check
<1>10. CASE Flush \/ Wake
  BY <1>0, <1>10, GoneTyped DEF Flush, Wake
<1> QED BY <1>1, <1>2, <1>3, <1>4, <1>5, <1>6, <1>7, <1>8, <1>9, <1>10 DEF Next, Step

LEMMA BoundsTypeStep == TypeOK /\ [Next]_vars => BoundsType'
<1> SUFFICES ASSUME TypeOK, [Next]_vars PROVE BoundsType'
  OBVIOUS
<1>0. BoundsType
  BY DEF TypeOK
<1> USE DEF BoundsType, bounds
<1>1. CASE UNCHANGED bounds
  BY <1>0, <1>1
<1>2. CASE Fault /\ UNCHANGED <<sends, lives>>
  BY <1>0, <1>2 DEF Fault
<1>3. ASSUME NEW c \in Clients, Send(c) \/ ReadAck(c) \/ Die(c) PROVE BoundsType'
  BY <1>0, <1>1, <1>2, <1>3 DEF Send, ReadAck, Die
<1>4. CASE Start \/ StartFails
  BY <1>0, <1>4 DEF Start, StartFails, Fault
<1>5. CASE UNCHANGED vars \/ Emit \/ Signal \/ FunnelChunk
  BY <1>1, <1>5 DEF vars, Emit, Signal, FunnelChunk
<1>6. CASE FunnelFails \/ Kill
  BY <1>2, <1>6 DEF FunnelFails, Kill
<1>7. CASE FunnelDone \/ Recv \/ Lookup \/ Ack \/ ImaFails
  BY <1>1, <1>7 DEF FunnelDone, Recv, Lookup, Ack, ImaFails
<1>8. CASE Commit
  BY <1>1, <1>2, <1>8 DEF Commit
<1>9. CASE Check
  BY <1>1, <1>2, <1>9 DEF Check
<1>10. CASE Flush \/ Wake
  BY <1>1, <1>2, <1>10 DEF Flush, Wake
<1> QED BY <1>3, <1>4, <1>5, <1>6, <1>7, <1>8, <1>9, <1>10 DEF Next, Step

LEMMA TypeStep == TypeOK /\ [Next]_vars => TypeOK'
BY RelayTypeStep, LogTypeStep, IpcTypeStep, BoundsTypeStep DEF TypeOK
-----------------------------------------------------------------------------
(* Counting the units of a log *)

Count(f, i) == Cardinality({j \in 1..i : f[j] \notin Clients})

\* f is a log of the stream from place a on.
StreamFrom(f, a) ==
  \A i \in 1..Len(f) : /\ f[i] \notin Clients => f[i] = a + Count(f, i)
                       /\ f[i] \in Clients => (a + Count(f, i)) % MsgLen = 0

LEMMA FileIsStream ==
  /\ LogIsRelayStream /\ AppRecordsAtBoundary <=> StreamFrom(file, first)
  /\ \A i : UnitsUpTo(i) = Count(file, i)
BY DEF LogIsRelayStream, AppRecordsAtBoundary, StreamFrom, UnitsUpTo, Count

LEMMA CountFinite ==
  ASSUME NEW f, NEW i \in Nat
  PROVE  IsFiniteSet({j \in 1..i : f[j] \notin Clients}) /\ Count(f, i) \in Nat
<1>1. IsFiniteSet(1..i)
  BY FS_Interval
<1>2. IsFiniteSet({j \in 1..i : f[j] \notin Clients})
  BY <1>1, FS_Subset
<1> QED BY <1>2, FS_CardinalityType DEF Count

LEMMA CountSame ==
  ASSUME NEW f, NEW g, NEW i, \A j \in 1..i : f[j] = g[j]
  PROVE  Count(f, i) = Count(g, i)
<1>1. {j \in 1..i : f[j] \notin Clients} = {j \in 1..i : g[j] \notin Clients}
  OBVIOUS
<1> QED BY <1>1 DEF Count

\* n units in a row count n.
LEMMA CountMore ==
  ASSUME NEW f, NEW m \in Nat, NEW n \in Nat, \A j \in (m + 1)..(m + n) : f[j] \notin Clients
  PROVE  Count(f, m + n) = Count(f, m) + n
<1> DEFINE A == {j \in 1..m : f[j] \notin Clients}
           B == (m + 1)..(m + n)
<1>1. {j \in 1..(m + n) : f[j] \notin Clients} = A \cup B
  OBVIOUS
<1>2. A \cap B = {}
  OBVIOUS
<1>3. IsFiniteSet(A) /\ Cardinality(A) \in Nat
  BY CountFinite DEF Count
<1>4. IsFiniteSet(B) /\ Cardinality(B) = n
  BY FS_Interval
<1> HIDE DEF A, B
<1>5. Cardinality(A \cup B) = Cardinality(A) + Cardinality(B) - Cardinality(A \cap B)
  BY <1>3, <1>4, FS_Union
<1>6. Cardinality(A \cap B) = 0
  BY <1>2, FS_EmptySet
<1> QED BY <1>1, <1>3, <1>4, <1>5, <1>6 DEF Count, A

LEMMA CountSkips ==
  ASSUME NEW f, NEW m \in Nat, f[m + 1] \in Clients
  PROVE  Count(f, m + 1) = Count(f, m)
<1>1. {j \in 1..(m + 1) : f[j] \notin Clients} = {j \in 1..m : f[j] \notin Clients}
  OBVIOUS
<1> QED BY <1>1 DEF Count

\* What is left of a log when its end is lost is a log.
LEMMA StreamPrefix ==
  ASSUME NEW f \in Seq(Entry), NEW g \in Seq(Entry), NEW a, StreamFrom(f, a),
         Len(g) <= Len(f), \A i \in 1..Len(g) : g[i] = f[i]
  PROVE  StreamFrom(g, a)
<1> SUFFICES ASSUME NEW i \in 1..Len(g)
             PROVE  /\ g[i] \notin Clients => g[i] = a + Count(g, i)
                    /\ g[i] \in Clients => (a + Count(g, i)) % MsgLen = 0
  BY DEF StreamFrom
<1>1. Count(g, i) = Count(f, i)
  BY CountSame
<1>2. i \in 1..Len(f) /\ g[i] = f[i]
  OBVIOUS
<1> QED BY <1>1, <1>2 DEF StreamFrom

\* The next units of the stream make a log a longer one.
LEMMA StreamReads ==
  ASSUME NEW f \in Seq(Entry), NEW a \in Nat, StreamFrom(f, a), NEW n \in Nat,
         rd = a + Count(f, Len(f))
  PROVE  LET g == f \o Units(n)
         IN /\ StreamFrom(g, a) /\ Len(g) = Len(f) + n
            /\ Count(g, Len(g)) = Count(f, Len(f)) + n
            /\ \A i \in 1..Len(f) : g[i] = f[i]
            /\ \A i \in 1..n : g[Len(f) + i] = rd + i
<1> DEFINE g == f \o Units(n)
<1>0. rd \in Nat /\ Len(f) \in Nat /\ Count(f, Len(f)) \in Nat
  <2>1. Len(f) \in Nat
    OBVIOUS
  <2>2. Count(f, Len(f)) \in Nat
    BY <2>1, CountFinite
  <2> QED BY <2>1, <2>2
<1>1. Units(n) \in Seq(Entry) /\ Len(Units(n)) = n /\ \A i \in 1..n : Units(n)[i] = rd + i
  BY <1>0, UnitsTyped
<1>2. /\ Len(g) = Len(f) + n /\ \A i \in 1..Len(f) : g[i] = f[i]
      /\ \A i \in 1..n : g[Len(f) + i] = rd + i
  BY <1>1
<1> HIDE DEF g
<1>3. ASSUME NEW i \in 1..n PROVE g[Len(f) + i] \notin Clients
  <2>1. rd + i \in Nat
    BY <1>0
  <2> QED BY <1>2, <2>1, ClientsAssumption
<1>4. ASSUME NEW k \in 0..n PROVE Count(g, Len(f) + k) = Count(f, Len(f)) + k
  <2>1. ASSUME NEW j \in (Len(f) + 1)..(Len(f) + k) PROVE g[j] \notin Clients
    <3>1. j - Len(f) \in 1..n /\ Len(f) + (j - Len(f)) = j
      BY <1>0
    <3> QED BY <1>3, <3>1
  <2>2. Count(g, Len(f) + k) = Count(g, Len(f)) + k
    BY <1>0, <2>1, CountMore
  <2>3. Count(g, Len(f)) = Count(f, Len(f))
    BY <1>2, CountSame
  <2> QED BY <2>2, <2>3
<1>5. ASSUME NEW i \in 1..Len(g)
      PROVE  /\ g[i] \notin Clients => g[i] = a + Count(g, i)
             /\ g[i] \in Clients => (a + Count(g, i)) % MsgLen = 0
  <2>1. CASE i <= Len(f)
    <3>1. Count(g, i) = Count(f, i) /\ g[i] = f[i] /\ i \in 1..Len(f)
      BY <1>0, <1>2, <2>1, CountSame
    <3> QED BY <3>1 DEF StreamFrom
  <2>2. CASE i > Len(f)
    <3>1. i - Len(f) \in 1..n /\ Len(f) + (i - Len(f)) = i
      BY <1>0, <1>2, <2>2
    <3>2. g[i] = rd + (i - Len(f)) /\ g[i] \notin Clients
      BY <1>2, <1>3, <3>1
    <3>3. Count(g, i) = Count(f, Len(f)) + (i - Len(f))
      BY <1>4, <3>1
    <3> QED BY <1>0, <3>1, <3>2, <3>3
  <2> QED BY <1>0, <2>1, <2>2
<1>6. Count(g, Len(g)) = Count(f, Len(f)) + n
  BY <1>0, <1>2, <1>4
<1> QED BY <1>2, <1>5, <1>6 DEF StreamFrom, g

\* So does an application's record between two messages.
LEMMA StreamCommits ==
  ASSUME NEW f \in Seq(Entry), NEW a \in Nat, StreamFrom(f, a), NEW c \in Clients,
         (a + Count(f, Len(f))) % MsgLen = 0
  PROVE  LET g == Append(f, c)
         IN /\ StreamFrom(g, a) /\ Len(g) = Len(f) + 1
            /\ Count(g, Len(g)) = Count(f, Len(f))
            /\ \A i \in 1..Len(f) : g[i] = f[i]
<1> DEFINE g == Append(f, c)
<1>1. /\ Len(g) = Len(f) + 1 /\ \A i \in 1..Len(f) : g[i] = f[i]
      /\ g[Len(f) + 1] = c /\ Len(f) \in Nat
  OBVIOUS
<1> HIDE DEF g
<1>2. Count(g, Len(f) + 1) = Count(g, Len(f))
  BY <1>1, CountSkips
<1>3. Count(g, Len(f)) = Count(f, Len(f))
  BY <1>1, CountSame
<1>4. ASSUME NEW i \in 1..Len(g)
      PROVE  /\ g[i] \notin Clients => g[i] = a + Count(g, i)
             /\ g[i] \in Clients => (a + Count(g, i)) % MsgLen = 0
  <2>1. CASE i <= Len(f)
    <3>1. Count(g, i) = Count(f, i) /\ g[i] = f[i] /\ i \in 1..Len(f)
      BY <1>1, <2>1, CountSame
    <3> QED BY <3>1 DEF StreamFrom
  <2>2. CASE i = Len(f) + 1
    BY <1>1, <1>2, <1>3, <2>2
  <2> QED BY <1>1, <2>1, <2>2
<1> QED BY <1>1, <1>2, <1>3, <1>4 DEF StreamFrom, g
-----------------------------------------------------------------------------
(* The log *)

LEMMA NextFileIsStream ==
  /\ StreamFrom(file', first') <=> (LogIsRelayStream /\ AppRecordsAtBoundary)'
  /\ \A i : UnitsUpTo(i)' = Count(file', i)
BY DEF LogIsRelayStream, AppRecordsAtBoundary, StreamFrom, UnitsUpTo, Count

\* The read position is known from the log.
LEMMA ReadPosition ==
  ASSUME IInv, pc # "off"
  PROVE  /\ file \in Seq(Entry) /\ first \in Nat /\ StreamFrom(file, first)
         /\ rd = first + Count(file, Len(file))
<1>1. Count(file, Len(file)) = rd - first
  BY FileIsStream DEF IInv, LogInv, Taken
<1>2. rd \in Nat /\ first \in Nat /\ file \in Seq(Entry)
  BY DEF IInv, TypeOK, RelayType, LogType
<1> QED BY <1>1, <1>2, FileIsStream DEF IInv, LogInv

LEMMA StreamStep == IInv /\ [Next]_vars => (LogIsRelayStream /\ AppRecordsAtBoundary)'
<1> SUFFICES ASSUME IInv, [Next]_vars PROVE StreamFrom(file', first')
  BY NextFileIsStream
<1>0. TypeOK /\ RelayType /\ LogType /\ from \in Clients /\ StreamFrom(file, first)
  BY FileIsStream DEF IInv, TypeOK, IpcType, LogInv
<1>1. CASE Keeps(disk) \/ Keeps(Len(file)) \/ Wakes
  BY <1>0, <1>1 DEF Keeps, Wakes
<1>2. CASE Empties
  BY <1>2 DEF Empties, StreamFrom
<1>3. ASSUME NEW n \in 1..Min({BufSize, sent - rd}), Reads(n) PROVE StreamFrom(file', first')
  <2>1. n \in Nat
    BY <1>0, ReadSize
  <2>2. pc # "off"
    BY <1>3 DEF Reads
  <2>3. StreamFrom(file \o Units(n), first)
    BY <2>1, <2>2, ReadPosition, StreamReads
  <2> QED BY <1>3, <2>3 DEF Reads
<1>4. CASE Ends
  <2>1. /\ LogType' /\ Len(file') <= Len(file) /\ first' = first
        /\ \A i \in 1..Len(file') : file'[i] = file[i]
    BY <1>0, <1>4, SaveTyped DEF Ends
  <2> QED BY <1>0, <2>1, StreamPrefix DEF LogType
<1>5. CASE Commits
  <2>1. pc # "off" /\ rd % MsgLen = 0
    BY <1>5 DEF IInv, LogInv, AtBoundary, Commits
  <2>2. StreamFrom(Append(file, from), first)
    BY <1>0, <2>1, ReadPosition, StreamCommits
  <2> QED BY <1>5, <2>2 DEF Commits
<1> QED BY <1>0, <1>1, <1>2, <1>3, <1>4, <1>5, LogSteps DEF LogStep

LEMMA TakenStep == IInv /\ [Next]_vars => Taken'
<1> SUFFICES ASSUME IInv, [Next]_vars, pc' # "off"
             PROVE  /\ Count(file', Len(file')) = rd' - first'
                    /\ \A u \in (first' + 1)..rd' : \E i \in 1..Len(file') : file'[i] = u
  BY NextFileIsStream DEF Taken
<1>0. TypeOK /\ RelayType /\ LogType /\ from \in Clients
  BY DEF IInv, TypeOK, IpcType
<1>1. pc # "off" => /\ Count(file, Len(file)) = rd - first
                    /\ \A u \in (first + 1)..rd : \E i \in 1..Len(file) : file[i] = u
  BY FileIsStream DEF IInv, LogInv, Taken
<1>2. CASE (\E k : Keeps(k)) /\ (pc = "off" => pc' = "off")
  BY <1>1, <1>2 DEF Keeps
<1>3. CASE Empties
  <2>1. Count(file', Len(file')) = 0
    BY <1>3, FS_EmptySet DEF Empties, Count
  <2> QED BY <1>0, <1>3, <2>1 DEF Empties, RelayType
<1>4. ASSUME NEW n \in 1..Min({BufSize, sent - rd}), Reads(n)
      PROVE  /\ Count(file', Len(file')) = rd' - first'
             /\ \A u \in (first' + 1)..rd' : \E i \in 1..Len(file') : file'[i] = u
  <2>1. n \in Nat /\ pc # "off"
    BY <1>0, <1>4, ReadSize DEF Reads
  <2>2. rd' = rd + n /\ file' = file \o Units(n) /\ first' = first
    BY <1>4 DEF Reads
  <2>3. /\ Len(file') = Len(file) + n
        /\ Count(file', Len(file')) = Count(file, Len(file)) + n
        /\ \A i \in 1..Len(file) : file'[i] = file[i]
        /\ \A i \in 1..n : file'[Len(file) + i] = rd + i
    BY <2>1, <2>2, ReadPosition, StreamReads
  <2>4. rd \in Nat /\ first \in Nat /\ Len(file) \in Nat
    BY <1>0 DEF RelayType, LogType
  <2>5. ASSUME NEW u \in (first' + 1)..rd' PROVE \E i \in 1..Len(file') : file'[i] = u
    <3>1. CASE u <= rd
      <4>1. u \in (first + 1)..rd
        BY <2>2, <2>4, <3>1
      <4>2. PICK i \in 1..Len(file) : file[i] = u
        BY <1>1, <2>1, <4>1
      <4> QED BY <2>1, <2>3, <2>4, <4>2
    <3>2. CASE u > rd
      <4>1. PICK i \in 1..n : rd + i = u
        <5>1. u - rd \in 1..n /\ rd + (u - rd) = u
          BY <2>1, <2>2, <2>4, <3>2
        <5> QED BY <5>1
      <4>2. file'[Len(file) + i] = u
        BY <2>3, <4>1
      <4>3. Len(file) + i \in 1..Len(file')
        BY <2>1, <2>3, <2>4
      <4> QED BY <4>2, <4>3
    <3> QED BY <2>2, <2>4, <3>1, <3>2
  <2>6. Count(file', Len(file')) = rd' - first'
    BY <1>1, <2>1, <2>2, <2>3, <2>4
  <2> QED BY <2>5, <2>6
<1>5. CASE Ends
  BY <1>5 DEF Ends
<1>6. CASE Commits
  <2>1. pc # "off" /\ rd % MsgLen = 0
    BY <1>6 DEF IInv, LogInv, AtBoundary, Commits
  <2>2. /\ Len(file') = Len(file) + 1 /\ Count(file', Len(file')) = Count(file, Len(file))
        /\ \A i \in 1..Len(file) : file'[i] = file[i]
    BY <1>0, <1>6, <2>1, ReadPosition, StreamCommits DEF Commits
  <2>3. 1..Len(file) \subseteq 1..Len(file')
    BY <1>0, <2>2 DEF LogType
  <2> QED BY <1>1, <1>6, <2>1, <2>2, <2>3 DEF Commits
<1>7. CASE Wakes
  BY <1>1, <1>7 DEF Wakes
<1>8. CASE Keeps(disk) /\ pc' = pc
  BY <1>1, <1>8 DEF Keeps
<1> QED BY <1>0, <1>2, <1>3, <1>4, <1>5, <1>6, <1>7, <1>8, LogSteps DEF LogStep

LEMMA CrashStep == IInv /\ [Next]_vars => (CrashLosesOneCycle /\ Flushed)'
<1> SUFFICES ASSUME IInv, [Next]_vars PROVE (CrashLosesOneCycle /\ Flushed)'
  OBVIOUS
<1>0. TypeOK /\ RelayType /\ LogType
  BY DEF IInv, TypeOK
<1>1. \A u \in (first + 1)..cycle : \E i \in 1..disk : file[i] = u
  BY DEF IInv, LogInv, CrashLosesOneCycle
<1>2. disk \in Nat /\ Len(file) \in Nat /\ disk <= Len(file)
  BY <1>0 DEF LogType
<1>3. pc = "sleep" => disk = Len(file)
  BY DEF IInv, LogInv, Flushed
\* A step that leaves the marks and what is on disk.
<1>4. ASSUME UNCHANGED <<first, cycle>>, disk' \in Nat, disk <= disk',
             \A i \in 1..disk : file'[i] = file[i]
      PROVE  CrashLosesOneCycle'
  <2>1. 1..disk \subseteq 1..disk'
    BY <1>2, <1>4
  <2> QED BY <1>1, <1>4, <2>1 DEF CrashLosesOneCycle
<1>5. CASE Keeps(disk) /\ (pc' # "sleep" \/ pc' = pc)
  BY <1>2, <1>3, <1>4, <1>5 DEF Keeps, Flushed
<1>6. CASE Keeps(Len(file)) /\ pc' = "sleep"
  BY <1>2, <1>4, <1>6 DEF Keeps, Flushed
<1>7. CASE Empties /\ pc' # "sleep"
  <2>1. rd \in Nat
    BY <1>0 DEF RelayType
  <2> QED BY <1>7, <2>1 DEF Empties, CrashLosesOneCycle, Flushed
<1>8. ASSUME NEW n \in 1..Min({BufSize, sent - rd}), Reads(n) PROVE (CrashLosesOneCycle /\ Flushed)'
  <2>1. n \in Nat /\ pc # "off" /\ pc' # "sleep"
    BY <1>0, <1>8, ReadSize DEF Reads
  <2>2. \A i \in 1..Len(file) : file'[i] = file[i]
    BY <1>8, <2>1, ReadPosition, StreamReads DEF Reads
  <2>3. \A i \in 1..disk : file'[i] = file[i]
    BY <1>2, <2>2
  <2> QED BY <1>2, <1>4, <1>8, <2>1, <2>3 DEF Reads, Flushed
<1>9. CASE Ends
  <2>1. /\ LogType' /\ \A i \in 1..Len(file') : file'[i] = file[i]
        /\ disk <= Len(file')
    BY <1>0, <1>9, SaveTyped DEF Ends
  <2>2. \A i \in 1..disk : file'[i] = file[i]
    BY <1>2, <2>1 DEF LogType
  <2>3. disk <= disk' /\ disk' \in Nat
    BY <1>2, <1>9 DEF Ends, SaveSome, SaveAll
  <2> QED BY <1>4, <1>9, <2>2, <2>3 DEF Ends, Flushed
<1>10. CASE Commits /\ pc' = "check"
  <2>1. \A i \in 1..disk : file'[i] = file[i]
    BY <1>0, <1>2, <1>10 DEF Commits, LogType
  <2> QED BY <1>2, <1>4, <1>10, <2>1 DEF Commits, Flushed
<1>11. CASE Wakes /\ pc' = "funnel"
  <2>1. \A u \in (first + 1)..rd : \E i \in 1..disk : file[i] = u
    BY <1>3, <1>11 DEF IInv, LogInv, Taken, Wakes
  <2> QED BY <1>11, <2>1 DEF Wakes, CrashLosesOneCycle, Flushed
<1> QED BY <1>0, <1>5, <1>6, <1>7, <1>8, <1>9, <1>10, <1>11, LogSteps DEF LogStep
LEMMA BoundaryStep == IInv /\ [Next]_vars => AtBoundary'
<1> SUFFICES ASSUME IInv, [Next]_vars PROVE AtBoundary'
  OBVIOUS
<1>0. AtBoundary /\ sent \in Nat
  BY DEF IInv, LogInv, TypeOK, RelayType
<1> USE DEF AtBoundary, relay, main
<1>1. CASE UNCHANGED vars
  BY <1>0, <1>1 DEF vars
<1>2. CASE Emit
  BY <1>0, <1>2, WholeMessages DEF Emit
<1>3. CASE Signal
  BY <1>0, <1>3 DEF Signal
<1>4. ASSUME NEW c \in Clients, Send(c) \/ ReadAck(c) \/ Die(c) PROVE AtBoundary'
  BY <1>0, <1>4 DEF Send, ReadAck, Die
<1>5. CASE Start
  BY <1>0, <1>5 DEF Start
<1>6. CASE StartFails
  BY <1>0, <1>6 DEF StartFails
<1>7. CASE FunnelChunk
  BY <1>0, <1>7 DEF FunnelChunk, Gone
<1>8. CASE FunnelFails
  BY <1>0, <1>8 DEF FunnelFails, Exit, Gone
<1>9. CASE FunnelDone
  BY <1>0, <1>9 DEF FunnelDone
<1>10. CASE Recv
  BY <1>0, <1>10 DEF Recv, Return
<1>11. CASE Lookup \/ Ack \/ ImaFails \/ Commit
  BY <1>0, <1>11 DEF Lookup, Ack, ImaFails, Commit, Return
<1>12. CASE Check
  BY <1>0, <1>12 DEF Check, Exit, Gone
<1>13. CASE Flush
  BY <1>0, <1>13 DEF Flush, Exit, Gone
<1>14. CASE Wake
  BY <1>0, <1>14 DEF Wake, Exit, Gone
<1>15. CASE Kill
  BY <1>0, <1>15 DEF Kill, Gone
<1> QED BY <1>1, <1>2, <1>3, <1>4, <1>5, <1>6, <1>7, <1>8, <1>9, <1>10, <1>11, <1>12, <1>13, <1>14,
           <1>15 DEF Next, Step

\* A process ends with status 0 only by the end of main, and never after zlib has
\* refused a write.
LEMMA CleanEnd ==
  ASSUME [Next]_vars, pc' = "off"
  PROVE  \/ rv'
         \/ UNCHANGED <<pc, rv, lives, rd, first, file, disk>>
         \/ pc = "check" /\ SaveAll /\ UNCHANGED <<first, rd>>
<1> USE DEF main, log, marks, bounds
<1>1. CASE UNCHANGED vars
  BY <1>1 DEF vars
<1>2. CASE Emit \/ Signal
  BY <1>2 DEF Emit, Signal
<1>3. ASSUME NEW c \in Clients, Send(c) \/ ReadAck(c) \/ Die(c)
      PROVE  UNCHANGED <<pc, rv, lives, rd, first, file, disk>>
  BY <1>3 DEF Send, ReadAck, Die
<1>4. CASE Start \/ StartFails
  BY <1>4 DEF Start, StartFails
<1>5. CASE FunnelChunk
  BY <1>5 DEF FunnelChunk, Gone
<1>6. CASE FunnelFails
  BY <1>6 DEF FunnelFails, Exit, Gone
<1>7. CASE FunnelDone \/ Recv \/ Lookup \/ Ack \/ ImaFails \/ Commit
  BY <1>7 DEF FunnelDone, Recv, Lookup, Ack, ImaFails, Commit, Return
<1>8. CASE Check
  BY <1>8 DEF Check, Exit, Gone
<1>9. CASE Flush
  BY <1>9 DEF Flush, Exit, Gone
<1>10. CASE Wake
  BY <1>10 DEF Wake, Exit, Gone
<1>11. CASE Kill
  BY <1>11 DEF Kill, Gone
<1> QED BY <1>1, <1>2, <1>3, <1>4, <1>5, <1>6, <1>7, <1>8, <1>9, <1>10, <1>11 DEF Next, Step

LEMMA CleanStep == IInv /\ [Next]_vars => CleanExitComplete'
<1> SUFFICES ASSUME IInv, [Next]_vars, pc' = "off", ~rv', lives' > 0
             PROVE  Count(file', Len(file')) = rd' - first' /\ disk' = Len(file')
  BY NextFileIsStream DEF CleanExitComplete
<1>1. CASE UNCHANGED <<pc, rv, lives, rd, first, file, disk>>
  BY <1>1, FileIsStream DEF IInv, LogInv, CleanExitComplete
<1>2. CASE pc = "check" /\ SaveAll /\ UNCHANGED <<first, rd>>
  BY <1>2, FileIsStream DEF IInv, LogInv, Taken, SaveAll
<1> QED BY <1>1, <1>2, CleanEnd

LEMMA InitLogInv == Init => LogInv
<1> SUFFICES ASSUME Init PROVE LogInv
  OBVIOUS
<1>1. file = <<>> /\ first = 0 /\ cycle = 0 /\ pc = "off" /\ lives = 0 /\ sent = 0
  BY DEF Init
<1>2. 0 % MsgLen = 0
  <2>1. \A m \in Nat : (m * MsgLen) % MsgLen = 0
    BY Sizes
  <2>2. 0 * MsgLen = 0
    BY Sizes
  <2> QED BY <2>1, <2>2
<1>3. LogIsRelayStream /\ AppRecordsAtBoundary
  BY <1>1 DEF LogIsRelayStream, AppRecordsAtBoundary
<1>4. CrashLosesOneCycle
  BY <1>1 DEF CrashLosesOneCycle
<1>5. CleanExitComplete
  BY <1>1 DEF CleanExitComplete
<1>6. Taken /\ Flushed
  BY <1>1 DEF Taken, Flushed
<1>7. AtBoundary
  BY <1>1, <1>2 DEF AtBoundary
<1> QED BY <1>3, <1>4, <1>5, <1>6, <1>7 DEF LogInv

THEOREM Inductive == Spec => []IInv
<1>1. Init => IInv
  BY InitType, InitLogInv DEF IInv
<1>2. IInv /\ [Next]_vars => IInv'
  BY TypeStep, StreamStep, TakenStep, CrashStep, BoundaryStep, CleanStep DEF IInv, LogInv
<1> QED BY <1>1, <1>2, PTL DEF Spec

\* Every number, sequence and function of every state has its type, and the marks
\* are in order.
THEOREM TypeCorrect == Spec => []TypeOK
<1>1. IInv => TypeOK
  BY DEF IInv
<1> QED BY <1>1, Inductive, PTL

\* However the reads cut the stream and whatever stops the daemon, a log is a piece
\* of the relay's stream, from where its daemon began.
THEOREM LogHoldsStream == Spec => []LogIsRelayStream
<1>1. IInv => LogIsRelayStream
  BY DEF IInv, LogInv
<1> QED BY <1>1, Inductive, PTL

\* An application's record is never in the middle of a kernel message.
THEOREM AppRecordsBetweenMessages == Spec => []AppRecordsAtBoundary
<1>1. IInv => AppRecordsAtBoundary
  BY DEF IInv, LogInv
<1> QED BY <1>1, Inductive, PTL

\* What was read before the current cycle survives every crash.
THEOREM CrashKeepsCycles == Spec => []CrashLosesOneCycle
<1>1. IInv => CrashLosesOneCycle
  BY DEF IInv, LogInv
<1> QED BY <1>1, Inductive, PTL

\* A daemon that ends with status 0 has left all it read in its log.
THEOREM CleanExitKeepsAll == Spec => []CleanExitComplete
<1>1. IInv => CleanExitComplete
  BY DEF IInv, LogInv
<1> QED BY <1>1, Inductive, PTL
-----------------------------------------------------------------------------
(* The answers *)

\* No two applications have bound one address, and their addresses are equally long.
AlikeAddresses ==
  \A c, d \in Clients : /\ Len(Address[c]) = Len(Address[d])
                        /\ c # d /\ Address[c] # <<>> => Address[c] # Address[d]

Bound   == {c \in Clients : Address[c] # <<>>}
Queued  == {sockq[i] : i \in 1..Len(sockq)}
InHand  == IF pc \in {"lookup", "ack"} THEN {from} ELSE {}

\* The address in hand is that of the sender in hand.
AddressInHand ==
  /\ \A c \in Clients : Len(Address[c]) <= namelen
  /\ \A c \in InHand : \A i \in 1..Len(Address[c]) : client_addr[i] = Address[c][i]

\* An application waits for one answer: its record is queued, or in hand, or
\* answered, and only once.
OneEach ==
  /\ \A i, j \in 1..Len(sockq) : sockq[i] = sockq[j] /\ sockq[i] \in Bound => i = j
  /\ \A c \in Clients : inbox[c] <= 1
  /\ \A c \in Clients : inbox[c] > 0 => /\ c \in Bound /\ state[c] = "waiting"
                                        /\ c \notin Queued \cup InHand
  /\ \A c \in Bound \cap (Queued \cup InHand) : state[c] \in {"waiting", "dead"}
  /\ Bound \cap Queued \cap InHand = {}

AckInv == AddressInHand /\ OneEach
\* The daemon's steps that do not touch its socket, and its end.
LEMMA AckOthers ==
  ASSUME IpcType, AckInv, UNCHANGED apps,
         \/ UNCHANGED ipc /\ InHand' \subseteq InHand
         \/ sockq' = <<>> /\ pc' \notin {"lookup", "ack"} /\ namelen' \in {namelen, AddrLen}
  PROVE  AckInv'
<1>1. CASE UNCHANGED ipc /\ InHand' \subseteq InHand
  <2>1. UNCHANGED <<sockq, namelen, client_addr, state, inbox, Queued>>
    BY <1>1 DEF ipc, apps, Queued
  <2>2. AddressInHand'
    BY <1>1, <2>1 DEF AckInv, AddressInHand
  <2>3. OneEach'
    BY <1>1, <2>1 DEF AckInv, OneEach
  <2> QED BY <2>2, <2>3 DEF AckInv
<1>2. CASE sockq' = <<>> /\ pc' \notin {"lookup", "ack"} /\ namelen' \in {namelen, AddrLen}
  <2>1. Queued' = {} /\ InHand' = {} /\ UNCHANGED <<state, inbox>>
    BY <1>2 DEF apps, Queued, InHand
  <2>2. AddressInHand'
    BY <1>2, <2>1, AddressAssumption DEF AckInv, AddressInHand
  <2>3. OneEach'
    BY <1>2, <2>1 DEF AckInv, OneEach
  <2> QED BY <2>2, <2>3 DEF AckInv
<1> QED BY <1>1, <1>2

LEMMA SendOne ==
  ASSUME IpcType, AckInv, NEW c \in Clients, Send(c)
  PROVE  AckInv'
<1>1. /\ sockq' = Append(sockq, c) /\ state[c] = "idle"
      /\ state' = [state EXCEPT ![c] = IF Address[c] = <<>> THEN "idle" ELSE "waiting"]
      /\ UNCHANGED <<inbox, namelen, client_addr, from, pc>>
  BY DEF Send, main
<1>2. /\ Len(sockq') = Len(sockq) + 1 /\ Len(sockq) \in Nat
      /\ \A i \in 1..Len(sockq) : sockq'[i] = sockq[i]
      /\ sockq'[Len(sockq) + 1] = c
  BY <1>1 DEF IpcType
<1>3. InHand' = InHand
  BY <1>1 DEF InHand
<1>4. Queued' = Queued \cup {c}
  <2>1. \A i \in 1..Len(sockq') : i \in 1..Len(sockq) \/ i = Len(sockq) + 1
    BY <1>2
  <2>2. Queued' \subseteq Queued \cup {c}
    BY <1>2, <2>1 DEF Queued
  <2>3. Queued \subseteq Queued'
    BY <1>2 DEF Queued
  <2>4. c \in Queued'
    BY <1>2 DEF Queued
  <2> QED BY <2>2, <2>3, <2>4
<1>5. c \in Bound => c \notin Queued \cup InHand
  BY <1>1 DEF AckInv, OneEach
<1>6. AddressInHand'
  BY <1>1, <1>3 DEF AckInv, AddressInHand
<1>7. ASSUME NEW i \in 1..Len(sockq'), NEW j \in 1..Len(sockq'),
             sockq'[i] = sockq'[j], sockq'[i] \in Bound
      PROVE  i = j
  <2>1. CASE i \in 1..Len(sockq) /\ j \in 1..Len(sockq)
    BY <1>2, <1>7, <2>1 DEF AckInv, OneEach
  <2>2. CASE i \in 1..Len(sockq) /\ j = Len(sockq) + 1
    <3>1. c \in Bound /\ c \in Queued
      BY <1>2, <1>7, <2>2 DEF Queued
    <3> QED BY <1>5, <3>1
  <2>3. CASE i = Len(sockq) + 1 /\ j \in 1..Len(sockq)
    <3>1. c \in Bound /\ c \in Queued
      BY <1>2, <1>7, <2>3 DEF Queued
    <3> QED BY <1>5, <3>1
  <2>4. CASE i = Len(sockq) + 1 /\ j = Len(sockq) + 1
    BY <2>4
  <2> QED BY <1>2, <2>1, <2>2, <2>3, <2>4
<1>8. \A d \in Clients : d # c => state'[d] = state[d]
  BY <1>1 DEF IpcType
<1>9. c \in Bound => state'[c] = "waiting"
  BY <1>1 DEF IpcType, Bound
<1>10. inbox[c] = 0
  BY <1>1 DEF IpcType, AckInv, OneEach
<1>11. OneEach'
  <2>1. \A d \in Clients : inbox'[d] <= 1
    BY <1>1 DEF AckInv, OneEach
  <2>2. ASSUME NEW d \in Clients, inbox'[d] > 0
        PROVE  d \in Bound /\ state'[d] = "waiting" /\ d \notin Queued' \cup InHand'
    <3>1. d # c
      BY <1>1, <1>10, <2>2
    <3> QED BY <1>1, <1>3, <1>4, <1>8, <2>2, <3>1 DEF AckInv, OneEach
  <2>3. ASSUME NEW d \in Bound \cap (Queued' \cup InHand') PROVE state'[d] \in {"waiting", "dead"}
    <3>1. CASE d = c
      BY <1>9, <2>3, <3>1
    <3>2. CASE d # c
      BY <1>3, <1>4, <1>8, <2>3, <3>2 DEF AckInv, OneEach, Bound
    <3> QED BY <3>1, <3>2
  <2>4. Bound \cap Queued' \cap InHand' = {}
    BY <1>3, <1>4, <1>5 DEF AckInv, OneEach
  <2> QED BY <1>7, <2>1, <2>2, <2>3, <2>4 DEF OneEach, Bound
<1> QED BY <1>6, <1>11 DEF AckInv

\* An application that has its answer, or ends.
LEMMA ClientOne ==
  ASSUME IpcType, AckInv, NEW c \in Clients, ReadAck(c) \/ Die(c)
  PROVE  AckInv'
<1>1. UNCHANGED <<sockq, namelen, client_addr, from, pc>>
  BY DEF ReadAck, Die, ipc, main
<1>2. Queued' = Queued /\ InHand' = InHand
  BY <1>1 DEF Queued, InHand
<1>3. AddressInHand'
  BY <1>1, <1>2 DEF AckInv, AddressInHand
<1>4. \A d \in Clients : d # c => state'[d] = state[d] /\ inbox'[d] = inbox[d]
  BY DEF IpcType, ReadAck, Die
<1>5. inbox[c] \in Nat /\ inbox[c] <= 1
  BY DEF IpcType, AckInv, OneEach
<1>6. inbox'[c] = 0
  BY <1>5 DEF IpcType, ReadAck, Die
<1>7. c \in Bound \cap (Queued \cup InHand) => state'[c] = "dead"
  <2>1. CASE ReadAck(c)
    BY <1>5, <2>1 DEF ReadAck, AckInv, OneEach
  <2>2. CASE Die(c)
    BY <2>2 DEF Die, IpcType
  <2> QED BY <2>1, <2>2
<1>8. OneEach'
  <2>1. ASSUME NEW d \in Clients
        PROVE  /\ inbox'[d] <= 1
               /\ inbox'[d] > 0 => d \in Bound /\ state'[d] = "waiting" /\ d \notin Queued' \cup InHand'
    <3>1. CASE d = c
      BY <1>6, <3>1
    <3>2. CASE d # c
      BY <1>2, <1>4, <3>2 DEF AckInv, OneEach
    <3> QED BY <3>1, <3>2
  <2>2. \A d \in Bound \cap (Queued' \cup InHand') : state'[d] \in {"waiting", "dead"}
    BY <1>2, <1>4, <1>7 DEF AckInv, OneEach, Bound
  <2> QED BY <1>1, <1>2, <2>1, <2>2 DEF AckInv, OneEach, Bound
<1> QED BY <1>3, <1>8 DEF AckInv

\* The daemon takes a datagram: the length in msgh lets all of the address in.
LEMMA RecvOne ==
  ASSUME AlikeAddresses, IpcType, AckInv, UNCHANGED apps, pc = "recv", pc' = "lookup",
         sockq # <<>>, sockq' = Tail(sockq), from' = Head(sockq), CopyAddress(Head(sockq))
  PROVE  AckInv'
<1> DEFINE h == Head(sockq)
<1>1. /\ h \in Clients /\ h = sockq[1] /\ Len(sockq) \in Nat /\ 1 \in 1..Len(sockq)
      /\ Len(sockq') = Len(sockq) - 1
      /\ \A i \in 1..Len(sockq') : sockq'[i] = sockq[i + 1] /\ i + 1 \in 1..Len(sockq)
  BY DEF IpcType
<1>2. InHand = {} /\ InHand' = {h} /\ UNCHANGED <<state, inbox>>
  BY DEF InHand, apps
<1> HIDE DEF h
<1>3. Queued' \subseteq Queued /\ h \in Queued
  BY <1>1 DEF Queued
<1>4. h \in Bound => h \notin Queued'
  <2> SUFFICES ASSUME h \in Bound, NEW i \in 1..Len(sockq'), sockq'[i] = h PROVE FALSE
    BY DEF Queued
  <2>1. sockq[i + 1] = sockq[1] /\ i + 1 \in 1..Len(sockq)
    BY <1>1
  <2>2. i + 1 = 1
    BY <1>1, <2>1 DEF AckInv, OneEach
  <2> QED BY <1>1, <2>2
<1>5. AddressInHand'
  <2> DEFINE n == Len(Address[h])
  <2>1. /\ n \in Nat /\ n <= AddrLen /\ n <= namelen /\ namelen \in Nat /\ AddrLen \in Nat
        /\ Address[h] \in Seq(Nat)
    BY <1>1, AddressAssumption, Sizes DEF IpcType, AckInv, AddressInHand
  <2>2. Min({namelen, n}) = n
    BY <2>1, MinOfTwo
  <2>3. /\ client_addr' = [i \in 1..AddrLen |-> IF i <= n THEN Address[h][i] ELSE client_addr[i]]
        /\ namelen' = n
    BY <2>2 DEF CopyAddress, h
  <2>4. \A i \in 1..n : client_addr'[i] = Address[h][i]
    BY <2>1, <2>3
  <2>5. \A c \in Clients : Len(Address[c]) <= namelen'
    BY <1>1, <2>1, <2>3 DEF AlikeAddresses
  <2> QED BY <1>2, <2>4, <2>5 DEF AddressInHand
<1>6. OneEach'
  <2>1. ASSUME NEW i \in 1..Len(sockq'), NEW j \in 1..Len(sockq'),
               sockq'[i] = sockq'[j], sockq'[i] \in Bound
        PROVE  i = j
    <3>1. i + 1 = j + 1
      BY <1>1, <2>1 DEF AckInv, OneEach
    <3> QED BY <3>1
  <2>2. \A c \in Clients : inbox'[c] <= 1
    BY <1>2 DEF AckInv, OneEach
  <2>3. \A c \in Clients : inbox'[c] > 0 => /\ c \in Bound /\ state'[c] = "waiting"
                                           /\ c \notin Queued' \cup InHand'
    BY <1>2, <1>3 DEF AckInv, OneEach
  <2>4. \A c \in Bound \cap (Queued' \cup InHand') : state'[c] \in {"waiting", "dead"}
    BY <1>2, <1>3 DEF AckInv, OneEach
  <2>5. Bound \cap Queued' \cap InHand' = {}
    BY <1>2, <1>4
  <2> QED BY <2>1, <2>2, <2>3, <2>4, <2>5 DEF OneEach, Bound
<1> QED BY <1>5, <1>6 DEF AckInv

\* The address in hand belongs to nobody but the sender in hand.
LEMMA TargetIsSender ==
  ASSUME AlikeAddresses, IpcType, AckInv, pc = "ack", NEW c \in Target
  PROVE  c = from /\ c \in Bound /\ state[c] # "dead"
<1>1. /\ c \in Clients /\ Address[c] # <<>> /\ state[c] # "dead"
      /\ SubSeq(client_addr, 1, Len(Address[c])) = Address[c]
  BY DEF Target
<1>2. from \in Clients /\ client_addr \in Seq(Nat) /\ Len(client_addr) = AddrLen
  BY Sizes DEF IpcType
<1>3. /\ Address[c] \in Seq(Nat) /\ Address[from] \in Seq(Nat)
      /\ Len(Address[c]) <= AddrLen /\ Len(Address[from]) = Len(Address[c])
  BY <1>1, <1>2, AddressAssumption DEF AlikeAddresses
<1>4. \A i \in 1..Len(Address[from]) : client_addr[i] = Address[from][i]
  BY DEF AckInv, AddressInHand, InHand
<1>5. \A i \in 1..Len(Address[c]) : Address[c][i] = client_addr[i]
  <2>1. \A i \in 1..Len(Address[c]) : SubSeq(client_addr, 1, Len(Address[c]))[i] = client_addr[i]
    BY <1>2, <1>3, Sizes
  <2> QED BY <1>1, <2>1
<1>6. Address[c] = Address[from]
  <2>1. \A i \in 1..Len(Address[c]) : Address[c][i] = Address[from][i]
    BY <1>3, <1>4, <1>5
  <2> QED BY <1>3, <2>1, SeqEqual
<1> QED BY <1>1, <1>2, <1>6 DEF AlikeAddresses, Bound

LEMMA AckOne ==
  ASSUME AlikeAddresses, IpcType, AckInv, Ack
  PROVE  AckInv'
<1>1. /\ pc = "ack" /\ pc' = "commit"
      /\ UNCHANGED <<sockq, namelen, client_addr, from, state>>
  BY DEF Ack, ipc
<1>2. Queued' = Queued /\ InHand' = {} /\ InHand = {from}
  BY <1>1 DEF Queued, InHand
<1>3. AddressInHand'
  BY <1>1, <1>2 DEF AckInv, AddressInHand
<1>4. CASE UNCHANGED inbox
  BY <1>1, <1>2, <1>3, <1>4 DEF AckInv, OneEach, Bound
<1>5. ASSUME NEW c \in Target, inbox' = [inbox EXCEPT ![c] = @ + 1] PROVE AckInv'
  <2>1. c = from /\ c \in Bound /\ state[c] # "dead" /\ c \in Clients
    BY <1>1, TargetIsSender DEF Bound
  <2>2. inbox[c] = 0
    BY <1>2, <2>1 DEF IpcType, AckInv, OneEach
  <2>3. inbox'[c] = 1 /\ \A d \in Clients : d # c => inbox'[d] = inbox[d]
    BY <1>5, <2>1, <2>2 DEF IpcType
  <2>4. c \notin Queued /\ state[c] = "waiting"
    BY <1>2, <2>1 DEF AckInv, OneEach
  <2>5. ASSUME NEW d \in Clients
        PROVE  /\ inbox'[d] <= 1
               /\ inbox'[d] > 0 => d \in Bound /\ state'[d] = "waiting" /\ d \notin Queued' \cup InHand'
    <3>1. CASE d = c
      BY <1>1, <1>2, <2>1, <2>3, <2>4, <3>1
    <3>2. CASE d # c
      BY <1>1, <1>2, <2>3, <3>2 DEF AckInv, OneEach
    <3> QED BY <3>1, <3>2
  <2>6. OneEach'
    BY <1>1, <1>2, <2>5 DEF AckInv, OneEach, Bound
  <2> QED BY <1>3, <2>6 DEF AckInv
<1> QED BY <1>4, <1>5 DEF Ack

LEMMA AckStep ==
  ASSUME AlikeAddresses, TypeOK, AckInv, [Next]_vars
  PROVE  AckInv'
<1>0. IpcType
  BY DEF TypeOK
<1>1. CASE UNCHANGED vars
  BY <1>0, <1>1, AckOthers DEF vars, main, ipc, InHand
<1>2. CASE Emit \/ Signal
  BY <1>0, <1>2, AckOthers DEF Emit, Signal, main, ipc, InHand
<1>3. ASSUME NEW c \in Clients, Send(c) \/ ReadAck(c) \/ Die(c) PROVE AckInv'
  BY <1>0, <1>3, SendOne, ClientOne
<1>4. CASE Start
  BY <1>0, <1>4, AckOthers DEF Start
<1>5. CASE StartFails
  BY <1>0, <1>5, AckOthers DEF StartFails, ipc, InHand
<1>6. CASE \E f : Gone(f) /\ UNCHANGED apps
  BY <1>0, <1>6, AckOthers DEF Gone
<1>7. CASE FunnelChunk
  BY <1>0, <1>6, <1>7, AckOthers DEF FunnelChunk, main, ipc, InHand
<1>8. CASE FunnelFails \/ Kill
  BY <1>6, <1>8 DEF FunnelFails, Kill, Exit
<1>9. CASE FunnelDone \/ ImaFails \/ Commit
  BY <1>0, <1>9, AckOthers DEF FunnelDone, ImaFails, Commit, Return, ipc, InHand
<1>10. CASE Recv
  <2>1. CASE UNCHANGED ipc /\ Return(FALSE)
    BY <1>0, <1>10, <2>1, AckOthers DEF Recv, Return, ipc, InHand
  <2>2. CASE /\ sockq # <<>> /\ sockq' = Tail(sockq) /\ from' = Head(sockq)
             /\ CopyAddress(Head(sockq)) /\ pc' = "lookup"
    BY <1>0, <1>10, <2>2, RecvOne DEF Recv
  <2> QED BY <1>10, <2>1, <2>2 DEF Recv
<1>11. CASE Lookup
  BY <1>0, <1>11, AckOthers DEF Lookup, Return, ipc, InHand
<1>12. CASE Ack
  BY <1>0, <1>12, AckOne
<1>13. CASE Check
  <2>1. CASE pc' = "flush" /\ UNCHANGED ipc
    BY <1>0, <1>13, <2>1, AckOthers DEF Check, ipc, InHand
  <2> QED BY <1>6, <1>13, <2>1 DEF Check, Exit
<1>14. CASE Flush
  <2>1. CASE pc' = "sleep" /\ UNCHANGED ipc
    BY <1>0, <1>14, <2>1, AckOthers DEF Flush, ipc, InHand
  <2> QED BY <1>6, <1>14, <2>1 DEF Flush, Exit
<1>15. CASE Wake
  <2>1. CASE pc' = "funnel" /\ UNCHANGED ipc
    BY <1>0, <1>15, <2>1, AckOthers DEF Wake, ipc, InHand
  <2> QED BY <1>6, <1>15, <2>1 DEF Wake, Exit
<1> QED BY <1>1, <1>2, <1>3, <1>4, <1>5, <1>7, <1>8, <1>9, <1>10, <1>11, <1>12, <1>13, <1>14, <1>15
        DEF Next, Step

LEMMA InitAckInv == Init => AckInv
<1> SUFFICES ASSUME Init PROVE AckInv
  OBVIOUS
<1>1. Queued = {} /\ InHand = {}
  BY DEF Init, Queued, InHand
<1>2. AddressInHand
  BY <1>1, AddressAssumption DEF Init, AddressInHand
<1>3. sockq = <<>> /\ \A c \in Clients : inbox[c] = 0
  BY DEF Init
<1>4. OneEach
  BY <1>1, <1>3 DEF OneEach
<1> QED BY <1>2, <1>4 DEF AckInv

\* If the applications' addresses are equally long, no application is released by
\* another's answer.  (MCGzProvdAck has addresses of different lengths.)
THEOREM AcksReachWhoWaits ==
  ASSUME AlikeAddresses
  PROVE  Spec => []NoSpuriousAck
<1>1. TypeOK /\ AckInv /\ [Next]_vars => AckInv'
  BY AckStep
<1>2. AckInv => NoSpuriousAck
  BY DEF AckInv, OneEach, NoSpuriousAck
<1> QED BY <1>1, <1>2, InitAckInv, TypeCorrect, PTL DEF Spec
=============================================================================
