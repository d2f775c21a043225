--------------------------- MODULE LogToolsProofs ---------------------------
(***************************************************************************)
(* Proofs about LogTools, for every log, every file and every bound: each  *)
(* of its programs changes its own variables only, so that each has an     *)
(* inductive invariant of its own.                                         *)
(***************************************************************************)
EXTENDS LogTools, BitvecProofs, FiniteSetTheorems, SequenceTheorems

-----------------------------------------------------------------------------
(* dbindex *)

\* Every entry leads to a record of its credential.
EntriesRight(index) == \A c \in DOMAIN index : index[c] \in DOMAIN db /\ db[index[c]] = c

\* The index in the cache has the credentials the walk has met; a walk that ends well has
\* met all of them.
DbInv ==
  /\ indexing \in {"off", "index", "walk", "close"} /\ indexings \in Nat
  /\ EntriesRight(dbi) /\ (disk # NoFile => EntriesRight(disk))
  /\ indexing = "walk" => walked \subseteq DOMAIN db /\ DOMAIN dbi = {db[k] : k \in walked}
  /\ indexing = "close" /\ rv = 0 => DOMAIN dbi = Range(db)
  /\ indexing = "off" /\ indexings > 0 /\ rv = 0 /\ ~torn => DOMAIN disk = Range(db)

LEMMA InitDbInv == ASSUME NEW f, DbInit(f) PROVE DbInv
  BY DEF DbInit, DbInv, EntriesRight, NoEntry

LEMMA DbKeepsInv == DbInv /\ (DbNext \/ UNCHANGED dbVars) => DbInv'
<1> SUFFICES ASSUME DbInv, DbNext \/ UNCHANGED dbVars PROVE DbInv'
  OBVIOUS
<1>1. CASE UNCHANGED dbVars
  BY <1>1 DEF dbVars, DbInv, EntriesRight
<1>2. CASE OpenDb
  BY <1>2, DbAssumption DEF OpenDb, DbFault, Ended, DbInv, EntriesRight
<1>3. CASE OpenIndex
  <2>1. CASE disk = NoFile /\ indexing' = "walk" /\ dbi' = NoEntry /\ disk' = NoEntry /\ walked' = {}
    BY <1>3, <2>1 DEF OpenIndex, DbInv, EntriesRight, NoEntry
  <2>2. CASE Ended(1) /\ UNCHANGED <<dbi, disk, walked>>
    BY <1>3, <2>2 DEF OpenIndex, Ended, DbInv, EntriesRight
  <2> QED BY <1>3, <2>1, <2>2 DEF OpenIndex
<1>4. ASSUME NEW k \in DOMAIN db, Associate(k) PROVE DbInv'
  <2>1. /\ dbi' = [c \in DOMAIN dbi \cup {db[k]} |-> IF c = db[k] THEN k ELSE dbi[c]]
        /\ walked' = walked \cup {k} /\ disk' \in {disk, dbi'}
        /\ db' = db /\ indexing' = "walk" /\ indexing = "walk" /\ indexings' = indexings
    BY <1>4 DEF Associate, get_cred_id
  <2>2. EntriesRight(dbi)'
    BY <2>1 DEF DbInv, EntriesRight
  <2>3. disk' # NoFile => EntriesRight(disk)'
    BY <2>1, <2>2 DEF DbInv, EntriesRight
  <2>4. walked' \subseteq DOMAIN db' /\ DOMAIN dbi' = {db'[j] : j \in walked'}
    BY <2>1 DEF DbInv
  <2> QED BY <2>1, <2>2, <2>3, <2>4 DEF DbInv
<1>5. CASE AssociateEnds
  <2>1. walked = DOMAIN db /\ indexing = "walk" => DOMAIN dbi = Range(db)
    BY DEF DbInv, Range
  <2> QED BY <1>5, <2>1 DEF AssociateEnds, DbFault, DbInv, EntriesRight
<1>6. CASE CloseIndex
  BY <1>6 DEF CloseIndex, DbFault, Ended, DbInv, EntriesRight
<1>7. CASE KillIndex
  BY <1>7 DEF KillIndex, DbFault, Ended, DbInv, EntriesRight
<1> QED BY <1>1, <1>2, <1>3, <1>4, <1>5, <1>6, <1>7 DEF DbNext

\* For every file and however many runs fail or are killed: an index leads from credentials
\* to records of theirs, and from all of them after a run that returns 0.
THEOREM IndexIsWhole == Spec => []IndexWhole
<1>1. Init => DbInv
  BY InitDbInv DEF Init, DbIndexIdle
<1>2. DbInv /\ [Next]_vars => DbInv'
  BY DbKeepsInv DEF Next, vars, dbVars
<1>3. DbInv => IndexWhole
  BY DEF DbInv, IndexWhole, EntriesRight
<1> QED BY <1>1, <1>2, <1>3, PTL DEF Spec

-----------------------------------------------------------------------------
(* The record the kernel writes *)

\* The records: those without a file have the credential in its place.
Messages == [type : {"boot", "credfork", "credfree", "file_p", "setid", "exec"}, cred : Creds,
             forked : Creds, inode : Creds \cup Inodes, mask : SUBSET {"READ", "WRITE", "APPEND", "EXEC"}]

\* What a record of type m.type does to the living credentials.
Effect(m) ==
  /\ m \in Messages
  /\ \/ m.type = "credfork" /\ m.forked \notin alive /\ alive' = alive \cup {m.forked}
     \/ m.type = "credfree" /\ m.cred \in alive /\ alive' = alive \ {m.cred}
     \/ m.type \notin {"credfork", "credfree"} /\ alive' = alive

LEMMA EmitReads == ASSUME Emit PROVE \E m : Read(m) /\ Effect(m)
<1>1. CASE Boot
  BY <1>1, LogAssumption DEF Boot, Effect, Rec, Messages
<1>2. ASSUME NEW c \in Creds, NEW d \in Creds, Credfork(c, d) PROVE \E m : Read(m) /\ Effect(m)
  <2> DEFINE m == [Rec("credfork", c) EXCEPT !.forked = d]
  <2>1. m \in Messages /\ m.type = "credfork" /\ m.cred = c /\ m.forked = d
    BY DEF Rec, Messages
  <2>2. Read(m) /\ d \notin alive /\ alive' = alive \cup {d}
    BY <1>2 DEF Credfork
  <2> HIDE DEF m
  <2> QED BY <2>1, <2>2 DEF Effect
<1>3. ASSUME NEW c \in Creds, Credfree(c) PROVE \E m : Read(m) /\ Effect(m)
  BY <1>3 DEF Credfree, Effect, Rec, Messages
<1>4. ASSUME NEW c \in Creds, NEW i \in Inodes, NEW mask \in Masks, Access(c, i, mask)
      PROVE \E m : Read(m) /\ Effect(m)
  <2> DEFINE m == [Rec("file_p", c) EXCEPT !.inode = i, !.mask = mask]
  <2>1. m \in Messages /\ m.type = "file_p"
    BY LogAssumption DEF Rec, Messages
  <2>2. Read(m) /\ alive' = alive
    BY <1>4 DEF Access
  <2> HIDE DEF m
  <2> QED BY <2>1, <2>2 DEF Effect
<1>5. ASSUME NEW c \in Creds, NEW type \in {"setid", "exec"}, Other(c, type)
      PROVE \E m : Read(m) /\ Effect(m)
  BY <1>5 DEF Other, Effect, Rec, Messages
<1> QED BY <1>1, <1>2, <1>3, <1>4, <1>5 DEF Emit

-----------------------------------------------------------------------------
(* neo_cat and neo_provd *)

IsAccess(m) == m.type = "file_p" /\ m.mask \cap {"READ", "WRITE", "APPEND"} # {}

\* The nodes of record m, the k-th.
NodesOf(m, k) ==
       {x \in {Activity(m.cred, k)} : m.type = "boot" \/ IsAccess(m)}
  \cup {x \in {Activity(m.forked, k)} : m.type = "credfork"}
  \cup {x \in {InodeVersion(m.inode, k)} : IsAccess(m)}

LEMMA ToldNodesAre == ToldNodes = UNION {NodesOf(hist[i], i) : i \in 1..Len(hist)}
<1>1. ToldNodes \subseteq UNION {NodesOf(hist[i], i) : i \in 1..Len(hist)}
  BY DEF ToldNodes, Records, Accesses, NodesOf, IsAccess
<1>2. UNION {NodesOf(hist[i], i) : i \in 1..Len(hist)} \subseteq ToldNodes
  <2> SUFFICES ASSUME NEW i \in 1..Len(hist), NEW x \in NodesOf(hist[i], i) PROVE x \in ToldNodes
    OBVIOUS
  <2>1. CASE x = Activity(hist[i].cred, i) /\ (hist[i].type = "boot" \/ IsAccess(hist[i]))
    BY <2>1 DEF ToldNodes, Records, Accesses, IsAccess
  <2>2. CASE x = Activity(hist[i].forked, i) /\ hist[i].type = "credfork"
    BY <2>2 DEF ToldNodes, Records
  <2>3. CASE x = InodeVersion(hist[i].inode, i) /\ IsAccess(hist[i])
    BY <2>3 DEF ToldNodes, Records, Accesses, IsAccess
  <2> QED BY <2>1, <2>2, <2>3 DEF NodesOf
<1> QED BY <1>1, <1>2

LEMMA NodesHaveRec == \A m, k : \A x \in NodesOf(m, k) : x.rec = k
  BY DEF NodesOf, Activity, InodeVersion

\* The edges that statement s would add if all nodes told of were there.
Between(s) == [rel : {s.rel}, from : Until(s.rec, s.from.label, s.from.id),
               to : Until(s.rec, s.to.label, s.to.id), rec : {s.rec}]

\* The statements left are about the last record; an edge is asked for last, if the record
\* tells of any.
PostsOfLast ==
  /\ posts \in Seq({posts[i] : i \in 1..Len(posts)})
  /\ \A i \in 1..Len(posts) :
       \/ posts[i].op = "create" /\ posts[i].node \in NodesOf(hist[Len(hist)], Len(hist))
       \/ /\ posts[i].op = "relate" /\ i = Len(posts) /\ posts[i].rec = Len(hist)
          /\ ToldBy(Len(hist)) = Between(posts[i])
       \/ posts[i].op = "label"
  /\ posts # <<>> =>
       /\ hist # <<>>
       /\ posts[Len(posts)].op # "relate" => ToldBy(Len(hist)) = {}

\* The graph is made of what the log tells; a record's edges come together.
GraphOfLog ==
  /\ nodes \subseteq ToldNodes
  /\ \A e \in edges : /\ e.rec \in 1..Len(hist) /\ e \in ToldBy(e.rec)
                      /\ {e.from, e.to} \subseteq nodes
                      /\ posts # <<>> => e.rec # Len(hist)
  /\ \A e \in edges : \A f \in ToldBy(e.rec) : {f.from, f.to} \subseteq nodes => f \in edges

\* Without a fault nothing is missing but what is still to be sent.
NothingMissing ==
  faults = 0 /\ running =>
    /\ \A x \in ToldNodes : x \in nodes \/ \E i \in 1..Len(posts) : posts[i] = Create(x)
    /\ \A k \in 1..Len(hist) : k < Len(hist) \/ posts = <<>> => ToldBy(k) \subseteq edges

NeoInv ==
  /\ hist \in Seq(Messages) /\ faults \in Nat
  /\ reader = "neo_provd" /\ ~running => faults > 0
  /\ PostsOfLast /\ GraphOfLog /\ NothingMissing

\* ToldBy, with the record looked at.
LEMMA ToldByCases ==
  ASSUME NEW k \in 1..Len(hist)
  PROVE  /\ hist[k].type = "credfork" =>
              ToldBy(k) = [rel : {"WasForkedFrom"}, from : Until(k, "Activity", hist[k].forked),
                           to : Until(k, "Activity", hist[k].cred), rec : {k}]
         /\ IsAccess(hist[k]) /\ "READ" \in hist[k].mask =>
              ToldBy(k) = [rel : {"Used"}, from : Until(k, "Activity", hist[k].cred),
                           to : Until(k, "InodeVersion", hist[k].inode), rec : {k}]
         /\ IsAccess(hist[k]) /\ "READ" \notin hist[k].mask =>
              ToldBy(k) = [rel : {"WasGeneratedBy"}, from : Until(k, "InodeVersion", hist[k].inode),
                           to : Until(k, "Activity", hist[k].cred), rec : {k}]
         /\ hist[k].type # "credfork" /\ ~IsAccess(hist[k]) => ToldBy(k) = {}
<1>1. k \in Accesses <=> IsAccess(hist[k])
  BY DEF Accesses, Records, IsAccess
<1>2. IsAccess(hist[k]) => hist[k].type # "credfork"
  BY DEF IsAccess
<1> QED BY <1>1, <1>2 DEF ToldBy

LEMMA UntilOld ==
  ASSUME NEW m, ToldNodes' = ToldNodes \cup NodesOf(m, Len(hist) + 1), Len(hist) \in Nat,
         NEW k \in 1..Len(hist), NEW label, NEW id
  PROVE  Until(k, label, id)' = Until(k, label, id)
<1>1. \A x \in NodesOf(m, Len(hist) + 1) : ~(x.rec <= k)
  BY NodesHaveRec
<1> QED BY <1>1 DEF Until

\* A record more leaves what the others tell.
LEMMA HistoryGrows ==
  ASSUME hist \in Seq(Messages), NEW m \in Messages, hist' = Append(hist, m)
  PROVE  /\ hist' \in Seq(Messages) /\ Len(hist') = Len(hist) + 1 /\ Len(hist) \in Nat
         /\ \A i \in 1..Len(hist) : hist'[i] = hist[i]
         /\ hist'[Len(hist) + 1] = m
         /\ ToldNodes' = ToldNodes \cup NodesOf(m, Len(hist) + 1)
         /\ \A k \in 1..Len(hist) : ToldBy(k)' = ToldBy(k)
<1>1. /\ hist' \in Seq(Messages) /\ Len(hist') = Len(hist) + 1 /\ Len(hist) \in Nat
      /\ \A i \in 1..Len(hist) : hist'[i] = hist[i]
      /\ hist'[Len(hist) + 1] = m
  OBVIOUS
<1>2. (ToldNodes = UNION {NodesOf(hist[i], i) : i \in 1..Len(hist)})'
  BY ToldNodesAre, PTL
<1>3. ToldNodes' = ToldNodes \cup NodesOf(m, Len(hist) + 1)
  <2>1. ASSUME NEW x \in ToldNodes' PROVE x \in ToldNodes \cup NodesOf(m, Len(hist) + 1)
    <3>1. PICK i \in 1..Len(hist') : x \in NodesOf(hist'[i], i)
      BY <2>1, <1>2
    <3>2. CASE i = Len(hist) + 1
      BY <3>1, <3>2, <1>1
    <3>3. CASE i \in 1..Len(hist)
      <4>1. x \in NodesOf(hist[i], i)
        BY <3>1, <3>3, <1>1
      <4> QED BY <3>3, <4>1, ToldNodesAre
    <3> QED BY <3>2, <3>3, <1>1
  <2>2. ASSUME NEW i \in 1..Len(hist), NEW x \in NodesOf(hist[i], i) PROVE x \in ToldNodes'
    <3>1. i \in 1..Len(hist') /\ x \in NodesOf(hist'[i], i)
      BY <2>2, <1>1
    <3> QED BY <3>1, <1>2
  <2>3. ASSUME NEW x \in NodesOf(m, Len(hist) + 1) PROVE x \in ToldNodes'
    <3> DEFINE i == Len(hist) + 1
    <3>1. i \in 1..Len(hist') /\ x \in NodesOf(hist'[i], i)
      BY <2>3, <1>1
    <3> QED BY <3>1, <1>2
  <2> QED BY <2>1, <2>2, <2>3, ToldNodesAre
<1>4. ASSUME NEW k \in 1..Len(hist) PROVE ToldBy(k)' = ToldBy(k)
  <2>1. k \in 1..Len(hist') /\ hist'[k] = hist[k]
    BY <1>1
  <2>2. \A label, id : Until(k, label, id)' = Until(k, label, id)
    BY <1>1, <1>3, UntilOld
  <2>3. (k \in Accesses)' <=> k \in Accesses
    BY <2>1 DEF Accesses, Records
  <2> QED BY <2>1, <2>2, <2>3 DEF ToldBy
<1> QED BY <1>1, <1>3, <1>4

\* A handler's statements create the nodes of its record, then ask for its edge.
FreshPosts ==
  LET k == Len(hist)
      m == hist[k]
  IN /\ hist \in Seq(Messages) /\ hist # <<>>
     /\ IF m.type \in Handled THEN posts = Statements(m, k) ELSE posts = <<>>

LEMMA StatementsTell ==
  FreshPosts => /\ PostsOfLast
                /\ \A x \in NodesOf(hist[Len(hist)], Len(hist)) :
                     \E i \in 1..Len(posts) : posts[i] = Create(x)
                /\ posts = <<>> => ToldBy(Len(hist)) = {}
<1> SUFFICES ASSUME FreshPosts
             PROVE  /\ PostsOfLast
                    /\ \A x \in NodesOf(hist[Len(hist)], Len(hist)) :
                         \E i \in 1..Len(posts) : posts[i] = Create(x)
                    /\ posts = <<>> => ToldBy(Len(hist)) = {}
  OBVIOUS
<1> DEFINE k == Len(hist)
           m == hist[k]
<1>1. k \in 1..Len(hist) /\ m \in Messages /\ hist # <<>>
  BY DEF FreshPosts
<1>2. ASSUME posts = <<>>, NodesOf(m, k) = {}, ToldBy(k) = {}
      PROVE  /\ PostsOfLast
             /\ \A x \in NodesOf(m, k) : \E i \in 1..Len(posts) : posts[i] = Create(x)
             /\ posts = <<>> => ToldBy(k) = {}
  BY <1>2 DEF PostsOfLast
<1>3. ASSUME m.type \in {"credfree", "setid"} PROVE posts = <<>> /\ NodesOf(m, k) = {} /\ ToldBy(k) = {}
  BY <1>1, <1>3, ToldByCases DEF FreshPosts, Handled, NodesOf, IsAccess
<1>4. ASSUME m.type = "file_p", ~IsAccess(m) PROVE posts = <<>> /\ NodesOf(m, k) = {} /\ ToldBy(k) = {}
  BY <1>1, <1>4, ToldByCases DEF FreshPosts, Handled, NodesOf, IsAccess, Statements, handle_file_p
<1> HIDE DEF k, m
<1>5. CASE m.type = "exec"
  <2>1. posts = <<SetLabel(m.cred)>>
    BY <1>5 DEF FreshPosts, Handled, Statements, handle_exec, m, k
  <2>2. NodesOf(m, k) = {} /\ ToldBy(k) = {}
    BY <1>1, <1>5, ToldByCases DEF NodesOf, IsAccess, m, k
  <2>3. SetLabel(m.cred).op = "label"
    BY DEF SetLabel
  <2> DEFINE l == SetLabel(m.cred)
  <2>4. posts = <<l>> /\ l.op = "label"
    BY <2>1, <2>3
  <2> HIDE DEF l
  <2>5. Len(posts) = 1 /\ posts[1] = l /\ posts \in Seq({posts[i] : i \in 1..Len(posts)})
    BY <2>4
  <2> QED BY <2>2, <2>4, <2>5, <1>1 DEF PostsOfLast, k, m
<1>6. CASE m.type = "boot"
  <2> DEFINE x == Activity(m.cred, k)
             c == Create(x)
  <2>1. posts = <<c>>
    BY <1>6 DEF FreshPosts, Handled, Statements, handle_boot, m, k
  <2>2. NodesOf(m, k) = {x} /\ ToldBy(k) = {}
    BY <1>1, <1>6, ToldByCases DEF NodesOf, IsAccess, m, k
  <2>3. c.op = "create" /\ c.node = x /\ c = Create(x)
    BY DEF Create
  <2> HIDE DEF c, x
  <2>4. Len(posts) = 1 /\ posts[1] = c /\ posts \in Seq({posts[i] : i \in 1..Len(posts)})
    BY <2>1
  <2> QED BY <2>2, <2>3, <2>4, <1>1 DEF PostsOfLast, k, m
<1>7. CASE m.type = "credfork"
  <2> DEFINE x == Activity(m.forked, k)
             y == Activity(m.cred, k)
             c == Create(x)
             r == Relate("WasForkedFrom", x, y, k)
  <2>1. posts = <<c, r>>
    BY <1>7 DEF FreshPosts, Handled, Statements, handle_credfork, m, k
  <2>2. NodesOf(m, k) = {x}
    BY <1>7 DEF NodesOf, IsAccess
  <2>3. ToldBy(k) = Between(r) /\ r.op = "relate" /\ r.rec = k
    BY <1>1, <1>7, ToldByCases DEF Between, Relate, Activity, m, k
  <2>4. c.op = "create" /\ c.node = x /\ c = Create(x)
    BY DEF Create
  <2> HIDE DEF c, x, r
  <2>5. /\ Len(posts) = 2 /\ posts[1] = c /\ posts[2] = r
        /\ posts \in Seq({posts[i] : i \in 1..Len(posts)})
    BY <2>1
  <2>6. \A i \in 1..2 : i = 1 \/ i = 2
    OBVIOUS
  <2>7. PostsOfLast
    BY <2>2, <2>3, <2>4, <2>5, <2>6, <1>1 DEF PostsOfLast, k, m
  <2>8. \A z \in NodesOf(m, k) : \E i \in 1..Len(posts) : posts[i] = Create(z)
    BY <2>2, <2>4, <2>5
  <2> QED BY <2>5, <2>7, <2>8 DEF k, m
<1>8. CASE m.type = "file_p" /\ IsAccess(m)
  <2> DEFINE x == InodeVersion(m.inode, k)
             y == Activity(m.cred, k)
             c == Create(x)
             d == Create(y)
             r == IF "READ" \in m.mask THEN Relate("Used", y, x, k)
                  ELSE Relate("WasGeneratedBy", x, y, k)
  <2>1. posts = <<c, d, r>>
    BY <1>8 DEF FreshPosts, Handled, Statements, handle_file_p, IsAccess, m, k
  <2>2. NodesOf(m, k) = {x, y}
    BY <1>8 DEF NodesOf
  <2>3. ToldBy(k) = Between(r) /\ r.op = "relate" /\ r.rec = k
    <3>1. CASE "READ" \in m.mask
      BY <3>1, <1>1, <1>8, ToldByCases DEF Between, Relate, Activity, InodeVersion, m, k
    <3>2. CASE "READ" \notin m.mask
      BY <3>2, <1>1, <1>8, ToldByCases DEF Between, Relate, Activity, InodeVersion, m, k
    <3> QED BY <3>1, <3>2
  <2>4. c.op = "create" /\ c.node = x /\ c = Create(x) /\ d.op = "create" /\ d.node = y /\ d = Create(y)
    BY DEF Create
  <2> HIDE DEF c, d, x, y, r
  <2>5. /\ Len(posts) = 3 /\ posts[1] = c /\ posts[2] = d /\ posts[3] = r
        /\ posts \in Seq({posts[i] : i \in 1..Len(posts)})
    BY <2>1
  <2>6. \A i \in 1..3 : i = 1 \/ i = 2 \/ i = 3
    OBVIOUS
  <2> QED BY <2>2, <2>3, <2>4, <2>5, <2>6, <1>1 DEF PostsOfLast, k, m
<1>9. m.type \in {"boot", "credfork", "credfree", "file_p", "setid", "exec"}
  BY <1>1 DEF Messages
<1> QED BY <1>2, <1>3, <1>4, <1>5, <1>6, <1>7, <1>8, <1>9 DEF k, m

LEMMA ReadKeepsNeoInv ==
  ASSUME NeoInv, NEW m \in Messages, Read(m)
  PROVE  NeoInv'
<1>1. hist \in Seq(Messages) /\ hist' = Append(hist, m)
  BY DEF NeoInv, Read
<1>0. PICK k \in Nat : k = Len(hist) + 1
  BY <1>1
<1>2. /\ hist' \in Seq(Messages) /\ Len(hist') = Len(hist) + 1 /\ Len(hist) \in Nat
      /\ \A i \in 1..Len(hist) : hist'[i] = hist[i]
      /\ hist'[Len(hist) + 1] = m
      /\ ToldNodes' = ToldNodes \cup NodesOf(m, Len(hist) + 1)
      /\ \A j \in 1..Len(hist) : ToldBy(j)' = ToldBy(j)
  BY <1>1, HistoryGrows
<1>3. posts = <<>> /\ nodes' = nodes /\ edges' = edges /\ faults' = faults /\ reader' = reader
  BY DEF Read, NeoRead, neoVars
<1>4. GraphOfLog'
  <2>1. nodes' \subseteq ToldNodes'
    BY <1>2, <1>3 DEF NeoInv, GraphOfLog
  <2>2. \A e \in edges' : e.rec \in 1..Len(hist) /\ ToldBy(e.rec)' = ToldBy(e.rec)
    BY <1>2, <1>3 DEF NeoInv, GraphOfLog
  <2>3. \A e \in edges' : e.rec \in 1..Len(hist') /\ e.rec # Len(hist')
    BY <2>2, <1>2
  <2> QED BY <2>1, <2>2, <2>3, <1>3 DEF NeoInv, GraphOfLog
<1>5. CASE reader = "neo_cat" /\ ~running
  <2>1. posts' = <<>> /\ running' = FALSE
    BY <1>3, <1>5 DEF Read, neoVars
  <2> QED BY <2>1, <1>2, <1>3, <1>4, <1>5 DEF NeoInv, PostsOfLast, NothingMissing
<1>6. CASE ~(reader = "neo_cat" /\ ~running)
  <2>1. NeoRead(m, k)
    BY <1>0, <1>6 DEF Read
  <2>2. /\ running /\ running' = (reader = "neo_provd" \/ num_events' <= NumEvents)
        /\ IF m.type \in Handled THEN posts' = Statements(m, k) ELSE posts' = <<>>
    BY <2>1, <1>3 DEF NeoRead
  <2>3. FreshPosts'
    <3>1. hist' # <<>> /\ hist'[Len(hist')] = m /\ Len(hist') = k
      BY <1>0, <1>2
    <3> QED BY <3>1, <2>2, <1>2 DEF FreshPosts
  <2>4. (FreshPosts => /\ PostsOfLast
                       /\ \A x \in NodesOf(hist[Len(hist)], Len(hist)) :
                            \E i \in 1..Len(posts) : posts[i] = Create(x)
                       /\ posts = <<>> => ToldBy(Len(hist)) = {})'
    BY StatementsTell, PTL
  <2>5. /\ PostsOfLast'
        /\ \A x \in NodesOf(m, k) : \E i \in 1..Len(posts') : posts'[i] = Create(x)
        /\ posts' = <<>> => ToldBy(k)' = {}
    <3>1. hist'[Len(hist')] = m /\ Len(hist') = k
      BY <1>0, <1>2
    <3>2. ToldBy(Len(hist))' = ToldBy(k)'
      BY <3>1 DEF ToldBy, Until
    <3> QED BY <2>3, <2>4, <3>1, <3>2
  <2>6. NothingMissing'
    <3> SUFFICES ASSUME faults' = 0
                 PROVE  /\ \A x \in ToldNodes' :
                             x \in nodes' \/ \E i \in 1..Len(posts') : posts'[i] = Create(x)
                        /\ \A j \in 1..Len(hist') :
                             j < Len(hist') \/ posts' = <<>> => ToldBy(j)' \subseteq edges'
      BY DEF NothingMissing
    <3>1. /\ \A x \in ToldNodes : x \in nodes
          /\ \A j \in 1..Len(hist) : ToldBy(j) \subseteq edges
      BY <1>3, <2>2 DEF NeoInv, NothingMissing
    <3>2. \A x \in ToldNodes' :
            x \in nodes' \/ \E i \in 1..Len(posts') : posts'[i] = Create(x)
      BY <3>1, <2>5, <1>0, <1>2, <1>3
    <3>3. ASSUME NEW j \in 1..Len(hist'), j < Len(hist') \/ posts' = <<>>
          PROVE  ToldBy(j)' \subseteq edges'
      <4>1. CASE j \in 1..Len(hist)
        BY <4>1, <3>1, <1>2, <1>3
      <4>2. CASE j = k
        <5>1. j = Len(hist')
          BY <4>2, <1>0, <1>2
        <5>2. posts' = <<>>
          BY <5>1, <3>3, <1>2
        <5> QED BY <4>2, <5>2, <2>5
      <4> QED BY <4>1, <4>2, <1>0, <1>2
    <3> QED BY <3>2, <3>3
  <2> QED BY <2>2, <2>5, <2>6, <1>2, <1>3, <1>4 DEF NeoInv
<1> QED BY <1>5, <1>6

LEMMA HistSame ==
  ASSUME UNCHANGED hist
  PROVE  ToldNodes' = ToldNodes /\ \A k : ToldBy(k)' = ToldBy(k)
<1>1. ToldNodes' = ToldNodes
  BY DEF ToldNodes, Records, Accesses
<1>2. \A k, label, id : Until(k, label, id)' = Until(k, label, id)
  BY <1>1 DEF Until
<1>3. ASSUME NEW k PROVE ToldBy(k)' = ToldBy(k)
  <2>1. (k \in Accesses)' <=> k \in Accesses
    BY DEF Accesses, Records
  <2> QED BY <1>2, <2>1 DEF ToldBy
<1> QED BY <1>1, <1>3

\* An edge is between nodes of its record and of earlier ones.
LEMMA ToldByNodes ==
  ASSUME NEW k, NEW f \in ToldBy(k)
  PROVE  /\ f.rec = k /\ f.from \in ToldNodes /\ f.to \in ToldNodes
         /\ f.from.rec <= k /\ f.to.rec <= k
  BY DEF ToldBy, Until

LEMMA ToldNodesRec == \A x \in ToldNodes : x.rec \in 1..Len(hist)
  BY ToldNodesAre, NodesHaveRec

\* MATCH finds the nodes that the log tells of.
LEMMA PairsAreTold ==
  ASSUME nodes \subseteq ToldNodes, hist \in Seq(Messages), NEW s, s.rec = Len(hist)
  PROVE  Pairs(s) = {f \in Between(s) : {f.from, f.to} \subseteq nodes}
<1>1. ASSUME NEW l, NEW n PROVE {x \in nodes : x.label = l /\ x.id = n} = nodes \cap Until(s.rec, l, n)
  <2>1. \A x \in nodes : x.rec \in 1..Len(hist)
    BY ToldNodesRec
  <2> QED BY <2>1 DEF Until
<1> DEFINE A == nodes \cap Until(s.rec, s.from.label, s.from.id)
           B == nodes \cap Until(s.rec, s.to.label, s.to.id)
<1>2. Pairs(s) = {[rel |-> s.rel, from |-> x, to |-> y, rec |-> s.rec] : x \in A, y \in B}
  BY <1>1 DEF Pairs, SameKey
<1>3. Pairs(s) = [rel : {s.rel}, from : A, to : B, rec : {s.rec}]
  <2> HIDE DEF A, B
  <2>1. Pairs(s) \subseteq [rel : {s.rel}, from : A, to : B, rec : {s.rec}]
    BY <1>2
  <2>2. ASSUME NEW f \in [rel : {s.rel}, from : A, to : B, rec : {s.rec}] PROVE f \in Pairs(s)
    <3>1. f = [rel |-> s.rel, from |-> f.from, to |-> f.to, rec |-> s.rec] /\ f.from \in A /\ f.to \in B
      BY <2>2
    <3> QED BY <3>1, <1>2
  <2> QED BY <2>1, <2>2
<1>4. ASSUME NEW f
      PROVE  f \in [rel : {s.rel}, from : A, to : B, rec : {s.rec}]
             <=> f \in Between(s) /\ {f.from, f.to} \subseteq nodes
  BY DEF Between
<1> QED BY <1>3, <1>4

LEMMA OwnRange ==
  ASSUME NEW S, NEW t \in Seq(S)
  PROVE  t \in Seq({t[i] : i \in 1..Len(t)})
  OBVIOUS

LEMMA PostKeepsPosts ==
  ASSUME PostsOfLast, posts # <<>>, posts' = Tail(posts), UNCHANGED hist
  PROVE  /\ PostsOfLast'
         /\ Len(posts) \in Nat \ {0} /\ Len(posts') = Len(posts) - 1
         /\ \A i \in 1..Len(posts') : posts'[i] = posts[i + 1]
         /\ posts' = <<>> => Len(posts) = 1
         /\ Head(posts) = posts[1]
<1> DEFINE S == {posts[i] : i \in 1..Len(posts)}
<1>1. posts \in Seq(S)
  BY DEF PostsOfLast
<1> HIDE DEF S
<1>2. /\ Len(posts) \in Nat \ {0} /\ posts' \in Seq(S) /\ Len(posts') = Len(posts) - 1
      /\ \A i \in 1..Len(posts') : posts'[i] = posts[i + 1]
      /\ Head(posts) = posts[1]
  BY <1>1
<1>3. posts' \in Seq({posts'[i] : i \in 1..Len(posts')})
  <2>1. PICK t \in Seq(S) : t = posts'
    BY <1>2
  <2>2. t \in Seq({t[i] : i \in 1..Len(t)})
    BY OwnRange
  <2> QED BY <2>1, <2>2, Zenon
<1>4. posts' = <<>> => Len(posts) = 1
  BY <1>2
<1>5. \A k : ToldBy(k)' = ToldBy(k)
  BY HistSame
<1>6. ASSUME NEW i \in 1..Len(posts')
      PROVE (\/ posts[i].op = "create" /\ posts[i].node \in NodesOf(hist[Len(hist)], Len(hist))
             \/ /\ posts[i].op = "relate" /\ i = Len(posts) /\ posts[i].rec = Len(hist)
                /\ ToldBy(Len(hist)) = Between(posts[i])
             \/ posts[i].op = "label")'
  <2>1. i + 1 \in 1..Len(posts) /\ posts'[i] = posts[i + 1]
    BY <1>2
  <2>2. i + 1 = Len(posts) => i = Len(posts')
    <3>1. PICK n \in Nat \ {0} : n = Len(posts)
      BY <1>2
    <3>2. Len(posts') = n - 1
      BY <3>1, <1>2
    <3>3. i \in 1..(n - 1)
      BY <3>2
    <3>4. i + 1 = n => i = n - 1
      BY <3>1, <3>3
    <3> QED BY <3>1, <3>2, <3>4
  <2>3. CASE posts[i + 1].op # "relate"
    BY <2>1, <2>3 DEF PostsOfLast
  <2>4. CASE posts[i + 1].op = "relate"
    <3>1. /\ i = Len(posts') /\ posts'[i].op = "relate" /\ posts'[i].rec = Len(hist)
          /\ ToldBy(Len(hist)) = Between(posts[i + 1])
      BY <2>1, <2>2, <2>4 DEF PostsOfLast
    <3>2. PICK k, s : k = Len(hist') /\ k = Len(hist) /\ s = posts'[i] /\ s = posts[i + 1]
      BY <2>1
    <3>3. ToldBy(Len(hist))' = ToldBy(k)' /\ Between(posts[i])' = Between(s)'
      BY <3>2 DEF ToldBy, Between, Until
    <3>4. ToldBy(k)' = ToldBy(k) /\ Between(s)' = Between(s)
      BY HistSame DEF Between, Until
    <3> QED BY <3>1, <3>2, <3>3, <3>4
  <2> QED BY <2>3, <2>4
<1>7. posts' # <<>> => /\ hist' # <<>>
                       /\ posts'[Len(posts')].op # "relate" => ToldBy(Len(hist))' = {}
  <2> SUFFICES ASSUME posts' # <<>>
               PROVE  hist' # <<>> /\ (posts'[Len(posts')].op # "relate" => ToldBy(Len(hist))' = {})
    OBVIOUS
  <2>1. Len(posts') \in 1..Len(posts') /\ posts'[Len(posts')] = posts[Len(posts)]
    BY <1>2
  <2>2. ToldBy(Len(hist))' = ToldBy(Len(hist))
    BY HistSame DEF ToldBy, Until, Accesses, Records
  <2> QED BY <2>1, <2>2 DEF PostsOfLast
<1> QED BY <1>2, <1>3, <1>4, <1>6, <1>7 DEF PostsOfLast

LEMMA PostKeepsNeoInv == NeoInv /\ Post /\ UNCHANGED hist => NeoInv'
<1> SUFFICES ASSUME NeoInv, Post, UNCHANGED hist PROVE NeoInv'
  OBVIOUS
<1> DEFINE s == posts[1]
<1>1. posts # <<>> /\ posts' = Tail(posts) /\ reader' = reader /\ running' = running
  BY DEF Post
<1>2. /\ PostsOfLast' /\ Len(posts) \in Nat \ {0} /\ Len(posts') = Len(posts) - 1
      /\ \A i \in 1..Len(posts') : posts'[i] = posts[i + 1]
      /\ posts' = <<>> => Len(posts) = 1
      /\ Head(posts) = s
  BY <1>1, PostKeepsPosts DEF NeoInv
<1>3. /\ ToldNodes' = ToldNodes /\ \A k : ToldBy(k)' = ToldBy(k)
      /\ hist \in Seq(Messages) /\ hist' = hist /\ faults \in Nat
  BY HistSame DEF NeoInv
<1>4. Len(hist) \in 1..Len(hist) /\ Len(hist) \in Nat
  BY <1>1, <1>3 DEF NeoInv, PostsOfLast
<1>5. /\ s.op = "create" /\ s.node \in NodesOf(hist[Len(hist)], Len(hist))
      \/ /\ s.op = "relate" /\ Len(posts) = 1 /\ s.rec = Len(hist)
         /\ ToldBy(Len(hist)) = Between(s)
      \/ s.op = "label"
  BY <1>2 DEF NeoInv, PostsOfLast
<1>6. s.op # "relate" /\ posts' = <<>> => ToldBy(Len(hist)) = {}
  BY <1>1, <1>2 DEF NeoInv, PostsOfLast
<1>7. ASSUME NEW x, NEW i \in 1..Len(posts), posts[i] = Create(x)
      PROVE  \/ s.op = "create" /\ s.node = x
             \/ \E j \in 1..Len(posts') : posts'[j] = Create(x)
  <2>1. CASE i = 1
    BY <1>7, <2>1 DEF Create
  <2>2. CASE i # 1
    <3>1. PICK n \in Nat \ {0} : n = Len(posts)
      BY <1>2
    <3>2. i - 1 \in 1..(n - 1) /\ (i - 1) + 1 = i
      BY <2>2, <3>1
    <3>3. i - 1 \in 1..Len(posts') /\ posts'[i - 1] = posts[i]
      BY <1>2, <3>1, <3>2
    <3> QED BY <1>7, <3>3
  <2> QED BY <2>1, <2>2
<1> HIDE DEF s
<1>8. ASSUME NEW e \in edges
      PROVE  /\ e.rec \in 1..Len(hist) /\ e.rec # Len(hist) /\ e \in ToldBy(e.rec)
             /\ {e.from, e.to} \subseteq nodes
             /\ \A f \in ToldBy(e.rec) : {f.from, f.to} \subseteq nodes => f \in edges
  BY <1>1 DEF NeoInv, GraphOfLog
<1>9. CASE faults' = faults + 1 /\ UNCHANGED <<nodes, edges>>
  <2>1. faults' \in Nat /\ faults' > 0
    BY <1>3, <1>9
  <2>2. GraphOfLog'
    BY <1>3, <1>8, <1>9 DEF NeoInv, GraphOfLog
  <2> QED BY <1>2, <1>3, <2>1, <2>2 DEF NeoInv, NothingMissing
<1>10. CASE Execute(s) /\ UNCHANGED faults
  <2>1. GraphOfLog' /\ NothingMissing' => NeoInv'
    BY <1>1, <1>2, <1>3, <1>10 DEF NeoInv
  <2>2. faults' = 0 /\ running' =>
          /\ \A x \in ToldNodes : x \in nodes \/ \E i \in 1..Len(posts) : posts[i] = Create(x)
          /\ \A k \in 1..Len(hist) : k < Len(hist) => ToldBy(k) \subseteq edges
    BY <1>1, <1>10 DEF NeoInv, NothingMissing
  <2>3. CASE s.op = "create" /\ nodes' = nodes \cup {s.node} /\ UNCHANGED edges
    <3>1. s.node \in ToldNodes /\ s.node.rec = Len(hist)
      BY <1>4, <1>5, <2>3, ToldNodesAre, NodesHaveRec
    <3>2. GraphOfLog'
      <4>1. ASSUME NEW e \in edges, NEW f \in ToldBy(e.rec), {f.from, f.to} \subseteq nodes'
            PROVE  f \in edges
        <5>1. f.from.rec <= e.rec /\ f.to.rec <= e.rec /\ e.rec < Len(hist)
              /\ f.from \in ToldNodes /\ f.to \in ToldNodes
          BY <1>4, <1>8, ToldByNodes
        <5>2. f.from.rec \in Int /\ f.to.rec \in Int /\ e.rec \in Int
          BY <1>4, <1>8, <5>1, ToldNodesRec
        <5>3. f.from # s.node /\ f.to # s.node
          BY <1>4, <3>1, <5>1, <5>2
        <5> QED BY <1>8, <2>3, <4>1, <5>3
      <4> QED BY <1>3, <1>8, <2>3, <3>1, <4>1 DEF NeoInv, GraphOfLog
    <3>3. NothingMissing'
      BY <1>3, <1>4, <1>6, <1>7, <2>2, <2>3 DEF NothingMissing
    <3> QED BY <2>1, <3>2, <3>3
  <2>4. CASE s.op = "relate" /\ edges' = edges \cup Pairs(s) /\ UNCHANGED nodes
    <3>1. Len(posts) = 1 /\ s.rec = Len(hist) /\ ToldBy(Len(hist)) = Between(s)
      BY <1>5, <2>4
    <3>2. posts' = <<>> /\ Len(posts') = 0
      BY <1>2, <3>1 DEF PostsOfLast
    <3>3. Pairs(s) = {f \in ToldBy(Len(hist)) : {f.from, f.to} \subseteq nodes}
      BY <1>3, <3>1, PairsAreTold DEF NeoInv, GraphOfLog
    <3>4. \A f \in Pairs(s) : f.rec = Len(hist)
      BY <3>3, ToldByNodes
    <3>5. GraphOfLog'
      <4>1. ASSUME NEW e \in edges'
            PROVE  /\ e.rec \in 1..Len(hist) /\ e \in ToldBy(e.rec)
                   /\ {e.from, e.to} \subseteq nodes
                   /\ \A f \in ToldBy(e.rec) : {f.from, f.to} \subseteq nodes => f \in edges'
        <5>1. CASE e \in edges
          BY <1>8, <2>4, <5>1
        <5>2. CASE e \in Pairs(s)
          BY <1>4, <2>4, <3>3, <3>4, <5>2
        <5> QED BY <2>4, <5>1, <5>2
      <4>2. \A e \in edges' : /\ e.rec \in 1..Len(hist') /\ e \in ToldBy(e.rec)'
                              /\ {e.from, e.to} \subseteq nodes'
        BY <1>3, <2>4, <4>1
      <4>3. \A e \in edges' : \A f \in ToldBy(e.rec)' : {f.from, f.to} \subseteq nodes' => f \in edges'
        BY <1>3, <2>4, <4>1
      <4>4. nodes' \subseteq ToldNodes'
        BY <1>3, <2>4 DEF NeoInv, GraphOfLog
      <4> QED BY <3>2, <4>2, <4>3, <4>4 DEF GraphOfLog
    <3>6. NothingMissing'
      <4> SUFFICES ASSUME faults' = 0, running'
                   PROVE  /\ \A x \in ToldNodes : x \in nodes
                          /\ \A k \in 1..Len(hist) : ToldBy(k) \subseteq edges'
        BY <1>3, <2>4 DEF NothingMissing
      <4>1. \A x \in ToldNodes : x \in nodes
        BY <1>7, <2>2, <2>4, <3>2
      <4>2. ToldBy(Len(hist)) \subseteq edges'
        BY <2>4, <3>3, <4>1, ToldByNodes
      <4>3. \A k \in 1..Len(hist) : k = Len(hist) \/ k < Len(hist)
        BY <1>4
      <4> QED BY <2>2, <2>4, <4>1, <4>2, <4>3
    <3> QED BY <2>1, <3>5, <3>6
  <2>5. CASE s.op = "label" /\ UNCHANGED <<nodes, edges>>
    <3>1. GraphOfLog'
      BY <1>3, <1>8, <2>5 DEF NeoInv, GraphOfLog
    <3>2. NothingMissing'
      BY <1>3, <1>4, <1>6, <1>7, <2>2, <2>5 DEF NothingMissing
    <3> QED BY <2>1, <3>1, <3>2
  <2> QED BY <1>10, <2>3, <2>4, <2>5 DEF Execute
<1> QED BY <1>2, <1>9, <1>10 DEF Post

LEMMA NeoStepKeepsNeoInv == NeoInv /\ NeoStep => NeoInv'
<1> SUFFICES ASSUME NeoInv, NeoStep PROVE NeoInv'
  OBVIOUS
<1>1. UNCHANGED hist
  BY DEF NeoStep, kernelVars
<1>2. /\ ToldNodes' = ToldNodes /\ \A k : ToldBy(k)' = ToldBy(k)
      /\ hist \in Seq(Messages) /\ hist' = hist /\ faults \in Nat
  BY <1>1, HistSame DEF NeoInv
<1>3. CASE KillReader
  <2>1. /\ faults' \in Nat /\ faults' > 0 /\ posts' = <<>>
        /\ nodes' = nodes /\ edges' = edges
    BY <1>2, <1>3 DEF KillReader
  <2>2. GraphOfLog'
    BY <1>2, <2>1 DEF NeoInv, GraphOfLog
  <2>3. PostsOfLast'
    BY <2>1 DEF PostsOfLast
  <2> QED BY <1>2, <2>1, <2>2, <2>3 DEF NeoInv, NothingMissing
<1>4. CASE StartAgain
  <2>1. /\ faults' = faults /\ faults > 0 /\ posts' = posts
        /\ nodes' = nodes /\ edges' = edges /\ running'
    BY <1>2, <1>4 DEF StartAgain, NeoInv
  <2>2. GraphOfLog'
    BY <1>2, <2>1 DEF NeoInv, GraphOfLog
  <2>3. PostsOfLast'
    <3>1. \A x : Between(x)' = Between(x)
      BY <1>2 DEF Between, Until
    <3>2. ToldBy(Len(hist))' = ToldBy(Len(hist))
      BY <1>2 DEF ToldBy, Until, Accesses, Records
    <3>3. PostsOfLast
      BY DEF NeoInv
    <3> QED BY <1>2, <2>1, <3>1, <3>2, <3>3 DEF PostsOfLast
  <2> QED BY <1>2, <2>1, <2>2, <2>3 DEF NeoInv, NothingMissing
<1> QED BY <1>1, <1>3, <1>4, PostKeepsNeoInv DEF NeoStep

LEMMA InitNeoInv == hist = <<>> /\ NeoInit => NeoInv
<1> SUFFICES ASSUME hist = <<>>, NeoInit PROVE NeoInv
  OBVIOUS
<1>1. Len(hist) = 0 /\ hist \in Seq(Messages) /\ ToldNodes = {} /\ faults = 0 /\ running
      /\ posts = <<>> /\ nodes = {} /\ edges = {}
  BY ToldNodesAre DEF NeoInit
<1>2. PostsOfLast /\ GraphOfLog /\ NothingMissing
  BY <1>1 DEF PostsOfLast, GraphOfLog, NothingMissing
<1> QED BY <1>1, <1>2 DEF NeoInv

LEMMA NeoRestsInv == NeoInv /\ UNCHANGED readerVars => NeoInv'
<1> SUFFICES ASSUME NeoInv, UNCHANGED readerVars PROVE NeoInv'
  OBVIOUS
<1>1. /\ UNCHANGED hist /\ reader' = reader /\ running' = running /\ nodes' = nodes
      /\ edges' = edges /\ posts' = posts /\ faults' = faults
  BY DEF readerVars, kernelVars, neoVars
<1>2. /\ ToldNodes' = ToldNodes /\ \A k : ToldBy(k)' = ToldBy(k)
  BY <1>1, HistSame
<1>3. \A x : Between(x)' = Between(x)
  BY <1>1, <1>2 DEF Between, Until
<1>4. ToldBy(Len(hist))' = ToldBy(Len(hist))
  BY <1>1, <1>2 DEF ToldBy, Until, Accesses, Records
<1>5. PostsOfLast'
  BY <1>1, <1>3, <1>4 DEF NeoInv, PostsOfLast
<1>6. GraphOfLog' /\ NothingMissing'
  BY <1>1, <1>2 DEF NeoInv, GraphOfLog, NothingMissing
<1> QED BY <1>1, <1>5, <1>6 DEF NeoInv

LEMMA GraphOfLogIsWithin == NeoInv => GraphWithinLog
<1> SUFFICES ASSUME NeoInv PROVE GraphWithinLog
  OBVIOUS
<1>1. ASSUME NEW k \in {e.rec : e \in edges}
      PROVE  {e \in edges : e.rec = k} = {e \in ToldBy(k) : {e.from, e.to} \subseteq nodes}
  <2>1. PICK e \in edges : e.rec = k
    OBVIOUS
  <2>2. \A f \in ToldBy(k) : {f.from, f.to} \subseteq nodes => f \in edges /\ f.rec = k
    BY <2>1, ToldByNodes DEF NeoInv, GraphOfLog
  <2> QED BY <2>2 DEF NeoInv, GraphOfLog
<1>2. ASSUME faults = 0, running, posts = <<>>
      PROVE  nodes = ToldNodes /\ edges = UNION {ToldBy(k) : k \in 1..Len(hist)}
  <2>1. nodes = ToldNodes
    <3>1. ~ \E i \in 1..Len(posts) : TRUE
      BY <1>2
    <3> QED BY <1>2, <3>1 DEF NeoInv, GraphOfLog, NothingMissing
  <2>2. edges \subseteq UNION {ToldBy(k) : k \in 1..Len(hist)}
    BY DEF NeoInv, GraphOfLog
  <2>3. \A k \in 1..Len(hist) : ToldBy(k) \subseteq edges
    BY <1>2 DEF NeoInv, NothingMissing
  <2> QED BY <2>1, <2>2, <2>3
<1> QED BY <1>1, <1>2 DEF NeoInv, GraphOfLog, GraphWithinLog

\* For every log, every set of credentials and inodes, and any number of lost requests and
\* killed readers: the graph is made of what the log tells, and is all of it without a fault.
THEOREM GraphIsOfTheLog == Spec => []GraphWithinLog
<1>1. Init => NeoInv
  BY InitNeoInv DEF Init, ReadersInit, ReadersIdle
<1>2. NeoInv /\ [Next]_vars => NeoInv'
  <2>1. ASSUME NeoInv, Emit PROVE NeoInv'
    <3>1. PICK m : Read(m) /\ Effect(m)
      BY <2>1, EmitReads
    <3> QED BY <2>1, <3>1, ReadKeepsNeoInv DEF Effect
  <2> QED BY <2>1, NeoStepKeepsNeoInv, NeoRestsInv DEF Next, ReadersNext, vars
<1> QED BY <1>1, <1>2, GraphOfLogIsWithin, PTL DEF Spec

-----------------------------------------------------------------------------
(* elijah and ncred *)

\* A log that begins in the middle frees what it has not forked; one that lived before the
\* log can be forked in it only after it was freed.
LivesAsLogged ==
  /\ alive \subseteq Creds /\ alive0 \subseteq Creds
  /\ alive \subseteq alive0 \cup ForkedInLog
  /\ alive0 \subseteq alive \cup FreedInLog
  /\ alive0 \cap ForkedInLog \subseteq FreedInLog
  /\ FreedInLog \cap alive \subseteq ForkedInLog

VectorInv == Vector(vector) /\ vector.size > 0 /\ VectorHoldsLiving

\* Up to its first n records the log keeps the count from falling, and max is the peak.
PeakIs(max, n) == /\ \A k \in 0..n : Net(k) <= max
                  /\ \E k \in 0..n : Net(k) = max
Falls(n) == Net(n) < 0 /\ \A k \in 0..(n - 1) : Net(k) >= 0

CountInv ==
  /\ Cardinality(alive) = Cardinality(alive0) + Net(Len(hist))
  /\ max_creds \in Int
  /\ ~stopped => /\ creds = Net(Len(hist)) /\ PeakIs(max_creds, Len(hist))
                 /\ \A n \in 0..Len(hist) : Net(n) >= 0
  /\ stopped => /\ creds = -1 /\ alive0 # {}
                /\ \E n \in 1..Len(hist) : Falls(n) /\ PeakIs(max_creds, n)

LivingInv == hist \in Seq(Messages) /\ stopped \in BOOLEAN /\ LivesAsLogged /\ VectorInv /\ CountInv

LEMMA NetType ==
  ASSUME hist \in Seq(Messages), NEW n
  PROVE  Net(n) \in Int
<1>1. IsFiniteSet(1..Len(hist))
  BY FS_Interval
<1>2. \A type : UpTo(type, n) \subseteq 1..Len(hist)
  BY DEF UpTo, Records
<1>3. \A type : Cardinality(UpTo(type, n)) \in Nat
  BY <1>1, <1>2, FS_Subset, FS_CardinalityType
<1> QED BY <1>3 DEF Net

\* What one record more does to what the log says.
LEMMA LogGrows ==
  ASSUME hist \in Seq(Messages), NEW m \in Messages, hist' = Append(hist, m)
  PROVE  /\ hist' \in Seq(Messages) /\ Len(hist') = Len(hist) + 1 /\ Len(hist) \in Nat
         /\ ForkedInLog' = ForkedInLog \cup {c \in {m.forked} : m.type = "credfork"}
         /\ FreedInLog' = FreedInLog \cup {c \in {m.cred} : m.type = "credfree"}
         /\ \A n \in 0..Len(hist) : Net(n)' = Net(n)
         /\ Net(Len(hist))' = Net(Len(hist)) + (IF m.type = "credfork" THEN 1
                                               ELSE IF m.type = "credfree" THEN -1 ELSE 0)
<1>0. PICK k \in Nat : k = Len(hist) + 1
  OBVIOUS
<1>1. /\ hist' \in Seq(Messages) /\ Len(hist') = k /\ Len(hist) \in Nat /\ hist'[k] = m
      /\ \A i \in 1..Len(hist) : hist'[i] = hist[i]
  BY <1>0
<1>2. 1..k = (1..Len(hist)) \cup {k} /\ k \notin 1..Len(hist)
  BY <1>0, <1>1
<1>3. \A type : Records(type)' = Records(type) \cup {i \in {k} : m.type = type}
  BY <1>1, <1>2 DEF Records
<1>4. ForkedInLog' = ForkedInLog \cup {c \in {m.forked} : m.type = "credfork"}
  <2>1. \A i \in Records("credfork") : hist'[i] = hist[i]
    BY <1>1 DEF Records
  <2> QED BY <1>1, <1>3, <2>1 DEF ForkedInLog
<1>5. FreedInLog' = FreedInLog \cup {c \in {m.cred} : m.type = "credfree"}
  <2>1. \A i \in Records("credfree") : hist'[i] = hist[i]
    BY <1>1 DEF Records
  <2> QED BY <1>1, <1>3, <2>1 DEF FreedInLog
<1>6. ASSUME NEW n \in 0..Len(hist) PROVE Net(n)' = Net(n)
  <2>1. \A type : UpTo(type, n)' = UpTo(type, n)
    BY <1>1, <1>3 DEF UpTo
  <2> QED BY <2>1 DEF Net
<1>7. ASSUME NEW type
      PROVE  /\ Cardinality(UpTo(type, k)') = Cardinality(UpTo(type, Len(hist)))
                                             + (IF m.type = type THEN 1 ELSE 0)
             /\ Cardinality(UpTo(type, Len(hist))) \in Nat
  <2> DEFINE U == UpTo(type, Len(hist))
  <2>1. U = Records(type) /\ U \subseteq 1..Len(hist)
    BY <1>1 DEF UpTo, Records
  <2>2. UpTo(type, k)' = U \cup {i \in {k} : m.type = type}
    BY <1>1, <1>3, <2>1 DEF UpTo
  <2>3. IsFiniteSet(1..Len(hist))
    BY <1>1, FS_Interval
  <2>4. IsFiniteSet(U) /\ Cardinality(U) \in Nat /\ k \notin U
    BY <1>2, <2>1, <2>3, FS_Subset, FS_CardinalityType
  <2> DEFINE V == UpTo(type, k)'
  <2> HIDE DEF U, V
  <2>5. CASE m.type = type
    <3>1. V = U \cup {k}
      BY <2>2, <2>5 DEF U, V
    <3>2. Cardinality(V) = Cardinality(U) + 1
      BY <2>4, <3>1, FS_AddElement
    <3> QED BY <2>4, <2>5, <3>2 DEF U, V
  <2>6. CASE m.type # type
    <3>1. V = U
      BY <2>2, <2>6 DEF U, V
    <3> QED BY <2>4, <2>6, <3>1 DEF U, V
  <2> QED BY <2>5, <2>6
<1>8. Net(Len(hist))' = Cardinality(UpTo("credfork", k)') - Cardinality(UpTo("credfree", k)')
  <2>1. \A type : UpTo(type, Len(hist))' = UpTo(type, k)'
    BY <1>1 DEF UpTo
  <2> QED BY <2>1 DEF Net
<1>9. Net(Len(hist))' = Net(Len(hist)) + (IF m.type = "credfork" THEN 1
                                         ELSE IF m.type = "credfree" THEN -1 ELSE 0)
  BY <1>7, <1>8 DEF Net
<1> QED BY <1>0, <1>1, <1>4, <1>5, <1>6, <1>9

LEMMA ReadKeepsLives ==
  ASSUME LivesAsLogged, hist \in Seq(Messages), NEW m, Read(m), Effect(m)
  PROVE  LivesAsLogged'
<1>1. m \in Messages /\ hist' = Append(hist, m) /\ alive0' = alive0
  BY DEF Read, Effect
<1>2. m.forked \in Creds /\ m.cred \in Creds
  BY <1>1 DEF Messages
<1>3. /\ ForkedInLog' = ForkedInLog \cup {c \in {m.forked} : m.type = "credfork"}
      /\ FreedInLog' = FreedInLog \cup {c \in {m.cred} : m.type = "credfree"}
  BY <1>1, LogGrows
<1>4. CASE m.type = "credfork" /\ m.forked \notin alive /\ alive' = alive \cup {m.forked}
  BY <1>1, <1>2, <1>3, <1>4 DEF LivesAsLogged
<1>5. CASE m.type = "credfree" /\ m.cred \in alive /\ alive' = alive \ {m.cred}
  BY <1>1, <1>2, <1>3, <1>5 DEF LivesAsLogged
<1>6. CASE m.type \notin {"credfork", "credfree"} /\ alive' = alive
  BY <1>1, <1>2, <1>3, <1>6 DEF LivesAsLogged
<1> QED BY <1>4, <1>5, <1>6 DEF Effect

\* The bits of elijah's vector: forked and living, or left over by malloc and untouched.
HoldsWith(ones) ==
  /\ Ones(vector) = (alive \cap ForkedInLog) \cup (ones \ (ForkedInLog \cup FreedInLog))
  /\ early = (alive0 \cap FreedInLog) \ ones

LEMMA VectorHoldsWith == VectorHoldsLiving <=> \E ones \in {{}} \cup {{c} : c \in Creds} : HoldsWith(ones)
  BY DEF VectorHoldsLiving, HoldsWith

LEMMA ReadKeepsVector ==
  ASSUME LivesAsLogged, VectorInv, hist \in Seq(Messages), NEW m, Read(m), Effect(m)
  PROVE  VectorInv'
<1>1. m \in Messages /\ hist' = Append(hist, m) /\ alive0' = alive0 /\ Elijah(m)
  BY DEF Read, Effect
<1>2. m.forked \in Creds /\ m.cred \in Creds /\ Creds \subseteq Nat
  BY <1>1, LogAssumption DEF Messages
<1>3. /\ ForkedInLog' = ForkedInLog \cup {c \in {m.forked} : m.type = "credfork"}
      /\ FreedInLog' = FreedInLog \cup {c \in {m.cred} : m.type = "credfree"}
  BY <1>1, LogGrows
<1>4. PICK ones \in {{}} \cup {{c} : c \in Creds} : HoldsWith(ones)
  BY VectorHoldsWith DEF VectorInv
<1>5. Vector(vector) /\ vector.size > 0
  BY DEF VectorInv
<1>6. VectorHoldsLiving' <=> \E w \in {{}} \cup {{c} : c \in Creds} : HoldsWith(w)'
  BY DEF VectorHoldsLiving, HoldsWith
<1>7. Ones(vector) \subseteq Nat /\ \A i \in Nat : i \in Ones(vector) <=> bitvec_test(vector, i)
  BY <1>5, OnesAreBits
<1>8. SUFFICES Vector(vector') /\ vector'.size > 0 /\ HoldsWith(ones)'
  BY <1>6 DEF VectorInv, Vector
<1>9. CASE m.type = "credfork" /\ m.forked \notin alive /\ alive' = alive \cup {m.forked}
  <2>1. vector' = bitvec_set(vector, m.forked) /\ early' = early
    BY <1>1, <1>9 DEF Elijah, elijah_credfork
  <2>2. /\ Vector(vector') /\ vector'.size > 0
        /\ \A j \in Nat : bitvec_test(vector', j) <=> (j = m.forked \/ bitvec_test(vector, j))
    BY <1>2, <1>5, <2>1, SetAddsOneBit
  <2>3. Ones(vector') \subseteq Nat /\ \A i \in Nat : i \in Ones(vector') <=> bitvec_test(vector', i)
    BY <2>2, OnesAreBits
  <2>4. Ones(vector') = Ones(vector) \cup {m.forked}
    BY <1>2, <1>7, <2>2, <2>3
  <2>5. ForkedInLog' = ForkedInLog \cup {m.forked} /\ FreedInLog' = FreedInLog
    BY <1>3, <1>9
  <2>6. /\ Ones(vector') = (alive' \cap ForkedInLog') \cup (ones \ (ForkedInLog' \cup FreedInLog'))
        /\ early' = (alive0' \cap FreedInLog') \ ones
    BY <1>1, <1>4, <1>9, <2>1, <2>4, <2>5 DEF HoldsWith
  <2> QED BY <2>2, <2>6 DEF HoldsWith, Ones
<1>10. CASE m.type = "credfree" /\ m.cred \in alive /\ alive' = alive \ {m.cred}
  <2>1. ForkedInLog' = ForkedInLog /\ FreedInLog' = FreedInLog \cup {m.cred}
    BY <1>3, <1>10
  <2>2. CASE bitvec_test(vector, m.cred)
    <3>1. vector' = bitvec_clear(vector, m.cred) /\ early' = early
      BY <1>1, <1>10, <2>2 DEF Elijah, elijah_credfree
    <3>2. /\ Vector(vector')
          /\ \A j \in Nat : bitvec_test(vector', j) <=> (j # m.cred /\ bitvec_test(vector, j))
      BY <1>2, <1>5, <3>1, ClearRemovesOneBit
    <3>3. vector'.size > 0
      BY <1>5, <3>1 DEF bitvec_clear, Vector
    <3>4. Ones(vector') \subseteq Nat /\ \A i \in Nat : i \in Ones(vector') <=> bitvec_test(vector', i)
      BY <3>2, OnesAreBits
    <3>5. Ones(vector') = Ones(vector) \ {m.cred} /\ m.cred \in Ones(vector)
      BY <1>2, <1>7, <2>2, <3>2, <3>4
    <3>6. Ones(vector') = (alive' \cap ForkedInLog') \cup (ones \ (ForkedInLog' \cup FreedInLog'))
      BY <1>4, <1>10, <2>1, <3>5 DEF HoldsWith
    <3>7. early' = (alive0' \cap FreedInLog') \ ones
      BY <1>1, <1>4, <1>10, <2>1, <3>1, <3>5 DEF HoldsWith, LivesAsLogged
    <3> QED BY <3>2, <3>3, <3>6, <3>7 DEF HoldsWith, Ones
  <2>3. CASE ~bitvec_test(vector, m.cred)
    <3>1. vector' = vector /\ early' = early \cup {m.cred}
      BY <1>1, <1>10, <2>3 DEF Elijah, elijah_credfree
    <3>2. m.cred \notin Ones(vector)
      BY <1>2, <1>7, <2>3
    <3>3. m.cred \notin ForkedInLog /\ m.cred \notin ones /\ m.cred \in alive0
      BY <1>4, <1>10, <3>2 DEF HoldsWith, LivesAsLogged
    <3>4. /\ Ones(vector') = (alive' \cap ForkedInLog') \cup (ones \ (ForkedInLog' \cup FreedInLog'))
          /\ early' = (alive0' \cap FreedInLog') \ ones
      BY <1>1, <1>4, <1>10, <2>1, <3>1, <3>3 DEF HoldsWith
    <3> QED BY <1>5, <3>1, <3>4 DEF HoldsWith, Ones
  <2> QED BY <2>2, <2>3
<1>11. CASE m.type \notin {"credfork", "credfree"} /\ alive' = alive
  <2>1. vector' = vector /\ early' = early
    BY <1>1, <1>11 DEF Elijah, elijahVars
  <2>2. ForkedInLog' = ForkedInLog /\ FreedInLog' = FreedInLog
    BY <1>3, <1>11
  <2>3. /\ Ones(vector') = (alive' \cap ForkedInLog') \cup (ones \ (ForkedInLog' \cup FreedInLog'))
        /\ early' = (alive0' \cap FreedInLog') \ ones
    BY <1>1, <1>4, <1>11, <2>1, <2>2 DEF HoldsWith
  <2> QED BY <1>5, <2>1, <2>3 DEF HoldsWith, Ones
<1> QED BY <1>9, <1>10, <1>11 DEF Effect

LEMMA ReadKeepsCount ==
  ASSUME LivesAsLogged, CountInv, hist \in Seq(Messages), stopped \in BOOLEAN,
         NEW m, Read(m), Effect(m)
  PROVE  CountInv' /\ stopped' \in BOOLEAN
<1>1. m \in Messages /\ hist' = Append(hist, m) /\ alive0' = alive0 /\ Ncred(m)
  BY DEF Read, Effect
<1>2. PICK k \in Nat : k = Len(hist)
  OBVIOUS
<1>3. PICK net, net2, d \in Int : /\ net = Net(Len(hist)) /\ net2 = Net(Len(hist))' /\ net2 = net + d
                                 /\ d = IF m.type = "credfork" THEN 1
                                        ELSE IF m.type = "credfree" THEN -1 ELSE 0
  <2>1. Net(Len(hist)) \in Int
    BY NetType
  <2> QED BY <1>1, <2>1, LogGrows
<1>4. /\ Len(hist') = k + 1
      /\ \A n \in 0..k : Net(n)' = Net(n)
      /\ Net(k + 1)' = net2 /\ Net(k) = net
      /\ \A n \in 0..k : Net(n) \in Int
  <2>1. Len(hist') = k + 1 /\ \A n \in 0..k : Net(n)' = Net(n)
    BY <1>1, <1>2, LogGrows
  <2>2. Net(k + 1)' = net2
    BY <1>2, <1>3, <2>1 DEF Net, UpTo
  <2>3. Net(k) = net
    BY <1>2, <1>3
  <2> QED BY <2>1, <2>2, <2>3, NetType
<1>5. Cardinality(alive') = Cardinality(alive0') + net2
  <2>1. IsFiniteSet(alive) /\ IsFiniteSet(alive0)
    BY LogAssumption, FS_Subset DEF LivesAsLogged
  <2>2. Cardinality(alive) = Cardinality(alive0) + net
    BY <1>3 DEF CountInv
  <2>3. Cardinality(alive) \in Nat /\ Cardinality(alive0) \in Nat
    BY <2>1, FS_CardinalityType
  <2>4. Cardinality(alive') = Cardinality(alive) + d
    <3>1. CASE m.type = "credfork" /\ m.forked \notin alive /\ alive' = alive \cup {m.forked}
      BY <1>3, <2>1, <3>1, FS_AddElement
    <3>2. CASE m.type = "credfree" /\ m.cred \in alive /\ alive' = alive \ {m.cred}
      <4>1. Cardinality(alive') = Cardinality(alive) - 1
        BY <2>1, <3>2, FS_RemoveElement
      <4> QED BY <1>3, <2>3, <3>2, <4>1
    <3>3. CASE m.type \notin {"credfork", "credfree"} /\ alive' = alive
      BY <1>3, <2>3, <3>3
    <3> QED BY <3>1, <3>2, <3>3 DEF Effect
  <2> QED BY <1>1, <1>3, <2>2, <2>3, <2>4
<1>6. \A max : \A n \in 0..k : PeakIs(max, n)' <=> PeakIs(max, n)
  BY <1>4 DEF PeakIs
<1>7. \A n \in 0..k : Falls(n)' <=> Falls(n)
  BY <1>4 DEF Falls
<1>8. PICK mx, mx2 : mx = max_creds /\ mx2 = max_creds'
  OBVIOUS
<1>9. /\ mx2 \in Int
      /\ stopped' \in BOOLEAN
      /\ ~stopped' => /\ creds' = net2 /\ PeakIs(mx2, k + 1)'
                      /\ \A n \in 0..(k + 1) : Net(n)' >= 0
      /\ stopped' => /\ creds' = -1 /\ alive0 # {}
                     /\ \E n \in 1..(k + 1) : Falls(n)' /\ PeakIs(mx2, n)'
      => CountInv' /\ stopped' \in BOOLEAN
  <2>1. \A n : PeakIs(mx2, n)' <=> PeakIs(max_creds, n)'
    BY <1>8 DEF PeakIs
  <2>2. PeakIs(max_creds, k + 1)' <=> PeakIs(max_creds, Len(hist))'
    BY <1>4 DEF PeakIs
  <2> QED BY <1>1, <1>3, <1>4, <1>5, <1>8, <2>1, <2>2 DEF CountInv
<1>10. mx \in Int /\ 0..(k + 1) = (0..k) \cup {k + 1} /\ k + 1 \in 1..(k + 1) /\ 1..k \subseteq 0..k
  BY <1>8 DEF CountInv
<1>11. CASE stopped
  <2>1. PICK n \in 1..k : Falls(n) /\ PeakIs(mx, n)
    BY <1>2, <1>8, <1>11 DEF CountInv
  <2>2. n \in 0..k /\ n \in 1..(k + 1)
    OBVIOUS
  <2>3. Falls(n)' /\ PeakIs(mx, n)'
    BY <1>6, <1>7, <2>1, <2>2
  <2>4. stopped' = stopped /\ mx2 = mx /\ creds' = -1 /\ alive0 # {}
    BY <1>1, <1>8, <1>11 DEF Ncred, ncredVars, ncred_credfork, ncred_credfree, ncred_setid, CountInv
  <2> QED BY <1>9, <1>10, <1>11, <2>2, <2>3, <2>4
<1>12. CASE ~stopped
  <2>1. creds = net /\ PeakIs(mx, k) /\ \A n \in 0..k : Net(n) >= 0
    BY <1>2, <1>3, <1>8, <1>12 DEF CountInv
  <2>2. /\ \A n \in 0..k : Net(n)' <= mx /\ Net(n)' >= 0
        /\ \E n \in 0..k : Net(n)' = mx
        /\ net <= mx /\ net >= 0
    <3>1. k \in 0..k
      OBVIOUS
    <3> QED BY <1>4, <2>1, <3>1 DEF PeakIs
  <2>3. CASE m.type = "credfork" /\ ncred_credfork
    <3>1. /\ creds' = net2 /\ net2 >= 0 /\ stopped' = FALSE
          /\ mx2 = IF net2 > mx THEN net2 ELSE mx
      BY <1>3, <1>8, <1>12, <2>1, <2>2, <2>3 DEF ncred_credfork
    <3>2. mx2 \in Int /\ mx2 >= mx /\ mx2 >= net2 /\ (mx2 = net2 \/ mx2 = mx)
      BY <1>10, <3>1
    <3>3. \A n \in 0..(k + 1) : Net(n)' >= 0 /\ Net(n)' <= mx2
      BY <1>4, <1>10, <2>2, <3>1, <3>2
    <3>4. \E n \in 0..(k + 1) : Net(n)' = mx2
      BY <1>4, <1>10, <2>2, <3>2
    <3>5. PeakIs(mx2, k + 1)'
      BY <3>3, <3>4 DEF PeakIs
    <3> QED BY <1>9, <3>1, <3>2, <3>3, <3>5
  <2>4. ASSUME mx2 = mx, net2 <= net PROVE PeakIs(mx2, k + 1)'
    <3>1. \A n \in 0..(k + 1) : Net(n)' <= mx2
      BY <1>4, <1>10, <2>2, <2>4
    <3>2. \E n \in 0..(k + 1) : Net(n)' = mx2
      BY <1>10, <2>2, <2>4
    <3> QED BY <3>1, <3>2 DEF PeakIs
  <2>5. CASE m.type = "credfree" /\ ncred_credfree
    <3>0. stopped' \in BOOLEAN
      BY <2>5 DEF ncred_credfree
    <3>1. creds' = net2 /\ (stopped' <=> net2 < 0) /\ mx2 = mx /\ net2 = net - 1
      BY <1>3, <1>8, <2>1, <2>5 DEF ncred_credfree
    <3>2. PeakIs(mx2, k + 1)'
      BY <2>4, <3>1
    <3>3. CASE net2 < 0
      <4>1. net2 = -1
        BY <2>2, <3>1, <3>3
      <4>2. Falls(k + 1)'
        <5>1. 0..((k + 1) - 1) = 0..k
          OBVIOUS
        <5> QED BY <1>4, <2>2, <3>3, <5>1 DEF Falls
      <4>3. alive0 # {}
        <5>1. IsFiniteSet(alive')
          <6>1. LivesAsLogged'
            BY ReadKeepsLives
          <6> QED BY <6>1, LogAssumption, FS_Subset DEF LivesAsLogged
        <5>2. Cardinality(alive') \in Nat
          BY <5>1, FS_CardinalityType
        <5>3. Cardinality(alive0') # 0
          BY <1>5, <4>1, <5>2
        <5> QED BY <1>1, <5>3, FS_EmptySet
      <4> QED BY <1>9, <1>10, <3>0, <3>1, <3>2, <3>3, <4>1, <4>2, <4>3
    <3>4. CASE ~(net2 < 0)
      <4>1. \A n \in 0..(k + 1) : Net(n)' >= 0
        BY <1>4, <1>10, <2>2, <3>4
      <4>2. stopped' \in BOOLEAN /\ ~stopped'
        BY <3>0, <3>1, <3>4
      <4> QED BY <1>9, <1>10, <3>1, <3>2, <4>1, <4>2
    <3> QED BY <3>3, <3>4
  <2>6. CASE m.type \notin {"credfork", "credfree"}
    <3>1. creds' = creds /\ mx2 = mx /\ stopped' = stopped /\ net2 = net
      BY <1>1, <1>3, <1>8, <1>12, <2>6 DEF Ncred, ncred_setid, ncredVars
    <3>2. \A n \in 0..(k + 1) : Net(n)' >= 0
      BY <1>4, <1>10, <2>2, <3>1
    <3> QED BY <1>9, <1>10, <1>12, <2>1, <2>4, <3>1, <3>2
  <2> QED BY <1>1, <1>12, <2>3, <2>5, <2>6 DEF Ncred
<1> QED BY <1>11, <1>12

LEMMA InitLivingInv ==
  ASSUME hist = <<>>, alive \in SUBSET Creds, alive0 = alive,
         NEW ones \in {{}} \cup {{c} : c \in Creds}, LiveInit(ones)
  PROVE  LivingInv
<1>1. hist \in Seq(Messages) /\ Len(hist) = 0
  OBVIOUS
<1>2. ForkedInLog = {} /\ FreedInLog = {} /\ \A type, n : UpTo(type, n) = {}
  BY <1>1 DEF ForkedInLog, FreedInLog, UpTo, Records
<1>3. \A n : Net(n) = 0
  BY <1>2, FS_EmptySet DEF Net
<1>4. LivesAsLogged
  BY <1>2 DEF LivesAsLogged
<1>5. VectorInv
  <2>1. vector = bitvec_init(ones) /\ early = {}
    BY DEF LiveInit
  <2>2. /\ Vector(vector) /\ vector.size > 0
        /\ \A i \in Nat : bitvec_test(vector, i) <=> Byte(i) < DefaultSize /\ i \in ones
    BY <2>1, InitVector
  <2>3. Ones(vector) \subseteq Nat /\ \A i \in Nat : i \in Ones(vector) <=> bitvec_test(vector, i)
    BY <2>2, OnesAreBits
  <2>4. Ones(vector) \subseteq ones
    BY <2>2, <2>3
  <2>5. Ones(vector) \in {{}} \cup {{c} : c \in Creds}
    BY <2>4
  <2> DEFINE w == Ones(vector)
  <2>6. HoldsWith(w)
    BY <1>2, <2>1 DEF HoldsWith
  <2> HIDE DEF w
  <2>7. w \in {{}} \cup {{c} : c \in Creds}
    BY <2>5 DEF w
  <2> QED BY <2>2, <2>6, <2>7, VectorHoldsWith DEF VectorInv
<1>6. CountInv /\ stopped \in BOOLEAN
  <2>1. creds = 0 /\ max_creds = 0 /\ stopped = FALSE
    BY DEF LiveInit
  <2>2. IsFiniteSet(alive)
    BY LogAssumption, FS_Subset
  <2>3. Cardinality(alive) \in Nat
    BY <2>2, FS_CardinalityType
  <2>4. PeakIs(0, 0) /\ Net(Len(hist)) = 0 /\ \A n \in 0..Len(hist) : Net(n) >= 0
    BY <1>1, <1>3 DEF PeakIs
  <2>5. Cardinality(alive) = Cardinality(alive0) + 0
    BY <2>3
  <2>6. ~stopped /\ stopped \in BOOLEAN
    BY <2>1
  <2>7. 0 \in Int /\ max_creds \in Int /\ creds = Net(Len(hist)) /\ PeakIs(max_creds, Len(hist))
    BY <1>1, <2>1, <2>4
  <2>8. Cardinality(alive) = Cardinality(alive0) + Net(Len(hist))
    BY <2>4, <2>5
  <2> QED BY <2>4, <2>6, <2>7, <2>8 DEF CountInv
<1> QED BY <1>1, <1>4, <1>5, <1>6 DEF LivingInv

LEMMA LivingRestsInv ==
  ASSUME LivingInv, UNCHANGED <<kernelVars, elijahVars, ncredVars>>
  PROVE  LivingInv'
<1>1. /\ hist' = hist /\ alive' = alive /\ alive0' = alive0
      /\ vector' = vector /\ early' = early
      /\ creds' = creds /\ max_creds' = max_creds /\ stopped' = stopped
  BY DEF kernelVars, elijahVars, ncredVars
<1>2. /\ ForkedInLog' = ForkedInLog /\ FreedInLog' = FreedInLog /\ \A n : Net(n)' = Net(n)
  BY <1>1 DEF ForkedInLog, FreedInLog, Net, UpTo, Records
<1>3. LivesAsLogged' /\ VectorInv'
  BY <1>1, <1>2 DEF LivingInv, LivesAsLogged, VectorInv, VectorHoldsLiving, Vector, Ones
<1>4. \A n : Falls(n)' <=> Falls(n)
  BY <1>2 DEF Falls
<1>5. \A n : PeakIs(max_creds, n)' <=> PeakIs(max_creds, n)
  BY <1>1, <1>2 DEF PeakIs
<1>6. Net(Len(hist))' = Net(Len(hist)) /\ (PeakIs(max_creds, Len(hist))' <=> PeakIs(max_creds, Len(hist)))
  BY <1>1, <1>2 DEF Net, UpTo, Records, PeakIs
<1>7. CountInv'
  BY <1>1, <1>2, <1>4, <1>5, <1>6 DEF LivingInv, CountInv
<1> QED BY <1>1, <1>3, <1>7 DEF LivingInv

LEMMA LivingAreKnown == LivingInv => LivingKnown
<1> SUFFICES ASSUME LivingInv PROVE LivingKnown
  OBVIOUS
<1>1. VectorHoldsLiving
  BY DEF LivingInv, VectorInv
<1>2. /\ Len(hist) \in Nat /\ \A n : Net(n) \in Int
      /\ Cardinality(alive) \in Nat /\ Cardinality(alive0) \in Nat
  <2>1. IsFiniteSet(alive) /\ IsFiniteSet(alive0)
    BY LogAssumption, FS_Subset DEF LivingInv, LivesAsLogged
  <2>2. Len(hist) \in Nat /\ \A n : Net(n) \in Int
    BY NetType DEF LivingInv
  <2> QED BY <2>1, <2>2, FS_CardinalityType
<1>3. CASE ~stopped
  <2>1. ~ \E n \in 1..Len(hist) : Net(n) < 0
    BY <1>2, <1>3 DEF LivingInv, CountInv
  <2>2. Stop = Len(hist)
    BY <2>1 DEF Stop
  <2> QED BY <1>1, <1>2, <1>3, <2>1, <2>2
          DEF LivingInv, CountInv, PeakIs, LivingKnown, CounterCountsLiving
<1>4. CASE stopped
  <2>1. PICK n \in 1..Len(hist) : Falls(n) /\ PeakIs(max_creds, n)
    BY <1>4 DEF LivingInv, CountInv
  <2>2. Net(n) < 0 /\ \A k \in 1..(n - 1) : Net(k) >= 0
    BY <2>1 DEF Falls
  <2>3. ASSUME NEW j \in 1..Len(hist), Net(j) < 0, \A k \in 1..(j - 1) : Net(k) >= 0
        PROVE  j = n
    <3>1. ~(j < n)
      <4>1. j < n => j \in 1..(n - 1)
        BY <1>2
      <4> QED BY <1>2, <2>2, <2>3, <4>1
    <3>2. ~(n < j)
      <4>1. n < j => n \in 1..(j - 1)
        BY <1>2
      <4> QED BY <1>2, <2>2, <2>3, <4>1
    <3> QED BY <1>2, <3>1, <3>2
  <2>4. Stop = n
    BY <2>2, <2>3 DEF Stop
  <2> QED BY <1>1, <1>4, <2>1, <2>2, <2>4
          DEF LivingInv, CountInv, PeakIs, LivingKnown, CounterCountsLiving
<1> QED BY <1>3, <1>4 DEF LivingInv

\* For every log, whatever it begins with and however ids are reused, and whatever one bit
\* malloc left set: elijah's vector and ncred's count are those of the living credentials.
THEOREM LivingAreCounted == Spec => []LivingKnown
<1>1. Init => LivingInv
  <2>1. ReadersInit => LivingInv
    <3> SUFFICES ASSUME ReadersInit PROVE LivingInv
      OBVIOUS
    <3>1. PICK ones \in {{}} \cup {{c} : c \in Creds} : LiveInit(ones)
      BY DEF ReadersInit
    <3> QED BY <3>1, InitLivingInv DEF ReadersInit
  <2>2. ReadersIdle => LivingInv
    BY InitLivingInv DEF ReadersIdle
  <2> QED BY <2>1, <2>2 DEF Init
<1>2. LivingInv /\ [Next]_vars => LivingInv'
  <2> SUFFICES ASSUME LivingInv, [Next]_vars PROVE LivingInv'
    OBVIOUS
  <2>1. CASE Emit
    <3>1. PICK m : Read(m) /\ Effect(m)
      BY <2>1, EmitReads
    <3>2. m \in Messages /\ hist' = Append(hist, m)
      BY <3>1 DEF Read, Effect
    <3>3. hist' \in Seq(Messages)
      BY <3>2 DEF LivingInv
    <3> QED BY <3>1, <3>3, ReadKeepsLives, ReadKeepsVector, ReadKeepsCount DEF LivingInv
  <2>2. CASE UNCHANGED <<kernelVars, elijahVars, ncredVars>>
    BY <2>2, LivingRestsInv
  <2>3. NeoStep \/ UNCHANGED readerVars => UNCHANGED <<kernelVars, elijahVars, ncredVars>>
    BY DEF NeoStep, readerVars
  <2> QED BY <2>1, <2>2, <2>3 DEF Next, ReadersNext, vars
<1> QED BY <1>1, <1>2, LivingAreKnown, PTL DEF Spec

-----------------------------------------------------------------------------
(* Sequences put one behind the other *)

\* The first n pieces of seqs in one sequence, for every n.
Flattens(g, seqs, n) ==
  g = [i \in 1..n |-> IF i = 1 THEN seqs[i] ELSE g[i - 1] \o seqs[i]]

\* The recursion of FlattenSeq defines a function.
LEMMA FlattensExists ==
  ASSUME NEW seqs, NEW n \in Nat
  PROVE  \E g : Flattens(g, seqs, n)
<1> DEFINE None == {k \in Nat : ~ \E g : Flattens(g, seqs, k)}
<1> SUFFICES ASSUME None # {} PROVE FALSE
  OBVIOUS
<1>1. PICK k \in None : \A j \in None : k <= j
  <2>1. None \subseteq Nat
    OBVIOUS
  <2> QED BY <2>1, LeastNumber
<1>2. k # 0
  <2>1. Flattens(<<>>, seqs, 0)
    BY DEF Flattens
  <2> QED BY <2>1
<1>3. k \in Nat /\ k - 1 \in Nat /\ k - 1 \notin None
  BY <1>1, <1>2
<1>4. PICK g : Flattens(g, seqs, k - 1)
  BY <1>3
<1> DEFINE h == [i \in 1..k |-> IF i = k THEN (IF k = 1 THEN seqs[k] ELSE g[k - 1] \o seqs[k]) ELSE g[i]]
<1>5. Flattens(h, seqs, k)
  <2>1. ASSUME NEW i \in 1..k
        PROVE  h[i] = IF i = 1 THEN seqs[i] ELSE h[i - 1] \o seqs[i]
    <3>1. CASE i = k
      <4>1. k # 1 => k - 1 \in 1..k /\ h[k - 1] = g[k - 1]
        BY <1>3
      <4> QED BY <3>1, <4>1
    <3>2. CASE i # k
      <4>1. i \in 1..(k - 1)
        BY <1>3, <3>2
      <4>2. h[i] = g[i]
        BY <3>2
      <4>3. g[i] = IF i = 1 THEN seqs[i] ELSE g[i - 1] \o seqs[i]
        BY <1>4, <4>1 DEF Flattens
      <4>4. i # 1 => i - 1 \in 1..k /\ i - 1 # k /\ h[i - 1] = g[i - 1]
        BY <1>3, <4>1
      <4> QED BY <4>2, <4>3, <4>4
    <3> QED BY <3>1, <3>2
  <2> HIDE DEF h
  <2>2. h = [i \in 1..k |-> IF i = 1 THEN seqs[i] ELSE h[i - 1] \o seqs[i]]
    <3>1. h = [i \in 1..k |-> h[i]]
      BY DEF h
    <3> QED BY <2>1, <3>1
  <2> QED BY <2>2 DEF Flattens
<1> QED BY <1>1, <1>5

\* Where the pieces of the whole are.
Starts(starts, seqs) ==
  /\ starts \in [1..(Len(seqs) + 1) -> Nat] /\ starts[1] = 0
  /\ \A i \in 1..Len(seqs) : starts[i + 1] = starts[i] + Len(seqs[i])

Laid(whole, starts, seqs) ==
  /\ Len(whole) = starts[Len(seqs) + 1]
  /\ \A i \in 1..Len(seqs) : \A j \in 1..Len(seqs[i]) : whole[starts[i] + j] = seqs[i][j]

\* Induction, for a set in place of a predicate.
LEMMA SetInduction ==
  ASSUME NEW T, 0 \in T, \A k \in Nat : k \in T => k + 1 \in T
  PROVE  Nat \subseteq T
<1> SUFFICES ASSUME Nat \ T # {} PROVE FALSE
  OBVIOUS
<1>1. PICK k \in Nat \ T : \A j \in Nat \ T : k <= j
  <2>1. Nat \ T \subseteq Nat
    OBVIOUS
  <2> QED BY <2>1, LeastNumber
<1>2. k # 0 /\ k - 1 \in Nat
  OBVIOUS
<1>3. k - 1 \in T
  BY <1>1, <1>2
<1>4. (k - 1) + 1 \in T
  BY <1>2, <1>3
<1> QED BY <1>2, <1>4

LEMMA StartsExist ==
  ASSUME NEW S, NEW seqs \in Seq(Seq(S))
  PROVE  \E starts : Starts(starts, seqs)
<1>1. PICK n \in Nat : n = Len(seqs) /\ DOMAIN seqs = 1..n /\ \A i \in 1..n : seqs[i] \in Seq(S)
  OBVIOUS
<1>2. PICK g : Flattens(g, seqs, n)
  BY FlattensExists
<1> DEFINE T == {k \in Nat : k \in 1..n => g[k] \in Seq(S)}
<1>3. Nat \subseteq T
  <2>1. 0 \in T
    OBVIOUS
  <2>2. ASSUME NEW k \in Nat, k \in T PROVE k + 1 \in T
    <3> SUFFICES ASSUME k + 1 \in 1..n PROVE g[k + 1] \in Seq(S)
      OBVIOUS
    <3>1. g[k + 1] = IF k + 1 = 1 THEN seqs[k + 1] ELSE g[(k + 1) - 1] \o seqs[k + 1]
      BY <1>2 DEF Flattens
    <3>2. seqs[k + 1] \in Seq(S) /\ (k + 1) - 1 = k
      BY <1>1
    <3>3. CASE k + 1 = 1
      BY <3>1, <3>2, <3>3
    <3>4. CASE k + 1 # 1
      <4>1. k \in 1..n
        BY <3>4
      <4>2. g[k] \in Seq(S)
        BY <2>2, <4>1
      <4> QED BY <3>1, <3>2, <3>4, <4>2
    <3> QED BY <3>3, <3>4
  <2> HIDE DEF T
  <2> QED BY <2>1, <2>2, SetInduction
<1>4. \A k \in 1..n : g[k] \in Seq(S)
  BY <1>3
<1> DEFINE starts == [i \in 1..(n + 1) |-> IF i = 1 THEN 0 ELSE Len(g[i - 1])]
<1>5. starts \in [1..(n + 1) -> Nat]
  <2>1. ASSUME NEW i \in 1..(n + 1), i # 1 PROVE Len(g[i - 1]) \in Nat
    <3>1. i - 1 \in 1..n
      BY <2>1
    <3> QED BY <3>1, <1>4
  <2> QED BY <2>1
<1>6. ASSUME NEW i \in 1..n PROVE starts[i + 1] = starts[i] + Len(seqs[i])
  <2>1. g[i] = IF i = 1 THEN seqs[i] ELSE g[i - 1] \o seqs[i]
    BY <1>2 DEF Flattens
  <2>2. starts[i + 1] = Len(g[i])
    <3>1. i + 1 \in 1..(n + 1) /\ i + 1 # 1 /\ (i + 1) - 1 = i
      OBVIOUS
    <3> QED BY <3>1
  <2>3. i # 1 => i - 1 \in 1..n /\ starts[i] = Len(g[i - 1])
    OBVIOUS
  <2>4. i = 1 => starts[i] = 0
    OBVIOUS
  <2>5. seqs[i] \in Seq(S) /\ Len(seqs[i]) \in Nat
    BY <1>1
  <2> HIDE DEF starts
  <2>6. CASE i = 1
    BY <2>1, <2>2, <2>4, <2>5, <2>6
  <2>7. CASE i # 1
    <3>1. g[i - 1] \in Seq(S)
      BY <2>3, <2>7, <1>4
    <3>2. Len(g[i - 1] \o seqs[i]) = Len(g[i - 1]) + Len(seqs[i])
      BY <3>1, <2>5
    <3> QED BY <2>1, <2>2, <2>3, <2>7, <3>2
  <2> QED BY <2>6, <2>7
<1>7. starts[1] = 0
  OBVIOUS
<1> HIDE DEF starts
<1> QED BY <1>1, <1>5, <1>6, <1>7 DEF Starts

LEMMA StartsTyped ==
  ASSUME NEW S, NEW seqs \in Seq(Seq(S)), NEW starts, Starts(starts, seqs)
  PROVE  /\ \A i \in 1..(Len(seqs) + 1) : starts[i] \in Nat
         /\ \A i \in 1..Len(seqs) : /\ Len(seqs[i]) \in Nat /\ i \in 1..(Len(seqs) + 1)
                                   /\ starts[i + 1] = starts[i] + Len(seqs[i])
<1>1. PICK n \in Nat : n = Len(seqs) /\ DOMAIN seqs = 1..n /\ \A i \in 1..n : seqs[i] \in Seq(S)
  OBVIOUS
<1>2. \A i \in 1..(n + 1) : starts[i] \in Nat
  BY <1>1 DEF Starts
<1>3. \A i \in 1..n : Len(seqs[i]) \in Nat /\ i \in 1..(n + 1)
  BY <1>1
<1> QED BY <1>1, <1>2, <1>3 DEF Starts

LEMMA StartsRise ==
  ASSUME NEW S, NEW seqs \in Seq(Seq(S)), NEW starts, Starts(starts, seqs),
         NEW i \in 1..(Len(seqs) + 1), NEW m \in 1..i
  PROVE  starts[m] <= starts[i]
<1> DEFINE T == {k \in Nat : k \in 1..(Len(seqs) + 1) => \A j \in 1..k : starts[j] <= starts[k]}
<1>1. Nat \subseteq T
  <2>1. 0 \in T
    OBVIOUS
  <2>2. ASSUME NEW k \in Nat, k \in T PROVE k + 1 \in T
    <3> SUFFICES ASSUME k + 1 \in 1..(Len(seqs) + 1), NEW j \in 1..(k + 1) PROVE starts[j] <= starts[k + 1]
      OBVIOUS
    <3>1. starts[j] \in Nat /\ starts[k + 1] \in Nat
      <4>1. Len(seqs) \in Nat
        OBVIOUS
      <4>2. j \in 1..(Len(seqs) + 1)
        BY <4>1
      <4> QED BY <4>2, StartsTyped
    <3>2. CASE j = k + 1
      BY <3>1, <3>2
    <3>3. CASE j # k + 1
      <4>1. k \in 1..Len(seqs) /\ j \in 1..k /\ k \in 1..(Len(seqs) + 1)
        BY <3>3
      <4>2. starts[j] <= starts[k] /\ starts[k] \in Nat
        BY <4>1, <2>2, StartsTyped
      <4>3. starts[k + 1] = starts[k] + Len(seqs[k]) /\ Len(seqs[k]) \in Nat
        BY <4>1, StartsTyped
      <4> QED BY <3>1, <4>2, <4>3
    <3> QED BY <3>2, <3>3
  <2> HIDE DEF T
  <2> QED BY <2>1, <2>2, SetInduction
<1>2. i \in T
  BY <1>1
<1> QED BY <1>2

Joins(c, a, b, S) == c = a \o b /\ a \in Seq(S) /\ b \in Seq(S)

LEMMA ConcatParts ==
  ASSUME NEW S, NEW a, NEW b, NEW c, Joins(c, a, b, S)
  PROVE  /\ c \in Seq(S) /\ Len(c) = Len(a) + Len(b)
         /\ \A x \in 1..Len(a) : c[x] = a[x]
         /\ \A x \in (Len(a) + 1)..(Len(a) + Len(b)) : c[x] = b[x - Len(a)]
<1>1. a \in Seq(S) /\ b \in Seq(S) /\ c = a \o b
  BY DEF Joins
<1>2. PICK m \in Nat, n \in Nat : m = Len(a) /\ n = Len(b)
  BY <1>1
<1>3. /\ c \in Seq(S) /\ Len(c) = m + n
      /\ \A i \in 1..(m + n) : c[i] = IF i <= m THEN a[i] ELSE b[i - m]
  BY <1>1, <1>2, ConcatProperties
<1>4. ASSUME NEW x \in 1..m PROVE c[x] = a[x]
  BY <1>3
<1>5. ASSUME NEW x \in (m + 1)..(m + n) PROVE c[x] = b[x - m]
  BY <1>3
<1> QED BY <1>2, <1>3, <1>4, <1>5

\* FlattenSeq puts the pieces one behind the other.
LEMMA FlattenLays ==
  ASSUME NEW S, NEW seqs \in Seq(Seq(S)), NEW starts, Starts(starts, seqs)
  PROVE  FlattenSeq(seqs) \in Seq(S) /\ Laid(FlattenSeq(seqs), starts, seqs)
<1>1. PICK n \in Nat : n = Len(seqs) /\ DOMAIN seqs = 1..n /\ \A i \in 1..n : seqs[i] \in Seq(S)
  OBVIOUS
<1>2. CASE n = 0
  <2>1. FlattenSeq(seqs) = seqs /\ seqs = <<>>
    BY <1>1, <1>2 DEF FlattenSeq
  <2>2. Len(seqs) + 1 = 1 /\ starts[1] = 0
    BY <1>1, <1>2 DEF Starts
  <2> QED BY <1>1, <1>2, <2>1, <2>2 DEF Laid
<1>3. CASE n # 0
  <2> DEFINE g == CHOOSE h : Flattens(h, seqs, n)
  <2>1. Flattens(g, seqs, n)
    BY FlattensExists
  <2>2. FlattenSeq(seqs) = g[n]
    BY <1>1, <1>3 DEF FlattenSeq, Flattens
  <2> HIDE DEF g
  <2> DEFINE At(k) == /\ g[k] \in Seq(S) /\ Len(g[k]) = starts[k + 1]
                      /\ \A i \in 1..k : \A j \in 1..Len(seqs[i]) : g[k][starts[i] + j] = seqs[i][j]
             T == {k \in Nat : k \in 1..n => At(k)}
  <2>3. Nat \subseteq T
    <3>1. 0 \in T
      OBVIOUS
    <3>2. ASSUME NEW k \in Nat, k \in T PROVE k + 1 \in T
      <4> SUFFICES ASSUME k + 1 \in 1..n PROVE At(k + 1)
        OBVIOUS
      <4> HIDE DEF At
      <4>1. g[k + 1] = IF k + 1 = 1 THEN seqs[k + 1] ELSE g[(k + 1) - 1] \o seqs[k + 1]
        BY <2>1 DEF Flattens
      <4>2. seqs[k + 1] \in Seq(S) /\ (k + 1) - 1 = k /\ Len(seqs[k + 1]) \in Nat
        BY <1>1
      <4>3. starts[(k + 1) + 1] = starts[k + 1] + Len(seqs[k + 1]) /\ starts[k + 1] \in Nat
        <5>1. k + 1 \in 1..Len(seqs)
          BY <1>1
        <5> QED BY <5>1, StartsTyped
      <4>4. CASE k + 1 = 1
        <5>1. g[k + 1] = seqs[k + 1] /\ starts[k + 1] = 0
          BY <4>1, <4>4 DEF Starts
        <5>2. ASSUME NEW i \in 1..(k + 1), NEW j \in 1..Len(seqs[i])
              PROVE  g[k + 1][starts[i] + j] = seqs[i][j]
          <6>1. i = k + 1 /\ j \in Nat /\ 0 + j = j
            BY <4>4
          <6> QED BY <6>1, <5>1
        <5> QED BY <4>2, <4>3, <5>1, <5>2 DEF At
      <4>5. CASE k + 1 # 1
        <5>1. k \in 1..n
          BY <4>5
        <5>2. At(k)
          BY <3>2, <5>1
        <5>3. PICK a, b, c : a = g[k] /\ b = seqs[k + 1] /\ c = g[k + 1]
          OBVIOUS
        <5>4. a \in Seq(S) /\ Len(a) = starts[k + 1]
          BY <5>2, <5>3 DEF At
        <5>5. Joins(c, a, b, S)
          <6>1. g[(k + 1) - 1] = g[k]
            BY <4>2
          <6>2. g[k + 1] = g[k] \o seqs[k + 1]
            BY <4>1, <4>5, <6>1
          <6> QED BY <4>2, <5>3, <5>4, <6>2 DEF Joins
        <5>6. /\ c \in Seq(S) /\ Len(c) = Len(a) + Len(b)
              /\ \A x \in 1..Len(a) : c[x] = a[x]
              /\ \A x \in (Len(a) + 1)..(Len(a) + Len(b)) : c[x] = b[x - Len(a)]
          BY ONLY <5>5, ConcatParts
        <5>7. Len(c) = starts[(k + 1) + 1]
          BY <4>3, <5>3, <5>4, <5>6
        <5>8. ASSUME NEW i \in 1..(k + 1), NEW j \in 1..Len(seqs[i])
              PROVE  c[starts[i] + j] = seqs[i][j]
          <6>1. CASE i = k + 1
            <7>1. j \in 1..Len(b) /\ Len(b) \in Nat /\ Len(a) \in Nat /\ starts[i] = Len(a)
              BY <4>2, <4>3, <5>3, <5>4, <6>1
            <7>2. Len(a) + j \in (Len(a) + 1)..(Len(a) + Len(b)) /\ (Len(a) + j) - Len(a) = j
              BY <7>1
            <7>3. c[Len(a) + j] = b[j]
              BY <5>6, <7>2
            <7> QED BY <5>3, <6>1, <7>1, <7>3
          <6>2. CASE i # k + 1
            <7>1. i \in 1..k /\ i \in 1..n
              BY <6>2
            <7>2. starts[i + 1] = starts[i] + Len(seqs[i]) /\ starts[i] \in Nat /\ Len(seqs[i]) \in Nat
              BY <7>1, <1>1, StartsTyped
            <7>3. starts[i + 1] <= starts[k + 1]
              <8>1. k + 1 \in 1..(Len(seqs) + 1) /\ i + 1 \in 1..(k + 1)
                BY <7>1, <1>1
              <8> QED BY <8>1, StartsRise
            <7>4. starts[i] + j \in 1..Len(a)
              <8>1. /\ starts[i] \in Nat /\ Len(seqs[i]) \in Nat /\ j \in 1..Len(seqs[i])
                    /\ starts[i] + Len(seqs[i]) <= Len(a) /\ Len(a) \in Nat
                BY <7>2, <7>3, <5>4, <4>3
              <8> QED BY ONLY <8>1
            <7>5. a[starts[i] + j] = seqs[i][j]
              BY <5>2, <5>3, <7>1 DEF At
            <7> QED BY <7>4, <7>5, <5>6
          <6> QED BY <6>1, <6>2
        <5> QED BY <5>3, <5>6, <5>7, <5>8 DEF At
      <4> QED BY <4>4, <4>5
    <3> HIDE DEF T
    <3> QED BY <3>1, <3>2, SetInduction
  <2>4. At(n)
    <3>1. n \in T
      BY <2>3
    <3> QED BY <3>1, <1>3
  <2> QED BY <1>1, <2>2, <2>4 DEF Laid
<1> QED BY <1>2, <1>3

-----------------------------------------------------------------------------
(* fixbang's records *)

BangRecords == [type : {"inode_alloc", "link"}, name : Seq(1..(Base - 1)), len : Nat]

LEMMA Division ==
  ASSUME NEW a \in Nat, NEW b \in Nat, b > 0
  PROVE  a = b * (a \div b) + (a % b) /\ a \div b \in Nat /\ a % b \in Nat
<1>1. a = b * (a \div b) + (a % b)
  BY SMTT(30)
<1>2. a \div b \in Nat
  BY SMT
<1>3. a % b \in Nat
  BY SMT
<1> QED BY <1>1, <1>2, <1>3

LEMMA Distributes ==
  ASSUME NEW a \in Nat, NEW b \in Nat, NEW c \in Nat, NEW e \in Nat, NEW d \in Nat, e = d * b + a
  PROVE  d * e + c = c + d * a + d * d * b
  BY SMTT(30)

\* Three bytes hold a length.
LEMMA LengthRead ==
  ASSUME NEW n \in Nat
  PROVE  /\ n % Base \in Nat /\ (n \div Base) % Base \in Nat /\ (n \div Base) \div Base \in Nat
         /\ (n % Base) + Base * ((n \div Base) % Base) + Base * Base * ((n \div Base) \div Base) = n
<1>1. Base \in Nat /\ Base > 0
  BY FixAssumption
<1> DEFINE q == n \div Base
<1>2. q \in Nat /\ n % Base \in Nat /\ n = Base * q + (n % Base)
  BY <1>1, Division
<1> HIDE DEF q
<1>3. q \div Base \in Nat /\ q % Base \in Nat /\ q = Base * (q \div Base) + (q % Base)
  BY <1>1, <1>2, Division
<1>4. Base * q + (n % Base) = (n % Base) + Base * (q % Base) + Base * Base * (q \div Base)
  <2>1. ASSUME NEW a \in Nat, NEW b \in Nat, NEW c \in Nat, q = Base * b + a
        PROVE  Base * q + c = c + Base * a + Base * Base * b
    BY ONLY <1>1, <1>2, <2>1, Distributes
  <2>2. PICK a, b, c : a = q % Base /\ b = q \div Base /\ c = n % Base
    OBVIOUS
  <2>3. Base * q + c = c + Base * a + Base * Base * b
    <3>1. a \in Nat /\ b \in Nat /\ c \in Nat /\ q = Base * b + a
      BY <1>2, <1>3, <2>2
    <3> QED BY ONLY <2>1, <3>1
  <2> QED BY <2>2, <2>3
<1> QED BY <1>2, <1>3, <1>4 DEF q

\* A record's bytes: its length, the rest of its header, the directory, the name.
Four(all, a, b, c, d, l, k) ==
  /\ all = a \o b \o c \o d
  /\ a \in Seq(Nat) /\ b \in Seq(Nat) /\ c \in Seq(Nat) /\ d \in Seq(Nat)
  /\ Len(a) = 3 /\ Len(b) = 6 /\ Len(c) = l /\ Len(d) = k /\ l \in Nat /\ k \in Nat

FourAre(all, a, b, c, d, l, k) ==
  /\ all \in Seq(Nat) /\ Len(all) = 9 + l + k
  /\ \A i \in 1..3 : all[i] = a[i]
  /\ \A i \in 4..9 : all[i] = b[i - 3]
  /\ \A i \in 10..(9 + l) : all[i] = c[i - 9]
  /\ \A i \in (10 + l)..(9 + l + k) : all[i] = d[i - (9 + l)]

LEMMA FourParts ==
  ASSUME NEW all, NEW a, NEW b, NEW c, NEW d, NEW l, NEW k, Four(all, a, b, c, d, l, k)
  PROVE  FourAre(all, a, b, c, d, l, k)
<1>0. Len(a) = 3 /\ Len(b) = 6 /\ Len(c) = l /\ Len(d) = k /\ l \in Nat /\ k \in Nat
  BY DEF Four
<1>1. PICK ab : Joins(ab, a, b, Nat)
  BY DEF Joins, Four
<1>2. /\ ab \in Seq(Nat) /\ Len(ab) = Len(a) + Len(b)
      /\ \A i \in 1..Len(a) : ab[i] = a[i]
      /\ \A i \in (Len(a) + 1)..(Len(a) + Len(b)) : ab[i] = b[i - Len(a)]
  BY ONLY <1>1, ConcatParts
<1>3. PICK abc : Joins(abc, ab, c, Nat)
  BY <1>1, <1>2 DEF Joins, Four
<1>4. /\ abc \in Seq(Nat) /\ Len(abc) = Len(ab) + Len(c)
      /\ \A i \in 1..Len(ab) : abc[i] = ab[i]
      /\ \A i \in (Len(ab) + 1)..(Len(ab) + Len(c)) : abc[i] = c[i - Len(ab)]
  BY ONLY <1>3, ConcatParts
<1>5. Joins(all, abc, d, Nat)
  BY <1>1, <1>3, <1>4 DEF Joins, Four
<1>6. /\ all \in Seq(Nat) /\ Len(all) = Len(abc) + Len(d)
      /\ \A i \in 1..Len(abc) : all[i] = abc[i]
      /\ \A i \in (Len(abc) + 1)..(Len(abc) + Len(d)) : all[i] = d[i - Len(abc)]
  BY ONLY <1>5, ConcatParts
<1>7. Len(ab) = 9 /\ Len(abc) = 9 + l
  BY ONLY <1>0, <1>2, <1>4
<1>8. \A i \in 1..3 : all[i] = a[i]
  <2> TAKE i \in 1..3
  <2>1. ab[i] = a[i]
    BY ONLY <1>0, <1>2
  <2>2. abc[i] = ab[i]
    BY ONLY <1>7, <1>4, <1>0
  <2>3. all[i] = abc[i]
    BY ONLY <1>7, <1>6, <1>0
  <2> QED BY <2>1, <2>2, <2>3
<1>9. \A i \in 4..9 : all[i] = b[i - 3]
  <2> TAKE i \in 4..9
  <2>1. ab[i] = b[i - 3]
    BY ONLY <1>0, <1>2
  <2>2. abc[i] = ab[i]
    BY ONLY <1>7, <1>4, <1>0
  <2>3. all[i] = abc[i]
    BY ONLY <1>7, <1>6, <1>0
  <2> QED BY <2>1, <2>2, <2>3
<1>10. \A i \in 10..(9 + l) : all[i] = c[i - 9]
  <2> TAKE i \in 10..(9 + l)
  <2>1. abc[i] = c[i - 9]
    BY ONLY <1>7, <1>4, <1>0
  <2>2. all[i] = abc[i]
    BY ONLY <1>7, <1>6, <1>0
  <2> QED BY <2>1, <2>2
<1>11. \A i \in (10 + l)..(9 + l + k) : all[i] = d[i - (9 + l)]
  BY ONLY <1>7, <1>6, <1>0
<1>12. all \in Seq(Nat) /\ Len(all) = 9 + l + k
  BY ONLY <1>7, <1>6, <1>0
<1> QED BY <1>8, <1>9, <1>10, <1>11, <1>12 DEF FourAre

BytesAre(r, n) ==
  /\ Bytes(r, n) \in Seq(Nat) /\ Len(Bytes(r, n)) = SizeOf(r.type) + Len(r.name)
  /\ \A i \in 1..3 : Bytes(r, n)[i] = LenBytes(n)[i]
  /\ Bytes(r, n)[4] = TypeOf(r.type)
  /\ \A i \in 5..8 : Bytes(r, n)[i] = 0
  /\ r.type = "link" => \A i \in 11..Len(Bytes(r, n)) : Bytes(r, n)[i] \in 1..(Base - 1)
  /\ \A m \in Nat : \A i \in 4..Len(Bytes(r, n)) : Bytes(r, m)[i] = Bytes(r, n)[i]

LEMMA BytesOf ==
  ASSUME NEW r \in BangRecords, NEW n \in Nat
  PROVE  BytesAre(r, n)
<1> DEFINE b == <<TypeOf(r.type), 0, 0, 0, 0, 1>>
           c == IF r.type = "link" THEN <<0>> ELSE <<>>
           d == r.name
<1>1. /\ r.type \in {"inode_alloc", "link"} /\ d \in Seq(1..(Base - 1)) /\ d \in Seq(Nat)
      /\ Base \in Nat /\ Base > 3
  BY FixAssumption DEF BangRecords
<1>2. ASSUME NEW m \in Nat PROVE LenBytes(m) \in Seq(Nat) /\ Len(LenBytes(m)) = 3
  <2>1. m % Base \in Nat /\ (m \div Base) % Base \in Nat /\ (m \div Base) \div Base \in Nat
    BY LengthRead
  <2> QED BY <2>1 DEF LenBytes
<1>3. b \in Seq(Nat) /\ Len(b) = 6 /\ b[1] = TypeOf(r.type) /\ \A i \in 2..5 : b[i] = 0
  BY DEF TypeOf
<1>4. c \in Seq(Nat) /\ Len(c) = IF r.type = "link" THEN 1 ELSE 0
  OBVIOUS
<1>5. PICK k \in Nat : k = Len(d) /\ \A i \in 1..k : d[i] \in 1..(Base - 1)
  BY <1>1
<1>6. \A m \in Nat : Bytes(r, m) = LenBytes(m) \o b \o c \o d
  BY DEF Bytes
<1>7. PICK l \in 0..1 : l = Len(c) /\ SizeOf(r.type) = 9 + l /\ (r.type = "link" => l = 1)
  BY <1>1, <1>4 DEF SizeOf, Header
<1> HIDE DEF b, c, d
<1>8. ASSUME NEW m \in Nat
      PROVE  /\ Bytes(r, m) \in Seq(Nat) /\ Len(Bytes(r, m)) = 9 + l + k
             /\ \A i \in 1..3 : Bytes(r, m)[i] = LenBytes(m)[i]
             /\ \A i \in 4..9 : Bytes(r, m)[i] = b[i - 3]
             /\ \A i \in 10..(9 + l) : Bytes(r, m)[i] = c[i - 9]
             /\ \A i \in (10 + l)..(9 + l + k) : Bytes(r, m)[i] = d[i - (9 + l)]
  <2>1. PICK a : a = LenBytes(m)
    OBVIOUS
  <2>2. PICK all : all = Bytes(r, m)
    OBVIOUS
  <2>3. /\ a \in Seq(Nat) /\ b \in Seq(Nat) /\ c \in Seq(Nat) /\ d \in Seq(Nat)
        /\ Len(a) = 3 /\ Len(b) = 6 /\ Len(c) = l /\ Len(d) = k /\ l \in Nat /\ k \in Nat
    BY <1>1, <1>2, <1>3, <1>4, <1>5, <1>7, <2>1
  <2>5. Four(all, a, b, c, d, l, k)
    BY <1>6, <2>1, <2>2, <2>3 DEF Four
  <2>4. FourAre(all, a, b, c, d, l, k)
    BY <2>5, FourParts
  <2> QED BY <2>1, <2>2, <2>4 DEF FourAre
<1>9. Bytes(r, n) \in Seq(Nat) /\ Len(Bytes(r, n)) = SizeOf(r.type) + k /\ SizeOf(r.type) = 9 + l
  BY <1>7, <1>8
<1>10. \A i \in 1..3 : Bytes(r, n)[i] = LenBytes(n)[i]
  BY <1>8
<1>11. Bytes(r, n)[4] = TypeOf(r.type) /\ \A i \in 5..8 : Bytes(r, n)[i] = 0
  <2>1. 4 \in 4..9 /\ 4 - 3 = 1
    OBVIOUS
  <2>2. Bytes(r, n)[4] = b[1]
    BY <1>8, <2>1
  <2>3. ASSUME NEW i \in 5..8 PROVE Bytes(r, n)[i] = 0
    <3>1. i \in 4..9 /\ i - 3 \in 2..5
      OBVIOUS
    <3> QED BY <3>1, <1>3, <1>8
  <2> QED BY <1>3, <2>2, <2>3
<1>12. ASSUME r.type = "link", NEW i \in 11..(9 + l + k) PROVE Bytes(r, n)[i] \in 1..(Base - 1)
  <2>1. i \in (10 + l)..(9 + l + k) /\ i - (9 + l) \in 1..k
    BY <1>7, <1>12
  <2> QED BY <2>1, <1>5, <1>8
<1>13. ASSUME NEW m \in Nat, NEW i \in 4..(9 + l + k) PROVE Bytes(r, m)[i] = Bytes(r, n)[i]
  <2>1. i \in 4..9 \/ i \in 10..(9 + l) \/ i \in (10 + l)..(9 + l + k)
    OBVIOUS
  <2> QED BY <2>1, <1>8
<1> QED BY <1>5, <1>9, <1>10, <1>11, <1>12, <1>13 DEF d, BytesAre

-----------------------------------------------------------------------------
(* fixbang *)

RightLen(r) == SizeOf(r.type) + Len(r.name)

\* Where the i-th record's bytes are, and what they are: given differs from meant in the
\* lengths of links only.
RecordAt(r, o, e) ==
  /\ e = o + RightLen(r) /\ e >= o + 9 /\ (r.type = "link" => e >= o + 10)
  /\ \A j \in 1..3 : meant[o + j] = LenBytes(e - o)[j]
  /\ meant[o + 4] = TypeOf(r.type)
  /\ \A j \in (o + 5)..(o + 8) : meant[j] = 0
  /\ r.type = "link" => \A j \in (o + 11)..e : meant[j] # 0
  /\ \A j \in (o + 4)..e : given[j] = meant[j]
  /\ r.type # "link" => \A j \in (o + 1)..e : given[j] = meant[j]

FileOf(log, starts) ==
  /\ log \in Seq(BangRecords)
  /\ starts \in [1..(Len(log) + 1) -> Nat] /\ starts[1] = 0
  /\ \A i \in 1..(Len(log) + 1) : starts[i] <= starts[Len(log) + 1]
  /\ meant \in Seq(Nat) /\ given \in Seq(Nat)
  /\ Len(meant) = starts[Len(log) + 1] /\ Len(given) = Len(meant)
  /\ \A i \in 1..Len(log) : RecordAt(log[i], starts[i], starts[i + 1])

LEMMA LogIsLaid ==
  ASSUME NEW log \in BangLogs, FixInit(log)
  PROVE  \E starts : FileOf(log, starts)
<1>1. /\ log \in Seq(BangRecords)
      /\ \A i \in DOMAIN log : log[i].type = "inode_alloc" => log[i].len = RightLen(log[i])
  BY FixAssumption DEF BangRecords, RightLen
<1>2. PICK n \in Nat : n = Len(log) /\ DOMAIN log = 1..n /\ \A i \in 1..n : log[i] \in BangRecords
  BY <1>1
<1> DEFINE wrong == [i \in DOMAIN log |-> Bytes(log[i], log[i].len)]
           right == [i \in DOMAIN log |-> Bytes(log[i], RightLen(log[i]))]
<1>3. given = FlattenSeq(wrong) /\ meant = FlattenSeq(right)
  BY DEF FixInit, Image, RightLen
<1>4. \A i \in 1..n : RightLen(log[i]) \in Nat /\ log[i].len \in Nat
  <2> TAKE i \in 1..n
  <2>1. log[i].name \in Seq(1..(Base - 1)) /\ log[i].len \in Nat
    BY <1>2 DEF BangRecords
  <2>2. Len(log[i].name) \in Nat
    BY <2>1
  <2>3. SizeOf(log[i].type) \in Nat
    BY DEF SizeOf, Header
  <2> QED BY <2>1, <2>2, <2>3 DEF RightLen
<1>5. \A i \in 1..n : wrong[i] = Bytes(log[i], log[i].len) /\ right[i] = Bytes(log[i], RightLen(log[i]))
  BY <1>2
<1>6. PICK S : S = Nat
  OBVIOUS
<1>7. \A i \in 1..n : /\ wrong[i] \in Seq(S) /\ Len(wrong[i]) = RightLen(log[i])
                      /\ right[i] \in Seq(S) /\ Len(right[i]) = RightLen(log[i])
  BY <1>2, <1>4, <1>5, <1>6, BytesOf DEF RightLen, BytesAre
<1>8. /\ wrong \in Seq(Seq(S)) /\ right \in Seq(Seq(S)) /\ Len(wrong) = n /\ Len(right) = n
  <2>1. DOMAIN wrong = 1..n /\ DOMAIN right = 1..n
    BY <1>2
  <2> QED BY <1>7, <2>1
<1> HIDE DEF wrong, right
<1>9. PICK starts : Starts(starts, right)
  BY <1>8, StartsExist
<1>10. Starts(starts, wrong)
  BY <1>7, <1>8, <1>9 DEF Starts
<1>11. /\ given \in Seq(S) /\ Laid(given, starts, wrong)
       /\ meant \in Seq(S) /\ Laid(meant, starts, right)
  BY <1>3, <1>8, <1>9, <1>10, FlattenLays
<1>12. /\ starts \in [1..(n + 1) -> Nat] /\ starts[1] = 0
       /\ \A i \in 1..n : starts[i + 1] = starts[i] + RightLen(log[i])
  BY <1>7, <1>8, <1>9 DEF Starts
<1>13. Len(meant) = starts[n + 1] /\ Len(given) = Len(meant)
  BY <1>8, <1>11 DEF Laid
<1>14. ASSUME NEW i \in 1..n PROVE RecordAt(log[i], starts[i], starts[i + 1])
  <2>1. PICK o \in Nat, e \in Nat, r \in BangRecords, k \in Nat :
          /\ o = starts[i] /\ e = starts[i + 1] /\ r = log[i] /\ e = o + k
          /\ k = RightLen(r) /\ k = Len(wrong[i]) /\ k = Len(right[i]) /\ r.len \in Nat
          /\ r.type # "link" => r.len = RightLen(r)
    <3>1. i \in 1..(n + 1) /\ i + 1 \in 1..(n + 1)
      OBVIOUS
    <3>2. log[i] \in BangRecords /\ log[i].type # "link" => log[i].type = "inode_alloc"
      BY <1>2 DEF BangRecords
    <3> QED BY <1>1, <1>2, <1>4, <1>7, <1>12, <3>1, <3>2
  <2>2. \A j \in 1..k : given[o + j] = wrong[i][j] /\ meant[o + j] = right[i][j]
    BY <1>8, <1>11, <2>1 DEF Laid
  <2>3. wrong[i] = Bytes(r, r.len) /\ right[i] = Bytes(r, k)
    BY <1>5, <2>1
  <2>4. /\ \A j \in 1..3 : right[i][j] = LenBytes(k)[j]
        /\ right[i][4] = TypeOf(r.type)
        /\ \A j \in 5..8 : right[i][j] = 0
        /\ r.type = "link" => \A j \in 11..k : right[i][j] \in 1..(Base - 1)
        /\ \A j \in 4..k : wrong[i][j] = right[i][j]
    <3>1. k \in Nat /\ r.len \in Nat /\ Len(right[i]) = k
      BY <2>1
    <3>2. BytesAre(r, k) /\ Len(Bytes(r, k)) = k
      BY <2>3, <3>1, BytesOf
    <3>3. \A j \in 4..k : Bytes(r, r.len)[j] = Bytes(r, k)[j]
      BY ONLY <3>1, <3>2 DEF BytesAre
    <3>4. /\ \A j \in 1..3 : Bytes(r, k)[j] = LenBytes(k)[j]
          /\ Bytes(r, k)[4] = TypeOf(r.type)
          /\ \A j \in 5..8 : Bytes(r, k)[j] = 0
          /\ r.type = "link" => \A j \in 11..k : Bytes(r, k)[j] \in 1..(Base - 1)
      BY ONLY <3>2 DEF BytesAre
    <3> QED BY <2>3, <3>3, <3>4
  <2>5. k >= 9 /\ (r.type = "link" => k >= 10)
    <3>1. r.name \in Seq(1..(Base - 1))
      BY <2>1 DEF BangRecords
    <3>2. Len(r.name) \in Nat
      BY <3>1
    <3>3. k = RightLen(r)
      BY <2>1
    <3>4. PICK x \in Nat : x = Len(r.name)
      BY <3>2
    <3>5. CASE r.type = "link"
      <4>1. SizeOf(r.type) = 8 + 2
        BY <3>5 DEF SizeOf, Header
      <4> QED BY <3>3, <3>4, <4>1 DEF RightLen
    <3>6. CASE r.type # "link"
      <4>1. SizeOf(r.type) = 8 + 1
        BY <3>6 DEF SizeOf, Header
      <4> QED BY <3>3, <3>4, <3>6, <4>1 DEF RightLen
    <3> QED BY <3>5, <3>6
  <2>6. e - o = k
    BY <2>1
  <2>7. \A j \in 1..3 : meant[o + j] = LenBytes(e - o)[j]
    BY <2>2, <2>4, <2>5, <2>6
  <2>8. meant[o + 4] = TypeOf(r.type)
    BY <2>2, <2>4, <2>5
  <2>9. \A j \in (o + 5)..(o + 8) : meant[j] = 0
    <3> TAKE j \in (o + 5)..(o + 8)
    <3>1. j - o \in 1..k /\ j - o \in 5..8 /\ o + (j - o) = j
      <4>1. e = o + k
        BY <2>1
      <4> QED BY <4>1, <2>5
    <3> QED BY <3>1, <2>2, <2>4
  <2>10. r.type = "link" => \A j \in (o + 11)..e : meant[j] # 0
    <3> SUFFICES ASSUME r.type = "link", NEW j \in (o + 11)..e PROVE meant[j] # 0
      OBVIOUS
    <3>1. j - o \in 1..k /\ j - o \in 11..k /\ o + (j - o) = j
      <4>1. e = o + k
        BY <2>1
      <4> QED BY <4>1, <2>5
    <3>2. meant[j] \in 1..(Base - 1)
      BY <3>1, <2>2, <2>4
    <3> QED BY <3>2, FixAssumption
  <2>11. \A j \in (o + 4)..e : given[j] = meant[j]
    <3> TAKE j \in (o + 4)..e
    <3>1. j - o \in 1..k /\ j - o \in 4..k /\ o + (j - o) = j
      <4>1. e = o + k
        BY <2>1
      <4> QED BY <4>1, <2>5
    <3> QED BY <3>1, <2>2, <2>4
  <2>12. r.type # "link" => \A j \in (o + 1)..e : given[j] = meant[j]
    <3> SUFFICES ASSUME r.type # "link", NEW j \in (o + 1)..e PROVE given[j] = meant[j]
      OBVIOUS
    <3>1. j - o \in 1..k /\ o + (j - o) = j
      BY <2>1
    <3>2. wrong[i] = right[i]
      BY <2>1, <2>3
    <3> QED BY <3>1, <3>2, <2>2
  <2>13. RecordAt(r, o, e)
    BY <2>1, <2>5, <2>7, <2>8, <2>9, <2>10, <2>11, <2>12 DEF RecordAt
  <2> QED BY <2>1, <2>13
<1>15. meant \in Seq(Nat) /\ given \in Seq(Nat)
  BY <1>6, <1>11
<1>16. \A i \in 1..(n + 1) : starts[i] <= starts[n + 1]
  <2> TAKE i \in 1..(n + 1)
  <2>1. n + 1 \in 1..(Len(right) + 1) /\ i \in 1..(n + 1)
    BY <1>8
  <2> QED BY <1>8, <1>9, <2>1, StartsRise
<1> QED BY <1>1, <1>2, <1>12, <1>13, <1>14, <1>15, <1>16 DEF FileOf

\* The zeros that are counted when p bytes have been read, the record ending with the e-th:
\* none in a name, at most three in the next length, and then those of the credential.
ZerosAt(p, e) ==
  /\ zeros \in Nat
  /\ p <= e => zeros = 0
  /\ p > e /\ p < e + 4 => zeros <= p - e
  /\ p >= e + 4 => zeros = p - (e + 4)

\* The record in hand is the k-th, from o to e, and the scan of its name goes into the
\* next header at most.
ScanAt(log, k, e) ==
  /\ log[k].type = "link"
  /\ pos \in (ofs + 10)..Len(file) /\ pos <= e + 8
  /\ ZerosAt(pos, e)

FixState(log, starts) ==
  /\ FileOf(log, starts)
  /\ fixing \in {"off", "header", "scan", "done"}
  /\ file \in Seq(Nat) /\ Len(file) = Len(meant)
  /\ \A i \in 1..Len(file) : file[i] = meant[i] \/ (i > ofs /\ file[i] = given[i])
  /\ fixing = "done" => file = meant
  /\ \E k \in 1..(Len(log) + 1) :
       ofs = starts[k] /\ (fixing = "scan" => k <= Len(log) /\ ScanAt(log, k, starts[k + 1]))

FixInv ==
  \/ given = <<>> /\ meant = <<>> /\ file = <<>> /\ ofs = 0
  \/ \E log, starts : FixState(log, starts)

\* What the steps need to know of the record in hand.
LEMMA InHand ==
  ASSUME NEW log, NEW starts, FixState(log, starts), NEW k \in 1..Len(log), ofs = starts[k]
  PROVE  \E e \in Nat :
           /\ e = starts[k + 1] /\ k + 1 \in 1..(Len(log) + 1) /\ e <= Len(file)
           /\ log[k] \in BangRecords
           /\ ofs \in Nat /\ RecordAt(log[k], ofs, e)
           /\ \A j \in (ofs + 4)..e : file[j] = meant[j]
           /\ log[k].type # "link" => \A j \in (ofs + 1)..e : file[j] = meant[j]
<1>1. PICK n \in Nat : n = Len(log) /\ DOMAIN log = 1..n /\ \A i \in 1..n : log[i] \in BangRecords
  BY DEF FixState, FileOf
<1>2. k \in 1..(n + 1) /\ k + 1 \in 1..(n + 1)
  BY <1>1
<1>3. PICK e \in Nat : e = starts[k + 1] /\ e <= Len(file) /\ ofs \in Nat
  BY <1>1, <1>2 DEF FixState, FileOf
<1>4. RecordAt(log[k], ofs, e)
  BY <1>3 DEF FixState, FileOf
<1>5. PICK m \in Nat : m = Len(file)
  BY DEF FixState
<1>6. \A i \in 1..m : file[i] = meant[i] \/ file[i] = given[i]
  BY <1>5 DEF FixState
<1>7. ASSUME NEW j \in (ofs + 4)..e PROVE file[j] = meant[j]
  <2>1. j \in 1..m
    BY <1>3, <1>5
  <2>2. given[j] = meant[j]
    BY <1>4 DEF RecordAt
  <2> QED BY <1>6, <2>1, <2>2
<1>8. ASSUME log[k].type # "link", NEW j \in (ofs + 1)..e PROVE file[j] = meant[j]
  <2>1. j \in 1..m
    BY <1>3, <1>5
  <2>2. given[j] = meant[j]
    BY <1>4, <1>8 DEF RecordAt
  <2> QED BY <1>6, <2>1, <2>2
<1> QED BY <1>1, <1>2, <1>3, <1>4, <1>7, <1>8

\* The repaired part grows by the record in hand.
LEMMA NextInHand ==
  ASSUME NEW log, NEW starts, FixState(log, starts), NEW k \in 1..Len(log), ofs = starts[k],
         UNCHANGED <<given, meant>>, ofs' = starts[k + 1], fixing' = "header",
         file' \in Seq(Nat), Len(file') = Len(file),
         \A j \in (ofs + 1)..starts[k + 1] : file'[j] = meant[j],
         \A j \in 1..Len(file) : j \notin (ofs + 1)..starts[k + 1] => file'[j] = file[j]
  PROVE  FixState(log, starts)'
<1>1. PICK e \in Nat : /\ e = starts[k + 1] /\ k + 1 \in 1..(Len(log) + 1) /\ e <= Len(file)
                       /\ ofs \in Nat /\ RecordAt(log[k], ofs, e)
  BY InHand
<1>2. FileOf(log, starts)'
  BY DEF FixState, FileOf, RecordAt
<1>3. PICK m \in Nat : m = Len(file)
  BY DEF FixState
<1>4. ASSUME NEW i \in 1..m PROVE file'[i] = meant[i] \/ (i > e /\ file'[i] = given[i])
  <2>1. CASE i \in (ofs + 1)..e
    BY <1>1, <2>1
  <2>2. CASE i \notin (ofs + 1)..e
    <3>1. file'[i] = file[i]
      BY <1>1, <1>3, <2>2
    <3>2. i <= ofs \/ i > e
      BY <1>1, <2>2
    <3>3. file[i] = meant[i] \/ (i > ofs /\ file[i] = given[i])
      BY <1>3 DEF FixState
    <3> QED BY <1>1, <3>1, <3>2, <3>3
  <2> QED BY <2>1, <2>2
<1> QED BY <1>1, <1>2, <1>3, <1>4 DEF FixState

LEMMA HeaderInHand ==
  ASSUME NEW log, NEW starts, FixState(log, starts), NEW k \in 1..(Len(log) + 1), ofs = starts[k]
  PROVE  /\ MoreHeaders => k \in 1..Len(log)
         /\ ~MoreHeaders => ofs = Len(file)
<1>1. PICK n \in Nat : n = Len(log)
  BY DEF FixState, FileOf
<1>2. PICK m \in Nat : m = Len(file) /\ m = starts[n + 1]
  <2>1. Len(file) \in Nat
    BY DEF FixState
  <2>2. Len(file) = starts[n + 1]
    BY <1>1 DEF FixState, FileOf
  <2> QED BY <2>1, <2>2
<1>3. k = n + 1 => ofs = m /\ ~MoreHeaders
  BY <1>2 DEF MoreHeaders, Header
<1>4. k # n + 1 => k \in 1..n
  BY <1>1
<1>5. ASSUME k \in 1..n PROVE MoreHeaders
  <2>1. PICK e \in Nat : e <= m /\ ofs \in Nat /\ e >= ofs + 9
    <3>1. k \in 1..Len(log)
      BY <1>1, <1>5
    <3>2. PICK e \in Nat : e <= Len(file) /\ ofs \in Nat /\ RecordAt(log[k], ofs, e)
      BY <3>1, InHand
    <3> QED BY <1>2, <3>2 DEF RecordAt
  <2> QED BY <1>2, <2>1 DEF MoreHeaders, Header
<1> QED BY <1>1, <1>2, <1>3, <1>4, <1>5

LEMMA OpenKeeps ==
  ASSUME NEW log, NEW starts, FixState(log, starts), Open
  PROVE  FixState(log, starts)'
<1>1. PICK n \in Nat : n = Len(log)
  <2>1. log \in Seq(BangRecords)
    BY DEF FixState, FileOf
  <2> QED BY <2>1
<1>2. 1 \in 1..(n + 1) /\ starts[1] = 0
  BY DEF FixState, FileOf
<1>3. FileOf(log, starts)'
  BY DEF FixState, FileOf, RecordAt, Open
<1>4. ofs' = 0 /\ fixing' = "header" /\ file' = file /\ given' = given /\ meant' = meant
  BY DEF Open
<1>5. \A i \in 1..Len(file) : file[i] = meant[i] \/ (i > 0 /\ file[i] = given[i])
  BY DEF FixState
<1> QED BY <1>1, <1>2, <1>3, <1>4, <1>5 DEF FixState

LEMMA PassKeeps ==
  ASSUME NEW log, NEW starts, FixState(log, starts), Pass
  PROVE  FixState(log, starts)'
<1>1. PICK k \in 1..(Len(log) + 1) : ofs = starts[k]
  BY DEF FixState
<1>2. k \in 1..Len(log)
  BY <1>1, HeaderInHand DEF Pass
<1>3. PICK e \in Nat :
         /\ e = starts[k + 1] /\ e <= Len(file) /\ ofs \in Nat /\ RecordAt(log[k], ofs, e)
         /\ \A j \in (ofs + 4)..e : file[j] = meant[j]
         /\ log[k].type # "link" => \A j \in (ofs + 1)..e : file[j] = meant[j]
  BY <1>1, <1>2, InHand
<1>4. e >= ofs + 9 /\ meant[ofs + 4] = TypeOf(log[k].type)
      /\ \A j \in 1..3 : meant[ofs + j] = LenBytes(e - ofs)[j]
  BY <1>3 DEF RecordAt
<1>5. log[k].type # "link"
  <2>1. file[ofs + 4] = meant[ofs + 4]
    <3>1. ofs + 4 \in (ofs + 4)..e
      BY <1>3, <1>4
    <3> QED BY <1>3, <3>1
  <2> QED BY <1>4, <2>1 DEF Pass
<1>6. \A j \in (ofs + 1)..e : file[j] = meant[j]
  BY <1>3, <1>5
<1>7. msg_getlen(file, ofs) = e - ofs
  <2>1. PICK l \in Nat : l = e - ofs
    <3>1. ofs \in Nat /\ e \in Nat /\ e >= ofs + 9
      BY <1>3, <1>4
    <3> QED BY ONLY <3>1
  <2>2. \A j \in 1..3 : file[ofs + j] = LenBytes(l)[j]
    <3> TAKE j \in 1..3
    <3>1. ofs + j \in (ofs + 1)..e
      BY <1>3, <1>4
    <3> QED BY <1>4, <1>6, <2>1, <3>1
  <2>3. /\ file[ofs + 1] = l % Base /\ file[ofs + 2] = (l \div Base) % Base
        /\ file[ofs + 3] = (l \div Base) \div Base
    BY <2>2 DEF LenBytes
  <2> QED BY <2>1, <2>3, LengthRead DEF msg_getlen
<1>8. ofs' = e /\ fixing' = "header" /\ file' = file /\ given' = given /\ meant' = meant
  BY <1>3, <1>7 DEF Pass
<1>9. file \in Seq(Nat)
  BY DEF FixState
<1> QED BY <1>1, <1>2, <1>3, <1>6, <1>8, <1>9, NextInHand

LEMMA SeekNameKeeps ==
  ASSUME NEW log, NEW starts, FixState(log, starts), SeekName
  PROVE  FixState(log, starts)'
<1>1. PICK k \in 1..(Len(log) + 1) : ofs = starts[k]
  BY DEF FixState
<1>2. k \in 1..Len(log)
  BY <1>1, HeaderInHand DEF SeekName
<1>3. PICK e \in Nat :
         /\ e = starts[k + 1] /\ e <= Len(file) /\ ofs \in Nat /\ RecordAt(log[k], ofs, e)
         /\ log[k] \in BangRecords
         /\ \A j \in (ofs + 4)..e : file[j] = meant[j]
  BY <1>1, <1>2, InHand
<1>4. log[k].type = "link" /\ e >= ofs + 10
  <2>1. e >= ofs + 9 /\ meant[ofs + 4] = TypeOf(log[k].type)
        /\ (log[k].type = "link" => e >= ofs + 10)
    BY <1>3 DEF RecordAt
  <2>2. file[ofs + 4] = meant[ofs + 4]
    BY <1>3, <2>1
  <2> QED BY <2>1, <2>2 DEF SeekName, TypeOf
<1>5. /\ pos' = ofs + 10 /\ zeros' = 0 /\ fixing' = "scan"
      /\ file' = file /\ given' = given /\ meant' = meant /\ ofs' = ofs
  BY DEF SeekName, SizeOf, Header
<1>6. FileOf(log, starts)'
  BY <1>5 DEF FixState, FileOf, RecordAt
<1>7. PICK m \in Nat : m = Len(file)
  BY DEF FixState
<1>8. ZerosAt(pos, e)'
  BY <1>3, <1>4, <1>5 DEF ZerosAt
<1>9. ScanAt(log, k, e)'
  BY <1>3, <1>4, <1>5, <1>7, <1>8 DEF ScanAt
<1> QED BY <1>1, <1>2, <1>3, <1>5, <1>6, <1>9 DEF FixState

LEMMA ScanKeeps ==
  ASSUME NEW log, NEW starts, FixState(log, starts), Scan
  PROVE  FixState(log, starts)'
<1>1. PICK k \in 1..Len(log) : ofs = starts[k] /\ ScanAt(log, k, starts[k + 1])
  <2>1. PICK k \in 1..(Len(log) + 1) : ofs = starts[k] /\ k <= Len(log) /\ ScanAt(log, k, starts[k + 1])
    BY DEF FixState, Scan
  <2>2. Len(log) \in Nat
    BY DEF FixState, FileOf
  <2>3. k \in 1..Len(log)
    BY <2>1, <2>2
  <2> QED BY <2>1, <2>3
<1>2. PICK e \in Nat :
         /\ e = starts[k + 1] /\ k + 1 \in 1..(Len(log) + 1)
         /\ e <= Len(file) /\ ofs \in Nat /\ RecordAt(log[k], ofs, e)
         /\ \A j \in (ofs + 4)..e : file[j] = meant[j]
  BY <1>1, InHand
<1>3. PICK m \in Nat : m = Len(file) /\ m = starts[Len(log) + 1]
  <2>1. Len(file) \in Nat
    BY DEF FixState
  <2>2. Len(file) = starts[Len(log) + 1]
    BY DEF FixState, FileOf
  <2> QED BY <2>1, <2>2
<1>4. /\ log[k].type = "link" /\ pos \in (ofs + 10)..m /\ pos <= e + 8 /\ ZerosAt(pos, e)
  BY <1>1, <1>2, <1>3 DEF ScanAt
<1>5. /\ pos' = pos + 1 /\ zeros' = IF file[pos + 1] = 0 THEN zeros + 1 ELSE 0
      /\ zeros < 4 /\ pos < m /\ fixing = "scan"
      /\ file' = file /\ given' = given /\ meant' = meant /\ ofs' = ofs /\ fixing' = fixing
  BY <1>3 DEF Scan
<1>6. zeros \in Nat /\ pos \in Nat /\ pos < e + 8
  <2>1. pos \in Nat /\ pos <= e + 8 /\ zeros \in Nat /\ zeros < 4
    BY <1>2, <1>4, <1>5 DEF ZerosAt
  <2>2. pos = e + 8 => zeros = pos - (e + 4)
    BY <1>4, <2>1 DEF ZerosAt
  <2> QED BY <2>1, <2>2
<1>7. FileOf(log, starts)'
  BY <1>5 DEF FixState, FileOf, RecordAt
<1>8. ZerosAt(pos, e)'
  <2>1. CASE pos < e
    <3>1. pos + 1 \in (ofs + 11)..e /\ pos + 1 \in (ofs + 4)..e
      BY <1>2, <1>4, <1>6, <2>1
    <3>2. file[pos + 1] # 0
      BY <1>2, <1>4, <3>1 DEF RecordAt
    <3> QED BY <1>5, <1>6, <2>1, <3>2 DEF ZerosAt
  <2>2. CASE pos >= e /\ pos < e + 3
    <3>1. zeros <= pos - e
      BY <1>4, <1>6, <2>2 DEF ZerosAt
    <3> QED BY <1>5, <1>6, <2>2, <3>1 DEF ZerosAt
  <2>3. CASE pos >= e + 3
    <3>1. PICK f \in Nat : /\ f <= m /\ RecordAt(log[k + 1], e, f)
                           /\ \A j \in (e + 4)..f : file[j] = meant[j]
      <4>1. k + 1 \in 1..Len(log)
        <5>1. k + 1 # Len(log) + 1
          BY <1>2, <1>3, <1>5, <1>6, <2>3
        <5> QED BY <1>2, <5>1
      <4>2. PICK f \in Nat : /\ f = starts[(k + 1) + 1] /\ f \in 0..m /\ starts[k + 1] = e
        <5>1. (k + 1) + 1 \in 1..(Len(log) + 1)
          BY <4>1
        <5>2. starts[(k + 1) + 1] \in Nat /\ starts[(k + 1) + 1] <= starts[Len(log) + 1]
          BY <5>1 DEF FixState, FileOf
        <5> QED BY <1>2, <1>3, <5>2
      <4>3. RecordAt(log[k + 1], e, f)
        BY <4>1, <4>2 DEF FixState, FileOf
      <4>4. \A j \in (e + 4)..f : file[j] = meant[j]
        <5> TAKE j \in (e + 4)..f
        <5>1. j \in 1..m
          BY <4>2
        <5>2. given[j] = meant[j]
          BY <4>3 DEF RecordAt
        <5> QED BY <1>3, <5>1, <5>2 DEF FixState
      <4> QED BY <4>2, <4>3, <4>4
    <3>2. /\ f >= e + 9 /\ meant[e + 4] \in {2, 3}
          /\ \A j \in (e + 5)..(e + 8) : meant[j] = 0
      BY <3>1 DEF RecordAt, TypeOf
    <3>3. CASE pos = e + 3
      <4>1. file[pos + 1] # 0
        BY <3>1, <3>2, <3>3
      <4> QED BY <1>5, <1>6, <3>3, <4>1 DEF ZerosAt
    <3>4. CASE pos > e + 3
      <4>1. file[pos + 1] = 0
        <5>1. pos + 1 \in (e + 5)..(e + 8) /\ pos + 1 \in (e + 4)..f
          BY <1>6, <3>2, <3>4
        <5> QED BY <3>1, <3>2, <5>1
      <4>2. zeros = pos - (e + 4)
        BY <1>4, <1>6, <3>4 DEF ZerosAt
      <4> QED BY <1>5, <1>6, <3>4, <4>1, <4>2 DEF ZerosAt
    <3> QED BY <1>6, <2>3, <3>3, <3>4
  <2> QED BY <1>6, <2>1, <2>2, <2>3
<1>9. ScanAt(log, k, e)'
  <2>1. pos + 1 \in (ofs + 10)..m /\ pos + 1 <= e + 8
    BY <1>2, <1>4, <1>5, <1>6
  <2>2. pos' \in (ofs' + 10)..Len(file') /\ pos' <= e + 8
    BY <1>3, <1>5, <2>1
  <2> QED BY <1>4, <1>8, <2>2 DEF ScanAt
<1>10. k \in 1..(Len(log) + 1) /\ k <= Len(log)
  <2>1. Len(log) \in Nat
    BY DEF FixState, FileOf
  <2> QED BY <2>1
<1> QED BY <1>1, <1>2, <1>5, <1>7, <1>9, <1>10 DEF FixState

LEMMA StoreKeeps ==
  ASSUME NEW log, NEW starts, FixState(log, starts), Store
  PROVE  FixState(log, starts)'
<1>1. PICK k \in 1..Len(log) : ofs = starts[k] /\ ScanAt(log, k, starts[k + 1])
  <2>1. PICK k \in 1..(Len(log) + 1) : ofs = starts[k] /\ k <= Len(log) /\ ScanAt(log, k, starts[k + 1])
    BY DEF FixState, Store
  <2>2. Len(log) \in Nat
    BY DEF FixState, FileOf
  <2>3. k \in 1..Len(log)
    BY <2>1, <2>2
  <2> QED BY <2>1, <2>3
<1>2. PICK e \in Nat :
         /\ e = starts[k + 1] /\ k + 1 \in 1..(Len(log) + 1)
         /\ e <= Len(file) /\ ofs \in Nat /\ RecordAt(log[k], ofs, e)
         /\ \A j \in (ofs + 4)..e : file[j] = meant[j]
  BY <1>1, InHand
<1>3. PICK m \in Nat : m = Len(file) /\ m = starts[Len(log) + 1]
  <2>1. Len(file) \in Nat
    BY DEF FixState
  <2>2. Len(file) = starts[Len(log) + 1]
    BY DEF FixState, FileOf
  <2> QED BY <2>1, <2>2
<1>4. /\ pos \in (ofs + 10)..m /\ pos <= e + 8 /\ ZerosAt(pos, e) /\ e <= m
  BY <1>1, <1>2, <1>3 DEF ScanAt
<1>5. pos \in Nat /\ zeros \in Nat
  BY <1>2, <1>4 DEF ZerosAt
<1> DEFINE length == IF zeros = 4 THEN pos - Header - ofs ELSE pos - ofs
<1>6. length = e - ofs
  <2>1. CASE zeros = 4
    <3>1. pos > e
      BY <1>4, <1>5, <2>1 DEF ZerosAt
    <3>2. ~(pos < e + 4)
      <4>1. pos > e /\ pos < e + 4 => zeros <= pos - e
        BY <1>4 DEF ZerosAt
      <4> QED BY <1>5, <2>1, <3>1, <4>1
    <3>3. zeros = pos - (e + 4)
      BY <1>4, <1>5, <3>2 DEF ZerosAt
    <3>4. pos = e + 8
      BY <1>5, <2>1, <3>3
    <3> QED BY <1>2, <2>1, <3>4 DEF Header
  <2>2. CASE zeros # 4
    <3>1. pos = m
      BY <1>3, <2>2 DEF Store
    <3>2. e = m
      <4>1. CASE k + 1 = Len(log) + 1
        BY <1>2, <1>3, <4>1
      <4>2. CASE k + 1 # Len(log) + 1
        <5>1. k + 1 \in 1..Len(log) /\ (k + 1) + 1 \in 1..(Len(log) + 1)
          BY <1>2, <4>2
        <5>2. starts[(k + 1) + 1] \in Nat /\ starts[(k + 1) + 1] <= starts[Len(log) + 1]
          BY <5>1 DEF FixState, FileOf
        <5>3. starts[(k + 1) + 1] >= e + 9
          BY <1>2, <5>1 DEF FixState, FileOf, RecordAt
        <5> QED BY <1>3, <1>4, <1>5, <3>1, <5>2, <5>3
      <4> QED BY <4>1, <4>2
    <3> QED BY <2>2, <3>1, <3>2
  <2> QED BY <2>1, <2>2
<1>7. /\ file' = msg_initlen(file, ofs, length) /\ ofs' = ofs + length /\ fixing' = "header"
      /\ given' = given /\ meant' = meant
  BY DEF Store
<1> HIDE DEF length
<1>8. PICK l \in Nat : l = length /\ l = e - ofs /\ l >= 9
  <2>1. e >= ofs + 9
    BY <1>2 DEF RecordAt
  <2> QED BY <1>2, <1>6, <2>1
<1>9. /\ DOMAIN file = 1..m /\ file \in [1..m -> Nat]
  BY <1>3 DEF FixState
<1>10. file' = [i \in 1..m |-> IF i \in (ofs + 1)..(ofs + 3) THEN LenBytes(l)[i - ofs] ELSE file[i]]
  BY <1>7, <1>8, <1>9 DEF msg_initlen
<1>11. ofs' = e
  BY <1>2, <1>7, <1>8
<1>12. \A i \in 1..3 : LenBytes(l)[i] \in Nat
  <2>1. l % Base \in Nat /\ (l \div Base) % Base \in Nat /\ (l \div Base) \div Base \in Nat
    BY LengthRead
  <2>2. /\ LenBytes(l)[1] = l % Base /\ LenBytes(l)[2] = (l \div Base) % Base
        /\ LenBytes(l)[3] = (l \div Base) \div Base
    BY DEF LenBytes
  <2> QED BY <2>1, <2>2
<1>13. file' \in Seq(Nat) /\ Len(file') = m
  <2>1. ASSUME NEW i \in 1..m PROVE file'[i] \in Nat
    <3>1. CASE i \in (ofs + 1)..(ofs + 3)
      <4>1. i - ofs \in 1..3
        BY <1>2, <3>1
      <4> QED BY <1>10, <1>12, <3>1, <4>1
    <3>2. CASE i \notin (ofs + 1)..(ofs + 3)
      BY <1>9, <1>10, <3>2
    <3> QED BY <3>1, <3>2
  <2>2. file' \in [1..m -> Nat]
    BY <1>10, <2>1
  <2> QED BY <2>2
<1>14. ASSUME NEW j \in (ofs + 1)..e PROVE file'[j] = meant[j]
  <2>1. j \in 1..m
    BY <1>2, <1>4
  <2>2. CASE j \in (ofs + 1)..(ofs + 3)
    <3>1. j - ofs \in 1..3 /\ ofs + (j - ofs) = j
      BY <1>2, <2>2
    <3>2. meant[ofs + (j - ofs)] = LenBytes(e - ofs)[j - ofs]
      BY <1>2, <3>1 DEF RecordAt
    <3>3. file'[j] = LenBytes(l)[j - ofs]
      BY <1>10, <2>1, <2>2
    <3> QED BY <1>8, <3>1, <3>2, <3>3
  <2>3. CASE j \notin (ofs + 1)..(ofs + 3)
    <3>1. j \in (ofs + 4)..e
      BY <1>2, <2>3
    <3> QED BY <1>2, <1>10, <2>1, <2>3, <3>1
  <2> QED BY <2>2, <2>3
<1>15. ASSUME NEW j \in 1..m, j \notin (ofs + 1)..e PROVE file'[j] = file[j]
  <2>1. j \notin (ofs + 1)..(ofs + 3)
    BY <1>2, <1>8, <1>15
  <2> QED BY <1>10, <2>1
<1> QED BY <1>1, <1>2, <1>3, <1>7, <1>11, <1>13, <1>14, <1>15, NextInHand

LEMMA CloseKeeps ==
  ASSUME NEW log, NEW starts, FixState(log, starts), Close
  PROVE  FixState(log, starts)'
<1>1. PICK k \in 1..(Len(log) + 1) : ofs = starts[k]
  BY DEF FixState
<1>2. ofs = Len(file)
  BY <1>1, HeaderInHand DEF Close
<1>3. PICK m \in Nat : /\ m = Len(file) /\ file \in [1..m -> Nat] /\ meant \in [1..m -> Nat]
  <2>1. file \in Seq(Nat) /\ meant \in Seq(Nat) /\ Len(meant) = Len(file)
    BY DEF FixState, FileOf
  <2> QED BY <2>1
<1>4. \A i \in 1..m : file[i] = meant[i]
  BY <1>2, <1>3 DEF FixState
<1>5. file = meant
  BY <1>3, <1>4
<1>6. fixing' = "done" /\ file' = file /\ given' = given /\ meant' = meant /\ ofs' = ofs
  BY DEF Close
<1>7. FileOf(log, starts)'
  BY <1>6 DEF FixState, FileOf, RecordAt
<1> QED BY <1>1, <1>5, <1>6, <1>7 DEF FixState

LEMMA FixStepKeeps ==
  ASSUME FixInv, FixNext, given # <<>>
  PROVE  FixInv'
<1>1. PICK log, starts : FixState(log, starts)
  BY DEF FixInv
<1>2. CASE KillFix
  <2>1. fixing' = "off" /\ UNCHANGED <<given, meant, file, ofs>>
    BY <1>2 DEF KillFix
  <2>2. FileOf(log, starts)'
    BY <1>1, <2>1 DEF FixState, FileOf, RecordAt
  <2>3. FixState(log, starts)'
    BY <1>1, <2>1, <2>2 DEF FixState
  <2> QED BY <2>3 DEF FixInv
<1>3. CASE ~KillFix
  <2>1. FixState(log, starts)'
    BY <1>1, <1>3, OpenKeeps, PassKeeps, SeekNameKeeps, ScanKeeps, StoreKeeps, CloseKeeps DEF FixNext
  <2> QED BY <2>1 DEF FixInv
<1> QED BY <1>2, <1>3

\* For every log of pbang with links of any lengths, and wherever runs are killed: fixbang
\* changes nothing but wrong lengths, and ends with the log that pbang meant.
THEOREM LogIsRepaired == Spec => []LogRepaired
<1>1. Init => FixInv
  <2>1. FixbangIdle => FixInv
    BY DEF FixbangIdle, FixInit, FixInv, Image, FlattenSeq
  <2>2. ASSUME NEW log \in BangLogs, FixInit(log) PROVE FixInv
    <3>1. PICK starts : FileOf(log, starts)
      BY <2>2, LogIsLaid
    <3>2. file = given /\ ofs = 0 /\ fixing = "off"
      BY <2>2 DEF FixInit
    <3>3. 1 \in 1..(Len(log) + 1) /\ ofs = starts[1]
      BY <3>1, <3>2 DEF FileOf
    <3>4. FixState(log, starts)
      BY <3>1, <3>2, <3>3 DEF FixState, FileOf
    <3> QED BY <3>4 DEF FixInv
  <2> QED BY <2>1, <2>2 DEF Init
<1>2. FixInv /\ [Next]_vars => FixInv'
  <2> SUFFICES ASSUME FixInv, [Next]_vars PROVE FixInv'
    OBVIOUS
  <2>1. CASE UNCHANGED fixVars
    <3>1. UNCHANGED <<given, meant, file, ofs, pos, zeros, fixing>>
      BY <2>1 DEF fixVars
    <3>2. ASSUME NEW log, NEW starts, FixState(log, starts) PROVE FixState(log, starts)'
      BY <3>1, <3>2 DEF FixState, FileOf, RecordAt, ScanAt, ZerosAt
    <3> QED BY <3>1, <3>2 DEF FixInv
  <2>2. CASE Fixing /\ FixNext
    BY <2>2, FixStepKeeps DEF Fixing
  <2> QED BY <2>1, <2>2 DEF Next, vars
<1>3. FixInv => LogRepaired
  <2> SUFFICES ASSUME FixInv PROVE LogRepaired
    OBVIOUS
  <2>1. CASE given = <<>> /\ meant = <<>> /\ file = <<>> /\ ofs = 0
    BY <2>1 DEF LogRepaired
  <2>2. ASSUME NEW log, NEW starts, FixState(log, starts) PROVE LogRepaired
    <3>1. PICK k \in 1..(Len(log) + 1) : ofs = starts[k]
      BY <2>2 DEF FixState
    <3>2. starts[k] <= starts[Len(log) + 1] /\ Len(file) = starts[Len(log) + 1]
      BY <2>2, <3>1 DEF FixState, FileOf
    <3>3. DOMAIN file = 1..Len(file)
      BY <2>2 DEF FixState
    <3> QED BY <2>2, <3>1, <3>2, <3>3 DEF FixState, LogRepaired
  <2> QED BY <2>1, <2>2 DEF FixInv
<1> QED BY <1>1, <1>2, <1>3, PTL DEF Spec

-----------------------------------------------------------------------------
(* Pieces of text *)

\* The first n of the pieces f in one sequence.
Cat(f, n) == FlattenSeq([i \in 1..n |-> f[i]])

\* Two recursions over sequences that begin alike begin alike.
LEMMA FlattensAgree ==
  ASSUME NEW f, NEW n \in Nat, NEW m \in Nat, n <= m,
         NEW g, Flattens(g, [i \in 1..n |-> f[i]], n),
         NEW h, Flattens(h, [i \in 1..m |-> f[i]], m)
  PROVE  \A k \in 1..n : g[k] = h[k]
<1> DEFINE T == {k \in Nat : k \in 1..n => g[k] = h[k]}
<1>1. 0 \in T
  OBVIOUS
<1>2. ASSUME NEW k \in Nat, k \in T PROVE k + 1 \in T
  <2> SUFFICES ASSUME k + 1 \in 1..n PROVE g[k + 1] = h[k + 1]
    OBVIOUS
  <2>1. k + 1 \in 1..m /\ (k + 1) - 1 = k
    OBVIOUS
  <2>2. g[k + 1] = IF k + 1 = 1 THEN f[k + 1] ELSE g[(k + 1) - 1] \o f[k + 1]
    BY DEF Flattens
  <2>3. h[k + 1] = IF k + 1 = 1 THEN f[k + 1] ELSE h[(k + 1) - 1] \o f[k + 1]
    BY <2>1 DEF Flattens
  <2>4. k + 1 # 1 => g[k] = h[k]
    BY <1>2
  <2> QED BY <2>1, <2>2, <2>3, <2>4
<1>3. Nat \subseteq T
  <2> HIDE DEF T
  <2> QED BY <1>1, <1>2, SetInduction
<1> QED BY <1>3

LEMMA CatIs ==
  ASSUME NEW f, NEW n \in Nat, n # 0, NEW g, Flattens(g, [i \in 1..n |-> f[i]], n)
  PROVE  Cat(f, n) = g[n]
<1> DEFINE s == [i \in 1..n |-> f[i]]
           h == CHOOSE c : Flattens(c, s, n)
<1>1. Len(s) = n
  OBVIOUS
<1>2. Flattens(h, s, n)
  BY FlattensExists
<1>3. FlattenSeq(s) = h[n]
  BY <1>1 DEF FlattenSeq, Flattens
<1> HIDE DEF h
<1>4. \A k \in 1..n : h[k] = g[k]
  BY <1>2, FlattensAgree
<1> QED BY <1>3, <1>4 DEF Cat

LEMMA CatZero == \A f : Cat(f, 0) = <<>>
<1> SUFFICES ASSUME NEW f PROVE Cat(f, 0) = <<>>
  OBVIOUS
<1> DEFINE s == [i \in 1..0 |-> f[i]]
<1>1. s = <<>> /\ Len(s) = 0
  OBVIOUS
<1> QED BY <1>1 DEF Cat, FlattenSeq

LEMMA CatNext ==
  ASSUME NEW S, NEW f, NEW n \in Nat, \A i \in 1..(n + 1) : f[i] \in Seq(S)
  PROVE  Cat(f, n + 1) = Cat(f, n) \o f[n + 1]
<1>1. PICK h : Flattens(h, [i \in 1..(n + 1) |-> f[i]], n + 1)
  <2>1. n + 1 \in Nat
    OBVIOUS
  <2> QED BY <2>1, FlattensExists
<1>2. Cat(f, n + 1) = h[n + 1]
  <2>1. n + 1 \in Nat /\ n + 1 # 0
    OBVIOUS
  <2> QED BY <1>1, <2>1, CatIs
<1>3. h[n + 1] = IF n + 1 = 1 THEN f[n + 1] ELSE h[(n + 1) - 1] \o f[n + 1]
  <2>1. n + 1 \in 1..(n + 1)
    OBVIOUS
  <2> QED BY <1>1, <2>1 DEF Flattens
<1>4. CASE n = 0
  <2>1. f[n + 1] \in Seq(S)
    OBVIOUS
  <2>2. Cat(f, n) = <<>>
    BY <1>4, CatZero
  <2>3. <<>> \o f[n + 1] = f[n + 1]
    BY <2>1, ConcatEmptySeq
  <2> QED BY <1>2, <1>3, <1>4, <2>2, <2>3
<1>5. CASE n # 0
  <2>1. PICK g : Flattens(g, [i \in 1..n |-> f[i]], n)
    BY FlattensExists
  <2>2. Cat(f, n) = g[n]
    BY <1>5, <2>1, CatIs
  <2>3. \A k \in 1..n : g[k] = h[k]
    BY <1>1, <2>1, FlattensAgree
  <2>4. n \in 1..n /\ (n + 1) - 1 = n /\ n + 1 # 1
    BY <1>5
  <2>5. g[n] = h[n]
    BY <2>3, <2>4
  <2> QED BY <1>2, <1>3, <2>2, <2>4, <2>5
<1> QED BY <1>4, <1>5

LEMMA CatType ==
  ASSUME NEW S, NEW f, NEW n \in Nat, \A i \in 1..n : f[i] \in Seq(S)
  PROVE  Cat(f, n) \in Seq(S)
<1> DEFINE T == {k \in Nat : k \in 0..n => Cat(f, k) \in Seq(S)}
<1>1. 0 \in T
  BY CatZero, EmptySeq
<1>2. ASSUME NEW k \in Nat, k \in T PROVE k + 1 \in T
  <2> SUFFICES ASSUME k + 1 \in 0..n PROVE Cat(f, k + 1) \in Seq(S)
    OBVIOUS
  <2>1. Cat(f, k) \in Seq(S) /\ k + 1 \in 1..n
    BY <1>2
  <2>2. Cat(f, k + 1) = Cat(f, k) \o f[k + 1]
    BY CatNext
  <2>3. f[k + 1] \in Seq(S)
    BY <2>1
  <2> QED BY <2>1, <2>2, <2>3, ConcatProperties
<1>3. Nat \subseteq T
  <2> HIDE DEF T
  <2> QED BY <1>1, <1>2, SetInduction
<1> QED BY <1>3

\* The pieces h are m of f, behind the first n.
Behind(h, m, f, n, S) ==
  /\ m \in Nat /\ n \in Nat
  /\ \A i \in 1..(n + m) : f[i] \in Seq(S)
  /\ \A i \in 1..m : h[i] = f[n + i]

LEMMA CatPlus ==
  ASSUME NEW S, NEW f, NEW n, NEW m, NEW h, Behind(h, m, f, n, S)
  PROVE  Cat(f, n + m) = Cat(f, n) \o Cat(h, m)
<1>0. /\ m \in Nat /\ n \in Nat
      /\ \A i \in 1..(n + m) : f[i] \in Seq(S)
      /\ \A i \in 1..m : h[i] = f[n + i]
  BY DEF Behind
<1>1. \A i \in 1..m : h[i] \in Seq(S)
  BY <1>0
<1> DEFINE T == {k \in Nat : k \in 0..m => Cat(f, n + k) = Cat(f, n) \o Cat(h, k)}
<1>2. Cat(f, n) \in Seq(S)
  BY <1>0, CatType
<1>3. 0 \in T
  <2>1. n + 0 = n /\ Cat(h, 0) = <<>>
    BY <1>0, CatZero
  <2>2. Cat(f, n) \o <<>> = Cat(f, n)
    BY <1>2, ConcatEmptySeq
  <2> QED BY <2>1, <2>2
<1>4. ASSUME NEW k \in Nat, k \in T PROVE k + 1 \in T
  <2> SUFFICES ASSUME k + 1 \in 0..m PROVE Cat(f, n + (k + 1)) = Cat(f, n) \o Cat(h, k + 1)
    OBVIOUS
  <2>1. /\ k \in 0..m /\ k + 1 \in 1..m /\ n + k \in Nat /\ (n + k) + 1 = n + (k + 1)
        /\ (n + k) + 1 \in 1..(n + m)
    BY <1>0
  <2>2. Cat(f, n + k) = Cat(f, n) \o Cat(h, k)
    BY <1>4, <2>1
  <2>3. Cat(f, (n + k) + 1) = Cat(f, n + k) \o f[(n + k) + 1]
    <3>1. \A i \in 1..((n + k) + 1) : f[i] \in Seq(S)
      BY <1>0, <2>1
    <3> QED BY <2>1, <3>1, CatNext
  <2>4. Cat(h, k + 1) = Cat(h, k) \o h[k + 1]
    <3>1. \A i \in 1..(k + 1) : h[i] \in Seq(S)
      BY <1>0, <1>1, <2>1
    <3> QED BY <3>1, CatNext
  <2>5. h[k + 1] = f[(n + k) + 1] /\ h[k + 1] \in Seq(S)
    BY <1>0, <1>1, <2>1
  <2>6. Cat(h, k) \in Seq(S)
    <3>1. \A i \in 1..k : h[i] \in Seq(S)
      BY <1>0, <1>1, <2>1
    <3> QED BY <3>1, CatType
  <2>7. (Cat(f, n) \o Cat(h, k)) \o h[k + 1] = Cat(f, n) \o (Cat(h, k) \o h[k + 1])
    <3>1. Cat(f, n) \in Seq(S) /\ Cat(h, k) \in Seq(S) /\ h[k + 1] \in Seq(S)
      BY <1>2, <2>5, <2>6
    <3>2. \A a, b, c \in Seq(S) : (a \o b) \o c = a \o (b \o c)
      BY ConcatAssociative
    <3> QED BY ONLY <3>1, <3>2, Zenon
  <2> QED BY <2>1, <2>2, <2>3, <2>4, <2>5, <2>7
<1>5. Nat \subseteq T
  <2> HIDE DEF T
  <2> QED BY <1>3, <1>4, SetInduction
<1>6. m \in Nat /\ m \in 0..m
  BY <1>0
<1> QED BY <1>5, <1>6

-----------------------------------------------------------------------------
(* Numbers in their order *)

\* e goes through U, which has c members.
Orders(e, U, c) ==
  /\ e \in [1..c -> U]
  /\ \A u \in U : \E k \in 1..c : e[k] = u
  /\ \A j, k \in 1..c : j < k => e[j] < e[k]

LEMMA OrderExists ==
  ASSUME NEW n \in Nat, NEW U \in SUBSET (1..n)
  PROVE  /\ IsFiniteSet(U) /\ Cardinality(U) \in Nat
         /\ \E e : Orders(e, U, Cardinality(U))
<1> DEFINE Good(V) == IsFiniteSet(V) /\ Cardinality(V) \in Nat /\ \E e : Orders(e, V, Cardinality(V))
           T == {k \in Nat : \A V \in SUBSET (1..k) : Good(V)}
<1>1. 0 \in T
  <2> SUFFICES ASSUME NEW V \in SUBSET (1..0) PROVE Good(V)
    OBVIOUS
  <2>1. V = {}
    OBVIOUS
  <2>2. IsFiniteSet(V) /\ Cardinality(V) = 0
    BY <2>1, FS_EmptySet
  <2>3. Orders(<<>>, V, 0)
    BY <2>1 DEF Orders
  <2> QED BY <2>2, <2>3
<1>2. ASSUME NEW k \in Nat, k \in T PROVE k + 1 \in T
  <2> SUFFICES ASSUME NEW V \in SUBSET (1..(k + 1)) PROVE Good(V)
    OBVIOUS
  <2>1. CASE k + 1 \notin V
    <3>1. V \in SUBSET (1..k)
      BY <2>1
    <3> QED BY <1>2, <3>1
  <2>2. CASE k + 1 \in V
    <3> DEFINE W == V \ {k + 1}
    <3>1. W \in SUBSET (1..k) /\ V = W \cup {k + 1} /\ k + 1 \notin W
      BY <2>2
    <3>2. Good(W)
      BY <1>2, <3>1
    <3> HIDE DEF W
    <3>3. PICK c \in Nat : c = Cardinality(W) /\ \E e : Orders(e, W, c)
      BY <3>2
    <3>4. PICK e : Orders(e, W, c)
      BY <3>3
    <3>5. IsFiniteSet(V) /\ Cardinality(V) = c + 1
      BY <3>1, <3>2, <3>3, FS_AddElement
    <3> DEFINE d == [i \in 1..(c + 1) |-> IF i = c + 1 THEN k + 1 ELSE e[i]]
    <3>6. \A i \in 1..c : i \in 1..(c + 1) /\ d[i] = e[i] /\ e[i] \in W /\ e[i] \in 1..k
      <4>1. \A i \in 1..c : e[i] \in W
        BY <3>4 DEF Orders
      <4>2. \A i \in 1..c : e[i] \in 1..k
        BY <3>1, <4>1
      <4>3. \A i \in 1..c : i \in 1..(c + 1) /\ d[i] = e[i]
        OBVIOUS
      <4> QED BY <4>1, <4>2, <4>3
    <3>7. c + 1 \in 1..(c + 1) /\ d[c + 1] = k + 1
      OBVIOUS
    <3>8. d \in [1..(c + 1) -> V]
      <4>1. ASSUME NEW i \in 1..(c + 1) PROVE d[i] \in V
        <5>1. i = c + 1 \/ i \in 1..c
          OBVIOUS
        <5> HIDE DEF d
        <5>2. i \in 1..c => d[i] \in W
          BY <3>6
        <5> QED BY <3>1, <3>7, <5>1, <5>2
      <4>2. d = [i \in 1..(c + 1) |-> d[i]]
        OBVIOUS
      <4> HIDE DEF d
      <4> QED BY <4>1, <4>2
    <3> HIDE DEF d
    <3>9. \A u \in V : \E i \in 1..(c + 1) : d[i] = u
      <4>1. ASSUME NEW u \in W PROVE \E i \in 1..(c + 1) : d[i] = u
        <5>1. PICK i \in 1..c : e[i] = u
          BY <3>4 DEF Orders
        <5> QED BY <3>6, <5>1
      <4> QED BY <3>1, <3>7, <4>1
    <3>10. ASSUME NEW i \in 1..(c + 1), NEW j \in 1..(c + 1), i < j PROVE d[i] < d[j]
      <4>1. i \in 1..c
        BY <3>10
      <4>2. CASE j = c + 1
        BY <3>6, <3>7, <4>1, <4>2
      <4>3. CASE j # c + 1
        <5>1. j \in 1..c
          BY <4>3
        <5>2. e[i] < e[j]
          BY <3>4, <3>10, <4>1, <5>1 DEF Orders
        <5> QED BY <3>6, <4>1, <5>1, <5>2
      <4> QED BY <4>2, <4>3
    <3>11. Orders(d, V, c + 1)
      BY <3>8, <3>9, <3>10 DEF Orders
    <3> QED BY <3>5, <3>11
  <2> QED BY <2>1, <2>2
<1>3. Nat \subseteq T
  <2> HIDE DEF T
  <2> QED BY <1>1, <1>2, SetInduction
<1>4. \A V \in SUBSET (1..n) : Good(V)
  BY <1>3
<1> QED BY <1>4

\* So InOrder is what its name says.
LEMMA InOrderIs ==
  ASSUME NEW n \in Nat, NEW U \in SUBSET (1..n)
  PROVE  /\ IsFiniteSet(U) /\ Cardinality(U) \in Nat
         /\ Orders(InOrder(U), U, Cardinality(U))
<1>1. IsFiniteSet(U) /\ Cardinality(U) \in Nat
  BY OrderExists
<1>2. PICK c \in Nat : c = Cardinality(U)
  BY <1>1
<1>3. PICK e : Orders(e, U, c)
  BY <1>2, OrderExists
<1>4. \A j \in 1..c : e[j] \in Int
  <2>1. \A j \in 1..c : e[j] \in U
    BY <1>3 DEF Orders
  <2>2. \A u \in U : u \in Int
    OBVIOUS
  <2> QED BY ONLY <2>1, <2>2
<1>5. e \in Bijection(1..c, U) /\ \A j, k \in DOMAIN e : j < k => e[j] < e[k]
  <2>1. ASSUME NEW a \in 1..c, NEW b \in 1..c, e[a] = e[b] PROVE a = b
    <3>1. ~ a < b /\ ~ b < a
      BY <1>3, <1>4, <2>1 DEF Orders
    <3> QED BY <3>1
  <2>2. e \in Injection(1..c, U)
    BY <1>3, <2>1 DEF Orders, Injection, IsInjective
  <2>3. e \in Surjection(1..c, U)
    BY <1>3 DEF Orders, Surjection
  <2> QED BY <1>3, <2>2, <2>3 DEF Bijection, Orders
<1>6. /\ InOrder(U) \in Bijection(1..c, U)
      /\ \A j, k \in DOMAIN InOrder(U) : j < k => InOrder(U)[j] < InOrder(U)[k]
  BY <1>2, <1>5 DEF InOrder
<1>7. Orders(InOrder(U), U, c)
  <2> DEFINE d == InOrder(U)
  <2>1. d \in [1..c -> U] /\ \A u \in U : \E k \in 1..c : d[k] = u
    BY <1>6 DEF Bijection, Surjection
  <2>2. DOMAIN d = 1..c
    BY <2>1
  <2> QED BY <1>6, <2>1, <2>2 DEF Orders
<1> QED BY <1>1, <1>2, <1>7

\* How many of U are up to p.
Below(U, p) == Cardinality(U \cap (1..p))

LEMMA BelowZero == \A U : Below(U, 0) = 0
<1> SUFFICES ASSUME NEW U PROVE Below(U, 0) = 0
  OBVIOUS
<1>1. U \cap (1..0) = {}
  OBVIOUS
<1> QED BY <1>1, FS_EmptySet DEF Below

LEMMA BelowNext ==
  ASSUME NEW U, NEW p \in Nat
  PROVE  /\ Below(U, p) \in Nat
         /\ Below(U, p + 1) = IF p + 1 \in U THEN Below(U, p) + 1 ELSE Below(U, p)
<1> DEFINE B == U \cap (1..p)
<1>1. IsFiniteSet(1..p)
  BY FS_Interval
<1>2. IsFiniteSet(B) /\ Cardinality(B) \in Nat
  <2>1. B \in SUBSET (1..p)
    OBVIOUS
  <2>2. IsFiniteSet(B)
    BY <1>1, <2>1, FS_Subset
  <2> QED BY <2>2, FS_CardinalityType
<1>3. CASE p + 1 \in U
  <2>1. U \cap (1..(p + 1)) = B \cup {p + 1} /\ p + 1 \notin B
    BY <1>3
  <2> HIDE DEF B
  <2>2. Cardinality(B \cup {p + 1}) = Cardinality(B) + 1
    BY <1>2, <2>1, FS_AddElement
  <2> QED BY <1>2, <1>3, <2>1, <2>2 DEF Below, B
<1>4. CASE p + 1 \notin U
  <2>1. U \cap (1..(p + 1)) = B
    BY <1>4
  <2> QED BY <1>2, <1>4, <2>1 DEF Below
<1> QED BY <1>3, <1>4

LEMMA BelowAll == ASSUME NEW n \in Nat, NEW U \in SUBSET (1..n) PROVE Below(U, n) = Cardinality(U)
<1>1. U \cap (1..n) = U
  OBVIOUS
<1> QED BY <1>1 DEF Below

\* The first of them are those that are not above p.
LEMMA FirstBelow ==
  ASSUME NEW n \in Nat, NEW U \in SUBSET (1..n), NEW c \in Nat, NEW e, Orders(e, U, c),
         NEW p \in 0..n
  PROVE  \A k \in 1..c : e[k] <= p <=> k <= Below(U, p)
<1> DEFINE T == {q \in Nat : q \in 0..n => \A k \in 1..c : e[k] <= q <=> k <= Below(U, q)}
<1>1. \A k \in 1..c : e[k] \in U /\ e[k] \in 1..n
  BY DEF Orders
<1>2. 0 \in T
  BY <1>1, BelowZero
<1>3. ASSUME NEW q \in Nat, q \in T PROVE q + 1 \in T
  <2> SUFFICES ASSUME q + 1 \in 0..n, NEW k \in 1..c
               PROVE  e[k] <= q + 1 <=> k <= Below(U, q + 1)
    OBVIOUS
  <2>1. \A i \in 1..c : e[i] <= q <=> i <= Below(U, q)
    BY <1>3
  <2>2. PICK b \in Nat : b = Below(U, q)
    BY BelowNext
  <2>3. CASE q + 1 \notin U
    <3>1. Below(U, q + 1) = b
      BY <2>2, <2>3, BelowNext
    <3>2. e[k] # q + 1
      BY <1>1, <2>3
    <3> QED BY <1>1, <2>1, <2>2, <3>1, <3>2
  <2>4. CASE q + 1 \in U
    <3>1. Below(U, q + 1) = b + 1
      BY <2>2, <2>4, BelowNext
    <3>2. PICK j \in 1..c : e[j] = q + 1
      BY <2>4 DEF Orders
    <3>3. ~ j <= b
      BY <2>1, <2>2, <3>2
    <3>4. j = b + 1
      <4>1. CASE j # b + 1
        <5>1. b + 1 \in 1..c /\ b + 1 < j
          BY <3>3, <4>1
        <5>2. e[b + 1] < e[j]
          BY <5>1 DEF Orders
        <5>3. e[b + 1] <= q
          BY <1>1, <3>2, <5>1, <5>2
        <5> QED BY <2>1, <2>2, <5>1, <5>3
      <4> QED BY <4>1
    <3>5. k < j => e[k] < e[j]
      BY DEF Orders
    <3>6. j < k => e[j] < e[k]
      BY DEF Orders
    <3>7. e[k] \in Int
      BY <1>1
    <3> QED BY <3>1, <3>2, <3>4, <3>5, <3>6, <3>7
  <2> QED BY <2>3, <2>4
<1>4. Nat \subseteq T
  <2> HIDE DEF T
  <2> QED BY <1>2, <1>3, SetInduction
<1> QED BY <1>4

LEMMA CatPrefix ==
  ASSUME NEW S, NEW f, NEW p \in Nat, NEW q \in Nat, p <= q, \A i \in 1..q : f[i] \in Seq(S)
  PROVE  IsPrefix(Cat(f, p), Cat(f, q))
<1> DEFINE h == [i \in 1..(q - p) |-> f[p + i]]
<1>1. q - p \in Nat /\ p + (q - p) = q
  OBVIOUS
<1>2. \A i \in 1..(q - p) : h[i] = f[p + i] /\ h[i] \in Seq(S)
  <2>1. \A i \in 1..(q - p) : p + i \in 1..q /\ h[i] = f[p + i]
    OBVIOUS
  <2> QED BY <2>1
<1> HIDE DEF h
<1>3. Cat(f, q) = Cat(f, p) \o Cat(h, q - p)
  <2>1. PICK m \in Nat : m = q - p
    BY <1>1
  <2>2. Cat(f, p + m) = Cat(f, p) \o Cat(h, m)
    <3>1. \A i \in 1..(p + m) : f[i] \in Seq(S)
      BY <1>1, <2>1
    <3>2. \A i \in 1..m : h[i] = f[p + i]
      BY <1>2, <2>1
    <3>3. Behind(h, m, f, p, S)
      BY <2>1, <3>1, <3>2 DEF Behind
    <3> QED BY <3>3, CatPlus
  <2> QED BY <1>1, <2>1, <2>2
<1>4. PICK a \in Seq(S) : a = Cat(f, p)
  <2>1. \A i \in 1..p : f[i] \in Seq(S)
    OBVIOUS
  <2> QED BY <2>1, CatType
<1>5. PICK b \in Seq(S) : b = Cat(h, q - p)
  BY <1>1, <1>2, CatType
<1>6. PICK c : c = a \o b /\ c = Cat(f, q)
  BY <1>3, <1>4, <1>5
<1>7. Len(a) \in Nat /\ Len(a) <= Len(c)
  <2>1. Len(a) \in Nat /\ Len(b) \in Nat
    BY LenProperties
  <2>2. Len(c) = Len(a) + Len(b)
    BY <1>6, ConcatProperties
  <2> QED BY <2>1, <2>2
<1>8. SubSeq(a, 1, Len(a)) = SubSeq(c, 1, Len(a))
  <2>1. CASE Len(a) = 0
    <3>1. \A s : SubSeq(s, 1, 0) = <<>>
      BY SubSeqEmpty
    <3> QED BY <2>1, <3>1
  <2>2. CASE Len(a) # 0
    <3>1. 1 \in 1..Len(a) /\ Len(a) \in 1..Len(a)
      BY <1>7, <2>2
    <3>2. a \in Seq(S) /\ b \in Seq(S)
      OBVIOUS
    <3>3. SubSeq(a \o b, 1, Len(a)) = SubSeq(a, 1, Len(a))
      BY ONLY <3>1, <3>2, SubSeqOfConcat1
    <3> QED BY <1>6, <3>3
  <2> QED BY <2>1, <2>2
<1> QED BY <1>4, <1>6, <1>7, <1>8 DEF IsPrefix

-----------------------------------------------------------------------------
(* Labels and arrays *)

Output == Characters \cup {"blank", ",", "{", "}"}

\* The text of a program's arguments.
IsText == cstring \in Seq(Characters) /\ cstring # <<>> /\ cstring[Len(cstring)] = "nul"

Nuls == {i \in DOMAIN cstring : cstring[i] = "nul"}

Separator == IF conversion = "array" THEN <<"quote", ",", "quote">> ELSE <<"blank">>

\* What is written for each character.
Pieces ==
  [i \in 1..Len(cstring) |->
     IF cstring[i] # "nul" THEN Escaped(cstring[i])
     ELSE IF i < Len(cstring) THEN Separator ELSE <<>>]

LEMMA EscapedType ==
  ASSUME NEW x \in Characters
  PROVE  /\ Escaped(x) \in Seq(Output)
         /\ Len(Escaped(x)) = IF x \in Quotes THEN 3 ELSE 1
<1>1. CASE x \in Quotes
  <2>1. Escaped(x) = <<"backslash", "backslash", "quote">>
    BY <1>1 DEF Escaped, Quotes
  <2>2. "backslash" \in Output /\ "quote" \in Output
    BY DEF Output, Characters
  <2> QED BY <1>1, <2>1, <2>2
<1>2. CASE x \notin Quotes
  <2>1. PICK y \in Output : Escaped(x) = <<y>>
    <3>1. x \in Output /\ "blank" \in Output
      BY DEF Output
    <3>2. CASE x = "high"
      <4>1. Escaped(x) = <<"blank">>
        BY <1>2, <3>2 DEF Escaped
      <4> QED BY <3>1, <4>1
    <3>3. CASE x # "high"
      <4>1. Escaped(x) = <<x>>
        BY <1>2, <3>3 DEF Escaped
      <4> QED BY <3>1, <4>1
    <3> QED BY <3>2, <3>3
  <2> QED BY <1>2, <2>1
<1> QED BY <1>1, <1>2

LEMMA TextLength == IsText => /\ Len(cstring) \in Nat /\ Len(cstring) > 0
                              /\ DOMAIN cstring = 1..Len(cstring)
                              /\ \A i \in 1..Len(cstring) : cstring[i] \in Characters
<1> SUFFICES ASSUME IsText
             PROVE  /\ Len(cstring) \in Nat /\ Len(cstring) > 0
                    /\ DOMAIN cstring = 1..Len(cstring)
                    /\ \A i \in 1..Len(cstring) : cstring[i] \in Characters
  OBVIOUS
<1>1. cstring \in Seq(Characters) /\ cstring # <<>>
  BY DEF IsText
<1>2. Len(cstring) \in Nat \ {0}
  BY ONLY <1>1, EmptySeq
<1>3. DOMAIN cstring = 1..Len(cstring) /\ \A i \in 1..Len(cstring) : cstring[i] \in Characters
  BY ONLY <1>1, LenProperties, ElementOfSeq
<1> QED BY <1>2, <1>3

LEMMA SeparatorType == Separator \in Seq(Output) /\ Len(Separator) \in {1, 3}
<1>1. CASE conversion = "array"
  BY <1>1 DEF Separator, Output, Characters
<1>2. CASE conversion # "array"
  BY <1>2 DEF Separator, Output, Characters
<1> QED BY <1>1, <1>2

LEMMA PiecesType == IsText => \A i \in 1..Len(cstring) : Pieces[i] \in Seq(Output)
<1> SUFFICES ASSUME IsText, NEW i \in 1..Len(cstring) PROVE Pieces[i] \in Seq(Output)
  OBVIOUS
<1>1. cstring[i] \in Characters
  BY TextLength
<1>2. Escaped(cstring[i]) \in Seq(Output)
  BY <1>1, EscapedType
<1>3. <<>> \in Seq(Output)
  BY EmptySeq
<1> QED BY <1>2, <1>3, SeparatorType DEF Pieces

\* The 0s of a text, the last of which ends it.
EndsAreOf(c, n) ==
  /\ c \in Nat /\ c > 0 /\ c = Len(Ends) /\ c = Cardinality(Nuls)
  /\ IsFiniteSet(Nuls) /\ Nuls \in SUBSET (1..n)
  /\ Orders(Ends, Nuls, c)
  /\ \A k \in 1..c : Ends[k] \in 1..n /\ cstring[Ends[k]] = "nul"
  /\ Ends[c] = n

LEMMA EndsAre == IsText => EndsAreOf(Len(Ends), Len(cstring))
<1> SUFFICES ASSUME IsText PROVE EndsAreOf(Len(Ends), Len(cstring))
  OBVIOUS
<1>1. PICK n \in Nat : n = Len(cstring) /\ n > 0 /\ DOMAIN cstring = 1..n
  BY TextLength
<1>2. Nuls \in SUBSET (1..n)
  BY <1>1 DEF Nuls
<1>3. Ends = InOrder(Nuls)
  BY DEF Ends, Nuls
<1>4. IsFiniteSet(Nuls) /\ Cardinality(Nuls) \in Nat /\ Orders(Ends, Nuls, Cardinality(Nuls))
  BY <1>2, <1>3, InOrderIs
<1>5. PICK c \in Nat : c = Cardinality(Nuls)
  BY <1>4
<1>6. Ends \in [1..c -> Nuls]
  BY <1>4, <1>5 DEF Orders
<1>7. Len(Ends) = c
  BY <1>6
<1>8. \A k \in 1..c : Ends[k] \in 1..n /\ cstring[Ends[k]] = "nul"
  BY <1>2, <1>6 DEF Nuls
<1>9. n \in Nuls
  BY <1>1 DEF Nuls, IsText
<1>10. PICK k \in 1..c : Ends[k] = n
  BY <1>4, <1>5, <1>9 DEF Orders
<1>11. k = c
  <2>1. CASE k < c
    <3>1. c \in 1..c
      BY <2>1
    <3>2. Ends[k] < Ends[c]
      BY <1>4, <1>5, <2>1, <3>1 DEF Orders
    <3> QED BY <1>8, <1>10, <3>1, <3>2
  <2> QED BY <2>1
<1> QED BY <1>1, <1>2, <1>4, <1>5, <1>7, <1>8, <1>10, <1>11 DEF EndsAreOf

\* What is written of an item.
LEMMA ItemRead ==
  ASSUME IsText, NEW k \in 1..Len(Ends)
  PROVE  /\ From(k) \in Nat /\ Ends[k] \in 1..Len(cstring) /\ Item(k) \in Seq(Output)
         /\ Cat(Pieces, Ends[k] - 1) = Cat(Pieces, From(k)) \o Item(k)
<1>1. PICK n \in Nat, c \in Nat : n = Len(cstring) /\ c = Len(Ends) /\ EndsAreOf(c, n) /\ k \in 1..c
  <2>1. Len(Ends) \in Nat
    BY EndsAre DEF EndsAreOf
  <2> QED BY <2>1, EndsAre, TextLength
<1>2. PICK a \in Nat : a = From(k) /\ a < Ends[k] /\ \A i \in (a + 1)..(Ends[k] - 1) : i \notin Nuls
  <2>1. CASE k = 1
    <3>1. From(k) = 0 /\ Ends[k] \in 1..n
      BY <1>1, <2>1 DEF From, EndsAreOf
    <3>2. ASSUME NEW i \in 1..(Ends[k] - 1), i \in Nuls PROVE FALSE
      <4>1. PICK j \in 1..c : Ends[j] = i
        BY <1>1, <3>2 DEF EndsAreOf, Orders
      <4>2. k < j => Ends[k] < Ends[j]
        BY <1>1 DEF EndsAreOf, Orders
      <4> QED BY <2>1, <3>1, <4>1, <4>2
    <3> QED BY <3>1, <3>2
  <2>2. CASE k # 1
    <3>1. k - 1 \in 1..c /\ k - 1 < k
      BY <1>1, <2>2
    <3>2. From(k) = Ends[k - 1] /\ Ends[k] \in 1..n /\ Ends[k - 1] \in 1..n
      BY <1>1, <2>2, <3>1 DEF From, EndsAreOf
    <3>3. Ends[k - 1] < Ends[k]
      BY <1>1, <3>1 DEF EndsAreOf, Orders
    <3>4. ASSUME NEW i \in (Ends[k - 1] + 1)..(Ends[k] - 1), i \in Nuls PROVE FALSE
      <4>1. PICK j \in 1..c : Ends[j] = i
        BY <1>1, <3>4 DEF EndsAreOf, Orders
      <4>2. k < j => Ends[k] < Ends[j]
        BY <1>1 DEF EndsAreOf, Orders
      <4>3. j < k - 1 => Ends[j] < Ends[k - 1]
        BY <1>1, <3>1 DEF EndsAreOf, Orders
      <4>4. i # Ends[k] /\ i # Ends[k - 1] /\ i < Ends[k] /\ Ends[k - 1] < i
        BY <3>2
      <4>5. j # k /\ j # k - 1 /\ ~ k < j /\ ~ j < k - 1
        BY <3>2, <4>1, <4>2, <4>3, <4>4
      <4> QED BY <1>1, <4>5
    <3> QED BY <3>2, <3>3, <3>4
  <2> QED BY <2>1, <2>2
<1>3. Ends[k] \in 1..n
  BY <1>1 DEF EndsAreOf
<1>4. PICK b \in Nat : b = Ends[k] - 1 - a
  BY <1>2, <1>3
<1> DEFINE h == [i \in 1..b |-> Escaped(cstring[a + i])]
<1>5. Item(k) = Cat(h, b)
  <2>1. h = [i \in 1..b |-> h[i]]
    OBVIOUS
  <2>2. Item(k) = FlattenSeq(h)
    BY <1>2, <1>4 DEF Item
  <2> HIDE DEF h
  <2> QED BY <2>1, <2>2 DEF Cat
<1>6. Behind(h, b, Pieces, a, Output)
  <2>1. \A i \in 1..(a + b) : Pieces[i] \in Seq(Output)
    <3>1. \A i \in 1..(a + b) : i \in 1..n
      BY <1>3, <1>4
    <3> QED BY <1>1, <3>1, PiecesType
  <2>2. ASSUME NEW i \in 1..b PROVE h[i] = Pieces[a + i]
    <3>1. a + i \in (a + 1)..(Ends[k] - 1) /\ a + i \in 1..n
      BY <1>3, <1>4
    <3>2. cstring[a + i] # "nul"
      <4>1. DOMAIN cstring = 1..n
        BY <1>1, TextLength
      <4> QED BY <1>2, <3>1, <4>1 DEF Nuls
    <3> QED BY <1>1, <3>1, <3>2 DEF Pieces
  <2> QED BY <2>1, <2>2 DEF Behind
<1> HIDE DEF h
<1>7. Cat(Pieces, a + b) = Cat(Pieces, a) \o Cat(h, b)
  BY <1>6, CatPlus
<1>8. Cat(h, b) \in Seq(Output)
  <2>1. \A i \in 1..b : h[i] \in Seq(Output)
    <3>1. \A i \in 1..b : a + i \in 1..(a + b)
      OBVIOUS
    <3> QED BY <1>6, <3>1 DEF Behind
  <2> QED BY <2>1, CatType
<1>9. a + b = Ends[k] - 1
  BY <1>3, <1>4
<1> QED BY <1>1, <1>2, <1>3, <1>5, <1>7, <1>8, <1>9

\* What goes into the joined text for each item.
Parts(separator) ==
  [k \in 1..Len(Ends) |-> IF k = 1 THEN Item(k) ELSE separator \o Item(k)]

LEMMA JoinIs ==
  ASSUME IsText, NEW m \in 0..Len(Ends), NEW separator
  PROVE  Join(m, separator) = Cat(Parts(separator), m)
<1>1. PICK c \in Nat : c = Len(Ends)
  BY EndsAre DEF EndsAreOf
<1>2. \A k \in 1..m : k \in 1..c
  BY <1>1
<1>3. [k \in 1..m |-> IF k = 1 THEN Item(k) ELSE separator \o Item(k)]
        = [k \in 1..m |-> Parts(separator)[k]]
  BY <1>1, <1>2 DEF Parts
<1> QED BY <1>3 DEF Join, Cat

\* The text up to an item's end is the items joined.
LEMMA ItemsMeet ==
  ASSUME IsText
  PROVE  \A m \in 1..Len(Ends) : Cat(Pieces, Ends[m] - 1) = Join(m, Separator)
<1>1. PICK n \in Nat, c \in Nat : n = Len(cstring) /\ c = Len(Ends) /\ EndsAreOf(c, n)
  <2>1. Len(Ends) \in Nat
    BY EndsAre DEF EndsAreOf
  <2> QED BY <2>1, EndsAre, TextLength
<1>2. \A k \in 1..c : Item(k) \in Seq(Output) /\ Ends[k] \in 1..n
  BY <1>1, ItemRead
<1> DEFINE parts == Parts(Separator)
<1>3. \A k \in 1..c : parts[k] = IF k = 1 THEN Item(k) ELSE Separator \o Item(k)
  BY <1>1 DEF Parts
<1>4. \A k \in 1..c : parts[k] \in Seq(Output)
  BY <1>2, <1>3, SeparatorType, ConcatProperties
<1>5. \A m \in 0..c : Join(m, Separator) = Cat(parts, m)
  BY <1>1, JoinIs
<1> HIDE DEF parts
<1>6. ASSUME NEW m \in Nat, m + 1 \in 1..c PROVE Cat(parts, m + 1) = Cat(parts, m) \o parts[m + 1]
  <2>1. \A i \in 1..(m + 1) : parts[i] \in Seq(Output)
    BY <1>4, <1>6
  <2> QED BY <2>1, CatNext
<1> DEFINE Meet(m) == Cat(Pieces, Ends[m] - 1) = Cat(parts, m)
           T == {m \in Nat : m \in 1..c => Meet(m)}
<1>7. 0 \in T
  OBVIOUS
<1>8. ASSUME NEW m \in Nat, m \in T PROVE m + 1 \in T
  <2> SUFFICES ASSUME m + 1 \in 1..c PROVE Cat(Pieces, Ends[m + 1] - 1) = Cat(parts, m + 1)
    OBVIOUS
  <2>1. Cat(Pieces, Ends[m + 1] - 1) = Cat(Pieces, From(m + 1)) \o Item(m + 1)
    BY <1>1, ItemRead
  <2>2. Cat(parts, m + 1) = Cat(parts, m) \o parts[m + 1]
    BY <1>6
  <2>3. CASE m = 0
    <3>1. From(m + 1) = 0 /\ parts[m + 1] = Item(m + 1)
      BY <1>3, <2>3 DEF From
    <3>2. Cat(Pieces, 0) = <<>> /\ Cat(parts, m) = <<>>
      BY <2>3, CatZero
    <3> QED BY <2>1, <2>2, <3>1, <3>2
  <2>4. CASE m # 0
    <3>1. m \in 1..c /\ (m + 1) - 1 = m /\ m + 1 # 1
      BY <2>4
    <3>2. From(m + 1) = Ends[m] /\ parts[m + 1] = Separator \o Item(m + 1)
      BY <1>3, <3>1 DEF From
    <3>3. Cat(Pieces, Ends[m] - 1) = Cat(parts, m)
      BY <1>8, <3>1
    <3>4. PICK e \in 1..n : e = Ends[m]
      BY <1>2, <3>1
    <3>5. Cat(Pieces, e) = Cat(Pieces, e - 1) \o Separator
      <4>1. e - 1 \in Nat /\ (e - 1) + 1 = e
        BY <3>4
      <4>2. \A i \in 1..((e - 1) + 1) : Pieces[i] \in Seq(Output)
        BY <1>1, <3>4, PiecesType
      <4>3. Cat(Pieces, (e - 1) + 1) = Cat(Pieces, e - 1) \o Pieces[(e - 1) + 1]
        BY ONLY <4>1, <4>2, CatNext
      <4>4. e < n
        <5>1. Ends[m] < Ends[m + 1]
          BY <1>1, <3>1 DEF EndsAreOf, Orders
        <5>2. Ends[m + 1] \in 1..n
          BY <1>2
        <5> QED BY <3>4, <5>1, <5>2
      <4>5. cstring[e] = "nul"
        BY <1>1, <3>1, <3>4 DEF EndsAreOf
      <4>6. Pieces[e] = Separator
        BY <1>1, <3>4, <4>4, <4>5 DEF Pieces
      <4> QED BY <4>1, <4>3, <4>6
    <3>6. /\ Cat(parts, m) \in Seq(Output) /\ Separator \in Seq(Output)
          /\ Item(m + 1) \in Seq(Output)
      <4>1. \A i \in 1..m : parts[i] \in Seq(Output)
        BY <1>4, <3>1
      <4>2. Cat(parts, m) \in Seq(Output)
        BY <4>1, CatType
      <4> QED BY <1>2, <4>2, SeparatorType
    <3>7. (Cat(parts, m) \o Separator) \o Item(m + 1) = Cat(parts, m) \o (Separator \o Item(m + 1))
      <4>1. \A u, v, w \in Seq(Output) : (u \o v) \o w = u \o (v \o w)
        BY ConcatAssociative
      <4> QED BY ONLY <3>6, <4>1, Zenon
    <3>8. Cat(Pieces, Ends[m]) = Cat(parts, m) \o Separator
      BY <3>3, <3>4, <3>5
    <3> QED BY <2>1, <2>2, <3>2, <3>7, <3>8
  <2> QED BY <2>3, <2>4
<1>9. Nat \subseteq T
  <2> HIDE DEF T
  <2> QED BY <1>7, <1>8, SetInduction
<1> QED BY <1>1, <1>5, <1>9

\* The whole text is all items joined.
LEMMA WholeText == IsText => Cat(Pieces, Len(cstring)) = Join(Len(Ends), Separator)
<1> SUFFICES ASSUME IsText PROVE Cat(Pieces, Len(cstring)) = Join(Len(Ends), Separator)
  OBVIOUS
<1>1. PICK n \in Nat, c \in Nat :
        n = Len(cstring) /\ n > 0 /\ c = Len(Ends) /\ EndsAreOf(c, n)
  <2>1. Len(Ends) \in Nat
    BY EndsAre DEF EndsAreOf
  <2> QED BY <2>1, EndsAre, TextLength
<1>2. Cat(Pieces, n - 1) = Join(c, Separator)
  <2>1. c \in 1..c /\ Ends[c] = n
    BY <1>1 DEF EndsAreOf
  <2> QED BY <1>1, <2>1, ItemsMeet
<1>3. Pieces[n] = <<>>
  BY <1>1 DEF Pieces, IsText
<1>4. n - 1 \in Nat /\ (n - 1) + 1 = n
  BY <1>1
<1>5. \A i \in 1..n : Pieces[i] \in Seq(Output)
  BY <1>1, PiecesType
<1>6. Cat(Pieces, (n - 1) + 1) = Cat(Pieces, n - 1) \o Pieces[(n - 1) + 1]
  <2>1. \A i \in 1..((n - 1) + 1) : Pieces[i] \in Seq(Output)
    BY <1>4, <1>5
  <2> QED BY ONLY <1>4, <2>1, CatNext
<1>7. Cat(Pieces, n - 1) \in Seq(Output)
  <2>1. \A i \in 1..(n - 1) : Pieces[i] \in Seq(Output)
    BY <1>4, <1>5
  <2> QED BY <1>4, <2>1, CatType
<1>8. Cat(Pieces, n - 1) \o <<>> = Cat(Pieces, n - 1)
  BY <1>7, ConcatEmptySeq
<1> QED BY <1>1, <1>2, <1>3, <1>4, <1>6, <1>8

\* The buffer's size is enough for all pieces, and 3 for the last 0 are to spare.
QuotesIn == {i \in DOMAIN cstring : cstring[i] \in Quotes}

LEMMA BufferHolds ==
  ASSUME IsText, NEW p \in 0..Len(cstring)
  PROVE  /\ Cat(Pieces, p) \in Seq(Output) /\ newlength \in Nat
         /\ Len(Cat(Pieces, p)) + 5 < newlength
<1>1. PICK n \in Nat : n = Len(cstring) /\ n > 0 /\ DOMAIN cstring = 1..n
  BY TextLength
<1>2. PICK cn \in Nat : cn = Cardinality(Nuls) /\ cn > 0
  BY EndsAre DEF EndsAreOf
<1>3. QuotesIn \in SUBSET (1..n) /\ Nuls \in SUBSET (1..n)
  BY <1>1 DEF QuotesIn, Nuls
<1>4. PICK cq \in Nat : cq = Cardinality(QuotesIn)
  BY <1>3, OrderExists
<1>5. newlength = 2 + n + 3 * cn + 2 * cq
  <2>1. CountOf(cstring, {"nul"}) = cn
    <3>1. {i \in DOMAIN cstring : cstring[i] \in {"nul"}} = Nuls
      BY DEF Nuls
    <3> QED BY <1>2, <3>1 DEF CountOf
  <2>2. CountOf(cstring, Quotes) = cq
    BY <1>4 DEF CountOf, QuotesIn
  <2> QED BY <1>1, <2>1, <2>2 DEF newlength
<1>6. \A i \in 1..n : Pieces[i] \in Seq(Output)
  BY <1>1, PiecesType
<1>7. ASSUME NEW q \in Nat, q + 1 \in 1..n
      PROVE  /\ Cat(Pieces, q) \in Seq(Output)
             /\ Len(Cat(Pieces, q + 1)) = Len(Cat(Pieces, q)) + Len(Pieces[q + 1])
  <2>1. Cat(Pieces, q) \in Seq(Output)
    <3>1. \A i \in 1..q : Pieces[i] \in Seq(Output)
      BY <1>6, <1>7
    <3> QED BY <3>1, CatType
  <2>2. Cat(Pieces, q + 1) = Cat(Pieces, q) \o Pieces[q + 1]
    <3>1. \A i \in 1..(q + 1) : Pieces[i] \in Seq(Output)
      BY <1>6, <1>7
    <3> QED BY <3>1, CatNext
  <2>3. Pieces[q + 1] \in Seq(Output)
    BY <1>6, <1>7
  <2>4. \A u, v \in Seq(Output) : Len(u \o v) = Len(u) + Len(v)
    BY ConcatProperties
  <2> QED BY ONLY <2>1, <2>2, <2>3, <2>4
<1> DEFINE At(q) == Len(Cat(Pieces, q)) <= q + 2 * Below(Nuls, q) + 2 * Below(QuotesIn, q)
           T == {q \in Nat : q \in 0..(n - 1) => At(q)}
<1>8. 0 \in T
  <2>1. Len(Cat(Pieces, 0)) = 0
    BY CatZero, EmptySeq
  <2> QED BY <2>1, BelowZero
<1>9. ASSUME NEW q \in Nat, q \in T PROVE q + 1 \in T
  <2> SUFFICES ASSUME q + 1 \in 0..(n - 1) PROVE At(q + 1)
    OBVIOUS
  <2>1. q \in 0..(n - 1) /\ q + 1 \in 1..n /\ q + 1 < n
    BY <1>1
  <2>2. PICK bn \in Nat, bq \in Nat : bn = Below(Nuls, q) /\ bq = Below(QuotesIn, q)
    BY BelowNext
  <2>3. Len(Cat(Pieces, q)) <= q + 2 * bn + 2 * bq
    BY <1>9, <2>1, <2>2
  <2>4. PICK l \in Nat : l = Len(Cat(Pieces, q))
    BY <1>7, <2>1, LenProperties
  <2>5. Len(Cat(Pieces, q + 1)) = l + Len(Pieces[q + 1])
    BY <1>7, <2>1, <2>4
  <2> HIDE DEF At
  <2>6. CASE cstring[q + 1] = "nul"
    <3>1. Pieces[q + 1] = Separator
      BY <1>1, <2>1, <2>6 DEF Pieces
    <3>2. q + 1 \in Nuls
      BY <1>1, <2>1, <2>6 DEF Nuls
    <3>3. q + 1 \notin QuotesIn
      BY <2>6 DEF QuotesIn, Quotes
    <3>4. Below(Nuls, q + 1) = bn + 1 /\ Below(QuotesIn, q + 1) = bq
      BY <2>2, <3>2, <3>3, BelowNext
    <3>5. PICK s \in {1, 3} : s = Len(Pieces[q + 1])
      BY <3>1, SeparatorType
    <3>6. l + s <= q + 1 + 2 * (bn + 1) + 2 * bq
      BY <2>3, <2>4
    <3> QED BY <2>5, <3>4, <3>5, <3>6 DEF At
  <2>7. CASE cstring[q + 1] # "nul"
    <3>1. Pieces[q + 1] = Escaped(cstring[q + 1]) /\ cstring[q + 1] \in Characters
      BY <1>1, <2>1, <2>7, TextLength DEF Pieces
    <3>2. q + 1 \notin Nuls
      BY <2>7 DEF Nuls
    <3>3. Below(Nuls, q + 1) = bn
      BY <2>2, <3>2, BelowNext
    <3>4. CASE cstring[q + 1] \in Quotes
      <4>1. Len(Pieces[q + 1]) = 3
        BY <3>1, <3>4, EscapedType
      <4>2. q + 1 \in QuotesIn
        BY <1>1, <2>1, <3>4 DEF QuotesIn
      <4>3. Below(QuotesIn, q + 1) = bq + 1
        BY <2>2, <4>2, BelowNext
      <4>4. l + 3 <= q + 1 + 2 * bn + 2 * (bq + 1)
        BY <2>3, <2>4
      <4> QED BY <2>5, <3>3, <4>1, <4>3, <4>4 DEF At
    <3>5. CASE cstring[q + 1] \notin Quotes
      <4>1. Len(Pieces[q + 1]) = 1
        BY <3>1, <3>5, EscapedType
      <4>2. q + 1 \notin QuotesIn
        BY <3>5 DEF QuotesIn
      <4>3. Below(QuotesIn, q + 1) = bq
        BY <2>2, <4>2, BelowNext
      <4>4. l + 1 <= q + 1 + 2 * bn + 2 * bq
        BY <2>3, <2>4
      <4> QED BY <2>5, <3>3, <4>1, <4>3, <4>4 DEF At
    <3> QED BY <3>4, <3>5
  <2> QED BY <2>6, <2>7
<1>10. Nat \subseteq T
  <2> HIDE DEF T
  <2> QED BY <1>8, <1>9, SetInduction
<1>11. n - 1 \in Nat /\ n - 1 \in 0..(n - 1) /\ (n - 1) + 1 = n
  BY <1>1
<1>12. At(n - 1)
  BY <1>10, <1>11
<1> HIDE DEF At
<1>13. Len(Cat(Pieces, n)) <= n - 3 + 2 * cn + 2 * cq
  <2>1. n \in Nuls /\ n \notin QuotesIn
    BY <1>1 DEF Nuls, QuotesIn, Quotes, IsText
  <2>2. PICK bn \in Nat, bq \in Nat : bn = Below(Nuls, n - 1) /\ bq = Below(QuotesIn, n - 1)
    BY <1>11, BelowNext
  <2>3. Below(Nuls, n) = bn + 1 /\ Below(QuotesIn, n) = bq
    BY <1>11, <2>1, <2>2, BelowNext
  <2>4. Below(Nuls, n) = cn /\ Below(QuotesIn, n) = cq
    BY <1>2, <1>3, <1>4, BelowAll
  <2>5. Pieces[n] = <<>> /\ Len(<<>>) = 0
    BY <1>1, EmptySeq DEF Pieces, IsText
  <2>6. Cat(Pieces, n - 1) \in Seq(Output) /\ Len(Cat(Pieces, n)) = Len(Cat(Pieces, n - 1)) + Len(Pieces[n])
    <3>1. (n - 1) + 1 \in 1..n
      BY <1>1
    <3> QED BY <1>7, <1>11, <3>1
  <2>7. PICK l \in Nat : l = Len(Cat(Pieces, n - 1))
    BY <2>6, LenProperties
  <2>8. l <= n - 1 + 2 * bn + 2 * bq
    BY <1>12, <2>2, <2>7 DEF At
  <2>9. Len(Cat(Pieces, n)) = l
    BY <2>5, <2>6, <2>7
  <2> QED BY <1>1, <2>2, <2>3, <2>4, <2>8, <2>9
<1>14. IsPrefix(Cat(Pieces, p), Cat(Pieces, n))
  BY <1>1, <1>6, CatPrefix
<1>15. Cat(Pieces, p) \in Seq(Output) /\ Cat(Pieces, n) \in Seq(Output)
  <2>1. \A i \in 1..p : Pieces[i] \in Seq(Output)
    BY <1>1, <1>6
  <2> QED BY <1>1, <1>6, <2>1, CatType
<1>16. Len(Cat(Pieces, p)) <= Len(Cat(Pieces, n))
  BY <1>14 DEF IsPrefix
<1>17. PICK a \in Nat, b \in Nat : a = Len(Cat(Pieces, p)) /\ b = Len(Cat(Pieces, n))
  BY <1>15, LenProperties
<1>18. a <= b /\ b <= n - 3 + 2 * cn + 2 * cq
  BY <1>13, <1>16, <1>17
<1>19. newlength \in Nat /\ a + 5 <= newlength - cn
  BY ONLY <1>5, <1>18, a \in Nat, b \in Nat, n \in Nat, cn \in Nat, cq \in Nat
<1> QED BY <1>2, <1>15, <1>17, <1>19

Opened == IF conversion = "array" THEN <<"{", "quote">> ELSE <<>>
Closed == IF conversion = "array" THEN <<"quote", "}">> ELSE <<>>

\* How many arguments are still to come: a count of 0 is never met.
Counted ==
  IF oldcursor < Len(cstring)
  THEN argc = asked - Below(Nuls, oldcursor) /\ (asked # 0 => argc > 0)
  ELSE asked # 0 => asked >= Len(Ends)

\* What has been written of the text so far.
PiecesWritten ==
  /\ oldcursor \in 0..Len(cstring)
  /\ newstring = Opened \o Cat(Pieces, oldcursor)
  /\ Len(Cat(Pieces, oldcursor)) <= MAXENVLEN + 2 - Len(Opened)

LabelWork == IsText /\ PiecesWritten /\ (conversion = "label" => Counted)

LEMMA OpenedType == /\ Opened \in Seq(Output)
                    /\ Len(Opened) = IF conversion = "array" THEN 2 ELSE 0
<1>1. CASE conversion = "array"
  <2>1. Opened = <<"{", "quote">>
    BY <1>1 DEF Opened
  <2>2. "{" \in Output /\ "quote" \in Output
    BY DEF Output, Characters
  <2>3. Opened \in Seq(Output) /\ Len(Opened) = 2
    <3>1. \A x, y \in Output : <<x, y>> \in Seq(Output) /\ Len(<<x, y>>) = 2
      OBVIOUS
    <3> QED BY ONLY <2>1, <2>2, <3>1, Zenon
  <2> QED BY <1>1, <2>3
<1>2. CASE conversion # "array"
  <2>1. Opened = <<>>
    BY <1>2 DEF Opened
  <2> QED BY <1>2, <2>1, EmptySeq
<1> QED BY <1>1, <1>2

\* The lengths of what is written.
LEMMA WrittenLength ==
  ASSUME LabelWork
  PROVE  /\ Cat(Pieces, oldcursor) \in Seq(Output) /\ Len(Cat(Pieces, oldcursor)) \in Nat
         /\ newstring \in Seq(Output)
         /\ Len(newstring) = Len(Opened) + Len(Cat(Pieces, oldcursor))
<1>1. oldcursor \in 0..Len(cstring) /\ newstring = Opened \o Cat(Pieces, oldcursor)
  BY DEF LabelWork, PiecesWritten
<1>2. Cat(Pieces, oldcursor) \in Seq(Output)
  BY <1>1, BufferHolds DEF LabelWork
<1>3. Opened \in Seq(Output)
  BY OpenedType
<1>4. \A u, v \in Seq(Output) : u \o v \in Seq(Output) /\ Len(u \o v) = Len(u) + Len(v)
  BY ConcatProperties
<1>5. Len(Cat(Pieces, oldcursor)) \in Nat
  BY <1>2, LenProperties
<1> QED BY ONLY <1>1, <1>2, <1>3, <1>4, <1>5

\* Every step of the loop but the last writes one piece.
ReadsOne ==
  /\ oldcursor < Len(cstring) /\ Len(newstring) < MAXENVLEN
  /\ oldcursor' = oldcursor + 1
  /\ newstring' = newstring \o Pieces[oldcursor + 1]
  /\ UNCHANGED <<conversion, cstring, asked, converting>>

LEMMA PieceLength == IsText => \A i \in 1..Len(cstring) : Len(Pieces[i]) \in 0..3
<1> SUFFICES ASSUME IsText, NEW i \in 1..Len(cstring) PROVE Len(Pieces[i]) \in 0..3
  OBVIOUS
<1>1. CASE cstring[i] # "nul"
  <2>1. Pieces[i] = Escaped(cstring[i]) /\ cstring[i] \in Characters
    BY <1>1, TextLength DEF Pieces
  <2>2. Len(Pieces[i]) = IF cstring[i] \in Quotes THEN 3 ELSE 1
    BY <2>1, EscapedType
  <2> QED BY <2>2
<1>2. CASE cstring[i] = "nul" /\ i < Len(cstring)
  <2>1. Pieces[i] = Separator
    BY <1>2 DEF Pieces
  <2> QED BY <2>1, SeparatorType
<1>3. CASE cstring[i] = "nul" /\ ~ i < Len(cstring)
  <2>1. Pieces[i] = <<>>
    BY <1>3 DEF Pieces
  <2> QED BY <2>1, EmptySeq
<1> QED BY <1>1, <1>2, <1>3

LEMMA ReadKeepsPieces ==
  ASSUME LabelWork, ReadsOne
  PROVE  IsText' /\ PiecesWritten' /\ Pieces' = Pieces
<1>1. PICK n \in Nat, p \in Nat : n = Len(cstring) /\ p = oldcursor /\ p < n
  <2>1. Len(cstring) \in Nat /\ DOMAIN cstring = 1..Len(cstring)
    BY TextLength DEF LabelWork
  <2>2. oldcursor \in 0..Len(cstring)
    BY DEF LabelWork, PiecesWritten
  <2>3. oldcursor < Len(cstring)
    BY DEF ReadsOne
  <2>4. oldcursor \in Nat
    BY ONLY <2>1, <2>2
  <2> QED BY ONLY <2>1, <2>3, <2>4, Zenon
<1>2. conversion' = conversion /\ cstring' = cstring
  BY DEF ReadsOne
<1>3. Pieces' = Pieces /\ Opened' = Opened /\ IsText'
  BY <1>2 DEF Pieces, Opened, IsText, LabelWork, Separator
<1>4. oldcursor' = p + 1 /\ newstring' = newstring \o Pieces[p + 1]
  BY <1>1 DEF ReadsOne
<1>5. p + 1 \in 1..n /\ \A i \in 1..(p + 1) : Pieces[i] \in Seq(Output)
  BY <1>1, PiecesType DEF LabelWork
<1>6. Cat(Pieces, p + 1) = Cat(Pieces, p) \o Pieces[p + 1]
  BY <1>5, CatNext
<1>7. /\ Opened \in Seq(Output) /\ Cat(Pieces, p) \in Seq(Output)
      /\ Pieces[p + 1] \in Seq(Output) /\ newstring = Opened \o Cat(Pieces, p)
  <2>1. p + 1 \in 1..(p + 1)
    BY <1>1
  <2> QED BY <1>1, <1>5, <2>1, OpenedType, WrittenLength DEF LabelWork, PiecesWritten
<1>8. (Opened \o Cat(Pieces, p)) \o Pieces[p + 1] = Opened \o (Cat(Pieces, p) \o Pieces[p + 1])
  <2>1. \A u, v, w \in Seq(Output) : (u \o v) \o w = u \o (v \o w)
    BY ConcatAssociative
  <2> QED BY ONLY <1>7, <2>1, Zenon
<1>9. newstring' = Opened \o Cat(Pieces, p + 1)
  BY <1>4, <1>6, <1>7, <1>8
<1>10. Len(Cat(Pieces, p + 1)) <= MAXENVLEN + 2 - Len(Opened)
  <2>1. Len(Cat(Pieces, p + 1)) = Len(Cat(Pieces, p)) + Len(Pieces[p + 1])
    <3>1. \A u, v \in Seq(Output) : Len(u \o v) = Len(u) + Len(v)
      BY ConcatProperties
    <3> QED BY ONLY <1>6, <1>7, <3>1
  <2>2. Len(newstring) = Len(Opened) + Len(Cat(Pieces, p)) /\ Len(Cat(Pieces, p)) \in Nat
    BY <1>1, WrittenLength
  <2>3. Len(Pieces[p + 1]) \in 0..3
    BY <1>1, <1>5, PieceLength DEF LabelWork
  <2>4. Len(newstring) < MAXENVLEN /\ MAXENVLEN \in Nat
    BY LabelAssumption DEF ReadsOne
  <2>5. Len(Opened) \in {0, 2}
    BY OpenedType
  <2> HIDE DEF Opened
  <2>6. PICK o \in {0, 2}, c \in Nat, s \in 0..3 :
          o = Len(Opened) /\ c = Len(Cat(Pieces, p)) /\ s = Len(Pieces[p + 1])
    BY <2>2, <2>3, <2>5
  <2>7. o + c < MAXENVLEN
    BY <2>2, <2>4, <2>6
  <2>8. c + s <= MAXENVLEN + 2 - o
    BY ONLY <2>4, <2>7, o \in {0, 2}, c \in Nat, s \in 0..3
  <2> QED BY <2>1, <2>6, <2>8
<1>11. PiecesWritten'
  <2>1. oldcursor' \in 0..Len(cstring')
    BY <1>1, <1>2, <1>4
  <2>2. Cat(Pieces, oldcursor)' = Cat(Pieces, p + 1)
    BY <1>3, <1>4 DEF Cat
  <2> QED BY <1>3, <1>9, <1>10, <2>1, <2>2 DEF PiecesWritten
<1> QED BY <1>3, <1>11

\* Which of the items is being written.
LEMMA ReadKeepsCounted ==
  ASSUME LabelWork, ReadsOne, conversion = "label", asked \in Nat,
         \/ /\ cstring[oldcursor + 1] # "nul" \/ oldcursor + 1 = Len(cstring)
            /\ argc' = argc
         \/ /\ cstring[oldcursor + 1] = "nul" /\ oldcursor + 1 < Len(cstring)
            /\ argc' = argc - 1 /\ argc' # 0
  PROVE  Counted'
<1>1. PICK n \in Nat, p \in Nat :
        n = Len(cstring) /\ p = oldcursor /\ p < n /\ DOMAIN cstring = 1..n
  <2>1. Len(cstring) \in Nat /\ DOMAIN cstring = 1..Len(cstring)
    BY TextLength DEF LabelWork
  <2>2. oldcursor \in 0..Len(cstring)
    BY DEF LabelWork, PiecesWritten
  <2>3. oldcursor < Len(cstring)
    BY DEF ReadsOne
  <2>4. oldcursor \in Nat
    BY ONLY <2>1, <2>2
  <2> QED BY ONLY <2>1, <2>3, <2>4, Zenon
<1>2. conversion' = conversion /\ cstring' = cstring /\ asked' = asked /\ oldcursor' = p + 1
  BY <1>1 DEF ReadsOne
<1>3. Nuls' = Nuls /\ Ends' = Ends
  BY <1>2 DEF Nuls, Ends, InOrder
<1>4. PICK b \in Nat : b = Below(Nuls, p)
  BY <1>1, BelowNext
<1>5. argc = asked - b /\ (asked # 0 => argc > 0)
  BY <1>1, <1>4 DEF LabelWork, Counted
<1>6. Counted' <=> IF p + 1 < n THEN argc' = asked - Below(Nuls, p + 1) /\ (asked # 0 => argc' > 0)
                   ELSE asked # 0 => asked >= Len(Ends)
  BY <1>1, <1>2, <1>3 DEF Counted, Below
<1>7. CASE p + 1 = n
  <2>1. n \in Nuls
    BY <1>1 DEF LabelWork, IsText, Nuls
  <2>2. Below(Nuls, n) = b + 1
    BY <1>1, <1>4, <1>7, <2>1, BelowNext
  <2>3. Len(Ends) = Below(Nuls, n)
    BY <1>1, EndsAre, BelowAll DEF EndsAreOf, LabelWork
  <2> QED BY <1>5, <1>6, <1>7, <2>2, <2>3
<1>8. CASE p + 1 # n /\ cstring[p + 1] # "nul"
  <2>1. p + 1 \notin Nuls
    BY <1>8 DEF Nuls
  <2>2. Below(Nuls, p + 1) = b
    BY <1>1, <1>4, <2>1, BelowNext
  <2>3. argc' = argc
    BY <1>1, <1>8
  <2> QED BY <1>1, <1>5, <1>6, <1>8, <2>2, <2>3
<1>9. CASE p + 1 # n /\ cstring[p + 1] = "nul"
  <2>1. p + 1 \in Nuls
    BY <1>1, <1>9 DEF Nuls
  <2>2. Below(Nuls, p + 1) = b + 1
    BY <1>1, <1>4, <2>1, BelowNext
  <2>3. argc' = argc - 1 /\ argc' # 0
    BY <1>1, <1>9
  <2> QED BY <1>1, <1>5, <1>6, <1>9, <2>2, <2>3
<1> QED BY <1>7, <1>8, <1>9

\* What is left out when the loop ends is left out for want of space.
LEMMA EndsCut ==
  ASSUME LabelWork, ~More, conversion \in {"label", "array"}, asked \in Nat
  PROVE  CutTo(Cat(Pieces, oldcursor), Joined, MAXENVLEN - Len(Opened))
<1>1. PICK n \in Nat, c \in Nat : n = Len(cstring) /\ c = Len(Ends) /\ EndsAreOf(c, n) /\ c > 0
  <2>1. Len(Ends) \in Nat /\ Len(Ends) > 0
    BY EndsAre DEF EndsAreOf, LabelWork
  <2> QED BY <2>1, EndsAre, TextLength DEF LabelWork
<1>2. PICK p \in 0..n : p = oldcursor
  BY <1>1 DEF LabelWork, PiecesWritten
<1>3. p < n => Len(Cat(Pieces, p)) >= MAXENVLEN - Len(Opened)
  <2>1. PICK o \in Nat, l \in Nat : o = Len(Opened) /\ l = Len(Cat(Pieces, p))
    BY <1>2, OpenedType, WrittenLength
  <2>2. Len(newstring) = o + l
    BY <1>2, <2>1, WrittenLength
  <2>3. p < n => ~ Len(newstring) < MAXENVLEN
    BY <1>1, <1>2 DEF More
  <2>4. p < n => l >= MAXENVLEN - o
    BY <2>1, <2>2, <2>3, LabelAssumption
  <2> QED BY <2>1, <2>4
<1>4. Len(Cat(Pieces, p)) <= MAXENVLEN - Len(Opened) + 2
  <2>1. Len(Cat(Pieces, p)) <= MAXENVLEN + 2 - Len(Opened)
    BY <1>2 DEF LabelWork, PiecesWritten
  <2>2. Len(Opened) \in Nat /\ MAXENVLEN \in Nat
    BY OpenedType, LabelAssumption
  <2> QED BY <2>1, <2>2
<1>5. \A i \in 1..n : Pieces[i] \in Seq(Output)
  BY <1>1, PiecesType DEF LabelWork
<1>6. Cat(Pieces, n) = Join(c, Separator)
  BY <1>1, WholeText DEF LabelWork
<1>7. PICK q \in 0..n : p <= q /\ Joined = Cat(Pieces, q) /\ (p = q \/ p < n)
  <2>1. CASE conversion = "array"
    <3>1. Joined = Join(c, Separator)
      BY <1>1, <2>1 DEF Joined, Separator
    <3> QED BY <1>2, <1>6, <3>1
  <2>2. CASE conversion = "label" /\ asked \notin 1..c
    <3>1. Joined = Join(c, Separator)
      BY <1>1, <2>2 DEF Joined, Separator
    <3> QED BY <1>2, <1>6, <3>1
  <2>3. CASE conversion = "label" /\ asked \in 1..c
    <3>1. Joined = Join(asked, Separator)
      BY <1>1, <2>3 DEF Joined, Separator
    <3>2. CASE p = n
      <4>1. asked = c
        BY <1>1, <1>2, <2>3, <3>2 DEF LabelWork, Counted
      <4> QED BY <1>6, <3>1, <3>2, <4>1
    <3>3. CASE p # n
      <4>1. Cat(Pieces, Ends[asked] - 1) = Join(asked, Separator)
        BY <1>1, <2>3, ItemsMeet DEF LabelWork
      <4>2. Ends[asked] \in 1..n
        BY <1>1, <2>3 DEF EndsAreOf
      <4>3. p < n
        BY <1>2, <3>3
      <4>4. PICK b \in Nat : b = Below(Nuls, p)
        BY BelowNext
      <4>5. argc = asked - b /\ argc > 0
        BY <1>1, <1>2, <2>3, <4>3, <4>4 DEF LabelWork, Counted
      <4>6. ~ asked <= b
        BY <4>5
      <4>7. ~ Ends[asked] <= p
        <5>1. Nuls \in SUBSET (1..n) /\ Orders(Ends, Nuls, c)
          BY <1>1 DEF EndsAreOf
        <5>2. \A k \in 1..c : Ends[k] <= p <=> k <= Below(Nuls, p)
          BY <5>1, FirstBelow
        <5> QED BY <2>3, <4>4, <4>6, <5>2
      <4>8. Ends[asked] - 1 \in 0..n /\ p <= Ends[asked] - 1
        BY <4>2, <4>7
      <4> QED BY <3>1, <4>1, <4>3, <4>8
    <3> QED BY <3>2, <3>3
  <2> QED BY <2>1, <2>2, <2>3
<1>8. IsPrefix(Cat(Pieces, p), Cat(Pieces, q))
  <2>1. \A i \in 1..q : Pieces[i] \in Seq(Output)
    BY <1>5
  <2> QED BY <1>7, <2>1, CatPrefix
<1> QED BY <1>2, <1>3, <1>4, <1>7, <1>8 DEF CutTo

\* What has been written when the last argument asked for has ended.
LEMMA StopsRight ==
  ASSUME LabelWork, conversion = "label", asked \in Nat, oldcursor < Len(cstring) - 1,
         cstring[oldcursor + 1] = "nul", argc - 1 = 0
  PROVE  CutTo(newstring, Joined, MAXENVLEN)
<1>1. PICK n \in Nat, c \in Nat : n = Len(cstring) /\ c = Len(Ends) /\ EndsAreOf(c, n) /\ c > 0
  <2>1. Len(Ends) \in Nat /\ Len(Ends) > 0
    BY EndsAre DEF EndsAreOf, LabelWork
  <2> QED BY <2>1, EndsAre, TextLength DEF LabelWork
<1>2. PICK p \in 0..n : p = oldcursor /\ p + 1 \in 1..n /\ p < n
  <2>1. oldcursor \in 0..n /\ oldcursor < n - 1
    BY <1>1 DEF LabelWork, PiecesWritten
  <2> QED BY <2>1
<1>3. PICK b \in Nat : b = Below(Nuls, p)
  BY <1>2, BelowNext
<1>4. asked = b + 1
  <2>1. argc = asked - b /\ (asked # 0 => argc > 0)
    BY <1>1, <1>2, <1>3 DEF LabelWork, Counted
  <2> QED BY <2>1
<1>5. Below(Nuls, p + 1) = b + 1
  <2>1. p + 1 \in Nuls
    <3>1. p + 1 \in DOMAIN cstring
      BY <1>1, <1>2, TextLength DEF LabelWork
    <3> QED BY <1>2, <3>1 DEF Nuls
  <2> QED BY <1>2, <1>3, <2>1, BelowNext
<1>6. Nuls \in SUBSET (1..n) /\ Orders(Ends, Nuls, c) /\ c = Cardinality(Nuls) /\ IsFiniteSet(Nuls)
  BY <1>1 DEF EndsAreOf
<1>7. b + 1 <= c
  <2>1. Nuls \cap (1..(p + 1)) \in SUBSET Nuls
    OBVIOUS
  <2>2. Below(Nuls, p + 1) <= c
    BY <1>6, <2>1, FS_Subset DEF Below
  <2> QED BY <1>5, <2>2
<1>8. asked \in 1..c
  BY <1>4, <1>7
<1>9. Ends[asked] = p + 1
  <2>1. Ends[asked] <= p <=> asked <= b
    <3>1. \A k \in 1..c : Ends[k] <= p <=> k <= Below(Nuls, p)
      BY <1>6, FirstBelow
    <3> QED BY <1>3, <1>8, <3>1
  <2>2. Ends[asked] <= p + 1 <=> asked <= b + 1
    <3>1. p + 1 \in 0..n
      BY <1>2
    <3>2. \A k \in 1..c : Ends[k] <= p + 1 <=> k <= Below(Nuls, p + 1)
      BY <1>6, <3>1, FirstBelow
    <3> QED BY <1>5, <1>8, <3>2
  <2>3. Ends[asked] \in 1..n
    BY <1>1, <1>8 DEF EndsAreOf
  <2> QED BY <1>4, <2>1, <2>2, <2>3
<1>10. Joined = Cat(Pieces, p)
  <2>1. Joined = Join(asked, Separator)
    BY <1>1, <1>8 DEF Joined, Separator
  <2>2. Cat(Pieces, Ends[asked] - 1) = Join(asked, Separator)
    BY <1>1, <1>8, ItemsMeet DEF LabelWork
  <2>3. Ends[asked] - 1 = p
    BY <1>9
  <2> QED BY <2>1, <2>2, <2>3
<1>11. newstring = Cat(Pieces, p)
  <2>1. newstring = Opened \o Cat(Pieces, p) /\ Opened = <<>>
    BY <1>2 DEF LabelWork, PiecesWritten, Opened
  <2>2. Cat(Pieces, p) \in Seq(Output)
    BY <1>2, WrittenLength
  <2>3. <<>> \o Cat(Pieces, p) = Cat(Pieces, p)
    BY <2>2, ConcatEmptySeq
  <2> QED BY <2>1, <2>3
<1>12. Len(newstring) <= MAXENVLEN + 2
  <2>1. Len(Cat(Pieces, p)) <= MAXENVLEN + 2 - Len(Opened)
    BY <1>2 DEF LabelWork, PiecesWritten
  <2>2. Len(Opened) = 0
    BY OpenedType
  <2> QED BY <1>11, <2>1, <2>2, LabelAssumption
<1>13. IsPrefix(newstring, newstring)
  <2>1. Len(newstring) \in Nat
    BY WrittenLength, LenProperties
  <2> QED BY <2>1 DEF IsPrefix
<1> QED BY <1>10, <1>11, <1>12, <1>13 DEF CutTo

-----------------------------------------------------------------------------
(* Names *)

KeptIn == {i \in DOMAIN cstring : cstring[i] \notin {"high", "nul"}}

Blanked(x) == IF x \in {"apostrophe", "backslash"} THEN "blank" ELSE x

\* The first k of the characters that are kept.
KeptOf(k) == [i \in 1..k |-> Blanked(cstring[InOrder(KeptIn)[i]])]

NameWork ==
  /\ cstring \in Seq(Characters)
  /\ oldcursor \in 0..Len(cstring)
  /\ newstring = KeptOf(Below(KeptIn, oldcursor))

\* The kept are in a name, in their order.
KeptAre(n, c) ==
  /\ n \in Nat /\ n = Len(cstring) /\ DOMAIN cstring = 1..n
  /\ c \in Nat /\ c = Cardinality(KeptIn) /\ IsFiniteSet(KeptIn) /\ KeptIn \in SUBSET (1..n)
  /\ Orders(InOrder(KeptIn), KeptIn, c)
  /\ \A k \in 0..c : KeptOf(k) \in Seq(Output) /\ Len(KeptOf(k)) = k
  /\ \A p \in 0..n : Below(KeptIn, p) \in 0..c

LEMMA KeptExist == cstring \in Seq(Characters) => KeptAre(Len(cstring), Cardinality(KeptIn))
<1> SUFFICES ASSUME cstring \in Seq(Characters) PROVE KeptAre(Len(cstring), Cardinality(KeptIn))
  OBVIOUS
<1>1. PICK n \in Nat : n = Len(cstring) /\ DOMAIN cstring = 1..n
  BY LenProperties
<1>2. KeptIn \in SUBSET (1..n)
  BY <1>1 DEF KeptIn
<1>3. /\ IsFiniteSet(KeptIn) /\ Cardinality(KeptIn) \in Nat
      /\ Orders(InOrder(KeptIn), KeptIn, Cardinality(KeptIn))
  BY <1>2, InOrderIs
<1>4. PICK c \in Nat : c = Cardinality(KeptIn)
  BY <1>3
<1>5. ASSUME NEW k \in 0..c PROVE KeptOf(k) \in Seq(Output) /\ Len(KeptOf(k)) = k
  <2>1. ASSUME NEW i \in 1..k PROVE Blanked(cstring[InOrder(KeptIn)[i]]) \in Output
    <3>1. i \in 1..c
      OBVIOUS
    <3>2. InOrder(KeptIn)[i] \in KeptIn
      BY <1>3, <1>4, <3>1 DEF Orders
    <3>3. InOrder(KeptIn)[i] \in 1..n
      BY <1>2, <3>2
    <3>4. cstring[InOrder(KeptIn)[i]] \in Characters
      BY <1>1, <3>3, ElementOfSeq
    <3> QED BY <3>4 DEF Blanked, Output
  <2>2. KeptOf(k) \in [1..k -> Output]
    BY <2>1 DEF KeptOf
  <2> QED BY <2>2
<1>6. ASSUME NEW p \in 0..n PROVE Below(KeptIn, p) \in 0..c
  <2>1. KeptIn \cap (1..p) \in SUBSET KeptIn
    OBVIOUS
  <2>2. Below(KeptIn, p) <= c
    BY <1>3, <1>4, <2>1, FS_Subset DEF Below
  <2>3. Below(KeptIn, p) \in Nat
    BY BelowNext
  <2> QED BY <2>2, <2>3
<1> QED BY <1>1, <1>2, <1>3, <1>4, <1>5, <1>6 DEF KeptAre

LEMMA EncodeKeeps ==
  ASSUME NameWork, oldcursor < Len(cstring), oldcursor' = oldcursor + 1, cstring' = cstring,
         newstring' = newstring \o Encoded(cstring[oldcursor + 1])
  PROVE  NameWork'
<1>1. PICK n \in Nat, c \in Nat : KeptAre(n, c) /\ n = Len(cstring)
  <2>1. KeptAre(Len(cstring), Cardinality(KeptIn))
    BY KeptExist DEF NameWork
  <2> QED BY <2>1 DEF KeptAre
<1>2. PICK p \in 0..n : p = oldcursor /\ p + 1 \in 1..n /\ p + 1 \in 0..n
  <2>1. oldcursor \in 0..n /\ oldcursor < n
    BY <1>1 DEF NameWork
  <2> QED BY <2>1
<1>3. KeptIn' = KeptIn
  BY DEF KeptIn
<1>4. PICK b \in 0..c : b = Below(KeptIn, p)
  BY <1>1 DEF KeptAre
<1>5. newstring = KeptOf(b) /\ KeptOf(b) \in Seq(Output) /\ Len(KeptOf(b)) = b
  BY <1>1, <1>2, <1>4 DEF NameWork, KeptAre
<1> DEFINE x == cstring[p + 1]
<1>6. newstring' = KeptOf(b) \o Encoded(x)
  BY <1>2, <1>5
<1>7. x \in Characters
  BY <1>1, <1>2, ElementOfSeq DEF NameWork
<1>8. newstring' = KeptOf(Below(KeptIn, p + 1))
  <2>1. CASE p + 1 \notin KeptIn
    <3>1. x \in {"high", "nul"}
      BY <1>1, <1>2, <2>1 DEF KeptIn, KeptAre
    <3>2. Encoded(x) = <<>>
      BY <3>1 DEF Encoded
    <3>3. KeptOf(b) \o <<>> = KeptOf(b)
      BY <1>5, ConcatEmptySeq
    <3>4. Below(KeptIn, p + 1) = b
      BY <1>2, <1>4, <2>1, BelowNext
    <3> QED BY <1>6, <3>2, <3>3, <3>4
  <2>2. CASE p + 1 \in KeptIn
    <3>1. x \notin {"high", "nul"}
      BY <2>2 DEF KeptIn
    <3>2. Encoded(x) = <<Blanked(x)>>
      <4>1. CASE x \in {"backslash", "apostrophe"}
        BY <4>1 DEF Encoded, Blanked
      <4>2. CASE x \notin {"backslash", "apostrophe"}
        BY <3>1, <4>2 DEF Encoded, Blanked
      <4> QED BY <4>1, <4>2
    <3>3. Below(KeptIn, p + 1) = b + 1
      BY <1>2, <1>4, <2>2, BelowNext
    <3>4. b + 1 \in 0..c /\ b + 1 \in 1..c
      <4>1. b + 1 \in 0..c
        BY <1>1, <1>2, <3>3 DEF KeptAre
      <4> QED BY <4>1
    <3>5. InOrder(KeptIn)[b + 1] = p + 1
      <4> DEFINE e == InOrder(KeptIn)
      <4>1. KeptIn \in SUBSET (1..n) /\ Orders(e, KeptIn, c)
        BY <1>1 DEF KeptAre
      <4>2. e[b + 1] <= p <=> b + 1 <= b
        <5>1. \A k \in 1..c : e[k] <= p <=> k <= Below(KeptIn, p)
          BY <4>1, FirstBelow
        <5> QED BY <1>4, <3>4, <5>1
      <4>3. e[b + 1] <= p + 1 <=> b + 1 <= b + 1
        <5>1. \A k \in 1..c : e[k] <= p + 1 <=> k <= Below(KeptIn, p + 1)
          BY <1>2, <4>1, FirstBelow
        <5> QED BY <3>3, <3>4, <5>1
      <4>4. e[b + 1] \in 1..n
        <5>1. e[b + 1] \in KeptIn
          BY <3>4, <4>1 DEF Orders
        <5> QED BY <4>1, <5>1
      <4> QED BY <4>2, <4>3, <4>4
    <3>6. KeptOf(b + 1) \in Seq(Output) /\ Len(KeptOf(b + 1)) = b + 1
      BY <1>1, <3>4 DEF KeptAre
    <3>7. Blanked(x) \in Output
      BY <1>7 DEF Blanked, Output
    <3>8. <<Blanked(x)>> \in Seq(Output) /\ Len(<<Blanked(x)>>) = 1 /\ <<Blanked(x)>>[1] = Blanked(x)
      BY <3>7
    <3>9. /\ KeptOf(b) \o <<Blanked(x)>> \in Seq(Output)
          /\ Len(KeptOf(b) \o <<Blanked(x)>>) = b + 1
          /\ \A i \in 1..(b + 1) : (KeptOf(b) \o <<Blanked(x)>>)[i]
                                     = IF i <= b THEN KeptOf(b)[i] ELSE <<Blanked(x)>>[i - b]
      <4>1. \A u, v \in Seq(Output) :
              /\ u \o v \in Seq(Output) /\ Len(u \o v) = Len(u) + Len(v)
              /\ \A i \in 1..(Len(u) + Len(v)) :
                   (u \o v)[i] = IF i <= Len(u) THEN u[i] ELSE v[i - Len(u)]
        BY ConcatProperties
      <4>2. PICK u \in Seq(Output), v \in Seq(Output) : u = KeptOf(b) /\ v = <<Blanked(x)>>
        BY <1>5, <3>8
      <4>3. Len(u) = b /\ Len(v) = 1
        BY <1>5, <3>8, <4>2
      <4>4. /\ u \o v \in Seq(Output) /\ Len(u \o v) = b + 1
            /\ \A i \in 1..(b + 1) : (u \o v)[i] = IF i <= b THEN u[i] ELSE v[i - b]
        BY ONLY <4>1, <4>3, u \in Seq(Output), v \in Seq(Output)
      <4> QED BY <4>2, <4>4
    <3>10. ASSUME NEW i \in 1..(b + 1)
           PROVE  (KeptOf(b) \o <<Blanked(x)>>)[i] = KeptOf(b + 1)[i]
      <4>1. KeptOf(b + 1)[i] = Blanked(cstring[InOrder(KeptIn)[i]])
        BY DEF KeptOf
      <4>2. CASE i <= b
        <5>1. i \in 1..b
          BY <4>2
        <5>2. KeptOf(b)[i] = Blanked(cstring[InOrder(KeptIn)[i]])
          BY <5>1 DEF KeptOf
        <5> QED BY <3>9, <4>1, <4>2, <5>2
      <4>3. CASE ~ i <= b
        <5>1. i = b + 1 /\ i - b = 1
          BY <4>3
        <5>2. (KeptOf(b) \o <<Blanked(x)>>)[i] = Blanked(x)
          BY <3>8, <3>9, <4>3, <5>1
        <5> QED BY <3>5, <4>1, <5>1, <5>2
      <4> QED BY <4>2, <4>3
    <3>11. KeptOf(b) \o <<Blanked(x)>> = KeptOf(b + 1)
      <4>1. PICK s \in Seq(Output), t \in Seq(Output) :
              s = KeptOf(b) \o <<Blanked(x)>> /\ t = KeptOf(b + 1)
        BY <3>6, <3>9
      <4>2. Len(s) = b + 1 /\ Len(t) = b + 1 /\ \A i \in 1..(b + 1) : s[i] = t[i]
        BY <3>6, <3>9, <3>10, <4>1
      <4>3. s = t
        BY ONLY <4>2, s \in Seq(Output), t \in Seq(Output), SeqEqual
      <4> QED BY <4>1, <4>3
    <3> QED BY <1>6, <3>2, <3>3, <3>11
  <2> QED BY <2>1, <2>2
<1>9. oldcursor' = p + 1 /\ oldcursor' \in 0..Len(cstring')
  BY <1>1, <1>2
<1>10. newstring' = [i \in 1..Below(KeptIn', oldcursor') |-> Blanked(cstring'[InOrder(KeptIn')[i]])]
  BY <1>3, <1>8, <1>9 DEF KeptOf
<1>11. cstring' \in Seq(Characters)
  BY DEF NameWork
<1> QED BY <1>9, <1>10, <1>11 DEF NameWork, KeptOf

-----------------------------------------------------------------------------
(* The conversions *)

ConvInv ==
  /\ conversion \in {"label", "array", "utf8"} /\ asked \in Nat /\ converting \in BOOLEAN
  /\ converting => IF conversion = "utf8" THEN NameWork ELSE LabelWork
  /\ ~converting => ConvertedAsMeant

\* Nothing is ever written past the buffer.
LEMMA WorkFits == ConvInv => ConvertedAsMeant
<1> SUFFICES ASSUME ConvInv, converting PROVE ConvertedAsMeant
  BY DEF ConvInv
<1>1. CASE conversion = "utf8"
  <2>1. NameWork
    BY <1>1 DEF ConvInv
  <2>2. PICK n \in Nat, c \in Nat : KeptAre(n, c) /\ n = Len(cstring)
    <3>1. KeptAre(Len(cstring), Cardinality(KeptIn))
      BY <2>1, KeptExist DEF NameWork
    <3> QED BY <3>1 DEF KeptAre
  <2>3. c <= n
    <3>1. IsFiniteSet(1..n) /\ Cardinality(1..n) = n
      <4>1. 1 \in Int /\ n \in Int
        OBVIOUS
      <4>2. IsFiniteSet(1..n) /\ Cardinality(1..n) = IF 1 > n THEN 0 ELSE n - 1 + 1
        BY ONLY <4>1, FS_Interval
      <4> QED BY <4>2
    <3>2. KeptIn \in SUBSET (1..n) /\ c = Cardinality(KeptIn)
      BY <2>2 DEF KeptAre
    <3> QED BY <3>1, <3>2, FS_Subset
  <2>4. Len(newstring) \in 0..c
    <3>1. oldcursor \in 0..n /\ newstring = KeptOf(Below(KeptIn, oldcursor))
      BY <2>1, <2>2 DEF NameWork
    <3>2. PICK b \in 0..c : b = Below(KeptIn, oldcursor)
      BY <2>2, <3>1 DEF KeptAre
    <3>3. Len(KeptOf(b)) = b
      BY <2>2, <3>2 DEF KeptAre
    <3> QED BY <3>1, <3>2, <3>3
  <2>5. NameLength = n + 1
    BY <2>2 DEF NameLength
  <2> QED BY <1>1, <2>3, <2>4, <2>5 DEF ConvertedAsMeant
<1>2. CASE conversion # "utf8"
  <2>1. LabelWork
    BY <1>2 DEF ConvInv
  <2>2. oldcursor \in 0..Len(cstring) /\ IsText
    BY <2>1 DEF LabelWork, PiecesWritten
  <2>3. newlength \in Nat /\ Len(Cat(Pieces, oldcursor)) + 5 < newlength
    BY <2>2, BufferHolds
  <2>4. /\ Len(Cat(Pieces, oldcursor)) \in Nat
        /\ Len(newstring) = Len(Opened) + Len(Cat(Pieces, oldcursor))
    BY <2>1, WrittenLength
  <2>5. Len(Opened) \in {0, 2}
    BY OpenedType
  <2>6. Len(newstring) < newlength
    <3>1. PICK o \in {0, 2}, l \in Nat, m \in Nat :
            o = Len(Opened) /\ l = Len(Cat(Pieces, oldcursor)) /\ m = newlength
      BY <2>3, <2>4, <2>5
    <3>2. Len(newstring) = o + l /\ l + 5 < m
      BY <2>3, <2>4, <3>1
    <3>3. o + l < m
      BY ONLY <3>2, o \in {0, 2}, l \in Nat, m \in Nat
    <3> QED BY ONLY <3>1, <3>2, <3>3, Zenon
  <2> QED BY <1>2, <2>6 DEF ConvertedAsMeant
<1> QED BY <1>1, <1>2

LEMMA MeaningStays ==
  ASSUME UNCHANGED <<conversion, cstring, asked>>
  PROVE  Joined' = Joined /\ newlength' = newlength /\ NameLength' = NameLength
<1>1. conversion' = conversion /\ cstring' = cstring /\ asked' = asked
  OBVIOUS
<1>2. Ends' = Ends
  BY <1>1 DEF Ends
<1>3. \A k : From(k)' = From(k)
  BY <1>2 DEF From
<1>4. \A k : Item(k)' = Item(k)
  BY <1>1, <1>2, <1>3 DEF Item
<1>5. \A n, s : Join(n, s)' = Join(n, s)
  BY <1>4 DEF Join
<1>6. Joined' = Joined
  BY <1>1, <1>2, <1>5 DEF Joined
<1> QED BY <1>1, <1>6 DEF newlength, NameLength

\* A step that reads on.
LEMMA ReadKeepsInv ==
  ASSUME ConvInv, converting, conversion # "utf8", ReadsOne,
         \/ /\ cstring[oldcursor + 1] # "nul" \/ oldcursor + 1 = Len(cstring)
            /\ argc' = argc
         \/ /\ cstring[oldcursor + 1] = "nul" /\ oldcursor + 1 < Len(cstring)
            /\ conversion = "label" => argc' = argc - 1 /\ argc' # 0
  PROVE  ConvInv'
<1>1. LabelWork /\ asked \in Nat
  BY DEF ConvInv
<1>2. UNCHANGED <<conversion, cstring, asked, converting>>
  BY DEF ReadsOne
<1>3. IsText' /\ PiecesWritten'
  BY <1>1, ReadKeepsPieces
<1>4. conversion = "label" => Counted'
  <2> SUFFICES ASSUME conversion = "label" PROVE Counted'
    OBVIOUS
  <2> QED BY <1>1, ReadKeepsCounted
<1>5. LabelWork'
  BY <1>2, <1>3, <1>4 DEF LabelWork
<1> QED BY <1>2, <1>5 DEF ConvInv

LEMMA CharRead ==
  ASSUME LabelWork, oldcursor < Len(cstring)
  PROVE  /\ oldcursor + 1 \in 1..Len(cstring) /\ newstring \in Seq(Output)
         /\ newstring \o <<>> = newstring
<1>1. Len(cstring) \in Nat /\ oldcursor \in 0..Len(cstring)
  BY TextLength DEF LabelWork, PiecesWritten
<1>2. oldcursor + 1 \in 1..Len(cstring)
  BY ONLY <1>1, oldcursor < Len(cstring)
<1>3. newstring \in Seq(Output)
  BY WrittenLength
<1> QED BY <1>2, <1>3, ConcatEmptySeq

LEMMA CopyCharKeeps == ConvInv /\ CopyChar => ConvInv'
<1> SUFFICES ASSUME ConvInv, CopyChar PROVE ConvInv'
  OBVIOUS
<1>1. converting /\ conversion # "utf8" /\ LabelWork /\ cstring[oldcursor + 1] # "nul"
  BY DEF CopyChar, ConvInv, Char
<1>2. oldcursor < Len(cstring) /\ Len(newstring) < MAXENVLEN
  BY <1>1 DEF CopyChar, More
<1>3. oldcursor + 1 \in 1..Len(cstring)
  BY <1>1, <1>2, CharRead
<1>4. Pieces[oldcursor + 1] = Escaped(cstring[oldcursor + 1])
  BY <1>1, <1>3 DEF Pieces
<1>5. ReadsOne
  BY <1>2, <1>4 DEF CopyChar, ReadsOne, Char
<1>6. argc' = argc
  BY DEF CopyChar
<1> QED BY <1>1, <1>5, <1>6, ReadKeepsInv

LEMMA LastNulKeeps == ConvInv /\ LastNul => ConvInv'
<1> SUFFICES ASSUME ConvInv, LastNul PROVE ConvInv'
  OBVIOUS
<1>1. converting /\ conversion # "utf8" /\ LabelWork /\ cstring[oldcursor + 1] = "nul"
  BY DEF LastNul, ConvInv, Char
<1>2. oldcursor < Len(cstring) /\ Len(newstring) < MAXENVLEN
  BY <1>1 DEF LastNul, More
<1>3. oldcursor + 1 \in 1..Len(cstring) /\ newstring \o <<>> = newstring
  BY <1>1, <1>2, CharRead
<1>4. oldcursor + 1 = Len(cstring)
  <2>1. oldcursor = Len(cstring) - 1 /\ Len(cstring) \in Nat
    BY <1>1, TextLength DEF LastNul, LabelWork
  <2> QED BY ONLY <2>1
<1>5. Pieces[oldcursor + 1] = <<>>
  <2>1. ~ oldcursor + 1 < Len(cstring)
    <3>1. Len(cstring) \in Nat
      BY <1>1, TextLength DEF LabelWork
    <3> QED BY ONLY <1>4, <3>1
  <2> QED BY <1>1, <1>3, <2>1 DEF Pieces
<1>6. ReadsOne
  BY <1>2, <1>3, <1>5 DEF LastNul, ReadsOne
<1>7. argc' = argc
  BY DEF LastNul
<1> QED BY <1>1, <1>4, <1>6, <1>7, ReadKeepsInv

LEMMA PgItemKeeps == ConvInv /\ PgItem => ConvInv'
<1> SUFFICES ASSUME ConvInv, PgItem PROVE ConvInv'
  OBVIOUS
<1>1. converting /\ conversion = "array" /\ LabelWork /\ cstring[oldcursor + 1] = "nul"
  BY DEF PgItem, ConvInv, Char
<1>2. oldcursor < Len(cstring) /\ Len(newstring) < MAXENVLEN
  BY <1>1 DEF PgItem, More
<1>3. oldcursor + 1 \in 1..Len(cstring)
  BY <1>1, <1>2, CharRead
<1>4. oldcursor + 1 < Len(cstring)
  <2>1. Len(cstring) \in Nat /\ oldcursor \in 0..Len(cstring)
    BY <1>1, TextLength DEF LabelWork, PiecesWritten
  <2>2. oldcursor < Len(cstring) - 1
    BY DEF PgItem
  <2> QED BY ONLY <2>1, <2>2
<1>5. Pieces[oldcursor + 1] = <<"quote", ",", "quote">>
  BY <1>1, <1>3, <1>4 DEF Pieces, Separator
<1>6. ReadsOne
  BY <1>2, <1>5 DEF PgItem, ReadsOne
<1> QED BY <1>1, <1>4, <1>6, ReadKeepsInv

LEMMA NextItemKeeps == ConvInv /\ NextItem => ConvInv'
<1> SUFFICES ASSUME ConvInv, NextItem PROVE ConvInv'
  OBVIOUS
<1>1. /\ converting /\ conversion = "label" /\ LabelWork /\ cstring[oldcursor + 1] = "nul"
      /\ asked \in Nat /\ argc' = argc - 1 /\ oldcursor < Len(cstring) - 1
      /\ conversion' = conversion /\ cstring' = cstring /\ asked' = asked
  BY DEF NextItem, ConvInv, Char
<1>2. oldcursor < Len(cstring) /\ Len(newstring) < MAXENVLEN
  BY <1>1 DEF NextItem, More
<1>3. CASE argc' = 0 /\ converting' = FALSE /\ UNCHANGED <<newstring, oldcursor>>
  <2>1. CutTo(newstring, Joined, MAXENVLEN)
    BY <1>1, <1>3, StopsRight
  <2>2. Joined' = Joined /\ newlength' = newlength
    BY <1>1, MeaningStays
  <2>3. Len(newstring) < newlength
    BY <1>1, WorkFits DEF ConvertedAsMeant
  <2>4. ConvertedAsMeant'
    BY <1>1, <1>3, <2>1, <2>2, <2>3 DEF ConvertedAsMeant
  <2> QED BY <1>1, <1>3, <2>4 DEF ConvInv
<1>4. CASE argc' # 0 /\ newstring' = Append(newstring, "blank") /\ oldcursor' = oldcursor + 1
           /\ converting' = converting
  <2>1. oldcursor + 1 \in 1..Len(cstring) /\ newstring \in Seq(Output)
    BY <1>1, <1>2, CharRead
  <2>2. oldcursor + 1 < Len(cstring)
    <3>1. Len(cstring) \in Nat /\ oldcursor \in 0..Len(cstring)
      BY <1>1, TextLength DEF LabelWork, PiecesWritten
    <3>2. oldcursor < Len(cstring) - 1
      BY <1>1
    <3> QED BY ONLY <3>1, <3>2
  <2>3. Pieces[oldcursor + 1] = <<"blank">>
    BY <1>1, <2>1, <2>2 DEF Pieces, Separator
  <2>4. newstring' = newstring \o <<"blank">>
    <3>1. "blank" \in Output
      BY DEF Output
    <3>2. \A s \in Seq(Output), x \in Output : Append(s, x) = s \o <<x>>
      BY AppendIsConcat
    <3> QED BY <1>4, <2>1, <3>1, <3>2
  <2>5. ReadsOne
    BY <1>1, <1>2, <1>4, <2>3, <2>4 DEF ReadsOne
  <2> QED BY <1>1, <1>4, <2>2, <2>5, ReadKeepsInv
<1> QED BY <1>3, <1>4 DEF NextItem

LEMMA EncodeKeepsInv == ConvInv /\ Encode => ConvInv'
<1> SUFFICES ASSUME ConvInv, Encode PROVE ConvInv'
  OBVIOUS
<1>1. converting /\ conversion = "utf8" /\ NameWork
  BY DEF Encode, ConvInv
<1>2. /\ oldcursor < Len(cstring) /\ oldcursor' = oldcursor + 1 /\ cstring' = cstring
      /\ newstring' = newstring \o Encoded(cstring[oldcursor + 1])
      /\ UNCHANGED <<conversion, asked, converting>>
  BY DEF Encode, More, Char
<1>3. NameWork'
  BY <1>1, <1>2, EncodeKeeps
<1> QED BY <1>1, <1>2, <1>3 DEF ConvInv

LEMMA ReturnKeeps == ConvInv /\ Return => ConvInv'
<1> SUFFICES ASSUME ConvInv, Return PROVE ConvInv'
  OBVIOUS
<1>1. /\ converting /\ ~More /\ converting' = FALSE /\ newstring' = newstring \o Closed
      /\ conversion' = conversion /\ cstring' = cstring /\ asked' = asked
      /\ asked \in Nat /\ conversion \in {"label", "array", "utf8"}
  BY DEF Return, ConvInv, Closed
<1>2. Joined' = Joined /\ newlength' = newlength /\ NameLength' = NameLength
  BY <1>1, MeaningStays
<1>3. ConvertedAsMeant
  BY WorkFits
<1>4. CASE conversion = "label"
  <2>1. LabelWork
    BY <1>1, <1>4 DEF ConvInv
  <2>2. newstring \in Seq(Output) /\ Cat(Pieces, oldcursor) \in Seq(Output)
    BY <2>1, WrittenLength
  <2>3. newstring = Cat(Pieces, oldcursor)
    <3>1. newstring = <<>> \o Cat(Pieces, oldcursor)
      BY <1>4, <2>1 DEF LabelWork, PiecesWritten, Opened
    <3> QED BY <2>2, <3>1, ConcatEmptySeq
  <2>4. newstring' = newstring
    <3>1. newstring' = newstring \o <<>>
      BY <1>1, <1>4 DEF Closed
    <3> QED BY <2>2, <3>1, ConcatEmptySeq
  <2>5. MAXENVLEN - Len(Opened) = MAXENVLEN
    <3>1. Len(Opened) = 0
      BY <1>4, OpenedType
    <3> QED BY <3>1, LabelAssumption
  <2>6. CutTo(newstring, Joined, MAXENVLEN)
    BY <1>1, <1>4, <2>1, <2>3, <2>5, EndsCut
  <2>7. Len(newstring) < newlength
    BY <1>3, <1>4 DEF ConvertedAsMeant
  <2>8. ConvertedAsMeant'
    BY <1>1, <1>2, <1>4, <2>4, <2>6, <2>7 DEF ConvertedAsMeant
  <2> QED BY <1>1, <2>8 DEF ConvInv
<1>5. CASE conversion = "array"
  <2>1. LabelWork
    BY <1>1, <1>5 DEF ConvInv
  <2>2. PICK body \in Seq(Output) : body = Cat(Pieces, oldcursor)
    BY <2>1, WrittenLength
  <2>3. PICK o \in Seq(Output), d \in Seq(Output) :
          /\ o = Opened /\ d = Closed /\ Len(o) = 2 /\ Len(d) = 2
          /\ o = <<"{", "quote">> /\ d = <<"quote", "}">>
    <3>1. Opened \in Seq(Output) /\ Len(Opened) = 2 /\ Opened = <<"{", "quote">>
      BY <1>5, OpenedType DEF Opened
    <3>2. Closed = <<"quote", "}">>
      BY <1>5 DEF Closed
    <3>3. Closed \in Seq(Output) /\ Len(Closed) = 2
      <4>1. \A x, y \in Output : <<x, y>> \in Seq(Output) /\ Len(<<x, y>>) = 2
        OBVIOUS
      <4>2. "quote" \in Output /\ "}" \in Output
        BY DEF Output, Characters
      <4> QED BY ONLY <3>2, <4>1, <4>2, Zenon
    <3> QED BY <3>1, <3>2, <3>3
  <2>4. newstring' = (o \o body) \o d
    <3>1. newstring = o \o body
      BY <2>1, <2>2, <2>3 DEF LabelWork, PiecesWritten
    <3> QED BY <1>1, <2>3, <3>1
  <2>5. PICK l \in Nat : l = Len(body)
    BY LenProperties
  <2>6. /\ o \o body \in Seq(Output) /\ Len(o \o body) = 2 + l
        /\ \A i \in 1..(2 + l) : (o \o body)[i] = IF i <= 2 THEN o[i] ELSE body[i - 2]
    BY ONLY <2>3, <2>5, body \in Seq(Output), o \in Seq(Output), ConcatProperties
  <2>7. PICK ob \in Seq(Output) :
          /\ ob = o \o body /\ Len(ob) = 2 + l
          /\ \A i \in 1..(2 + l) : ob[i] = IF i <= 2 THEN o[i] ELSE body[i - 2]
    BY <2>6
  <2>8. /\ ob \o d \in Seq(Output) /\ Len(ob \o d) = 4 + l
        /\ \A i \in 1..(4 + l) : (ob \o d)[i] = IF i <= 2 + l THEN ob[i] ELSE d[i - (2 + l)]
    <3>1. \A u, v \in Seq(Output) :
            /\ u \o v \in Seq(Output) /\ Len(u \o v) = Len(u) + Len(v)
            /\ \A i \in 1..(Len(u) + Len(v)) :
                 (u \o v)[i] = IF i <= Len(u) THEN u[i] ELSE v[i - Len(u)]
      BY ConcatProperties
    <3>2. Len(ob) = 2 + l /\ Len(d) = 2
      BY <2>3, <2>7, Zenon
    <3>3. PICK t \in Nat, m \in Nat : t = 2 + l /\ m = 4 + l /\ t + 2 = m
      OBVIOUS
    <3>4. /\ ob \o d \in Seq(Output) /\ Len(ob \o d) = t + 2
          /\ \A i \in 1..(t + 2) : (ob \o d)[i] = IF i <= t THEN ob[i] ELSE d[i - t]
      <4>1. Len(ob) = t
        BY <3>2, <3>3
      <4>2. Len(d) = 2
        BY <3>2
      <4>3. /\ ob \o d \in Seq(Output) /\ Len(ob \o d) = Len(ob) + Len(d)
            /\ \A i \in 1..(Len(ob) + Len(d)) :
                 (ob \o d)[i] = IF i <= Len(ob) THEN ob[i] ELSE d[i - Len(ob)]
        BY ONLY <3>1, ob \in Seq(Output), d \in Seq(Output), Zenon
      <4> QED BY ONLY <4>1, <4>2, <4>3
    <3> QED BY <3>3, <3>4
  <2>9. PICK all \in Seq(Output) :
          /\ all = newstring' /\ Len(all) = 4 + l
          /\ \A i \in 1..(4 + l) : all[i] = IF i <= 2 + l THEN ob[i] ELSE d[i - (2 + l)]
    BY <2>4, <2>7, <2>8
  <2>10. SubSeq(all, 3, Len(all) - 2) = body
    <3>1. \A i \in 3..(2 + l) : all[i] \in Output /\ all[i] = body[i - 2]
      <4>1. ASSUME NEW i \in 3..(2 + l) PROVE all[i] = body[i - 2] /\ i - 2 \in 1..l
        <5>1. i \in 1..(4 + l) /\ i \in 1..(2 + l) /\ i <= 2 + l /\ ~ i <= 2 /\ i - 2 \in 1..l
          OBVIOUS
        <5>2. all[i] = ob[i]
          BY <2>9, <5>1
        <5>3. ob[i] = body[i - 2]
          BY <2>7, <5>1
        <5> QED BY <5>1, <5>2, <5>3
      <4>2. \A j \in 1..l : body[j] \in Output
        BY <2>5, ElementOfSeq
      <4> QED BY <4>1, <4>2
    <3>2. PICK s : s = SubSeq(all, 3, 2 + l)
      OBVIOUS
    <3>3. /\ s \in Seq(Output) /\ Len(s) = IF 3 <= 2 + l THEN (2 + l) - 3 + 1 ELSE 0
          /\ \A i \in 1..((2 + l) - 3 + 1) : s[i] = all[3 + i - 1]
      <4>1. 3 \in Int /\ 2 + l \in Int /\ \A i \in 3..(2 + l) : all[i] \in Output
        BY <3>1
      <4>2. /\ SubSeq(all, 3, 2 + l) \in Seq(Output)
            /\ Len(SubSeq(all, 3, 2 + l)) = IF 3 <= 2 + l THEN (2 + l) - 3 + 1 ELSE 0
            /\ \A i \in 1..((2 + l) - 3 + 1) : SubSeq(all, 3, 2 + l)[i] = all[3 + i - 1]
        BY ONLY <4>1, SubSeqProperties
      <4> QED BY <3>2, <4>2
    <3>4. Len(s) = l
      BY <3>3
    <3>5. ASSUME NEW i \in 1..l PROVE s[i] = body[i]
      <4>1. i \in 1..((2 + l) - 3 + 1) /\ 3 + i - 1 \in 3..(2 + l) /\ (3 + i - 1) - 2 = i
        OBVIOUS
      <4> QED BY <3>1, <3>3, <4>1
    <3>6. s = body
      BY ONLY <2>5, <3>3, <3>4, <3>5, body \in Seq(Output), SeqEqual
    <3>7. Len(all) - 2 = 2 + l
      BY <2>9
    <3> QED BY <3>2, <3>6, <3>7
  <2>11. newstring' = <<"{", "quote">> \o body \o <<"quote", "}">>
    BY <2>3, <2>4
  <2>12. CutTo(body, Joined, MAXENVLEN - 2)
    <3>1. Len(Opened) = 2
      BY <1>5, OpenedType
    <3> QED BY <1>1, <1>5, <2>1, <2>2, <3>1, EndsCut
  <2>13. Len(newstring') < newlength
    <3>1. newlength \in Nat /\ l + 5 < newlength
      <4>1. oldcursor \in 0..Len(cstring) /\ IsText
        BY <2>1 DEF LabelWork, PiecesWritten
      <4> QED BY <2>2, <2>5, <4>1, BufferHolds
    <3>2. Len(newstring') = 4 + l
      BY <2>9
    <3> QED BY ONLY <3>1, <3>2, l \in Nat
  <2>14. ConvertedAsMeant'
    <3>1. SubSeq(newstring', 3, Len(newstring') - 2) = body
      BY <2>9, <2>10
    <3> QED BY <1>1, <1>2, <1>5, <2>11, <2>12, <2>13, <3>1 DEF ConvertedAsMeant
  <2> QED BY <1>1, <2>14 DEF ConvInv
<1>6. CASE conversion = "utf8"
  <2>1. NameWork
    BY <1>1, <1>6 DEF ConvInv
  <2>2. PICK n \in Nat, c \in Nat : KeptAre(n, c) /\ n = Len(cstring)
    <3>1. KeptAre(Len(cstring), Cardinality(KeptIn))
      BY <2>1, KeptExist DEF NameWork
    <3> QED BY <3>1 DEF KeptAre
  <2>3. oldcursor = n
    <3>1. oldcursor \in 0..n
      BY <2>1, <2>2 DEF NameWork
    <3>2. ~ oldcursor < n
      BY <1>1, <1>6, <2>2 DEF More
    <3> QED BY <3>1, <3>2
  <2>4. newstring = KeptOf(c)
    <3>1. Below(KeptIn, n) = c
      BY <2>2, BelowAll DEF KeptAre
    <3> QED BY <2>1, <2>3, <3>1 DEF NameWork
  <2>5. newstring' = newstring
    <3>1. newstring \in Seq(Output)
      BY <2>2, <2>4 DEF KeptAre
    <3>2. newstring' = newstring \o <<>>
      BY <1>1, <1>6 DEF Closed
    <3> QED BY <3>1, <3>2, ConcatEmptySeq
  <2>6. DOMAIN InOrder(KeptIn) = 1..c
    BY <2>2 DEF KeptAre, Orders
  <2>7. newstring = [k \in DOMAIN InOrder(KeptIn) |-> Blanked(cstring[InOrder(KeptIn)[k]])]
    BY <2>4, <2>6 DEF KeptOf
  <2>8. Len(newstring) < NameLength
    BY <1>3, <1>6 DEF ConvertedAsMeant
  <2>9. KeptIn' = KeptIn
    BY <1>1 DEF KeptIn
  <2>10. newstring' = [k \in DOMAIN InOrder(KeptIn') |-> Blanked(cstring'[InOrder(KeptIn')[k]])]
    BY <1>1, <2>5, <2>7, <2>9
  <2>11. Len(newstring') < NameLength'
    BY <1>2, <2>5, <2>8
  <2>12. ConvertedAsMeant'
    BY <1>1, <1>6, <2>10, <2>11 DEF ConvertedAsMeant, KeptIn, Blanked
  <2> QED BY <1>1, <2>12 DEF ConvInv
<1> QED BY <1>1, <1>4, <1>5, <1>6

LEMMA InitConvInv ==
  ASSUME NEW c \in {"label", "array", "utf8"}, NEW text, NEW n \in Nat, LabelInit(c, text, n),
         text \in Seq(Characters), c # "utf8" => text # <<>> /\ text[Len(text)] = "nul"
  PROVE  ConvInv
<1>1. /\ conversion = c /\ cstring = text /\ asked = n /\ argc = n /\ oldcursor = 0
      /\ newstring = Opened /\ converting = TRUE
  BY Zenon DEF LabelInit, Opened
<1>2. CASE c = "utf8"
  <2>1. Len(cstring) \in Nat
    BY <1>1, LenProperties
  <2>2. KeptOf(0) = <<>>
    BY DEF KeptOf
  <2>3. NameWork
    <3>1. newstring = <<>>
      BY <1>1, <1>2 DEF Opened
    <3>2. Below(KeptIn, oldcursor) = 0 /\ oldcursor \in 0..Len(cstring)
      BY <1>1, <2>1, BelowZero
    <3>3. cstring \in Seq(Characters)
      BY <1>1
    <3> QED BY ONLY <2>2, <3>1, <3>2, <3>3 DEF NameWork
  <2> QED BY <1>1, <1>2, <2>3 DEF ConvInv
<1>3. CASE c # "utf8"
  <2>1. IsText
    BY <1>1, <1>3 DEF IsText
  <2>2. Cat(Pieces, 0) = <<>> /\ Len(<<>>) = 0
    BY CatZero, EmptySeq
  <2>3. newstring = Opened \o <<>>
    BY <1>1, OpenedType, ConcatEmptySeq
  <2>4. 0 <= MAXENVLEN + 2 - Len(Opened)
    <3>1. PICK o \in {0, 2}, m \in Nat : o = Len(Opened) /\ m = MAXENVLEN
      BY OpenedType, LabelAssumption
    <3>2. 0 <= m + 2 - o
      BY ONLY o \in {0, 2}, m \in Nat
    <3> QED BY ONLY <3>1, <3>2, Zenon
  <2>5. Len(cstring) \in Nat /\ Len(cstring) > 0
    BY <2>1, TextLength
  <2>6. PiecesWritten
    <3>1. oldcursor \in 0..Len(cstring) /\ Cat(Pieces, oldcursor) = <<>>
      BY <1>1, <2>2, <2>5
    <3>2. newstring = Opened \o Cat(Pieces, oldcursor)
      BY <2>3, <3>1
    <3>3. Len(Cat(Pieces, oldcursor)) = 0
      BY <2>2, <3>1
    <3> QED BY <2>4, <3>1, <3>2, <3>3 DEF PiecesWritten
  <2>7. Counted
    <3>1. Below(Nuls, oldcursor) = 0 /\ oldcursor < Len(cstring)
      BY <1>1, <2>5, BelowZero
    <3>2. argc = asked - 0 /\ (asked # 0 => argc > 0)
      BY <1>1
    <3> QED BY <3>1, <3>2 DEF Counted
  <2>8. LabelWork
    BY <2>1, <2>6, <2>7 DEF LabelWork
  <2> QED BY <1>1, <1>3, <2>8 DEF ConvInv
<1> QED BY <1>2, <1>3

\* For every text, number of arguments and limit: no text is written past its buffer, and
\* what is returned is what was meant, cut after MAXENVLEN at the earliest.
THEOREM TextsAreConverted == Spec => []ConvertedAsMeant
<1>1. Init => ConvInv
  <2>1. ASSUME LabelsIdle PROVE ConvInv
    <3>1. LabelInit("utf8", <<>>, 0) /\ <<>> \in Seq(Characters)
      BY <2>1, EmptySeq DEF LabelsIdle
    <3> QED BY <3>1, InitConvInv
  <2>2. ASSUME AnyConversion PROVE ConvInv
    <3>1. PICK text \in Texts, n \in Argcs :
            \/ \E c \in {"label", "array"} : LabelInit(c, text, n)
            \/ n = 0 /\ LabelInit("utf8", Front(text), n)
      BY <2>2 DEF AnyConversion
    <3>2. text \in Seq(Characters) /\ text # <<>> /\ text[Len(text)] = "nul" /\ n \in Nat
      BY LabelAssumption
    <3>3. Front(text) \in Seq(Characters)
      <4>1. PICK l \in Nat : l = Len(text) /\ l # 0
        BY <3>2, EmptySeq
      <4>2. \A i \in 1..(l - 1) : text[i] \in Characters
        BY <3>2, <4>1, ElementOfSeq
      <4>3. 1 \in Int /\ l - 1 \in Int
        BY <4>1
      <4>4. SubSeq(text, 1, l - 1) \in Seq(Characters)
        BY ONLY <4>2, <4>3, SubSeqProperties
      <4> QED BY <4>1, <4>4 DEF Front
    <3>4. ASSUME NEW c \in {"label", "array"}, LabelInit(c, text, n) PROVE ConvInv
      BY <3>2, <3>4, InitConvInv
    <3>5. ASSUME LabelInit("utf8", Front(text), n) PROVE ConvInv
      BY <3>2, <3>3, <3>5, InitConvInv
    <3> QED BY <3>1, <3>4, <3>5
  <2> QED BY <2>1, <2>2 DEF Init
<1>2. ConvInv /\ [Next]_vars => ConvInv'
  <2> SUFFICES ASSUME ConvInv, [Next]_vars PROVE ConvInv'
    OBVIOUS
  <2>1. CASE UNCHANGED labelVars
    <3>1. UNCHANGED <<conversion, cstring, asked, argc, oldcursor, newstring, converting>>
      BY <2>1 DEF labelVars
    <3>2. Joined' = Joined /\ newlength' = newlength /\ NameLength' = NameLength
      BY <3>1, MeaningStays
    <3>3. ConvertedAsMeant' <=> ConvertedAsMeant
      BY <3>1, <3>2 DEF ConvertedAsMeant
    <3>4. Nuls' = Nuls /\ Ends' = Ends /\ KeptIn' = KeptIn /\ Pieces' = Pieces
      BY <3>1 DEF Nuls, Ends, KeptIn, Pieces, Separator
    <3>5. NameWork' <=> NameWork
      BY <3>1, <3>4 DEF NameWork, KeptOf
    <3>6. LabelWork' <=> LabelWork
      BY <3>1, <3>4 DEF LabelWork, IsText, PiecesWritten, Counted, Opened
    <3> QED BY <3>1, <3>3, <3>5, <3>6 DEF ConvInv
  <2>2. CASE LabelNext
    BY <2>2, CopyCharKeeps, NextItemKeeps, PgItemKeeps, LastNulKeeps, EncodeKeepsInv, ReturnKeeps
       DEF LabelNext
  <2> QED BY <2>1, <2>2 DEF Next, vars
<1> QED BY <1>1, <1>2, WorkFits, PTL DEF Spec
=============================================================================
