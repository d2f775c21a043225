-------------------------- MODULE CredentialProofs --------------------------
(***************************************************************************)
(* Proofs about the two kinds of program that remember credentials while   *)
(* they read: snap_provd and snap_cat lead from an id to the node of its   *)
(* life, gz_cat and pg_cat keep a list of the ids they follow.  Ids are    *)
(* used again, so that what either remembers of one has to go when its     *)
(* life ends.  For every set of ids and every number of records, processes *)
(* and faults.                                                             *)
(***************************************************************************)
EXTENDS SnapProvd, CredFilter, TLAPS, FiniteSetTheorems

-----------------------------------------------------------------------------
(* The invariant *)

Things ==
       [kind : {"life"}, key : Nat] \cup [kind : {"inode"}, key : Versions]
  \cup [kind : {"user"}, key : Users] \cup [kind : {"group"}, key : Groups]
  \cup [kind : {"sent", "received"}, key : Creds \X Ports]

\* No thing has two nodes.
NoTwins(ns) == \A i, j \in 1..Len(ns) : ns[i] = ns[j] => i = j

\* Map m and the nodes of one kind are inverse to each other.
Points(ns, m, kind) ==
  /\ \A k \in DOMAIN m : m[k] \in 1..Len(ns) /\ ns[m[k]] = [kind |-> kind, key |-> k]
  /\ \A i \in 1..Len(ns) : ns[i].kind = kind => ns[i].key \in DOMAIN m

\* Each life has its number.
Numbered(lv, n) ==
  /\ n \in Nat /\ DOMAIN lv \subseteq Creds
  /\ \A c \in DOMAIN lv : lv[c] \in 1..n
  /\ \A c, d \in DOMAIN lv : lv[c] = lv[d] => c = d

\* A node of a living credential is the one that the map leads to.
LifePoints(ns, m, lv) ==
  \A c \in DOMAIN lv : \A i \in 1..Len(ns) :
    ns[i] = Life(lv[c]) => c \in DOMAIN m /\ m[c] = i

LivesBegun(ns, n) == \A i \in 1..Len(ns) : ns[i].kind = "life" => ns[i].key \in 1..n

LivesOK(ns, m, lv, n) == Numbered(lv, n) /\ LivesBegun(ns, n) /\ LifePoints(ns, m, lv)

NodesInv ==
  /\ nodes \in Seq(Things) /\ NoTwins(nodes)
  /\ Points(nodes, InodeVersionMap, "inode")
  /\ Points(nodes, UserMap, "user") /\ Points(nodes, GroupMap, "group")
  /\ Points(nodes, SockSendMap, "sent") /\ Points(nodes, SockRecvMap, "received")
  /\ LivesOK(nodes, CredMap, lives, forked)

\* Id i is the node of x; or it is the first, for a life that has none.
Right(ns, i, x) ==
  \/ i \in 1..Len(ns) /\ ns[i] = x
  \/ ~atBoot /\ i = 1 /\ x.kind = "life" /\ \A j \in 1..Len(ns) : ns[j] # x

\* The map has living credentials, and from boot on all of them.
MapRight(ns, m, lv) == \A c \in DOMAIN m : c \in DOMAIN lv /\ Right(ns, m[c], Life(lv[c]))
AllMapped(m, lv) == atBoot => DOMAIN lv \subseteq DOMAIN m

\* The relation of an edge follows from the kinds of its ends.
RelOf(x, y) ==
  CASE x.kind = "life" /\ y.kind = "life" -> "WasForkedFrom"
    [] x.kind \in {"inode", "sent"} -> "WasGeneratedBy"
    [] x.kind = "life" /\ y.kind \in {"inode", "received"} -> "Used"
    [] x.kind = "life" /\ y.kind = "user" -> "WasControlledBy"
    [] OTHER -> "ActedOnBehalfOf"

\* What is about the first node, unless the process has read from boot on.
AboutFirst(i) == ~atBoot /\ i = 1

EdgesTyped(ns, es, pr) ==
  /\ DOMAIN pr \subseteq 1..Len(ns)
  /\ \A e \in DOMAIN es :
       /\ e[1] \in 1..Len(ns) /\ e[2] \in 1..Len(ns) /\ e = <<e[1], e[2]>>
       /\ AboutFirst(e[1]) \/ AboutFirst(e[2]) \/ es[e] = RelOf(ns[e[1]], ns[e[2]])
       /\ es[e] # "Runs"

\* A life that the facts speak of is in the map while it lasts.
LifeIsKnown(x, m, lv) ==
  x.kind = "life" => \A c \in DOMAIN lv : x.key = lv[c] => c \in DOMAIN m

ThingTyped(x, m, lv, n) ==
  x \in Things /\ (x.kind = "life" => x.key \in 1..n) /\ LifeIsKnown(x, m, lv)

FactsTyped(fs, m, lv, n) ==
  \A f \in fs : /\ f = Fact(f.rel, f.from, f.to)
                /\ ThingTyped(f.from, m, lv, n) /\ ThingTyped(f.to, m, lv, n)

ToldBy(ns, es, pr) ==
  {Fact(es[e], ns[e[1]], ns[e[2]]) : e \in DOMAIN es}
    \cup {Fact("Runs", ns[i], Inode(pr[i])) : i \in DOMAIN pr}

\* A thing that only a process that began late is wrong about.
Doubtful(ns, x) ==
  ~atBoot /\ \/ ns # <<>> /\ x = ns[1]
             \/ x.kind = "life" /\ \A i \in 1..Len(ns) : ns[i] # x

Excused(ns, f) == Doubtful(ns, f.from) \/ Doubtful(ns, f.to)

Agree(ns, es, pr, fs) ==
  /\ \A f \in ToldBy(ns, es, pr) : f \in fs \/ Excused(ns, f)
  /\ \A f \in fs : f \in ToldBy(ns, es, pr) \/ Excused(ns, f)

\* What a process knows that has lost no record: nodes ns, edges es, programs pr, map m,
\* against the facts fs and the lives lv of the n begun.
Seen(ns, es, pr, fs, m, lv, n) ==
  /\ MapRight(ns, m, lv) /\ AllMapped(m, lv)
  /\ EdgesTyped(ns, es, pr)
  /\ FactsTyped(fs, m, lv, n)
  /\ Agree(ns, es, pr, fs)

SeenInv == Seen(nodes, edges, prog, facts, CredMap, lives, forked)

Blank == nodes = <<>> /\ prog = Empty /\ edges = Empty /\ CredMap = Empty /\ facts = {}

SnapInv ==
  /\ count \in Nat /\ lost \in BOOLEAN /\ atBoot \in BOOLEAN
  /\ count = 0 => lives = Empty /\ forked = 0
  /\ pc = "off" \/ count = 0 => Blank
  /\ pc = "off" => ~lost /\ ~atBoot
  /\ NodesInv
  /\ ~lost => SeenInv

-----------------------------------------------------------------------------
(* Nodes *)

LEMMA KindsDiffer ==
  \A n, m, k :
    /\ Life(n).kind = "life" /\ Life(n).key = n /\ (Life(n) = Life(m) => n = m)
    /\ Inode(n).kind = "inode" /\ Inode(n) = [kind |-> "inode", key |-> n]
    /\ User(n).kind = "user" /\ User(n) = [kind |-> "user", key |-> n]
    /\ Group(n).kind = "group" /\ Group(n) = [kind |-> "group", key |-> n]
    /\ Packet(k, n).kind = k /\ Packet(k, n) = [kind |-> k, key |-> n]
  BY DEF Life, Inode, User, Group, Packet

LEMMA LifeIsThing == \A n \in Nat : Life(n) \in Things
  BY DEF Things, Life

\* t has the nodes of ns and then others, all of one kind.
Grown(ns, t, kind) ==
  /\ t \in Seq(Things) /\ NoTwins(t)
  /\ Len(ns) <= Len(t)
  /\ \A i \in 1..Len(ns) : t[i] = ns[i]
  /\ \A i \in 1..Len(t) : i \in 1..Len(ns) \/ t[i].kind = kind

LEMMA NodeGrows ==
  ASSUME NEW ns \in Seq(Things), NoTwins(ns), NEW m, NEW k, NEW x \in Things,
         k \notin DOMAIN m => \A i \in 1..Len(ns) : ns[i] # x,
         NEW n, n = Node(ns, m, k, x)
  PROVE  /\ Grown(ns, n.ns, x.kind)
         /\ k \in DOMAIN m => n.ns = ns /\ n.map = m /\ n.id = m[k]
         /\ k \notin DOMAIN m => /\ n.ns = Append(ns, x) /\ Len(n.ns) = Len(ns) + 1
                                 /\ n.map = Put(m, k, Len(ns) + 1) /\ n.id = Len(ns) + 1
                                 /\ n.ns[Len(ns) + 1] = x
         /\ DOMAIN n.map = DOMAIN m \cup {k} /\ n.map[k] = n.id
         /\ \A j \in DOMAIN m : j # k => n.map[j] = m[j]
<1>1. CASE k \in DOMAIN m
  <2>1. n.ns = ns /\ n.map = m /\ n.id = m[k]
    BY <1>1 DEF Node
  <2>2. Grown(ns, ns, x.kind)
    <3>1. Len(ns) \in Nat
      OBVIOUS
    <3> QED BY <3>1 DEF Grown
  <2> QED BY <1>1, <2>1, <2>2
<1>2. CASE k \notin DOMAIN m
  <2>1. n.ns = Append(ns, x) /\ n.map = Put(m, k, Len(ns) + 1) /\ n.id = Len(ns) + 1
    BY <1>2 DEF Node
  <2> DEFINE t == Append(ns, x)
  <2>2. /\ t \in Seq(Things) /\ Len(t) = Len(ns) + 1 /\ Len(ns) \in Nat /\ t[Len(ns) + 1] = x
        /\ \A i \in 1..Len(ns) : t[i] = ns[i]
    OBVIOUS
  <2> HIDE DEF t
  <2>3. NoTwins(t)
    BY <1>2, <2>2 DEF NoTwins
  <2>4. Grown(ns, t, x.kind)
    BY <2>2, <2>3 DEF Grown
  <2>5. /\ DOMAIN n.map = DOMAIN m \cup {k} /\ n.map[k] = n.id
        /\ \A j \in DOMAIN m : j # k => n.map[j] = m[j]
    BY <2>1 DEF Put
  <2> QED BY <1>2, <2>1, <2>2, <2>4, <2>5 DEF t
<1> QED BY <1>1, <1>2

\* The nodes that are not activities.
LEMMA NodePoints ==
  ASSUME NEW ns \in Seq(Things), NoTwins(ns), NEW m, NEW kind, Points(ns, m, kind), NEW k,
         NEW x \in Things, x = [kind |-> kind, key |-> k],
         NEW n, n = Node(ns, m, k, x)
  PROVE  /\ Grown(ns, n.ns, kind) /\ Points(n.ns, n.map, kind)
         /\ n.id \in 1..Len(n.ns) /\ n.ns[n.id] = x
<1>1. x.kind = kind /\ x.key = k
  OBVIOUS
<1>2. k \notin DOMAIN m => \A i \in 1..Len(ns) : ns[i] # x
  BY <1>1 DEF Points
<1>3. /\ Grown(ns, n.ns, kind)
      /\ k \in DOMAIN m => n.ns = ns /\ n.map = m /\ n.id = m[k]
      /\ k \notin DOMAIN m => /\ n.ns = Append(ns, x) /\ Len(n.ns) = Len(ns) + 1
                              /\ n.id = Len(ns) + 1 /\ n.ns[Len(ns) + 1] = x
      /\ DOMAIN n.map = DOMAIN m \cup {k} /\ n.map[k] = n.id
      /\ \A j \in DOMAIN m : j # k => n.map[j] = m[j]
  BY <1>1, <1>2, NodeGrows
<1>4. CASE k \in DOMAIN m
  BY <1>3, <1>4 DEF Points
<1>5. CASE k \notin DOMAIN m
  <2>1. Len(ns) \in Nat /\ Len(n.ns) = Len(ns) + 1 /\ n.id = Len(ns) + 1 /\ n.ns[n.id] = x
    BY <1>3, <1>5
  <2>2. \A i \in 1..Len(n.ns) : i \in 1..Len(ns) \/ i = n.id
    BY <2>1
  <2>3. \A i \in 1..Len(ns) : n.ns[i] = ns[i] /\ i \in 1..Len(n.ns)
    BY <1>3, <2>1 DEF Grown
  <2>4. n.id \in 1..Len(n.ns)
    BY <2>1
  <2> QED BY <1>1, <1>3, <2>1, <2>2, <2>3, <2>4 DEF Points
<1> QED BY <1>4, <1>5

\* Other nodes leave what a map leads to.
LEMMA GrownPoints ==
  ASSUME NEW ns, NEW t, NEW kind, Grown(ns, t, kind), NEW m, NEW kind2, kind2 # kind,
         Points(ns, m, kind2), Len(ns) \in Nat
  PROVE  Points(t, m, kind2)
<1>1. /\ \A i \in 1..Len(ns) : t[i] = ns[i] /\ i \in 1..Len(t)
      /\ \A i \in 1..Len(t) : i \in 1..Len(ns) \/ t[i].kind = kind
  BY DEF Grown
<1> QED BY <1>1 DEF Points

LEMMA GrownLives ==
  ASSUME NEW ns, NEW t, NEW kind, Grown(ns, t, kind), kind # "life", Len(ns) \in Nat,
         NEW n, LivesBegun(ns, n), NEW m, NEW lv, LifePoints(ns, m, lv)
  PROVE  /\ LivesBegun(t, n) /\ LifePoints(t, m, lv)
         /\ MapRight(ns, m, lv) => MapRight(t, m, lv)
<1>1. /\ \A i \in 1..Len(ns) : t[i] = ns[i] /\ i \in 1..Len(t)
      /\ \A i \in 1..Len(t) : i \in 1..Len(ns) \/ t[i].kind = kind
  BY DEF Grown
<1>2. LivesBegun(t, n)
  BY <1>1 DEF LivesBegun
<1>3. LifePoints(t, m, lv)
  BY <1>1, KindsDiffer DEF LifePoints
<1>4. ASSUME MapRight(ns, m, lv) PROVE MapRight(t, m, lv)
  <2>1. ASSUME NEW i, NEW x, x.kind = "life", Right(ns, i, x) PROVE Right(t, i, x)
    BY <1>1, <2>1 DEF Right
  <2> QED BY <1>4, <2>1, KindsDiffer DEF MapRight
<1> QED BY <1>2, <1>3, <1>4

LEMMA GrownEdges ==
  ASSUME NEW ns, NEW t, NEW kind, Grown(ns, t, kind), Len(ns) \in Nat,
         NEW es, NEW pr, EdgesTyped(ns, es, pr)
  PROVE  EdgesTyped(t, es, pr) /\ ToldBy(t, es, pr) = ToldBy(ns, es, pr)
<1>1. \A i \in 1..Len(ns) : t[i] = ns[i] /\ i \in 1..Len(t)
  BY DEF Grown
<1>2. \A e \in DOMAIN es : e[1] \in 1..Len(ns) /\ e[2] \in 1..Len(ns) /\ t[e[1]] = ns[e[1]] /\ t[e[2]] = ns[e[2]]
  BY <1>1 DEF EdgesTyped
<1>3. \A i \in DOMAIN pr : i \in 1..Len(ns) /\ t[i] = ns[i]
  BY <1>1 DEF EdgesTyped
<1>4. EdgesTyped(t, es, pr)
  BY <1>1, <1>2 DEF EdgesTyped
<1>5. ToldBy(t, es, pr) = ToldBy(ns, es, pr)
  BY <1>2, <1>3 DEF ToldBy
<1> QED BY <1>4, <1>5

\* More nodes leave what the graph tells and what it is excused for, if the facts do not
\* speak of the lives that get one.
LEMMA GrownAgrees ==
  ASSUME NEW ns, NEW t, NEW kind, Grown(ns, t, kind), Len(ns) \in Nat,
         NEW es, NEW pr, EdgesTyped(ns, es, pr),
         NEW fs, Agree(ns, es, pr, fs),
         \A i \in 1..Len(t) : \/ i \in 1..Len(ns) \/ t[i].kind # "life"
                              \/ \A f \in fs : f.from # t[i] /\ f.to # t[i]
  PROVE  Agree(t, es, pr, fs)
<1>1. ToldBy(t, es, pr) = ToldBy(ns, es, pr)
  BY GrownEdges
<1>2. /\ \A i \in 1..Len(ns) : t[i] = ns[i] /\ i \in 1..Len(t)
      /\ ns # <<>> => t # <<>> /\ t[1] = ns[1]
  <2>1. t \in Seq(Things) /\ Len(ns) <= Len(t) /\ \A i \in 1..Len(ns) : t[i] = ns[i]
    BY DEF Grown
  <2>2. CASE Len(ns) = 0
    BY <2>1, <2>2
  <2>3. CASE Len(ns) # 0
    <3>1. 1 \in 1..Len(ns) /\ Len(t) # 0
      BY <2>1, <2>3
    <3> QED BY <2>1, <3>1
  <2> QED BY <2>2, <2>3
<1>3. ASSUME NEW f \in fs, NEW x \in {f.from, f.to}, Doubtful(ns, x) PROVE Doubtful(t, x)
  BY <1>2, <1>3 DEF Doubtful
<1>4. ASSUME NEW f \in ToldBy(ns, es, pr), NEW x \in {f.from, f.to}, Doubtful(ns, x)
      PROVE  Doubtful(t, x)
  <2>1. x.kind = "inode" \/ \E i \in 1..Len(ns) : ns[i] = x
    BY <1>4, KindsDiffer DEF ToldBy, EdgesTyped, Fact
  <2> QED BY <1>2, <1>4, <2>1 DEF Doubtful
<1> QED BY <1>1, <1>3, <1>4 DEF Agree, Excused

\* A life gets its node.
LEMMA LifeNode ==
  ASSUME NEW ns \in Seq(Things), NoTwins(ns), NEW m, NEW lv, NEW fk, Numbered(lv, fk),
         LivesBegun(ns, fk), LifePoints(ns, m, lv), NEW c \in DOMAIN lv,
         NEW n, n = Node(ns, m, c, Life(lv[c]))
  PROVE  /\ Grown(ns, n.ns, "life") /\ LivesBegun(n.ns, fk) /\ LifePoints(n.ns, n.map, lv)
         /\ DOMAIN n.map = DOMAIN m \cup {c} /\ n.id = n.map[c]
         /\ c \in DOMAIN m => n.ns = ns /\ n.map = m
         /\ c \notin DOMAIN m => n.ns[n.id] = Life(lv[c]) /\ n.id \in 1..Len(n.ns)
         /\ MapRight(ns, m, lv) => MapRight(n.ns, n.map, lv)
         /\ \A i \in 1..Len(n.ns) : i \in 1..Len(ns) \/ (c \notin DOMAIN m /\ n.ns[i] = Life(lv[c]))
         /\ \A j \in DOMAIN m : j # c => n.map[j] = m[j]
<1> DEFINE x == Life(lv[c])
<1>1. /\ lv[c] \in 1..fk /\ fk \in Nat /\ \A d \in DOMAIN lv : lv[d] = lv[c] => d = c
  BY DEF Numbered
<1>2. x \in Things /\ x.kind = "life"
  BY <1>1, LifeIsThing, KindsDiffer
<1>3. c \notin DOMAIN m => \A i \in 1..Len(ns) : ns[i] # x
  BY DEF LifePoints
<1> HIDE DEF x
<1>4. n = Node(ns, m, c, x)
  BY DEF x
<1>5. /\ Grown(ns, n.ns, "life")
      /\ c \in DOMAIN m => n.ns = ns /\ n.map = m /\ n.id = m[c]
      /\ c \notin DOMAIN m => /\ n.ns = Append(ns, x) /\ Len(n.ns) = Len(ns) + 1
                              /\ n.map = Put(m, c, Len(ns) + 1) /\ n.id = Len(ns) + 1
                              /\ n.ns[Len(ns) + 1] = x
      /\ DOMAIN n.map = DOMAIN m \cup {c} /\ n.map[c] = n.id
      /\ \A j \in DOMAIN m : j # c => n.map[j] = m[j]
  BY <1>2, <1>3, <1>4, NodeGrows
<1>6. CASE c \in DOMAIN m
  BY <1>5, <1>6
<1>7. CASE c \notin DOMAIN m
  <2>1. Len(ns) \in Nat /\ Len(n.ns) = Len(ns) + 1 /\ n.id = Len(ns) + 1 /\ n.ns[n.id] = x
    BY <1>5, <1>7
  <2>2. \A i \in 1..Len(n.ns) : i \in 1..Len(ns) \/ i = n.id
    BY <2>1
  <2>3. \A i \in 1..Len(ns) : n.ns[i] = ns[i] /\ i \in 1..Len(n.ns)
    BY <1>5, <2>1 DEF Grown
  <2>4. n.id \in 1..Len(n.ns)
    BY <2>1
  <2>5. LivesBegun(n.ns, fk)
    BY <1>1, <2>1, <2>2, <2>3, KindsDiffer DEF LivesBegun, x
  <2>6. \A d \in DOMAIN lv : Life(lv[d]) = x => d = c
    BY <1>1, KindsDiffer DEF x
  <2>7. LifePoints(n.ns, n.map, lv)
    <3> SUFFICES ASSUME NEW d \in DOMAIN lv, NEW i \in 1..Len(n.ns), n.ns[i] = Life(lv[d])
                 PROVE  d \in DOMAIN n.map /\ n.map[d] = i
      BY DEF LifePoints
    <3>1. CASE i = n.id
      BY <1>5, <2>1, <2>6, <3>1
    <3>2. CASE i \in 1..Len(ns)
      <4>1. d \in DOMAIN m /\ m[d] = i
        BY <2>3, <3>2 DEF LifePoints
      <4> QED BY <1>5, <1>7, <4>1
    <3> QED BY <2>2, <3>1, <3>2
  <2>8. MapRight(ns, m, lv) => MapRight(n.ns, n.map, lv)
    <3> SUFFICES ASSUME MapRight(ns, m, lv), NEW d \in DOMAIN n.map
                 PROVE  d \in DOMAIN lv /\ Right(n.ns, n.map[d], Life(lv[d]))
      BY DEF MapRight
    <3>1. CASE d = c
      BY <1>5, <2>1, <2>4, <3>1 DEF Right, x
    <3>2. CASE d # c
      <4>1. d \in DOMAIN m /\ n.map[d] = m[d] /\ d \in DOMAIN lv /\ Right(ns, m[d], Life(lv[d]))
        BY <1>5, <3>2 DEF MapRight
      <4>2. x # Life(lv[d])
        BY <2>6, <3>2, <4>1
      <4>3. Right(n.ns, m[d], Life(lv[d]))
        BY <2>1, <2>2, <2>3, <4>1, <4>2 DEF Right
      <4> QED BY <4>1, <4>3
    <3> QED BY <3>1, <3>2
  <2>9. \A i \in 1..Len(n.ns) : i \in 1..Len(ns) \/ (c \notin DOMAIN m /\ n.ns[i] = x)
    BY <1>7, <2>1, <2>2
  <2> QED BY <1>5, <1>7, <2>1, <2>4, <2>5, <2>7, <2>8, <2>9 DEF x
<1> QED BY <1>6, <1>7

-----------------------------------------------------------------------------
(* What is known, step by step *)

\* What is known stays known when the map gets more credentials.
LEMMA FactsKeep ==
  ASSUME NEW fs, NEW m, NEW m2, NEW lv, NEW n, FactsTyped(fs, m, lv, n),
         DOMAIN m \subseteq DOMAIN m2
  PROVE  FactsTyped(fs, m2, lv, n)
  BY DEF FactsTyped, ThingTyped, LifeIsKnown

\* A node that is not an activity is made.
LEMMA OtherSeen ==
  ASSUME NEW ns, NEW t, NEW kind, kind # "life", Grown(ns, t, kind), Len(ns) \in Nat,
         NEW m, NEW lv, NEW n, LivesOK(ns, m, lv, n)
  PROVE  /\ LivesOK(t, m, lv, n)
         /\ \A es, pr, fs : Seen(ns, es, pr, fs, m, lv, n) => Seen(t, es, pr, fs, m, lv, n)
<1>1. LivesOK(t, m, lv, n) /\ (MapRight(ns, m, lv) => MapRight(t, m, lv))
  BY GrownLives DEF LivesOK
<1>2. ASSUME NEW es, NEW pr, NEW fs, Seen(ns, es, pr, fs, m, lv, n)
      PROVE  Seen(t, es, pr, fs, m, lv, n)
  <2>1. EdgesTyped(t, es, pr)
    BY <1>2, GrownEdges DEF Seen
  <2>2. \A i \in 1..Len(t) : i \in 1..Len(ns) \/ t[i].kind # "life"
    BY DEF Grown
  <2>3. Agree(t, es, pr, fs)
    BY <1>2, <2>2, GrownAgrees DEF Seen
  <2> QED BY <1>1, <1>2, <2>1, <2>3 DEF Seen
<1> QED BY <1>1, <1>2

\* get_or_create_node for a living credential.
LEMMA LifeSeen ==
  ASSUME NEW ns \in Seq(Things), NoTwins(ns), NEW m, NEW lv, NEW fk, LivesOK(ns, m, lv, fk),
         NEW c \in DOMAIN lv, NEW n, n = Node(ns, m, c, Life(lv[c])),
         NEW es, NEW pr, NEW fs, EdgesTyped(ns, es, pr), Agree(ns, es, pr, fs),
         MapRight(ns, m, lv), FactsTyped(fs, m, lv, fk)
  PROVE  /\ MapRight(n.ns, n.map, lv) /\ EdgesTyped(n.ns, es, pr)
         /\ FactsTyped(fs, n.map, lv, fk) /\ Agree(n.ns, es, pr, fs)
         /\ Right(n.ns, n.id, Life(lv[c]))
<1>1. /\ Grown(ns, n.ns, "life")
      /\ DOMAIN n.map = DOMAIN m \cup {c} /\ n.id = n.map[c]
      /\ MapRight(n.ns, n.map, lv)
      /\ \A i \in 1..Len(n.ns) : i \in 1..Len(ns) \/ (c \notin DOMAIN m /\ n.ns[i] = Life(lv[c]))
  BY LifeNode DEF LivesOK
<1>2. EdgesTyped(n.ns, es, pr)
  <2>1. Len(ns) \in Nat
    OBVIOUS
  <2> QED BY <1>1, <2>1, GrownEdges
<1>3. FactsTyped(fs, n.map, lv, fk)
  BY <1>1, FactsKeep
<1>4. \A f \in fs : c \notin DOMAIN m => f.from # Life(lv[c]) /\ f.to # Life(lv[c])
  BY KindsDiffer DEF FactsTyped, ThingTyped, LifeIsKnown
<1>5. Agree(n.ns, es, pr, fs)
  <2>1. Len(ns) \in Nat
    OBVIOUS
  <2>2. \A i \in 1..Len(n.ns) : \/ i \in 1..Len(ns) \/ n.ns[i].kind # "life"
                                \/ \A f \in fs : f.from # n.ns[i] /\ f.to # n.ns[i]
    BY <1>1, <1>4
  <2> QED BY <1>1, <2>1, <2>2, GrownAgrees
<1>6. Right(n.ns, n.id, Life(lv[c]))
  BY <1>1 DEF MapRight
<1> QED BY <1>1, <1>2, <1>3, <1>5, <1>6

\* The map's operator[] for a living credential.
LEMMA CredSeen ==
  ASSUME NodesInv, NEW c \in DOMAIN lives
  PROVE  /\ LivesOK(nodes, CredNode(c).map, lives, forked)
         /\ SeenInv => /\ Seen(nodes, edges, prog, facts, CredNode(c).map, lives, forked)
                       /\ Right(nodes, CredNode(c).id, Me(c))
                       /\ c \in DOMAIN CredNode(c).map
<1>1. CASE c \in DOMAIN CredMap
  BY <1>1 DEF CredNode, NodesInv, SeenInv, Seen, MapRight, Me
<1>2. CASE c \notin DOMAIN CredMap
  <2> DEFINE m == Put(CredMap, c, 1)
  <2>1. CredNode(c).map = m /\ CredNode(c).id = 1
    BY <1>2 DEF CredNode
  <2>2. DOMAIN m = DOMAIN CredMap \cup {c} /\ m[c] = 1 /\ \A d \in DOMAIN CredMap : m[d] = CredMap[d]
    BY <1>2 DEF Put
  <2> HIDE DEF m
  <2>3. LivesOK(nodes, m, lives, forked)
    BY <1>2, <2>2 DEF NodesInv, LivesOK, LifePoints
  <2>4. ASSUME SeenInv
        PROVE  /\ Seen(nodes, edges, prog, facts, m, lives, forked)
               /\ Right(nodes, 1, Me(c))
    <3>1. ~atBoot
      BY <1>2, <2>4 DEF SeenInv, Seen, AllMapped
    <3>2. \A j \in 1..Len(nodes) : nodes[j] # Me(c)
      BY <1>2 DEF NodesInv, LivesOK, LifePoints, Me
    <3>3. Right(nodes, 1, Me(c))
      BY <3>1, <3>2, KindsDiffer DEF Right, Me
    <3>4. MapRight(nodes, m, lives)
      BY <2>2, <2>4, <3>3 DEF SeenInv, Seen, MapRight, Me
    <3>5. FactsTyped(facts, m, lives, forked)
      BY <2>2, <2>4, FactsKeep DEF SeenInv, Seen
    <3> QED BY <2>4, <3>1, <3>3, <3>4, <3>5 DEF SeenInv, Seen, AllMapped
  <2> QED BY <2>1, <2>2, <2>3, <2>4
<1> QED BY <1>1, <1>2

\* A node id is one, once there is a node; and it leads to the right thing unless it is
\* the first and the process began late.
LEMMA RightIs ==
  ASSUME NEW ns \in Seq(Things), NEW i, NEW x, Right(ns, i, x)
  PROVE  /\ ns # <<>> => i \in 1..Len(ns)
         /\ ~AboutFirst(i) => i \in 1..Len(ns) /\ ns[i] = x
         /\ AboutFirst(i) => Doubtful(ns, x) /\ (i \in 1..Len(ns) => Doubtful(ns, ns[i]))
<1>1. Len(ns) \in Nat /\ (ns # <<>> <=> Len(ns) # 0)
  OBVIOUS
<1>2. ns # <<>> => 1 \in 1..Len(ns)
  BY <1>1
<1>3. i \in 1..Len(ns) => ns # <<>>
  BY <1>1
<1> QED BY <1>1, <1>2, <1>3 DEF Right, AboutFirst, Doubtful

\* An edge of the first node, of which nothing is known.
LEMMA DoubtfulEdge ==
  ASSUME NEW ns \in Seq(Things), NEW es, NEW pr, NEW fs,
         EdgesTyped(ns, es, pr), Agree(ns, es, pr, fs),
         NEW s \in 1..Len(ns), NEW d \in 1..Len(ns), AboutFirst(s) \/ AboutFirst(d),
         NEW rel, rel # "Runs", NEW es2, es2 = Edge(es, s, d, rel)
  PROVE  EdgesTyped(ns, es2, pr) /\ Agree(ns, es2, pr, fs)
<1> DEFINE e == <<s, d>>
<1>1. /\ e[1] = s /\ e[2] = d
      /\ DOMAIN es \subseteq DOMAIN es2 /\ DOMAIN es2 \subseteq DOMAIN es \cup {e}
      /\ \A g \in DOMAIN es : es2[g] = es[g]
      /\ e \in DOMAIN es2 => e \in DOMAIN es \/ es2[e] = rel
  <2>1. e[1] = s /\ e[2] = d
    OBVIOUS
  <2> HIDE DEF e
  <2>2. /\ s = d => es2 = es
        /\ s # d => /\ DOMAIN es2 = DOMAIN es \cup {e}
                    /\ e \notin DOMAIN es => es2[e] = rel
        /\ \A g \in DOMAIN es : es2[g] = es[g]
    BY DEF Edge, get_edge, EdgePair, Put, e
  <2> QED BY <2>1, <2>2
<1> HIDE DEF e
<1>2. EdgesTyped(ns, es2, pr)
  <2>1. e = <<e[1], e[2]>>
    BY DEF e
  <2>2. DOMAIN pr \subseteq 1..Len(ns)
    BY DEF EdgesTyped
  <2>3. ASSUME NEW g \in DOMAIN es2
        PROVE  /\ g[1] \in 1..Len(ns) /\ g[2] \in 1..Len(ns) /\ g = <<g[1], g[2]>>
               /\ AboutFirst(g[1]) \/ AboutFirst(g[2]) \/ es2[g] = RelOf(ns[g[1]], ns[g[2]])
               /\ es2[g] # "Runs"
    <3>1. CASE g \in DOMAIN es
      BY <1>1, <3>1 DEF EdgesTyped
    <3>2. CASE g = e /\ g \notin DOMAIN es
      BY <1>1, <2>1, <3>2
    <3> QED BY <1>1, <3>1, <3>2
  <2> QED BY <2>2, <2>3 DEF EdgesTyped
<1>3. \A f \in ToldBy(ns, es, pr) : f \in ToldBy(ns, es2, pr)
  BY <1>1 DEF ToldBy
<1>4. ASSUME NEW f \in ToldBy(ns, es2, pr)
      PROVE  f \in ToldBy(ns, es, pr) \/ Excused(ns, f)
  <2>1. CASE \E g \in DOMAIN es2 : f = Fact(es2[g], ns[g[1]], ns[g[2]])
    <3>1. PICK g \in DOMAIN es2 : f = Fact(es2[g], ns[g[1]], ns[g[2]])
      BY <2>1
    <3>2. CASE g \in DOMAIN es
      BY <1>1, <3>1, <3>2 DEF ToldBy
    <3>3. CASE g = e
      <4>1. f.from = ns[s] /\ f.to = ns[d]
        BY <1>1, <3>1, <3>3 DEF Fact
      <4>2. ns # <<>>
        OBVIOUS
      <4> QED BY <4>1, <4>2 DEF Excused, Doubtful, AboutFirst
    <3> QED BY <1>1, <3>2, <3>3
  <2>2. CASE \E i \in DOMAIN pr : f = Fact("Runs", ns[i], Inode(pr[i]))
    BY <2>2 DEF ToldBy
  <2> QED BY <2>1, <2>2 DEF ToldBy
<1> QED BY <1>2, <1>3, <1>4 DEF Agree

\* An edge between two nodes that are right.
LEMMA RightEdge ==
  ASSUME NEW ns \in Seq(Things), NoTwins(ns), NEW es, NEW pr, NEW fs,
         EdgesTyped(ns, es, pr), Agree(ns, es, pr, fs),
         NEW s \in 1..Len(ns), NEW d \in 1..Len(ns), ~AboutFirst(s), ~AboutFirst(d), s # d,
         NEW rel, rel # "Runs", rel = RelOf(ns[s], ns[d]), NEW es2, es2 = Edge(es, s, d, rel),
         NEW fs2, fs2 = fs \cup {Fact(rel, ns[s], ns[d])}
  PROVE  EdgesTyped(ns, es2, pr) /\ Agree(ns, es2, pr, fs2)
<1> DEFINE e == <<s, d>>
<1>1. /\ e[1] = s /\ e[2] = d /\ e = <<e[1], e[2]>>
      /\ DOMAIN es2 = DOMAIN es \cup {e}
      /\ \A g \in DOMAIN es : es2[g] = es[g]
      /\ e \notin DOMAIN es => es2[e] = rel
  <2>1. e[1] = s /\ e[2] = d /\ e = <<e[1], e[2]>>
    OBVIOUS
  <2> HIDE DEF e
  <2>2. /\ s # d => /\ DOMAIN es2 = DOMAIN es \cup {e}
                    /\ e \notin DOMAIN es => es2[e] = rel
        /\ \A g \in DOMAIN es : es2[g] = es[g]
    BY DEF Edge, get_edge, EdgePair, Put, e
  <2> QED BY <2>1, <2>2
<1> HIDE DEF e
<1>2. e \in DOMAIN es => es[e] = rel
  BY <1>1 DEF EdgesTyped
<1>3. es2[e] = rel
  BY <1>1, <1>2
<1>4. EdgesTyped(ns, es2, pr)
  BY <1>1, <1>3 DEF EdgesTyped
<1>5. ToldBy(ns, es2, pr) = ToldBy(ns, es, pr) \cup {Fact(rel, ns[s], ns[d])}
  <2>1. \A f \in ToldBy(ns, es, pr) : f \in ToldBy(ns, es2, pr)
    BY <1>1 DEF ToldBy
  <2>2. Fact(rel, ns[s], ns[d]) \in ToldBy(ns, es2, pr)
    BY <1>1, <1>3 DEF ToldBy
  <2>3. \A f \in ToldBy(ns, es2, pr) :
          f \in ToldBy(ns, es, pr) \/ f = Fact(rel, ns[s], ns[d])
    BY <1>1, <1>3 DEF ToldBy
  <2> QED BY <2>1, <2>2, <2>3
<1> QED BY <1>4, <1>5 DEF Agree

\* get_or_create_edge for a relation between two things that have just been looked up.
LEMMA EdgeSeen ==
  ASSUME NEW ns \in Seq(Things), NoTwins(ns), NEW es, NEW pr, NEW fs, NEW m, NEW lv, NEW n,
         Seen(ns, es, pr, fs, m, lv, n), ns # <<>>,
         NEW s, NEW x, Right(ns, s, x), NEW d, NEW y, Right(ns, d, y), x # y,
         ThingTyped(x, m, lv, n), ThingTyped(y, m, lv, n),
         NEW rel, rel = RelOf(x, y), NEW es2, es2 = Edge(es, s, d, rel)
  PROVE  Seen(ns, es2, pr, fs \cup {Fact(rel, x, y)}, m, lv, n)
<1> DEFINE f == Fact(rel, x, y)
           fs2 == fs \cup {f}
<1>1. s \in 1..Len(ns) /\ d \in 1..Len(ns) /\ rel # "Runs"
  BY RightIs DEF RelOf
<1>2. f.from = x /\ f.to = y /\ f = Fact(f.rel, f.from, f.to)
  BY DEF Fact
<1> HIDE DEF f
<1>3. FactsTyped(fs2, m, lv, n)
  BY <1>2 DEF Seen, FactsTyped
<1>4. EdgesTyped(ns, es, pr) /\ Agree(ns, es, pr, fs)
  BY DEF Seen
<1>5. CASE AboutFirst(s) \/ AboutFirst(d)
  <2>1. EdgesTyped(ns, es2, pr) /\ Agree(ns, es2, pr, fs)
    BY <1>1, <1>4, <1>5, DoubtfulEdge
  <2>2. Excused(ns, f)
    BY <1>2, <1>5, RightIs DEF Excused
  <2>3. Agree(ns, es2, pr, fs2)
    BY <2>1, <2>2 DEF Agree
  <2> QED BY <1>3, <2>1, <2>3 DEF Seen, f
<1>6. CASE ~AboutFirst(s) /\ ~AboutFirst(d)
  <2>1. ns[s] = x /\ ns[d] = y
    BY <1>6, RightIs
  <2>2. s # d
    BY <2>1
  <2>3. EdgesTyped(ns, es2, pr) /\ Agree(ns, es2, pr, fs2)
    BY <1>1, <1>4, <1>6, <2>1, <2>2, RightEdge DEF f
  <2> QED BY <1>3, <2>3 DEF Seen, f
<1> QED BY <1>5, <1>6

\* The read edge, and the test for a write edge before it.
LEMMA ReadSeen ==
  ASSUME NEW ns \in Seq(Things), NoTwins(ns), NEW es, NEW pr, NEW fs, NEW m, NEW lv, NEW n,
         Seen(ns, es, pr, fs, m, lv, n), ns # <<>>,
         NEW v, NEW y, y.kind = "inode", Right(ns, v, y),
         NEW a, NEW x, x.kind = "life", Right(ns, a, x),
         ThingTyped(x, m, lv, n), ThingTyped(y, m, lv, n),
         NEW read, NEW es2, es2 = ReadEdge(es, v, a, read), NEW fs2,
         fs2 = fs \cup (IF read /\ Fact("WasGeneratedBy", y, x) \notin fs
                        THEN {Fact("Used", x, y)} ELSE {})
  PROVE  Seen(ns, es2, pr, fs2, m, lv, n)
<1> DEFINE w == Fact("WasGeneratedBy", y, x)
           u == Fact("Used", x, y)
<1>1. /\ w.rel = "WasGeneratedBy" /\ w.from = y /\ w.to = x
      /\ RelOf(x, y) = "Used" /\ RelOf(y, x) = "WasGeneratedBy" /\ x # y
  BY DEF Fact, RelOf
<1>2. v \in 1..Len(ns) /\ a \in 1..Len(ns)
  BY RightIs
<1>3. Seen(ns, Edge(es, a, v, "Used"), pr, fs \cup {u}, m, lv, n)
  BY <1>1, EdgeSeen
<1> HIDE DEF w, u
<1>4. CASE AboutFirst(v) \/ AboutFirst(a)
  <2>1. Excused(ns, u)
    BY <1>4, RightIs DEF Excused, u, Fact
  <2>2. Agree(ns, es, pr, fs \cup {u}) /\ FactsTyped(fs \cup {u}, m, lv, n)
    BY <1>3, <2>1 DEF Agree, Seen
  <2>3. EdgesTyped(ns, Edge(es, a, v, "Used"), pr) /\ Agree(ns, Edge(es, a, v, "Used"), pr, fs)
    BY <1>2, <1>4, DoubtfulEdge DEF Seen
  <2>4. Agree(ns, Edge(es, a, v, "Used"), pr, fs \cup {u})
    BY <1>3 DEF Seen
  <2>5. fs2 = fs \/ fs2 = fs \cup {u}
    BY DEF u
  <2>6. es2 = es \/ es2 = Edge(es, a, v, "Used")
    BY DEF ReadEdge
  <2>7. Agree(ns, es2, pr, fs2) /\ EdgesTyped(ns, es2, pr) /\ FactsTyped(fs2, m, lv, n)
    BY <2>2, <2>3, <2>4, <2>5, <2>6 DEF Seen
  <2> QED BY <2>7 DEF Seen
<1>5. CASE ~AboutFirst(v) /\ ~AboutFirst(a)
  <2>1. ns[v] = y /\ ns[a] = x
    BY <1>5, RightIs
  <2>2. ~Excused(ns, w)
    <3>1. atBoot \/ (v # 1 /\ a # 1)
      BY <1>5 DEF AboutFirst
    <3>2. 1 \in 1..Len(ns)
      BY <1>2
    <3>3. atBoot \/ (ns[1] # y /\ ns[1] # x)
      BY <1>2, <2>1, <3>1, <3>2 DEF NoTwins
    <3> QED BY <1>1, <1>2, <2>1, <3>3 DEF Excused, Doubtful
  <2>3. get_edge(es, v, a) => w \in ToldBy(ns, es, pr)
    <3>1. ASSUME NEW e, e = <<v, a>>, e \in DOMAIN es PROVE w \in ToldBy(ns, es, pr)
      <4>1. e[1] = v /\ e[2] = a
        BY <3>1
      <4>2. es[e] = "WasGeneratedBy"
        BY <1>1, <1>5, <2>1, <3>1, <4>1 DEF Seen, EdgesTyped
      <4>3. w = Fact(es[e], ns[e[1]], ns[e[2]])
        BY <2>1, <4>1, <4>2 DEF w
      <4> QED BY <3>1, <4>3 DEF ToldBy
    <3> QED BY <3>1 DEF get_edge, EdgePair
  <2>4. w \in ToldBy(ns, es, pr) => get_edge(es, v, a)
    <3> SUFFICES ASSUME w \in ToldBy(ns, es, pr) PROVE get_edge(es, v, a)
      OBVIOUS
    <3>1. PICK e \in DOMAIN es : w = Fact(es[e], ns[e[1]], ns[e[2]])
      BY <1>1 DEF ToldBy, Fact
    <3>2. ns[e[1]] = y /\ ns[e[2]] = x
      BY <1>1, <3>1 DEF Fact
    <3>3. e[1] \in 1..Len(ns) /\ e[2] \in 1..Len(ns) /\ e = <<e[1], e[2]>>
      BY DEF Seen, EdgesTyped
    <3>4. e[1] = v /\ e[2] = a
      BY <1>2, <2>1, <3>2, <3>3 DEF NoTwins
    <3> QED BY <3>3, <3>4 DEF get_edge, EdgePair
  <2>5. get_edge(es, v, a) <=> w \in fs
    BY <2>2, <2>3, <2>4 DEF Seen, Agree
  <2>6. CASE read /\ w \notin fs
    BY <1>3, <2>5, <2>6 DEF ReadEdge, w, u
  <2>7. CASE ~(read /\ w \notin fs)
    BY <2>5, <2>7 DEF ReadEdge, w
  <2> QED BY <2>6, <2>7
<1> QED BY <1>4, <1>5

\* A new life of an id that is free.
LEMMA NewLife ==
  ASSUME NEW ns, NEW m, NEW lv, NEW n, LivesOK(ns, m, lv, n), NEW d \in Creds, d \notin DOMAIN lv,
         NEW k, k = n + 1, NEW lv2, lv2 = Put(lv, d, k)
  PROVE  /\ LivesOK(ns, m, lv2, k)
         /\ DOMAIN lv2 = DOMAIN lv \cup {d} /\ lv2[d] = k
         /\ \A c \in DOMAIN lv : lv2[c] = lv[c]
         /\ MapRight(ns, m, lv) => MapRight(ns, m, lv2)
         /\ \A fs : FactsTyped(fs, m, lv, n) => FactsTyped(fs, m, lv2, k)
<1>1. /\ DOMAIN lv2 = DOMAIN lv \cup {d} /\ lv2[d] = k
      /\ \A c \in DOMAIN lv : lv2[c] = lv[c]
  BY DEF Put
<1>2. n \in Nat /\ k = n + 1 /\ \A c \in DOMAIN lv : lv[c] \in 1..n
  BY DEF LivesOK, Numbered
<1>3. Numbered(lv2, k)
  BY <1>1, <1>2 DEF LivesOK, Numbered
<1>4. LivesBegun(ns, k)
  BY <1>2 DEF LivesOK, LivesBegun
<1>5. LifePoints(ns, m, lv2)
  <2>1. \A i \in 1..Len(ns) : ns[i] # Life(k)
    BY <1>2, KindsDiffer DEF LivesOK, LivesBegun
  <2> QED BY <1>1, <2>1 DEF LivesOK, LifePoints
<1>6. MapRight(ns, m, lv) => MapRight(ns, m, lv2)
  BY <1>1 DEF MapRight
<1>7. ASSUME NEW x, ThingTyped(x, m, lv, n) PROVE ThingTyped(x, m, lv2, k)
  BY <1>1, <1>2, <1>7 DEF ThingTyped, LifeIsKnown
<1>8. \A fs : FactsTyped(fs, m, lv, n) => FactsTyped(fs, m, lv2, k)
  BY <1>7 DEF FactsTyped
<1> QED BY <1>1, <1>3, <1>4, <1>5, <1>6, <1>8 DEF LivesOK

\* The end of a life.
LEMMA LifeEnds ==
  ASSUME NEW ns, NEW m, NEW lv, NEW n, LivesOK(ns, m, lv, n), NEW c,
         NEW lv2, lv2 = Without(lv, c)
  PROVE  /\ LivesOK(ns, m, lv2, n)
         /\ LivesOK(ns, Without(m, c), lv2, n)
         /\ \A es, pr, fs : Seen(ns, es, pr, fs, m, lv, n)
                              => Seen(ns, es, pr, fs, Without(m, c), lv2, n)
<1> DEFINE m2 == Without(m, c)
<1>1. /\ DOMAIN lv2 = DOMAIN lv \ {c} /\ \A d \in DOMAIN lv2 : lv2[d] = lv[d]
      /\ DOMAIN m2 = DOMAIN m \ {c} /\ \A d \in DOMAIN m2 : m2[d] = m[d]
  BY DEF Without, Restrict
<1> HIDE DEF m2
<1>2. Numbered(lv2, n) /\ LivesBegun(ns, n)
  BY <1>1 DEF LivesOK, Numbered
<1>3. LifePoints(ns, m, lv2) /\ LifePoints(ns, m2, lv2)
  BY <1>1 DEF LivesOK, LifePoints
<1>4. ASSUME NEW es, NEW pr, NEW fs, Seen(ns, es, pr, fs, m, lv, n)
      PROVE  Seen(ns, es, pr, fs, m2, lv2, n)
  <2>1. MapRight(ns, m2, lv2) /\ AllMapped(m2, lv2)
    BY <1>1, <1>4 DEF Seen, MapRight, AllMapped
  <2>2. FactsTyped(fs, m2, lv2, n)
    BY <1>1, <1>4 DEF Seen, FactsTyped, ThingTyped, LifeIsKnown
  <2> QED BY <1>4, <2>1, <2>2 DEF Seen
<1> QED BY <1>2, <1>3, <1>4 DEF LivesOK, m2

\* What the facts and the maps need to know of a living credential.
LEMMA LifeTyped ==
  ASSUME NEW lv, NEW n, Numbered(lv, n), NEW c \in DOMAIN lv, NEW m, c \in DOMAIN m
  PROVE  ThingTyped(Life(lv[c]), m, lv, n)
<1>1. lv[c] \in 1..n /\ n \in Nat /\ \A d \in DOMAIN lv : lv[d] = lv[c] => d = c
  BY DEF Numbered
<1>2. lv[c] \in Nat
  BY <1>1
<1> QED BY <1>1, <1>2, KindsDiffer, LifeIsThing DEF ThingTyped, LifeIsKnown

LEMMA OtherTyped ==
  ASSUME NEW x \in Things, x.kind # "life", NEW m, NEW lv, NEW n
  PROVE  ThingTyped(x, m, lv, n)
  BY DEF ThingTyped, LifeIsKnown

\* The attributes of a program on a node, in place of an earlier one's.
LEMMA ProgSeen ==
  ASSUME NEW ns \in Seq(Things), NoTwins(ns), NEW es, NEW pr, NEW fs, NEW m, NEW lv, NEW n,
         Seen(ns, es, pr, fs, m, lv, n),
         NEW a, NEW x, x.kind = "life", Right(ns, a, x), ThingTyped(x, m, lv, n),
         NEW iv, Inode(iv) \in Things,
         NEW pr2, pr2 = IF a \in 1..Len(ns) THEN Put(pr, a, iv) ELSE pr, NEW fs2,
         fs2 = {f \in fs : f.rel # "Runs" \/ f.from # x} \cup {Fact("Runs", x, Inode(iv))}
  PROVE  Seen(ns, es, pr2, fs2, m, lv, n)
<1> DEFINE r == Fact("Runs", x, Inode(iv))
<1>1. r.rel = "Runs" /\ r.from = x /\ r.to = Inode(iv) /\ r = Fact(r.rel, r.from, r.to)
  BY DEF Fact
<1>2. /\ DOMAIN pr \subseteq DOMAIN pr2 /\ DOMAIN pr2 \subseteq DOMAIN pr \cup {a}
      /\ DOMAIN pr2 \subseteq 1..Len(ns)
      /\ \A i \in DOMAIN pr : i # a => pr2[i] = pr[i]
      /\ a \in 1..Len(ns) => a \in DOMAIN pr2 /\ pr2[a] = iv
  <2>1. DOMAIN pr \subseteq 1..Len(ns)
    BY DEF Seen, EdgesTyped
  <2> QED BY <2>1 DEF Put
<1> HIDE DEF r
<1>3. EdgesTyped(ns, es, pr2)
  BY <1>2 DEF Seen, EdgesTyped
<1>4. FactsTyped(fs2, m, lv, n)
  <2>1. ThingTyped(Inode(iv), m, lv, n)
    BY OtherTyped, KindsDiffer
  <2>2. \A f \in fs2 : f \in fs \/ f = r
    BY DEF r
  <2> QED BY <1>1, <2>1, <2>2 DEF Seen, FactsTyped
<1>5. /\ a \in 1..Len(ns) => ns[a] = x \/ (Doubtful(ns, ns[a]) /\ Doubtful(ns, x))
      /\ a \notin 1..Len(ns) => Doubtful(ns, x)
  BY RightIs
<1>6. /\ r \in fs2
      /\ \A f \in fs2 : f \in fs \/ f = r
      /\ \A f \in fs : f.rel # "Runs" \/ f.from # x => f \in fs2
      /\ \A f \in fs2 : f = r \/ f.rel # "Runs" \/ f.from # x
  BY DEF r
<1>7. ASSUME NEW f \in ToldBy(ns, es, pr2) PROVE f \in fs2 \/ Excused(ns, f)
  <2>1. CASE \E e \in DOMAIN es : f = Fact(es[e], ns[e[1]], ns[e[2]])
    <3>1. PICK e \in DOMAIN es : f = Fact(es[e], ns[e[1]], ns[e[2]])
      BY <2>1
    <3>2. f.rel # "Runs"
      BY <3>1 DEF Seen, EdgesTyped, Fact
    <3>3. f \in ToldBy(ns, es, pr)
      BY <3>1 DEF ToldBy
    <3> QED BY <1>6, <3>2, <3>3 DEF Seen, Agree
  <2>2. CASE \E i \in DOMAIN pr2 : f = Fact("Runs", ns[i], Inode(pr2[i]))
    <3>1. PICK i \in DOMAIN pr2 : f = Fact("Runs", ns[i], Inode(pr2[i]))
      BY <2>2
    <3>2. f.from = ns[i] /\ f.rel = "Runs"
      BY <3>1 DEF Fact
    <3>3. CASE i = a
      <4>1. CASE ns[a] = x
        BY <1>2, <1>6, <3>1, <3>3, <4>1 DEF r
      <4>2. CASE Doubtful(ns, ns[a])
        BY <3>2, <3>3, <4>2 DEF Excused
      <4> QED BY <1>2, <1>5, <3>3, <4>1, <4>2
    <3>4. CASE i # a
      <4>1. f \in ToldBy(ns, es, pr)
        BY <1>2, <3>1, <3>4 DEF ToldBy
      <4>2. f \in fs \/ Excused(ns, f)
        BY <4>1 DEF Seen, Agree
      <4>3. CASE f.from # x
        BY <1>6, <4>2, <4>3
      <4>4. CASE f.from = x
        <5>1. i \in 1..Len(ns) /\ ns[i] = x
          BY <1>2, <3>2, <4>4
        <5>2. a \in 1..Len(ns) => ns[a] # x
          BY <3>4, <5>1 DEF NoTwins
        <5> QED BY <1>5, <4>4, <5>2 DEF Excused
      <4> QED BY <4>3, <4>4
    <3> QED BY <3>3, <3>4
  <2> QED BY <2>1, <2>2 DEF ToldBy
<1>8. ASSUME NEW f \in fs2 PROVE f \in ToldBy(ns, es, pr2) \/ Excused(ns, f)
  <2>1. CASE f = r
    <3>1. CASE a \in 1..Len(ns) /\ ns[a] = x
      <4>1. a \in DOMAIN pr2 /\ r = Fact("Runs", ns[a], Inode(pr2[a]))
        BY <1>2, <3>1 DEF r
      <4> QED BY <2>1, <4>1 DEF ToldBy
    <3>2. CASE Doubtful(ns, x)
      BY <1>1, <2>1, <3>2 DEF Excused
    <3> QED BY <1>5, <3>1, <3>2
  <2>2. CASE f # r
    <3>1. f \in fs /\ (f.rel # "Runs" \/ f.from # x)
      BY <1>6, <2>2
    <3>2. CASE \E e \in DOMAIN es : f = Fact(es[e], ns[e[1]], ns[e[2]])
      BY <3>2 DEF ToldBy
    <3>3. CASE \E i \in DOMAIN pr : f = Fact("Runs", ns[i], Inode(pr[i]))
      <4>1. PICK i \in DOMAIN pr : f = Fact("Runs", ns[i], Inode(pr[i]))
        BY <3>3
      <4>2. f.from = ns[i] /\ f.rel = "Runs"
        BY <4>1 DEF Fact
      <4>3. CASE i = a
        BY <1>2, <1>5, <3>1, <4>2, <4>3 DEF Excused
      <4>4. CASE i # a
        BY <1>2, <4>1, <4>4 DEF ToldBy
      <4> QED BY <4>3, <4>4
    <3>4. CASE Excused(ns, f)
      BY <3>4
    <3>5. f \in ToldBy(ns, es, pr) \/ Excused(ns, f)
      BY <3>1 DEF Seen, Agree
    <3> QED BY <3>2, <3>3, <3>4, <3>5 DEF ToldBy
  <2> QED BY <2>1, <2>2
<1>9. Agree(ns, es, pr2, fs2)
  BY <1>7, <1>8 DEF Agree
<1> QED BY <1>3, <1>4, <1>9 DEF Seen

-----------------------------------------------------------------------------
(* The handlers *)

\* What every process may say of a step that leaves it reading.
LEMMA SeenPrime ==
  ASSUME atBoot' <=> atBoot, Seen(nodes', edges', prog', facts', CredMap', lives', forked')
  PROVE  SeenInv'
<1>1. (MapRight(nodes, CredMap, lives) /\ AllMapped(CredMap, lives))'
  BY DEF Seen, MapRight, AllMapped, Right
<1>2. EdgesTyped(nodes, edges, prog)'
  BY DEF Seen, EdgesTyped, AboutFirst
<1>3. FactsTyped(facts, CredMap, lives, forked)'
  BY DEF Seen, FactsTyped, ThingTyped, LifeIsKnown
<1>4. Agree(nodes, edges, prog, facts)'
  BY DEF Seen, Agree, Excused, Doubtful, ToldBy
<1> QED BY <1>1, <1>2, <1>3, <1>4 DEF SeenInv, Seen

LEMMA BootStep ==
  ASSUME SnapInv, NEW c \in Creds, handle_boot(c), atBoot' <=> atBoot
  PROVE  NodesInv' /\ (SeenInv => SeenInv')
<1>1. nodes = <<>> /\ prog = Empty /\ edges = Empty /\ CredMap = Empty /\ facts = {} /\ lives = Empty /\ forked = 0
  BY DEF handle_boot, SnapInv, Blank
<1> DEFINE b == Node(nodes, CredMap, c, Life(1))
<1>2. c \notin DOMAIN CredMap /\ DOMAIN CredMap = {} /\ DOMAIN lives = {}
  BY <1>1 DEF Empty
<1>3. b.ns = Append(nodes, Life(1)) /\ b.map = Put(CredMap, c, 1) /\ b.id = 1
  <2>1. Len(nodes) = 0
    BY <1>1
  <2> QED BY <1>2, <2>1 DEF Node
<1>4. nodes' = <<Life(1)>> /\ CredMap' = Put(Put(CredMap, c, 1), c, 1)
  BY <1>1, <1>3 DEF handle_boot
<1>5. DOMAIN CredMap' = {c} /\ CredMap'[c] = 1
  BY <1>2, <1>4 DEF Put
<1>6. lives' = Put(lives, c, 1) /\ DOMAIN lives' = {c} /\ lives'[c] = 1 /\ forked' = 1
  BY <1>2 DEF handle_boot, Put
<1>7. UNCHANGED <<prog, edges, facts, InodeVersionMap, UserMap, GroupMap, SockSendMap, SockRecvMap>>
  BY DEF handle_boot
<1> DEFINE t == nodes'
<1>8. /\ t \in Seq(Things) /\ Len(t) = 1 /\ t[1] = Life(1) /\ \A i \in 1..Len(t) : i = 1
      /\ 1 \in 1..Len(t)
  BY <1>4, LifeIsThing
<1>9. NoTwins(t) /\ Len(nodes) = 0
  BY <1>1, <1>8 DEF NoTwins
<1>10. Life(1).kind = "life" /\ Life(1).key = 1
  BY KindsDiffer
<1>11. \A m, kind : kind # "life" /\ Points(nodes, m, kind) => Points(t, m, kind)
  BY <1>8, <1>9, <1>10 DEF Points
<1>12. LivesOK(t, CredMap', lives', forked')
  <2>1. \A n : Life(1) = Life(n) => n = 1
    BY KindsDiffer
  <2>2. Numbered(lives', forked')
    BY <1>6 DEF Numbered
  <2>3. LivesBegun(t, forked')
    BY <1>6, <1>8, <1>10 DEF LivesBegun
  <2>4. LifePoints(t, CredMap', lives')
    BY <1>5, <1>6, <1>8 DEF LifePoints
  <2> QED BY <2>2, <2>3, <2>4 DEF LivesOK
<1> HIDE DEF t
<1>13. t \in Seq(Things) /\ NoTwins(t) /\ t = nodes'
  BY <1>8, <1>9 DEF t
<1>14. NodesInv'
  BY <1>7, <1>11, <1>12, <1>13 DEF NodesInv, SnapInv
<1>15. Seen(t, edges, prog, facts, CredMap', lives', forked')
  <2>1. Right(t, 1, Life(1))
    BY <1>8 DEF Right
  <2>2. MapRight(t, CredMap', lives') /\ AllMapped(CredMap', lives')
    BY <1>5, <1>6, <2>1 DEF MapRight, AllMapped
  <2>3. DOMAIN prog = {} /\ DOMAIN edges = {}
    BY <1>1 DEF Empty
  <2>4. EdgesTyped(t, edges, prog) /\ FactsTyped(facts, CredMap', lives', forked')
    BY <1>1, <2>3 DEF EdgesTyped, FactsTyped
  <2>5. Agree(t, edges, prog, facts)
    BY <1>1, <2>3 DEF Agree, ToldBy
  <2> QED BY <2>2, <2>4, <2>5 DEF Seen
<1>16. SeenInv'
  BY <1>7, <1>13, <1>15, SeenPrime
<1> QED BY <1>14, <1>16

LEMMA CredforkStep ==
  ASSUME NodesInv, NEW c \in Creds, NEW d \in Creds, handle_credfork(c, d), atBoot' <=> atBoot
  PROVE  NodesInv' /\ (SeenInv => SeenInv')
<1> DEFINE old == Node(nodes, CredMap, c, Life(lives[c]))
           lv2 == Put(lives, d, forked + 1)
           new == Node(old.ns, old.map, d, Life(lv2[d]))
<1>1. c \in DOMAIN lives /\ d \notin DOMAIN lives /\ c # d
  BY DEF handle_credfork
<1>2. lv2[d] = forked + 1 /\ d \in DOMAIN lv2 /\ c \in DOMAIN lv2 /\ lv2[c] = lives[c]
  BY <1>1 DEF Put
<1>3. /\ nodes' = new.ns /\ CredMap' = new.map
      /\ edges' = Edge(edges, new.id, old.id, "WasForkedFrom")
      /\ lives' = lv2 /\ forked' = forked + 1
      /\ facts' = facts \cup {Fact("WasForkedFrom", Life(lv2[d]), Life(lives[c]))}
      /\ UNCHANGED <<prog, InodeVersionMap, UserMap, GroupMap, SockSendMap, SockRecvMap>>
  BY <1>2 DEF handle_credfork, Me
<1>4. /\ nodes \in Seq(Things) /\ NoTwins(nodes) /\ LivesOK(nodes, CredMap, lives, forked)
      /\ Numbered(lives, forked)
  BY DEF NodesInv, LivesOK
<1> HIDE DEF lv2, old, new
<1>5. /\ Grown(nodes, old.ns, "life") /\ LivesOK(old.ns, old.map, lives, forked)
      /\ DOMAIN old.map = DOMAIN CredMap \cup {c} /\ old.id = old.map[c]
  BY <1>1, <1>4, LifeNode DEF old, LivesOK
<1>6. /\ LivesOK(old.ns, old.map, lv2, forked + 1)
      /\ DOMAIN lv2 = DOMAIN lives \cup {d}
      /\ MapRight(old.ns, old.map, lives) => MapRight(old.ns, old.map, lv2)
      /\ \A fs : FactsTyped(fs, old.map, lives, forked) => FactsTyped(fs, old.map, lv2, forked + 1)
  <2>1. lv2 = Put(lives, d, forked + 1)
    BY DEF lv2
  <2>2. d \in Creds /\ d \notin DOMAIN lives /\ LivesOK(old.ns, old.map, lives, forked)
    BY <1>1, <1>5
  <2> DEFINE n == old.ns
             m == old.map
  <2> HIDE DEF n, m
  <2>3. LivesOK(n, m, lives, forked)
    BY <2>2 DEF n, m
  <2>4. /\ LivesOK(n, m, lv2, forked + 1)
        /\ DOMAIN lv2 = DOMAIN lives \cup {d}
        /\ MapRight(n, m, lives) => MapRight(n, m, lv2)
        /\ \A fs : FactsTyped(fs, m, lives, forked) => FactsTyped(fs, m, lv2, forked + 1)
    <3>1. PICK k : k = forked + 1
      OBVIOUS
    <3>2. lv2 = Put(lives, d, k)
      BY <2>1, <3>1
    <3>3. /\ LivesOK(n, m, lv2, k)
          /\ DOMAIN lv2 = DOMAIN lives \cup {d}
          /\ MapRight(n, m, lives) => MapRight(n, m, lv2)
          /\ \A fs : FactsTyped(fs, m, lives, forked) => FactsTyped(fs, m, lv2, k)
      BY <2>2, <2>3, <3>1, <3>2, NewLife
    <3> QED BY <3>1, <3>3
  <2> QED BY <2>4 DEF n, m
<1>7. old.ns \in Seq(Things) /\ NoTwins(old.ns)
  BY <1>5 DEF Grown
<1>8. /\ Grown(old.ns, new.ns, "life") /\ LivesOK(new.ns, new.map, lv2, forked + 1)
      /\ DOMAIN new.map = DOMAIN old.map \cup {d} /\ new.id = new.map[d]
      /\ d \notin DOMAIN old.map => new.id \in 1..Len(new.ns)
      /\ new.map[c] = old.map[c]
  <2>1. Numbered(lv2, forked + 1) /\ LivesBegun(old.ns, forked + 1) /\ LifePoints(old.ns, old.map, lv2)
    BY <1>6 DEF LivesOK
  <2>2. c \in DOMAIN old.map
    BY <1>5
  <2> QED BY <1>1, <1>2, <1>7, <2>1, <2>2, LifeNode DEF new, LivesOK
<1>9. new.ns \in Seq(Things) /\ NoTwins(new.ns) /\ Len(nodes) \in Nat /\ Len(old.ns) \in Nat
  BY <1>4, <1>7, <1>8 DEF Grown
<1>10. NodesInv'
  <2>1. \A m, kind : kind # "life" /\ Points(nodes, m, kind) => Points(new.ns, m, kind)
    BY <1>5, <1>8, <1>9, GrownPoints
  <2> QED BY <1>3, <1>8, <1>9, <2>1 DEF NodesInv
<1>11. ASSUME SeenInv PROVE SeenInv'
  <2>1. /\ EdgesTyped(nodes, edges, prog) /\ Agree(nodes, edges, prog, facts)
        /\ MapRight(nodes, CredMap, lives) /\ FactsTyped(facts, CredMap, lives, forked)
    BY <1>11 DEF SeenInv, Seen
  <2>2. /\ MapRight(old.ns, old.map, lives) /\ EdgesTyped(old.ns, edges, prog)
        /\ FactsTyped(facts, old.map, lives, forked) /\ Agree(old.ns, edges, prog, facts)
    BY <1>1, <1>4, <2>1, LifeSeen DEF old
  <2>3. MapRight(old.ns, old.map, lv2) /\ FactsTyped(facts, old.map, lv2, forked + 1)
    BY <1>6, <2>2
  <2>4. /\ MapRight(new.ns, new.map, lv2) /\ EdgesTyped(new.ns, edges, prog)
        /\ FactsTyped(facts, new.map, lv2, forked + 1) /\ Agree(new.ns, edges, prog, facts)
        /\ Right(new.ns, new.id, Life(lv2[d]))
    BY <1>2, <1>6, <1>7, <2>2, <2>3, LifeSeen DEF new
  <2>5. c \in DOMAIN new.map /\ d \in DOMAIN new.map /\ AllMapped(new.map, lv2)
    BY <1>5, <1>6, <1>8, <1>11 DEF SeenInv, Seen, AllMapped
  <2>6. Right(new.ns, old.id, Life(lives[c]))
    BY <1>2, <1>5, <1>8, <2>4, <2>5 DEF MapRight
  <2>7. new.ns # <<>>
    <3>1. d \notin DOMAIN old.map
      BY <1>1, <2>2 DEF MapRight
    <3>2. new.id \in 1..Len(new.ns)
      BY <1>8, <3>1
    <3> QED BY <3>2
  <2>8. Seen(new.ns, edges, prog, facts, new.map, lv2, forked + 1)
    BY <2>4, <2>5 DEF Seen
  <2>9. ThingTyped(Life(lv2[d]), new.map, lv2, forked + 1) /\ ThingTyped(Life(lives[c]), new.map, lv2, forked + 1)
    BY <1>2, <1>8, <2>5, LifeTyped DEF LivesOK
  <2>10. /\ Life(lv2[d]) # Life(lives[c])
         /\ RelOf(Life(lv2[d]), Life(lives[c])) = "WasForkedFrom"
    <3>1. lv2[d] # lives[c]
      BY <1>1, <1>2, <1>8 DEF LivesOK, Numbered
    <3> QED BY <3>1, KindsDiffer DEF RelOf
  <2>11. Seen(new.ns, edges', prog, facts', new.map, lv2, forked + 1)
    BY <1>3, <1>9, <2>4, <2>6, <2>7, <2>8, <2>9, <2>10, EdgeSeen
  <2> QED BY <1>3, <2>11, SeenPrime
<1> QED BY <1>10, <1>11

LEMMA CredfreeStep ==
  ASSUME NodesInv, NEW c \in Creds, handle_credfree(c), atBoot' <=> atBoot
  PROVE  NodesInv' /\ (SeenInv => SeenInv')
<1>1. /\ LivesOK(nodes, CredMap', lives', forked)
      /\ SeenInv => Seen(nodes, edges, prog, facts, CredMap', lives', forked)
  BY LifeEnds DEF handle_credfree, NodesInv, SeenInv
<1>2. UNCHANGED <<nodes, edges, prog, facts, forked, InodeVersionMap, UserMap, GroupMap, SockSendMap, SockRecvMap>>
  BY DEF handle_credfree, graph
<1> QED BY <1>1, <1>2, SeenPrime DEF NodesInv

LEMMA ExecStep ==
  ASSUME NodesInv, NEW c \in Creds, NEW iv \in Versions, handle_exec(c, iv), atBoot' <=> atBoot
  PROVE  NodesInv' /\ (SeenInv => SeenInv')
<1> DEFINE a == CredNode(c)
<1>1. /\ c \in DOMAIN lives /\ CredMap' = a.map
      /\ prog' = IF a.id \in 1..Len(nodes) THEN Put(prog, a.id, iv) ELSE prog
      /\ facts' = {f \in facts : f.rel # "Runs" \/ f.from # Me(c)} \cup {Fact("Runs", Me(c), Inode(iv))}
      /\ UNCHANGED <<nodes, edges, lives, forked, InodeVersionMap, UserMap, GroupMap, SockSendMap, SockRecvMap>>
  BY DEF handle_exec, Ids
<1>2. /\ LivesOK(nodes, a.map, lives, forked)
      /\ SeenInv => /\ Seen(nodes, edges, prog, facts, a.map, lives, forked)
                    /\ Right(nodes, a.id, Me(c)) /\ c \in DOMAIN a.map
  BY <1>1, CredSeen
<1> HIDE DEF a
<1>3. NodesInv'
  BY <1>1, <1>2 DEF NodesInv
<1>4. ASSUME SeenInv PROVE SeenInv'
  <2>1. ThingTyped(Me(c), a.map, lives, forked) /\ Me(c).kind = "life"
    BY <1>1, <1>2, <1>4, LifeTyped, KindsDiffer DEF Me, NodesInv, LivesOK
  <2>2. Inode(iv) \in Things
    BY DEF Inode, Things
  <2>3. nodes \in Seq(Things) /\ NoTwins(nodes)
    BY DEF NodesInv
  <2>4. Seen(nodes, edges, prog', facts', a.map, lives, forked)
    BY <1>1, <1>2, <1>4, <2>1, <2>2, <2>3, ProgSeen
  <2> QED BY <1>1, <2>4, SeenPrime
<1> QED BY <1>3, <1>4

\* The maps of the other kinds, in one step.
OtherPoints(ns, kind) ==
  /\ kind # "inode" => Points(ns, InodeVersionMap, "inode")
  /\ kind # "user" => Points(ns, UserMap, "user")
  /\ kind # "group" => Points(ns, GroupMap, "group")
  /\ kind # "sent" => Points(ns, SockSendMap, "sent")
  /\ kind # "received" => Points(ns, SockRecvMap, "received")

LEMMA OthersKept ==
  ASSUME NodesInv, NEW t, NEW kind, Grown(nodes, t, kind)
  PROVE  OtherPoints(t, kind)
<1>1. Len(nodes) \in Nat
  BY DEF NodesInv
<1> QED BY <1>1, GrownPoints DEF OtherPoints, NodesInv

\* A record between a credential and a thing that gets its node first.
LEMMA NodeAndLife ==
  ASSUME NodesInv, NEW c \in DOMAIN lives, NEW m, NEW kind, kind # "life", Points(nodes, m, kind),
         NEW k, NEW x \in Things, x = [kind |-> kind, key |-> k],
         NEW n, n = Node(nodes, m, k, x), NEW a, a = CredNode(c)
  PROVE  /\ n.ns \in Seq(Things) /\ NoTwins(n.ns) /\ n.ns # <<>>
         /\ Points(n.ns, n.map, kind) /\ OtherPoints(n.ns, kind)
         /\ LivesOK(n.ns, a.map, lives, forked)
         /\ Right(n.ns, n.id, x) /\ x # Me(c) /\ Me(c).kind = "life" /\ x.kind = kind
         /\ SeenInv => /\ Seen(n.ns, edges, prog, facts, a.map, lives, forked)
                       /\ Right(n.ns, a.id, Me(c))
                       /\ ThingTyped(Me(c), a.map, lives, forked)
                       /\ ThingTyped(x, a.map, lives, forked)
<1>1. nodes \in Seq(Things) /\ NoTwins(nodes) /\ Len(nodes) \in Nat /\ Numbered(lives, forked)
  BY DEF NodesInv, LivesOK
<1>2. /\ Grown(nodes, n.ns, kind) /\ Points(n.ns, n.map, kind)
      /\ n.id \in 1..Len(n.ns) /\ n.ns[n.id] = x
  BY <1>1, NodePoints
<1>3. n.ns \in Seq(Things) /\ NoTwins(n.ns) /\ n.ns # <<>>
  BY <1>2 DEF Grown
<1>4. OtherPoints(n.ns, kind)
  BY <1>2, OthersKept
<1>5. /\ LivesOK(nodes, a.map, lives, forked)
      /\ SeenInv => /\ Seen(nodes, edges, prog, facts, a.map, lives, forked)
                    /\ Right(nodes, a.id, Me(c)) /\ c \in DOMAIN a.map
  BY CredSeen
<1>6. /\ LivesOK(n.ns, a.map, lives, forked)
      /\ SeenInv => Seen(n.ns, edges, prog, facts, a.map, lives, forked)
  BY <1>1, <1>2, <1>5, OtherSeen
<1>7. x.kind = kind /\ Me(c).kind = "life"
  BY KindsDiffer DEF Me
<1>8. Right(nodes, a.id, Me(c)) => Right(n.ns, a.id, Me(c))
  <2>1. \A i \in 1..Len(nodes) : n.ns[i] = nodes[i] /\ i \in 1..Len(n.ns)
    BY <1>1, <1>2 DEF Grown
  <2>2. \A i \in 1..Len(n.ns) : i \in 1..Len(nodes) \/ n.ns[i].kind = kind
    BY <1>2 DEF Grown
  <2> QED BY <1>7, <2>1, <2>2 DEF Right
<1>9. SeenInv => ThingTyped(Me(c), a.map, lives, forked) /\ ThingTyped(x, a.map, lives, forked)
  BY <1>1, <1>5, <1>7, LifeTyped, OtherTyped DEF Me
<1> QED BY <1>2, <1>3, <1>4, <1>5, <1>6, <1>7, <1>8, <1>9 DEF Right

LEMMA FileStep ==
  ASSUME NodesInv, NEW c \in Creds, NEW iv \in Versions, NEW read \in BOOLEAN, NEW write \in BOOLEAN,
         handle_file_p(c, iv, read, write), atBoot' <=> atBoot
  PROVE  NodesInv' /\ (SeenInv => SeenInv')
<1> DEFINE n == Node(nodes, InodeVersionMap, iv, Inode(iv))
           a == CredNode(c)
           w == Fact("WasGeneratedBy", Inode(iv), Me(c))
           u == Fact("Used", Me(c), Inode(iv))
           es == IF write THEN Edge(edges, n.id, a.id, "WasGeneratedBy") ELSE edges
           fs == facts \cup (IF write THEN {w} ELSE {})
<1>1. /\ c \in DOMAIN lives
      /\ nodes' = n.ns /\ InodeVersionMap' = n.map /\ CredMap' = a.map
      /\ edges' = ReadEdge(es, n.id, a.id, read)
      /\ facts' = fs \cup (IF read /\ ~(write \/ w \in facts) THEN {u} ELSE {})
      /\ UNCHANGED <<prog, lives, forked, UserMap, GroupMap, SockSendMap, SockRecvMap>>
  BY DEF handle_file_p
<1>2. facts' = fs \cup (IF read /\ w \notin fs THEN {u} ELSE {})
  BY <1>1
<1>3. n = Node(nodes, InodeVersionMap, iv, Inode(iv)) /\ a = CredNode(c)
  OBVIOUS
<1> HIDE DEF n, a, w, u
<1>4. Inode(iv) \in Things /\ Inode(iv) = [kind |-> "inode", key |-> iv] /\ Points(nodes, InodeVersionMap, "inode")
  BY DEF Inode, Things, NodesInv
<1>5. /\ n.ns \in Seq(Things) /\ NoTwins(n.ns) /\ n.ns # <<>>
      /\ Points(n.ns, n.map, "inode") /\ OtherPoints(n.ns, "inode")
      /\ LivesOK(n.ns, a.map, lives, forked)
      /\ Right(n.ns, n.id, Inode(iv)) /\ Inode(iv) # Me(c) /\ Me(c).kind = "life" /\ Inode(iv).kind = "inode"
      /\ SeenInv => /\ Seen(n.ns, edges, prog, facts, a.map, lives, forked)
                    /\ Right(n.ns, a.id, Me(c))
                    /\ ThingTyped(Me(c), a.map, lives, forked)
                    /\ ThingTyped(Inode(iv), a.map, lives, forked)
  BY <1>1, <1>3, <1>4, NodeAndLife
<1>6. NodesInv'
  BY <1>1, <1>5 DEF NodesInv, OtherPoints
<1>7. ASSUME SeenInv PROVE SeenInv'
  <2>1. RelOf(Inode(iv), Me(c)) = "WasGeneratedBy"
    BY <1>5 DEF RelOf
  <2>2. Seen(n.ns, Edge(edges, n.id, a.id, "WasGeneratedBy"), prog, facts \cup {w}, a.map, lives, forked)
    BY <1>5, <1>7, <2>1, EdgeSeen DEF w
  <2>3. Seen(n.ns, es, prog, fs, a.map, lives, forked)
    BY <1>5, <1>7, <2>2
  <2> HIDE DEF es, fs
  <2>4. Seen(n.ns, edges', prog, facts', a.map, lives, forked)
    BY <1>1, <1>2, <1>5, <1>7, <2>3, ReadSeen DEF w, u
  <2> QED BY <1>1, <2>4, SeenPrime
<1> QED BY <1>6, <1>7

LEMMA SockStep ==
  ASSUME NodesInv, NEW c \in Creds, NEW p \in Ports, atBoot' <=> atBoot,
         handle_socksend(c, p) \/ handle_sockrecv(c, p)
  PROVE  NodesInv' /\ (SeenInv => SeenInv')
<1> DEFINE a == CredNode(c)
<1>1. c \in DOMAIN lives
  BY DEF handle_socksend, handle_sockrecv
<1>2. ASSUME NEW kind \in {"sent", "received"}, NEW m, Points(nodes, m, kind),
             NEW n, n = Node(nodes, m, <<c, p>>, Packet(kind, <<c, p>>))
      PROVE  /\ Packet(kind, <<c, p>>).kind = kind /\ Packet(kind, <<c, p>>) \in Things
             /\ n.ns \in Seq(Things) /\ NoTwins(n.ns) /\ n.ns # <<>>
             /\ Points(n.ns, n.map, kind) /\ OtherPoints(n.ns, kind)
             /\ LivesOK(n.ns, a.map, lives, forked)
             /\ Right(n.ns, n.id, Packet(kind, <<c, p>>)) /\ Packet(kind, <<c, p>>) # Me(c)
             /\ Me(c).kind = "life"
             /\ SeenInv => /\ Seen(n.ns, edges, prog, facts, a.map, lives, forked)
                           /\ Right(n.ns, a.id, Me(c))
                           /\ ThingTyped(Me(c), a.map, lives, forked)
                           /\ ThingTyped(Packet(kind, <<c, p>>), a.map, lives, forked)
  <2> DEFINE x == Packet(kind, <<c, p>>)
  <2>1. x \in Things /\ x = [kind |-> kind, key |-> <<c, p>>] /\ x.kind = kind /\ kind # "life"
    BY DEF Packet, Things
  <2> HIDE DEF x
  <2>2. n = Node(nodes, m, <<c, p>>, x)
    BY <1>2 DEF x
  <2>3. PICK k : k = <<c, p>>
    OBVIOUS
  <2> QED BY <1>1, <1>2, <2>1, <2>2, <2>3, NodeAndLife DEF x
<1>3. CASE handle_socksend(c, p)
  <2> DEFINE x == Packet("sent", <<c, p>>)
             n == Node(nodes, SockSendMap, <<c, p>>, x)
  <2>1. /\ nodes' = n.ns /\ SockSendMap' = n.map /\ CredMap' = a.map
        /\ edges' = Edge(edges, n.id, a.id, "WasGeneratedBy")
        /\ facts' = facts \cup {Fact("WasGeneratedBy", x, Me(c))}
        /\ UNCHANGED <<prog, lives, forked, InodeVersionMap, UserMap, GroupMap, SockRecvMap>>
    BY <1>3 DEF handle_socksend
  <2>2. n = Node(nodes, SockSendMap, <<c, p>>, x) /\ Points(nodes, SockSendMap, "sent")
    BY DEF NodesInv
  <2> HIDE DEF n, a
  <2>3. /\ x.kind = "sent" /\ x # Me(c) /\ Me(c).kind = "life"
        /\ n.ns \in Seq(Things) /\ NoTwins(n.ns) /\ n.ns # <<>>
        /\ Points(n.ns, n.map, "sent") /\ OtherPoints(n.ns, "sent")
        /\ LivesOK(n.ns, a.map, lives, forked)
        /\ Right(n.ns, n.id, x)
        /\ SeenInv => /\ Seen(n.ns, edges, prog, facts, a.map, lives, forked)
                      /\ Right(n.ns, a.id, Me(c))
                      /\ ThingTyped(Me(c), a.map, lives, forked)
                      /\ ThingTyped(x, a.map, lives, forked)
    BY <1>2, <2>2
  <2> HIDE DEF x
  <2>4. NodesInv'
    BY <2>1, <2>3 DEF NodesInv, OtherPoints
  <2>5. ASSUME SeenInv PROVE SeenInv'
    <3>1. RelOf(x, Me(c)) = "WasGeneratedBy"
      BY <2>3 DEF RelOf
    <3>2. Seen(n.ns, edges', prog, facts', a.map, lives, forked)
      BY <2>1, <2>3, <2>5, <3>1, EdgeSeen
    <3> QED BY <2>1, <3>2, SeenPrime
  <2> QED BY <2>4, <2>5
<1>4. CASE handle_sockrecv(c, p)
  <2> DEFINE x == Packet("received", <<c, p>>)
             n == Node(nodes, SockRecvMap, <<c, p>>, x)
  <2>1. /\ nodes' = n.ns /\ SockRecvMap' = n.map /\ CredMap' = a.map
        /\ edges' = Edge(edges, a.id, n.id, "Used")
        /\ facts' = facts \cup {Fact("Used", Me(c), x)}
        /\ UNCHANGED <<prog, lives, forked, InodeVersionMap, UserMap, GroupMap, SockSendMap>>
    BY <1>4 DEF handle_sockrecv
  <2>2. n = Node(nodes, SockRecvMap, <<c, p>>, x) /\ Points(nodes, SockRecvMap, "received")
    BY DEF NodesInv
  <2> HIDE DEF n, a
  <2>3. /\ x.kind = "received" /\ x # Me(c) /\ Me(c).kind = "life"
        /\ n.ns \in Seq(Things) /\ NoTwins(n.ns) /\ n.ns # <<>>
        /\ Points(n.ns, n.map, "received") /\ OtherPoints(n.ns, "received")
        /\ LivesOK(n.ns, a.map, lives, forked)
        /\ Right(n.ns, n.id, x)
        /\ SeenInv => /\ Seen(n.ns, edges, prog, facts, a.map, lives, forked)
                      /\ Right(n.ns, a.id, Me(c))
                      /\ ThingTyped(Me(c), a.map, lives, forked)
                      /\ ThingTyped(x, a.map, lives, forked)
    BY <1>2, <2>2
  <2> HIDE DEF x
  <2>4. NodesInv'
    BY <2>1, <2>3 DEF NodesInv, OtherPoints
  <2>5. ASSUME SeenInv PROVE SeenInv'
    <3>1. RelOf(Me(c), x) = "Used"
      BY <2>3 DEF RelOf
    <3>2. Seen(n.ns, edges', prog, facts', a.map, lives, forked)
      BY <2>1, <2>3, <2>5, <3>1, EdgeSeen
    <3> QED BY <2>1, <3>2, SeenPrime
  <2> QED BY <2>4, <2>5
<1> QED BY <1>3, <1>4

LEMMA SetidStep ==
  ASSUME NodesInv, NEW c \in Creds, NEW u \in Users, NEW g \in Groups,
         handle_setid(c, u, g), atBoot' <=> atBoot
  PROVE  NodesInv' /\ (SeenInv => SeenInv')
<1> DEFINE a  == Node(nodes, CredMap, c, Life(lives[c]))
           us == Node(a.ns, UserMap, u, User(u))
           gr == Node(us.ns, GroupMap, g, Group(g))
           x  == Me(c)
           es == Edge(edges, a.id, us.id, "WasControlledBy")
           fs == facts \cup {Fact("WasControlledBy", x, User(u))}
<1>1. /\ c \in DOMAIN lives
      /\ nodes' = gr.ns /\ CredMap' = a.map /\ UserMap' = us.map /\ GroupMap' = gr.map
      /\ edges' = Edge(es, us.id, gr.id, "ActedOnBehalfOf")
      /\ facts' = fs \cup {Fact("ActedOnBehalfOf", User(u), Group(g))}
      /\ UNCHANGED <<prog, lives, forked, InodeVersionMap, SockSendMap, SockRecvMap>>
  BY DEF handle_setid, Me
<1>2. x = Life(lives[c]) /\ x.kind = "life"
  BY KindsDiffer DEF Me
<1> HIDE DEF a, us, gr, x
<1>3. /\ nodes \in Seq(Things) /\ NoTwins(nodes) /\ LivesOK(nodes, CredMap, lives, forked)
      /\ Numbered(lives, forked)
  BY DEF NodesInv, LivesOK
<1>4. /\ Grown(nodes, a.ns, "life") /\ LivesOK(a.ns, a.map, lives, forked)
      /\ DOMAIN a.map = DOMAIN CredMap \cup {c}
  BY <1>1, <1>3, LifeNode DEF a, LivesOK
<1>5. a.ns \in Seq(Things) /\ NoTwins(a.ns) /\ OtherPoints(a.ns, "life") /\ Len(a.ns) \in Nat
  BY <1>4, OthersKept DEF Grown
<1>6. /\ User(u) \in Things /\ User(u) = [kind |-> "user", key |-> u] /\ User(u).kind = "user"
      /\ Group(g) \in Things /\ Group(g) = [kind |-> "group", key |-> g] /\ Group(g).kind = "group"
  BY DEF User, Group, Things
<1>7. /\ Grown(a.ns, us.ns, "user") /\ Points(us.ns, us.map, "user")
      /\ us.id \in 1..Len(us.ns) /\ us.ns[us.id] = User(u)
  BY <1>5, <1>6, NodePoints DEF us, OtherPoints
<1>8. /\ us.ns \in Seq(Things) /\ NoTwins(us.ns) /\ Len(us.ns) \in Nat
      /\ Points(us.ns, GroupMap, "group") /\ Points(us.ns, InodeVersionMap, "inode")
      /\ Points(us.ns, SockSendMap, "sent") /\ Points(us.ns, SockRecvMap, "received")
      /\ LivesOK(us.ns, a.map, lives, forked)
  <2>1. us.ns \in Seq(Things) /\ NoTwins(us.ns) /\ Len(us.ns) \in Nat
    BY <1>7 DEF Grown
  <2>2. /\ Points(a.ns, GroupMap, "group") /\ Points(a.ns, InodeVersionMap, "inode")
        /\ Points(a.ns, SockSendMap, "sent") /\ Points(a.ns, SockRecvMap, "received")
    BY <1>5 DEF OtherPoints
  <2>3. LivesOK(us.ns, a.map, lives, forked)
    BY <1>4, <1>5, <1>7, OtherSeen
  <2> QED BY <1>5, <1>7, <2>1, <2>2, <2>3, GrownPoints
<1>9. /\ Grown(us.ns, gr.ns, "group") /\ Points(gr.ns, gr.map, "group")
      /\ gr.id \in 1..Len(gr.ns) /\ gr.ns[gr.id] = Group(g)
  BY <1>6, <1>8, NodePoints DEF gr
<1>10. /\ gr.ns \in Seq(Things) /\ NoTwins(gr.ns)
       /\ Points(gr.ns, us.map, "user") /\ Points(gr.ns, InodeVersionMap, "inode")
       /\ Points(gr.ns, SockSendMap, "sent") /\ Points(gr.ns, SockRecvMap, "received")
       /\ LivesOK(gr.ns, a.map, lives, forked)
  BY <1>7, <1>8, <1>9, GrownPoints, OtherSeen DEF Grown
<1>11. NodesInv'
  BY <1>1, <1>9, <1>10 DEF NodesInv
<1>12. ASSUME SeenInv PROVE SeenInv'
  <2>1. /\ EdgesTyped(nodes, edges, prog) /\ Agree(nodes, edges, prog, facts)
        /\ MapRight(nodes, CredMap, lives) /\ FactsTyped(facts, CredMap, lives, forked)
    BY <1>12 DEF SeenInv, Seen
  <2>2. /\ MapRight(a.ns, a.map, lives) /\ EdgesTyped(a.ns, edges, prog)
        /\ FactsTyped(facts, a.map, lives, forked) /\ Agree(a.ns, edges, prog, facts)
        /\ Right(a.ns, a.id, x)
    BY <1>1, <1>2, <1>3, <2>1, LifeSeen DEF a
  <2>3. Seen(a.ns, edges, prog, facts, a.map, lives, forked)
    BY <1>4, <1>12, <2>2 DEF SeenInv, Seen, AllMapped
  <2>4. Seen(us.ns, edges, prog, facts, a.map, lives, forked)
    BY <1>4, <1>5, <1>7, <2>3, OtherSeen
  <2>5. Seen(gr.ns, edges, prog, facts, a.map, lives, forked)
    BY <1>8, <1>9, <2>4, OtherSeen
  <2>6. \A i \in 1..Len(a.ns) : i \in 1..Len(us.ns) /\ us.ns[i] = a.ns[i]
    BY <1>5, <1>7, <1>8 DEF Grown
  <2>7. \A i \in 1..Len(us.ns) : i \in 1..Len(gr.ns) /\ gr.ns[i] = us.ns[i]
    BY <1>8, <1>9, <1>10 DEF Grown
  <2>8. /\ \A i \in 1..Len(us.ns) : i \in 1..Len(a.ns) \/ us.ns[i].kind = "user"
        /\ \A i \in 1..Len(gr.ns) : i \in 1..Len(us.ns) \/ gr.ns[i].kind = "group"
    BY <1>7, <1>9 DEF Grown
  <2>9. Right(gr.ns, a.id, x)
    BY <1>2, <2>2, <2>6, <2>7, <2>8 DEF Right
  <2>10. Right(gr.ns, us.id, User(u)) /\ Right(gr.ns, gr.id, Group(g)) /\ gr.ns # <<>>
    BY <1>7, <1>9, <2>7 DEF Right
  <2>11. /\ ThingTyped(x, a.map, lives, forked) /\ ThingTyped(User(u), a.map, lives, forked)
         /\ ThingTyped(Group(g), a.map, lives, forked)
    <3>1. c \in DOMAIN a.map /\ User(u).kind # "life" /\ Group(g).kind # "life"
      BY <1>4, <1>6
    <3> QED BY <1>1, <1>2, <1>3, <1>6, <3>1, LifeTyped, OtherTyped
  <2>12. /\ x # User(u) /\ User(u) # Group(g)
         /\ RelOf(x, User(u)) = "WasControlledBy" /\ RelOf(User(u), Group(g)) = "ActedOnBehalfOf"
    BY <1>2, <1>6 DEF RelOf
  <2>13. Seen(gr.ns, es, prog, fs, a.map, lives, forked)
    BY <1>10, <2>5, <2>9, <2>10, <2>11, <2>12, EdgeSeen
  <2> HIDE DEF es, fs
  <2>14. Seen(gr.ns, edges', prog, facts', a.map, lives, forked)
    BY <1>1, <1>10, <2>10, <2>11, <2>12, <2>13, EdgeSeen
  <2> QED BY <1>1, <2>14, SeenPrime
<1> QED BY <1>11, <1>12

\* Any record that is handled.
LEMMA HandleStep ==
  ASSUME SnapInv, Handle, atBoot' <=> atBoot
  PROVE  NodesInv' /\ (SeenInv => SeenInv') /\ count' = count + 1
<1>1. NodesInv
  BY DEF SnapInv
<1>2. PICK m \in Record :
        \/ m.type = "boot"     /\ handle_boot(m.cred)
        \/ m.type = "credfork" /\ handle_credfork(m.cred, m.forked_cred)
        \/ m.type = "credfree" /\ handle_credfree(m.cred)
        \/ m.type = "exec"     /\ handle_exec(m.cred, m.inode)
        \/ m.type = "file_p"   /\ handle_file_p(m.cred, m.inode, "read" \in m.mask, "write" \in m.mask)
        \/ m.type = "setid"    /\ handle_setid(m.cred, m.uid, m.gid)
        \/ m.type = "socksend" /\ handle_socksend(m.cred, m.port)
        \/ m.type = "sockrecv" /\ handle_sockrecv(m.cred, m.port)
  BY DEF Handle
<1>3. /\ m.cred \in Creds
      /\ m.type = "credfork" => m.forked_cred \in Creds
      /\ m.type \in {"exec", "file_p"} => m.inode \in Versions
      /\ m.type = "setid" => m.uid \in Users /\ m.gid \in Groups
      /\ m.type \in {"socksend", "sockrecv"} => m.port \in Ports
  BY DEF Record
<1>4. CASE m.type = "boot" /\ handle_boot(m.cred)
  BY <1>3, <1>4, BootStep DEF handle_boot, Count
<1>5. CASE m.type = "credfork" /\ handle_credfork(m.cred, m.forked_cred)
  BY <1>1, <1>3, <1>5, CredforkStep DEF handle_credfork, Count
<1>6. CASE m.type = "credfree" /\ handle_credfree(m.cred)
  BY <1>1, <1>3, <1>6, CredfreeStep DEF handle_credfree, Count
<1>7. CASE m.type = "exec" /\ handle_exec(m.cred, m.inode)
  BY <1>1, <1>3, <1>7, ExecStep DEF handle_exec, Count
<1>8. CASE m.type = "file_p" /\ handle_file_p(m.cred, m.inode, "read" \in m.mask, "write" \in m.mask)
  <2> DEFINE read == "read" \in m.mask
             write == "write" \in m.mask
  <2>1. read \in BOOLEAN /\ write \in BOOLEAN /\ handle_file_p(m.cred, m.inode, read, write)
    BY <1>8
  <2> HIDE DEF read, write
  <2> QED BY <1>1, <1>3, <1>8, <2>1, FileStep DEF handle_file_p, Count
<1>9. CASE m.type = "setid" /\ handle_setid(m.cred, m.uid, m.gid)
  BY <1>1, <1>3, <1>9, SetidStep DEF handle_setid, Count
<1>10. CASE \/ m.type = "socksend" /\ handle_socksend(m.cred, m.port)
            \/ m.type = "sockrecv" /\ handle_sockrecv(m.cred, m.port)
  BY <1>1, <1>3, <1>10, SockStep DEF handle_socksend, handle_sockrecv, Count
<1> QED BY <1>2, <1>4, <1>5, <1>6, <1>7, <1>8, <1>9, <1>10

-----------------------------------------------------------------------------
(* The programs *)

LEMMA BlankSeen == Blank /\ (atBoot => lives = Empty) => SeenInv
<1> SUFFICES ASSUME Blank, atBoot => lives = Empty PROVE SeenInv
  OBVIOUS
<1>1. /\ nodes = <<>> /\ DOMAIN prog = {} /\ DOMAIN edges = {} /\ DOMAIN CredMap = {} /\ facts = {}
      /\ atBoot => DOMAIN lives = {}
  BY DEF Blank, Empty
<1>2. MapRight(nodes, CredMap, lives) /\ AllMapped(CredMap, lives)
  BY <1>1 DEF MapRight, AllMapped
<1>3. EdgesTyped(nodes, edges, prog) /\ FactsTyped(facts, CredMap, lives, forked)
  BY <1>1 DEF EdgesTyped, FactsTyped
<1>4. Agree(nodes, edges, prog, facts)
  BY <1>1 DEF Agree, ToldBy
<1> QED BY <1>2, <1>3, <1>4 DEF SeenInv, Seen

NoMaps == /\ InodeVersionMap = Empty /\ UserMap = Empty /\ GroupMap = Empty
          /\ SockSendMap = Empty /\ SockRecvMap = Empty

LEMMA BlankNodes == Blank /\ NoMaps /\ Numbered(lives, forked) => NodesInv
<1> SUFFICES ASSUME Blank, NoMaps, Numbered(lives, forked) PROVE NodesInv
  OBVIOUS
<1>1. nodes = <<>> /\ Len(nodes) = 0 /\ nodes \in Seq(Things) /\ DOMAIN Empty = {} /\ 1..0 = {}
  BY DEF Blank, Empty
<1>2. NoTwins(nodes) /\ \A kind : Points(nodes, Empty, kind)
  BY <1>1 DEF NoTwins, Points
<1>3. LivesOK(nodes, CredMap, lives, forked)
  BY <1>1 DEF LivesOK, LivesBegun, LifePoints
<1> QED BY <1>1, <1>2, <1>3 DEF NodesInv, NoMaps

LEMMA InitSnapInv == Init => SnapInv
<1> SUFFICES ASSUME Init PROVE SnapInv
  OBVIOUS
<1>1. Blank /\ NoMaps /\ lives = Empty /\ forked = 0 /\ count = 0 /\ lost = FALSE /\ atBoot = FALSE
  BY DEF Init, GraphInit, Blank, NoMaps
<1>2. Numbered(lives, forked)
  BY <1>1 DEF Numbered, Empty
<1>3. NodesInv /\ SeenInv
  BY <1>1, <1>2, BlankNodes, BlankSeen
<1> QED BY <1>1, <1>3 DEF SnapInv

\* Nothing that the invariant is about changes.
LEMMA StayStep ==
  ASSUME SnapInv, UNCHANGED <<graph, maps, lives, facts, forked, count, atBoot, lost>>,
         pc' = "off" => pc = "off"
  PROVE  SnapInv'
<1>1. UNCHANGED <<nodes, prog, edges, CredMap, InodeVersionMap, UserMap, GroupMap, SockSendMap, SockRecvMap>>
  BY DEF graph, maps
<1>2. NodesInv' <=> NodesInv
  BY <1>1 DEF NodesInv
<1>3. SeenInv => SeenInv'
  BY <1>1, SeenPrime DEF SeenInv
<1>4. Blank' <=> Blank
  BY <1>1 DEF Blank
<1> QED BY <1>2, <1>3, <1>4 DEF SnapInv

LEMMA ExitStep ==
  ASSUME Exit, Numbered(lives', forked'), count' \in Nat,
         count' = 0 => lives' = Empty /\ forked' = 0
  PROVE  SnapInv'
<1>1. (Blank /\ NoMaps)' /\ pc' = "off" /\ lost' = FALSE /\ atBoot' = FALSE
  BY DEF Exit, Discard, Blank, NoMaps
<1>2. Numbered(lives, forked)'
  BY DEF Numbered
<1>3. NodesInv'
  <2>1. (Blank /\ NoMaps /\ Numbered(lives, forked) => NodesInv)'
    BY BlankNodes, PTL
  <2> QED BY <1>1, <1>2, <2>1
<1>4. SeenInv'
  <2>1. (Blank /\ (atBoot => lives = Empty) => SeenInv)'
    BY BlankSeen, PTL
  <2> QED BY <1>1, <2>1
<1> QED BY <1>1, <1>3, <1>4 DEF SnapInv

LEMMA GoneLives ==
  ASSUME SnapInv, Gone
  PROVE  /\ LivesOK(nodes, CredMap, lives', forked') /\ Numbered(lives', forked')
         /\ count' \in Nat /\ count' # 0
<1>1. count \in Nat /\ count' = count + 1 /\ LivesOK(nodes, CredMap, lives, forked)
  BY DEF SnapInv, NodesInv, Gone, Count
<1>2. CASE UNCHANGED <<lives, forked>>
  BY <1>1, <1>2 DEF LivesOK
<1>3. CASE \E c \in DOMAIN lives : lives' = Without(lives, c) /\ UNCHANGED forked
  BY <1>1, <1>3, LifeEnds DEF LivesOK
<1>4. CASE \E c \in Creds \ DOMAIN lives : lives' = Put(lives, c, forked + 1) /\ forked' = forked + 1
  <2>1. PICK c \in Creds \ DOMAIN lives : lives' = Put(lives, c, forked')
    BY <1>4
  <2>2. LivesOK(nodes, CredMap, lives', forked')
    BY <1>1, <1>4, <2>1, NewLife
  <2> QED BY <1>1, <2>2 DEF LivesOK
<1> QED BY <1>2, <1>3, <1>4 DEF Gone

LEMMA StartStep ==
  ASSUME SnapInv, NEW m, Start(m)
  PROVE  SnapInv'
<1>1. UNCHANGED <<nodes, prog, edges, CredMap, InodeVersionMap, UserMap, GroupMap, SockSendMap,
                  SockRecvMap, lives, facts, forked, count, lost>>
  BY DEF Start, graphVars, graph, maps, truth
<1>2. Blank /\ lost = FALSE /\ (atBoot' <=> count = 0) /\ atBoot' \in BOOLEAN /\ pc' = "read"
  BY DEF Start, SnapInv
<1>3. NodesInv'
  BY <1>1 DEF SnapInv, NodesInv
<1>4. Blank' /\ (atBoot' => lives' = Empty)
  BY <1>1, <1>2 DEF SnapInv, Blank
<1>5. SeenInv'
  <2>1. (Blank /\ (atBoot => lives = Empty) => SeenInv)'
    BY BlankSeen, PTL
  <2> QED BY <1>4, <2>1
<1> QED BY <1>1, <1>2, <1>3, <1>4, <1>5 DEF SnapInv

LEMMA ReadStep ==
  ASSUME SnapInv, Read
  PROVE  SnapInv'
<1>1. Handle /\ pc = "read" /\ UNCHANGED <<pc, atBoot, lost>>
  BY DEF Read, process
<1>2. NodesInv' /\ (SeenInv => SeenInv') /\ count' = count + 1
  BY <1>1, HandleStep
<1> QED BY <1>1, <1>2 DEF SnapInv

LEMMA BodyFailsStep ==
  ASSUME SnapInv, BodyFails
  PROVE  SnapInv'
<1>1. /\ UNCHANGED <<nodes, CredMap, InodeVersionMap, UserMap, GroupMap, SockSendMap, SockRecvMap, pc, atBoot>>
      /\ lost' = TRUE /\ Gone /\ pc = "read"
  BY DEF BodyFails, graph, maps
<1>2. LivesOK(nodes, CredMap, lives', forked') /\ count' \in Nat /\ count' # 0
  BY <1>1, GoneLives
<1>3. NodesInv'
  BY <1>1, <1>2 DEF SnapInv, NodesInv
<1> QED BY <1>1, <1>2, <1>3 DEF SnapInv

\* The lives as an exit without a record finds them.
LEMMA ExitOnly ==
  ASSUME SnapInv, Exit, UNCHANGED <<lives, forked, count>>
  PROVE  SnapInv'
<1>1. Numbered(lives, forked) /\ count \in Nat /\ (count = 0 => lives = Empty /\ forked = 0)
  BY DEF SnapInv, NodesInv, LivesOK
<1> QED BY <1>1, ExitStep

LEMMA SnapStep == SnapInv /\ [Next]_vars => SnapInv'
<1> SUFFICES ASSUME SnapInv, [Next]_vars PROVE SnapInv'
  OBVIOUS
<1>1. ASSUME NEW m \in {"daemon", "once", "cat"}, Start(m) PROVE SnapInv'
  BY <1>1, StartStep
<1>2. CASE Signal
  BY <1>2, StayStep DEF Signal, graphVars, truth
<1>3. CASE Read
  BY <1>3, ReadStep
<1>4. CASE BodyFails
  BY <1>4, BodyFailsStep
<1>5. CASE ReadFails
  BY <1>5, GoneLives, ExitStep DEF ReadFails
<1>6. CASE Drained
  <2>1. CASE Exit
    BY <1>6, <2>1, ExitOnly DEF Drained
  <2>2. CASE pc' = "check" /\ UNCHANGED <<graph, maps, facts, mode, stopping, atBoot, lost, starts>>
    BY <1>6, <2>2, StayStep DEF Drained
  <2> QED BY <1>6, <2>1, <2>2 DEF Drained
<1>7. CASE Check
  <2>1. CASE Exit
    BY <1>7, <2>1, ExitOnly DEF Check
  <2>2. CASE pc' = "sleep" /\ UNCHANGED <<graph, maps, facts, mode, stopping, atBoot, lost, starts, faults>>
    BY <1>7, <2>2, StayStep DEF Check
  <2> QED BY <1>7, <2>1, <2>2 DEF Check
<1>8. CASE Wake
  <2>1. CASE Exit
    BY <1>8, <2>1, ExitOnly DEF Wake
  <2>2. CASE pc' = "read" /\ UNCHANGED <<graph, maps, facts, mode, stopping, atBoot, lost, starts, faults>>
    BY <1>8, <2>2, StayStep DEF Wake
  <2> QED BY <1>8, <2>1, <2>2 DEF Wake
<1>9. CASE Kill
  BY <1>9, ExitOnly DEF Kill
<1>10. CASE UNCHANGED vars
  BY <1>10, StayStep DEF vars, graphVars, truth, process
<1> QED BY <1>1, <1>2, <1>3, <1>4, <1>5, <1>6, <1>7, <1>8, <1>9, <1>10 DEF Next

LEMMA SnapInvariant == Spec => []SnapInv
<1>1. Init => SnapInv
  BY InitSnapInv
<1>2. SnapInv /\ [Next]_vars => SnapInv'
  BY SnapStep
<1> QED BY <1>1, <1>2, PTL DEF Spec

\* snap_handlers.cpp: for every log, whatever its length and however ids are used again,
\* the graph of a process that has read every record since boot is what happened.
THEOREM WholeHistory == Spec => []GraphTellsHistory
<1>1. SnapInv => GraphTellsHistory
  <2> SUFFICES ASSUME SnapInv, atBoot, ~lost PROVE Told = facts
    BY DEF GraphTellsHistory, Complete
  <2>1. Told = ToldBy(nodes, edges, prog)
    BY DEF Told, ToldBy
  <2>2. \A f : ~Excused(nodes, f)
    BY DEF Excused, Doubtful
  <2>3. Agree(nodes, edges, prog, facts)
    BY DEF SnapInv, SeenInv, Seen
  <2> QED BY <2>1, <2>2, <2>3 DEF Agree
<1> QED BY <1>1, SnapInvariant, PTL

\* snap_handlers.cpp: of a process that begins late or meets an unknown credential, all
\* mistakes are about the first node or about a life without a node; no thing has two.
THEOREM LateReaders == Spec => []MistakesAtFirstNode
<1>1. SnapInv => MistakesAtFirstNode
  <2> SUFFICES ASSUME SnapInv
               PROVE  /\ IsInjective(nodes)
                      /\ ~lost => \A f \in (Told \ facts) \cup (facts \ Told) :
                        \/ nodes # <<>> /\ nodes[1] \in {f.from, f.to}
                        \/ ~({f.from, f.to} \subseteq Range(nodes))
    BY DEF MistakesAtFirstNode
  <2>1. IsInjective(nodes)
    BY DEF SnapInv, NodesInv, NoTwins, IsInjective
  <2>2. ASSUME ~lost, NEW f \in (Told \ facts) \cup (facts \ Told)
        PROVE  \/ nodes # <<>> /\ nodes[1] \in {f.from, f.to}
               \/ ~({f.from, f.to} \subseteq Range(nodes))
    <3>1. Told = ToldBy(nodes, edges, prog)
      BY DEF Told, ToldBy
    <3>2. Agree(nodes, edges, prog, facts)
      BY <2>2 DEF SnapInv, SeenInv, Seen
    <3>3. PICK x \in {f.from, f.to} : Doubtful(nodes, x)
      BY <2>2, <3>1, <3>2 DEF Agree, Excused
    <3>4. \A y \in Range(nodes) : \E i \in 1..Len(nodes) : nodes[i] = y
      BY DEF Range, SnapInv, NodesInv
    <3> QED BY <3>3, <3>4 DEF Doubtful
  <2> QED BY <2>1, <2>2
<1> QED BY <1>1, SnapInvariant, PTL

-----------------------------------------------------------------------------
(* The ancestors of a version *)

\* From boot on, the node of the boot process is the one of subtype BOOT.
BootsKnown ==
  /\ boots \subseteq 1..Len(nodes)
  /\ atBoot /\ ~lost => \A i \in 1..Len(nodes) : i \in boots <=> nodes[i] = Life(1)

\* Nodes made after the boot's are of other things.
LEMMA BootsKeep ==
  ASSUME BootsKnown, UNCHANGED <<boots, atBoot, lost>>, Len(nodes) \in Nat,
         Len(nodes') \in Nat, Len(nodes) <= Len(nodes'),
         \A i \in 1..Len(nodes) : nodes'[i] = nodes[i],
         \A i \in 1..Len(nodes') : i \in 1..Len(nodes) \/ nodes'[i] # Life(1)
  PROVE  BootsKnown'
<1>1. \A i \in 1..Len(nodes) : i \in 1..Len(nodes')
  OBVIOUS
<1>2. \A i \in 1..Len(nodes') : i \in boots => i \in 1..Len(nodes)
  BY DEF BootsKnown
<1> QED BY <1>1, <1>2 DEF BootsKnown

LEMMA OtherNode ==
  ASSUME NEW t, NEW kind, Grown(nodes, t, kind), kind # "life", nodes' = t, BootsKnown,
         UNCHANGED <<boots, atBoot, lost>>, Len(nodes) \in Nat
  PROVE  BootsKnown'
<1>1. t \in Seq(Things) /\ Len(t) \in Nat
  BY DEF Grown
<1>2. \A i \in 1..Len(t) : i \in 1..Len(nodes) \/ t[i] # Life(1)
  BY KindsDiffer DEF Grown
<1>3. Len(nodes) <= Len(t) /\ \A i \in 1..Len(nodes) : t[i] = nodes[i]
  BY DEF Grown
<1> QED BY <1>1, <1>2, <1>3, BootsKeep

LEMMA BootsHandled ==
  ASSUME SnapInv, BootsKnown, Handle, UNCHANGED <<atBoot, lost>>
  PROVE  BootsKnown'
<1>1. /\ nodes \in Seq(Things) /\ NoTwins(nodes) /\ Len(nodes) \in Nat /\ Numbered(lives, forked)
      /\ Points(nodes, InodeVersionMap, "inode")
      /\ Points(nodes, UserMap, "user") /\ Points(nodes, GroupMap, "group")
      /\ Points(nodes, SockSendMap, "sent") /\ Points(nodes, SockRecvMap, "received")
  BY DEF SnapInv, NodesInv, LivesOK
<1>2. PICK m \in Record :
        \/ m.type = "boot"     /\ handle_boot(m.cred)
        \/ m.type = "credfork" /\ handle_credfork(m.cred, m.forked_cred)
        \/ m.type = "credfree" /\ handle_credfree(m.cred)
        \/ m.type = "exec"     /\ handle_exec(m.cred, m.inode)
        \/ m.type = "file_p"   /\ handle_file_p(m.cred, m.inode, "read" \in m.mask, "write" \in m.mask)
        \/ m.type = "setid"    /\ handle_setid(m.cred, m.uid, m.gid)
        \/ m.type = "socksend" /\ handle_socksend(m.cred, m.port)
        \/ m.type = "sockrecv" /\ handle_sockrecv(m.cred, m.port)
  BY DEF Handle
<1>3. /\ m.cred \in Creds
      /\ m.type = "credfork" => m.forked_cred \in Creds
      /\ m.type \in {"exec", "file_p"} => m.inode \in Versions
      /\ m.type = "setid" => m.uid \in Users /\ m.gid \in Groups
      /\ m.type \in {"socksend", "sockrecv"} => m.port \in Ports
  BY DEF Record
<1>4. CASE m.type = "boot" /\ handle_boot(m.cred)
  <2>1. nodes = <<>> /\ CredMap = Empty /\ Len(nodes) = 0 /\ DOMAIN CredMap = {}
    BY <1>4 DEF handle_boot, SnapInv, Blank, Empty
  <2>2. nodes' = Append(nodes, Life(1)) /\ boots' = boots \cup (1..Len(nodes') \ Ids)
    BY <1>4, <2>1 DEF handle_boot, Node, Made
  <2>3. boots = {} /\ Ids = {}
    BY <2>1 DEF BootsKnown, Ids
  <2>4. Len(nodes') = 1 /\ nodes'[1] = Life(1) /\ boots' = {1} /\ 1..1 = {1}
    BY <2>1, <2>2, <2>3
  <2> QED BY <2>4 DEF BootsKnown
<1>5. CASE m.type = "credfork" /\ handle_credfork(m.cred, m.forked_cred)
  <2> DEFINE c == m.cred
             d == m.forked_cred
             old == Node(nodes, CredMap, c, Me(c))
             new == Node(old.ns, old.map, d, Life(forked + 1))
  <2>1. /\ nodes' = new.ns /\ boots' = boots \cup Made(old) /\ c \in DOMAIN lives
        /\ lives[c] \in 1..forked /\ forked \in Nat
    BY <1>1, <1>5 DEF handle_credfork, Numbered
  <2>2. Numbered(lives, forked) /\ LivesBegun(nodes, forked) /\ LifePoints(nodes, CredMap, lives)
    BY DEF SnapInv, NodesInv, LivesOK
  <2>3. old = Node(nodes, CredMap, c, Life(lives[c]))
    BY DEF Me
  <2> HIDE DEF old
  <2>4. /\ Grown(nodes, old.ns, "life") /\ LivesBegun(old.ns, forked)
        /\ c \in DOMAIN CredMap => old.ns = nodes /\ old.map = CredMap
    BY <1>1, <2>1, <2>2, <2>3, LifeNode
  <2>6. old.ns \in Seq(Things) /\ Len(old.ns) \in Nat /\ Len(nodes) <= Len(old.ns)
    BY <2>4 DEF Grown
  <2>7. \/ new.ns = old.ns
        \/ new.ns = Append(old.ns, Life(forked + 1))
    BY DEF Node
  <2> HIDE DEF new
  <2>8. /\ Len(new.ns) \in Nat /\ Len(old.ns) <= Len(new.ns)
        /\ \A i \in 1..Len(old.ns) : new.ns[i] = old.ns[i]
        /\ \A i \in 1..Len(new.ns) : i \in 1..Len(old.ns) \/ new.ns[i] = Life(forked + 1)
    <3>1. CASE new.ns = old.ns
      BY <2>6, <3>1
    <3>2. CASE new.ns = Append(old.ns, Life(forked + 1))
      BY <2>6, <3>2
    <3> QED BY <2>7, <3>1, <3>2
  <2>9. Life(forked + 1) # Life(1)
    BY <2>1, KindsDiffer
  <2>10. CASE ~(atBoot /\ ~lost)
    <3>1. Made(old) \subseteq 1..Len(new.ns)
      BY <2>6, <2>8 DEF Made
    <3>2. boots \subseteq 1..Len(new.ns)
      BY <2>6, <2>8, <1>1 DEF BootsKnown
    <3> QED BY <2>1, <2>10, <3>1, <3>2 DEF BootsKnown
  <2>11. CASE atBoot /\ ~lost
    <3>1. MapRight(nodes, CredMap, lives) /\ c \in DOMAIN CredMap
      BY <2>1, <2>11 DEF SnapInv, SeenInv, Seen, AllMapped
    <3>2. Made(old) = {} /\ old.ns = nodes
      BY <2>4, <3>1 DEF Made, Ids
    <3> QED BY <1>1, <2>1, <2>8, <2>9, <3>2, <2>11, BootsKeep
  <2> QED BY <2>10, <2>11
<1>6. CASE m.type = "credfree" /\ handle_credfree(m.cred)
  BY <1>6 DEF handle_credfree, graph, BootsKnown
<1>7. CASE m.type = "exec" /\ handle_exec(m.cred, m.inode)
  BY <1>7 DEF handle_exec, BootsKnown
<1>8. CASE m.type = "file_p" /\ handle_file_p(m.cred, m.inode, "read" \in m.mask, "write" \in m.mask)
  <2> DEFINE n == Node(nodes, InodeVersionMap, m.inode, Inode(m.inode))
  <2>1. Inode(m.inode) \in Things
    BY <1>3, <1>8 DEF Things, Inode
  <2>2. nodes' = n.ns /\ boots' = boots
    BY <1>8 DEF handle_file_p
  <2>3. Grown(nodes, n.ns, "inode")
    BY <1>1, <2>1, KindsDiffer, NodePoints
  <2> QED BY <1>1, <2>2, <2>3, OtherNode
<1>9. CASE m.type = "setid" /\ handle_setid(m.cred, m.uid, m.gid)
  <2> DEFINE a  == Node(nodes, CredMap, m.cred, Me(m.cred))
             us == Node(a.ns, UserMap, m.uid, User(m.uid))
             gr == Node(us.ns, GroupMap, m.gid, Group(m.gid))
  <2>1. nodes' = gr.ns /\ boots' = boots /\ m.cred \in DOMAIN lives
    BY <1>9 DEF handle_setid
  <2>2. /\ Grown(nodes, a.ns, "life")
        /\ m.cred \in DOMAIN CredMap => a.ns = nodes
    <3>1. a = Node(nodes, CredMap, m.cred, Life(lives[m.cred]))
      BY DEF Me
    <3>2. LivesBegun(nodes, forked) /\ LifePoints(nodes, CredMap, lives)
      BY DEF SnapInv, NodesInv, LivesOK
    <3> HIDE DEF a
    <3> QED BY <1>1, <2>1, <3>1, <3>2, LifeNode
  <2> HIDE DEF a
  <2>3. a.ns \in Seq(Things) /\ NoTwins(a.ns) /\ Len(a.ns) \in Nat /\ OtherPoints(a.ns, "life")
    <3>1. NodesInv
      BY DEF SnapInv
    <3> QED BY <2>2, <3>1, OthersKept DEF Grown
  <2>4. /\ User(m.uid) \in Things /\ User(m.uid) = [kind |-> "user", key |-> m.uid]
        /\ Group(m.gid) \in Things /\ Group(m.gid) = [kind |-> "group", key |-> m.gid]
    BY <1>3, <1>9 DEF User, Group, Things
  <2>5. Grown(a.ns, us.ns, "user")
    BY <2>3, <2>4, NodePoints DEF OtherPoints
  <2> HIDE DEF us
  <2>6. us.ns \in Seq(Things) /\ NoTwins(us.ns) /\ Len(us.ns) \in Nat /\ Points(us.ns, GroupMap, "group")
    <3>1. us.ns \in Seq(Things) /\ NoTwins(us.ns) /\ Len(us.ns) \in Nat
      BY <2>5 DEF Grown
    <3> QED BY <2>3, <2>5, <3>1, GrownPoints DEF OtherPoints
  <2>7. Grown(us.ns, gr.ns, "group")
    BY <2>4, <2>6, NodePoints
  <2> HIDE DEF gr
  <2>8. /\ Len(gr.ns) \in Nat /\ Len(a.ns) <= Len(gr.ns)
        /\ \A i \in 1..Len(a.ns) : gr.ns[i] = a.ns[i]
        /\ \A i \in 1..Len(gr.ns) : i \in 1..Len(a.ns) \/ gr.ns[i].kind \in {"user", "group"}
    <3>1. gr.ns \in Seq(Things) /\ Len(gr.ns) \in Nat
      BY <2>7 DEF Grown
    <3>2. /\ Len(a.ns) <= Len(us.ns) /\ \A i \in 1..Len(a.ns) : us.ns[i] = a.ns[i]
          /\ \A i \in 1..Len(us.ns) : i \in 1..Len(a.ns) \/ us.ns[i].kind = "user"
      BY <2>5 DEF Grown
    <3>3. /\ Len(us.ns) <= Len(gr.ns) /\ \A i \in 1..Len(us.ns) : gr.ns[i] = us.ns[i]
          /\ \A i \in 1..Len(gr.ns) : i \in 1..Len(us.ns) \/ gr.ns[i].kind = "group"
      BY <2>7 DEF Grown
    <3> QED BY <2>3, <2>6, <3>1, <3>2, <3>3
  <2>9. CASE ~(atBoot /\ ~lost)
    <3>1. Len(nodes) <= Len(a.ns)
      BY <2>2 DEF Grown
    <3> QED BY <1>1, <2>1, <2>3, <2>8, <2>9, <3>1 DEF BootsKnown
  <2>10. CASE atBoot /\ ~lost
    <3>1. a.ns = nodes
      BY <2>1, <2>2, <2>10 DEF SnapInv, SeenInv, Seen, AllMapped
    <3>2. \A i \in 1..Len(gr.ns) : i \in 1..Len(nodes) \/ gr.ns[i] # Life(1)
      BY <2>8, <3>1, KindsDiffer
    <3> QED BY <1>1, <2>1, <2>8, <3>1, <3>2, BootsKeep
  <2> QED BY <2>9, <2>10
<1>10. CASE m.type = "socksend" /\ handle_socksend(m.cred, m.port)
  <2> DEFINE n == Node(nodes, SockSendMap, <<m.cred, m.port>>, Packet("sent", <<m.cred, m.port>>))
  <2>1. Packet("sent", <<m.cred, m.port>>) \in Things
    BY <1>3, <1>10 DEF Things, Packet
  <2>2. nodes' = n.ns /\ boots' = boots
    BY <1>10 DEF handle_socksend
  <2>3. Grown(nodes, n.ns, "sent")
    BY <1>1, <2>1, KindsDiffer, NodePoints
  <2> QED BY <1>1, <2>2, <2>3, OtherNode
<1>11. CASE m.type = "sockrecv" /\ handle_sockrecv(m.cred, m.port)
  <2> DEFINE n == Node(nodes, SockRecvMap, <<m.cred, m.port>>, Packet("received", <<m.cred, m.port>>))
  <2>1. Packet("received", <<m.cred, m.port>>) \in Things
    BY <1>3, <1>11 DEF Things, Packet
  <2>2. nodes' = n.ns /\ boots' = boots
    BY <1>11 DEF handle_sockrecv
  <2>3. Grown(nodes, n.ns, "received")
    BY <1>1, <2>1, KindsDiffer, NodePoints
  <2> QED BY <1>1, <2>2, <2>3, OtherNode
<1> QED BY <1>2, <1>4, <1>5, <1>6, <1>7, <1>8, <1>9, <1>10, <1>11

LEMMA BootsStep == SnapInv /\ BootsKnown /\ [Next]_vars => BootsKnown'
<1> SUFFICES ASSUME SnapInv, BootsKnown, [Next]_vars PROVE BootsKnown'
  OBVIOUS
<1>1. CASE Exit
  <2>1. nodes' = <<>> /\ boots' = {} /\ atBoot' = FALSE
    BY <1>1 DEF Exit, Discard
  <2> QED BY <2>1 DEF BootsKnown
<1>2. CASE UNCHANGED <<nodes, boots, atBoot>> /\ (lost => lost')
  BY <1>2 DEF BootsKnown
<1>3. ASSUME NEW m, Start(m) PROVE BootsKnown'
  <2>1. nodes = <<>> /\ UNCHANGED <<nodes, boots>>
    BY <1>3 DEF Start, graphVars, graph, SnapInv, Blank
  <2> QED BY <2>1 DEF BootsKnown
<1>4. CASE Read
  BY <1>4, BootsHandled DEF Read, process
<1>5. CASE Signal
  BY <1>2, <1>5 DEF Signal, graphVars, graph
<1>6. CASE BodyFails
  BY <1>2, <1>6 DEF BodyFails, graph
<1>7. CASE ReadFails \/ Kill
  BY <1>1, <1>7 DEF ReadFails, Kill
<1>8. CASE Drained \/ Check \/ Wake
  BY <1>1, <1>2, <1>8 DEF Drained, Check, Wake, graph
<1>9. CASE UNCHANGED vars
  BY <1>2, <1>9 DEF vars, graphVars, graph, process
<1> QED BY <1>3, <1>4, <1>5, <1>6, <1>7, <1>8, <1>9 DEF Next

-----------------------------------------------------------------------------
(* Where things come from *)

LEMMA SourcesClosed ==
  ASSUME NEW x
  PROVE  /\ \A y : <<x, y>> \in CameFrom => y \in Sources(x)
         /\ \A y, z : y \in Sources(x) /\ <<y, z>> \in CameFrom => z \in Sources(x)
<1> DEFINE things == {p[2] : p \in CameFrom}
           closed == {S \in SUBSET things : \A p \in CameFrom : p[1] \in S \cup {x} => p[2] \in S}
<1>1. Sources(x) = {y \in things : \A S \in closed : y \in S}
  BY DEF Sources
<1>2. ASSUME NEW y, NEW z, <<y, z>> \in CameFrom PROVE z \in things
  <2>1. <<y, z>>[2] = z
    OBVIOUS
  <2> QED BY <1>2, <2>1
<1>3. ASSUME NEW y, NEW z, <<y, z>> \in CameFrom, NEW S \in closed, y \in S \cup {x} PROVE z \in S
  <2>1. <<y, z>>[1] = y /\ <<y, z>>[2] = z
    OBVIOUS
  <2>2. \A p \in CameFrom : p[1] \in S \cup {x} => p[2] \in S
    OBVIOUS
  <2> QED BY <1>3, <2>1, <2>2
<1> HIDE DEF closed, things
<1> QED BY <1>1, <1>2, <1>3

LEMMA SourcesLeast ==
  ASSUME NEW x, NEW S,
         \A y, z : <<y, z>> \in CameFrom /\ y \in S \cup {x} => z \in S
  PROVE  Sources(x) \subseteq S
<1> DEFINE things == {p[2] : p \in CameFrom}
           closed == {T \in SUBSET things : \A p \in CameFrom : p[1] \in T \cup {x} => p[2] \in T}
           T == S \cap things
<1>1. Sources(x) = {y \in things : \A U \in closed : y \in U}
  BY DEF Sources
<1>2. T \in closed
  <2>1. ASSUME NEW p \in CameFrom, p[1] \in T \cup {x} PROVE p[2] \in T
    <3>1. p = <<p[1], p[2]>>
      BY DEF CameFrom
    <3>2. p[2] \in things
      OBVIOUS
    <3>3. p[2] \in S
      BY <2>1, <3>1
    <3> QED BY <3>2, <3>3
  <2> QED BY <2>1
<1> HIDE DEF closed, things
<1> QED BY <1>1, <1>2

\* What comes from x at once, and what that comes from.
LEMMA SourcesStep ==
  ASSUME NEW x
  PROVE  /\ \A y : <<x, y>> \in CameFrom => Sources(y) \subseteq Sources(x)
         /\ \A y \in Sources(x) : \E z : <<x, z>> \in CameFrom /\ (y = z \/ y \in Sources(z))
<1>1. ASSUME NEW y, <<x, y>> \in CameFrom PROVE Sources(y) \subseteq Sources(x)
  <2>1. y \in Sources(x)
    BY <1>1, SourcesClosed
  <2>2. \A v, w : <<v, w>> \in CameFrom /\ v \in Sources(x) \cup {y} => w \in Sources(x)
    BY <2>1, SourcesClosed
  <2> QED BY <2>2, SourcesLeast
<1> DEFINE S == {y \in Sources(x) : \E z : <<x, z>> \in CameFrom /\ (y = z \/ y \in Sources(z))}
<1>2. ASSUME NEW v, NEW w, <<v, w>> \in CameFrom, v \in S \cup {x} PROVE w \in S
  <2>1. CASE v = x
    BY <1>2, <2>1, SourcesClosed
  <2>2. CASE v \in S
    <3>1. PICK z : <<x, z>> \in CameFrom /\ (v = z \/ v \in Sources(z))
      BY <2>2
    <3>2. w \in Sources(z)
      BY <1>2, <3>1, SourcesClosed
    <3>3. w \in Sources(x)
      BY <1>2, <2>2, SourcesClosed
    <3> QED BY <3>1, <3>2, <3>3
  <2> QED BY <1>2, <2>1, <2>2
<1>3. Sources(x) \subseteq S
  <2> HIDE DEF S
  <2> QED BY <1>2, SourcesLeast
<1> QED BY <1>1, <1>3

\* Versions and packets sent come from lives.
WrittenByLives == \A f \in facts : f.rel = "WasGeneratedBy" => f.to.kind = "life"

LEMMA WrittenStep == WrittenByLives /\ [Next]_vars => WrittenByLives'
<1> SUFFICES ASSUME WrittenByLives, [Next]_vars PROVE WrittenByLives'
  OBVIOUS
<1>1. CASE UNCHANGED facts \/ facts' = {}
  BY <1>1 DEF WrittenByLives
<1>2. CASE Read
  <2>1. PICK m \in Record :
          \/ m.type = "boot"     /\ handle_boot(m.cred)
          \/ m.type = "credfork" /\ handle_credfork(m.cred, m.forked_cred)
          \/ m.type = "credfree" /\ handle_credfree(m.cred)
          \/ m.type = "exec"     /\ handle_exec(m.cred, m.inode)
          \/ m.type = "file_p"   /\ handle_file_p(m.cred, m.inode, "read" \in m.mask, "write" \in m.mask)
          \/ m.type = "setid"    /\ handle_setid(m.cred, m.uid, m.gid)
          \/ m.type = "socksend" /\ handle_socksend(m.cred, m.port)
          \/ m.type = "sockrecv" /\ handle_sockrecv(m.cred, m.port)
    BY <1>2 DEF Read, Handle
  <2>2. \A f \in facts' : f \in facts \/ f.rel # "WasGeneratedBy" \/ f.to = Me(m.cred)
    BY <2>1 DEF handle_boot, handle_credfork, handle_credfree, handle_exec, handle_file_p,
                handle_setid, handle_socksend, handle_sockrecv, Fact
  <2>3. Me(m.cred).kind = "life"
    BY DEF Me, Life
  <2> QED BY <2>2, <2>3 DEF WrittenByLives
<1>3. ASSUME NEW m, Start(m) PROVE WrittenByLives'
  BY <1>1, <1>3 DEF Start, graphVars, truth
<1>4. Exit => facts' = {}
  BY DEF Exit, Discard
<1>5. CASE Signal \/ BodyFails \/ ReadFails \/ Drained \/ Check \/ Wake \/ Kill \/ UNCHANGED vars
  BY <1>1, <1>4, <1>5 DEF Signal, BodyFails, ReadFails, Drained, Check, Wake, Kill, vars, graphVars, truth
<1> QED BY <1>2, <1>3, <1>5 DEF Next

\* A process that has read every record since boot.
Informed == SnapInv /\ BootsKnown /\ WrittenByLives /\ atBoot /\ ~lost

\* The search goes from node to node as things came from one another; nothing comes from a
\* packet that was sent, on whose node it stops.
LEMMA FollowsAre ==
  ASSUME Informed, NEW i \in Ids, nodes[i].kind # "sent"
  PROVE  /\ \A j \in Ids : j \in Follows(i) <=> <<nodes[i], nodes[j]>> \in CameFrom
         /\ \A y : <<nodes[i], y>> \in CameFrom => \E j \in Ids : nodes[j] = y /\ y.kind # "sent"
<1>1. facts = ToldBy(nodes, edges, prog)
  <2>1. \A f : ~Excused(nodes, f)
    BY DEF Informed, Excused, Doubtful
  <2>2. Agree(nodes, edges, prog, facts)
    BY DEF Informed, SnapInv, SeenInv, Seen
  <2> QED BY <2>1, <2>2 DEF Agree
<1>2. \A e \in DOMAIN edges : /\ e[1] \in Ids /\ e[2] \in Ids /\ e = <<e[1], e[2]>>
                              /\ edges[e] = RelOf(nodes[e[1]], nodes[e[2]])
  BY DEF Informed, SnapInv, SeenInv, Seen, EdgesTyped, AboutFirst, Ids
<1>3. \A j, k \in Ids : nodes[j] = nodes[k] => j = k
  BY DEF Informed, SnapInv, NodesInv, NoTwins, Ids
<1>4. i \in boots <=> nodes[i] = Life(1)
  BY DEF Informed, BootsKnown, Ids
<1>5. ASSUME NEW j \in Ids, j \in Follows(i) PROVE <<nodes[i], nodes[j]>> \in CameFrom
  <2> DEFINE f == Fact(edges[<<i, j>>], nodes[i], nodes[j])
  <2>1. <<i, j>> \in DOMAIN edges /\ edges[<<i, j>>] \in {"Used", "WasGeneratedBy"}
    BY <1>5 DEF Follows, get_edge, EdgePair
  <2>2. f \in facts
    <3>1. <<i, j>>[1] = i /\ <<i, j>>[2] = j
      OBVIOUS
    <3> QED BY <1>1, <2>1, <3>1 DEF ToldBy
  <2>3. nodes[i] # Life(1)
    BY <1>4, <1>5, KindsDiffer DEF Follows
  <2>4. f.rel = edges[<<i, j>>] /\ f.from = nodes[i] /\ f.to = nodes[j]
    BY DEF Fact
  <2> HIDE DEF f
  <2> QED BY <2>1, <2>2, <2>3, <2>4 DEF CameFrom
<1>6. ASSUME NEW y, <<nodes[i], y>> \in CameFrom
      PROVE  \E j \in Ids : nodes[j] = y /\ y.kind # "sent" /\ j \in Follows(i)
  <2>1. PICK f \in facts : /\ f.rel \in {"Used", "WasGeneratedBy"} /\ f.from # Life(1)
                           /\ <<nodes[i], y>> = <<f.from, f.to>>
    BY <1>6 DEF CameFrom
  <2>2. f.from = nodes[i] /\ f.to = y
    BY <2>1
  <2>3. PICK e \in DOMAIN edges : f = Fact(edges[e], nodes[e[1]], nodes[e[2]])
    BY <1>1, <2>1 DEF ToldBy, Fact
  <2>4. f.rel = edges[e] /\ nodes[e[1]] = nodes[i] /\ nodes[e[2]] = y
    BY <2>2, <2>3 DEF Fact
  <2>5. e[1] = i /\ e[2] \in Ids /\ e = <<i, e[2]>>
    BY <1>2, <1>3, <2>4
  <2>6. edges[e] = RelOf(nodes[i], y)
    BY <1>2, <2>4
  <2>7. CASE edges[e] = "WasGeneratedBy"
    <3>1. nodes[i].kind = "inode"
      BY <2>6, <2>7 DEF RelOf
    <3>2. y.kind = "life"
      BY <2>1, <2>2, <2>4, <2>7 DEF Informed, WrittenByLives
    <3> QED BY <2>4, <2>5, <2>7, <3>1, <3>2 DEF Follows, get_edge, EdgePair
  <2>8. CASE edges[e] = "Used"
    <3>1. nodes[i].kind = "life" /\ y.kind \in {"inode", "received"}
      BY <2>6, <2>8 DEF RelOf
    <3>2. i \notin boots
      BY <1>4, <2>1, <2>2
    <3> QED BY <2>4, <2>5, <2>8, <3>1, <3>2 DEF Follows, get_edge, EdgePair
  <2> QED BY <2>1, <2>4, <2>7, <2>8
<1>7. ASSUME NEW j \in Ids, <<nodes[i], nodes[j]>> \in CameFrom PROVE j \in Follows(i)
  BY <1>3, <1>6, <1>7
<1> QED BY <1>5, <1>6, <1>7

\* Induction, for a set in place of a predicate.
LEMMA SetInduction ==
  ASSUME NEW T, 0 \in T, \A k \in Nat : k \in T => k + 1 \in T
  PROVE  Nat \subseteq T
<1> DEFINE Out == Nat \ T
<1> SUFFICES ASSUME Out # {} PROVE FALSE
  OBVIOUS
<1>1. PICK x \in Out : \A y \in Out : ~ (<<y, x>> \in OpToRel(<, Nat))
  <2>1. Out \subseteq Nat
    OBVIOUS
  <2> HIDE DEF Out
  <2> QED BY <2>1, NatLessThanWellFounded, WFMin
<1>2. x # 0 /\ x - 1 \in Nat /\ x - 1 < x
  OBVIOUS
<1>3. x - 1 \in T
  BY <1>1, <1>2 DEF OpToRel
<1>4. (x - 1) + 1 \in T
  BY <1>2, <1>3
<1> QED BY <1>2, <1>4

\* The recursion of Calls defines a function.
Searches(g, i, n) ==
  g = [d \in 0..n |-> IF d = 0 THEN {i} ELSE UNION {Follows(j) : j \in g[d - 1]}]

LEMMA SearchExists ==
  ASSUME NEW i, NEW n \in Nat
  PROVE  \E g : Searches(g, i, n)
<1> DEFINE T == {k \in Nat : \E g : Searches(g, i, k)}
<1>1. 0 \in T
  <2> DEFINE g == [d \in 0..0 |-> {i}]
  <2>1. g = [d \in 0..0 |-> IF d = 0 THEN {i} ELSE UNION {Follows(j) : j \in g[d - 1]}]
    OBVIOUS
  <2> QED BY <2>1 DEF Searches
<1>2. ASSUME NEW k \in Nat, k \in T PROVE k + 1 \in T
  <2>1. PICK g : Searches(g, i, k)
    BY <1>2
  <2> DEFINE h == [d \in 0..(k + 1) |-> IF d = k + 1 THEN UNION {Follows(j) : j \in g[k]} ELSE g[d]]
  <2>2. ASSUME NEW d \in 0..(k + 1)
        PROVE  h[d] = IF d = 0 THEN {i} ELSE UNION {Follows(j) : j \in h[d - 1]}
    <3>1. CASE d = k + 1
      <4>1. d # 0 /\ d - 1 = k /\ k \in 0..(k + 1) /\ k # k + 1
        BY <3>1
      <4>2. h[d - 1] = g[k]
        BY <4>1
      <4> QED BY <3>1, <4>1, <4>2
    <3>2. CASE d # k + 1
      <4>1. d \in 0..k /\ h[d] = g[d]
        BY <3>2
      <4>2. g[d] = IF d = 0 THEN {i} ELSE UNION {Follows(j) : j \in g[d - 1]}
        BY <2>1, <4>1 DEF Searches
      <4>3. d # 0 => d - 1 \in 0..(k + 1) /\ d - 1 # k + 1 /\ h[d - 1] = g[d - 1]
        BY <4>1
      <4> QED BY <4>1, <4>2, <4>3
    <3> QED BY <3>1, <3>2
  <2> HIDE DEF h
  <2>3. h = [d \in 0..(k + 1) |-> IF d = 0 THEN {i} ELSE UNION {Follows(j) : j \in h[d - 1]}]
    <3>1. h = [d \in 0..(k + 1) |-> h[d]]
      BY DEF h
    <3> QED BY <2>2, <3>1
  <2> QED BY <2>3 DEF Searches
<1> HIDE DEF T
<1>3. n \in T
  BY <1>1, <1>2, SetInduction
<1> QED BY <1>3 DEF T

LEMMA CallsAre ==
  ASSUME NEW i, Len(nodes) \in Nat
  PROVE  /\ DOMAIN Calls(i) = 0..Len(nodes) /\ Calls(i)[0] = {i}
         /\ \A d \in 1..Len(nodes) : Calls(i)[d] = UNION {Follows(j) : j \in Calls(i)[d - 1]}
<1>1. PICK g : Searches(g, i, Len(nodes))
  BY SearchExists
<1>2. Calls(i) = CHOOSE at : Searches(at, i, Len(nodes))
  BY DEF Calls, Searches
<1>3. Searches(Calls(i), i, Len(nodes))
  BY <1>1, <1>2
<1>4. PICK c : c = Calls(i)
  OBVIOUS
<1>5. Searches(c, i, Len(nodes))
  BY <1>3, <1>4
<1>6. DOMAIN c = 0..Len(nodes)
  BY <1>5 DEF Searches
<1>7. ASSUME NEW d \in 0..Len(nodes) PROVE c[d] = IF d = 0 THEN {i} ELSE UNION {Follows(j) : j \in c[d - 1]}
  BY <1>5 DEF Searches
<1>8. c[0] = {i}
  <2>1. 0 \in 0..Len(nodes)
    OBVIOUS
  <2> QED BY <1>7, <2>1
<1>9. ASSUME NEW d \in 1..Len(nodes) PROVE c[d] = UNION {Follows(j) : j \in c[d - 1]}
  <2>1. d \in 0..Len(nodes) /\ d # 0
    OBVIOUS
  <2> QED BY <1>7, <2>1
<1> QED BY <1>4, <1>6, <1>8, <1>9

\* All nodes the search comes to.
FoundFrom(i) == UNION Range(Calls(i))

\* What is found up to a depth grows with it or is all there is to find; so that the number
\* of nodes is depth enough.
LEMMA FoundIsClosed ==
  ASSUME Len(nodes) \in Nat, NEW i \in Ids
  PROVE  /\ FoundFrom(i) = UNION {Calls(i)[d] : d \in 0..Len(nodes)}
         /\ i \in FoundFrom(i) /\ FoundFrom(i) \subseteq Ids
         /\ \A j \in FoundFrom(i) : Follows(j) \subseteq FoundFrom(i)
<1>0. PICK n \in Nat : n = Len(nodes)
  OBVIOUS
<1>1. PICK c : n = Len(nodes) /\ c = Calls(i)
  BY <1>0
<1>2. /\ DOMAIN c = 0..n /\ c[0] = {i} /\ Ids = 1..n /\ i \in 1..n
      /\ \A d \in 1..n : c[d] = UNION {Follows(j) : j \in c[d - 1]}
  BY <1>1, CallsAre DEF Ids
<1>3. \A j : Follows(j) \subseteq 1..n
  BY <1>2 DEF Follows
<1> DEFINE U(d) == UNION {c[e] : e \in 0..d}
           Closed(V) == \A j \in V : Follows(j) \subseteq V
<1>4. FoundFrom(i) = U(n)
  BY <1>1, <1>2 DEF FoundFrom, Range
<1>5. ASSUME NEW d \in 0..n PROVE c[d] \subseteq 1..n
  <2>1. CASE d = 0
    BY <1>2, <2>1
  <2>2. CASE d # 0
    <3>1. d \in 1..n
      BY <2>2
    <3> QED BY <1>2, <1>3, <3>1
  <2> QED BY <2>1, <2>2
<1>6. ASSUME NEW d \in 0..n PROVE U(d) \subseteq 1..n /\ IsFiniteSet(U(d)) /\ Cardinality(U(d)) \in Nat /\ Cardinality(U(d)) <= n
  <2>1. \A e \in 0..d : e \in 0..n
    OBVIOUS
  <2>2. U(d) \subseteq 1..n
    BY <1>5, <2>1
  <2>3. IsFiniteSet(1..n) /\ Cardinality(1..n) = n
    <3>1. 1 \in Int /\ n \in Int
      OBVIOUS
    <3> QED BY <3>1, FS_Interval
  <2> HIDE DEF U
  <2> QED BY <2>2, <2>3, FS_Subset, FS_CardinalityType
<1> DEFINE T == {d \in Nat : d <= n => Cardinality(U(d)) >= d + 1 \/ Closed(U(d))}
<1>7. 0 \in T
  <2>1. U(0) = {i}
    BY <1>2
  <2>2. Cardinality(U(0)) = 1
    BY <2>1, FS_Singleton
  <2> QED BY <2>2
<1>8. ASSUME NEW d \in Nat, d \in T PROVE d + 1 \in T
  <2> SUFFICES ASSUME d + 1 <= n PROVE Cardinality(U(d + 1)) >= (d + 1) + 1 \/ Closed(U(d + 1))
    OBVIOUS
  <2>1. d \in 0..n /\ d + 1 \in 0..n /\ d + 1 \in 1..n /\ (d + 1) - 1 = d
    OBVIOUS
  <2>2. c[d + 1] = UNION {Follows(j) : j \in c[d]}
    BY <1>2, <2>1
  <2>3. U(d + 1) = U(d) \cup c[d + 1]
    <3>1. \A e : e \in 0..(d + 1) <=> e \in 0..d \/ e = d + 1
      OBVIOUS
    <3> QED BY <3>1
  <2>4. c[d] \subseteq U(d)
    <3>1. d \in 0..d
      OBVIOUS
    <3> QED BY <3>1
  <2>5. CASE Closed(U(d))
    <3>1. c[d + 1] \subseteq U(d)
      BY <2>2, <2>4, <2>5
    <3>2. U(d + 1) = U(d)
      BY <2>3, <3>1
    <3> QED BY <2>5, <3>2
  <2>6. CASE ~Closed(U(d))
    <3>0. PICK j \in U(d) : ~(Follows(j) \subseteq U(d))
      BY <2>6
    <3>1. PICK k \in Follows(j) : k \notin U(d)
      BY <3>0
    <3>2. PICK e \in 0..d : j \in c[e]
      OBVIOUS
    <3>3. e = d
      <4> SUFFICES ASSUME e # d PROVE FALSE
        OBVIOUS
      <4>1. e + 1 \in 0..d /\ e + 1 \in 1..n /\ (e + 1) - 1 = e
        BY <2>1
      <4>2. c[e + 1] = UNION {Follows(l) : l \in c[e]}
        BY <1>2, <4>1
      <4>3. k \in c[e + 1]
        BY <3>1, <3>2, <4>2
      <4>4. k \in U(d)
        BY <4>1, <4>3
      <4> QED BY <3>1, <4>4
    <3>4. k \in U(d + 1)
      BY <2>2, <2>3, <3>1, <3>2, <3>3
    <3>5. U(d) \subseteq U(d + 1) /\ U(d) # U(d + 1)
      BY <2>3, <3>1, <3>4
    <3>6. /\ IsFiniteSet(U(d + 1)) /\ Cardinality(U(d)) \in Nat /\ Cardinality(U(d + 1)) \in Nat
      BY <1>6, <2>1
    <3>7. Cardinality(U(d)) >= d + 1
      BY <1>8, <2>1, <2>6
    <3> HIDE DEF U
    <3>8. Cardinality(U(d)) <= Cardinality(U(d + 1)) /\ Cardinality(U(d)) # Cardinality(U(d + 1))
      BY <3>5, <3>6, FS_Subset
    <3> QED BY <3>6, <3>7, <3>8
  <2> QED BY <2>5, <2>6
<1>9. n \in T
  <2> HIDE DEF T
  <2> QED BY <1>7, <1>8, SetInduction
<1>10. Closed(U(n))
  <2>1. n \in 0..n
    OBVIOUS
  <2>2. Cardinality(U(n)) \in Nat /\ Cardinality(U(n)) <= n
    BY <1>6, <2>1
  <2>3. n <= n => Cardinality(U(n)) >= n + 1 \/ Closed(U(n))
    BY <1>9
  <2> HIDE DEF U
  <2> QED BY <2>2, <2>3
<1>11. i \in U(n)
  <2>1. 0 \in 0..n
    OBVIOUS
  <2> QED BY <1>2, <2>1
<1>12. U(n) \subseteq Ids
  <2>1. n \in 0..n
    OBVIOUS
  <2> QED BY <1>2, <1>6, <2>1
<1> QED BY <1>1, <1>4, <1>10, <1>11, <1>12

\* The search from a node comes to the nodes of all that it came from.
LEMMA FoundAreSources ==
  ASSUME Informed, Len(nodes) \in Nat, NEW i \in Ids, nodes[i].kind # "sent"
  PROVE  /\ \A j \in FoundFrom(i) : nodes[j].kind # "sent" /\ (nodes[j] = nodes[i] \/ nodes[j] \in Sources(nodes[i]))
         /\ \A y \in Sources(nodes[i]) : \E j \in FoundFrom(i) : nodes[j] = y
         /\ \A d \in 1..Len(nodes) : \A j \in Calls(i)[d] : nodes[j] \in Sources(nodes[i])
<1> DEFINE Good(j) == j \in Ids /\ nodes[j].kind # "sent"
           From(j) == Good(j) /\ nodes[j] \in Sources(nodes[i])
           Deep(d) == \A j \in Calls(i)[d] : IF d = 0 THEN j = i ELSE From(j)
           T == {d \in Nat : d <= Len(nodes) => Deep(d)}
<1>1. ASSUME NEW j, Good(j), NEW k \in Follows(j)
      PROVE  Good(k) /\ <<nodes[j], nodes[k]>> \in CameFrom
  <2>1. k \in Ids
    BY DEF Follows
  <2>2. <<nodes[j], nodes[k]>> \in CameFrom
    BY <1>1, <2>1, FollowsAre
  <2>3. nodes[k].kind # "sent"
    BY <1>1, <2>2, FollowsAre
  <2> QED BY <2>1, <2>2, <2>3
<1>2. 0 \in T
  BY CallsAre
<1>3. ASSUME NEW d \in Nat, d \in T PROVE d + 1 \in T
  <2> SUFFICES ASSUME d + 1 <= Len(nodes), NEW k \in Calls(i)[d + 1] PROVE From(k)
    OBVIOUS
  <2>1. d + 1 \in 1..Len(nodes) /\ (d + 1) - 1 = d
    OBVIOUS
  <2>2. Calls(i)[d + 1] = UNION {Follows(j) : j \in Calls(i)[d]}
    BY <2>1, CallsAre
  <2>3. PICK j \in Calls(i)[d] : k \in Follows(j)
    BY <2>2
  <2>4. Deep(d)
    BY <1>3, <2>1
  <2>5. CASE d = 0
    <3>1. j = i /\ Good(j)
      BY <2>4, <2>5
    <3>2. Good(k) /\ <<nodes[i], nodes[k]>> \in CameFrom
      BY <1>1, <2>3, <3>1
    <3> QED BY <3>2, SourcesClosed
  <2>6. CASE d # 0
    <3>1. From(j)
      BY <2>4, <2>6
    <3>2. Good(k) /\ <<nodes[j], nodes[k]>> \in CameFrom
      BY <1>1, <2>3, <3>1
    <3> QED BY <3>1, <3>2, SourcesClosed
  <2> QED BY <2>5, <2>6
<1>4. Nat \subseteq T
  <2> HIDE DEF T
  <2> QED BY <1>2, <1>3, SetInduction
<1>5. ASSUME NEW d \in 0..Len(nodes) PROVE Deep(d)
  <2>1. d \in T
    BY <1>4
  <2> QED BY <2>1
<1>6. ASSUME NEW d \in 1..Len(nodes), NEW j \in Calls(i)[d] PROVE nodes[j] \in Sources(nodes[i])
  <2>1. d \in 0..Len(nodes) /\ d # 0
    OBVIOUS
  <2> QED BY <1>5, <1>6, <2>1
<1>7. ASSUME NEW j \in FoundFrom(i)
      PROVE  Good(j) /\ (nodes[j] = nodes[i] \/ nodes[j] \in Sources(nodes[i]))
  <2>1. PICK d \in 0..Len(nodes) : j \in Calls(i)[d]
    BY FoundIsClosed
  <2> QED BY <1>5, <2>1
<1>8. Sources(nodes[i]) \subseteq {nodes[j] : j \in FoundFrom(i)}
  <2> DEFINE S == {nodes[j] : j \in FoundFrom(i)}
  <2>1. ASSUME NEW y, NEW z, <<y, z>> \in CameFrom, y \in S \cup {nodes[i]} PROVE z \in S
    <3>1. PICK j \in FoundFrom(i) : y = nodes[j]
      BY <2>1, FoundIsClosed
    <3>2. PICK k \in Ids : nodes[k] = z
      BY <1>7, <2>1, <3>1, FollowsAre
    <3>3. k \in Follows(j)
      BY <1>7, <2>1, <3>1, <3>2, FollowsAre
    <3>4. k \in FoundFrom(i)
      BY <3>1, <3>3, FoundIsClosed
    <3> QED BY <3>2, <3>4
  <2> HIDE DEF S
  <2>2. Sources(nodes[i]) \subseteq S
    BY <2>1, SourcesLeast
  <2> QED BY <2>2 DEF S
<1> HIDE DEF T
<1> QED BY <1>6, <1>7, <1>8

\* What came from itself keeps the search going at every depth.
LEMMA RoundGoesOn ==
  ASSUME Informed, Len(nodes) \in Nat, NEW i \in Ids, nodes[i].kind # "sent",
         NEW y \in Sources(nodes[i]), y \in Sources(y)
  PROVE  Calls(i)[Len(nodes)] # {}
<1> DEFINE K == {j \in FoundFrom(i) : y \in Sources(nodes[j])}
           T == {d \in Nat : d <= Len(nodes) => Calls(i)[d] \cap K # {}}
<1>1. ASSUME NEW j \in K PROVE \E k \in Follows(j) : k \in K
  <2>1. PICK z : <<nodes[j], z>> \in CameFrom /\ (y = z \/ y \in Sources(z))
    BY SourcesStep
  <2>2. j \in Ids /\ nodes[j].kind # "sent"
    BY FoundIsClosed, FoundAreSources
  <2>3. PICK k \in Ids : nodes[k] = z
    BY <2>1, <2>2, FollowsAre
  <2>4. k \in Follows(j)
    BY <2>1, <2>2, <2>3, FollowsAre
  <2>5. k \in FoundFrom(i)
    BY <2>4, FoundIsClosed
  <2> QED BY <2>1, <2>3, <2>4, <2>5
<1>2. 0 \in T
  <2>1. i \in K
    BY FoundIsClosed
  <2> QED BY <2>1, CallsAre
<1>3. ASSUME NEW d \in Nat, d \in T PROVE d + 1 \in T
  <2> SUFFICES ASSUME d + 1 <= Len(nodes) PROVE Calls(i)[d + 1] \cap K # {}
    OBVIOUS
  <2>1. d + 1 \in 1..Len(nodes) /\ (d + 1) - 1 = d
    OBVIOUS
  <2>2. Calls(i)[d + 1] = UNION {Follows(j) : j \in Calls(i)[d]}
    BY <2>1, CallsAre
  <2>3. PICK j \in Calls(i)[d] : j \in K
    BY <1>3
  <2> QED BY <1>1, <2>2, <2>3
<1>4. Len(nodes) \in T
  <2> HIDE DEF T
  <2> QED BY <1>2, <1>3, SetInduction
<1> QED BY <1>4

\* If nothing came from itself, a deeper node has fewer that it came from.
LEMMA NoRoundEnds ==
  ASSUME Informed, Len(nodes) \in Nat, NEW i \in Ids, nodes[i].kind # "sent",
         \A y \in Sources(nodes[i]) : y \notin Sources(y)
  PROVE  Calls(i)[Len(nodes)] = {}
<1>1. PICK n \in Nat : n = Len(nodes) /\ Ids = 1..n
  BY DEF Ids
<1> DEFINE Behind(j) == {k \in Ids : nodes[k] \in Sources(nodes[j])}
           Deep(d) == \A j \in Calls(i)[d] : Cardinality(Behind(j)) + d < n
           T == {d \in Nat : d <= n => Deep(d)}
<1>2. IsFiniteSet(Ids) /\ Cardinality(Ids) = n
  <2>1. IsFiniteSet(1..n) /\ Cardinality(1..n) = n
    <3>1. 1 \in Int /\ n \in Int
      OBVIOUS
    <3>2. IsFiniteSet(1..n) /\ Cardinality(1..n) = IF 1 > n THEN 0 ELSE n - 1 + 1
      BY ONLY <3>1, FS_Interval
    <3> QED BY <3>2
  <2> QED BY <1>1, <2>1
<1>3. ASSUME NEW j PROVE Behind(j) \subseteq Ids /\ IsFiniteSet(Behind(j)) /\ Cardinality(Behind(j)) \in Nat
  <2>1. Behind(j) \subseteq Ids
    OBVIOUS
  <2> HIDE DEF Behind
  <2> QED BY <1>2, <2>1, FS_Subset, FS_CardinalityType
\* A set without an element of another, within that other, is smaller.
<1>4. ASSUME NEW A, NEW B, NEW x \in B, IsFiniteSet(B), A \subseteq B, x \notin A
      PROVE  Cardinality(A) < Cardinality(B)
  <2>1. A \in SUBSET B /\ A # B
    BY <1>4
  <2>2. Cardinality(A) <= Cardinality(B) /\ (Cardinality(B) = Cardinality(A) => B = A) /\ IsFiniteSet(A)
    BY <1>4, <2>1, FS_Subset
  <2>3. Cardinality(A) \in Nat /\ Cardinality(B) \in Nat
    BY <1>4, <2>2, FS_CardinalityType
  <2> QED BY <2>1, <2>2, <2>3
<1>5. 0 \in T
  <2>1. nodes[i] \notin Sources(nodes[i])
    OBVIOUS
  <2>2. i \notin Behind(i)
    BY <2>1
  <2>3. Cardinality(Behind(i)) < n
    <3> HIDE DEF Behind
    <3> QED BY <1>2, <1>3, <1>4, <2>2
  <2>4. Calls(i)[0] = {i}
    BY CallsAre
  <2>5. Cardinality(Behind(i)) + 0 < n
    <3> HIDE DEF Behind
    <3> QED BY <1>3, <2>3
  <2> QED BY <2>4, <2>5
<1>6. ASSUME NEW d \in Nat, d \in T PROVE d + 1 \in T
  <2> SUFFICES ASSUME d + 1 <= n PROVE Deep(d + 1)
    <3> HIDE DEF Deep
    <3> QED OBVIOUS
  <2>0. Deep(d)
    <3> HIDE DEF Deep
    <3>1. d <= n
      OBVIOUS
    <3> QED BY <1>6, <3>1
  <2> SUFFICES ASSUME NEW k \in Calls(i)[d + 1] PROVE Cardinality(Behind(k)) + (d + 1) < n
    OBVIOUS
  <2>1. d + 1 \in 1..Len(nodes) /\ (d + 1) - 1 = d /\ d \in 0..Len(nodes)
    BY <1>1
  <2>2. Calls(i)[d + 1] = UNION {Follows(j) : j \in Calls(i)[d]}
    BY <2>1, CallsAre
  <2>3. PICK j \in Calls(i)[d] : k \in Follows(j)
    BY <2>2
  <2>4. j \in FoundFrom(i)
    BY <2>1, <2>3, FoundIsClosed
  <2>5. j \in Ids /\ nodes[j].kind # "sent" /\ k \in Ids
    BY <2>3, <2>4, FoundIsClosed, FoundAreSources DEF Follows
  <2>6. <<nodes[j], nodes[k]>> \in CameFrom
    BY <2>3, <2>5, FollowsAre
  <2>7. k \in Behind(j) /\ Behind(k) \subseteq Behind(j)
    BY <2>5, <2>6, SourcesClosed, SourcesStep
  <2>8. k \notin Behind(k)
    <3>1. nodes[k] \in Sources(nodes[i])
      BY <2>1, FoundAreSources
    <3> QED BY <3>1
  <2>9. Cardinality(Behind(j)) + d < n
    BY <2>0, <2>3
  <2> HIDE DEF Behind
  <2>10. Cardinality(Behind(k)) < Cardinality(Behind(j))
    BY <1>3, <1>4, <2>7, <2>8
  <2>11. Cardinality(Behind(j)) \in Nat /\ Cardinality(Behind(k)) \in Nat
    BY <1>3
  <2> QED BY <2>9, <2>10, <2>11
<1>7. n \in T
  <2> HIDE DEF T
  <2> QED BY <1>5, <1>6, SetInduction
<1>8. ASSUME NEW j \in Calls(i)[n] PROVE FALSE
  <2>1. Cardinality(Behind(j)) + n < n
    BY <1>7, <1>8
  <2>2. Cardinality(Behind(j)) \in Nat
    BY <1>3
  <2> HIDE DEF Behind
  <2> QED BY <2>1, <2>2
<1> QED BY <1>1, <1>8

\* snap_handlers.cpp, RecurseAncestors: for every log and however many nodes there are, the
\* search finds the versions whose content can have come into a version and no others, and
\* ends unless one of the things it meets came from itself.
THEOREM SearchFindsSources == Spec => []AncestorsAreSources
<1> DEFINE Inv == SnapInv /\ BootsKnown /\ WrittenByLives
<1>1. Init => Inv
  <2>1. Init => BootsKnown /\ WrittenByLives
    BY DEF Init, GraphInit, BootsKnown, WrittenByLives
  <2> QED BY <2>1, InitSnapInv
<1>2. Inv /\ [Next]_vars => Inv'
  BY SnapStep, BootsStep, WrittenStep
<1>3. Inv => AncestorsAreSources
  <2> SUFFICES ASSUME Inv, atBoot, ~lost, NEW iv \in DOMAIN InodeVersionMap
               PROVE  LET before == Sources(Inode(iv))
                      IN /\ AncestorsEnd(iv) <=> \A y \in before : y \notin Sources(y)
                         /\ GetAncestors(iv) = {Inode(iv)} \cup {y \in before : y.kind = "inode"}
    BY DEF AncestorsAreSources, Complete
  <2>1. Informed
    BY DEF Informed
  <2>2. PICK i : i = InodeVersionMap[iv]
    OBVIOUS
  <2>3. Len(nodes) \in Nat /\ i \in Ids /\ nodes[i] = Inode(iv)
    BY <2>2, KindsDiffer DEF SnapInv, NodesInv, Points, Ids
  <2>4. nodes[i].kind = "inode" /\ nodes[i].kind # "sent"
    BY <2>3, KindsDiffer
  <2>5. AncestorsEnd(iv) <=> \A y \in Sources(nodes[i]) : y \notin Sources(y)
    BY <2>1, <2>2, <2>3, <2>4, RoundGoesOn, NoRoundEnds DEF AncestorsEnd
  <2>6. GetAncestors(iv) = {nodes[j] : j \in {k \in FoundFrom(i) : nodes[k].kind = "inode"}}
    BY <2>2 DEF GetAncestors, FoundFrom
  <2>7. /\ \A j \in FoundFrom(i) : nodes[j] = nodes[i] \/ nodes[j] \in Sources(nodes[i])
        /\ \A y \in Sources(nodes[i]) : \E j \in FoundFrom(i) : nodes[j] = y
        /\ i \in FoundFrom(i)
    BY <2>1, <2>3, <2>4, FoundAreSources, FoundIsClosed
  <2>8. GetAncestors(iv) = {nodes[i]} \cup {y \in Sources(nodes[i]) : y.kind = "inode"}
    BY <2>4, <2>6, <2>7
  <2> QED BY <2>3, <2>5, <2>8
<1> HIDE DEF Inv
<1> QED BY <1>1, <1>2, <1>3, PTL DEF Spec

-----------------------------------------------------------------------------
(* The list of gz_cat and pg_cat *)

Distinct(s) == \A i, j \in 1..Len(s) : s[i] = s[j] => i = j

\* The elements of two lists joined.
LEMMA Joined ==
  ASSUME NEW T, NEW p \in Seq(T), NEW q \in Seq(T)
  PROVE  /\ p \o q \in Seq(T) /\ Len(p \o q) = Len(p) + Len(q)
         /\ \A k \in 1..Len(p \o q) :
              (p \o q)[k] = IF k <= Len(p) THEN p[k] ELSE q[k - Len(p)]
OBVIOUS

\* Removing the first occurrence of an element from a list without repetitions
\* removes the element and nothing else.
LEMMA RemoveFromDistinct ==
  ASSUME NEW s \in Seq(CredIds), NEW x, Distinct(s)
  PROVE  /\ removeitem(s, x) \in Seq(CredIds)
         /\ Distinct(removeitem(s, x))
         /\ ToSet(removeitem(s, x)) = ToSet(s) \ {x}
<1>1. CASE ~ \E i \in 1..Len(s) : s[i] = x
  <2>1. removeitem(s, x) = s
    BY <1>1 DEF removeitem, RemoveFirst
  <2>2. x \notin ToSet(s)
    BY <1>1 DEF ToSet
  <2> QED BY <2>1, <2>2
<1>2. CASE \E i \in 1..Len(s) : s[i] = x
  <2>1. PICK i \in 1..Len(s) : s[i] = x
    BY <1>2
  <2>2. {k \in 1..Len(s) : s[k] = x} = {i}
    BY <2>1 DEF Distinct
  <2>3. Min({i}) = i
    BY <2>1 DEF Min
  <2>4. SelectInSeq(s, LAMBDA v : v = x) = i
    BY <2>2, <2>3 DEF SelectInSeq
  <2>5. removeitem(s, x) = RemoveAt(s, i)
    BY <1>2, <2>4 DEF removeitem, RemoveFirst
  <2> DEFINE a == SubSeq(s, 1, i - 1)
             b == SubSeq(s, i + 1, Len(s))
             r == a \o b
  <2>6. /\ r \in Seq(CredIds)
        /\ Len(r) = Len(s) - 1
        /\ \A k \in 1..Len(r) : r[k] = IF k < i THEN s[k] ELSE s[k + 1]
    <3>1. /\ a \in Seq(CredIds) /\ Len(a) = i - 1
          /\ \A k \in 1..(i - 1) : a[k] = s[k]
      BY <2>1
    <3>2. /\ b \in Seq(CredIds) /\ Len(b) = Len(s) - i
          /\ \A k \in 1..(Len(s) - i) : b[k] = s[k + i]
      <4>1. i + 1 \in 1..(Len(s) + 1) /\ Len(s) \in Nat /\ i \in Int
        BY <2>1
      <4>2. Len(b) = Len(s) - i /\ b \in Seq(CredIds)
        BY <4>1
      <4>3. \A k \in 1..Len(b) : b[k] = s[(i + 1) + k - 1]
        BY <4>1, <4>2
      <4> QED BY <4>1, <4>2, <4>3
    <3> HIDE DEF a, b
    <3>3. /\ r \in Seq(CredIds) /\ Len(r) = Len(a) + Len(b)
          /\ \A k \in 1..Len(r) : r[k] = IF k <= Len(a) THEN a[k] ELSE b[k - Len(a)]
      BY <3>1, <3>2, Joined
    <3>4. ASSUME NEW k \in 1..Len(r)
          PROVE  r[k] = IF k < i THEN s[k] ELSE s[k + 1]
      <4>1. CASE k < i
        BY <2>1, <3>1, <3>2, <3>3, <4>1
      <4>2. CASE ~(k < i)
        <5>1. k - Len(a) \in 1..(Len(s) - i) /\ (k - Len(a)) + i = k + 1
          BY <2>1, <3>1, <3>2, <3>3, <4>2
        <5>2. b[k - Len(a)] = s[(k - Len(a)) + i]
          BY <3>2, <5>1
        <5>3. r[k] = b[k - Len(a)]
          BY <2>1, <3>1, <3>2, <3>3, <4>2
        <5> QED BY <4>2, <5>1, <5>2, <5>3
      <4> QED BY <4>1, <4>2
    <3> QED BY <2>1, <3>1, <3>2, <3>3, <3>4
  <2> HIDE DEF r
  <2>7. Distinct(r)
    <3> SUFFICES ASSUME NEW j \in 1..Len(r), NEW k \in 1..Len(r), r[j] = r[k]
                 PROVE  j = k
      BY DEF Distinct
    <3> DEFINE up(n) == IF n < i THEN n ELSE n + 1
    <3>1. r[j] = s[up(j)] /\ r[k] = s[up(k)]
      BY <2>6
    <3>2. up(j) \in 1..Len(s) /\ up(k) \in 1..Len(s)
      BY <2>1, <2>6
    <3>3. up(j) = up(k)
      BY <3>1, <3>2 DEF Distinct
    <3> QED BY <2>1, <2>6, <3>3
  <2>8. ToSet(r) = ToSet(s) \ {x}
    <3>1. ASSUME NEW k \in 1..Len(r) PROVE r[k] \in ToSet(s) \ {x}
      <4> DEFINE n == IF k < i THEN k ELSE k + 1
      <4>1. n \in 1..Len(s) /\ n # i /\ r[k] = s[n]
        BY <2>1, <2>6
      <4> HIDE DEF n
      <4>2. s[n] # x
        BY <2>1, <4>1 DEF Distinct
      <4>3. s[n] \in ToSet(s)
        BY <4>1 DEF ToSet
      <4> QED BY <4>1, <4>2, <4>3
    <3>2. ASSUME NEW n \in 1..Len(s), s[n] # x PROVE s[n] \in ToSet(r)
      <4> DEFINE k == IF n < i THEN n ELSE n - 1
      <4>1. k \in 1..Len(r) /\ r[k] = s[n]
        <5>1. n # i
          BY <2>1, <3>2
        <5>2. k \in 1..Len(r) /\ (IF k < i THEN k ELSE k + 1) = n
          BY <2>1, <2>6, <5>1
        <5> HIDE DEF k
        <5> QED BY <2>6, <5>2
      <4> HIDE DEF k
      <4>2. k \in DOMAIN r
        BY <2>6, <4>1
      <4> QED BY <4>1, <4>2 DEF ToSet
    <3>3. \A y \in ToSet(r) : y \in ToSet(s) \ {x}
      BY <2>6, <3>1 DEF ToSet
    <3>4. \A y \in ToSet(s) : y # x => y \in ToSet(r)
      BY <3>2 DEF ToSet
    <3> QED BY <3>3, <3>4
  <2>9. removeitem(s, x) = r
    BY <2>5 DEF RemoveAt, r
  <2> QED BY <2>6, <2>7, <2>8, <2>9
<1> QED BY <1>1, <1>2

\* Putting a new element in front of such a list keeps it one.
LEMMA AddToDistinct ==
  ASSUME NEW s \in Seq(CredIds), NEW x \in CredIds, Distinct(s), x \notin ToSet(s)
  PROVE  /\ additem(s, x) \in Seq(CredIds)
         /\ Distinct(additem(s, x))
         /\ ToSet(additem(s, x)) = ToSet(s) \cup {x}
<1> DEFINE r == <<x>> \o s
<1>1. /\ r \in Seq(CredIds)
      /\ Len(r) = Len(s) + 1
      /\ \A k \in 1..Len(r) : r[k] = IF k = 1 THEN x ELSE s[k - 1]
  OBVIOUS
<1>2. Distinct(r)
  BY <1>1 DEF Distinct, ToSet
<1>3. ToSet(r) = ToSet(s) \cup {x}
  <2>1. ToSet(r) \subseteq ToSet(s) \cup {x}
    BY <1>1 DEF ToSet
  <2>2. x \in ToSet(r)
    <3>1. 1 \in DOMAIN r /\ r[1] = x
      BY <1>1
    <3> QED BY <3>1 DEF ToSet
  <2>3. \A i \in 1..Len(s) : s[i] \in ToSet(r)
    <3>1. \A i \in 1..Len(s) : i + 1 \in DOMAIN r /\ r[i + 1] = s[i]
      BY <1>1
    <3> QED BY <3>1 DEF ToSet
  <2> QED BY <2>1, <2>2, <2>3 DEF ToSet
<1> QED BY <1>1, <1>2, <1>3 DEF additem, Cons

FInv == TypeOK /\ NoStaleEntry

-----------------------------------------------------------------------------

LEMMA InitFInv == FilterInit => FInv
BY FilterAssumption DEF FilterInit, CommandLine, TypeNames, FInv, TypeOK, NoStaleEntry, ToSet

\* What every step does to the history and to what is shown.
LEMMA ReadTyped ==
  ASSUME FInv, NEW m \in LogRecord, ReadRecord(m)
  PROVE  /\ hist' \in Seq(LogRecord) /\ Len(hist') = Len(hist) + 1 /\ Len(hist') <= MaxLog
         /\ UNCHANGED options
BY FilterAssumption DEF FInv, TypeOK, ReadRecord

LEMMA ShowTyped ==
  ASSUME FInv, NEW t, Show(t), Len(hist') = Len(hist) + 1
  PROVE  shown' \subseteq 1..Len(hist')
<1>1. Len(hist) \in Nat /\ shown \subseteq 1..Len(hist)
  BY DEF FInv, TypeOK
<1>2. shown' = shown \/ shown' = shown \cup {Len(hist) + 1}
  BY DEF Show
<1>3. 1..Len(hist) \subseteq 1..Len(hist') /\ Len(hist) + 1 \in 1..Len(hist')
  BY <1>1
<1> QED BY <1>1, <1>2, <1>3

LEMMA NotShownTyped ==
  ASSUME FInv, UNCHANGED shown, Len(hist') = Len(hist) + 1
  PROVE  shown' \subseteq 1..Len(hist')
<1>1. Len(hist) \in Nat /\ shown \subseteq 1..Len(hist)
  BY DEF FInv, TypeOK
<1> QED BY <1>1

\* From the pieces to the invariant.
LEMMA Assemble ==
  ASSUME FInv, UNCHANGED options,
         hist' \in Seq(LogRecord), Len(hist') <= MaxLog,
         shown' \subseteq 1..Len(hist'), alive' \subseteq CredIds,
         extracreds' \in Seq(CredIds), Distinct(extracreds'),
         ToSet(extracreds') \subseteq alive',
         creds = {} => extracreds' = <<>>
  PROVE  FInv'
BY DEF FInv, TypeOK, NoStaleEntry, options, Distinct

LEMMA FilterCredforkStep ==
  ASSUME FInv, NEW c \in CredIds, NEW d \in CredIds, Credfork(c, d)
  PROVE  FInv'
<1> DEFINE m == Rec("credfork", c, d)
<1>1. m \in LogRecord /\ m.cred = c /\ m.forked = d
  BY DEF Rec, LogRecord, AllTypes, Tracking
<1>2. /\ hist' \in Seq(LogRecord) /\ Len(hist') = Len(hist) + 1 /\ Len(hist') <= MaxLog
      /\ UNCHANGED options
  BY <1>1, ReadTyped DEF Credfork
<1>3. /\ extracreds \in Seq(CredIds) /\ Distinct(extracreds)
      /\ ToSet(extracreds) \subseteq alive /\ alive \subseteq CredIds
      /\ creds = {} => extracreds = <<>>
  BY DEF FInv, TypeOK, NoStaleEntry, Distinct
<1>4. shown' \subseteq 1..Len(hist')
  BY <1>2, ShowTyped, NotShownTyped DEF Credfork, HandleCredfork
<1>5. /\ d \notin alive /\ alive' = alive \cup {d}
      /\ \/ extracreds' = extracreds
         \/ creds # {} /\ extracreds' = additem(extracreds, d)
  BY <1>1 DEF Credfork, HandleCredfork, FollowFork
<1>6. /\ extracreds' \in Seq(CredIds) /\ Distinct(extracreds')
      /\ ToSet(extracreds') \subseteq alive'
      /\ creds = {} => extracreds' = <<>>
  <2>1. CASE extracreds' = extracreds
    BY <1>3, <1>5, <2>1
  <2>2. CASE creds # {} /\ extracreds' = additem(extracreds, d)
    <3>1. d \notin ToSet(extracreds)
      BY <1>3, <1>5
    <3> QED BY <1>3, <1>5, <2>2, <3>1, AddToDistinct
  <2> QED BY <1>5, <2>1, <2>2
<1> QED BY <1>2, <1>3, <1>4, <1>5, <1>6, Assemble

\* Steps that take at most the record's own credential off the list.
LEMMA ShrinkStep ==
  ASSUME FInv, NEW m \in LogRecord, ReadRecord(m),
         extracreds' = extracreds \/ extracreds' = removeitem(extracreds, m.cred),
         alive' = alive \/ (alive' = alive \ {m.cred} /\ m.cred \notin ToSet(extracreds')),
         UNCHANGED shown \/ Show(m.type)
  PROVE  FInv'
<1>1. /\ hist' \in Seq(LogRecord) /\ Len(hist') = Len(hist) + 1 /\ Len(hist') <= MaxLog
      /\ UNCHANGED options
  BY ReadTyped
<1>2. /\ extracreds \in Seq(CredIds) /\ Distinct(extracreds)
      /\ ToSet(extracreds) \subseteq alive /\ alive \subseteq CredIds
      /\ creds = {} => extracreds = <<>>
  BY DEF FInv, TypeOK, NoStaleEntry, Distinct
<1>3. shown' \subseteq 1..Len(hist')
  BY <1>1, ShowTyped, NotShownTyped
<1>4. /\ extracreds' \in Seq(CredIds) /\ Distinct(extracreds')
      /\ ToSet(extracreds') \subseteq ToSet(extracreds)
  BY <1>2, RemoveFromDistinct
<1>5. creds = {} => extracreds' = <<>>
  <2>1. removeitem(<<>>, m.cred) = <<>>
    BY DEF removeitem, RemoveFirst
  <2> QED BY <1>2, <2>1
<1> QED BY <1>1, <1>2, <1>3, <1>4, <1>5, Assemble

LEMMA FilterCredfreeStep ==
  ASSUME FInv, NEW c \in CredIds, Credfree(c)
  PROVE  FInv'
<1> DEFINE m == Rec("credfree", c, c)
<1>1. m \in LogRecord /\ m.cred = c /\ m.type = "credfree"
  BY DEF Rec, LogRecord, AllTypes, Tracking
<1>2. /\ extracreds \in Seq(CredIds) /\ Distinct(extracreds)
      /\ creds = {} => extracreds = <<>>
  BY DEF FInv, TypeOK, NoStaleEntry, Distinct
<1>3. /\ ReadRecord(m) /\ alive' = alive \ {m.cred}
      /\ UNCHANGED shown \/ Show(m.type)
      /\ extracreds' = extracreds \/ extracreds' = removeitem(extracreds, m.cred)
  BY <1>1 DEF Credfree, HandleCredfree, Forget
<1>4. c \notin ToSet(extracreds')
  <2>1. CASE creds # {} /\ want_cred(c)
    <3>1. extracreds' = removeitem(extracreds, c)
      BY <1>1, <2>1 DEF Credfree, HandleCredfree, Forget
    <3> QED BY <1>2, <3>1, RemoveFromDistinct
  <2>2. CASE ~want_cred(c)
    <3>1. extracreds' = extracreds /\ ~Contains(extracreds, c)
      BY <1>1, <2>2 DEF Credfree, HandleCredfree, Forget, want_cred, hasitem
    <3> QED BY <1>2, <3>1 DEF Contains, ToSet
  <2>3. CASE creds = {}
    <3>1. extracreds' = <<>>
      BY <1>1, <1>2, <2>3 DEF Credfree, HandleCredfree, Forget, want_cred
    <3> QED BY <3>1 DEF ToSet
  <2> QED BY <2>1, <2>2, <2>3
<1> QED BY <1>1, <1>3, <1>4, ShrinkStep

LEMMA FilterExecStep ==
  ASSUME FInv, NEW c \in CredIds, Exec(c)
  PROVE  FInv'
<1> DEFINE m == Rec("exec", c, c)
<1>1. m \in LogRecord /\ m.cred = c /\ m.type = "exec"
  BY DEF Rec, LogRecord, AllTypes, Tracking
<1>2. /\ ReadRecord(m) /\ alive' = alive
      /\ UNCHANGED shown \/ Show(m.type)
      /\ extracreds' = extracreds \/ extracreds' = removeitem(extracreds, m.cred)
  BY <1>1 DEF Exec, HandleExec, ForgetExec
<1> QED BY <1>1, <1>2, ShrinkStep

LEMMA FilterOtherStep ==
  ASSUME FInv, NEW c \in CredIds, NEW t \in AllTypes \ Tracking, Other(c, t)
  PROVE  FInv'
<1> DEFINE m == Rec(t, c, c)
<1>1. m \in LogRecord /\ m.cred = c /\ m.type = t
  BY DEF Rec, LogRecord, AllTypes, Tracking
<1>2. /\ ReadRecord(m) /\ alive' = alive /\ extracreds' = extracreds
      /\ UNCHANGED shown \/ Show(m.type)
  BY <1>1 DEF Other, HandleOther
<1> QED BY <1>1, <1>2, ShrinkStep

LEMMA NextFInv == FInv /\ [FilterNext]_filterVars => FInv'
<1> SUFFICES ASSUME FInv, [FilterNext]_filterVars PROVE FInv'
  OBVIOUS
<1>1. CASE FilterNext
  BY <1>1, FilterCredforkStep, FilterCredfreeStep, FilterExecStep, FilterOtherStep DEF FilterNext
<1>2. CASE UNCHANGED filterVars
  BY <1>2 DEF filterVars, options, FInv, TypeOK, NoStaleEntry
<1> QED BY <1>1, <1>2

\* The variables keep their types.
THEOREM FilterTypeCorrect == FilterSpec => []TypeOK
<1>1. FInv => TypeOK
  BY DEF FInv
<1> QED BY InitFInv, NextFInv, <1>1, PTL DEF FilterSpec

\* Nobody dead is followed and nobody twice, whatever the log, the options and
\* the kernel's reuse of ids: removing one entry is enough to forget a process.
THEOREM NoStaleEntryHolds == FilterSpec => []NoStaleEntry
<1>1. FInv => NoStaleEntry
  BY DEF FInv
<1> QED BY InitFInv, NextFInv, <1>1, PTL DEF FilterSpec

-----------------------------------------------------------------------------
(* Whom the list follows *)

LEMMA DescendsMore ==
  ASSUME NEW i, NEW S, NEW T, S \subseteq T, Descends(i, S)
  PROVE  Descends(i, T)
  BY DEF Descends

\* The least set that is closed has nothing but what it has to.
LEMMA LineageIs == \A i \in 1..Len(hist) : i \in Lineage <=> Descends(i, Lineage)
<1> DEFINE Closed(S) == \A k \in 1..Len(hist) : Descends(k, S) => k \in S
<1>1. ASSUME NEW i \in 1..Len(hist), Descends(i, Lineage) PROVE i \in Lineage
  <2> SUFFICES ASSUME NEW S \in SUBSET (1..Len(hist)), Closed(S) PROVE i \in S
    BY DEF Lineage
  <2>1. Lineage \subseteq S
    BY DEF Lineage
  <2>2. Descends(i, S)
    BY <1>1, <2>1, DescendsMore
  <2> QED BY <2>2
<1>2. ASSUME NEW i \in Lineage PROVE Descends(i, Lineage)
  <2> DEFINE T == {k \in Lineage : Descends(k, Lineage)}
  <2>1. T \in SUBSET (1..Len(hist)) /\ T \subseteq Lineage
    BY DEF Lineage
  <2>2. Closed(T)
    <3> SUFFICES ASSUME NEW k \in 1..Len(hist), Descends(k, T) PROVE k \in T
      OBVIOUS
    <3>1. Descends(k, Lineage)
      BY <2>1, DescendsMore
    <3> QED BY <1>1, <3>1
  <2> HIDE DEF T
  <2>3. i \in T
    BY <2>1, <2>2 DEF Lineage
  <2> QED BY <2>3 DEF T
<1> QED BY <1>1, <1>2

\* One more record.
Longer(m) ==
  /\ hist \in Seq(LogRecord) /\ hist' \in Seq(LogRecord)
  /\ Len(hist') = Len(hist) + 1
  /\ hist'[Len(hist) + 1] = m
  /\ \A k \in 1..Len(hist) : hist'[k] = hist[k]
  /\ UNCHANGED options

LEMMA ReadLonger ==
  ASSUME FInv, NEW m \in LogRecord, ReadRecord(m)
  PROVE  Longer(m)
<1>1. hist \in Seq(LogRecord) /\ hist' = Append(hist, m) /\ UNCHANGED options
  BY DEF FInv, TypeOK, ReadRecord
<1> QED BY <1>1 DEF Longer

\* The record ends what is followed of its credential.
Ends(m) ==
  \/ m.type = "credfree"
  \/ m.type = "exec" /\ recurse # 2 /\ m.cred \notin creds /\ ExecHandled

LEMMA LivesOn ==
  ASSUME NEW m, Longer(m), NEW n \in Nat, n = Len(hist)
  PROVE  /\ \A j \in 1..n, i \in 1..n : Lives(j, i - 1)' <=> Lives(j, i - 1)
         /\ \A j \in 1..n : Lives(j, n + 1)' <=> Lives(j, n) /\ (m.cred = hist[j].forked => ~Ends(m))
         /\ \A j \in 1..n : Lives(j, n)' <=> Lives(j, n)
         /\ Lives(n + 1, n + 1)'
<1>1. /\ recurse' = recurse /\ creds' = creds /\ (ExecHandled' <=> ExecHandled)
      /\ \A k \in 1..n : hist'[k] = hist[k]
      /\ hist'[n + 1] = m
  BY DEF Longer, options, ExecHandled
<1>2. ASSUME NEW j \in 1..n, NEW i \in 0..n PROVE Lives(j, i)' <=> Lives(j, i)
  <2>1. \A k \in (j + 1)..i : k \in 1..n
    OBVIOUS
  <2> QED BY <1>1, <2>1 DEF Lives
<1>3. ASSUME NEW j \in 1..n
      PROVE  Lives(j, n + 1)' <=> Lives(j, n) /\ (m.cred = hist[j].forked => ~Ends(m))
  <2>1. \A k \in (j + 1)..(n + 1) : k \in (j + 1)..n \/ k = n + 1
    OBVIOUS
  <2>2. n + 1 \in (j + 1)..(n + 1) /\ \A k \in (j + 1)..n : k \in (j + 1)..(n + 1) /\ k \in 1..n
    OBVIOUS
  <2>3. Lives(j, n + 1)' <=> /\ Lives(j, n)
                             /\ m.cred = hist[j].forked =>
                                  /\ m.type # "credfree"
                                  /\ m.type = "exec" => recurse = 2 \/ m.cred \in creds \/ ~ExecHandled
    BY <1>1, <2>1, <2>2 DEF Lives
  <2> QED BY <2>3 DEF Ends
<1>4. Lives(n + 1, n + 1)'
  <2>1. \A k \in ((n + 1) + 1)..(n + 1) : FALSE
    OBVIOUS
  <2> QED BY <2>1 DEF Lives
<1>5. \A j \in 1..n, i \in 1..n : Lives(j, i - 1)' <=> Lives(j, i - 1)
  <2>1. \A i \in 1..n : i - 1 \in 0..n
    OBVIOUS
  <2> QED BY <1>2, <2>1
<1>6. \A j \in 1..n : Lives(j, n)' <=> Lives(j, n)
  BY <1>2
<1> QED BY <1>3, <1>4, <1>5, <1>6

LEMMA DescendsSame ==
  ASSUME NEW m, Longer(m), NEW n \in Nat, n = Len(hist), NEW i \in 1..n,
         NEW S \in SUBSET (1..(n + 1)), NEW T \in SUBSET (1..n), \A j \in 1..n : j \in S <=> j \in T
  PROVE  Descends(i, S)' <=> Descends(i, T)
<1>1. creds' = creds /\ \A k \in 1..n : hist'[k] = hist[k]
  BY DEF Longer, options
<1>2. \A j \in S : j < i => j \in 1..n
  OBVIOUS
<1>3. \A j \in 1..n : Lives(j, i - 1)' <=> Lives(j, i - 1)
  BY LivesOn
<1> QED BY <1>1, <1>2, <1>3 DEF Descends

\* What the lineage is of the records before stays as it was.
LEMMA LineageGrows ==
  ASSUME NEW m, Longer(m), NEW n \in Nat, n = Len(hist)
  PROVE  /\ Lineage \in SUBSET (1..n) /\ Lineage' \in SUBSET (1..(n + 1))
         /\ \A i \in 1..n : i \in Lineage' <=> i \in Lineage
<1>1. Len(hist') = n + 1
  BY DEF Longer
<1>2. Lineage \in SUBSET (1..n) /\ Lineage' \in SUBSET (1..(n + 1))
  BY <1>1 DEF Lineage
<1>3. \A i \in 1..n : i \in Lineage <=> Descends(i, Lineage)
  BY LineageIs
<1>4. \A i \in 1..(n + 1) : i \in Lineage' <=> Descends(i, Lineage)'
  <2>1. (\A i \in 1..Len(hist) : i \in Lineage <=> Descends(i, Lineage))'
    BY LineageIs, PTL
  <2> QED BY <1>1, <2>1
<1>5. ASSUME NEW i \in 1..n, i \in Lineage' PROVE i \in Lineage
  <2> DEFINE T == Lineage \cup {n + 1}
  <2>1. T \in SUBSET (1..(n + 1)) /\ \A j \in 1..n : j \in T <=> j \in Lineage
    <3>1. n + 1 \in 1..(n + 1) /\ \A j \in 1..n : j \in 1..(n + 1) /\ j # n + 1
      OBVIOUS
    <3>2. \A j \in Lineage : j \in 1..n
      BY <1>2
    <3>3. \A j \in T : j \in 1..(n + 1)
      BY <3>1, <3>2
    <3> QED BY <3>1, <3>3
  <2> HIDE DEF T
  <2>2. PICK S : S = T
    OBVIOUS
  <2>3. ASSUME NEW k \in 1..(n + 1), Descends(k, S)' PROVE k \in S
    <3>1. CASE k \in 1..n
      <4>1. Descends(k, Lineage)
        BY <1>2, <2>1, <2>2, <2>3, <3>1, DescendsSame
      <4> QED BY <1>3, <2>1, <2>2, <3>1, <4>1
    <3>2. CASE k = n + 1
      BY <2>2, <3>2 DEF T
    <3> QED BY <3>1, <3>2
  <2>4. i \in S
    BY <1>1, <1>5, <2>1, <2>2, <2>3 DEF Lineage
  <2> QED BY <2>1, <2>2, <2>4
<1>6. ASSUME NEW i \in 1..n, i \in Lineage PROVE i \in Lineage'
  <2> DEFINE T == {j \in 1..n : j \in Lineage'}
  <2>1. T \in SUBSET (1..n) /\ \A j \in 1..n : j \in Lineage' <=> j \in T
    OBVIOUS
  <2> HIDE DEF T
  <2>2. ASSUME NEW k \in 1..n, Descends(k, T) PROVE k \in T
    <3>1. PICK S : S = Lineage'
      OBVIOUS
    <3>2. Descends(k, S)'
      BY <1>2, <2>1, <2>2, <3>1, DescendsSame
    <3>3. Descends(k, Lineage)'
      BY <3>1, <3>2 DEF Descends
    <3> QED BY <1>4, <2>1, <3>3
  <2>3. i \in T
    BY <1>6, <2>1, <2>2 DEF Lineage
  <2> QED BY <2>1, <2>3
<1> QED BY <1>2, <1>5, <1>6

\* Who is followed when one more record has been read.
LEMMA FollowedGrows ==
  ASSUME FInv, NEW m \in LogRecord, Longer(m), creds # {}, recurse # 0
  PROVE  \A x : x \in Followed' <=>
           \/ x \in Followed /\ ~(Ends(m) /\ x = m.cred)
           \/ /\ m.type = "credfork" /\ x = m.forked
              /\ m.cred \in creds \/ m.cred \in Followed
<1>1. PICK n \in Nat : n = Len(hist)
  BY DEF Longer
<1>2. /\ creds' = creds /\ recurse' = recurse /\ Len(hist') = n + 1 /\ hist'[n + 1] = m
      /\ \A k \in 1..n : hist'[k] = hist[k]
  BY <1>1 DEF Longer, options
<1>3. /\ Lineage \in SUBSET (1..n) /\ Lineage' \in SUBSET (1..(n + 1))
      /\ \A i \in 1..n : i \in Lineage' <=> i \in Lineage
  BY <1>1, LineageGrows
<1>4. \A x : x \in Followed <=> \E i \in 1..n : i \in Lineage /\ Lives(i, n) /\ hist[i].forked = x
  BY <1>1, <1>3 DEF Followed
<1>5. \A x : x \in Followed' <=>
        \E i \in 1..(n + 1) : i \in Lineage' /\ Lives(i, n + 1)' /\ hist'[i].forked = x
  BY <1>2, <1>3 DEF Followed
<1>6. /\ \A j \in 1..n : Lives(j, n + 1)' <=> Lives(j, n) /\ (m.cred = hist[j].forked => ~Ends(m))
      /\ \A j \in 1..n : Lives(j, n)' <=> Lives(j, n)
      /\ Lives(n + 1, n + 1)'
  BY <1>1, LivesOn
<1>7. n + 1 \in 1..(n + 1) /\ (\A i \in 1..n : i \in 1..(n + 1)) /\ (\A i \in 1..(n + 1) : i \in 1..n \/ i = n + 1)
  OBVIOUS
<1>8. n + 1 \in Lineage' <=> m.type = "credfork" /\ (m.cred \in creds \/ m.cred \in Followed)
  <2>1. n + 1 \in Lineage' <=> Descends(n + 1, Lineage)'
    <3>1. (\A i \in 1..Len(hist) : i \in Lineage <=> Descends(i, Lineage))'
      BY LineageIs, PTL
    <3>2. PICK k : k = n + 1
      OBVIOUS
    <3>3. k \in Lineage' <=> Descends(k, Lineage)'
      BY <1>2, <1>7, <3>1, <3>2
    <3> QED BY <3>2, <3>3
  <2>2. \A j : j < n + 1 /\ j \in 1..(n + 1) <=> j \in 1..n
    OBVIOUS
  <2>3. Descends(n + 1, Lineage)' <=>
          /\ m.type = "credfork"
          /\ \/ m.cred \in creds
             \/ \E j \in 1..n : j \in Lineage /\ hist[j].forked = m.cred /\ Lives(j, n)'
    <3>1. \A j : j \in Lineage' /\ j < n + 1 <=> j \in 1..n /\ j \in Lineage
      BY <1>3, <2>2
    <3>2. (n + 1) - 1 = n
      OBVIOUS
    <3> QED BY <1>2, <3>1, <3>2 DEF Descends
  <2> QED BY <1>4, <1>6, <2>1, <2>3
<1> SUFFICES ASSUME NEW x
             PROVE  x \in Followed' <=>
                      \/ x \in Followed /\ ~(Ends(m) /\ x = m.cred)
                      \/ /\ m.type = "credfork" /\ x = m.forked
                         /\ m.cred \in creds \/ m.cred \in Followed
  OBVIOUS
<1>9. (\E i \in 1..n : i \in Lineage' /\ Lives(i, n + 1)' /\ hist'[i].forked = x)
        <=> x \in Followed /\ ~(Ends(m) /\ x = m.cred)
  BY <1>2, <1>3, <1>4, <1>6
<1>10. x \in Followed' <=> \/ \E i \in 1..n : i \in Lineage' /\ Lives(i, n + 1)' /\ hist'[i].forked = x
                           \/ n + 1 \in Lineage' /\ m.forked = x
  BY <1>2, <1>5, <1>6, <1>7
<1> QED BY <1>8, <1>9, <1>10

LEMMA NobodyFollowed == creds = {} \/ recurse = 0 => Followed = {}
  BY DEF Followed

\* The list, as the record of a type leaves it.
ListIs(m) ==
  /\ creds = {} => extracreds' = <<>>
  /\ creds # {} =>
       \A x : x \in ToSet(extracreds') <=>
         \/ x \in ToSet(extracreds) /\ ~(Ends(m) /\ x = m.cred)
         \/ /\ m.type = "credfork" /\ x = m.forked /\ recurse # 0
            /\ m.cred \in creds \/ m.cred \in ToSet(extracreds)

LEMMA ListFollows ==
  ASSUME FInv, FollowsDescendants, NEW m \in LogRecord, ReadRecord(m), ListIs(m)
  PROVE  FollowsDescendants'
<1>1. Longer(m) /\ creds' = creds /\ recurse' = recurse
  BY ReadLonger DEF ReadRecord, options
<1>2. (creds = {} \/ recurse = 0 => Followed = {})'
  BY NobodyFollowed, PTL
<1>3. CASE creds = {}
  <2>1. ToSet(<<>>) = {}
    BY DEF ToSet
  <2> QED BY <1>1, <1>2, <1>3, <2>1 DEF ListIs, FollowsDescendants
<1>4. CASE creds # {} /\ recurse = 0
  <2>1. ToSet(extracreds) = {}
    BY <1>4, NobodyFollowed DEF FollowsDescendants
  <2>2. \A x : x \notin ToSet(extracreds')
    BY <1>4, <2>1 DEF ListIs
  <2> QED BY <1>1, <1>2, <1>4, <2>2 DEF FollowsDescendants
<1>5. CASE creds # {} /\ recurse # 0
  <2>1. \A x : x \in Followed' <=>
          \/ x \in Followed /\ ~(Ends(m) /\ x = m.cred)
          \/ /\ m.type = "credfork" /\ x = m.forked
             /\ m.cred \in creds \/ m.cred \in Followed
    BY <1>1, <1>5, FollowedGrows
  <2>2. \A x : x \in ToSet(extracreds') <=> x \in Followed'
    BY <1>5, <2>1 DEF ListIs, FollowsDescendants
  <2> QED BY <2>2 DEF FollowsDescendants
<1> QED BY <1>3, <1>4, <1>5

LEMMA ListTyped ==
  ASSUME FInv
  PROVE  /\ extracreds \in Seq(CredIds) /\ Distinct(extracreds)
         /\ ToSet(extracreds) \subseteq alive /\ recurse \in 0..2
         /\ creds = {} => extracreds = <<>>
         /\ \A x : hasitem(extracreds, x) <=> x \in ToSet(extracreds)
  BY DEF FInv, TypeOK, NoStaleEntry, Distinct, hasitem, Contains, ToSet

LEMMA EmptyList == \A x : removeitem(<<>>, x) = <<>>
  BY DEF removeitem, RemoveFirst

LEMMA ForkFollows ==
  ASSUME FInv, FollowsDescendants, NEW c \in CredIds, NEW d \in CredIds, Credfork(c, d)
  PROVE  FollowsDescendants'
<1> DEFINE m == Rec("credfork", c, d)
<1>1. m \in LogRecord /\ m.cred = c /\ m.forked = d /\ m.type = "credfork" /\ ~Ends(m)
  BY DEF Rec, LogRecord, AllTypes, Tracking, Ends
<1>2. ReadRecord(m) /\ HandleCredfork(m) /\ c \in alive /\ d \notin alive
  BY DEF Credfork
<1> HIDE DEF m
<1>3. ListIs(m)
  <2>1. CASE creds = {}
    BY <1>2, <2>1, ListTyped DEF ListIs, HandleCredfork, FollowFork
  <2>2. CASE creds # {} /\ recurse # 0 /\ (c \in creds \/ c \in ToSet(extracreds))
    <3>1. recurse >= 1 /\ d \notin ToSet(extracreds)
      BY <1>2, <2>2, ListTyped
    <3>2. want_cred(c)
      BY <2>2, ListTyped DEF want_cred
    <3>3. extracreds' = additem(extracreds, d)
      BY <1>1, <1>2, <2>2, <3>1, <3>2 DEF HandleCredfork, FollowFork
    <3>4. ToSet(extracreds') = ToSet(extracreds) \cup {d}
      BY <3>1, <3>3, ListTyped, AddToDistinct
    <3> QED BY <1>1, <2>2, <3>4 DEF ListIs
  <2>3. CASE creds # {} /\ ~(recurse # 0 /\ (c \in creds \/ c \in ToSet(extracreds)))
    <3>1. recurse >= 1 => ~want_cred(c)
      BY <2>3, ListTyped DEF want_cred
    <3>2. extracreds' = extracreds
      BY <1>1, <1>2, <3>1 DEF HandleCredfork, FollowFork
    <3> QED BY <1>1, <2>3, <3>2 DEF ListIs
  <2> QED BY <2>1, <2>2, <2>3
<1> QED BY <1>1, <1>2, <1>3, ListFollows

\* A step that takes a credential off the list if its record ends what is followed.
LEMMA EndFollows ==
  ASSUME FInv, FollowsDescendants, NEW m \in LogRecord, m.type # "credfork", ReadRecord(m),
         extracreds' = extracreds \/ extracreds' = removeitem(extracreds, m.cred),
         creds # {} /\ Ends(m) /\ m.cred \in ToSet(extracreds) => extracreds' # extracreds,
         creds # {} /\ ~Ends(m) /\ m.cred \in ToSet(extracreds) => extracreds' = extracreds
  PROVE  FollowsDescendants'
<1>1. CASE creds = {}
  BY <1>1, ListTyped, EmptyList, ListFollows DEF ListIs
<1>2. CASE creds # {}
  <2>1. ToSet(removeitem(extracreds, m.cred)) = ToSet(extracreds) \ {m.cred}
    BY ListTyped, RemoveFromDistinct
  <2>2. ListIs(m)
    BY <1>2, <2>1 DEF ListIs
  <2> QED BY <2>2, ListFollows
<1> QED BY <1>1, <1>2

LEMMA FollowStep ==
  ASSUME FInv, FollowsDescendants, FilterNext
  PROVE  FollowsDescendants'
<1>1. ASSUME NEW c \in CredIds, Credfree(c) PROVE FollowsDescendants'
  <2> DEFINE m == Rec("credfree", c, c)
  <2>1. m \in LogRecord /\ m.cred = c /\ m.type = "credfree" /\ Ends(m)
    BY DEF Rec, LogRecord, AllTypes, Tracking, Ends
  <2>2. ReadRecord(m) /\ HandleCredfree(m)
    BY <1>1 DEF Credfree
  <2> HIDE DEF m
  <2>3. extracreds' = extracreds \/ extracreds' = removeitem(extracreds, m.cred)
    BY <2>2 DEF HandleCredfree, Forget
  <2>4. ASSUME creds # {}, c \in ToSet(extracreds) PROVE extracreds' # extracreds
    <3>1. want_cred(c)
      BY <2>4, ListTyped DEF want_cred
    <3>2. extracreds' = removeitem(extracreds, c)
      BY <2>1, <2>2, <2>4, <3>1 DEF HandleCredfree, Forget
    <3>3. c \notin ToSet(extracreds')
      BY <3>2, ListTyped, RemoveFromDistinct
    <3> QED BY <2>4, <3>3
  <2> QED BY <2>1, <2>2, <2>3, <2>4, EndFollows
<1>2. ASSUME NEW c \in CredIds, Exec(c) PROVE FollowsDescendants'
  <2> DEFINE m == Rec("exec", c, c)
  <2>1. m \in LogRecord /\ m.cred = c /\ m.type = "exec"
    BY DEF Rec, LogRecord, AllTypes, Tracking
  <2>2. ReadRecord(m) /\ HandleExec(m)
    BY <1>2 DEF Exec
  <2> HIDE DEF m
  <2>3. extracreds' = extracreds \/ extracreds' = removeitem(extracreds, m.cred)
    BY <2>2 DEF HandleExec, ForgetExec
  <2>4. creds # {} => (Ends(m) <=> ExecHandled /\ Unselected(m) /\ recurse < 2)
    BY <2>1, ListTyped DEF Ends, Unselected
  <2>5. ASSUME creds # {}, Ends(m), c \in ToSet(extracreds) PROVE extracreds' # extracreds
    <3>1. extracreds' = removeitem(extracreds, c)
      BY <2>1, <2>2, <2>4, <2>5 DEF HandleExec, ForgetExec
    <3>2. c \notin ToSet(extracreds')
      BY <3>1, ListTyped, RemoveFromDistinct
    <3> QED BY <2>5, <3>2
  <2>6. ASSUME creds # {}, ~Ends(m) PROVE extracreds' = extracreds
    BY <2>2, <2>4, <2>6 DEF HandleExec, ForgetExec
  <2> QED BY <2>1, <2>2, <2>3, <2>5, <2>6, EndFollows
<1>3. ASSUME NEW c \in CredIds, NEW t \in AllTypes \ Tracking, Other(c, t) PROVE FollowsDescendants'
  <2> DEFINE m == Rec(t, c, c)
  <2>1. m \in LogRecord /\ m.cred = c /\ m.type = t /\ ~Ends(m) /\ t # "credfork"
    BY DEF Rec, LogRecord, AllTypes, Tracking, Ends
  <2>2. ReadRecord(m) /\ extracreds' = extracreds
    BY <1>3 DEF Other, HandleOther
  <2> HIDE DEF m
  <2> QED BY <2>1, <2>2, EndFollows
<1> QED BY <1>1, <1>2, <1>3, ForkFollows DEF FilterNext

LEMMA InitFollows == FilterInit => FollowsDescendants
<1> SUFFICES ASSUME FilterInit PROVE ToSet(extracreds) = Followed
  BY DEF FollowsDescendants
<1>1. extracreds = <<>> /\ Len(hist) = 0
  BY DEF FilterInit
<1>2. ToSet(extracreds) = {}
  BY <1>1 DEF ToSet
<1>3. Lineage = {}
  BY <1>1 DEF Lineage
<1> QED BY <1>2, <1>3 DEF Followed

\* gz_cat's and pg_cat's -f: for every log and command line the list is the living
\* descendants of the selected processes, however often ids are used again.
THEOREM ListIsDescendants == FilterSpec => []FollowsDescendants
<1> DEFINE Inv == FInv /\ FollowsDescendants
<1>1. FilterInit => Inv
  BY InitFInv, InitFollows
<1>2. Inv /\ [FilterNext]_filterVars => Inv'
  <2> SUFFICES ASSUME Inv, [FilterNext]_filterVars PROVE FollowsDescendants'
    BY NextFInv
  <2>1. CASE UNCHANGED filterVars
    <3>1. hist' = hist /\ creds' = creds /\ recurse' = recurse /\ types' = types
          /\ tool' = tool /\ extracreds' = extracreds
      BY <2>1 DEF filterVars, options
    <3>2. ExecHandled' <=> ExecHandled
      BY <3>1 DEF ExecHandled
    <3>3. \A j, n : Lives(j, n)' <=> Lives(j, n)
      BY <3>1, <3>2 DEF Lives
    <3>4. \A i, S : Descends(i, S)' <=> Descends(i, S)
      BY <3>1, <3>3 DEF Descends
    <3>5. Lineage' = Lineage
      BY <3>1, <3>4 DEF Lineage
    <3>6. {j \in Lineage' : Lives(j, Len(hist))'} = {j \in Lineage : Lives(j, Len(hist))}
      BY <3>1, <3>3, <3>5
    <3>7. Followed' = Followed
      BY <3>1, <3>6 DEF Followed
    <3> QED BY <3>1, <3>7 DEF FollowsDescendants, ToSet
  <2> QED BY <2>1, FollowStep
<1>3. Inv => FollowsDescendants
  OBVIOUS
<1> HIDE DEF Inv
<1> QED BY <1>1, <1>2, <1>3, PTL DEF FilterSpec

\* The record read is either not shown or about a process that is wanted.
LEMMA ShownIsRead ==
  ASSUME FInv, FollowsDescendants, NEW m \in LogRecord, ReadRecord(m),
         shown' = shown \/ shown' = shown \cup {Len(hist) + 1},
         shown' # shown => creds = {} \/ m.cred \in creds \cup ToSet(extracreds)
  PROVE  \A r \in {hist'[i] : i \in shown' \ shown} :
           creds = {} \/ r.cred \in creds \cup Followed
<1>1. hist' = Append(hist, m) /\ hist \in Seq(LogRecord)
  BY DEF ReadRecord, FInv, TypeOK
<1>2. hist'[Len(hist) + 1] = m
  BY <1>1
<1>3. SUFFICES ASSUME NEW i \in shown' \ shown
               PROVE  creds = {} \/ hist'[i].cred \in creds \cup Followed
  OBVIOUS
<1>4. i = Len(hist) + 1 /\ shown' # shown
  OBVIOUS
<1>5. hist'[i] = m
  BY <1>2, <1>4
<1>6. creds = {} \/ m.cred \in creds \cup Followed
  BY <1>4 DEF FollowsDescendants
<1> QED BY <1>5, <1>6

\* What Show does, and whom want_cred wants.
LEMMA ShowsHere ==
  ASSUME NEW t, Show(t)
  PROVE  shown' = shown \/ shown' = shown \cup {Len(hist) + 1}
  BY DEF Show

LEMMA WantsFollowed ==
  ASSUME FInv, NEW c \in CredIds, want_cred(c)
  PROVE  creds = {} \/ c \in creds \cup ToSet(extracreds)
  BY ListTyped DEF want_cred

\* gz_cat and pg_cat: a record is shown only for a selected process or a living
\* descendant of one, whatever the types selected and whichever handler shows it.
THEOREM ShownIsFollowed == FilterSpec => ShowsOnlyFollowed
<1> DEFINE Inv   == FInv /\ FollowsDescendants
           Shown == \A m \in {hist'[i] : i \in shown' \ shown} :
                      creds = {} \/ m.cred \in creds \cup Followed
<1>1. FilterSpec => []Inv
  <2>1. FilterInit => FInv
    BY InitFInv
  <2>2. FInv /\ [FilterNext]_filterVars => FInv'
    BY NextFInv
  <2> QED BY <2>1, <2>2, ListIsDescendants, PTL DEF FilterSpec
<1>2. Inv /\ [FilterNext]_filterVars => [Shown]_filterVars
  <2> SUFFICES ASSUME Inv, FilterNext PROVE Shown
    OBVIOUS
  <2>1. ASSUME NEW c \in CredIds, NEW d \in CredIds, Credfork(c, d) PROVE Shown
    <3> DEFINE m == Rec("credfork", c, d)
    <3>1. m \in LogRecord /\ m.cred = c
      BY DEF Rec, LogRecord, AllTypes, Tracking
    <3>2. ReadRecord(m) /\ HandleCredfork(m)
      BY <2>1 DEF Credfork
    <3> HIDE DEF m
    <3>3. (want_cred(c) /\ Show("credfork")) \/ shown' = shown
      BY <3>1, <3>2 DEF HandleCredfork
    <3> QED BY <3>1, <3>2, <3>3, ShowsHere, WantsFollowed, ShownIsRead
  <2>2. ASSUME NEW c \in CredIds, Credfree(c) PROVE Shown
    <3> DEFINE m == Rec("credfree", c, c)
    <3>1. m \in LogRecord /\ m.cred = c
      BY DEF Rec, LogRecord, AllTypes, Tracking
    <3>2. ReadRecord(m) /\ HandleCredfree(m)
      BY <2>2 DEF Credfree
    <3> HIDE DEF m
    <3>3. (want_cred(c) /\ Show("credfree")) \/ shown' = shown
      BY <3>1, <3>2 DEF HandleCredfree
    <3> QED BY <3>1, <3>2, <3>3, ShowsHere, WantsFollowed, ShownIsRead
  <2>3. ASSUME NEW c \in CredIds, Exec(c) PROVE Shown
    <3> DEFINE m == Rec("exec", c, c)
    <3>1. m \in LogRecord /\ m.cred = c
      BY DEF Rec, LogRecord, AllTypes, Tracking
    <3>2. ReadRecord(m) /\ HandleExec(m)
      BY <2>3 DEF Exec
    <3> HIDE DEF m
    <3>3. \/ Show("exec") /\ (creds = {} \/ c \in creds \cup ToSet(extracreds))
          \/ shown' = shown
      BY <3>1, <3>2, ListTyped DEF HandleExec, Unselected
    <3> QED BY <3>1, <3>2, <3>3, ShowsHere, ShownIsRead
  <2>4. ASSUME NEW c \in CredIds, NEW t \in AllTypes \ Tracking, Other(c, t) PROVE Shown
    <3> DEFINE m == Rec(t, c, c)
    <3>1. m \in LogRecord /\ m.cred = c
      BY DEF Rec, LogRecord
    <3>2. ReadRecord(m) /\ HandleOther(m)
      BY <2>4 DEF Other
    <3> HIDE DEF m
    <3>3. (want_cred(c) /\ Show(m.type)) \/ shown' = shown
      BY <3>1, <3>2 DEF HandleOther
    <3> QED BY <3>1, <3>2, <3>3, ShowsHere, WantsFollowed, ShownIsRead
  <2> HIDE DEF Shown
  <2> QED BY <2>1, <2>2, <2>3, <2>4 DEF FilterNext
<1>3. FilterSpec => [][Shown]_filterVars
  BY <1>1, <1>2, PTL DEF FilterSpec
<1> QED BY <1>3, PTL DEF ShowsOnlyFollowed
=============================================================================
