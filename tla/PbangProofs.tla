---------------------------- MODULE PbangProofs ----------------------------
(* Proofs about Pbang, for every tree and every bound. *)
EXTENDS Pbang, BitvecProofs, SequenceTheorems

-----------------------------------------------------------------------------
(* The error paths *)

\* What main() holds between two calls, by the label it would jump to.
PcType == pc \in {"off", "mount", "label", "open", "init", "walk", "commit", "out_bitvec",
                  "out_close", "out_xattr", "out_umount", "out_rmdir"}

\* out_rmdir is reached with the mount gone or stuck.
IInv ==
  /\ PcType
  /\ pc \notin {"off", "out_rmdir"} => stuck = {}
  /\ pc = "out_rmdir" => \/ held = {"tmpdir"} /\ stuck = {}
                         \/ held = {"tmpdir", "mount"} /\ stuck = held
  /\ UnwindsInOrder

LEMMA InitIInv == Init => IInv
  BY DEF Init, IInv, PcType, UnwindsInOrder

LEMMA SetupKeepsIInv == IInv /\ (Start \/ Mount \/ OldLabel \/ OpenLog \/ InitBits) => IInv'
<1> SUFFICES ASSUME IInv PROVE (Start \/ Mount \/ OldLabel \/ OpenLog \/ InitBits) => IInv'
  OBVIOUS
<1>1. Start => IInv'
  BY DEF Start, Fault, IInv, PcType, UnwindsInOrder
<1>2. Mount => IInv'
  BY DEF Mount, FailTo, Next1, Fault, IInv, PcType, UnwindsInOrder
<1>3. OldLabel => IInv'
  BY DEF OldLabel, Next1, Fault, IInv, PcType, UnwindsInOrder
<1>4. OpenLog => IInv'
  BY DEF OpenLog, FailTo, Next1, Fault, IInv, PcType, UnwindsInOrder
<1>5. InitBits => IInv'
  BY DEF InitBits, FailTo, Next1, Fault, IInv, PcType, UnwindsInOrder
<1> QED
  BY <1>1, <1>2, <1>3, <1>4, <1>5

LEMMA WalkKeepsIInv ==
  IInv /\ ((\E d \in Names : Callback(d)) \/ Flush \/ WalkEnds \/ Commit) => IInv'
<1> SUFFICES ASSUME IInv
             PROVE ((\E d \in Names : Callback(d)) \/ Flush \/ WalkEnds \/ Commit) => IInv'
  OBVIOUS
<1>1. (\E d \in Names : Callback(d)) => IInv'
  <2> SUFFICES ASSUME NEW d \in Names, Callback(d) PROVE IInv'
    OBVIOUS
  <2>1. pc = "walk" /\ pc' \in {"walk", "commit"} /\ held' = held /\ stuck' = stuck
    BY DEF Callback, Fault
  <2> QED
    BY <2>1 DEF IInv, PcType, UnwindsInOrder
<1>2. Flush => IInv'
  BY DEF Flush, process, IInv, PcType, UnwindsInOrder
<1>3. WalkEnds => IInv'
  BY DEF WalkEnds, FailTo, Fault, IInv, PcType, UnwindsInOrder
<1>4. Commit => IInv'
  BY DEF Commit, FailTo, Fault, IInv, PcType, UnwindsInOrder
<1> QED
  BY <1>1, <1>2, <1>3, <1>4

LEMMA CleanupKeepsIInv ==
  IInv /\ (OutBitvec \/ OutClose \/ OutXattr \/ OutUmount \/ OutRmdir \/ Kill) => IInv'
<1> SUFFICES ASSUME IInv
             PROVE (OutBitvec \/ OutClose \/ OutXattr \/ OutUmount \/ OutRmdir \/ Kill) => IInv'
  OBVIOUS
<1>1. OutBitvec => IInv'
  BY DEF OutBitvec, IInv, PcType, UnwindsInOrder
<1>2. OutClose => IInv'
  BY DEF OutClose, IInv, PcType, UnwindsInOrder
<1>3. OutXattr => IInv'
  BY DEF OutXattr, IInv, PcType, UnwindsInOrder
<1>4. OutUmount => IInv'
  BY DEF OutUmount, FailTo, Fault, IInv, PcType, UnwindsInOrder
<1>5. OutRmdir => IInv'
  BY DEF OutRmdir, Fault, IInv, PcType, UnwindsInOrder
<1>6. Kill => IInv'
  BY DEF Kill, IInv, PcType, UnwindsInOrder
<1> QED
  BY <1>1, <1>2, <1>3, <1>4, <1>5, <1>6

\* However the calls of main() and of the callback fail, each label of main() finds
\* exactly what it gives back: pbang.c's goto chain neither leaks nor frees twice.
THEOREM PathsUnwind == Spec => []UnwindsInOrder
<1>1. IInv /\ [Next]_vars => IInv'
  <2> SUFFICES ASSUME IInv, [Next]_vars PROVE IInv'
    OBVIOUS
  <2>1. CASE Next
    BY <2>1, SetupKeepsIInv, WalkKeepsIInv, CleanupKeepsIInv DEF Next
  <2>2. CASE UNCHANGED vars
    BY <2>2 DEF vars, process, IInv, PcType, UnwindsInOrder
  <2> QED
    BY <2>1, <2>2
<1>2. IInv => UnwindsInOrder
  BY DEF IInv
<1> QED
  BY <1>1, <1>2, InitIInv, PTL DEF Spec

-----------------------------------------------------------------------------
(* What the stream tells.  The predicates take the stream, so that a message more can be *)
(* added and looked at.                                                                  *)

Msg == (UNION {{Alloc(i), Setattr(i)} : i \in Inodes}) \cup {Link(d) : d \in Names}

\* Inode i is allocated and described; name d is linked; all is said of d, with the inodes
\* k known before.
Pair(s, i)    == \E m \in 1..(Len(s) - 1) : s[m] = Alloc(i) /\ s[m + 1] = Setattr(i)
Linked(s, d)  == \E n \in 1..Len(s) : s[n] = Link(d)
Told(s, k, d) == Linked(s, d) /\ (d.ino \in k \/ Pair(s, d.ino))

\* StreamReadable, of any stream s, unset bits u and known inodes k.
OnceEach(s, u) ==
  \A m, n \in 1..Len(s) :
    m # n /\ s[m] = s[n] /\ s[m].op = "inode_alloc" => s[m].ino \in u
Ino(s, k, n) ==
  \/ s[n].ino \in k
  \/ \E m \in 1..(n - 2) : s[m] = Alloc(s[n].ino) /\ s[m + 1] = Setattr(s[n].ino)
Dir(s, n) ==
  \/ s[n].dir = s[n].ino
  \/ \E m \in 1..(n - 1) : s[m].op = "link" /\ s[m].ino = s[n].dir
LinksKnown(s, k) == \A n \in 1..Len(s) : s[n].op = "link" => Ino(s, k, n) /\ Dir(s, n)
Readable(s, u, k) == OnceEach(s, u) /\ LinksKnown(s, k)

LEMMA ReadableStream == 
  ASSUME stream \in Seq(Msg)
  PROVE  StreamReadable <=> Readable(stream, unset, dirty)
<1>1. DOMAIN stream = 1..Len(stream)
  OBVIOUS
<1>2. AllocatedOnce <=> OnceEach(stream, unset)
  BY <1>1 DEF AllocatedOnce, OnceEach
<1>3. ASSUME NEW n \in DOMAIN stream
      PROVE (InodeKnown(n) <=> Ino(stream, dirty, n)) /\ (DirectoryKnown(n) <=> Dir(stream, n))
  BY DEF InodeKnown, Ino, DirectoryKnown, Dir
<1> QED
  BY <1>1, <1>2, <1>3 DEF StreamReadable, Readable, LinksKnown

LEMMA MsgFacts ==
  /\ Inodes \subseteq Nat
  /\ \A d \in Names : d.ino \in Inodes /\ Link(d) \in Msg
                      /\ Link(d).op = "link" /\ Link(d).ino = d.ino /\ Link(d).dir = d.dir
  /\ \A i \in Inodes : /\ Alloc(i) \in Msg /\ Alloc(i).op = "inode_alloc" /\ Alloc(i).ino = i
                       /\ Setattr(i) \in Msg /\ Setattr(i).op = "setattr"
  /\ \A x \in Msg : x.op = "inode_alloc" => x.ino \in Inodes /\ x = Alloc(x.ino)
<1>1. \A d \in Names : d.ino \in Nat
  BY TreeAssumption DEF Names, LogEntry
<1>2. Inodes \subseteq Nat
  BY <1>1 DEF Inodes
<1>3. \A d \in Names : d.ino \in Inodes /\ Link(d) \in Msg
                       /\ Link(d).op = "link" /\ Link(d).ino = d.ino /\ Link(d).dir = d.dir
  <2> TAKE d \in Names
  <2>1. d.ino \in Inodes
    BY DEF Inodes
  <2>2. Link(d) \in Msg
    BY DEF Msg
  <2> QED BY <2>1, <2>2 DEF Link
<1>4. \A i \in Inodes : /\ Alloc(i) \in Msg /\ Alloc(i).op = "inode_alloc" /\ Alloc(i).ino = i
                        /\ Setattr(i) \in Msg /\ Setattr(i).op = "setattr"
  BY DEF Msg, Alloc, Setattr
<1>5. \A x \in Msg : x.op = "inode_alloc" => x.ino \in Inodes /\ x = Alloc(x.ino)
  <2> SUFFICES ASSUME NEW x \in Msg, x.op = "inode_alloc" PROVE x.ino \in Inodes /\ x = Alloc(x.ino)
    OBVIOUS
  <2>1. CASE x \in {Link(d) : d \in Names}
    <3>1. PICK d \in Names : x = Link(d)
      BY <2>1
    <3>2. x.op = "link"
      BY <3>1 DEF Link
    <3> QED BY <3>2
  <2>2. CASE x \in UNION {{Alloc(i), Setattr(i)} : i \in Inodes}
    BY <2>2, <1>4
  <2> QED BY <2>1, <2>2 DEF Msg
<1> QED BY <1>2, <1>3, <1>4, <1>5

\* A message more leaves what was told before.
LEMMA AppendKeeps ==
  ASSUME NEW s \in Seq(Msg), NEW x \in Msg
  PROVE  /\ Append(s, x) \in Seq(Msg) /\ Len(Append(s, x)) = Len(s) + 1 /\ Len(s) \in Nat
         /\ \A n \in 1..Len(s) : Append(s, x)[n] = s[n]
         /\ Append(s, x)[Len(s) + 1] = x
         /\ \A i : Pair(s, i) => Pair(Append(s, x), i)
         /\ \A d : Linked(s, d) => Linked(Append(s, x), d)
         /\ \A k, d : Told(s, k, d) => Told(Append(s, x), k, d)
<1> DEFINE t == Append(s, x)
<1>1. t \in Seq(Msg) /\ Len(t) = Len(s) + 1 /\ Len(s) \in Nat
  OBVIOUS
<1>2. (\A n \in 1..Len(s) : t[n] = s[n]) /\ t[Len(s) + 1] = x
  OBVIOUS
<1> HIDE DEF t
<1>3. \A i : Pair(s, i) => Pair(t, i)
  <2> SUFFICES ASSUME NEW i, Pair(s, i) PROVE Pair(t, i)
    OBVIOUS
  <2>1. PICK m \in 1..(Len(s) - 1) : s[m] = Alloc(i) /\ s[m + 1] = Setattr(i)
    BY DEF Pair
  <2>2. m \in 1..Len(s) /\ m + 1 \in 1..Len(s) /\ m \in 1..(Len(t) - 1)
    BY <1>1
  <2>3. t[m] = Alloc(i) /\ t[m + 1] = Setattr(i)
    BY <2>1, <2>2, <1>2
  <2> QED BY <2>2, <2>3 DEF Pair
<1>4. \A d : Linked(s, d) => Linked(t, d)
  <2> SUFFICES ASSUME NEW d, Linked(s, d) PROVE Linked(t, d)
    OBVIOUS
  <2>1. PICK n \in 1..Len(s) : s[n] = Link(d)
    BY DEF Linked
  <2>2. n \in 1..Len(t) /\ t[n] = Link(d)
    BY <2>1, <1>1, <1>2
  <2> QED BY <2>2 DEF Linked
<1>5. \A k, d : Told(s, k, d) => Told(t, k, d)
  BY <1>3, <1>4 DEF Told
<1> QED BY <1>1, <1>2, <1>3, <1>4, <1>5 DEF t

\* A message more keeps the stream readable, if an inode it allocates was not allocated and
\* what it links is known.
LEMMA AppendReadable ==
  ASSUME NEW s \in Seq(Msg), NEW x \in Msg, NEW u, NEW k, Readable(s, u, k),
         x.op = "inode_alloc" => \A m \in 1..Len(s) : s[m] = x => x.ino \in u,
         x.op = "link" =>
           /\ x.ino \in k \/ Pair(s, x.ino)
           /\ x.dir = x.ino \/ \E m \in 1..Len(s) : s[m].op = "link" /\ s[m].ino = x.dir
  PROVE  Readable(Append(s, x), u, k)
<1> DEFINE t == Append(s, x)
<1>1. /\ t \in Seq(Msg) /\ Len(t) = Len(s) + 1 /\ Len(s) \in Nat
      /\ \A n \in 1..Len(s) : t[n] = s[n]
      /\ t[Len(s) + 1] = x
  BY AppendKeeps
<1> HIDE DEF t
<1>2. OnceEach(t, u)
  <2> SUFFICES ASSUME NEW m \in 1..Len(t), NEW n \in 1..Len(t), m # n, t[m] = t[n],
                      t[m].op = "inode_alloc"
               PROVE  t[m].ino \in u
    BY DEF OnceEach
  <2>1. CASE m \in 1..Len(s) /\ n \in 1..Len(s)
    <3>1. t[m] = s[m] /\ t[n] = s[n]
      BY <2>1, <1>1
    <3> QED BY <2>1, <3>1 DEF Readable, OnceEach
  <2>2. CASE m = Len(s) + 1
    <3>1. t[m] = x /\ n \in 1..Len(s)
      BY <2>2, <1>1
    <3> QED BY <3>1, <1>1
  <2>3. CASE n = Len(s) + 1
    <3>1. t[n] = x /\ m \in 1..Len(s)
      BY <2>3, <1>1
    <3> QED BY <3>1, <1>1
  <2> QED BY <2>1, <2>2, <2>3, <1>1
<1>3. LinksKnown(t, k)
  <2> SUFFICES ASSUME NEW n \in 1..Len(t), t[n].op = "link" PROVE Ino(t, k, n) /\ Dir(t, n)
    BY DEF LinksKnown
  <2>1. CASE n \in 1..Len(s)
    <3>1. t[n] = s[n] /\ Ino(s, k, n) /\ Dir(s, n) /\ n \in Nat
      BY <2>1, <1>1 DEF Readable, LinksKnown
    <3>2. Ino(t, k, n)
      <4>1. CASE s[n].ino \in k
        BY <4>1, <3>1 DEF Ino
      <4>2. ASSUME NEW m \in 1..(n - 2), s[m] = Alloc(s[n].ino), s[m + 1] = Setattr(s[n].ino)
            PROVE  Ino(t, k, n)
        <5>1. m \in 1..Len(s) /\ m + 1 \in 1..Len(s)
          BY <2>1, <1>1
        <5>2. t[m] = Alloc(t[n].ino) /\ t[m + 1] = Setattr(t[n].ino)
          BY <5>1, <4>2, <3>1, <1>1
        <5> QED BY <5>2 DEF Ino
      <4> QED BY <4>1, <4>2, <3>1 DEF Ino
    <3>3. Dir(t, n)
      <4>1. CASE s[n].dir = s[n].ino
        BY <4>1, <3>1 DEF Dir
      <4>2. ASSUME NEW m \in 1..(n - 1), s[m].op = "link", s[m].ino = s[n].dir PROVE Dir(t, n)
        <5>1. m \in 1..Len(s)
          BY <2>1, <1>1
        <5>2. t[m] = s[m]
          BY <5>1, <1>1
        <5> QED BY <5>2, <4>2, <3>1 DEF Dir
      <4> QED BY <4>1, <4>2, <3>1 DEF Dir
    <3> QED BY <3>2, <3>3
  <2>2. CASE n = Len(s) + 1
    <3>1. t[n] = x /\ x.op = "link" /\ n - 2 = Len(s) - 1 /\ n - 1 = Len(s)
      BY <2>2, <1>1
    <3>2. Ino(t, k, n)
      <4>1. CASE x.ino \in k
        BY <4>1, <3>1 DEF Ino
      <4>2. CASE Pair(s, x.ino)
        <5>1. PICK m \in 1..(Len(s) - 1) : s[m] = Alloc(x.ino) /\ s[m + 1] = Setattr(x.ino)
          BY <4>2 DEF Pair
        <5>2. m \in 1..Len(s) /\ m + 1 \in 1..Len(s) /\ m \in 1..(n - 2)
          BY <1>1, <3>1
        <5>3. t[m] = Alloc(t[n].ino) /\ t[m + 1] = Setattr(t[n].ino)
          BY <5>1, <5>2, <3>1, <1>1
        <5> QED BY <5>2, <5>3 DEF Ino
      <4> QED BY <4>1, <4>2, <3>1
    <3>3. Dir(t, n)
      <4>1. CASE x.dir = x.ino
        BY <4>1, <3>1 DEF Dir
      <4>2. ASSUME NEW m \in 1..Len(s), s[m].op = "link", s[m].ino = x.dir PROVE Dir(t, n)
        <5>1. t[m] = s[m] /\ m \in 1..(n - 1)
          BY <3>1, <1>1
        <5> QED BY <5>1, <4>2, <3>1 DEF Dir
      <4> QED BY <4>1, <4>2, <3>1
    <3> QED BY <3>2, <3>3
  <2> QED BY <2>1, <2>2, <1>1
<1> QED BY <1>2, <1>3 DEF Readable, t

\* The directory of d is known to the readers of s, as nftw's order ensures.
DirLinked(s, d) == d.dir = d.ino \/ \E m \in 1..Len(s) : s[m].op = "link" /\ s[m].ino = d.dir

\* What callback() writes of a name whose bit it finds set.
LEMMA TellsOldInode ==
  ASSUME NEW s \in Seq(Msg), NEW d \in Names, NEW u, NEW k, Readable(s, u, k), DirLinked(s, d),
         d.ino \in k \/ Pair(s, d.ino)
  PROVE  LET t == s \o CallbackMessages(d, FALSE)
         IN  /\ t \in Seq(Msg) /\ Readable(t, u, k) /\ Told(t, k, d)
             /\ \A i : Pair(s, i) => Pair(t, i)
             /\ \A e : Told(s, k, e) => Told(t, k, e)
             /\ \A n \in 1..Len(t) : t[n].op = "inode_alloc" => n \in 1..Len(s) /\ t[n] = s[n]
<1> DEFINE x == Link(d)
           t == Append(s, x)
<1>1. /\ x \in Msg /\ x.op = "link" /\ x.ino = d.ino /\ x.dir = d.dir
  BY MsgFacts
<1>2. s \o CallbackMessages(d, FALSE) = t
  <2>1. s \o <<x>> = Append(s, x)
    BY <1>1
  <2>2. CallbackMessages(d, FALSE) = <<x>>
    BY DEF CallbackMessages
  <2> QED BY <2>1, <2>2
<1>3. x = Link(d)
  OBVIOUS
<1> HIDE DEF x
<1>4. Readable(t, u, k)
  BY <1>1, AppendReadable DEF DirLinked
<1>5. /\ t \in Seq(Msg) /\ Len(t) = Len(s) + 1 /\ Len(s) \in Nat
      /\ \A n \in 1..Len(s) : t[n] = s[n]
      /\ t[Len(s) + 1] = x
      /\ \A i : Pair(s, i) => Pair(t, i)
      /\ \A e : Told(s, k, e) => Told(t, k, e)
  BY <1>1, AppendKeeps
<1> HIDE DEF t
<1>6. Told(t, k, d)
  <2>1. Linked(t, d)
    BY <1>3, <1>5 DEF Linked
  <2> QED BY <2>1, <1>5 DEF Told
<1>7. \A n \in 1..Len(t) : t[n].op = "inode_alloc" => n \in 1..Len(s) /\ t[n] = s[n]
  <2> SUFFICES ASSUME NEW n \in 1..Len(t), t[n].op = "inode_alloc"
               PROVE  n \in 1..Len(s) /\ t[n] = s[n]
    OBVIOUS
  <2>1. n # Len(s) + 1
    BY <1>1, <1>5
  <2>2. n \in 1..Len(s)
    BY <2>1, <1>5
  <2> QED BY <2>2, <1>5
<1> QED BY <1>2, <1>4, <1>5, <1>6, <1>7

LEMMA Triple ==
  ASSUME NEW S, NEW a \in S, NEW b \in S, NEW x \in S
  PROVE  /\ <<a, b>> \o <<x>> = <<a, b, x>>
         /\ SubSeq(<<a, b, x>>, 1, 0) = <<>> /\ SubSeq(<<a, b, x>>, 1, 1) = <<a>>
         /\ SubSeq(<<a, b, x>>, 1, 2) = <<a, b>>
<1> DEFINE t == <<a, b, x>>
<1>1. /\ t \in Seq(S) /\ Len(t) = 3 /\ t[1] = a /\ t[2] = b /\ t[3] = x
      /\ <<a>> \in Seq(S) /\ <<a, b>> \in Seq(S)
  OBVIOUS
<1>2. <<a, b>> \o <<x>> = t
  <2>1. /\ <<a, b>> \o <<x>> \in Seq(S) /\ Len(<<a, b>> \o <<x>>) = 3
        /\ (<<a, b>> \o <<x>>)[1] = a /\ (<<a, b>> \o <<x>>)[2] = b /\ (<<a, b>> \o <<x>>)[3] = x
    OBVIOUS
  <2> DEFINE c == <<a, b>> \o <<x>>
  <2> HIDE DEF c, t
  <2>2. \A i \in 1..Len(c) : c[i] = t[i]
    <3>1. \A i \in 1..3 : i = 1 \/ i = 2 \/ i = 3
      OBVIOUS
    <3> QED BY <2>1, <1>1, <3>1 DEF c
  <2> QED BY <2>1, <2>2, <1>1, SeqEqual DEF c
<1> HIDE DEF t
<1>3. SubSeq(t, 1, 0) = <<>>
  BY SubSeqEmpty
<1>4. SubSeq(t, 1, 1) = <<a>>
  <2>1. \A i \in 1..1 : t[i] \in S
    BY <1>1
  <2>2. /\ SubSeq(t, 1, 1) \in Seq(S) /\ Len(SubSeq(t, 1, 1)) = 1 /\ SubSeq(t, 1, 1)[1] = t[1]
    BY <2>1, SubSeqProperties
  <2> DEFINE c == SubSeq(t, 1, 1)
             o == <<a>>
  <2>3. o \in Seq(S) /\ Len(o) = 1 /\ o[1] = a
    BY <1>1
  <2> HIDE DEF c, o
  <2>4. \A i \in 1..Len(c) : c[i] = o[i]
    BY <2>2, <2>3, <1>1 DEF c
  <2>5. c = o
    BY <2>2, <2>3, <2>4, SeqEqual DEF c
  <2> QED BY <2>5 DEF c, o
<1>5. SubSeq(t, 1, 2) = <<a, b>>
  <2>1. \A i \in 1..2 : t[i] \in S
    BY <1>1
  <2>2. /\ SubSeq(t, 1, 2) \in Seq(S) /\ Len(SubSeq(t, 1, 2)) = 2
        /\ SubSeq(t, 1, 2)[1] = t[1] /\ SubSeq(t, 1, 2)[2] = t[2]
    BY <2>1, SubSeqProperties
  <2> DEFINE c == SubSeq(t, 1, 2)
             o == <<a, b>>
  <2>3. o \in Seq(S) /\ Len(o) = 2 /\ o[1] = a /\ o[2] = b
    BY <1>1
  <2> HIDE DEF c, o
  <2>4. \A i \in 1..Len(c) : c[i] = o[i]
    <3>1. \A i \in 1..2 : i = 1 \/ i = 2
      OBVIOUS
    <3> QED BY <2>2, <2>3, <1>1, <3>1 DEF c
  <2>5. c = o
    BY <2>2, <2>3, <2>4, SeqEqual DEF c
  <2> QED BY <2>5 DEF c, o
<1> QED BY <1>2, <1>3, <1>4, <1>5 DEF t

\* What it writes of a name whose bit it finds clear, up to each of the three messages.
LEMMA TellsNewInode ==
  ASSUME NEW s \in Seq(Msg), NEW d \in Names, NEW u, NEW k, Readable(s, u, k), DirLinked(s, d),
         \A n \in 1..Len(s) : s[n] = Alloc(d.ino) => d.ino \in u
  PROVE  LET t == s \o CallbackMessages(d, TRUE)
             half(n) == s \o SubSeq(CallbackMessages(d, TRUE), 1, n)
         IN  /\ t \in Seq(Msg) /\ Readable(t, u, k) /\ Told(t, k, d)
             /\ \A i : Pair(s, i) => Pair(t, i)
             /\ Pair(t, d.ino)
             /\ \A e : Told(s, k, e) => Told(t, k, e)
             /\ \A n \in 1..Len(t) : t[n].op = "inode_alloc" =>
                  (n \in 1..Len(s) /\ t[n] = s[n]) \/ t[n] = Alloc(d.ino)
             /\ \A n \in 0..2 : half(n) \in Seq(Msg) /\ Readable(half(n), u, k)
<1> DEFINE a == Alloc(d.ino)
           b == Setattr(d.ino)
           x == Link(d)
           s1 == Append(s, a)
           s2 == Append(s1, b)
           t  == Append(s2, x)
<1>1. /\ a \in Msg /\ a.op = "inode_alloc" /\ a.ino = d.ino
      /\ b \in Msg /\ b.op = "setattr"
      /\ x \in Msg /\ x.op = "link" /\ x.ino = d.ino /\ x.dir = d.dir
  BY MsgFacts
<1>2. /\ s \o CallbackMessages(d, TRUE) = t
      /\ s \o SubSeq(CallbackMessages(d, TRUE), 1, 0) = s
      /\ s \o SubSeq(CallbackMessages(d, TRUE), 1, 1) = s1
      /\ s \o SubSeq(CallbackMessages(d, TRUE), 1, 2) = s2
  <2>0. CallbackMessages(d, TRUE) = <<a, b>> \o <<x>>
    BY DEF CallbackMessages
  <2> HIDE DEF a, b, x
  <2>1. CallbackMessages(d, TRUE) = <<a, b, x>>
    BY <2>0, <1>1, Triple
  <2>2. /\ SubSeq(<<a, b, x>>, 1, 0) = <<>> /\ SubSeq(<<a, b, x>>, 1, 1) = <<a>>
        /\ SubSeq(<<a, b, x>>, 1, 2) = <<a, b>>
    BY <1>1, Triple
  <2>3. s \o <<>> = s /\ s \o <<a>> = s1
    BY <1>1
  <2>4. s \o <<a, b>> = s2
    BY <1>1
  <2>5. s \o <<a, b, x>> = t
    BY <1>1
  <2> QED BY <2>1, <2>2, <2>3, <2>4, <2>5
<1>3. a = Alloc(d.ino) /\ b = Setattr(d.ino) /\ x = Link(d)
  OBVIOUS
<1> HIDE DEF a, b, x
<1>4. /\ s1 \in Seq(Msg) /\ Len(s1) = Len(s) + 1 /\ Len(s) \in Nat
      /\ \A n \in 1..Len(s) : s1[n] = s[n]
      /\ s1[Len(s) + 1] = a
      /\ \A i : Pair(s, i) => Pair(s1, i)
      /\ \A e : Told(s, k, e) => Told(s1, k, e)
  BY <1>1, AppendKeeps
<1>5. Readable(s1, u, k)
  BY <1>1, <1>3, AppendReadable
<1> HIDE DEF s1
<1>6. /\ s2 \in Seq(Msg) /\ Len(s2) = Len(s1) + 1
      /\ \A n \in 1..Len(s1) : s2[n] = s1[n]
      /\ s2[Len(s1) + 1] = b
      /\ \A i : Pair(s1, i) => Pair(s2, i)
      /\ \A e : Told(s1, k, e) => Told(s2, k, e)
  BY <1>1, <1>4, AppendKeeps
<1>7. Readable(s2, u, k)
  BY <1>1, <1>4, <1>5, AppendReadable
<1> HIDE DEF s2
<1>8. Pair(s2, d.ino)
  <2>1. Len(s1) \in 1..(Len(s2) - 1) /\ Len(s1) \in 1..Len(s1)
    BY <1>4, <1>6
  <2>2. s2[Len(s1)] = a /\ s2[Len(s1) + 1] = b
    BY <2>1, <1>4, <1>6
  <2> QED BY <2>1, <2>2, <1>3 DEF Pair
<1>9. DirLinked(s2, d)
  <2>1. ASSUME NEW m \in 1..Len(s), s[m].op = "link", s[m].ino = d.dir PROVE DirLinked(s2, d)
    <3>1. m \in 1..Len(s1) /\ m \in 1..Len(s2) /\ s2[m] = s[m]
      BY <1>4, <1>6
    <3> QED BY <2>1, <3>1 DEF DirLinked
  <2> QED BY <2>1 DEF DirLinked
<1>10. /\ t \in Seq(Msg) /\ Len(t) = Len(s2) + 1
       /\ \A n \in 1..Len(s2) : t[n] = s2[n]
       /\ t[Len(s2) + 1] = x
       /\ \A i : Pair(s2, i) => Pair(t, i)
       /\ \A e : Told(s2, k, e) => Told(t, k, e)
  BY <1>1, <1>6, AppendKeeps
<1>11. Readable(t, u, k)
  BY <1>1, <1>6, <1>7, <1>8, <1>9, AppendReadable DEF DirLinked
<1> HIDE DEF t
<1>12. Told(t, k, d)
  <2>1. Linked(t, d)
    BY <1>3, <1>4, <1>6, <1>10 DEF Linked
  <2> QED BY <2>1, <1>8, <1>10 DEF Told
<1>13. \A n \in 1..Len(t) : t[n].op = "inode_alloc" =>
         (n \in 1..Len(s) /\ t[n] = s[n]) \/ t[n] = Alloc(d.ino)
  <2> SUFFICES ASSUME NEW n \in 1..Len(t), t[n].op = "inode_alloc"
               PROVE  (n \in 1..Len(s) /\ t[n] = s[n]) \/ t[n] = a
    BY <1>3
  <2>1. n # Len(s2) + 1
    BY <1>1, <1>10
  <2>2. n \in 1..Len(s2) /\ t[n] = s2[n]
    BY <2>1, <1>4, <1>6, <1>10
  <2>3. n # Len(s1) + 1
    BY <2>2, <1>1, <1>6
  <2>4. n \in 1..Len(s1) /\ t[n] = s1[n]
    BY <2>2, <2>3, <1>4, <1>6
  <2>5. CASE n = Len(s) + 1
    BY <2>4, <2>5, <1>4
  <2>6. CASE n # Len(s) + 1
    <3>1. n \in 1..Len(s)
      BY <2>4, <2>6, <1>4
    <3> QED BY <3>1, <2>4, <1>4
  <2> QED BY <2>5, <2>6
<1>14. \A i : Pair(s, i) => Pair(t, i)
  BY <1>4, <1>6, <1>10
<1>15. \A e : Told(s, k, e) => Told(t, k, e)
  BY <1>4, <1>6, <1>10
<1>16. \A n \in 0..2 : n = 0 \/ n = 1 \/ n = 2
  OBVIOUS
<1> QED BY <1>2, <1>4, <1>5, <1>6, <1>7, <1>8, <1>10, <1>11, <1>12, <1>13, <1>14, <1>15, <1>16

-----------------------------------------------------------------------------
(* The stream is readable, and success means that it is complete *)

TypeOK ==
  /\ PcType
  /\ runs \in Nat /\ label \in Nat
  /\ tree \in {Tree, Names} /\ seen \subseteq tree
  /\ stream \in Seq(Msg)

\* A run finds an older label than its own, or none.
LabelIsOld ==
  /\ label <= runs
  /\ pc \in {"mount", "label", "open", "init", "walk", "commit"} => label < runs

NothingSeen == pc \in {"mount", "label", "open", "init"} => stream = <<>> /\ seen = {}

\* During the walk the bits are the inodes that were told of and those set at first; an
\* inode that was told of has its bit unless it could not be set.
VectorTells ==
  pc = "walk" =>
    /\ Vector(inodes) /\ inodes.size > 0
    /\ \A i \in Inodes : bitvec_test(inodes, i) => i \in dirty \/ Pair(stream, i)
    /\ \A n \in 1..Len(stream) : stream[n].op = "inode_alloc" =>
         stream[n].ino \in unset \/ bitvec_test(inodes, stream[n].ino)

SeenIsTold == pc = "walk" => \A d \in seen : Told(stream, dirty, d)

AllTold == \A d \in tree : Told(stream, dirty, d)

\* As long as main() is to return 0, what its label stands for is there, in the stream
\* until gzclose and in the file from then on.
CompleteSoFar ==
  rv = "ok" =>
    /\ pc = "commit" => AllTold
    /\ pc \in {"out_bitvec", "out_close"} /\ label = runs => AllTold
    /\ pc \in {"out_xattr", "out_umount", "out_rmdir", "off"} /\ label = runs /\ runs > 0 =>
         file.of = runs /\ Describes(file, tree, dirty)

StreamInv ==
  /\ TypeOK /\ LabelIsOld /\ NothingSeen /\ VectorTells /\ SeenIsTold /\ CompleteSoFar
  /\ Readable(stream, unset, dirty)

LEMMA EmptyReadable == \A u, k : Readable(<<>>, u, k)
  BY DEF Readable, OnceEach, LinksKnown

LEMMA InitStreamInv == Init => StreamInv
  BY EmptyReadable DEF Init, StreamInv, TypeOK, PcType, LabelIsOld, NothingSeen, VectorTells,
                       SeenIsTold, CompleteSoFar

LEMMA SetupKeepsStreamInv ==
  StreamInv /\ (Start \/ Mount \/ OldLabel \/ OpenLog \/ InitBits) => StreamInv'
<1> SUFFICES ASSUME StreamInv
             PROVE  (Start \/ Mount \/ OldLabel \/ OpenLog \/ InitBits) => StreamInv'
  OBVIOUS
<1> USE DEF StreamInv, TypeOK, PcType, LabelIsOld, NothingSeen, VectorTells, SeenIsTold,
            CompleteSoFar
<1>1. Start => StreamInv'
  BY EmptyReadable DEF Start, Fault, device
<1>2. Mount => StreamInv'
  BY DEF Mount, FailTo, Next1, Fault, device, walk
<1>3. OldLabel => StreamInv'
  BY DEF OldLabel, Next1, Fault, device, walk
<1>4. OpenLog => StreamInv'
  BY DEF OpenLog, FailTo, Next1, Fault, Names, walk
<1>5. InitBits => StreamInv'
  <2> SUFFICES ASSUME InitBits PROVE StreamInv'
    OBVIOUS
  <2>1. CASE FailTo("out_close") /\ UNCHANGED <<inodes, dirty>>
    BY <2>1 DEF InitBits, FailTo, Fault, device
  <2>2. CASE /\ Next1("walk", "inodes")
             /\ \E ones \in Leftovers :
                  inodes' = bitvec_init(ones) /\ dirty' = Inodes \cap Ones(inodes')
    <3>1. Vector(inodes') /\ inodes'.size > 0
          /\ \A i \in Inodes : bitvec_test(inodes', i) => i \in dirty'
      <4> HIDE DEF StreamInv, TypeOK, PcType, LabelIsOld, NothingSeen, VectorTells,
                   SeenIsTold, CompleteSoFar
      <4>1. PICK ones \in Leftovers :
              inodes' = bitvec_init(ones) /\ dirty' = Inodes \cap Ones(inodes')
        BY <2>2
      <4>2. Vector(inodes') /\ inodes'.size > 0
        BY <4>1, InitVector
      <4> QED BY <4>1, <4>2, OnesAreBits, MsgFacts
    <3>2. stream' = <<>> /\ seen' = {} /\ pc' = "walk" /\ pc = "init"
      BY <2>2 DEF InitBits, Next1
    <3>3. Readable(stream', unset', dirty')
      BY <3>2, EmptyReadable
    <3> QED BY <2>2, <3>1, <3>2, <3>3 DEF InitBits, Next1, device
  <2> QED BY <2>1, <2>2 DEF InitBits
<1> QED BY <1>1, <1>2, <1>3, <1>4, <1>5

LEMMA CleanupKeepsStreamInv ==
  StreamInv /\ (Flush \/ WalkEnds \/ Commit \/ OutBitvec \/ OutClose \/ OutXattr \/ OutUmount
                \/ OutRmdir \/ Kill) => StreamInv'
<1> SUFFICES ASSUME StreamInv
             PROVE  (Flush \/ WalkEnds \/ Commit \/ OutBitvec \/ OutClose \/ OutXattr
                     \/ OutUmount \/ OutRmdir \/ Kill) => StreamInv'
  OBVIOUS
<1> USE DEF StreamInv, TypeOK, PcType, LabelIsOld, NothingSeen, VectorTells, SeenIsTold,
            CompleteSoFar, AllTold
<1>1. Flush => StreamInv'
  BY DEF Flush, process, walk, bounds
<1>2. WalkEnds => StreamInv'
  BY DEF WalkEnds, FailTo, Fault, device, walk
<1>3. Commit => StreamInv'
  BY DEF Commit, FailTo, Fault, walk
<1>4. OutBitvec => StreamInv'
  BY DEF OutBitvec, device, walk, bounds
<1>5. OutClose => StreamInv'
  <2> SUFFICES ASSUME OutClose PROVE StreamInv'
    OBVIOUS
  <2>1. CASE file' = [of |-> runs, recs |-> stream, closed |-> TRUE] /\ UNCHANGED <<rv, faults>>
    <3>1. file'.of = runs' /\ (AllTold => Describes(file', tree', dirty'))
      <4>1. /\ file'.of = runs /\ file'.recs = stream /\ file'.closed
            /\ runs' = runs /\ tree' = tree /\ dirty' = dirty
        BY <2>1 DEF OutClose, walk
      <4>2. ASSUME NEW d \in tree, Told(stream, dirty, d)
            PROVE  /\ \E n \in DOMAIN stream : stream[n] = Link(d)
                   /\ d.ino \in dirty \/ \E m, n \in DOMAIN stream :
                        stream[m] = Alloc(d.ino) /\ stream[n] = Setattr(d.ino)
        <5>1. DOMAIN stream = 1..Len(stream) /\ Len(stream) \in Nat
          OBVIOUS
        <5>2. ASSUME NEW m \in 1..(Len(stream) - 1), stream[m] = Alloc(d.ino),
                     stream[m + 1] = Setattr(d.ino)
              PROVE  \E p, n \in DOMAIN stream :
                       stream[p] = Alloc(d.ino) /\ stream[n] = Setattr(d.ino)
          <6>1. m \in DOMAIN stream /\ m + 1 \in DOMAIN stream
            BY <5>1
          <6> QED BY <6>1, <5>2
        <5> QED BY <5>1, <5>2, <4>2 DEF Told, Linked, Pair
      <4> QED BY <4>1, <4>2 DEF Describes
    <3> QED BY <2>1, <3>1 DEF OutClose, walk
  <2>2. CASE Fault /\ rv' = "failed" /\ UNCHANGED file
    BY <2>2 DEF OutClose, walk
  <2> QED BY <2>1, <2>2 DEF OutClose
<1>6. OutXattr => StreamInv'
  BY DEF OutXattr, device, walk, bounds
<1>7. OutUmount => StreamInv'
  BY DEF OutUmount, FailTo, Fault, device, walk
<1>8. OutRmdir => StreamInv'
  BY DEF OutRmdir, Fault, device, walk
<1>9. Kill => StreamInv'
  BY DEF Kill, device, walk
<1> QED BY <1>1, <1>2, <1>3, <1>4, <1>5, <1>6, <1>7, <1>8, <1>9

LEMMA CallbackKeepsStreamInv ==
  ASSUME NEW d \in Names, Callback(d), StreamInv
  PROVE  StreamInv'
<1> DEFINE i == d.ino
           fresh == ~bitvec_test(inodes, i)
           marked == IF fresh THEN bitvec_set(inodes, i) ELSE inodes
           messages == CallbackMessages(d, fresh)
<1>1. /\ pc = "walk" /\ Reports(d) /\ d \in tree /\ seen' = seen \cup {d} /\ seen' \subseteq tree
      /\ held' = held /\ tree' = tree /\ label' = label /\ file' = file
      /\ dirty' = dirty /\ runs' = runs
  BY DEF Callback, Reports, device, StreamInv, TypeOK
<1>2. i \in Inodes /\ i \in Nat /\ Byte(i) \in Nat
  BY MsgFacts, BitIsPlace
<1>3. /\ stream \in Seq(Msg) /\ Len(stream) \in Nat /\ Readable(stream, unset, dirty)
      /\ runs \in Nat /\ label \in Nat /\ label < runs /\ tree \in {Tree, Names}
      /\ Vector(inodes) /\ inodes.size > 0
      /\ \A j \in Inodes : bitvec_test(inodes, j) => j \in dirty \/ Pair(stream, j)
      /\ \A n \in 1..Len(stream) : stream[n].op = "inode_alloc" =>
           stream[n].ino \in unset \/ bitvec_test(inodes, stream[n].ino)
      /\ \A e \in seen : Told(stream, dirty, e)
  BY <1>1 DEF StreamInv, TypeOK, LabelIsOld, VectorTells, SeenIsTold
<1>4. DirLinked(stream, d)
  <2>1. CASE d = RootEntry
    BY <2>1 DEF DirLinked, RootEntry
  <2>2. ASSUME NEW e \in seen, e.ino = d.dir PROVE DirLinked(stream, d)
    <3>1. PICK n \in 1..Len(stream) : stream[n] = Link(e)
      BY <1>3 DEF Told, Linked
    <3>2. stream[n].op = "link" /\ stream[n].ino = d.dir
      BY <3>1, <2>2 DEF Link
    <3> QED BY <3>2 DEF DirLinked
  <2> QED BY <2>1, <2>2, <1>1 DEF Reports
<1>5. /\ fresh => /\ Vector(marked) /\ marked.size > 0
                  /\ \A j \in Nat : bitvec_test(marked, j) <=> (j = i \/ bitvec_test(inodes, j))
      /\ ~fresh => marked = inodes
  BY <1>2, <1>3, SetAddsOneBit
<1>6. ASSUME NEW t \in Seq(Msg), stream' = t, Readable(t, unset', dirty), pc' = "walk",
             Told(t, dirty, d), \A e : Told(stream, dirty, e) => Told(t, dirty, e),
             Vector(inodes'), inodes'.size > 0,
             \A j \in Inodes : bitvec_test(inodes', j) => j \in dirty \/ Pair(t, j),
             \A n \in 1..Len(t) : t[n].op = "inode_alloc" =>
               t[n].ino \in unset' \/ bitvec_test(inodes', t[n].ino)
      PROVE  StreamInv'
  BY <1>1, <1>3, <1>6 DEF StreamInv, TypeOK, PcType, LabelIsOld, NothingSeen, VectorTells,
                          SeenIsTold, CompleteSoFar
<1>7. CASE inodes' = marked /\ stream' = stream \o messages /\ UNCHANGED <<pc, rv, unset, faults>>
  <2> DEFINE t == stream \o messages
  <2>1. CASE fresh
    <3>1. \A n \in 1..Len(stream) : stream[n] = Alloc(i) => i \in unset
      BY <2>1, <1>2, <1>3, MsgFacts
    <3>2. messages = CallbackMessages(d, TRUE)
      BY <2>1
    <3>3. /\ t \in Seq(Msg) /\ Readable(t, unset, dirty) /\ Told(t, dirty, d)
          /\ \A j : Pair(stream, j) => Pair(t, j)
          /\ Pair(t, i)
          /\ \A e : Told(stream, dirty, e) => Told(t, dirty, e)
          /\ \A n \in 1..Len(t) : t[n].op = "inode_alloc" =>
               (n \in 1..Len(stream) /\ t[n] = stream[n]) \/ t[n] = Alloc(i)
      BY <3>1, <3>2, <1>3, <1>4, TellsNewInode
    <3> HIDE DEF t, messages
    <3>4. \A j \in Inodes : bitvec_test(marked, j) => j \in dirty \/ Pair(t, j)
      BY <2>1, <3>3, <1>2, <1>3, <1>5, MsgFacts
    <3>5. ASSUME NEW n \in 1..Len(t), t[n].op = "inode_alloc"
          PROVE  t[n].ino \in unset \/ bitvec_test(marked, t[n].ino)
      <4>1. CASE t[n] = Alloc(i)
        BY <4>1, <2>1, <1>2, <1>5, MsgFacts
      <4>2. CASE n \in 1..Len(stream) /\ t[n] = stream[n]
        <5>1. stream[n] \in Msg
          BY <4>2, <1>3
        <5>2. t[n].ino \in Nat
          BY <5>1, <4>2, <3>5, MsgFacts
        <5> QED BY <5>2, <4>2, <3>5, <2>1, <1>3, <1>5
      <4> QED BY <4>1, <4>2, <3>5, <3>3
    <3> HIDE DEF marked, fresh, i
    <3>6. stream' = t /\ pc' = "walk" /\ inodes' = marked /\ unset' = unset
      BY <1>1, <1>7 DEF t
    <3> QED BY <3>3, <3>4, <3>5, <3>6, <2>1, <1>5, <1>6
  <2>2. CASE ~fresh
    <3>1. messages = CallbackMessages(d, FALSE) /\ marked = inodes
      BY <2>2
    <3>2. i \in dirty \/ Pair(stream, i)
      BY <2>2, <1>2, <1>3
    <3> HIDE DEF messages
    <3>3. /\ t \in Seq(Msg) /\ Readable(t, unset, dirty) /\ Told(t, dirty, d)
          /\ \A j : Pair(stream, j) => Pair(t, j)
          /\ \A e : Told(stream, dirty, e) => Told(t, dirty, e)
          /\ \A n \in 1..Len(t) : t[n].op = "inode_alloc" =>
               n \in 1..Len(stream) /\ t[n] = stream[n]
      BY <3>1, <3>2, <1>3, <1>4, TellsOldInode
    <3>4. stream' = t /\ pc' = "walk" /\ inodes' = inodes /\ unset' = unset
      BY <3>1, <1>1, <1>7
    <3> HIDE DEF t, messages, marked, fresh, i
    <3>5. \A n \in 1..Len(t) : t[n].op = "inode_alloc" =>
            t[n].ino \in unset \/ bitvec_test(inodes, t[n].ino)
      BY <3>3, <1>3
    <3> QED BY <3>3, <3>4, <3>5, <1>3, <1>6
  <2> QED BY <2>1, <2>2
<1>8. CASE /\ Byte(i) >= inodes.size /\ Fault
           /\ unset' = unset \cup {i}
           /\ stream' = stream \o messages
           /\ UNCHANGED <<pc, rv, inodes>>
  <2> DEFINE t == stream \o messages
             u == unset \cup {i}
  <2>1. fresh
    BY <1>2, <1>3, <1>8 DEF bitvec_test, Vector
  <2>2. messages = CallbackMessages(d, TRUE)
    BY <2>1
  <2>3. Readable(stream, u, dirty)
    BY <1>3 DEF Readable, OnceEach
  <2>4. /\ t \in Seq(Msg) /\ Readable(t, u, dirty) /\ Told(t, dirty, d)
        /\ \A j : Pair(stream, j) => Pair(t, j)
        /\ \A e : Told(stream, dirty, e) => Told(t, dirty, e)
        /\ \A n \in 1..Len(t) : t[n].op = "inode_alloc" =>
             (n \in 1..Len(stream) /\ t[n] = stream[n]) \/ t[n] = Alloc(i)
    BY <2>2, <2>3, <1>3, <1>4, TellsNewInode
  <2>5. stream' = t /\ pc' = "walk" /\ inodes' = inodes /\ unset' = u
    BY <1>1, <1>8
  <2>6. Alloc(i).ino = i /\ i \in u
    BY <1>2, MsgFacts
  <2> HIDE DEF t, messages, marked, fresh, i
  <2>7. \A n \in 1..Len(t) : t[n].op = "inode_alloc" =>
          t[n].ino \in u \/ bitvec_test(inodes, t[n].ino)
    BY <2>4, <2>6, <1>3
  <2> HIDE DEF u
  <2> QED BY <2>4, <2>5, <2>7, <1>3, <1>6
<1>9. CASE /\ Fault
           /\ inodes' = marked
           /\ \E n \in 0..(Len(messages) - 1) : stream' = stream \o SubSeq(messages, 1, n)
           /\ rv' = "failed" /\ pc' = "commit"
           /\ UNCHANGED unset
  <2>1. stream' \in Seq(Msg) /\ Readable(stream', unset, dirty)
    <3>1. PICK n \in 0..(Len(messages) - 1) : stream' = stream \o SubSeq(messages, 1, n)
      BY <1>9
    <3>2. CASE fresh
      <4>1. \A m \in 1..Len(stream) : stream[m] = Alloc(i) => i \in unset
        BY <3>2, <1>2, <1>3, MsgFacts
      <4>2. messages = CallbackMessages(d, TRUE)
        BY <3>2
      <4> HIDE DEF messages
      <4>3. Len(messages) = 3
        BY <4>2 DEF CallbackMessages
      <4>4. n \in 0..2
        BY <4>3
      <4>5. \A m \in 0..2 : LET h == stream \o SubSeq(CallbackMessages(d, TRUE), 1, m)
                            IN  h \in Seq(Msg) /\ Readable(h, unset, dirty)
        BY <4>1, <1>3, <1>4, TellsNewInode
      <4> QED BY <3>1, <4>2, <4>4, <4>5
    <3>3. CASE ~fresh
      <4>1. messages = CallbackMessages(d, FALSE)
        BY <3>3
      <4> HIDE DEF messages
      <4>2. Len(messages) = 1
        BY <4>1 DEF CallbackMessages
      <4>3. n = 0
        BY <4>2
      <4>4. SubSeq(messages, 1, n) = <<>>
        BY <4>3, SubSeqEmpty
      <4>5. stream \o <<>> = stream
        BY <1>3
      <4> QED BY <3>1, <4>4, <4>5, <1>3
    <3> QED BY <3>2, <3>3
  <2> HIDE DEF messages, marked, fresh, i
  <2> QED BY <2>1, <1>1, <1>3, <1>9
          DEF StreamInv, TypeOK, PcType, LabelIsOld, NothingSeen, VectorTells, SeenIsTold,
              CompleteSoFar
<1> QED BY <1>7, <1>8, <1>9 DEF Callback

LEMMA StreamInvariant == Spec => []StreamInv
<1>1. StreamInv /\ [Next]_vars => StreamInv'
  <2> SUFFICES ASSUME StreamInv, [Next]_vars PROVE StreamInv'
    OBVIOUS
  <2>1. CASE Next
    BY <2>1, SetupKeepsStreamInv, CallbackKeepsStreamInv, CleanupKeepsStreamInv DEF Next
  <2>2. CASE UNCHANGED vars
    BY <2>2 DEF vars, process, device, walk, bounds, StreamInv, TypeOK, PcType, LabelIsOld,
                NothingSeen, VectorTells, SeenIsTold, CompleteSoFar, AllTold
  <2> QED BY <2>1, <2>2
<1> QED BY <1>1, InitStreamInv, PTL DEF Spec

\* Whatever the tree, its hard links and the bits that malloc's memory holds: pbang's stream,
\* complete or cut off, allocates an inode once and links a name after what it refers to.
THEOREM StreamsRead == Spec => []StreamReadable
<1>1. StreamInv => StreamReadable
  BY ReadableStream DEF StreamInv, TypeOK
<1> QED BY <1>1, StreamInvariant, PTL

\* Whatever fails, and whenever: if main() returns 0 and the label is the run's, then the
\* log is this run's, closed, and tells of every name of the device.
THEOREM SuccessIsTrue == Spec => []SuccessMeansComplete
<1>1. StreamInv => SuccessMeansComplete
  BY DEF StreamInv, CompleteSoFar, SuccessMeansComplete
<1> QED BY <1>1, StreamInvariant, PTL
=============================================================================
