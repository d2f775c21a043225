-------------------------- MODULE SpadeProvdProofs --------------------------
(***************************************************************************)
(* Proofs about SpadeProvd for any credentials, versions, records and      *)
(* bounds.  The invariant looks at what a run has said and is about to say *)
(* as one sequence, Run; Seen relates it to the lists the handlers keep.   *)
(* A handler says its lines one after another, so that two lemmas, one for *)
(* a vertex and one for an edge, carry Seen through all of them.           *)
(***************************************************************************)
EXTENDS SpadeProvd, TLAPS, SequenceTheorems, FiniteSetTheorems

Ids  == ({"P"} \X Creds) \cup ({"AG"} \X Uids) \cup ({"AR"} \X Versions) \cup ({"exec"} \X Nat)
Once == {"Used", "WasGeneratedBy"}
Rels == Once \cup {"WasForkedby", "WasControlledBy", "WasTriggeredBy"}

Vertices == [op : {"vertex"}, id : Ids, of : Nat]
Edges    == [op : {"edge"}, rel : Rels, from : Ids, to : Ids, of : Nat]
Lines    == Vertices \cup Edges

\* What the lists know: vertices, and edges that are said once.
Known ==
  {P(c) : c \in p1} \cup {AG(u) : u \in ag} \cup {AR(iv) : iv \in ar}
    \cup {Exec(n) : n \in 0..(counter - 1)}
KnownEdges ==
  {<<"Used", P(x[1]), AR(x[2])>> : x \in used}
    \cup {<<"WasGeneratedBy", AR(x[2]), P(x[1])>> : x \in wasgenBy}

Run == Mine \o lines

ListsType ==
  /\ p1 \subseteq Creds /\ ag \subseteq Uids /\ ar \subseteq Versions
  /\ used \subseteq Creds \X Versions /\ wasgenBy \subseteq Creds \X Versions
  /\ counter \in Nat

\* Where a run is in the log, and how far it has told it.
PlaceOK ==
  /\ log \in Seq(Records) /\ rd \in Nat /\ pos \in Nat /\ first \in Nat /\ whole \in Nat
  /\ rd <= Len(log) /\ pos <= Len(log) /\ first <= whole /\ whole <= pos
  /\ pc \in {"off", "read", "tell"} /\ tool \in {"provd", "cat"}
  /\ pc # "off" /\ tool = "provd" => rd = pos
  /\ pc = "read" => whole = pos
  /\ pc = "tell" => whole + 1 = pos

LinesType ==
  /\ pipe \in Seq(Lines) /\ lines \in Seq(Lines) /\ dropped \subseteq Lines
  /\ start \in Nat /\ start <= Len(pipe)
  /\ pc = "tell" <=> lines # <<>>
  /\ \A n \in 1..Len(lines) : lines[n].of = pos

TypeOK ==
  /\ PlaceOK /\ LinesType /\ ListsType
  /\ events \in Nat /\ runs \in Nat /\ faults \in Nat

\* The kernel's first record, and only it, is boot; a run that has read nothing has
\* nothing to remember, and no run has when it is over.
BootFirst ==
  /\ \A i \in 1..Len(log) : log[i].type = "boot" <=> i = 1
  /\ pc # "off" /\ pos = first => p1 = {}
  /\ pc = "off" => p1 = {} /\ ag = {} /\ ar = {} /\ used = {} /\ wasgenBy = {} /\ counter = 0

\* The vertex is in one of the first n lines of s, or was lost after record f.
Announced(s, id, n, D, f) ==
  \/ \E m \in 1..n : s[m].op = "vertex" /\ s[m].id = id
  \/ \E l \in D : l.op = "vertex" /\ l.id = id /\ l.of > f

\* What is in s is known, and what is known has been said.
Seen(s, K, E, D, f) ==
  /\ \A n \in 1..Len(s) : s[n].op = "vertex" => s[n].id \in K
  /\ \A n \in 1..Len(s) : s[n].op = "edge" /\ s[n].rel \in Once => Said(s[n]) \in E
  /\ \A m, n \in 1..Len(s) :
       s[m].op = "vertex" /\ s[n].op = "vertex" /\ s[m].id = s[n].id => m = n
  /\ \A m, n \in 1..Len(s) :
       s[m].op = "edge" /\ s[n].op = "edge" /\ s[m].rel \in Once /\ Said(s[m]) = Said(s[n]) => m = n
  /\ \A n \in 1..Len(s) :
       s[n].op = "edge" => \A id \in {s[n].from, s[n].to} : Announced(s, id, n - 1, D, f)
  /\ \A id \in K : Announced(s, id, Len(s), D, f)
  /\ \A e \in E : \/ \E n \in 1..Len(s) : s[n].op = "edge" /\ Said(s[n]) = e
                  \/ \E l \in D : l.op = "edge" /\ Said(l) = e

RunSeen == pc # "off" => Seen(Run, Known, KnownEdges, dropped, first)

\* The record in hand is told once its lines are.
InHandTold ==
  pc = "tell" =>
    Passes(log[pos]) /\ Told(pos, Range(Mine) \cup dropped \cup Range(lines))

Untold == {i \in 1..rd : ~Told(i, Range(pipe) \cup dropped)}
Owed == IF pc = "tell" THEN Untold \ {pos} ELSE Untold
FewUntold == Cardinality(Owed) <= faults

\* The four properties that the runs check are in it: RunSeen and InHandTold say what
\* they need of a run under way, FewUntold what FaultLosesOneRecord needs in between.
IInv ==
  /\ TypeOK /\ BootFirst
  /\ RunSeen /\ EdgeAfterVertices /\ NothingToldTwice
  /\ InHandTold /\ RunTellsItsRecords /\ FewUntold

-----------------------------------------------------------------------------
(* Lines one after another *)

LEMMA AppendFacts ==
  ASSUME NEW S, NEW s \in Seq(S), NEW e \in S
  PROVE /\ Append(s, e) \in Seq(S) /\ Len(Append(s, e)) = Len(s) + 1
        /\ s \o <<e>> = Append(s, e)
        /\ \A n \in 1..Len(s) : Append(s, e)[n] = s[n]
        /\ Append(s, e)[Len(s) + 1] = e
<1>1. /\ Append(s, e) \in Seq(S) /\ Len(Append(s, e)) = Len(s) + 1
      /\ \A n \in 1..Len(s) : Append(s, e)[n] = s[n]
      /\ Append(s, e)[Len(s) + 1] = e
  OBVIOUS
<1>2. <<e>> \in Seq(S) /\ Len(<<e>>) = 1 /\ <<e>>[1] = e
  OBVIOUS
<1>3. /\ s \o <<e>> \in Seq(S) /\ Len(s \o <<e>>) = Len(s) + 1
      /\ \A n \in 1..(Len(s) + 1) :
           (s \o <<e>>)[n] = IF n <= Len(s) THEN s[n] ELSE <<e>>[n - Len(s)]
  BY <1>2, ConcatProperties
<1>4. ASSUME NEW n \in 1..(Len(s) + 1) PROVE (s \o <<e>>)[n] = Append(s, e)[n]
  <2>1. CASE n \in 1..Len(s)
    BY <2>1, <1>1, <1>3, LenProperties
  <2>2. CASE n = Len(s) + 1
    BY <2>2, <1>1, <1>2, <1>3, LenProperties
  <2> QED BY <2>1, <2>2, LenProperties
<1>5. s \o <<e>> = Append(s, e)
  BY <1>1, <1>3, <1>4, SeqEqual
<1> QED BY <1>1, <1>5

LEMMA ConsFacts ==
  ASSUME NEW S, NEW s \in Seq(S), NEW t \in Seq(S), t # <<>>
  PROVE s \o t = Append(s, Head(t)) \o Tail(t)
<1>1. /\ Head(t) \in S /\ Tail(t) \in Seq(S) /\ Len(Tail(t)) = Len(t) - 1
      /\ \A i \in 1..Len(Tail(t)) : Tail(t)[i] = t[i + 1]
  BY HeadTailProperties
<1>2. Len(t) \in Nat /\ Len(t) > 0 /\ Head(t) = t[1] /\ Len(s) \in Nat
  OBVIOUS
<1> DEFINE a == Append(s, Head(t))
<1>3. /\ a \in Seq(S) /\ Len(a) = Len(s) + 1
      /\ \A n \in 1..Len(s) : a[n] = s[n]
      /\ a[Len(s) + 1] = Head(t)
  BY <1>1, AppendFacts
<1> HIDE DEF a
<1>4. /\ a \o Tail(t) \in Seq(S) /\ Len(a \o Tail(t)) = Len(a) + Len(Tail(t))
      /\ \A n \in 1..(Len(a) + Len(Tail(t))) :
           (a \o Tail(t))[n] = IF n <= Len(a) THEN a[n] ELSE Tail(t)[n - Len(a)]
  BY <1>1, <1>3, ConcatProperties
<1>5. /\ s \o t \in Seq(S) /\ Len(s \o t) = Len(s) + Len(t)
      /\ \A n \in 1..(Len(s) + Len(t)) :
           (s \o t)[n] = IF n <= Len(s) THEN s[n] ELSE t[n - Len(s)]
  BY ConcatProperties
<1>6. Len(a \o Tail(t)) = Len(s \o t)
  BY <1>1, <1>2, <1>3, <1>4, <1>5
<1>7. ASSUME NEW n \in 1..Len(s \o t) PROVE (s \o t)[n] = (a \o Tail(t))[n]
  <2>1. CASE n <= Len(s)
    BY <2>1, <1>1, <1>2, <1>3, <1>4, <1>5
  <2>2. CASE n = Len(s) + 1
    BY <2>2, <1>1, <1>2, <1>3, <1>4, <1>5
  <2>3. CASE n > Len(s) + 1
    <3>1. (a \o Tail(t))[n] = Tail(t)[n - Len(a)]
      BY <2>3, <1>1, <1>2, <1>3, <1>4, <1>5
    <3>2. n - Len(a) \in 1..Len(Tail(t)) /\ (n - Len(a)) + 1 = n - Len(s)
      BY <2>3, <1>1, <1>2, <1>3, <1>5
    <3>3. Tail(t)[n - Len(a)] = t[n - Len(s)]
      BY <3>2, <1>1
    <3>4. (s \o t)[n] = t[n - Len(s)]
      BY <2>3, <1>2, <1>5
    <3> QED BY <3>1, <3>3, <3>4
  <2>4. n \in Nat /\ (n <= Len(s) \/ n = Len(s) + 1 \/ n > Len(s) + 1)
    BY <1>2, <1>5
  <2> QED BY <2>1, <2>2, <2>3, <2>4
<1>8. s \o t = a \o Tail(t)
  BY <1>4, <1>5, <1>6, <1>7, SeqEqual
<1> QED BY <1>8 DEF a

LEMMA IdsOf ==
  /\ \A c \in Creds : P(c) \in Ids /\ P(c)[1] = "P"
  /\ \A u \in Uids : AG(u) \in Ids /\ AG(u)[1] = "AG"
  /\ \A iv \in Versions : AR(iv) \in Ids /\ AR(iv)[1] = "AR"
  /\ \A n \in Nat : Exec(n) \in Ids /\ Exec(n)[1] = "exec"
BY DEF Ids, P, AG, AR, Exec

LEMMA IdsDiffer ==
  /\ \A c, d : P(c) = P(d) <=> c = d
  /\ \A c, d : AG(c) = AG(d) <=> c = d
  /\ \A c, d : AR(c) = AR(d) <=> c = d
  /\ \A c, d : Exec(c) = Exec(d) <=> c = d
  /\ \A c, d : /\ P(c) # AG(d) /\ P(c) # AR(d) /\ P(c) # Exec(d)
               /\ AG(c) # AR(d) /\ AG(c) # Exec(d) /\ AR(c) # Exec(d)
BY DEF P, AG, AR, Exec

\* Whether a vertex is known is what the list of its kind says.
LEMMA KnownIds ==
  /\ \A c : P(c) \in Known <=> c \in p1
  /\ \A u : AG(u) \in Known <=> u \in ag
  /\ \A iv : AR(iv) \in Known <=> iv \in ar
  /\ \A n : Exec(n) \in Known <=> n \in 0..(counter - 1)
<1> DEFINE A == {P(c) : c \in p1}
           B == {AG(u) : u \in ag}
           C == {AR(iv) : iv \in ar}
           X == {Exec(n) : n \in 0..(counter - 1)}
<1>1. \A id : id \in Known <=> id \in A \/ id \in B \/ id \in C \/ id \in X
  BY Zenon DEF Known
<1>2. \A c : P(c) \in A <=> c \in p1
  BY IdsDiffer
<1>3. \A c : AG(c) \in B <=> c \in ag
  BY IdsDiffer
<1>4. \A c : AR(c) \in C <=> c \in ar
  BY IdsDiffer
<1>5. \A n : Exec(n) \in X <=> n \in 0..(counter - 1)
  BY IdsDiffer
<1>6. \A c : P(c) \notin B /\ P(c) \notin C /\ P(c) \notin X
  BY IdsDiffer
<1>7. \A c : AG(c) \notin A /\ AG(c) \notin C /\ AG(c) \notin X
  BY IdsDiffer
<1>8. \A c : AR(c) \notin A /\ AR(c) \notin B /\ AR(c) \notin X
  BY IdsDiffer
<1>9. \A c : Exec(c) \notin A /\ Exec(c) \notin B /\ Exec(c) \notin C
  BY IdsDiffer
<1> HIDE DEF A, B, C, X
<1> QED BY Zenon, <1>1, <1>2, <1>3, <1>4, <1>5, <1>6, <1>7, <1>8, <1>9

LEMMA VertexFacts ==
  ASSUME NEW id \in Ids, NEW i \in Nat
  PROVE /\ Vertex(id, i) \in Lines /\ Vertex(id, i).op = "vertex"
        /\ Vertex(id, i).id = id /\ Vertex(id, i).of = i
BY DEF Vertex, Lines, Vertices

LEMMA EdgeFacts ==
  ASSUME NEW rel \in Rels, NEW x \in Ids, NEW y \in Ids, NEW i \in Nat
  PROVE /\ Edge(rel, x, y, i) \in Lines /\ Edge(rel, x, y, i).op = "edge"
        /\ Edge(rel, x, y, i).rel = rel /\ Edge(rel, x, y, i).of = i
        /\ Edge(rel, x, y, i).from = x /\ Edge(rel, x, y, i).to = y
        /\ Said(Edge(rel, x, y, i)) = <<rel, IF x[1] = "exec" THEN <<"exec">> ELSE x, y>>
BY DEF Edge, Lines, Edges, Said

LEMMA AnnouncedMore ==
  ASSUME NEW s, NEW t, NEW id, NEW n \in Int, NEW k \in Int, NEW D, NEW f,
         n <= k, \A m \in 1..n : t[m] = s[m], Announced(s, id, n, D, f)
  PROVE Announced(t, id, k, D, f)
<1>1. ASSUME NEW m \in 1..n PROVE m \in 1..k /\ t[m] = s[m]
  OBVIOUS
<1> QED BY <1>1 DEF Announced

\* A vertex is said that is not known yet.
LEMMA AddVertex ==
  ASSUME NEW K, NEW E, NEW D, NEW f, NEW s \in Seq(Lines), NEW id \in Ids, NEW i \in Nat,
         id \notin K, Seen(s, K, E, D, f)
  PROVE /\ Append(s, Vertex(id, i)) \in Seq(Lines)
        /\ Seen(Append(s, Vertex(id, i)), K \cup {id}, E, D, f)
<1> DEFINE v == Vertex(id, i)
           t == Append(s, v)
           N == Len(s)
<1>1. v \in Lines /\ v.op = "vertex" /\ v.id = id
  BY VertexFacts
<1> HIDE DEF v
<1>2. /\ t \in Seq(Lines) /\ Len(t) = N + 1
      /\ \A n \in 1..N : t[n] = s[n]
      /\ t[N + 1] = v
  BY <1>1, AppendFacts
<1>3. N \in Nat
  BY LenProperties
<1> HIDE DEF t, N
<1>4. \A n \in 1..Len(t) : (n \in 1..N /\ t[n] = s[n]) \/ (n = N + 1 /\ t[n] = v)
  BY <1>2, <1>3
<1>5. /\ \A n \in 1..N : s[n].op = "vertex" => s[n].id \in K
      /\ \A n \in 1..N : s[n].op = "edge" /\ s[n].rel \in Once => Said(s[n]) \in E
      /\ \A m, n \in 1..N :
           s[m].op = "vertex" /\ s[n].op = "vertex" /\ s[m].id = s[n].id => m = n
      /\ \A m, n \in 1..N :
           s[m].op = "edge" /\ s[n].op = "edge" /\ s[m].rel \in Once /\ Said(s[m]) = Said(s[n]) => m = n
      /\ \A n \in 1..N :
           s[n].op = "edge" => \A x \in {s[n].from, s[n].to} : Announced(s, x, n - 1, D, f)
      /\ \A x \in K : Announced(s, x, N, D, f)
      /\ \A e \in E : \/ \E n \in 1..N : s[n].op = "edge" /\ Said(s[n]) = e
                      \/ \E l \in D : l.op = "edge" /\ Said(l) = e
  BY DEF Seen, N
<1>6. \A n \in 1..Len(t) : t[n].op = "vertex" => t[n].id \in K \cup {id}
  BY <1>1, <1>4, <1>5
<1>7. \A n \in 1..Len(t) : t[n].op = "edge" /\ t[n].rel \in Once => Said(t[n]) \in E
  BY <1>1, <1>4, <1>5
<1>8. \A m, n \in 1..Len(t) :
        t[m].op = "vertex" /\ t[n].op = "vertex" /\ t[m].id = t[n].id => m = n
  BY <1>1, <1>4, <1>5
<1>9. \A m, n \in 1..Len(t) :
        t[m].op = "edge" /\ t[n].op = "edge" /\ t[m].rel \in Once /\ Said(t[m]) = Said(t[n]) => m = n
  BY <1>1, <1>4, <1>5
<1>10. ASSUME NEW n \in 1..Len(t), t[n].op = "edge", NEW x \in {t[n].from, t[n].to}
       PROVE Announced(t, x, n - 1, D, f)
  <2>1. n \in 1..N /\ t[n] = s[n]
    BY <1>1, <1>4, <1>10
  <2>2. Announced(s, x, n - 1, D, f)
    BY <2>1, <1>5, <1>10
  <2>3. n - 1 \in Int /\ \A m \in 1..(n - 1) : t[m] = s[m]
    BY <2>1, <1>2, <1>3
  <2> QED BY <2>2, <2>3, AnnouncedMore
<1>11. ASSUME NEW x \in K \cup {id} PROVE Announced(t, x, Len(t), D, f)
  <2>1. CASE x = id
    <3>1. N + 1 \in 1..Len(t) /\ t[N + 1].op = "vertex" /\ t[N + 1].id = x
      BY <2>1, <1>1, <1>2, <1>3
    <3> QED BY <3>1 DEF Announced
  <2>2. CASE x \in K
    <3>1. Announced(s, x, N, D, f)
      BY <2>2, <1>5
    <3>2. N \in Int /\ Len(t) \in Int /\ N <= Len(t)
      BY <1>2, <1>3
    <3> QED BY <3>1, <3>2, <1>2, AnnouncedMore
  <2> QED BY <2>1, <2>2
<1>12. ASSUME NEW e \in E
       PROVE \/ \E n \in 1..Len(t) : t[n].op = "edge" /\ Said(t[n]) = e
             \/ \E l \in D : l.op = "edge" /\ Said(l) = e
  <2>1. CASE \E n \in 1..N : s[n].op = "edge" /\ Said(s[n]) = e
    <3>1. PICK n \in 1..N : s[n].op = "edge" /\ Said(s[n]) = e
      BY <2>1
    <3>2. n \in 1..Len(t) /\ t[n] = s[n]
      BY <1>2, <1>3
    <3> QED BY <3>1, <3>2
  <2> QED BY <2>1, <1>5
<1>13. Seen(t, K \cup {id}, E, D, f)
  BY <1>6, <1>7, <1>8, <1>9, <1>10, <1>11, <1>12 DEF Seen
<1> QED BY <1>2, <1>13 DEF t, v

\* An edge between known vertices, new if it is of a kind that is said once.
LEMMA AddEdge ==
  ASSUME NEW K, NEW E, NEW D, NEW f, NEW s \in Seq(Lines), NEW i \in Nat,
         NEW rel \in Rels, NEW a \in Ids, NEW b \in Ids, a \in K, b \in K,
         Seen(s, K, E, D, f), NEW F, E \subseteq F,
         F \subseteq E \cup {Said(Edge(rel, a, b, i))},
         rel \in Once => Said(Edge(rel, a, b, i)) \notin E /\ Said(Edge(rel, a, b, i)) \in F
  PROVE /\ Append(s, Edge(rel, a, b, i)) \in Seq(Lines)
        /\ Seen(Append(s, Edge(rel, a, b, i)), K, F, D, f)
<1> DEFINE v == Edge(rel, a, b, i)
           t == Append(s, v)
           N == Len(s)
<1>1. v \in Lines /\ v.op = "edge" /\ v.rel = rel /\ v.from = a /\ v.to = b
  BY EdgeFacts
<1>14. /\ F \subseteq E \cup {Said(v)}
       /\ v.rel \in Once => Said(v) \notin E /\ Said(v) \in F
  BY <1>1
<1> HIDE DEF v
<1>2. /\ t \in Seq(Lines) /\ Len(t) = N + 1
      /\ \A n \in 1..N : t[n] = s[n]
      /\ t[N + 1] = v
  BY <1>1, AppendFacts
<1>3. N \in Nat
  BY LenProperties
<1> HIDE DEF t, N
<1>4. \A n \in 1..Len(t) : (n \in 1..N /\ t[n] = s[n]) \/ (n = N + 1 /\ t[n] = v)
  BY <1>2, <1>3
<1>5. /\ \A n \in 1..N : s[n].op = "vertex" => s[n].id \in K
      /\ \A n \in 1..N : s[n].op = "edge" /\ s[n].rel \in Once => Said(s[n]) \in E
      /\ \A m, n \in 1..N :
           s[m].op = "vertex" /\ s[n].op = "vertex" /\ s[m].id = s[n].id => m = n
      /\ \A m, n \in 1..N :
           s[m].op = "edge" /\ s[n].op = "edge" /\ s[m].rel \in Once /\ Said(s[m]) = Said(s[n]) => m = n
      /\ \A n \in 1..N :
           s[n].op = "edge" => \A x \in {s[n].from, s[n].to} : Announced(s, x, n - 1, D, f)
      /\ \A x \in K : Announced(s, x, N, D, f)
      /\ \A e \in E : \/ \E n \in 1..N : s[n].op = "edge" /\ Said(s[n]) = e
                      \/ \E l \in D : l.op = "edge" /\ Said(l) = e
  BY DEF Seen, N
<1>15. \A l, m : Said(l) = Said(m) => l.rel = m.rel
  BY DEF Said
<1>6. \A n \in 1..Len(t) : t[n].op = "vertex" => t[n].id \in K
  BY <1>1, <1>4, <1>5
<1>7. \A n \in 1..Len(t) : t[n].op = "edge" /\ t[n].rel \in Once => Said(t[n]) \in F
  BY <1>14, <1>1, <1>4, <1>5
<1>8. \A m, n \in 1..Len(t) :
        t[m].op = "vertex" /\ t[n].op = "vertex" /\ t[m].id = t[n].id => m = n
  BY <1>1, <1>4, <1>5
<1>9. ASSUME NEW m \in 1..Len(t), NEW n \in 1..Len(t),
             t[m].op = "edge", t[n].op = "edge", t[m].rel \in Once, Said(t[m]) = Said(t[n])
      PROVE m = n
  <2>1. t[n].rel \in Once
    BY <1>9, <1>15
  <2>2. CASE m \in 1..N /\ n \in 1..N
    BY <2>2, <1>4, <1>5, <1>9, <1>2
  <2>3. CASE m \in 1..N /\ n = N + 1
    BY <2>1, <2>3, <1>14, <1>2, <1>5, <1>9
  <2>4. CASE m = N + 1 /\ n \in 1..N
    BY <2>1, <2>4, <1>14, <1>2, <1>5, <1>9
  <2> QED BY <2>2, <2>3, <2>4, <1>4
<1>10. ASSUME NEW n \in 1..Len(t), t[n].op = "edge", NEW x \in {t[n].from, t[n].to}
       PROVE Announced(t, x, n - 1, D, f)
  <2>1. CASE n \in 1..N
    <3>1. Announced(s, x, n - 1, D, f)
      BY <2>1, <1>2, <1>5, <1>10
    <3>2. n - 1 \in Int /\ \A m \in 1..(n - 1) : t[m] = s[m]
      BY <2>1, <1>2, <1>3
    <3> QED BY <3>1, <3>2, AnnouncedMore
  <2>2. CASE n = N + 1
    <3>1. Announced(s, x, N, D, f)
      BY <2>2, <1>1, <1>2, <1>5, <1>10
    <3>2. N \in Int /\ n - 1 = N /\ \A m \in 1..N : t[m] = s[m]
      BY <2>2, <1>2, <1>3
    <3> QED BY <3>1, <3>2, AnnouncedMore
  <2> QED BY <2>1, <2>2, <1>4
<1>11. ASSUME NEW x \in K PROVE Announced(t, x, Len(t), D, f)
  <2>1. Announced(s, x, N, D, f)
    BY <1>5
  <2>2. N \in Int /\ Len(t) \in Int /\ N <= Len(t)
    BY <1>2, <1>3
  <2> QED BY <2>1, <2>2, <1>2, AnnouncedMore
<1>12. ASSUME NEW e \in F
       PROVE \/ \E n \in 1..Len(t) : t[n].op = "edge" /\ Said(t[n]) = e
             \/ \E l \in D : l.op = "edge" /\ Said(l) = e
  <2>1. CASE \E n \in 1..N : s[n].op = "edge" /\ Said(s[n]) = e
    <3>1. PICK n \in 1..N : s[n].op = "edge" /\ Said(s[n]) = e
      BY <2>1
    <3>2. n \in 1..Len(t) /\ t[n] = s[n]
      BY <1>2, <1>3
    <3> QED BY <3>1, <3>2
  <2>2. CASE e = Said(v)
    <3>1. N + 1 \in 1..Len(t) /\ t[N + 1].op = "edge" /\ Said(t[N + 1]) = e
      BY <2>2, <1>1, <1>2, <1>3
    <3> QED BY <3>1
  <2> QED BY <2>1, <2>2, <1>14, <1>5
<1>13. Seen(t, K, F, D, f)
  BY <1>6, <1>7, <1>8, <1>9, <1>10, <1>11, <1>12 DEF Seen
<1> QED BY <1>2, <1>13 DEF t, v

-----------------------------------------------------------------------------
(* What the handlers say *)

\* The lines ls of record i can follow s.
Follows(ls, s, K, E, D, f, i) ==
  /\ s \in Seq(Lines) /\ ls \in Seq(Lines)
  /\ \A n \in 1..Len(ls) : ls[n].of = i
  /\ Seen(s \o ls, K, E, D, f)

LEMMA FollowsNothing ==
  ASSUME NEW s \in Seq(Lines), NEW K, NEW E, NEW D, NEW f, NEW i, Seen(s, K, E, D, f)
  PROVE Follows(<<>>, s, K, E, D, f, i)
<1>1. <<>> \in Seq(Lines) /\ Len(<<>>) = 0 /\ s \o <<>> = s
  BY EmptySeq, ConcatEmptySeq
<1> QED BY <1>1 DEF Follows

\* One more line of the same record.
LEMMA OneMoreLine ==
  ASSUME NEW s \in Seq(Lines), NEW ls \in Seq(Lines), NEW v \in Lines, NEW i,
         v.of = i, \A n \in 1..Len(ls) : ls[n].of = i
  PROVE /\ s \o (ls \o <<v>>) = Append(s \o ls, v)
        /\ s \o ls \in Seq(Lines) /\ ls \o <<v>> \in Seq(Lines)
        /\ \A n \in 1..Len(ls \o <<v>>) : (ls \o <<v>>)[n].of = i
<1>1. s \o ls \in Seq(Lines)
  BY ConcatProperties
<1>2. <<v>> \in Seq(Lines)
  OBVIOUS
<1>3. s \o (ls \o <<v>>) = (s \o ls) \o <<v>>
  BY <1>2, ConcatAssociative
<1>4. (s \o ls) \o <<v>> = Append(s \o ls, v)
  BY <1>1, AppendFacts
<1>5. ls \o <<v>> = Append(ls, v)
  BY AppendFacts
<1>6. /\ Append(ls, v) \in Seq(Lines) /\ Len(Append(ls, v)) = Len(ls) + 1
      /\ \A n \in 1..Len(ls) : Append(ls, v)[n] = ls[n]
      /\ Append(ls, v)[Len(ls) + 1] = v
  BY AppendFacts
<1>7. Len(ls) \in Nat
  BY LenProperties
<1>8. ASSUME NEW n \in 1..(Len(ls) + 1) PROVE Append(ls, v)[n].of = i
  <2>1. CASE n \in 1..Len(ls)
    BY <2>1, <1>6
  <2>2. CASE n = Len(ls) + 1
    BY <2>2, <1>6
  <2> QED BY <2>1, <2>2, <1>7
<1> QED BY <1>1, <1>3, <1>4, <1>5, <1>6, <1>8

LEMMA FollowsVertex ==
  ASSUME NEW s, NEW ls, NEW K, NEW E, NEW D, NEW f, NEW i \in Nat, NEW id \in Ids,
         Follows(ls, s, K, E, D, f, i), id \notin K
  PROVE Follows(ls \o <<Vertex(id, i)>>, s, K \cup {id}, E, D, f, i)
<1>1. Vertex(id, i) \in Lines /\ Vertex(id, i).of = i
  BY VertexFacts
<1>2. /\ s \in Seq(Lines) /\ ls \in Seq(Lines)
      /\ \A n \in 1..Len(ls) : ls[n].of = i
      /\ Seen(s \o ls, K, E, D, f)
  BY DEF Follows
<1>3. /\ s \o (ls \o <<Vertex(id, i)>>) = Append(s \o ls, Vertex(id, i))
      /\ s \o ls \in Seq(Lines) /\ ls \o <<Vertex(id, i)>> \in Seq(Lines)
      /\ \A n \in 1..Len(ls \o <<Vertex(id, i)>>) : (ls \o <<Vertex(id, i)>>)[n].of = i
  BY <1>1, <1>2, OneMoreLine
<1>4. Seen(Append(s \o ls, Vertex(id, i)), K \cup {id}, E, D, f)
  BY <1>2, <1>3, AddVertex
<1> QED BY <1>2, <1>3, <1>4 DEF Follows

\* NewProcess, NewAgent and NewArtifact have this form.
LEMMA FollowsNew ==
  ASSUME NEW s, NEW ls, NEW K, NEW E, NEW D, NEW f, NEW i \in Nat, NEW id \in Ids,
         Follows(ls, s, K, E, D, f, i), NEW t,
         t = IF id \in K THEN <<>> ELSE <<Vertex(id, i)>>
  PROVE Follows(ls \o t, s, K \cup {id}, E, D, f, i)
<1>1. CASE id \in K
  <2>1. K \cup {id} = K
    BY <1>1
  <2>2. ls \o t = ls
    BY <1>1, ConcatEmptySeq DEF Follows
  <2> QED BY <2>1, <2>2
<1>2. CASE id \notin K
  BY <1>2, FollowsVertex
<1> QED BY <1>1, <1>2

LEMMA FirstNew ==
  ASSUME NEW s \in Seq(Lines), NEW K, NEW E, NEW D, NEW f, NEW i \in Nat, NEW id \in Ids,
         Seen(s, K, E, D, f), NEW t,
         t = IF id \in K THEN <<>> ELSE <<Vertex(id, i)>>
  PROVE Follows(t, s, K \cup {id}, E, D, f, i)
<1>1. Follows(<<>>, s, K, E, D, f, i)
  BY FollowsNothing
<1>2. Follows(<<>> \o t, s, K \cup {id}, E, D, f, i)
  BY <1>1, FollowsNew
<1>3. Vertex(id, i) \in Lines
  BY VertexFacts
<1>4. t \in Seq(Lines)
  BY <1>3
<1>5. <<>> \o t = t
  BY <1>4, ConcatEmptySeq
<1> QED BY <1>2, <1>5

LEMMA FollowsEdge ==
  ASSUME NEW s, NEW ls, NEW K, NEW E, NEW D, NEW f, NEW i \in Nat,
         NEW rel \in Rels, NEW a \in Ids, NEW b \in Ids, a \in K, b \in K,
         Follows(ls, s, K, E, D, f, i), NEW F, E \subseteq F,
         F \subseteq E \cup {Said(Edge(rel, a, b, i))},
         rel \in Once => Said(Edge(rel, a, b, i)) \notin E /\ Said(Edge(rel, a, b, i)) \in F
  PROVE Follows(ls \o <<Edge(rel, a, b, i)>>, s, K, F, D, f, i)
<1>1. Edge(rel, a, b, i) \in Lines /\ Edge(rel, a, b, i).of = i
  BY EdgeFacts
<1>2. /\ s \in Seq(Lines) /\ ls \in Seq(Lines)
      /\ \A n \in 1..Len(ls) : ls[n].of = i
      /\ Seen(s \o ls, K, E, D, f)
  BY DEF Follows
<1>3. /\ s \o (ls \o <<Edge(rel, a, b, i)>>) = Append(s \o ls, Edge(rel, a, b, i))
      /\ s \o ls \in Seq(Lines) /\ ls \o <<Edge(rel, a, b, i)>> \in Seq(Lines)
      /\ \A n \in 1..Len(ls \o <<Edge(rel, a, b, i)>>) :
           (ls \o <<Edge(rel, a, b, i)>>)[n].of = i
  BY <1>1, <1>2, OneMoreLine
<1>4. Seen(Append(s \o ls, Edge(rel, a, b, i)), K, F, D, f)
  BY <1>2, <1>3, AddEdge
<1> QED BY <1>2, <1>3, <1>4 DEF Follows

LEMMA RangeFacts ==
  ASSUME NEW S, NEW s \in Seq(S), NEW t \in Seq(S)
  PROVE /\ Range(s) = {s[n] : n \in 1..Len(s)}
        /\ Range(s \o t) = Range(s) \cup Range(t)
<1>1. \A u \in Seq(S) : Range(u) = {u[n] : n \in 1..Len(u)}
  BY LenProperties DEF Range
<1>2. /\ s \o t \in Seq(S) /\ Len(s \o t) = Len(s) + Len(t)
      /\ \A i \in 1..(Len(s) + Len(t)) :
           (s \o t)[i] = IF i <= Len(s) THEN s[i] ELSE t[i - Len(s)]
  BY ConcatProperties
<1>3. Len(s) \in Nat /\ Len(t) \in Nat
  BY LenProperties
<1>4. ASSUME NEW x \in Range(s) PROVE x \in Range(s \o t)
  <2>1. PICK n \in 1..Len(s) : x = s[n]
    BY <1>1
  <2>2. n \in 1..Len(s \o t) /\ x = (s \o t)[n]
    BY <2>1, <1>2, <1>3
  <2> QED BY <2>2, <1>1, <1>2
<1>5. ASSUME NEW x \in Range(t) PROVE x \in Range(s \o t)
  <2>1. PICK n \in 1..Len(t) : x = t[n]
    BY <1>1
  <2>2. PICK k \in 1..(Len(s) + Len(t)) : k > Len(s) /\ k - Len(s) = n
    <3>1. /\ n + Len(s) \in 1..(Len(s) + Len(t))
          /\ n + Len(s) > Len(s) /\ (n + Len(s)) - Len(s) = n
      BY <1>3
    <3> QED BY <3>1
  <2>3. (s \o t)[k] = t[k - Len(s)]
    BY <2>2, <1>2, <1>3
  <2>4. k \in 1..Len(s \o t) /\ x = (s \o t)[k]
    BY <2>1, <2>2, <2>3, <1>2
  <2> QED BY <2>4, <1>1, <1>2
<1>6. ASSUME NEW x \in Range(s \o t) PROVE x \in Range(s) \cup Range(t)
  <2>1. PICK n \in 1..(Len(s) + Len(t)) : x = (s \o t)[n]
    BY <1>1, <1>2
  <2>2. CASE n <= Len(s)
    <3>1. n \in 1..Len(s) /\ x = s[n]
      BY <2>1, <2>2, <1>2, <1>3
    <3> QED BY <3>1, <1>1
  <2>3. CASE n > Len(s)
    <3>1. n - Len(s) \in 1..Len(t) /\ x = t[n - Len(s)]
      BY <2>1, <2>3, <1>2, <1>3
    <3> QED BY <3>1, <1>1
  <2> QED BY <2>2, <2>3, <1>3
<1> QED BY <1>1, <1>4, <1>5, <1>6

LEMMA RangeOfOne ==
  ASSUME NEW S, NEW s \in Seq(S), NEW e \in S
  PROVE e \in Range(s \o <<e>>) /\ Range(s) \subseteq Range(s \o <<e>>)
<1> DEFINE t == <<e>>
<1>1. t \in Seq(S) /\ e \in Range(t)
  BY DEF Range
<1> HIDE DEF t
<1>2. Range(s \o t) = Range(s) \cup Range(t)
  BY <1>1, RangeFacts
<1>3. e \in Range(s \o t) /\ Range(s) \subseteq Range(s \o t)
  BY <1>1, <1>2
<1> QED BY <1>3 DEF t

LEMMA RecordFields ==
  ASSUME NEW r \in Records
  PROVE /\ r.cred \in Creds
        /\ r.type = "credfork" => r.forked \in Creds /\ r.forked # r.cred
        /\ r.type = "setid" => r.uid \in Uids
        /\ r.type = "file_p" => r.iv \in Versions /\ r.mask \in SUBSET {"read", "write"}
        /\ r.type \in Handled \cup {"credfree"}
BY RecordsAssumption, ForkAssumption DEF RecordType, Handled

LEMMA FactsOf ==
  ASSUME NEW r
  PROVE /\ r.type \in {"boot", "credfree"} => Facts(r) = {}
        /\ r.type = "credfork" => Facts(r) = {<<"WasForkedby", P(r.forked), P(r.cred)>>}
        /\ r.type = "setid" => Facts(r) = {<<"WasControlledBy", P(r.cred), AG(r.uid)>>}
        /\ r.type = "exec" => Facts(r) = {<<"WasTriggeredBy", <<"exec">>, P(r.cred)>>}
        /\ r.type = "file_p" /\ "read" \in r.mask =>
             Facts(r) = {<<"Used", P(r.cred), AR(r.iv)>>}
        /\ r.type = "file_p" /\ r.mask = {"write"} =>
             Facts(r) = {<<"WasGeneratedBy", AR(r.iv), P(r.cred)>>}
        /\ r.type = "file_p" /\ "read" \notin r.mask /\ r.mask # {"write"} => Facts(r) = {}
BY DEF Facts

\* One of the lines in S says each thing that record r does.
Tells(r, i, S) ==
  \A f \in Facts(r) : \E l \in S :
    l.op = "edge" /\ Said(l) = f /\ (r.type = "exec" => l.of = i)

\* What a handler's step is to establish.
Handles(r, i) ==
  /\ Follows(lines', Mine, Known', KnownEdges', dropped, first, i)
  /\ Tells(r, i, Range(Mine) \cup dropped \cup Range(lines'))
  /\ ListsType'

LEMMA BootHandles ==
  ASSUME ListsType, Mine \in Seq(Lines), Seen(Mine, Known, KnownEdges, dropped, first),
         NEW r \in Records, NEW i \in Nat, p1 = {}, handle_boot(r, i)
  PROVE Handles(r, i)
<1>1. r.cred \in Creds /\ P(r.cred) \in Ids
  BY RecordFields, IdsOf
<1>2. P(r.cred) \notin Known
  BY KnownIds
<1>3. /\ Known' = Known \cup {P(r.cred)}
      /\ KnownEdges' = KnownEdges
  BY DEF handle_boot, Known, KnownEdges
<1>4. lines' = IF P(r.cred) \in Known THEN <<>> ELSE <<Vertex(P(r.cred), i)>>
  BY <1>2 DEF handle_boot
<1>5. Follows(lines', Mine, Known', KnownEdges', dropped, first, i)
  BY <1>1, <1>3, <1>4, FirstNew
<1>6. Tells(r, i, Range(Mine) \cup dropped \cup Range(lines'))
  BY FactsOf DEF handle_boot, Tells
<1>7. ListsType'
  BY <1>1 DEF handle_boot, ListsType
<1> QED BY <1>5, <1>6, <1>7 DEF Handles

LEMMA CredforkHandles ==
  ASSUME ListsType, Mine \in Seq(Lines), Seen(Mine, Known, KnownEdges, dropped, first),
         NEW r \in Records, NEW i \in Nat, handle_credfork(r, i)
  PROVE Handles(r, i)
<1> DEFINE a == P(r.cred)
           b == P(r.forked)
           e == Edge("WasForkedby", b, a, i)
           A == NewProcess(r.cred, i)
           B == NewProcess(r.forked, i)
           K == Known \cup {a}
           L == K \cup {b}
<1>1. /\ r.cred \in Creds /\ r.forked \in Creds /\ r.forked # r.cred
      /\ a \in Ids /\ b \in Ids
  BY RecordFields, IdsOf DEF handle_credfork
<1>2. A = IF a \in Known THEN <<>> ELSE <<Vertex(a, i)>>
  BY KnownIds DEF NewProcess
<1>3. B = IF b \in K THEN <<>> ELSE <<Vertex(b, i)>>
  BY <1>1, KnownIds, IdsDiffer DEF NewProcess
<1>4. lines' = A \o B \o <<e>>
  BY DEF handle_credfork
<1>5. Known' = L /\ KnownEdges' = KnownEdges
  BY DEF handle_credfork, Known, KnownEdges
<1>6. e.of = i /\ e.op = "edge" /\ e \in Lines
      /\ Said(e) = <<"WasForkedby", b, a>> /\ "WasForkedby" \in Rels \ Once
  <2>1. "WasForkedby" \in Rels \ Once
    BY DEF Rels, Once
  <2>2. b[1] = "P"
    BY <1>1, IdsOf
  <2> HIDE DEF a, b
  <2>3. /\ e \in Lines /\ e.op = "edge" /\ e.of = i
        /\ Said(e) = <<"WasForkedby", IF b[1] = "exec" THEN <<"exec">> ELSE b, a>>
    BY <1>1, <2>1, EdgeFacts
  <2> QED BY <2>1, <2>2, <2>3
<1> HIDE DEF A, B, K
<1>7. Follows(A, Mine, K, KnownEdges, dropped, first, i)
  BY <1>1, <1>2, FirstNew DEF K
<1>8. Follows(A \o B, Mine, L, KnownEdges, dropped, first, i)
  BY <1>1, <1>3, <1>7, FollowsNew
<1>9. a \in L /\ b \in L
  BY DEF K
<1>10. Follows((A \o B) \o <<e>>, Mine, L, KnownEdges, dropped, first, i)
  BY <1>1, <1>6, <1>8, <1>9, FollowsEdge
<1>11. A \o B \in Seq(Lines)
  BY <1>8 DEF Follows
<1>12. e \in Range(lines')
  BY <1>4, <1>6, <1>11, RangeOfOne
<1>13. Tells(r, i, Range(Mine) \cup dropped \cup Range(lines'))
  <2>1. r.type = "credfork" /\ Facts(r) = {<<"WasForkedby", b, a>>}
    BY FactsOf DEF handle_credfork
  <2> HIDE DEF e
  <2> QED BY <2>1, <1>6, <1>12 DEF Tells
<1>14. ListsType'
  BY <1>1 DEF handle_credfork, ListsType
<1> QED BY <1>4, <1>5, <1>10, <1>13, <1>14 DEF Handles

LEMMA SetidHandles ==
  ASSUME ListsType, Mine \in Seq(Lines), Seen(Mine, Known, KnownEdges, dropped, first),
         NEW r \in Records, NEW i \in Nat, handle_setid(r, i)
  PROVE Handles(r, i)
<1> DEFINE a == P(r.cred)
           b == AG(r.uid)
           e == Edge("WasControlledBy", a, b, i)
           A == NewProcess(r.cred, i)
           B == NewAgent(r.uid, i)
           K == Known \cup {a}
           L == K \cup {b}
<1>1. /\ r.cred \in Creds /\ r.uid \in Uids /\ a \in Ids /\ b \in Ids
  BY RecordFields, IdsOf DEF handle_setid
<1>2. A = IF a \in Known THEN <<>> ELSE <<Vertex(a, i)>>
  BY KnownIds DEF NewProcess
<1>3. B = IF b \in K THEN <<>> ELSE <<Vertex(b, i)>>
  BY <1>1, KnownIds, IdsDiffer DEF NewAgent
<1>4. lines' = A \o B \o <<e>>
  BY DEF handle_setid
<1>5. Known' = L /\ KnownEdges' = KnownEdges
  BY DEF handle_setid, Known, KnownEdges
<1>6. e.of = i /\ e.op = "edge" /\ e \in Lines
      /\ Said(e) = <<"WasControlledBy", a, b>> /\ "WasControlledBy" \in Rels \ Once
  <2>1. "WasControlledBy" \in Rels \ Once
    BY DEF Rels, Once
  <2>2. a[1] = "P"
    BY <1>1, IdsOf
  <2> HIDE DEF a, b
  <2>3. /\ e \in Lines /\ e.op = "edge" /\ e.of = i
        /\ Said(e) = <<"WasControlledBy", IF a[1] = "exec" THEN <<"exec">> ELSE a, b>>
    BY <1>1, <2>1, EdgeFacts
  <2> QED BY <2>1, <2>2, <2>3
<1> HIDE DEF A, B, K
<1>7. Follows(A, Mine, K, KnownEdges, dropped, first, i)
  BY <1>1, <1>2, FirstNew DEF K
<1>8. Follows(A \o B, Mine, L, KnownEdges, dropped, first, i)
  BY <1>1, <1>3, <1>7, FollowsNew
<1>9. a \in L /\ b \in L
  BY DEF K
<1>10. Follows((A \o B) \o <<e>>, Mine, L, KnownEdges, dropped, first, i)
  BY <1>1, <1>6, <1>8, <1>9, FollowsEdge
<1>11. A \o B \in Seq(Lines)
  BY <1>8 DEF Follows
<1>12. e \in Range(lines')
  BY <1>4, <1>6, <1>11, RangeOfOne
<1>13. Tells(r, i, Range(Mine) \cup dropped \cup Range(lines'))
  <2>1. r.type = "setid" /\ Facts(r) = {<<"WasControlledBy", a, b>>}
    BY FactsOf DEF handle_setid
  <2> HIDE DEF e
  <2> QED BY <2>1, <1>6, <1>12 DEF Tells
<1>14. ListsType'
  BY <1>1 DEF handle_setid, ListsType
<1> QED BY <1>4, <1>5, <1>10, <1>13, <1>14 DEF Handles

LEMMA PairOfLines ==
  ASSUME NEW S, NEW s \in Seq(S), NEW a \in S, NEW b \in S
  PROVE s \o <<a, b>> = (s \o <<a>>) \o <<b>>
<1> DEFINE t == <<a>>
           u == <<b>>
           w == <<a, b>>
<1>1. /\ t \in Seq(S) /\ Len(t) = 1 /\ t[1] = a
      /\ u \in Seq(S) /\ Len(u) = 1 /\ u[1] = b
      /\ w \in Seq(S) /\ Len(w) = 2 /\ w[1] = a /\ w[2] = b
  OBVIOUS
<1> HIDE DEF t, u, w
<1>2. /\ t \o u \in Seq(S) /\ Len(t \o u) = 2
      /\ (t \o u)[1] = a /\ (t \o u)[2] = b
  <2>1. /\ t \o u \in Seq(S) /\ Len(t \o u) = Len(t) + Len(u)
        /\ \A i \in 1..(Len(t) + Len(u)) :
             (t \o u)[i] = IF i <= Len(t) THEN t[i] ELSE u[i - Len(t)]
    BY <1>1, ConcatProperties
  <2> QED BY <2>1, <1>1
<1>3. t \o u = w
  <2>1. \A i \in 1..Len(w) : (t \o u)[i] = w[i]
    BY <1>1, <1>2
  <2> QED BY <1>1, <1>2, <2>1, SeqEqual
<1>4. s \o (t \o u) = (s \o t) \o u
  <2>1. \A x, y, z \in Seq(S) : (x \o y) \o z = x \o (y \o z)
    BY ConcatAssociative
  <2> QED BY <2>1, <1>1
<1> QED BY <1>3, <1>4 DEF t, u, w

LEMMA ExecHandles ==
  ASSUME ListsType, Mine \in Seq(Lines), Seen(Mine, Known, KnownEdges, dropped, first),
         NEW r \in Records, NEW i \in Nat, handle_exec(r, i)
  PROVE Handles(r, i)
<1> DEFINE a == P(r.cred)
           b == Exec(counter)
           v == Vertex(b, i)
           e == Edge("WasTriggeredBy", b, a, i)
           A == NewProcess(r.cred, i)
           K == Known \cup {a}
           L == K \cup {b}
<1>1. r.cred \in Creds /\ counter \in Nat /\ a \in Ids /\ b \in Ids
  BY RecordFields, IdsOf DEF handle_exec, ListsType
<1>2. A = IF a \in Known THEN <<>> ELSE <<Vertex(a, i)>>
  BY KnownIds DEF NewProcess
<1>3. b \notin K
  <2>1. counter \notin 0..(counter - 1)
    BY <1>1
  <2> QED BY <2>1, KnownIds, IdsDiffer
<1>4. lines' = A \o <<v, e>>
  BY DEF handle_exec
<1>5. Known' = L /\ KnownEdges' = KnownEdges
  <2>1. 0..(counter' - 1) = 0..(counter - 1) \cup {counter}
    BY <1>1 DEF handle_exec
  <2>2. {Exec(n) : n \in 0..(counter' - 1)} = {Exec(n) : n \in 0..(counter - 1)} \cup {b}
    BY <2>1
  <2>3. {P(c) : c \in p1'} = {P(c) : c \in p1} \cup {a}
    BY DEF handle_exec
  <2> QED BY <2>2, <2>3 DEF handle_exec, Known, KnownEdges
<1>6. e.of = i /\ e.op = "edge" /\ e \in Lines
      /\ Said(e) = <<"WasTriggeredBy", <<"exec">>, a>> /\ "WasTriggeredBy" \in Rels \ Once
  <2>1. "WasTriggeredBy" \in Rels \ Once
    BY DEF Rels, Once
  <2>2. b[1] = "exec"
    BY <1>1, IdsOf
  <2> HIDE DEF a, b
  <2>3. /\ e \in Lines /\ e.op = "edge" /\ e.of = i
        /\ Said(e) = <<"WasTriggeredBy", IF b[1] = "exec" THEN <<"exec">> ELSE b, a>>
    BY <1>1, <2>1, EdgeFacts
  <2> QED BY <2>1, <2>2, <2>3
<1> HIDE DEF A, K
<1>7. Follows(A, Mine, K, KnownEdges, dropped, first, i)
  BY <1>1, <1>2, FirstNew DEF K
<1>8. Follows(A \o <<v>>, Mine, L, KnownEdges, dropped, first, i)
  BY <1>1, <1>3, <1>7, FollowsVertex
<1>9. a \in L /\ b \in L
  BY DEF K
<1>10. Follows((A \o <<v>>) \o <<e>>, Mine, L, KnownEdges, dropped, first, i)
  BY <1>1, <1>6, <1>8, <1>9, FollowsEdge
<1>11. A \in Seq(Lines) /\ A \o <<v>> \in Seq(Lines) /\ v \in Lines
  BY <1>1, <1>7, <1>8, VertexFacts DEF Follows
<1>12. lines' = (A \o <<v>>) \o <<e>>
  BY <1>4, <1>6, <1>11, PairOfLines
<1>13. e \in Range(lines')
  BY <1>6, <1>11, <1>12, RangeOfOne
<1>14. Tells(r, i, Range(Mine) \cup dropped \cup Range(lines'))
  <2>1. r.type = "exec" /\ Facts(r) = {<<"WasTriggeredBy", <<"exec">>, a>>}
    BY FactsOf DEF handle_exec
  <2> HIDE DEF e
  <2> QED BY <2>1, <1>6, <1>13 DEF Tells
<1>15. ListsType'
  BY <1>1 DEF handle_exec, ListsType
<1> QED BY <1>5, <1>10, <1>12, <1>14, <1>15 DEF Handles

\* Whether an edge is known is what the list of its kind says.
LEMMA KnownEdgesOf ==
  ASSUME ListsType, NEW c \in Creds, NEW iv \in Versions
  PROVE /\ <<"Used", P(c), AR(iv)>> \in KnownEdges <=> <<c, iv>> \in used
        /\ <<"WasGeneratedBy", AR(iv), P(c)>> \in KnownEdges <=> <<c, iv>> \in wasgenBy
<1> DEFINE U == {<<"Used", P(x[1]), AR(x[2])>> : x \in used}
           W == {<<"WasGeneratedBy", AR(x[2]), P(x[1])>> : x \in wasgenBy}
<1>1. \A x \in used : x \in Creds \X Versions /\ x = <<x[1], x[2]>>
  BY DEF ListsType
<1>2. \A x \in wasgenBy : x \in Creds \X Versions /\ x = <<x[1], x[2]>>
  BY DEF ListsType
<1>3. <<"Used", P(c), AR(iv)>> \in U <=> <<c, iv>> \in used
  BY <1>1, IdsDiffer
<1>4. <<"WasGeneratedBy", AR(iv), P(c)>> \in W <=> <<c, iv>> \in wasgenBy
  BY <1>2, IdsDiffer
<1>5. <<"Used", P(c), AR(iv)>> \notin W /\ <<"WasGeneratedBy", AR(iv), P(c)>> \notin U
  OBVIOUS
<1>6. \A e : e \in KnownEdges <=> e \in U \/ e \in W
  BY Zenon DEF KnownEdges
<1> QED BY <1>3, <1>4, <1>5, <1>6

LEMMA FileHandles ==
  ASSUME ListsType, Mine \in Seq(Lines), Seen(Mine, Known, KnownEdges, dropped, first),
         NEW r \in Records, NEW i \in Nat, handle_file_p(r, i)
  PROVE Handles(r, i)
<1> DEFINE c == r.cred
           iv == r.iv
           a == P(c)
           b == AR(iv)
           AB == NewProcess(c, i) \o NewArtifact(iv, i)
           U == UsedLines(r, i)
           G == GeneratedLines(r, i)
           K == Known \cup {a}
           L == K \cup {b}
           S == Range(Mine) \cup dropped \cup Range(lines')
<1>1. /\ c \in Creds /\ iv \in Versions /\ r.mask \in SUBSET {"read", "write"}
      /\ r.type = "file_p" /\ a \in Ids /\ b \in Ids
      /\ a[1] = "P" /\ b[1] = "AR"
  BY RecordFields, IdsOf DEF handle_file_p
<1>2. lines' = AB \o U \o G
  BY DEF handle_file_p
<1>3. Follows(AB, Mine, L, KnownEdges, dropped, first, i)
  <2> DEFINE A == NewProcess(c, i)
             B == NewArtifact(iv, i)
  <2>1. A = IF a \in Known THEN <<>> ELSE <<Vertex(a, i)>>
    BY KnownIds DEF NewProcess
  <2>2. B = IF b \in K THEN <<>> ELSE <<Vertex(b, i)>>
    BY <1>1, KnownIds, IdsDiffer DEF NewArtifact
  <2> HIDE DEF A, B, K
  <2>3. Follows(A, Mine, K, KnownEdges, dropped, first, i)
    BY <1>1, <2>1, FirstNew DEF K
  <2>4. Follows(A \o B, Mine, L, KnownEdges, dropped, first, i)
    BY <1>1, <2>2, <2>3, FollowsNew
  <2> QED BY <2>4 DEF A, B
<1>4. Known' = L
  BY DEF handle_file_p, Known
<1>5. a \in L /\ b \in L
  OBVIOUS
<1>6. ListsType'
  BY <1>1 DEF handle_file_p, ListsType
<1>7. AB \in Seq(Lines)
  BY <1>3 DEF Follows
<1> HIDE DEF K, L, AB
<1>8. CASE "read" \in r.mask
  <2> DEFINE e == Edge("Used", a, b, i)
             x == <<"Used", a, b>>
  <2>1. G = <<>> /\ r.mask # {"write"}
    BY <1>8 DEF GeneratedLines
  <2>2. used' = used \cup {<<c, iv>>} /\ wasgenBy' = wasgenBy
    BY <1>8, <2>1 DEF handle_file_p
  <2>3. KnownEdges' = KnownEdges \cup {x}
    <3>1. {<<"Used", P(y[1]), AR(y[2])>> : y \in used'}
            = {<<"Used", P(y[1]), AR(y[2])>> : y \in used} \cup {x}
      <4> DEFINE p == <<c, iv>>
                 F(y) == <<"Used", P(y[1]), AR(y[2])>>
      <4>1. F(p) = x
        OBVIOUS
      <4>2. used' = used \cup {p}
        BY <2>2
      <4> HIDE DEF p, F, x
      <4>3. {F(y) : y \in used'} = {F(y) : y \in used} \cup {x}
        BY <4>1, <4>2
      <4> QED BY <4>3 DEF F
    <3> QED BY <2>2, <3>1 DEF KnownEdges
  <2>4. x \in KnownEdges <=> <<c, iv>> \in used
    BY <1>1, KnownEdgesOf
  <2>5. Facts(r) = {x}
    BY <1>1, <1>8, FactsOf
  <2>6. e.op = "edge" /\ e \in Lines /\ Said(e) = x
    <3>1. "Used" \in Rels
      BY DEF Rels, Once
    <3> QED BY <1>1, <3>1, EdgeFacts
  <2>7. CASE <<c, iv>> \in used
    <3>1. U = <<>>
      BY <2>7 DEF UsedLines, checkUsedBy
    <3>2. lines' = AB
      BY <1>2, <1>7, <2>1, <3>1, ConcatEmptySeq
    <3>3. KnownEdges' = KnownEdges
      BY <2>3, <2>4, <2>7
    <3>4. \E l \in S : l.op = "edge" /\ Said(l) = x
      <4>1. \/ \E n \in 1..Len(Mine) : Mine[n].op = "edge" /\ Said(Mine[n]) = x
            \/ \E l \in dropped : l.op = "edge" /\ Said(l) = x
        BY <2>4, <2>7 DEF Seen
      <4>2. \A n \in 1..Len(Mine) : Mine[n] \in Range(Mine)
        BY RangeFacts
      <4> QED BY <4>1, <4>2
    <3> HIDE DEF x, S
    <3>5. Tells(r, i, S)
      BY <1>1, <2>5, <3>4 DEF Tells
    <3> QED BY <1>3, <1>4, <1>6, <3>2, <3>3, <3>5 DEF Handles, S
  <2>8. CASE <<c, iv>> \notin used
    <3>1. U = <<e>>
      BY <1>8, <2>8 DEF UsedLines, checkUsedBy
    <3>2. lines' = AB \o <<e>>
      <4>1. AB \o <<e>> \in Seq(Lines)
        BY <1>7, <2>6, AppendFacts
      <4> QED BY <1>2, <2>1, <3>1, <4>1, ConcatEmptySeq
    <3>3. Follows(AB \o <<e>>, Mine, L, KnownEdges', dropped, first, i)
      <4>1. "Used" \in Rels
        BY DEF Rels, Once
      <4>2. KnownEdges \subseteq KnownEdges' /\ KnownEdges' \subseteq KnownEdges \cup {Said(e)}
            /\ Said(e) \notin KnownEdges /\ Said(e) \in KnownEdges'
        BY <2>3, <2>4, <2>6, <2>8
      <4> HIDE DEF a, b
      <4> QED BY <1>1, <1>3, <1>5, <4>1, <4>2, FollowsEdge
    <3>4. e \in Range(lines')
      BY <1>7, <2>6, <3>2, RangeOfOne
    <3> HIDE DEF e, x
    <3>5. Tells(r, i, S)
      BY <1>1, <2>5, <2>6, <3>4 DEF Tells
    <3> QED BY <1>4, <1>6, <3>2, <3>3, <3>5 DEF Handles
  <2> QED BY <2>7, <2>8
<1>9. CASE r.mask = {"write"}
  <2> DEFINE e == Edge("WasGeneratedBy", b, a, i)
             x == <<"WasGeneratedBy", b, a>>
  <2>1. U = <<>> /\ "read" \notin r.mask
    BY <1>9 DEF UsedLines
  <2>2. used' = used /\ wasgenBy' = wasgenBy \cup {<<c, iv>>}
    BY <1>9, <2>1 DEF handle_file_p
  <2>3. KnownEdges' = KnownEdges \cup {x}
    <3>1. {<<"WasGeneratedBy", AR(y[2]), P(y[1])>> : y \in wasgenBy'}
            = {<<"WasGeneratedBy", AR(y[2]), P(y[1])>> : y \in wasgenBy} \cup {x}
      <4> DEFINE p == <<c, iv>>
                 F(y) == <<"WasGeneratedBy", AR(y[2]), P(y[1])>>
      <4>1. F(p) = x
        OBVIOUS
      <4>2. wasgenBy' = wasgenBy \cup {p}
        BY <2>2
      <4> HIDE DEF p, F, x
      <4>3. {F(y) : y \in wasgenBy'} = {F(y) : y \in wasgenBy} \cup {x}
        BY <4>1, <4>2
      <4> QED BY <4>3 DEF F
    <3> QED BY <2>2, <3>1 DEF KnownEdges
  <2>4. x \in KnownEdges <=> <<c, iv>> \in wasgenBy
    BY <1>1, KnownEdgesOf
  <2>5. Facts(r) = {x}
    BY <1>1, <1>9, FactsOf
  <2>6. e.op = "edge" /\ e \in Lines /\ Said(e) = x
    <3>1. "WasGeneratedBy" \in Rels
      BY DEF Rels, Once
    <3> QED BY <1>1, <3>1, EdgeFacts
  <2>7. lines' = AB \o G
    BY <1>2, <1>7, <2>1, ConcatEmptySeq
  <2>8. CASE <<c, iv>> \in wasgenBy
    <3>1. G = <<>>
      BY <2>8 DEF GeneratedLines, checkWasGeneratedBy
    <3>2. lines' = AB
      BY <1>7, <2>7, <3>1, ConcatEmptySeq
    <3>3. KnownEdges' = KnownEdges
      BY <2>3, <2>4, <2>8
    <3>4. \E l \in S : l.op = "edge" /\ Said(l) = x
      <4>1. \/ \E n \in 1..Len(Mine) : Mine[n].op = "edge" /\ Said(Mine[n]) = x
            \/ \E l \in dropped : l.op = "edge" /\ Said(l) = x
        BY <2>4, <2>8 DEF Seen
      <4>2. \A n \in 1..Len(Mine) : Mine[n] \in Range(Mine)
        BY RangeFacts
      <4> QED BY <4>1, <4>2
    <3> HIDE DEF x, S
    <3>5. Tells(r, i, S)
      BY <1>1, <2>5, <3>4 DEF Tells
    <3> QED BY <1>3, <1>4, <1>6, <3>2, <3>3, <3>5 DEF Handles, S
  <2>9. CASE <<c, iv>> \notin wasgenBy
    <3>1. G = <<e>>
      BY <1>9, <2>9 DEF GeneratedLines, checkWasGeneratedBy
    <3>2. lines' = AB \o <<e>>
      BY <2>7, <3>1
    <3>3. Follows(AB \o <<e>>, Mine, L, KnownEdges', dropped, first, i)
      <4>1. "WasGeneratedBy" \in Rels
        BY DEF Rels, Once
      <4>2. KnownEdges \subseteq KnownEdges' /\ KnownEdges' \subseteq KnownEdges \cup {Said(e)}
            /\ Said(e) \notin KnownEdges /\ Said(e) \in KnownEdges'
        BY <2>3, <2>4, <2>6, <2>9
      <4> HIDE DEF a, b
      <4> QED BY <1>1, <1>3, <1>5, <4>1, <4>2, FollowsEdge
    <3>4. e \in Range(lines')
      BY <1>7, <2>6, <3>2, RangeOfOne
    <3> HIDE DEF e, x
    <3>5. Tells(r, i, S)
      BY <1>1, <2>5, <2>6, <3>4 DEF Tells
    <3> QED BY <1>4, <1>6, <3>2, <3>3, <3>5 DEF Handles
  <2> QED BY <2>8, <2>9
<1>10. CASE "read" \notin r.mask /\ r.mask # {"write"}
  <2>1. U = <<>> /\ G = <<>>
    BY <1>10 DEF UsedLines, GeneratedLines
  <2>2. lines' = AB
    BY <1>2, <1>7, <2>1, ConcatEmptySeq
  <2>3. KnownEdges' = KnownEdges
    BY <1>10 DEF handle_file_p, KnownEdges
  <2>4. Tells(r, i, S)
    BY <1>1, <1>10, FactsOf DEF Tells
  <2> QED BY <1>3, <1>4, <1>6, <2>2, <2>3, <2>4 DEF Handles
<1> QED BY <1>8, <1>9, <1>10

-----------------------------------------------------------------------------
(* What has been said, and what gets lost *)

LEMMA SuffixFacts ==
  ASSUME NEW S, NEW q \in Seq(S), NEW k \in Nat, k <= Len(q)
  PROVE /\ SubSeq(q, k + 1, Len(q)) \in Seq(S)
        /\ Len(SubSeq(q, k + 1, Len(q))) = Len(q) - k
        /\ \A n \in 1..(Len(q) - k) : SubSeq(q, k + 1, Len(q))[n] = q[k + n]
        /\ Range(SubSeq(q, k + 1, Len(q))) \subseteq Range(q)
<1> DEFINE m == SubSeq(q, k + 1, Len(q))
<1>1. Len(q) \in Nat /\ k + 1 \in Int /\ \A i \in (k + 1)..Len(q) : q[i] \in S
  BY LenProperties, ElementOfSeq
<1>2. /\ m \in Seq(S)
      /\ Len(m) = IF k + 1 <= Len(q) THEN Len(q) - (k + 1) + 1 ELSE 0
      /\ \A n \in 1..(Len(q) - (k + 1) + 1) : m[n] = q[(k + 1) + n - 1]
  BY <1>1, SubSeqProperties
<1> HIDE DEF m
<1>3. Len(m) = Len(q) - k /\ \A n \in 1..(Len(q) - k) : m[n] = q[k + n]
  <2>1. Len(m) = Len(q) - k
    BY <1>1, <1>2
  <2>2. ASSUME NEW n \in 1..(Len(q) - k) PROVE m[n] = q[k + n]
    <3>1. n \in 1..(Len(q) - (k + 1) + 1) /\ (k + 1) + n - 1 = k + n
      BY <1>1
    <3> QED BY <3>1, <1>2
  <2> QED BY <2>1, <2>2
<1>4. Range(m) \subseteq Range(q)
  <2>1. Range(m) = {m[n] : n \in 1..Len(m)} /\ Range(q) = {q[n] : n \in 1..Len(q)}
    BY <1>2, RangeFacts
  <2>2. \A n \in 1..Len(m) : k + n \in 1..Len(q) /\ m[n] = q[k + n]
    BY <1>1, <1>3
  <2> QED BY <2>1, <2>2
<1> QED BY <1>2, <1>3, <1>4 DEF m

LEMMA SuffixGrows ==
  ASSUME NEW S, NEW q \in Seq(S), NEW k \in Nat, k <= Len(q), NEW l \in S
  PROVE SubSeq(Append(q, l), k + 1, Len(Append(q, l)))
          = Append(SubSeq(q, k + 1, Len(q)), l)
<1> DEFINE qq == Append(q, l)
           m == SubSeq(q, k + 1, Len(q))
           mm == SubSeq(qq, k + 1, Len(qq))
           ml == Append(m, l)
<1>1. /\ qq \in Seq(S) /\ Len(qq) = Len(q) + 1 /\ Len(q) \in Nat
      /\ \A n \in 1..Len(q) : qq[n] = q[n]
      /\ qq[Len(q) + 1] = l
  BY AppendFacts, LenProperties
<1>2. /\ m \in Seq(S) /\ Len(m) = Len(q) - k
      /\ \A n \in 1..(Len(q) - k) : m[n] = q[k + n]
  BY SuffixFacts
<1> HIDE DEF qq
<1>3. k <= Len(qq)
  BY <1>1
<1>4. /\ mm \in Seq(S) /\ Len(mm) = Len(qq) - k
      /\ \A n \in 1..(Len(qq) - k) : mm[n] = qq[k + n]
  BY <1>1, <1>3, SuffixFacts
<1> HIDE DEF m, mm
<1>5. /\ ml \in Seq(S) /\ Len(ml) = Len(m) + 1
      /\ \A n \in 1..Len(m) : ml[n] = m[n]
      /\ ml[Len(m) + 1] = l
  BY <1>2, AppendFacts
<1> HIDE DEF ml
<1>6. Len(mm) = Len(ml)
  BY <1>1, <1>2, <1>4, <1>5
<1>7. ASSUME NEW n \in 1..Len(mm) PROVE mm[n] = ml[n]
  <2>1. n \in Nat /\ mm[n] = qq[k + n]
    BY <1>1, <1>4
  <2>2. CASE n <= Len(m)
    <3>1. n \in 1..(Len(q) - k) /\ k + n \in 1..Len(q) /\ n \in 1..Len(m)
      BY <2>2, <1>1, <1>2
    <3> QED BY <3>1, <2>1, <1>1, <1>2, <1>5
  <2>3. CASE n = Len(m) + 1
    <3>1. k + n = Len(q) + 1
      BY <2>3, <1>1, <1>2
    <3> QED BY <3>1, <2>1, <2>3, <1>1, <1>5
  <2> QED BY <2>2, <2>3, <1>1, <1>2, <1>5, <1>6
<1>8. mm = ml
  BY <1>4, <1>5, <1>6, <1>7, SeqEqual
<1> QED BY <1>8 DEF mm, ml, m, qq

\* The next line gets lost: what is left is still in order.
LEMMA DropHead ==
  ASSUME NEW M \in Seq(Lines), NEW ls \in Seq(Lines), ls # <<>>, NEW K, NEW E, NEW D, NEW f \in Nat,
         Seen(M \o ls, K, E, D, f), Head(ls).of > f
  PROVE Seen(M \o Tail(ls), K, E, D \cup {Head(ls)}, f)
<1> DEFINE s == M \o ls
           t == M \o Tail(ls)
           k == Len(M) + 1
           h == Head(ls)
           DD == D \cup {h}
<1>1. /\ Len(ls) \in Nat /\ Len(ls) > 0 /\ h = ls[1] /\ Len(M) \in Nat
      /\ Tail(ls) \in Seq(Lines) /\ Len(Tail(ls)) = Len(ls) - 1
      /\ \A i \in 1..Len(Tail(ls)) : Tail(ls)[i] = ls[i + 1]
  <2>1. Tail(ls) \in Seq(Lines) /\ Len(Tail(ls)) = Len(ls) - 1
        /\ \A i \in 1..Len(Tail(ls)) : Tail(ls)[i] = ls[i + 1]
    BY HeadTailProperties
  <2> QED BY <2>1
<1>2. /\ Len(s) = Len(M) + Len(ls)
      /\ \A n \in 1..Len(s) : s[n] = IF n <= Len(M) THEN M[n] ELSE ls[n - Len(M)]
  BY ConcatProperties
<1>3. /\ Len(t) = Len(M) + Len(Tail(ls))
      /\ \A n \in 1..Len(t) : t[n] = IF n <= Len(M) THEN M[n] ELSE Tail(ls)[n - Len(M)]
  BY <1>1, ConcatProperties
<1> HIDE DEF s, t, h
<1>4. Len(s) = Len(t) + 1 /\ Len(t) \in Nat /\ k \in 1..Len(s) /\ s[k] = h
  BY <1>1, <1>2, <1>3
<1>5. \A n \in 1..Len(t) : n < k => n \in 1..Len(s) /\ t[n] = s[n]
  BY <1>1, <1>2, <1>3
<1>6. ASSUME NEW n \in 1..Len(t), n >= k PROVE n + 1 \in 1..Len(s) /\ t[n] = s[n + 1]
  <2>1. /\ n \in Nat /\ ~(n <= Len(M)) /\ ~(n + 1 <= Len(M))
        /\ n + 1 \in 1..Len(s) /\ n - Len(M) \in 1..Len(Tail(ls))
        /\ (n - Len(M)) + 1 = (n + 1) - Len(M)
    BY <1>6, <1>1, <1>2, <1>3
  <2>2. t[n] = Tail(ls)[n - Len(M)]
    BY <2>1, <1>3
  <2>3. Tail(ls)[n - Len(M)] = ls[(n - Len(M)) + 1]
    BY <2>1, <1>1
  <2>4. s[n + 1] = ls[(n + 1) - Len(M)]
    BY <2>1, <1>2
  <2> QED BY <2>1, <2>2, <2>3, <2>4
\* Where the lines of t are in s, and the other way round.
<1>7. PICK g \in [1..Len(t) -> 1..Len(s)] :
        /\ \A n \in 1..Len(t) : t[n] = s[g[n]]
        /\ \A n \in 1..Len(t) : g[n] = IF n < k THEN n ELSE n + 1
  <2> DEFINE G == [n \in 1..Len(t) |-> IF n < k THEN n ELSE n + 1]
  <2>1. \A n \in 1..Len(t) : G[n] \in 1..Len(s) /\ t[n] = s[G[n]]
    BY <1>4, <1>5, <1>6
  <2>2. G \in [1..Len(t) -> 1..Len(s)]
    BY <2>1
  <2>3. \A n \in 1..Len(t) : G[n] = IF n < k THEN n ELSE n + 1
    OBVIOUS
  <2> HIDE DEF G, k
  <2> QED BY <2>1, <2>2, <2>3
<1>8. ASSUME NEW n \in 1..Len(s), n # k
      PROVE \E m \in 1..Len(t) : t[m] = s[n] /\ m <= n /\ (n > k => m < n)
  <2>1. CASE n < k
    BY <2>1, <1>1, <1>4, <1>5
  <2>2. CASE n > k
    <3>1. n - 1 \in 1..Len(t) /\ n - 1 >= k /\ (n - 1) + 1 = n
      BY <2>2, <1>1, <1>4
    <3>2. t[n - 1] = s[n]
      BY <3>1, <1>6
    <3> QED BY <3>1, <3>2, <1>4
  <2> QED BY <2>1, <2>2, <1>4, <1>8
<1>9. ASSUME NEW id, NEW n \in 0..Len(s), NEW j \in 0..Len(t),
             n < k => j = n, n >= k => j = n - 1, Announced(s, id, n, D, f)
      PROVE Announced(t, id, j, DD, f)
  <2>1. CASE \E l \in D : l.op = "vertex" /\ l.id = id /\ l.of > f
    BY <2>1 DEF Announced
  <2>2. CASE \E m \in 1..n : s[m].op = "vertex" /\ s[m].id = id
    <3>1. PICK m \in 1..n : s[m].op = "vertex" /\ s[m].id = id
      BY <2>2
    <3>2. CASE m = k
      <4>1. h \in DD /\ h.op = "vertex" /\ h.id = id /\ h.of > f
        BY <3>1, <3>2, <1>4 DEF h
      <4> QED BY <4>1 DEF Announced
    <3>3. CASE m # k
      <4>1. m \in 1..Len(s)
        BY <1>4
      <4>2. PICK i \in 1..Len(t) : t[i] = s[m] /\ i <= m /\ (m > k => i < m)
        BY <4>1, <3>3, <1>8
      <4>3. i \in 1..j
        BY <4>2, <3>3, <1>4, <1>9
      <4> QED BY <3>1, <4>2, <4>3 DEF Announced
    <3> QED BY <3>2, <3>3
  <2> QED BY <2>1, <2>2, <1>9 DEF Announced
<1>10. /\ \A n \in 1..Len(s) : s[n].op = "vertex" => s[n].id \in K
       /\ \A n \in 1..Len(s) : s[n].op = "edge" /\ s[n].rel \in Once => Said(s[n]) \in E
       /\ \A m, n \in 1..Len(s) :
            s[m].op = "vertex" /\ s[n].op = "vertex" /\ s[m].id = s[n].id => m = n
       /\ \A m, n \in 1..Len(s) :
            s[m].op = "edge" /\ s[n].op = "edge" /\ s[m].rel \in Once /\ Said(s[m]) = Said(s[n]) => m = n
       /\ \A n \in 1..Len(s) :
            s[n].op = "edge" => \A x \in {s[n].from, s[n].to} : Announced(s, x, n - 1, D, f)
       /\ \A x \in K : Announced(s, x, Len(s), D, f)
       /\ \A e \in E : \/ \E n \in 1..Len(s) : s[n].op = "edge" /\ Said(s[n]) = e
                       \/ \E l \in D : l.op = "edge" /\ Said(l) = e
  BY DEF Seen, s
<1>11. \A m, n \in 1..Len(t) : g[m] = g[n] => m = n
  BY <1>1, <1>4, <1>7
<1>12. \A n \in 1..Len(t) : t[n].op = "vertex" => t[n].id \in K
  BY <1>7, <1>10
<1>13. \A n \in 1..Len(t) : t[n].op = "edge" /\ t[n].rel \in Once => Said(t[n]) \in E
  BY <1>7, <1>10
<1>14. \A m, n \in 1..Len(t) :
         t[m].op = "vertex" /\ t[n].op = "vertex" /\ t[m].id = t[n].id => m = n
  <2> TAKE m, n \in 1..Len(t)
  <2>1. /\ t[m] = s[g[m]] /\ g[m] \in 1..Len(s) /\ t[n] = s[g[n]] /\ g[n] \in 1..Len(s)
    BY <1>7
  <2> QED BY <2>1, <1>10, <1>11
<1>15. \A m, n \in 1..Len(t) :
         t[m].op = "edge" /\ t[n].op = "edge" /\ t[m].rel \in Once /\ Said(t[m]) = Said(t[n]) => m = n
  <2> TAKE m, n \in 1..Len(t)
  <2>1. /\ t[m] = s[g[m]] /\ g[m] \in 1..Len(s) /\ t[n] = s[g[n]] /\ g[n] \in 1..Len(s)
    BY <1>7
  <2> QED BY <2>1, <1>10, <1>11
<1>16. ASSUME NEW n \in 1..Len(t), t[n].op = "edge", NEW x \in {t[n].from, t[n].to}
       PROVE Announced(t, x, n - 1, DD, f)
  <2>1. g[n] \in 1..Len(s) /\ t[n] = s[g[n]]
    BY <1>7
  <2>2. Announced(s, x, g[n] - 1, D, f)
    BY <2>1, <1>10, <1>16
  <2>3. g[n] = IF n < k THEN n ELSE n + 1
    BY <1>7
  <2>4. PICK i \in 0..Len(s), j \in 0..Len(t) :
          i = g[n] - 1 /\ j = n - 1 /\ (i < k => j = i) /\ (i >= k => j = i - 1)
    <3>1. /\ g[n] - 1 \in 0..Len(s) /\ n - 1 \in 0..Len(t)
          /\ g[n] - 1 < k => n - 1 = g[n] - 1
          /\ g[n] - 1 >= k => n - 1 = (g[n] - 1) - 1
      BY <2>1, <2>3, <1>1, <1>4
    <3> QED BY <3>1
  <2> QED BY <2>2, <2>4, <1>9
<1>17. ASSUME NEW x \in K PROVE Announced(t, x, Len(t), DD, f)
  <2>1. Announced(s, x, Len(s), D, f)
    BY <1>10
  <2>2. Len(s) \in 0..Len(s) /\ Len(t) \in 0..Len(t) /\ ~(Len(s) < k) /\ Len(t) = Len(s) - 1
    BY <1>1, <1>4
  <2> QED BY <2>1, <2>2, <1>9
<1>18. ASSUME NEW e \in E
       PROVE \/ \E n \in 1..Len(t) : t[n].op = "edge" /\ Said(t[n]) = e
             \/ \E l \in DD : l.op = "edge" /\ Said(l) = e
  <2>1. CASE \E n \in 1..Len(s) : s[n].op = "edge" /\ Said(s[n]) = e
    <3>1. PICK n \in 1..Len(s) : s[n].op = "edge" /\ Said(s[n]) = e
      BY <2>1
    <3>2. CASE n = k
      BY <3>1, <3>2, <1>4
    <3>3. CASE n # k
      BY <3>1, <3>3, <1>8
    <3> QED BY <3>2, <3>3
  <2>2. CASE \E l \in D : l.op = "edge" /\ Said(l) = e
    BY <2>2
  <2> QED BY <2>1, <2>2, <1>10
<1>19. Seen(t, K, E, DD, f)
  BY <1>12, <1>13, <1>14, <1>15, <1>16, <1>17, <1>18 DEF Seen
<1> QED BY <1>19 DEF t, h

\* What a run has said is in order, whatever it is about to say.
LEMMA SeenSaid ==
  ASSUME NEW M \in Seq(Lines), NEW ls \in Seq(Lines), NEW K, NEW E, NEW D, NEW f,
         Seen(M \o ls, K, E, D, f)
  PROVE /\ \A n \in 1..Len(M) : M[n].op = "edge" =>
             \A id \in {M[n].from, M[n].to} : Announced(M, id, n - 1, D, f)
        /\ \A m, n \in 1..Len(M) :
             M[m].op = "vertex" /\ M[n].op = "vertex" /\ M[m].id = M[n].id => m = n
        /\ \A m, n \in 1..Len(M) :
             M[m].op = "edge" /\ M[n].op = "edge" /\ M[m].rel \in Once
               /\ Said(M[m]) = Said(M[n]) => m = n
<1> DEFINE s == M \o ls
<1>1. /\ Len(s) = Len(M) + Len(ls) /\ Len(M) \in Nat /\ Len(ls) \in Nat
      /\ \A n \in 1..Len(s) : s[n] = IF n <= Len(M) THEN M[n] ELSE ls[n - Len(M)]
  BY ConcatProperties, LenProperties
<1>2. Seen(s, K, E, D, f)
  OBVIOUS
<1> HIDE DEF s
<1>3. \A n \in 1..Len(M) : n \in 1..Len(s) /\ s[n] = M[n]
  BY <1>1
<1>4. ASSUME NEW n \in 1..Len(M), M[n].op = "edge", NEW id \in {M[n].from, M[n].to}
      PROVE Announced(M, id, n - 1, D, f)
  <2>1. Announced(s, id, n - 1, D, f)
    BY <1>2, <1>3, <1>4 DEF Seen
  <2>2. n - 1 \in Int /\ n - 1 <= n - 1 /\ \A m \in 1..(n - 1) : M[m] = s[m]
    BY <1>1, <1>3
  <2> QED BY <2>1, <2>2, AnnouncedMore
<1>5. \A m, n \in 1..Len(M) :
        M[m].op = "vertex" /\ M[n].op = "vertex" /\ M[m].id = M[n].id => m = n
  BY <1>2, <1>3 DEF Seen
<1>6. \A m, n \in 1..Len(M) :
        M[m].op = "edge" /\ M[n].op = "edge" /\ M[m].rel \in Once
          /\ Said(M[m]) = Said(M[n]) => m = n
  BY <1>2, <1>3 DEF Seen
<1> QED BY <1>4, <1>5, <1>6

LEMMA MineFacts ==
  ASSUME TypeOK
  PROVE /\ Mine \in Seq(Lines) /\ DOMAIN Mine = 1..Len(Mine)
        /\ Range(Mine) \subseteq Range(pipe)
BY SuffixFacts, LenProperties DEF TypeOK, LinesType, Mine

-----------------------------------------------------------------------------
(* The actions *)

LEMMA SaidSame ==
  ASSUME EdgeAfterVertices, NothingToldTwice, UNCHANGED <<pipe, start, dropped, first>>
  PROVE EdgeAfterVertices' /\ NothingToldTwice'
<1>1. Mine' = Mine
  BY DEF Mine
<1> QED BY <1>1 DEF EdgeAfterVertices, NothingToldTwice

\* One more record is untold only where a fault pays for it.
LEMMA OwedBound ==
  ASSUME TypeOK, FewUntold, faults' \in Nat, NEW x,
         \/ Owed' \subseteq Owed /\ faults <= faults'
         \/ Owed' \subseteq Owed \cup {x} /\ faults' = faults + 1
  PROVE FewUntold'
<1>1. rd \in Nat /\ faults \in Nat
  BY DEF TypeOK, PlaceOK
<1>2. Owed \subseteq 1..rd
  BY DEF Owed, Untold
<1>3. IsFiniteSet(1..rd)
  BY <1>1, FS_Interval
<1>4. IsFiniteSet(Owed)
  BY <1>2, <1>3, FS_Subset
<1>5. IsFiniteSet(Owed \cup {x}) /\ Cardinality(Owed \cup {x}) <= Cardinality(Owed) + 1
      /\ Cardinality(Owed) \in Nat /\ Cardinality(Owed \cup {x}) \in Nat
  BY <1>4, FS_AddElement, FS_CardinalityType
<1>6. Cardinality(Owed) <= faults
  BY DEF FewUntold
<1>7. CASE Owed' \subseteq Owed /\ faults <= faults'
  <2>1. Cardinality(Owed') <= Cardinality(Owed) /\ Cardinality(Owed') \in Nat
    BY <1>4, <1>7, FS_Subset, FS_CardinalityType
  <2> QED BY <2>1, <1>1, <1>5, <1>6, <1>7 DEF FewUntold
<1>8. CASE Owed' \subseteq Owed \cup {x} /\ faults' = faults + 1
  <2>1. Cardinality(Owed') <= Cardinality(Owed \cup {x}) /\ Cardinality(Owed') \in Nat
    BY <1>5, <1>8, FS_Subset, FS_CardinalityType
  <2> QED BY <2>1, <1>1, <1>5, <1>6, <1>8 DEF FewUntold
<1> QED BY <1>7, <1>8

LEMMA InitIInv == Init => IInv
<1> SUFFICES ASSUME Init PROVE IInv
  OBVIOUS
<1>1. PlaceOK
  BY DEF Init, PlaceOK
<1>2. LinesType
  BY DEF Init, LinesType
<1>3. ListsType /\ events \in Nat /\ runs \in Nat /\ faults \in Nat
  BY DEF Init, ListsType
<1>4. TypeOK
  BY <1>1, <1>2, <1>3 DEF TypeOK
<1>5. BootFirst
  BY DEF Init, BootFirst
<1>6. Mine = <<>>
  BY SubSeqEmpty DEF Init, Mine
<1>7. EdgeAfterVertices /\ NothingToldTwice
  BY <1>6 DEF EdgeAfterVertices, NothingToldTwice
<1>8. RunSeen /\ InHandTold
  BY DEF Init, RunSeen, InHandTold
<1>9. RunTellsItsRecords
  BY DEF Init, RunTellsItsRecords
<1>10. Owed = {}
  BY DEF Init, Owed, Untold
<1>11. FewUntold
  BY <1>10, FS_EmptySet DEF Init, FewUntold
<1> QED BY <1>4, <1>5, <1>7, <1>8, <1>9, <1>11 DEF IInv

LEMMA EmitStep ==
  ASSUME IInv, NEW r \in Records, Emit(r)
  PROVE IInv'
<1> USE DEF IInv
<1>1. /\ log' \in Seq(Records) /\ Len(log') = Len(log) + 1
      /\ \A n \in 1..Len(log) : log'[n] = log[n]
      /\ log'[Len(log) + 1] = r /\ Len(log) \in Nat
  BY AppendFacts, LenProperties DEF TypeOK, PlaceOK, Emit
<1>2. TypeOK'
  <2>1. PlaceOK'
    BY <1>1 DEF TypeOK, PlaceOK, Emit, bounds, ghosts
  <2>2. LinesType'
    BY DEF TypeOK, LinesType, Emit, bounds, ghosts
  <2>3. ListsType'
    BY DEF TypeOK, ListsType, Emit, lists
  <2> QED BY <2>1, <2>2, <2>3 DEF TypeOK, Emit, bounds
<1>3. BootFirst'
  <2>1. log = <<>> <=> Len(log) = 0
    BY EmptySeq DEF TypeOK, PlaceOK
  <2>2. \A i \in 1..Len(log') : log'[i].type = "boot" <=> i = 1
    <3> TAKE i \in 1..Len(log')
    <3>1. CASE i \in 1..Len(log)
      BY <3>1, <1>1 DEF BootFirst
    <3>2. CASE i = Len(log) + 1
      BY <3>2, <2>1, <1>1 DEF Emit
    <3> QED BY <3>1, <3>2, <1>1
  <2>3. UNCHANGED <<pc, pos, first, p1, ag, ar, used, wasgenBy, counter>>
    BY DEF Emit, lists, ghosts
  <2> QED BY <2>2, <2>3 DEF BootFirst
<1>4. /\ Mine' = Mine /\ Run' = Run /\ Known' = Known /\ KnownEdges' = KnownEdges
  BY DEF Emit, Mine, Run, Known, KnownEdges, lists, ghosts
<1>5. RunSeen'
  BY <1>4 DEF RunSeen, Emit, ghosts
<1>6. EdgeAfterVertices' /\ NothingToldTwice'
  BY SaidSame DEF Emit, ghosts
<1>8. InHandTold'
  <2>1. pc = "tell" => pos \in 1..Len(log)
    BY DEF TypeOK, PlaceOK
  <2> QED BY <2>1, <1>1, <1>4 DEF InHandTold, Emit, Passes, Told
<1>9. RunTellsItsRecords'
  <2>1. \A i \in (first + 1)..whole : i \in 1..Len(log)
    BY DEF TypeOK, PlaceOK
  <2> QED BY <2>1, <1>1, <1>4 DEF RunTellsItsRecords, Emit, ghosts, Passes, Told
<1>10. Owed' = Owed
  <2>1. \A i \in 1..rd : i \in 1..Len(log)
    BY DEF TypeOK, PlaceOK
  <2>2. \A i \in 1..rd : log'[i] = log[i]
    BY <2>1, <1>1
  <2>3. rd' = rd /\ pipe' = pipe /\ dropped' = dropped /\ pc' = pc /\ pos' = pos
    BY DEF Emit
  <2>4. ASSUME NEW i \in 1..rd
        PROVE Told(i, Range(pipe) \cup dropped)' <=> Told(i, Range(pipe) \cup dropped)
    BY <2>2, <2>3 DEF Told
  <2>5. Untold' = Untold
    BY <2>3, <2>4 DEF Untold
  <2> QED BY <2>3, <2>5 DEF Owed
<1>11. FewUntold'
  BY <1>10 DEF FewUntold, Emit, bounds
<1> QED BY <1>2, <1>3, <1>5, <1>6, <1>8, <1>9, <1>11

\* The process ends, having read as far as pos'.
LEMMA ExitStep ==
  ASSUME IInv, Exit, UNCHANGED <<log, tool, pipe, dropped, first, whole, start, runs>>,
         PlaceOK', faults' \in Nat,
         \/ Owed' \subseteq Owed /\ faults <= faults'
         \/ Owed' \subseteq Owed \cup {pos'} /\ faults' = faults + 1
  PROVE IInv'
<1> USE DEF IInv
<1>1. /\ pc' = "off" /\ lines' = <<>> /\ events' = 0 /\ counter' = 0
      /\ p1' = {} /\ ag' = {} /\ ar' = {} /\ used' = {} /\ wasgenBy' = {}
  BY DEF Exit, NoLists
<1>2. TypeOK'
  <2>1. LinesType'
    BY <1>1 DEF TypeOK, LinesType
  <2>2. ListsType'
    BY <1>1 DEF ListsType
  <2> QED BY <1>1, <2>1, <2>2 DEF TypeOK
<1>3. BootFirst'
  BY <1>1 DEF BootFirst
<1>4. RunSeen' /\ InHandTold'
  BY <1>1 DEF RunSeen, InHandTold
<1>5. EdgeAfterVertices' /\ NothingToldTwice'
  BY SaidSame
<1>6. RunTellsItsRecords'
  <2>1. Mine' = Mine
    BY DEF Mine
  <2> QED BY <2>1 DEF RunTellsItsRecords, Passes, Told
<1>7. FewUntold'
  BY OwedBound
<1> QED BY <1>2, <1>3, <1>4, <1>5, <1>6, <1>7

LEMMA KillStep ==
  ASSUME IInv, Kill
  PROVE IInv'
<1>1. /\ pc # "off" /\ faults' = faults + 1 /\ Exit /\ pc' = "off"
      /\ UNCHANGED <<log, rd, tool, pos, pipe, dropped, first, whole, start, runs>>
  BY DEF Kill, Fault, Exit, ghosts
<1>2. PlaceOK'
  BY <1>1 DEF IInv, TypeOK, PlaceOK
<1>3. faults' \in Nat
  BY <1>1 DEF IInv, TypeOK
<1>4. Untold' = Untold
  BY <1>1 DEF Untold, Told
<1>5. Owed' \subseteq Owed \cup {pos'}
  BY <1>1, <1>4 DEF Owed
<1> QED BY <1>1, <1>2, <1>3, <1>5, ExitStep

LEMMA FinishStep ==
  ASSUME IInv, Finish
  PROVE IInv'
<1>1. /\ pc = "read" /\ Exit /\ pc' = "off"
      /\ UNCHANGED <<log, rd, tool, pos, pipe, dropped, first, whole, start, runs>>
      /\ faults' = faults \/ faults' = faults + 1
  BY DEF Finish, Fault, Exit, ghosts
<1>2. PlaceOK'
  BY <1>1 DEF IInv, TypeOK, PlaceOK
<1>3. faults' \in Nat /\ faults <= faults'
  BY <1>1 DEF IInv, TypeOK
<1>4. Untold' = Untold
  BY <1>1 DEF Untold, Told
<1>5. Owed' \subseteq Owed
  BY <1>1, <1>4 DEF Owed
<1> QED BY <1>1, <1>2, <1>3, <1>5, ExitStep

LEMMA ReadFailsStep ==
  ASSUME IInv, ReadFails
  PROVE IInv'
<1>1. /\ pc = "read" /\ pos < Len(log) /\ Exit /\ pc' = "off" /\ faults' = faults + 1
      /\ pos' = pos + 1 /\ rd' = IF tool = "provd" THEN pos + 1 ELSE rd
      /\ UNCHANGED <<log, tool, pipe, dropped, first, whole, start, runs>>
  BY DEF ReadFails, Advance, Fault, Exit, ghosts
<1>2. /\ log \in Seq(Records) /\ rd \in Nat /\ pos \in Nat /\ first \in Nat /\ whole \in Nat
      /\ rd <= Len(log) /\ pos <= Len(log) /\ first <= whole /\ whole <= pos
      /\ tool \in {"provd", "cat"} /\ Len(log) \in Nat
      /\ tool = "provd" => rd = pos
  BY <1>1, LenProperties DEF IInv, TypeOK, PlaceOK
<1>3. PlaceOK'
  <2>1. rd' \in Nat /\ rd' <= Len(log) /\ pos' \in Nat /\ pos' <= Len(log) /\ whole <= pos'
    BY <1>1, <1>2
  <2> QED BY <2>1, <1>1, <1>2 DEF PlaceOK
<1>4. faults' \in Nat
  BY <1>1 DEF IInv, TypeOK
<1>5. Owed' \subseteq Owed \cup {pos'}
  <2>1. ASSUME NEW i \in Untold', i # pos' PROVE i \in Untold
    <3>1. i \in 1..rd' /\ ~Told(i, Range(pipe) \cup dropped)'
      BY DEF Untold
    <3>2. i \in 1..rd
      BY <2>1, <3>1, <1>1, <1>2
    <3>3. ~Told(i, Range(pipe) \cup dropped)
      BY <3>1, <1>1 DEF Told
    <3> QED BY <3>2, <3>3 DEF Untold
  <2> QED BY <2>1, <1>1 DEF Owed
<1> QED BY <1>1, <1>3, <1>4, <1>5, ExitStep

LEMMA BeginStep ==
  ASSUME IInv, StartProvd \/ StartCat
  PROVE IInv'
<1>1. PICK at \in {0, rd}, program \in {"provd", "cat"} :
        Begin(program, at) /\ (program = "provd" => at = rd)
  BY DEF StartProvd, StartCat
<1>2. /\ pc = "off" /\ pc' = "read" /\ tool' = program /\ runs' = runs + 1
      /\ pos' = at /\ first' = at /\ whole' = at /\ start' = Len(pipe)
      /\ UNCHANGED <<log, rd, events, lines, pipe, dropped, faults>>
      /\ UNCHANGED <<p1, ag, ar, used, wasgenBy, counter>>
  BY <1>1 DEF Begin, lists
<1>3. /\ log \in Seq(Records) /\ rd \in Nat /\ rd <= Len(log) /\ Len(log) \in Nat
      /\ pipe \in Seq(Lines) /\ Len(pipe) \in Nat /\ lines = <<>>
      /\ at \in Nat /\ at <= Len(log)
  BY <1>1, <1>2, LenProperties DEF IInv, TypeOK, PlaceOK, LinesType
<1>4. TypeOK'
  <2>1. PlaceOK'
    BY <1>1, <1>2, <1>3 DEF PlaceOK
  <2>2. LinesType'
    BY <1>2, <1>3 DEF IInv, TypeOK, LinesType
  <2>3. ListsType'
    BY <1>2 DEF IInv, TypeOK, ListsType
  <2> QED BY <2>1, <2>2, <2>3, <1>2 DEF IInv, TypeOK
<1>5. p1' = {} /\ ag' = {} /\ ar' = {} /\ used' = {} /\ wasgenBy' = {} /\ counter' = 0
  BY <1>2 DEF IInv, BootFirst
<1>6. BootFirst'
  BY <1>2, <1>5 DEF IInv, BootFirst
<1>7. Mine' = <<>>
  <2>1. Len(pipe) + 1 \in Int /\ Len(pipe) \in Int /\ Len(pipe) < Len(pipe) + 1
    BY <1>3
  <2> QED BY <2>1, <1>2, SubSeqEmpty DEF Mine
<1>8. RunSeen'
  <2>1. Run' = <<>>
    <3>1. <<>> \in Seq(Lines)
      BY EmptySeq
    <3>2. <<>> \o <<>> = <<>>
      BY <3>1, ConcatEmptySeq
    <3> QED BY <3>2, <1>2, <1>3, <1>7 DEF Run
  <2>2. Known' = {} /\ KnownEdges' = {}
    BY <1>5 DEF Known, KnownEdges
  <2>3. \A D, f : Seen(<<>>, {}, {}, D, f)
    BY DEF Seen
  <2> QED BY <2>1, <2>2, <2>3 DEF RunSeen
<1>9. EdgeAfterVertices' /\ NothingToldTwice'
  BY <1>7 DEF EdgeAfterVertices, NothingToldTwice
<1>10. InHandTold'
  BY <1>2 DEF InHandTold
<1>11. RunTellsItsRecords'
  BY <1>2, <1>3 DEF RunTellsItsRecords
<1>12. Untold' = Untold
  BY <1>2 DEF Untold, Told
<1>13. FewUntold'
  BY <1>2, <1>12 DEF IInv, FewUntold, Owed
<1> QED BY <1>4, <1>6, <1>8, <1>9, <1>10, <1>11, <1>13 DEF IInv

LEMMA DispatchHandles ==
  ASSUME IInv, pc = "read", pos < Len(log), NEW r, r = log[pos + 1], NEW i, i = pos + 1,
         Dispatch(r, i)
  PROVE Handles(r, i)
<1>1. /\ r \in Records /\ i \in Nat /\ i \in 1..Len(log) /\ lines = <<>>
      /\ first \in Nat /\ first <= pos /\ pos \in Nat
  <2>1. log \in Seq(Records) /\ Len(log) \in Nat /\ pos \in Nat
    BY LenProperties DEF IInv, TypeOK, PlaceOK
  <2>2. i \in 1..Len(log)
    BY <2>1
  <2>3. r \in Records
    BY <2>1, <2>2, ElementOfSeq
  <2> QED BY <2>1, <2>2, <2>3 DEF IInv, TypeOK, PlaceOK, LinesType
<1>2. ListsType /\ Mine \in Seq(Lines)
  BY MineFacts DEF IInv, TypeOK
<1>3. Run = Mine
  BY <1>1, <1>2, ConcatEmptySeq DEF Run
<1>4. Seen(Mine, Known, KnownEdges, dropped, first)
  BY <1>3 DEF IInv, RunSeen
<1>5. CASE handle_boot(r, i)
  <2>1. i = 1
    BY <1>1, <1>5 DEF IInv, BootFirst, handle_boot
  <2>2. pos = first
    BY <2>1, <1>1
  <2>3. p1 = {}
    BY <2>2 DEF IInv, BootFirst
  <2> QED BY <2>3, <1>1, <1>2, <1>4, <1>5, BootHandles
<1>6. CASE handle_credfork(r, i)
  BY <1>1, <1>2, <1>4, <1>6, CredforkHandles
<1>7. CASE handle_setid(r, i)
  BY <1>1, <1>2, <1>4, <1>7, SetidHandles
<1>8. CASE handle_exec(r, i)
  BY <1>1, <1>2, <1>4, <1>8, ExecHandles
<1>9. CASE handle_file_p(r, i)
  BY <1>1, <1>2, <1>4, <1>9, FileHandles
<1> QED BY <1>5, <1>6, <1>7, <1>8, <1>9 DEF Dispatch

LEMMA ReadStep ==
  ASSUME IInv, ReadRecord
  PROVE IInv'
<1> DEFINE i == pos + 1
           r == log[i]
<1>1. /\ pc = "read" /\ pos < Len(log) /\ pos' = i
      /\ rd' = IF tool = "provd" THEN i ELSE rd
      /\ whole' = IF lines' = <<>> THEN i ELSE whole
      /\ UNCHANGED <<log, tool, pipe, dropped, first, start, runs, faults>>
  BY DEF ReadRecord, Advance, bounds
<1>2. /\ log \in Seq(Records) /\ Len(log) \in Nat /\ rd \in Nat /\ pos \in Nat /\ first \in Nat
      /\ rd <= Len(log) /\ pos <= Len(log) /\ first <= pos /\ whole = pos
      /\ tool \in {"provd", "cat"} /\ (tool = "provd" => rd = pos)
      /\ pipe \in Seq(Lines) /\ lines = <<>> /\ dropped \subseteq Lines
      /\ start \in Nat /\ start <= Len(pipe) /\ events \in Nat
  BY <1>1, LenProperties DEF IInv, TypeOK, PlaceOK, LinesType
<1>3. i \in Nat /\ i \in 1..Len(log) /\ first < i
  BY <1>1, <1>2
<1>4. r \in Records
  BY <1>2, <1>3, ElementOfSeq
<1>5. Mine' = Mine /\ Mine \in Seq(Lines) /\ Range(Mine) \subseteq Range(pipe)
  BY <1>1, MineFacts DEF IInv, Mine
<1>6. Run = Mine
  BY <1>2, <1>5, ConcatEmptySeq DEF Run
<1>7. Seen(Mine, Known, KnownEdges, dropped, first)
  BY <1>1, <1>6 DEF IInv, RunSeen
\* The two ways to read a record have this in common.
<1>8. /\ lines' \in Seq(Lines) /\ \A n \in 1..Len(lines') : lines'[n].of = i
      /\ pc' = IF lines' = <<>> THEN "read" ELSE "tell"
      /\ ListsType' /\ events' \in Nat
      /\ Seen(Mine \o lines', Known', KnownEdges', dropped, first)
      /\ Passes(r) => Tells(r, i, Range(Mine) \cup dropped \cup Range(lines'))
      /\ lines' # <<>> => Passes(r)
  <2>1. CASE Dispatch(r, i)
    <3>1. Handles(r, i)
      BY <2>1, <1>1, DispatchHandles
    <3>2. /\ Passes(r) /\ events' = events + 1
          /\ pc' = IF lines' = <<>> THEN "read" ELSE "tell"
      BY <2>1 DEF Dispatch
    <3> HIDE DEF r, i
    <3> QED BY <3>1, <3>2, <1>2 DEF Handles, Follows
  <2>2. CASE Skip(r)
    <3>1. /\ UNCHANGED <<p1, ag, ar, used, wasgenBy, counter, lines, events, pc>>
          /\ ~Passes(r) \/ r.type \notin Handled
      BY <2>2 DEF Skip, lists
    <3>2. Known' = Known /\ KnownEdges' = KnownEdges
      BY <3>1 DEF Known, KnownEdges
    <3>3. ListsType'
      BY <3>1 DEF IInv, TypeOK, ListsType
    <3>4. lines' = <<>> /\ <<>> \in Seq(Lines) /\ Len(<<>>) = 0 /\ Mine \o <<>> = Mine
      BY <3>1, <1>2, <1>5, EmptySeq, ConcatEmptySeq
    <3>5. Passes(r) => Tells(r, i, Range(Mine) \cup dropped \cup Range(lines'))
      <4>1. r.type \notin Handled => r.type = "credfree"
        BY <1>4, RecordFields
      <4>2. r.type = "credfree" => Facts(r) = {}
        BY FactsOf
      <4> QED BY <4>1, <4>2, <3>1 DEF Tells
    <3> HIDE DEF r, i
    <3> QED BY <3>1, <3>2, <3>3, <3>4, <3>5, <1>1, <1>2, <1>7
  <2> QED BY <2>1, <2>2 DEF ReadRecord
<1>9. Told(i, Range(Mine) \cup dropped \cup Range(lines'))
        <=> Tells(r, i, Range(Mine) \cup dropped \cup Range(lines'))
  BY DEF Told, Tells
<1>10. TypeOK'
  <2>1. PlaceOK'
    <3>1. /\ rd' \in Nat /\ rd' <= Len(log) /\ pos' \in Nat /\ pos' <= Len(log)
          /\ whole' \in Nat /\ first <= whole' /\ whole' <= pos'
          /\ pc' \in {"off", "read", "tell"} /\ (tool = "provd" => rd' = pos')
          /\ (pc' = "read" => whole' = pos') /\ (pc' = "tell" => whole' + 1 = pos')
      BY <1>1, <1>2, <1>3, <1>8
    <3> QED BY <3>1, <1>1, <1>2 DEF PlaceOK
  <2>2. LinesType'
    BY <1>1, <1>2, <1>8 DEF LinesType
  <2> QED BY <2>1, <2>2, <1>1, <1>8 DEF IInv, TypeOK
<1>11. BootFirst'
  <2>1. pc' # "off" /\ pos' # first'
    BY <1>1, <1>2, <1>3, <1>8
  <2> QED BY <2>1, <1>1 DEF IInv, BootFirst
<1>12. RunSeen'
  BY <1>1, <1>5, <1>8 DEF RunSeen, Run
<1>13. EdgeAfterVertices' /\ NothingToldTwice'
  BY <1>1, SaidSame DEF IInv
<1>14. InHandTold'
  <2> SUFFICES ASSUME pc' = "tell" PROVE (Passes(log[pos]) /\ Told(pos, Range(Mine) \cup dropped \cup Range(lines)))'
    BY DEF InHandTold
  <2>1. Passes(r) /\ Told(i, Range(Mine) \cup dropped \cup Range(lines'))
    BY <1>8, <1>9
  <2> QED BY <2>1, <1>1, <1>5 DEF Passes, Told
<1>15. RunTellsItsRecords'
  <2> SUFFICES ASSUME NEW j \in (first' + 1)..whole', Passes(log[j])'
               PROVE Told(j, Range(Mine) \cup dropped)'
    BY DEF RunTellsItsRecords
  <2>1. Passes(log[j])
    BY <1>1 DEF Passes
  <2>2. Told(j, Range(Mine) \cup dropped)
    <3>1. CASE j = i
      <4>1. lines' = <<>>
        BY <3>1, <1>1, <1>2
      <4>2. Range(lines') = {}
        BY <4>1 DEF Range
      <4> QED BY <2>1, <3>1, <4>2, <1>8, <1>9
    <3>2. CASE j # i
      <4>1. j \in (first + 1)..whole
        BY <3>2, <1>1, <1>2
      <4> QED BY <2>1, <4>1 DEF IInv, RunTellsItsRecords
    <3> QED BY <3>1, <3>2
  <2> QED BY <2>2, <1>1, <1>5 DEF Told
<1>16. Owed' \subseteq Owed
  <2> SUFFICES ASSUME NEW j \in Owed' PROVE j \in Untold
    BY <1>1 DEF Owed
  <2>1. /\ j \in 1..rd' /\ ~Told(j, Range(pipe) \cup dropped)' /\ (pc' = "tell" => j # i)
    BY <1>1 DEF Owed, Untold
  <2>2. ~Told(j, Range(pipe) \cup dropped)
    BY <2>1, <1>1 DEF Told
  <2>3. CASE j \in 1..rd
    BY <2>2, <2>3 DEF Untold
  <2>4. CASE j \notin 1..rd
    <3>1. tool = "provd" /\ j = i
      BY <2>1, <2>4, <1>1, <1>2
    <3>2. lines' = <<>> /\ Passes(r)
      BY <2>1, <3>1, <1>8 DEF Passes
    <3>3. Range(lines') = {}
      BY <3>2 DEF Range
    <3>4. Told(i, Range(Mine) \cup dropped)
      BY <3>2, <3>3, <1>8, <1>9
    <3>5. Told(i, Range(pipe) \cup dropped)
      BY <3>4, <1>5 DEF Told
    <3> QED BY <2>2, <3>1, <3>5
  <2> QED BY <2>3, <2>4
<1>17. FewUntold'
  <2>1. faults' \in Nat /\ faults <= faults'
    BY <1>1 DEF IInv, TypeOK
  <2> QED BY <2>1, <1>16, OwedBound DEF IInv
<1> QED BY <1>10, <1>11, <1>12, <1>13, <1>14, <1>15, <1>17 DEF IInv

LEMMA EchoStep ==
  ASSUME IInv, Echo
  PROVE IInv'
<1> DEFINE l == Head(lines)
           all == Range(Mine) \cup dropped
<1>1. /\ pc = "tell" /\ lines' = Tail(lines)
      /\ pc' = IF lines' = <<>> THEN "read" ELSE "tell"
      /\ whole' = IF lines' = <<>> THEN pos ELSE whole
      /\ \/ pipe' = Append(pipe, l) /\ dropped' = dropped
         \/ pipe' = pipe /\ dropped' = dropped \cup {l}
      /\ faults' = faults \/ faults' = faults + 1
      /\ UNCHANGED <<log, rd, tool, pos, events, p1, ag, ar, used, wasgenBy, counter,
                     first, start, runs>>
  BY DEF Echo, Fault, lists
<1>2. /\ log \in Seq(Records) /\ Len(log) \in Nat /\ rd \in Nat /\ pos \in Nat /\ first \in Nat
      /\ rd <= Len(log) /\ pos <= Len(log) /\ first <= whole /\ whole + 1 = pos /\ whole \in Nat
      /\ tool \in {"provd", "cat"} /\ (tool = "provd" => rd = pos)
      /\ pipe \in Seq(Lines) /\ lines # <<>> /\ lines \in Seq(Lines) /\ dropped \subseteq Lines
      /\ start \in Nat /\ start <= Len(pipe) /\ Len(pipe) \in Nat /\ faults \in Nat
      /\ \A n \in 1..Len(lines) : lines[n].of = pos
  BY <1>1, LenProperties DEF IInv, TypeOK, PlaceOK, LinesType
<1>3. /\ l \in Lines /\ l = lines[1] /\ l.of = pos /\ Len(lines) \in Nat /\ Len(lines) > 0
      /\ Tail(lines) \in Seq(Lines) /\ Len(Tail(lines)) = Len(lines) - 1
      /\ \A n \in 1..Len(Tail(lines)) : Tail(lines)[n] = lines[n + 1]
  <2>1. /\ l \in Lines /\ Tail(lines) \in Seq(Lines) /\ Len(Tail(lines)) = Len(lines) - 1
        /\ \A n \in 1..Len(Tail(lines)) : Tail(lines)[n] = lines[n + 1]
    BY <1>2, HeadTailProperties
  <2>2. Len(lines) \in Nat /\ Len(lines) > 0 /\ l = lines[1]
    BY <1>2
  <2> QED BY <2>1, <2>2, <1>2
<1>4. Mine \in Seq(Lines) /\ Range(Mine) \subseteq Range(pipe)
  BY MineFacts DEF IInv
<1>5. Seen(Mine \o lines, Known, KnownEdges, dropped, first)
  BY <1>1 DEF IInv, RunSeen, Run
<1> HIDE DEF l
<1>6. TypeOK'
  <2>1. pipe' \in Seq(Lines) /\ dropped' \subseteq Lines /\ start <= Len(pipe')
    <3>1. Append(pipe, l) \in Seq(Lines) /\ Len(Append(pipe, l)) = Len(pipe) + 1
      BY <1>2, <1>3, AppendFacts
    <3>2. CASE pipe' = Append(pipe, l) /\ dropped' = dropped
      <4>1. Len(pipe') = Len(pipe) + 1
        BY <3>1, <3>2
      <4> QED BY <3>1, <3>2, <4>1, <1>2
    <3>3. CASE pipe' = pipe /\ dropped' = dropped \cup {l}
      BY <3>3, <1>2, <1>3
    <3> QED BY <3>2, <3>3, <1>1
  <2>2. \A n \in 1..Len(lines') : lines'[n].of = pos
    <3>1. \A n \in 1..Len(Tail(lines)) : n + 1 \in 1..Len(lines)
      BY <1>3
    <3> QED BY <3>1, <1>1, <1>2, <1>3
  <2>3. LinesType'
    BY <2>1, <2>2, <1>1, <1>2, <1>3 DEF LinesType
  <2>4. PlaceOK'
    <3>1. /\ whole' \in Nat /\ first <= whole' /\ whole' <= pos
          /\ (pc' = "read" => whole' = pos) /\ (pc' = "tell" => whole' + 1 = pos)
          /\ pc' \in {"off", "read", "tell"}
      BY <1>1, <1>2
    <3> QED BY <3>1, <1>1, <1>2 DEF PlaceOK
  <2>5. ListsType'
    BY <1>1 DEF IInv, TypeOK, ListsType
  <2>6. events' \in Nat /\ runs' \in Nat /\ faults' \in Nat
    BY <1>1, <1>2 DEF IInv, TypeOK
  <2> QED BY <2>3, <2>4, <2>5, <2>6 DEF TypeOK
<1>7. BootFirst'
  BY <1>1 DEF IInv, BootFirst
<1>8. /\ Mine' = Append(Mine, l) \/ (Mine' = Mine /\ l \in dropped')
      /\ Mine' \in Seq(Lines)
      /\ Seen(Mine' \o lines', Known, KnownEdges, dropped', first)
  <2>1. CASE pipe' = Append(pipe, l) /\ dropped' = dropped
    <3>1. Mine' = Append(Mine, l)
      <4>1. SubSeq(Append(pipe, l), start + 1, Len(Append(pipe, l)))
              = Append(SubSeq(pipe, start + 1, Len(pipe)), l)
        BY <1>2, <1>3, SuffixGrows
      <4>2. pipe' = Append(pipe, l) /\ start' = start
        BY <2>1, <1>1
      <4> QED BY <4>1, <4>2 DEF Mine
    <3>2. Mine \o lines = Append(Mine, l) \o Tail(lines)
      BY <1>2, <1>4, ConsFacts DEF l
    <3>3. Append(Mine, l) \in Seq(Lines)
      BY <1>3, <1>4, AppendFacts
    <3>4. Mine' \o lines' = Mine \o lines
      BY <3>1, <3>2, <1>1
    <3>5. Seen(Mine' \o lines', Known, KnownEdges, dropped', first)
      BY <2>1, <3>4, <1>5
    <3>6. Mine' \in Seq(Lines)
      BY <3>1, <3>3
    <3> QED BY <3>1, <3>5, <3>6
  <2>2. CASE pipe' = pipe /\ dropped' = dropped \cup {l}
    <3>1. Mine' = Mine
      BY <2>2, <1>1 DEF Mine
    <3>2. l.of > first
      BY <1>2, <1>3
    <3>3. Seen(Mine \o Tail(lines), Known, KnownEdges, dropped \cup {l}, first)
      BY <3>2, <1>2, <1>4, <1>5, DropHead DEF l
    <3> QED BY <2>2, <3>1, <3>3, <1>1, <1>4
  <2> QED BY <2>1, <2>2, <1>1
<1>9. RunSeen'
  <2>1. Known' = Known /\ KnownEdges' = KnownEdges
    BY <1>1 DEF Known, KnownEdges
  <2> QED BY <2>1, <1>1, <1>8 DEF RunSeen, Run
<1>10. /\ \A n \in 1..Len(Mine') : Mine'[n].op = "edge" =>
            \A id \in {Mine'[n].from, Mine'[n].to} : Announced(Mine', id, n - 1, dropped', first)
       /\ \A m, n \in 1..Len(Mine') :
            Mine'[m].op = "vertex" /\ Mine'[n].op = "vertex" /\ Mine'[m].id = Mine'[n].id => m = n
       /\ \A m, n \in 1..Len(Mine') :
            Mine'[m].op = "edge" /\ Mine'[n].op = "edge" /\ Mine'[m].rel \in Once
              /\ Said(Mine'[m]) = Said(Mine'[n]) => m = n
       /\ DOMAIN Mine' = 1..Len(Mine')
  <2> DEFINE M == Mine'
             ls == lines'
  <2>1. M \in Seq(Lines) /\ ls \in Seq(Lines)
    BY <1>1, <1>3, <1>8
  <2>2. Seen(M \o ls, Known, KnownEdges, dropped', first)
    BY <1>8
  <2>3. DOMAIN M = 1..Len(M)
    BY <2>1, LenProperties
  <2> HIDE DEF M, ls
  <2>4. /\ \A n \in 1..Len(M) : M[n].op = "edge" =>
             \A id \in {M[n].from, M[n].to} : Announced(M, id, n - 1, dropped', first)
        /\ \A m, n \in 1..Len(M) :
             M[m].op = "vertex" /\ M[n].op = "vertex" /\ M[m].id = M[n].id => m = n
        /\ \A m, n \in 1..Len(M) :
             M[m].op = "edge" /\ M[n].op = "edge" /\ M[m].rel \in Once
               /\ Said(M[m]) = Said(M[n]) => m = n
    BY <2>1, <2>2, SeenSaid
  <2> QED BY <2>3, <2>4 DEF M
<1>11. EdgeAfterVertices'
  BY <1>1, <1>10 DEF EdgeAfterVertices, Announced
<1>12. NothingToldTwice'
  BY <1>10 DEF NothingToldTwice, Once
<1>13. /\ all \subseteq Range(Mine') \cup dropped'
       /\ l \in Range(Mine') \cup dropped'
       /\ Range(lines) \subseteq {l} \cup Range(lines')
       /\ Range(pipe) \cup dropped \subseteq Range(pipe') \cup dropped'
       /\ Range(Mine') \subseteq Range(pipe')
  <2>1. /\ Range(Append(Mine, l)) = Range(Mine) \cup {l}
        /\ Range(Append(pipe, l)) = Range(pipe) \cup {l}
    <3>1. \A s \in Seq(Lines) : Range(Append(s, l)) = Range(s) \cup {l}
      <4> TAKE s \in Seq(Lines)
      <4> DEFINE one == <<l>>
      <4>1. s \o one = Append(s, l)
        BY <1>3, AppendFacts
      <4>2. one \in Seq(Lines) /\ Range(one) = {l}
        BY <1>3 DEF Range
      <4> HIDE DEF one
      <4>3. Range(s \o one) = Range(s) \cup Range(one)
        BY <4>2, RangeFacts
      <4> QED BY <4>1, <4>2, <4>3
    <3> QED BY <3>1, <1>2, <1>4
  <2>2. Range(lines) \subseteq {l} \cup Range(lines')
    <3> SUFFICES ASSUME NEW x \in Range(lines), x # l PROVE x \in Range(lines')
      OBVIOUS
    <3>1. PICK n \in 1..Len(lines) : x = lines[n]
      BY <1>2, RangeFacts
    <3>2. n # 1
      BY <3>1, <1>3
    <3>3. n - 1 \in 1..Len(Tail(lines)) /\ (n - 1) + 1 = n
      BY <3>2, <1>3
    <3>4. Tail(lines)[n - 1] = lines[n]
      BY <3>3, <1>3
    <3>5. Tail(lines)[n - 1] \in Range(Tail(lines))
      BY <3>3, <1>3, RangeFacts
    <3> QED BY <3>1, <3>4, <3>5, <1>1
  <2>3. Range(Mine') \subseteq Range(pipe')
    <3>1. Range(Mine)' \subseteq Range(pipe)'
      BY <1>6, SuffixFacts DEF TypeOK, LinesType, Mine
    <3> QED BY <3>1
  <2> QED BY <2>1, <2>2, <2>3, <1>1, <1>8
<1>14. Passes(log[pos]) /\ Told(pos, Range(Mine') \cup dropped' \cup Range(lines'))
  <2>1. Passes(log[pos]) /\ Told(pos, Range(Mine) \cup dropped \cup Range(lines))
    BY <1>1 DEF IInv, InHandTold
  <2>2. Range(Mine) \cup dropped \cup Range(lines)
          \subseteq Range(Mine') \cup dropped' \cup Range(lines')
    BY <1>13
  <2> QED BY <2>1, <2>2 DEF Told
<1>15. InHandTold'
  <2>1. Passes(log[pos])' /\ Told(pos, Range(Mine) \cup dropped \cup Range(lines))'
    BY <1>14, <1>1 DEF Passes, Told
  <2> QED BY <2>1 DEF InHandTold
<1>16. lines' = <<>> => Told(pos, Range(Mine') \cup dropped')
  <2>1. lines' = <<>> => Range(lines') = {}
    BY DEF Range
  <2> QED BY <2>1, <1>14
<1>17. RunTellsItsRecords'
  <2> SUFFICES ASSUME NEW j \in (first' + 1)..whole', Passes(log[j])'
               PROVE Told(j, Range(Mine) \cup dropped)'
    BY DEF RunTellsItsRecords
  <2>1. Passes(log[j])
    BY <1>1 DEF Passes
  <2>2. Told(j, Range(Mine') \cup dropped')
    <3>1. CASE j \in (first + 1)..whole
      <4>1. Told(j, Range(Mine) \cup dropped)
        BY <2>1, <3>1 DEF IInv, RunTellsItsRecords
      <4> QED BY <4>1, <1>13 DEF Told
    <3>2. CASE j \notin (first + 1)..whole
      <4>1. lines' = <<>> /\ j = pos
        BY <3>2, <1>1, <1>2
      <4> QED BY <4>1, <1>16
    <3> QED BY <3>1, <3>2
  <2> QED BY <2>2, <1>1 DEF Told
<1>18. Owed' \subseteq Owed
  <2> SUFFICES ASSUME NEW j \in Owed' PROVE j \in Untold /\ j # pos
    BY <1>1 DEF Owed
  <2>1. /\ j \in 1..rd /\ ~Told(j, Range(pipe') \cup dropped') /\ (pc' = "tell" => j # pos)
    BY <1>1 DEF Owed, Untold, Told
  <2>2. ~Told(j, Range(pipe) \cup dropped)
    BY <2>1, <1>13 DEF Told
  <2>3. j # pos
    <3> SUFFICES ASSUME j = pos PROVE FALSE
      OBVIOUS
    <3>1. lines' = <<>>
      BY <2>1, <1>1
    <3>2. Told(pos, Range(Mine') \cup dropped')
      BY <3>1, <1>16
    <3> QED BY <2>1, <3>2, <1>13 DEF Told
  <2> QED BY <2>1, <2>2, <2>3 DEF Untold
<1>19. FewUntold'
  <2>1. faults' \in Nat /\ faults <= faults'
    BY <1>1, <1>2
  <2> QED BY <2>1, <1>18, OwedBound DEF IInv
<1> QED BY <1>6, <1>7, <1>9, <1>11, <1>12, <1>15, <1>17, <1>19 DEF IInv

LEMMA StutterStep ==
  ASSUME IInv, UNCHANGED vars
  PROVE IInv'
<1>1. UNCHANGED <<log, rd, pc, tool, pos, events, p1, ag, ar, used, wasgenBy, counter, lines,
                  pipe, dropped, first, whole, start, runs, faults>>
  BY DEF vars, lists, ghosts, bounds
<1>2. /\ Mine' = Mine /\ Run' = Run /\ Known' = Known /\ KnownEdges' = KnownEdges
  BY <1>1 DEF Mine, Run, Known, KnownEdges
<1>3. TypeOK'
  BY <1>1 DEF IInv, TypeOK, PlaceOK, LinesType, ListsType
<1>4. BootFirst' /\ RunSeen'
  BY <1>1, <1>2 DEF IInv, BootFirst, RunSeen
<1>5. EdgeAfterVertices' /\ NothingToldTwice'
  BY <1>1, SaidSame DEF IInv
<1>6. InHandTold' /\ RunTellsItsRecords'
  BY <1>1, <1>2 DEF IInv, InHandTold, RunTellsItsRecords, Passes, Told
<1>7. Untold' = Untold
  BY <1>1 DEF Untold, Told
<1>8. FewUntold'
  BY <1>1, <1>7 DEF IInv, FewUntold, Owed
<1> QED BY <1>3, <1>4, <1>5, <1>6, <1>8 DEF IInv

-----------------------------------------------------------------------------
(* The theorems *)

\* The invariant that the properties follow from.
THEOREM Inductive == Spec => []IInv
<1>1. Init => IInv
  BY InitIInv
<1>2. IInv /\ [Next]_vars => IInv'
  <2> SUFFICES ASSUME IInv, [Next]_vars PROVE IInv'
    OBVIOUS
  <2>1. CASE \E r \in Records : Emit(r)
    BY <2>1, EmitStep
  <2>2. CASE Kill
    BY <2>2, KillStep
  <2>3. CASE StartProvd \/ StartCat
    BY <2>3, BeginStep
  <2>4. CASE ReadRecord
    BY <2>4, ReadStep
  <2>5. CASE ReadFails
    BY <2>5, ReadFailsStep
  <2>6. CASE Echo
    BY <2>6, EchoStep
  <2>7. CASE Finish
    BY <2>7, FinishStep
  <2>8. CASE UNCHANGED vars
    BY <2>8, StutterStep
  <2> QED BY <2>1, <2>2, <2>3, <2>4, <2>5, <2>6, <2>7, <2>8 DEF Next
<1> QED BY <1>1, <1>2, PTL DEF Spec

\* The lists, the lines and the places in the log keep their types, and a run is never
\* more than one record ahead of what it has told (main() and system() in turn).
THEOREM TypeCorrect == Spec => []TypeOK
<1>1. IInv => TypeOK
  BY DEF IInv
<1> QED BY <1>1, Inductive, PTL

\* SPADE hears of both ends of an edge before the edge, from the same run, unless the
\* vertex's own line was lost.
THEOREM VerticesFirst == Spec => []EdgeAfterVertices
<1>1. IInv => EdgeAfterVertices
  BY DEF IInv
<1> QED BY <1>1, Inductive, PTL

\* Within a run no vertex is announced twice, and no Used or WasGeneratedBy edge.
THEOREM ListsSuffice == Spec => []NothingToldTwice
<1>1. IInv => NothingToldTwice
  BY DEF IInv
<1> QED BY <1>1, Inductive, PTL

\* What a run has read and shown to a handler it has told, be it by an earlier edge.
THEOREM ListsHideNothing == Spec => []RunTellsItsRecords
<1>1. IInv => RunTellsItsRecords
  BY DEF IInv
<1> QED BY <1>1, Inductive, PTL

\* A kill or a failed call costs one record, whatever the runs and the faults.
THEOREM OneFaultOneRecord == Spec => []FaultLosesOneRecord
<1>1. IInv => FaultLosesOneRecord
  <2> SUFFICES ASSUME IInv PROVE FaultLosesOneRecord
    OBVIOUS
  <2>1. rd \in Nat /\ faults \in Nat
    BY DEF IInv, TypeOK, PlaceOK
  <2>2. IsFiniteSet(Untold)
    <3>1. IsFiniteSet(1..rd) /\ Untold \subseteq 1..rd
      BY <2>1, FS_Interval DEF Untold
    <3> QED BY <3>1, FS_Subset
  <2>3. Cardinality(Owed) <= faults
    BY DEF IInv, FewUntold
  <2>4. CASE pc = "tell"
    <3>1. Cardinality(Untold \ {pos}) <= faults
      BY <2>3, <2>4 DEF Owed
    <3>2. /\ Cardinality(Untold) \in Nat
          /\ Cardinality(Untold \ {pos})
               = IF pos \in Untold THEN Cardinality(Untold) - 1 ELSE Cardinality(Untold)
      BY <2>2, FS_RemoveElement, FS_CardinalityType
    <3>3. Cardinality(Untold) <= faults + 1
      BY <2>1, <3>1, <3>2
    <3> QED BY <2>4, <3>3 DEF FaultLosesOneRecord, Untold
  <2>5. CASE pc # "tell"
    <3>1. Cardinality(Untold) <= faults
      BY <2>3, <2>5 DEF Owed
    <3>2. Cardinality(Untold) <= faults + 0
      BY <2>1, <2>2, <3>1, FS_CardinalityType
    <3> QED BY <2>5, <3>2 DEF FaultLosesOneRecord, Untold
  <2> QED BY <2>4, <2>5
<1> QED BY <1>1, Inductive, PTL
=============================================================================
