---------------------------- MODULE BitvecProofs ----------------------------
(* Proofs about the bit vector, for every size it may begin with and every bit: what pbang *)
(* and elijah rely on is that a vector is a set of numbers, to which bitvec_set adds one   *)
(* and from which bitvec_clear takes one.                                                  *)
EXTENDS Bitvec, TLAPS, NaturalsInduction, WellFoundedInduction

-----------------------------------------------------------------------------
(* The bit vector *)

\* A bit is found again by its byte and its place in the byte.
LEMMA BitIsPlace ==
  ASSUME NEW i \in Nat, NEW j \in Nat
  PROVE  /\ Byte(i) \in Nat /\ Subbit(i) \in 0..7
         /\ (Byte(i) = Byte(j) /\ Subbit(i) = Subbit(j)) <=> i = j
<1>1. /\ i = 8 * (i \div 8) + (i % 8) /\ i \div 8 \in Nat /\ i % 8 \in 0..7
      /\ j = 8 * (j \div 8) + (j % 8)
  OBVIOUS
<1> QED
  BY <1>1 DEF Byte, Subbit

-----------------------------------------------------------------------------
(* bitvec_expand: NewSize's recursion defines a function, although it does not end for *)
(* a size of 0, and what it returns for any other size holds the byte.                 *)

Doubling(S) == S \subseteq Nat /\ \A m \in S : 2 * m \in S
\* n, 2n, 4n, ...
Orbit(n) == {m \in Nat : \A S \in SUBSET Nat : n \in S /\ Doubling(S) => m \in S}

\* One step of bitvec_expand's loop.
Grows(g, byte) == g = [n \in Nat |-> IF byte >= n THEN g[2 * n] ELSE n]

LEMMA OrbitFacts ==
  ASSUME NEW n \in Nat
  PROVE /\ n \in Orbit(n) /\ Orbit(n) \subseteq Nat
        /\ \A m \in Orbit(n) : m >= n
        /\ Orbit(n) = {n} \cup Orbit(2 * n)
<1>1. n \in Orbit(n) /\ Orbit(n) \subseteq Nat
  BY DEF Orbit
<1>2. ASSUME NEW m \in Orbit(n) PROVE m >= n
  <2> DEFINE U == {k \in Nat : k >= n}
  <2>1. U \in SUBSET Nat /\ n \in U /\ Doubling(U)
    BY DEF Doubling
  <2>2. m \in U
    BY <2>1 DEF Orbit
  <2> QED BY <2>2
<1>3. Orbit(n) \subseteq {n} \cup Orbit(2 * n)
  <2> DEFINE V == {n} \cup Orbit(2 * n)
  <2>1. 2 * n \in Nat /\ 2 * n \in Orbit(2 * n)
    BY DEF Orbit
  <2>2. Doubling(V)
    <3>1. ASSUME NEW m \in Orbit(2 * n) PROVE 2 * m \in Orbit(2 * n)
      <4>1. m \in Nat /\ 2 * m \in Nat
        BY DEF Orbit
      <4>2. ASSUME NEW S \in SUBSET Nat, 2 * n \in S, Doubling(S) PROVE 2 * m \in S
        <5>1. m \in S
          BY <4>2 DEF Orbit
        <5> QED BY <5>1, <4>2 DEF Doubling
      <4> QED BY <4>1, <4>2 DEF Orbit
    <3>2. V \subseteq Nat
      BY DEF Orbit
    <3>3. ASSUME NEW m \in V PROVE 2 * m \in V
      BY <2>1, <3>1, <3>3
    <3> HIDE DEF V
    <3> QED BY <3>2, <3>3 DEF Doubling
  <2>3. V \in SUBSET Nat /\ n \in V
    BY DEF Orbit
  <2>4. ASSUME NEW m \in Orbit(n) PROVE m \in V
    <3> HIDE DEF V
    <3> QED BY <2>2, <2>3 DEF Orbit
  <2> QED BY <2>4
<1>4. Orbit(2 * n) \subseteq Orbit(n)
  <2>1. ASSUME NEW S \in SUBSET Nat, n \in S, Doubling(S) PROVE 2 * n \in S
    BY <2>1 DEF Doubling
  <2> QED BY <2>1 DEF Orbit
<1> QED BY <1>1, <1>2, <1>3, <1>4

\* There is a function that the recursion of NewSize defines, whatever 0 maps to.
LEMMA GrowsExists ==
  ASSUME NEW byte \in Nat
  PROVE \E g : Grows(g, byte)
<1> DEFINE Beyond(n) == {m \in Orbit(n) : m > byte}
           Least(S) == CHOOSE m \in S : \A k \in S : m <= k
           g == [n \in Nat |-> Least(Beyond(n))]
<1>1. ASSUME NEW n \in Nat PROVE g[n] = IF byte >= n THEN g[2 * n] ELSE n
  <2>1. CASE byte >= n
    <3>1. Beyond(n) = Beyond(2 * n) /\ 2 * n \in Nat
      BY <2>1, OrbitFacts
    <3> HIDE DEF Beyond, Least
    <3> QED BY <2>1, <3>1
  <2>2. CASE ~(byte >= n)
    <3>1. n \in Beyond(n) /\ \A k \in Beyond(n) : n <= k /\ k \in Nat
      BY <2>2, OrbitFacts
    <3> HIDE DEF Beyond
    <3>2. \A m \in Beyond(n) : (\A k \in Beyond(n) : m <= k) => m = n
      BY <3>1
    <3>3. Least(Beyond(n)) = n
      BY <3>1, <3>2
    <3> HIDE DEF Least
    <3> QED BY <2>2, <3>3
  <2> QED BY <2>1, <2>2
<1>2. g = [n \in Nat |-> IF byte >= n THEN g[2 * n] ELSE n]
  <2>1. g = [n \in Nat |-> g[n]]
    OBVIOUS
  <2> HIDE DEF g
  <2> QED BY <1>1, <2>1
<1> HIDE DEF g
<1> QED BY <1>2 DEF Grows

LEMMA NewSizeGrows ==
  ASSUME NEW byte \in Nat
  PROVE Grows(NewSize(byte), byte)
<1>1. NewSize(byte) = CHOOSE g : Grows(g, byte)
  BY DEF NewSize, Grows
<1> QED BY <1>1, GrowsExists

\* Each nonempty set of numbers has a least.
LEMMA LeastNumber ==
  ASSUME NEW T, T \subseteq Nat, T # {}
  PROVE  \E x \in T : \A y \in T : x <= y
<1>1. PICK x \in T : \A y \in T : ~ (<<y, x>> \in OpToRel(<, Nat))
  BY NatLessThanWellFounded, WFMin
<1>2. ASSUME NEW y \in T PROVE x <= y
  <2>1. x \in Nat /\ y \in Nat
    OBVIOUS
  <2>2. ~ (y < x)
    BY <2>1, <1>1 DEF OpToRel
  <2> QED BY <2>1, <2>2
<1> QED BY <1>2

\* The loop ends with a size that holds the byte, and is left alone if it did.
LEMMA NewSizeHolds ==
  ASSUME NEW byte \in Nat, NEW size \in Nat \ {0}
  PROVE /\ NewSize(byte)[size] \in Nat /\ NewSize(byte)[size] > byte
        /\ NewSize(byte)[size] >= size
<1> DEFINE g == NewSize(byte)
           Good(n) == g[n] \in Nat /\ g[n] > byte /\ g[n] >= n
           Short == {d \in Nat : \E n \in Nat \ {0} : n <= byte /\ d = byte - n /\ ~Good(n)}
<1>1. \A n \in Nat : g[n] = IF byte >= n THEN g[2 * n] ELSE n
  <2>1. g = [n \in Nat |-> IF byte >= n THEN g[2 * n] ELSE n]
    BY NewSizeGrows DEF Grows
  <2> HIDE DEF g
  <2>2. \A n \in Nat : [k \in Nat |-> IF byte >= k THEN g[2 * k] ELSE k][n]
                        = IF byte >= n THEN g[2 * n] ELSE n
    OBVIOUS
  <2> QED BY <2>1, <2>2
<1> HIDE DEF g
<1>2. \A n \in Nat : n > byte => Good(n)
  BY <1>1
<1>3. Short = {}
  <2> SUFFICES ASSUME Short # {} PROVE FALSE
    OBVIOUS
  <2>1. Short \subseteq Nat
    OBVIOUS
  <2> HIDE DEF Short
  <2>2. PICK d \in Short : \A e \in Short : d <= e
    BY <2>1, LeastNumber
  <2> USE DEF Short
  <2>3. PICK n \in Nat \ {0} : n <= byte /\ d = byte - n /\ ~Good(n)
    BY <2>2
  <2>4. 2 * n \in Nat \ {0} /\ g[n] = g[2 * n]
    BY <2>3, <1>1
  <2>5. Good(2 * n)
    <3>1. CASE 2 * n > byte
      BY <3>1, <2>4, <1>2
    <3>2. CASE 2 * n <= byte
      <4> DEFINE e == byte - 2 * n
      <4>1. e \in Nat /\ ~(d <= e) /\ e = byte - 2 * n
        BY <3>2, <2>3
      <4> HIDE DEF Short, e, Good
      <4>2. e \notin Short
        BY <4>1, <2>2
      <4> QED BY <4>1, <4>2, <2>4, <3>2 DEF Short
    <3> QED BY <3>1, <3>2, <2>4
  <2> QED BY <2>3, <2>4, <2>5
<1>4. Good(size)
  <2>1. CASE size > byte
    BY <2>1, <1>2
  <2>2. CASE size <= byte
    <3> DEFINE e == byte - size
    <3>1. e \in Nat /\ e = byte - size
      BY <2>2
    <3> HIDE DEF e, Good, Short
    <3>2. e \notin Short
      BY <1>3
    <3> QED BY <3>1, <3>2, <2>2 DEF Short
  <2> QED BY <2>1, <2>2
<1> QED BY <1>4 DEF g

-----------------------------------------------------------------------------
(* Setting and clearing bits *)

Vector(b) == b = [array |-> b.array, size |-> b.size] /\ b.size \in Nat /\ b.array \in Array(b.size)

\* bitvec_set within the array.
LEMMA SetWithin ==
  ASSUME NEW b, Vector(b), NEW i \in Nat, NEW j \in Nat, Byte(i) < b.size
  PROVE  /\ Vector(bitvec_set(b, i)) /\ bitvec_set(b, i).size = b.size
         /\ bitvec_test(bitvec_set(b, i), j) <=> (j = i \/ bitvec_test(b, j))
<1> DEFINE s == bitvec_set(b, i)
<1>1. s = [array |-> [b.array EXCEPT ![Byte(i)] = @ \cup {Subbit(i)}], size |-> b.size]
  BY BitIsPlace DEF bitvec_set, Vector
<1>2. Byte(i) \in 0..(b.size - 1) /\ Subbit(i) \in 0..7 /\ Byte(j) \in Nat
  BY BitIsPlace DEF Vector
<1>3. s.size = b.size /\ s.array = [b.array EXCEPT ![Byte(i)] = @ \cup {Subbit(i)}]
  BY <1>1
<1>4. s.array \in Array(s.size)
  BY <1>2, <1>3 DEF Array, Vector
<1>5. Vector(s)
  BY <1>1, <1>3, <1>4 DEF Vector
<1>6. ASSUME Byte(j) < b.size
      PROVE  Subbit(j) \in s.array[Byte(j)] <=> (j = i \/ Subbit(j) \in b.array[Byte(j)])
  <2>1. Byte(j) \in 0..(b.size - 1) /\ b.array \in [0..(b.size - 1) -> SUBSET (0..7)]
    BY <1>2, <1>6 DEF Vector, Array
  <2>2. CASE Byte(j) = Byte(i)
    <3>1. s.array[Byte(j)] = b.array[Byte(j)] \cup {Subbit(i)}
      BY <2>1, <2>2, <1>3
    <3>2. Subbit(j) = Subbit(i) <=> j = i
      BY <2>2, BitIsPlace
    <3> QED
      BY <3>1, <3>2
  <2>3. CASE Byte(j) # Byte(i)
    BY <2>1, <2>3, <1>2, <1>3, BitIsPlace
  <2> QED
    BY <2>2, <2>3
<1>7. bitvec_test(s, j) <=> (j = i \/ bitvec_test(b, j))
  BY <1>3, <1>6 DEF bitvec_test
<1> QED
  BY <1>3, <1>5, <1>7

\* bitvec_expand keeps the bits, and the byte is within the array.
LEMMA ExpandKeepsBits ==
  ASSUME NEW b, Vector(b), b.size > 0, NEW byte \in Nat
  PROVE  /\ Vector(bitvec_expand(b, byte))
         /\ bitvec_expand(b, byte).size > byte /\ bitvec_expand(b, byte).size >= b.size
         /\ \A j \in Nat : bitvec_test(bitvec_expand(b, byte), j) <=> bitvec_test(b, j)
<1> DEFINE e == bitvec_expand(b, byte)
           n == NewSize(byte)[b.size]
<1>1. b.size \in Nat \ {0} /\ b.array \in [0..(b.size - 1) -> SUBSET (0..7)]
  BY DEF Vector, Array
<1>2. n \in Nat /\ n > byte /\ n >= b.size
  BY <1>1, NewSizeHolds
<1>3. e = [array |-> [k \in 0..(n - 1) |-> IF k < b.size THEN b.array[k] ELSE {}], size |-> n]
  BY DEF bitvec_expand
<1> HIDE DEF n, e
<1>4. e.size = n /\ e.array = [k \in 0..(n - 1) |-> IF k < b.size THEN b.array[k] ELSE {}]
  BY <1>3
<1>5. e.array \in [0..(n - 1) -> SUBSET (0..7)]
  <2>1. ASSUME NEW k \in 0..(n - 1)
        PROVE (IF k < b.size THEN b.array[k] ELSE {}) \in SUBSET (0..7)
    <3>1. CASE k < b.size
      <4>1. k \in 0..(b.size - 1)
        BY <3>1, <1>1, <1>2
      <4> QED BY <3>1, <4>1, <1>1
    <3>2. CASE ~(k < b.size)
      BY <3>2
    <3> QED BY <3>1, <3>2
  <2> QED BY <2>1, <1>4, Zenon
<1>6. Vector(e)
  BY <1>2, <1>3, <1>4, <1>5 DEF Vector, Array
<1>7. ASSUME NEW j \in Nat PROVE bitvec_test(e, j) <=> bitvec_test(b, j)
  <2>1. Byte(j) \in Nat
    BY BitIsPlace
  <2>2. CASE Byte(j) < b.size
    <3>1. Byte(j) < n /\ Byte(j) \in 0..(n - 1)
      BY <2>1, <2>2, <1>1, <1>2
    <3>2. e.array[Byte(j)] = b.array[Byte(j)]
      BY <2>2, <3>1, <1>4
    <3> QED BY <2>2, <3>1, <3>2, <1>4 DEF bitvec_test
  <2>3. CASE ~(Byte(j) < b.size)
    <3>1. Byte(j) < n => e.array[Byte(j)] = {}
      BY <2>1, <2>3, <1>2, <1>4
    <3> QED BY <2>3, <3>1, <1>4 DEF bitvec_test
  <2> QED BY <2>2, <2>3
<1> QED BY <1>2, <1>4, <1>6, <1>7 DEF e

\* bitvec_set, which expands the array for a bit beyond its end: the set the vector stands
\* for gains that bit and no other.
THEOREM SetAddsOneBit ==
  ASSUME NEW b, Vector(b), b.size > 0, NEW i \in Nat, NEW j \in Nat
  PROVE  /\ Vector(bitvec_set(b, i)) /\ bitvec_set(b, i).size > 0
         /\ bitvec_test(bitvec_set(b, i), j) <=> (j = i \/ bitvec_test(b, j))
<1> DEFINE g == IF Byte(i) >= b.size THEN bitvec_expand(b, Byte(i)) ELSE b
<1>1. Byte(i) \in Nat /\ b.size \in Nat
  BY BitIsPlace DEF Vector
<1>2. /\ Vector(g) /\ g.size > Byte(i) /\ g.size > 0 /\ g.size \in Nat
      /\ bitvec_test(g, j) <=> bitvec_test(b, j)
  <2>1. CASE Byte(i) >= b.size
    <3>1. /\ Vector(g) /\ g.size > Byte(i)
          /\ \A k \in Nat : bitvec_test(g, k) <=> bitvec_test(b, k)
      BY <2>1, <1>1, ExpandKeepsBits
    <3> HIDE DEF g
    <3>2. g.size \in Nat
      BY <3>1 DEF Vector
    <3> QED BY <3>1, <3>2, <1>1
  <2>2. CASE ~(Byte(i) >= b.size)
    BY <2>2, <1>1
  <2> QED BY <2>1, <2>2
<1>3. bitvec_set(b, i) = [g EXCEPT !.array[Byte(i)] = @ \cup {Subbit(i)}]
  BY DEF bitvec_set
<1> HIDE DEF g
<1>4. ~(Byte(i) >= g.size)
  BY <1>1, <1>2
<1>5. bitvec_set(b, i) = bitvec_set(g, i)
  <2>1. (IF Byte(i) >= g.size THEN bitvec_expand(g, Byte(i)) ELSE g) = g
    BY <1>4
  <2>2. bitvec_set(g, i) = [g EXCEPT !.array[Byte(i)] = @ \cup {Subbit(i)}]
    BY <2>1 DEF bitvec_set
  <2> QED BY <1>3, <2>2
<1>6. /\ Vector(bitvec_set(g, i)) /\ bitvec_set(g, i).size = g.size
      /\ bitvec_test(bitvec_set(g, i), j) <=> (j = i \/ bitvec_test(g, j))
  BY <1>1, <1>2, SetWithin
<1> QED BY <1>2, <1>5, <1>6

\* bitvec_clear: the set loses that bit and no other.
THEOREM ClearRemovesOneBit ==
  ASSUME NEW b, Vector(b), NEW i \in Nat, NEW j \in Nat
  PROVE  /\ Vector(bitvec_clear(b, i))
         /\ bitvec_test(bitvec_clear(b, i), j) <=> (j # i /\ bitvec_test(b, j))
<1> DEFINE c == bitvec_clear(b, i)
<1>0. Byte(i) \in Nat /\ Subbit(i) \in 0..7 /\ Byte(j) \in Nat /\ b.size \in Nat
  BY BitIsPlace DEF Vector
<1>1. CASE Byte(i) >= b.size
  <2>1. c = b
    BY <1>1 DEF bitvec_clear
  <2>2. j = i => ~bitvec_test(b, j)
    BY <1>0, <1>1 DEF bitvec_test
  <2> QED
    BY <2>1, <2>2
<1>2. CASE Byte(i) < b.size
  <2>1. c = [array |-> [b.array EXCEPT ![Byte(i)] = @ \ {Subbit(i)}], size |-> b.size]
    BY <1>0, <1>2 DEF bitvec_clear, Vector
  <2>2. c.size = b.size /\ c.array = [b.array EXCEPT ![Byte(i)] = @ \ {Subbit(i)}]
    BY <2>1
  <2>3. c.array \in Array(c.size)
    BY <1>0, <1>2, <2>2 DEF Array, Vector
  <2>4. Vector(c)
    BY <2>1, <2>2, <2>3 DEF Vector
  <2>5. ASSUME Byte(j) < b.size
        PROVE  Subbit(j) \in c.array[Byte(j)] <=> (j # i /\ Subbit(j) \in b.array[Byte(j)])
    <3>1. Byte(j) \in 0..(b.size - 1) /\ b.array \in [0..(b.size - 1) -> SUBSET (0..7)]
      BY <1>0, <2>5 DEF Vector, Array
    <3>2. CASE Byte(j) = Byte(i)
      <4>1. c.array[Byte(j)] = b.array[Byte(j)] \ {Subbit(i)}
        BY <3>1, <3>2, <2>2
      <4>2. Subbit(j) = Subbit(i) <=> j = i
        BY <3>2, BitIsPlace
      <4> QED
        BY <4>1, <4>2
    <3>3. CASE Byte(j) # Byte(i)
      BY <3>1, <3>3, <1>0, <2>2, BitIsPlace
    <3> QED
      BY <3>2, <3>3
  <2>6. bitvec_test(c, j) <=> (j # i /\ bitvec_test(b, j))
    BY <2>2, <2>5 DEF bitvec_test
  <2> QED
    BY <2>4, <2>6
<1> QED
  BY <1>0, <1>1, <1>2

\* Clear or not, what malloc returns is a vector: of the numbers below its size, it holds
\* those whose bits are one.
LEMMA InitVector ==
  ASSUME NEW ones
  PROVE  /\ Vector(bitvec_init(ones)) /\ bitvec_init(ones).size > 0
         /\ \A i \in Nat : bitvec_test(bitvec_init(ones), i) <=> Byte(i) < DefaultSize /\ i \in ones
<1> DEFINE b == bitvec_init(ones)
<1>1. /\ b = [array |-> b.array, size |-> b.size] /\ b.size = DefaultSize
      /\ b.array = [n \in 0..(DefaultSize - 1) |-> {s \in 0..7 : 8 * n + s \in ones}]
  BY DEF bitvec_init
<1> HIDE DEF b
<1>2. b.array \in Array(b.size)
  <2>1. \A n \in 0..(DefaultSize - 1) : {s \in 0..7 : 8 * n + s \in ones} \in SUBSET (0..7)
    OBVIOUS
  <2> QED BY <2>1, <1>1, Zenon DEF Array
<1>3. Vector(b) /\ b.size > 0
  BY <1>1, <1>2, DefaultSizeAssumption DEF Vector
<1>4. ASSUME NEW i \in Nat PROVE bitvec_test(b, i) <=> Byte(i) < DefaultSize /\ i \in ones
  <2>1. i = 8 * Byte(i) + Subbit(i) /\ Byte(i) \in Nat /\ Subbit(i) \in 0..7
    BY DEF Byte, Subbit
  <2>2. CASE Byte(i) < DefaultSize
    <3>1. Byte(i) \in 0..(DefaultSize - 1)
      BY <2>1, <2>2, DefaultSizeAssumption
    <3>2. b.array[Byte(i)] = {s \in 0..7 : 8 * Byte(i) + s \in ones}
      BY <3>1, <1>1
    <3> QED BY <2>1, <2>2, <3>2, <1>1 DEF bitvec_test
  <2>3. CASE ~(Byte(i) < DefaultSize)
    BY <2>3, <1>1 DEF bitvec_test
  <2> QED BY <2>2, <2>3
<1> QED BY <1>3, <1>4 DEF b

\* The set a vector stands for.
LEMMA OnesAreBits ==
  ASSUME NEW b, Vector(b)
  PROVE  Ones(b) \subseteq Nat /\ \A i \in Nat : i \in Ones(b) <=> bitvec_test(b, i)
<1>1. b.size \in Nat
  BY DEF Vector
<1>2. ASSUME NEW i \in Nat, bitvec_test(b, i) PROVE i \in 0..(8 * b.size - 1)
  <2>1. i \div 8 < b.size
    BY <1>2 DEF bitvec_test, Byte
  <2> QED BY <2>1, <1>1
<1> QED BY <1>1, <1>2 DEF Ones
=============================================================================
