------------------------------- MODULE Bitvec -------------------------------
(***************************************************************************)
(* system/bitvec.h: a bit vector that grows.  A byte of the array is the   *)
(* set of its bits that are one.                                           *)
(***************************************************************************)
EXTENDS Integers

CONSTANT DefaultSize  \* BITVEC_DEFAULT_SIZE, bytes

ASSUME DefaultSizeAssumption == DefaultSize \in Nat \ {0}

Byte(bit)   == bit \div 8
Subbit(bit) == bit % 8

Array(size) == [0..(size - 1) -> SUBSET (0..7)]

\* What malloc returns is not cleared: ones are the bits found set.
bitvec_init(ones) ==
  [array |-> [n \in 0..(DefaultSize - 1) |-> {s \in 0..7 : 8 * n + s \in ones}],
   size  |-> DefaultSize]

bitvec_test(b, bit) ==
  /\ Byte(bit) < b.size
  /\ Subbit(bit) \in b.array[Byte(bit)]

\* The size doubles until it exceeds byte.
NewSize(byte) ==
  LET grow[n \in Nat] == IF byte >= n THEN grow[2 * n] ELSE n IN grow

bitvec_expand(b, byte) ==
  LET newsize == NewSize(byte)[b.size]
  IN [array |-> [n \in 0..(newsize - 1) |-> IF n < b.size THEN b.array[n] ELSE {}],
      size  |-> newsize]

\* Mutant: the bit replaces the byte.
SetAlone(b, bit) ==
  LET grown == IF Byte(bit) >= b.size THEN bitvec_expand(b, Byte(bit)) ELSE b
  IN [grown EXCEPT !.array[Byte(bit)] = {Subbit(bit)}]

bitvec_set(b, bit) ==
  LET grown == IF Byte(bit) >= b.size THEN bitvec_expand(b, Byte(bit)) ELSE b
  IN [grown EXCEPT !.array[Byte(bit)] = @ \cup {Subbit(bit)}]

bitvec_clear(b, bit) ==
  IF Byte(bit) >= b.size THEN b
  ELSE [b EXCEPT !.array[Byte(bit)] = @ \ {Subbit(bit)}]

\* The set a vector stands for.
Ones(b) == {i \in 0..(8 * b.size - 1) : bitvec_test(b, i)}
=============================================================================
