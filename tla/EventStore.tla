----------------------------- MODULE EventStore -----------------------------
(***************************************************************************)
(* What a provenance daemon with a transactional back end promises.        *)
(* The kernel emits numbered records.  Each record is settled exactly      *)
(* once, in emission order and in whole batches: a batch is either stored  *)
(* completely or lost completely, and what is stored stays stored.         *)
(* PgProvd (reporters/pg_provd) is shown to implement this specification.  *)
(***************************************************************************)
EXTENDS Naturals

VARIABLES
  emitted,   \* number of records the kernel has put into the relay
  settled,   \* records 1..settled have their final fate
  stored     \* the records among 1..settled that are in the store

esVars == <<emitted, settled, stored>>

ESInit ==
  /\ emitted = 0
  /\ settled = 0
  /\ stored = {}

\* The kernel appends one record.
ESEmit ==
  /\ emitted' = emitted + 1
  /\ UNCHANGED <<settled, stored>>

\* A batch of records next in line becomes visible at once.
StoreBatch(n) ==
  /\ n \in settled..emitted
  /\ settled' = n
  /\ stored' = stored \cup ((settled + 1)..n)
  /\ UNCHANGED emitted

\* A batch next in line is lost as a whole.
LoseBatch(n) ==
  /\ n \in settled..emitted
  /\ settled' = n
  /\ UNCHANGED <<emitted, stored>>

ESNext ==
  \/ ESEmit
  \/ \E n \in settled..emitted : StoreBatch(n) \/ LoseBatch(n)

ESSpec == ESInit /\ [][ESNext]_esVars
=============================================================================
