------------------------------ MODULE DbIndex ------------------------------
(***************************************************************************)
(* system/dbindex.c: makes the secondary index of a Berkeley DB file of    *)
(* records, from their credentials to the records.  The library walks the  *)
(* file and writes the index through a cache.                              *)
(***************************************************************************)
EXTENDS Integers, Functions

CONSTANTS
  Dbs,           \* files: functions from keys to the records' credentials
  MaxIndexings,  \* bound: runs of dbindex
  MaxDbFaults    \* bound: failing calls and kills

ASSUME DbAssumption == MaxIndexings \in Nat /\ MaxDbFaults \in Nat

VARIABLES
  db,            \* the file
  indexing,      \* where main() is
  dbi,           \* the index in the cache: from credentials to a key
  disk,          \* the index as a file, or NoFile
  walked,        \* keys the walk has been to
  rv,            \* what main() returns
  torn,          \* history: the index has been closed with an error
  indexings, dbFaults

dbVars == <<db, indexing, dbi, disk, walked, rv, torn, indexings, dbFaults>>

NoEntry == [c \in {} |-> 0]
NoFile  == [c \in {-1} |-> 0]

DbInit(f) ==
  /\ db = f /\ indexing = "off" /\ dbi = NoEntry /\ disk = NoFile /\ walked = {}
  /\ rv = 0 /\ torn = FALSE /\ indexings = 0 /\ dbFaults = 0

DbFault == dbFaults < MaxDbFaults /\ dbFaults' = dbFaults + 1

Ended(result) == indexing' = "off" /\ rv' = result

\* Both names, and the handle of the file; errors go to out_free.
OpenDb ==
  /\ indexing = "off" /\ indexings < MaxIndexings
  /\ indexings' = indexings + 1
  /\ \/ indexing' = "index" /\ UNCHANGED <<rv, dbFaults>>
     \/ DbFault /\ Ended(1)
  /\ UNCHANGED <<db, dbi, disk, walked, torn>>

\* Mutant: without DB_EXCL an index that is there is opened, and DB->associate walks
\* the file for an empty one only.
OpenAnyIndex ==
  /\ indexing = "index"
  /\ dbi' = IF disk = NoFile THEN NoEntry ELSE disk
  /\ disk' = dbi'
  /\ walked' = IF dbi' = NoEntry THEN {} ELSE DOMAIN db
  /\ indexing' = "walk"
  /\ UNCHANGED <<db, rv, torn, indexings, dbFaults>>

\* DB_CREATE | DB_EXCL: an index that is there already is an error.
OpenIndex ==
  /\ indexing = "index"
  /\ \/ /\ disk = NoFile
        /\ indexing' = "walk" /\ dbi' = NoEntry /\ disk' = NoEntry /\ walked' = {}
        /\ UNCHANGED <<rv, dbFaults>>
     \/ disk # NoFile /\ Ended(1) /\ UNCHANGED <<dbi, disk, walked, dbFaults>>
     \/ DbFault /\ Ended(1) /\ UNCHANGED <<dbi, disk, walked>>
  /\ UNCHANGED <<db, torn, indexings>>

\* The walk of DB->associate, with get_cred_id for each record; the cache may reach the
\* file at any moment.  The index is not set up for duplicates: whether a credential's
\* next record takes the place of the one before or ends the walk is left open.
get_cred_id(k) == db[k]

Associate(k) ==
  /\ indexing = "walk" /\ k \in DOMAIN db \ walked
  /\ walked' = walked \cup {k}
  /\ dbi' = [c \in DOMAIN dbi \cup {get_cred_id(k)} |->
               IF c = get_cred_id(k) THEN k ELSE dbi[c]]
  /\ disk' \in {disk, dbi'}
  /\ UNCHANGED <<db, indexing, rv, torn, indexings, dbFaults>>

AssociateEnds ==
  /\ indexing = "walk"
  /\ indexing' = "close"
  /\ \/ walked = DOMAIN db /\ rv' = 0 /\ UNCHANGED dbFaults
     \/ /\ \E k \in DOMAIN db \ walked : get_cred_id(k) \in DOMAIN dbi
        /\ rv' = 1 /\ UNCHANGED dbFaults
     \/ DbFault /\ rv' = 1
  /\ UNCHANGED <<db, dbi, disk, walked, torn, indexings>>

\* The result of dbi->close, which writes the cache out, is not looked at.
CloseIndex ==
  /\ indexing = "close"
  /\ \/ disk' = dbi /\ UNCHANGED <<torn, dbFaults>>
     \/ DbFault /\ torn' = TRUE /\ UNCHANGED disk
  /\ Ended(rv)
  /\ UNCHANGED <<db, dbi, walked, indexings>>

KillIndex ==
  /\ indexing # "off" /\ DbFault
  /\ Ended(1)
  /\ UNCHANGED <<db, dbi, disk, walked, torn, indexings>>

DbNext ==
  \/ OpenDb \/ OpenIndex \/ (\E k \in DOMAIN db : Associate(k)) \/ AssociateEnds
  \/ CloseIndex \/ KillIndex

-----------------------------------------------------------------------------
(* Properties *)

\* dbindex.c: exit status 0 means that the index leads from every credential of the
\* file to a record of that credential, whatever an earlier run has left behind when
\* it was killed; the one exception is a failing close, which no status tells.  And an
\* index is told from a whole one by that status only: it may be there after a run that
\* failed, with entries that are right but not all.
IndexWhole ==
  /\ disk # NoFile => \A c \in DOMAIN disk : disk[c] \in DOMAIN db /\ db[disk[c]] = c
  /\ indexings > 0 /\ indexing = "off" /\ rv = 0 /\ ~torn => DOMAIN disk = Range(db)
=============================================================================
