------------------------------ MODULE Fixbang ------------------------------
(***************************************************************************)
(* system/fixbang.c: repairs a log of pbang in which the lengths of the    *)
(* link records are wrong, in place.  It finds the end of a link's name by *)
(* four zero bytes in a row, the credential 0 in the header that follows.  *)
(*                                                                         *)
(* A cell of file is a byte; the bodies of the records are cut short, and  *)
(* a byte counts up to Base.                                               *)
(***************************************************************************)
EXTENDS Naturals, Sequences, SequencesExt

CONSTANTS
  Base,        \* values of a byte
  BangLogs,    \* logs: sequences of [type, name, len], len being what the header says
  MaxFixes     \* bound: runs of fixbang

VARIABLES
  given,       \* the log before the first run
  meant,       \* the log with the right lengths
  file,        \* the log
  ofs,         \* where the record in hand begins
  pos,         \* ftell()
  zeros,       \* rv: zero bytes read in a row
  fixing,      \* where main() is
  fixes        \* runs begun

fixVars == <<given, meant, file, ofs, pos, zeros, fixing, fixes>>

Header  == 8
TypeOf(type) == IF type = "link" THEN 3 ELSE 2

\* sizeof: an inode is one byte here, and a link has its directory too.
SizeOf(type) == Header + (IF type = "link" THEN 2 ELSE 1)

\* The log is pbang's but for the lengths of the links.
ASSUME FixAssumption ==
  /\ Base \in Nat /\ Base > 3 /\ MaxFixes \in Nat
  /\ BangLogs \subseteq Seq([type : {"inode_alloc", "link"}, name : Seq(1..(Base - 1)), len : Nat])
  /\ \A log \in BangLogs : \A i \in DOMAIN log :
       log[i].type = "inode_alloc" => log[i].len = SizeOf(log[i].type) + Len(log[i].name)

\* len_lo and len_hi, of three bytes together.
LenBytes(n) == <<n % Base, (n \div Base) % Base, (n \div Base) \div Base>>
msg_getlen(f, o) == f[o + 1] + Base * f[o + 2] + Base * Base * f[o + 3]
msg_initlen(f, o, n) == [i \in DOMAIN f |-> IF i \in (o + 1)..(o + 3) THEN LenBytes(n)[i - o] ELSE f[i]]

\* A record of pbang: length, type, credential 0, inode 1, directory 0, name.
Bytes(r, n) ==
  LenBytes(n) \o <<TypeOf(r.type), 0, 0, 0, 0, 1>>
              \o (IF r.type = "link" THEN <<0>> ELSE <<>>) \o r.name

Image(log, length(_)) == FlattenSeq([i \in DOMAIN log |-> Bytes(log[i], length(log[i]))])

FixInit(log) ==
  /\ given = Image(log, LAMBDA r : r.len)
  /\ meant = Image(log, LAMBDA r : SizeOf(r.type) + Len(r.name))
  /\ file = given
  /\ ofs = 0 /\ pos = 0 /\ zeros = 0 /\ fixing = "off" /\ fixes = 0

\* fopen "r+".
Open ==
  /\ fixing = "off" /\ fixes < MaxFixes
  /\ fixing' = "header" /\ fixes' = fixes + 1
  /\ ofs' = 0 /\ pos' = 0 /\ zeros' = 0
  /\ UNCHANGED <<given, meant, file>>

MoreHeaders == ofs + Header <= Len(file)

\* A record that is not a link is passed over by its length.
Pass ==
  /\ fixing = "header" /\ MoreHeaders
  /\ file[ofs + 4] # TypeOf("link")
  /\ ofs' = ofs + msg_getlen(file, ofs)
  /\ UNCHANGED <<given, meant, file, pos, zeros, fixing, fixes>>

SeekName ==
  /\ fixing = "header" /\ MoreHeaders
  /\ file[ofs + 4] = TypeOf("link")
  /\ pos' = ofs + SizeOf("link") /\ zeros' = 0
  /\ fixing' = "scan"
  /\ UNCHANGED <<given, meant, file, ofs, fixes>>

\* Mutant: zero bytes are counted wherever they are.
ScanAnyZeros ==
  /\ fixing = "scan" /\ zeros < 4 /\ pos < Len(file)
  /\ pos' = pos + 1
  /\ zeros' = IF file[pos + 1] = 0 THEN zeros + 1 ELSE zeros
  /\ UNCHANGED <<given, meant, file, ofs, fixing, fixes>>

Scan ==
  /\ fixing = "scan" /\ zeros < 4 /\ pos < Len(file)
  /\ pos' = pos + 1
  /\ zeros' = IF file[pos + 1] = 0 THEN zeros + 1 ELSE 0
  /\ UNCHANGED <<given, meant, file, ofs, fixing, fixes>>

\* The next header has been read, or the end of the file been met.
Store ==
  /\ fixing = "scan" /\ (zeros = 4 \/ pos = Len(file))
  /\ LET length == IF zeros = 4 THEN pos - Header - ofs ELSE pos - ofs
     IN file' = msg_initlen(file, ofs, length) /\ ofs' = ofs + length
  /\ fixing' = "header"
  /\ UNCHANGED <<given, meant, pos, zeros, fixes>>

\* The end of the file.
Close ==
  /\ fixing = "header" /\ ~MoreHeaders
  /\ fixing' = "done"
  /\ UNCHANGED <<given, meant, file, ofs, pos, zeros, fixes>>

\* The process is killed; it may be run again.
KillFix ==
  /\ fixing \in {"header", "scan"}
  /\ fixing' = "off"
  /\ UNCHANGED <<given, meant, file, ofs, pos, zeros, fixes>>

FixNext == Open \/ Pass \/ SeekName \/ Scan \/ Store \/ Close \/ KillFix

-----------------------------------------------------------------------------
(* Properties *)

\* fixbang.c: whatever the links' lengths said, and wherever a run was killed before,
\* all lengths up to the record in hand are right, no other byte of the log is ever
\* changed, and the program ends with the log that pbang meant.
LogRepaired ==
  /\ Len(file) = Len(meant) /\ ofs <= Len(file)
  /\ \A i \in DOMAIN file : file[i] = meant[i] \/ (i > ofs /\ file[i] = given[i])
  /\ fixing = "done" => file = meant
=============================================================================
