------------------------------ MODULE LogTools ------------------------------
(***************************************************************************)
(* The programs that read a log from a file, each on its own: the readers  *)
(* of LogReaders; the conversion of one text, as their handlers call it;   *)
(* fixbang, which makes the log readable first; and dbindex.               *)
(***************************************************************************)
EXTENDS LogReaders, Labels, Fixbang, DbIndex

vars == <<readerVars, labelVars, fixVars, dbVars>>

\* A file's name comes without a 0 at its end.
AnyConversion ==
  \E text \in Texts, n \in Argcs :
    \/ \E c \in {"label", "array"} : LabelInit(c, text, n)
    \/ n = 0 /\ LabelInit("utf8", Front(text), n)

\* What is not at work does nothing.
ReadersIdle  == hist = <<>> /\ alive = {} /\ alive0 = {} /\ NeoInit /\ LiveInit({})
LabelsIdle   == LabelInit("utf8", <<>>, 0)
FixbangIdle  == FixInit(<<>>)
DbIndexIdle  == DbInit(NoFile)

Init ==
  \/ ReadersInit /\ LabelsIdle /\ FixbangIdle /\ DbIndexIdle
  \/ ReadersIdle /\ AnyConversion /\ FixbangIdle /\ DbIndexIdle
  \/ ReadersIdle /\ LabelsIdle /\ (\E log \in BangLogs : FixInit(log)) /\ DbIndexIdle
  \/ ReadersIdle /\ LabelsIdle /\ FixbangIdle /\ \E f \in Dbs : DbInit(f)

Reading    == cstring = <<>> /\ given = <<>> /\ db = NoFile
Converting == cstring # <<>>
Fixing     == given # <<>>
Indexing   == db # NoFile

Next ==
  \/ Reading /\ ReadersNext /\ UNCHANGED <<labelVars, fixVars, dbVars>>
  \/ Converting /\ LabelNext /\ UNCHANGED <<readerVars, fixVars, dbVars>>
  \/ Fixing /\ FixNext /\ UNCHANGED <<readerVars, labelVars, dbVars>>
  \/ Indexing /\ DbNext /\ UNCHANGED <<readerVars, labelVars, fixVars>>

Spec == Init /\ [][Next]_vars
=============================================================================
