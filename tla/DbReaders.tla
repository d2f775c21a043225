----------------------------- MODULE DbReaders -----------------------------
(***************************************************************************)
(* The programs that read pg_provd's database: pickle_links and then       *)
(* pg_query, as reporters/pg_provd/README tells, or neo-tool.  A behaviour *)
(* has either a file system that changes while pickle_links runs and a     *)
(* database in which every file was touched; or no directory entries and   *)
(* a database to crawl; or one that grows while neo-tool copies it.        *)
(***************************************************************************)
EXTENDS PgQuery, NeoTool, PickleLinks

CONSTANTS
  Databases,    \* tool -> the databases it starts with
  Accesses,     \* rows of file_p that pg_provd commits later
  MaxRows       \* bound: rows in a database that grows

ASSUME DatabaseAssumption ==
  /\ DOMAIN Databases = {"pickle_links", "pg_query", "neo-tool"}
  /\ \A t \in DOMAIN Databases : \A d \in Databases[t] :
       d \in Seq(JoinedRow) /\ \E n \in DOMAIN d : d[n].event_type = "file_p"
  /\ Accesses \subseteq JoinedRow

VARIABLE tool

readerVars == <<tool, db, linkVars, pgVars, toolVars>>

ReaderInit ==
  /\ tool \in DOMAIN Databases
  /\ db \in Databases[tool]
  /\ PgInit /\ ToolInit
  /\ IF tool = "pickle_links" THEN LinkInit
     ELSE /\ tree = {} /\ events = <<>> /\ lstep = "done"
          /\ max_eventid = 0 /\ max_unlink = 0
          /\ link_rows = {} /\ unlink_rows = {} /\ dentry_map = <<>>

\* config.py opens dentries.pkl when pg_query is started.
Import_pkl ==
  /\ tool # "neo-tool" /\ qstep = "import" /\ lstep \in {"done", "failed"}
  /\ qstep' = IF lstep = "done" THEN "begin" ELSE "dead"
  /\ UNCHANGED <<mode, target, iter, starts, scanned_creds, new_creds, threads, queue, results,
                 stuck, scanned_inodes, graph, begun, lost>>
  /\ UNCHANGED <<tool, db, linkVars, toolVars>>

LinkStep == LinkNext /\ UNCHANGED <<tool, db, pgVars, toolVars>>

\* pg_query's main process on its own, and with its workers.
MainStep ==
  /\ qstep \notin {"import", "done", "dead", "hung"}
  /\ \/ BeginQuery \/ (\E c \in starts : ScanStart(c)) \/ (\E c \in new_creds : Submit(c))
     \/ Collect \/ TimeOut \/ EndScan \/ Finish(Hanging)
  /\ UNCHANGED <<tool, db, linkVars, toolVars>>

QueryStep == PgNext(Hanging) /\ UNCHANGED <<tool, db, linkVars, toolVars>>

ToolStep == tool = "neo-tool" /\ ToolNext /\ UNCHANGED <<tool, db, linkVars, pgVars>>

\* pg_provd commits another row.
Commit ==
  /\ tool = "neo-tool" /\ Len(db) < MaxRows
  /\ \E row \in Accesses : db' = Append(db, row)
  /\ UNCHANGED <<tool, linkVars, pgVars, toolVars>>

ReaderNext == LinkStep \/ Import_pkl \/ QueryStep \/ ToolStep \/ Commit

ReaderSpec == ReaderInit /\ [][ReaderNext]_readerVars /\ WF_readerVars(MainStep)

-----------------------------------------------------------------------------
(* pickle_links *)

Visible == {n \in link_rows : n < max_eventid}
LinksOf(i) == {n \in Visible : events[n].inode = i}

\* pickle_links.py: removed names stay, whatever the order of links, renames and
\* removals: the map has for each inode the last link with a number below the
\* largest.  If an import was committed between two of the SELECTs, links are taken
\* for removals and inodes are missing; what is there is still the last link.
EntriesAreLastLinks ==
  lstep = "done" =>
    /\ \A i \in DOMAIN dentry_map :
         /\ LinksOf(i) # {}
         /\ LET n == Largest(LinksOf(i))
            IN dentry_map[i] = [inode_dir |-> events[n].dir, fname |-> events[n].fname]
    /\ {n \in unlink_rows : n < max_eventid /\ events[n].type = "link"} \subseteq link_rows =>
         DOMAIN dentry_map = {events[n].inode : n \in Visible}

\* dot_handlers.py, label_inodes: as long as no record of the file system was lost
\* with a transaction of pg_provd and no link came from an import, which tells of
\* the past with numbers of the present, the last links form no cycle, and every
\* label gets an end, although directories move and inode numbers are used again.
LabelsEnd ==
  lstep = "done" /\ With("lost") = 0 /\ (\A n \in Visible : ~events[n].imported) =>
    \A i \in {Root} \cup Dirs \cup Files : ~label_inodes_hangs(i)

-----------------------------------------------------------------------------
(* pg_query *)

TasksDone == DOMAIN results
Uncollected == lost \cup {threads[k] : k \in DOMAIN threads}

WroteFor(i) == {c \in {db[n].provid : n \in DOMAIN db} :
                  \E r \in FilePs(c) : r.inode = i /\ r.mask \in CrawlMasks}

\* pg_query.py: processes with lists of scanned inodes of their own never make the
\* crawl pass over a writer: whoever wrote a file that was read by a credential
\* scanned is scanned, waits to be, or is in a result that was
\* not collected.  In a benchmark the workers' lists are from all iterations.
NothingForgotten ==
  iter <= 1 =>
    LET scanned == begun \cup {t[2] : t \in TasksDone}
        found   == UNION {results[t] : t \in Uncollected \cap TasksDone}
    IN qstep # "hung" => \A c \in scanned : \A i \in FilesRead(c) :
         WroteFor(i) \subseteq starts \cup scanned_creds \cup new_creds \cup found

\* pg_query.py: what is written out are the edges of the start credentials, those
\* of every earlier iteration with them, and nothing of what the workers found.
GraphTellsStarts ==
  qstep \in {"query", "done"} =>
    /\ \A c \in begun : \E label \in AgentLabels(c) : Facts(c, label) \subseteq out_to_dot
    /\ out_to_dot \subseteq UNION {Facts(c, label) : c \in begun, label \in
                                      UNION {AgentLabels(d) : d \in begun}}

\* pg_query.py: the main process comes to an end whatever its workers do, since it
\* waits for a result for a limited time; but for forks and entries that go round.
Cyclic == \/ \E c \in {db[n].provid : n \in DOMAIN db} : MayHang(c)
          \/ Hanging # {}

CrawlEnds == (qstep = "begin" /\ ~Cyclic) ~> (qstep \in {"done", "dead"})

-----------------------------------------------------------------------------
(* neo-tool *)

ScansOf(c) == IF c \in DOMAIN scans THEN scans[c] ELSE 0

\* query_handlers_postgres.py, get_files: an activity that used and generated one
\* version makes a cycle of two; there is none but at version 0, where the loop
\* stops, unless a credential is scanned again after the database has grown, when
\* the relation of the earlier scan is still there.
CyclesOnlyAtZero ==
  \A e \in neo_edges :
    e.rel = "Used" /\ Relation(e.to, "WasGeneratedBy", e.from) \in neo_edges =>
      e.to[3] = 0 \/ (ScansOf(e.from[2]) > 1 /\ Len(db) > len1)

Scannable == {c \in {db[n].provid : n \in DOMAIN db} : Execs(c) # {}}

\* What a credential's rows say in the end, with agents us.
Says(c, us) ==
  LET written == {<<r.inode, r.version>> : r \in {x \in FilePs(c) : x.mask \in {{"WRITE"}, {"APPEND"}}}}
      below(r) == {v \in 0..r.version : v = 0 \/ <<r.inode, v>> \notin written}
      used == {<<r.inode, Largest(below(r))>> : r \in {x \in FilePs(c) : x.mask = {"READ"}}}
      act == Activity(c)
  IN {Relation(Activity(d), "WasForkedFrom", act) : d \in get_credforks(c)}
       \cup {Relation(act, "WasAssociatedWith", AgentNode(u)) : u \in us}
       \cup {Relation(act, "Used", FileVersion(i[1], i[2])) : i \in used}
       \cup {Relation(FileVersion(o[1], o[2]), "WasGeneratedBy", act) : o \in written}
       \cup DerivedFrom(written, used)

\* neo-tool.py: however often it was killed, died in get_setids or ran for one file
\* only, a run over all credentials that ends leaves the whole graph of a database
\* that did not change meanwhile; and no run leaves anything else if the database
\* never changed.
RerunRepairs ==
  /\ ends = "complete" /\ option[1] = "all" /\ Len(db) = len0 =>
       \A c \in Scannable : \E u \in get_setids(c) : Says(c, {u}) \subseteq neo_edges
  /\ Len(db) = len1 => neo_edges \subseteq UNION {Says(c, get_setids(c)) : c \in Scannable}
=============================================================================
