---------------------------- MODULE PickleLinks ----------------------------
(***************************************************************************)
(* pickle_links: the directory entries, replayed from the tables of links  *)
(* and unlinks while pg_provd and an import by pg_cat go on writing them.  *)
(* Its four SELECTs see what is committed when each of them runs.  Here is *)
(* also the tree of a file system that the records are about.              *)
(***************************************************************************)
EXTENDS Integers, Sequences, FiniteSets, SequencesExt

CONSTANTS
  Root,         \* the root directory's inode
  Dirs, Files,  \* the other inodes
  Names,
  Tree0,        \* the entries <<dir, name, inode>> when the log begins
  MaxEvents,    \* bounds: records in all,
  MaxLost,      \*   records that pg_provd reads and rolls back,
  MaxImports    \*   records drawn by the import

ASSUME LinksAssumption ==
  /\ Root \notin Dirs \cup Files /\ Dirs \cap Files = {}
  /\ {Root} \cup Dirs \cup Files \subseteq Nat
  /\ MaxEvents \in Nat /\ MaxLost \in Nat /\ MaxImports \in Nat

\* The log begins with a tree: a directory has one entry, and none is in itself.
ASSUME TreeAssumption ==
  /\ IsFiniteSet(Tree0) /\ Tree0 \subseteq ({Root} \cup Dirs) \X Names \X (Dirs \cup Files)
  /\ \A s, t \in Tree0 : s[3] = t[3] /\ s[3] \in Dirs => s = t
  /\ \A t \in Tree0 : t[1] = Root \/ \E s \in Tree0 : s[3] = t[1]
  /\ \A S \in SUBSET Dirs : S # {} => \E t \in Tree0 : t[3] \in S /\ t[1] \notin S

VARIABLES
  tree,         \* the entries there are
  events,       \* the n-th event number drawn: the record, and who has it
  lstep,        \* where pickle_links is
  max_eventid, max_unlink, link_rows, unlink_rows,   \* what its SELECTs gave
  dentry_map    \* dentries.pkl: inode -> [inode_dir, fname]

linkVars == <<tree, events, lstep, max_eventid, max_unlink, link_rows, unlink_rows, dentry_map>>

\* status: "in" the tables, "lost" with its transaction, or "open" in the import's;
\* imported stays when the import is committed.
Link(entry, status)   == [type |-> "link", dir |-> entry[1], fname |-> entry[2],
                          inode |-> entry[3], status |-> status, imported |-> status = "open"]
Unlink(entry, status) == [Link(entry, status) EXCEPT !.type = "unlink"]

NoParent == -1
RootLink == <<NoParent, "root_inode", Root>>

Orders == {s \in [1..Cardinality(Tree0) -> Tree0] : \A t \in Tree0 : \E n \in DOMAIN s : s[n] = t}

\* Begins with the links of the tree there is.
LinkInit ==
  /\ tree = Tree0
  /\ \E s \in Orders :
       events = <<Link(RootLink, "in")>> \o [n \in 1..Cardinality(Tree0) |-> Link(s[n], "in")]
  /\ lstep = "off" /\ max_eventid = 0 /\ max_unlink = 0
  /\ link_rows = {} /\ unlink_rows = {} /\ dentry_map = <<>>

-----------------------------------------------------------------------------
(* The file system *)

With(status) == Cardinality({n \in DOMAIN events : events[n].status = status})
Statuses(k)  == {"in"} \cup (IF With("lost") + k <= MaxLost THEN {"lost"} ELSE {})

Live      == {Root} \cup {t[3] : t \in tree}
IsFree(d, name) == \A t \in tree : <<t[1], t[2]>> # <<d, name>>

\* On the way from d up to the root is no i.
NotAbove(i, d) ==
  \E way \in SUBSET Live :
    d \in way /\ i \notin way /\ \A t \in tree : t[3] \in way => t[1] \in way

\* create, mkdir and link.
MakeEntry(d, name, i) ==
  /\ d \in Live \ Files /\ IsFree(d, name)
  /\ i \in Files \/ i \notin Live
  /\ tree' = tree \cup {<<d, name, i>>}
  /\ \E s \in Statuses(1) : events' = Append(events, Link(<<d, name, i>>, s))

\* unlink and rmdir.
RemoveEntry(t) ==
  /\ t \in tree /\ \A s \in tree : s[1] # t[3]
  /\ tree' = tree \ {t}
  /\ \E s \in Statuses(1) : events' = Append(events, Unlink(t, s))

\* rename: the new entry, then the removal of the old one.
Rename(t, d, name) ==
  /\ t \in tree /\ d \in Live \ Files /\ IsFree(d, name)
  /\ NotAbove(t[3], d)
  /\ tree' = (tree \ {t}) \cup {<<d, name, t[3]>>}
  /\ \E s1 \in Statuses(1), s2 \in Statuses(1) :
       /\ <<s1, s2>> = <<"lost", "lost">> => With("lost") + 2 <= MaxLost
       /\ events' = events \o <<Link(<<d, name, t[3]>>, s1), Unlink(t, s2)>>

\* pg_cat imports the links prov-bang found, in one transaction.
Import(t) ==
  /\ t \in Tree0 /\ With("open") < MaxImports
  /\ events' = Append(events, Link(t, "open")) /\ UNCHANGED tree

CommitImport ==
  /\ With("open") > 0
  /\ events' = [n \in DOMAIN events |->
                  IF events[n].status = "open" THEN [events[n] EXCEPT !.status = "in"]
                  ELSE events[n]]
  /\ UNCHANGED tree

LinkWorld ==
  /\ \/ /\ Len(events) < MaxEvents
        /\ \/ \E d \in {Root} \cup Dirs, name \in Names, i \in Dirs \cup Files : MakeEntry(d, name, i)
           \/ \E t \in tree : RemoveEntry(t)
           \/ \E t \in tree, d \in {Root} \cup Dirs, name \in Names : Rename(t, d, name)
           \/ \E t \in Tree0 : Import(t)
     \/ CommitImport
  /\ UNCHANGED <<lstep, max_eventid, max_unlink, link_rows, unlink_rows, dentry_map>>

-----------------------------------------------------------------------------
(* pickle_links *)

InTable(type) == {n \in DOMAIN events : events[n].status = "in" /\ events[n].type = type}
Largest(S) == CHOOSE n \in S : \A k \in S : k <= n
Later(a, b) == IF b > a THEN b ELSE a

PickleFails == lstep' = "failed" /\ UNCHANGED <<max_eventid, max_unlink, link_rows, unlink_rows>>

\* int(None) of an empty table is a TypeError.
MaxLink ==
  /\ lstep = "off"
  /\ IF InTable("link") = {} THEN PickleFails
     ELSE /\ lstep' = "max_link" /\ max_eventid' = Largest(InTable("link"))
          /\ UNCHANGED <<max_unlink, link_rows, unlink_rows>>
  /\ UNCHANGED <<tree, events, dentry_map>>

MaxUnlink ==
  /\ lstep = "max_link"
  /\ IF InTable("unlink") = {} THEN PickleFails
     ELSE /\ lstep' = "max_unlink" /\ max_unlink' = Largest(InTable("unlink"))
          /\ max_eventid' = Later(max_eventid, max_unlink')
          /\ UNCHANGED <<link_rows, unlink_rows>>
  /\ UNCHANGED <<tree, events, dentry_map>>

SelectLinks ==
  /\ lstep = "max_unlink"
  /\ lstep' = "links" /\ link_rows' = InTable("link")
  /\ UNCHANGED <<tree, events, max_eventid, max_unlink, unlink_rows, dentry_map>>

\* Mutant: the table is unlink.
SelectFromUnlink ==
  /\ lstep = "links"
  /\ lstep' = "unlinks" /\ unlink_rows' = InTable("unlink")
  /\ UNCHANGED <<tree, events, max_eventid, max_unlink, link_rows, dentry_map>>

\* The statement for the unlinks reads the table link once more.
SelectUnlinks ==
  /\ lstep = "links"
  /\ lstep' = "unlinks" /\ unlink_rows' = InTable("link")
  /\ UNCHANGED <<tree, events, max_eventid, max_unlink, link_rows, dentry_map>>

\* The replay's state: dentry_map; id2cm as the inodes under <<dir, fname>>; and
\* whether a KeyError has ended it.
Known2cm == {events[n].dir : n \in link_rows}

\* Mutant: the entry is written down for the directory.
ReplayLinkSwapped(r, e) ==
  [r EXCEPT !.dentries = [i \in DOMAIN r.dentries \cup {e.dir} |->
                            IF i = e.dir THEN [inode_dir |-> e.inode, fname |-> e.fname]
                            ELSE r.dentries[i]]]

ReplayLink(r, e) ==
  LET key == <<e.dir, e.fname>>
      old == IF key \in DOMAIN r.id2cm THEN r.id2cm[key] ELSE <<>>
  IN [r EXCEPT !.dentries = [i \in DOMAIN r.dentries \cup {e.inode} |->
                               IF i = e.inode THEN [inode_dir |-> e.dir, fname |-> e.fname]
                               ELSE r.dentries[i]],
               !.id2cm = [k \in DOMAIN r.id2cm \cup {key} |->
                            IF k = key THEN Append(old, e.inode) ELSE r.id2cm[k]]]

ReplayUnlink(r, e) ==
  LET key == <<e.dir, e.fname>> IN
  IF e.dir \notin Known2cm THEN [r EXCEPT !.error = TRUE]
  ELSE IF key \notin DOMAIN r.id2cm THEN r
  ELSE LET gone == r.id2cm[key] IN
       IF IsInjective(gone) /\ ToSet(gone) \subseteq DOMAIN r.dentries
       THEN [r EXCEPT !.dentries = [i \in DOMAIN r.dentries \ ToSet(gone) |-> r.dentries[i]],
                      !.id2cm = [k \in DOMAIN r.id2cm \ {key} |-> r.id2cm[k]]]
       ELSE [r EXCEPT !.error = TRUE]

\* range(0, max_eventid) stops before the last event.
Replayed ==
  LET after[n \in Nat] ==
        IF n = 0 THEN [dentries |-> <<>>, id2cm |-> <<>>, error |-> FALSE]
        ELSE LET r == after[n - 1] IN
             IF r.error THEN r
             ELSE IF n \in link_rows THEN ReplayLink(r, events[n])
             ELSE IF n \in unlink_rows THEN ReplayUnlink(r, events[n])
             ELSE r
  IN after[max_eventid - 1]

Replay ==
  /\ lstep = "unlinks"
  /\ IF Replayed.error THEN lstep' = "failed" /\ UNCHANGED dentry_map
     ELSE lstep' = "done" /\ dentry_map' = Replayed.dentries
  /\ UNCHANGED <<tree, events, max_eventid, max_unlink, link_rows, unlink_rows>>

Pickle == MaxLink \/ MaxUnlink \/ SelectLinks \/ SelectUnlinks \/ Replay

LinkNext == lstep \notin {"done", "failed"} /\ (LinkWorld \/ Pickle)

-----------------------------------------------------------------------------
(* dot_handlers.py *)

\* label_inodes goes from an inode to the directory its entry names until it finds
\* no entry or the root: for ever among entries that lead to none but each other.
label_inodes_hangs(i) ==
  \E round \in SUBSET DOMAIN dentry_map :
    i \in round /\ \A j \in round : /\ dentry_map[j].fname # "root_inode"
                                   /\ dentry_map[j].inode_dir \in round

Hanging == {i \in DOMAIN dentry_map : label_inodes_hangs(i)}
=============================================================================
