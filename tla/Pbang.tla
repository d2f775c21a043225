------------------------------- MODULE Pbang -------------------------------
(***************************************************************************)
(* system/pbang.c: the "Big Bang" of a filesystem.  pbang mounts a device, *)
(* walks its tree with nftw and writes a log on the device that allocates  *)
(* every inode once and links every name; a label on the root directory,   *)
(* the uuid of the run, is the commit.  A device may be "re-pbanged".      *)
(*                                                                         *)
(* Nobody else changes the device meanwhile; inode numbers fit an int.     *)
(***************************************************************************)
EXTENDS Bitvec, Sequences

CONSTANTS
  Tree,       \* the device's names: [dir, name, ino]
  Root,       \* the root directory's inode, which the convention links to itself
  LogIno,     \* the inode a new log file gets
  Leftovers,  \* sets of bits that malloc's memory may hold
  MaxRuns,    \* bound: runs of pbang
  MaxFaults   \* bound: kills and failed calls

RootEntry == [dir |-> Root, name |-> "", ino |-> Root]
LogEntry  == [dir |-> Root, name |-> "prov-bang.log.gz", ino |-> LogIno]

Names  == Tree \cup {LogEntry}
Inodes == {d.ino : d \in Names}

ASSUME TreeAssumption ==
  /\ Tree \subseteq [dir : Nat, name : STRING, ino : Nat] /\ LogIno \in Nat
  /\ RootEntry \in Tree /\ LogEntry \notin Tree
  /\ \A d \in Tree : \E e \in Tree : e.ino = d.dir
ASSUME LeftoversAssumption == \A ones \in Leftovers : ones \subseteq Nat
ASSUME BoundsAssumption == MaxRuns \in Nat /\ MaxFaults \in Nat

VARIABLES
  pc,       \* where main() is, by the label it would jump to
  rv,       \* what it will return
  held,     \* what has to be given back
  stuck,    \* what could not be given back
  tree,     \* the names on the device
  label,    \* the device's label: the run that set it, or 0
  file,     \* the log on the device
  stream,   \* what this run has given to gzwrite
  seen,     \* the names nftw has reported
  inodes,   \* the bit vector
  dirty,    \* the inodes whose bits it held at first
  unset,    \* the inodes whose bits could not be set
  runs, faults

walk    == <<stream, seen, inodes, dirty, unset>>
device  == <<tree, label, file>>
process == <<pc, rv, held, stuck>>
bounds  == <<runs, faults>>
vars    == <<process, device, walk, bounds>>

Alloc(i)   == [op |-> "inode_alloc", ino |-> i]
Setattr(i) == [op |-> "setattr", ino |-> i]
Link(d)    == [op |-> "link", ino |-> d.ino, dir |-> d.dir, name |-> d.name]

NoBits == [array |-> [n \in 0..-1 |-> {}], size |-> 0]

Init ==
  /\ pc = "off" /\ rv = "ok" /\ held = {} /\ stuck = {}
  /\ tree = Tree /\ label = 0
  /\ file = [of |-> 0, recs |-> <<>>, closed |-> FALSE]
  /\ stream = <<>> /\ seen = {} /\ inodes = NoBits /\ dirty = {} /\ unset = {}
  /\ runs = 0 /\ faults = 0

Fault == faults < MaxFaults /\ faults' = faults + 1

\* A call fails: main() returns 1, by way of a label.
FailTo(l) == Fault /\ pc' = l /\ rv' = "failed" /\ UNCHANGED held

Next1(l, thing) == pc' = l /\ held' = held \cup {thing} /\ UNCHANGED <<rv, faults>>

-----------------------------------------------------------------------------
(* main() up to the walk *)

\* The arguments, the uuid, and mkdtemp: a later run has a directory of its own.
Start ==
  /\ pc = "off" /\ runs < MaxRuns
  /\ runs' = runs + 1
  /\ \/ pc' = "mount" /\ rv' = "ok" /\ held' = {"tmpdir"} /\ UNCHANGED faults
     \/ pc' = "off" /\ rv' = "failed" /\ held' = {} /\ Fault
  /\ stuck' = {}
  /\ stream' = <<>> /\ seen' = {} /\ inodes' = NoBits /\ dirty' = {} /\ unset' = {}
  /\ UNCHANGED device

Mount ==
  /\ pc = "mount"
  /\ Next1("label", "mount") \/ FailTo("out_rmdir")
  /\ UNCHANGED <<stuck, device, walk, runs>>

\* Mutant: the failure of malloc skips a label.
OldLabelLeaks ==
  /\ pc = "label"
  /\ \/ Next1("open", "xattr")
     \/ Fault /\ pc' = "out_rmdir" /\ UNCHANGED <<rv, held>>
  /\ UNCHANGED <<stuck, device, walk, runs>>

\* malloc, after whose failure rv is still 0, and getxattr: an old label is printed.
OldLabel ==
  /\ pc = "label"
  /\ \/ Next1("open", "xattr")
     \/ Fault /\ pc' = "out_umount" /\ UNCHANGED <<rv, held>>
     \/ Fault /\ pc' = "out_xattr" /\ rv' = "failed" /\ held' = held \cup {"xattr"}
  /\ UNCHANGED <<stuck, device, walk, runs>>

\* open, which creates the log or leaves an old one as it is, and gzdopen.
OpenLog ==
  /\ pc = "open"
  /\ \/ Next1("init", "log") /\ tree' = Names
     \/ FailTo("out_xattr") /\ tree' \in {tree, Names}
  /\ UNCHANGED <<stuck, label, file, walk, runs>>

InitBits ==
  /\ pc = "init"
  /\ \/ /\ Next1("walk", "inodes")
        /\ \E ones \in Leftovers :
             inodes' = bitvec_init(ones) /\ dirty' = Inodes \cap Ones(inodes')
     \/ FailTo("out_close") /\ UNCHANGED <<inodes, dirty>>
  /\ UNCHANGED <<stuck, device, stream, seen, unset, runs>>

-----------------------------------------------------------------------------
(* The walk *)

\* The messages of one name.
CallbackMessages(d, fresh) ==
  (IF fresh THEN <<Alloc(d.ino), Setattr(d.ino)>> ELSE <<>>) \o <<Link(d)>>

\* nftw reports a directory before what is in it.
Reports(d) ==
  /\ d \in tree \ seen
  /\ d = RootEntry \/ \E e \in seen : e.ino = d.dir

\* callback(): bitvec_set's failure is not looked at; a failing gzwrite or stat ends the
\* walk with 1, which main() does not take for an error.
Callback(d) ==
  /\ pc = "walk" /\ Reports(d)
  /\ seen' = seen \cup {d}
  /\ LET fresh == ~bitvec_test(inodes, d.ino)
         messages == CallbackMessages(d, fresh)
         marked == IF fresh THEN bitvec_set(inodes, d.ino) ELSE inodes
     IN \/ /\ inodes' = marked
           /\ stream' = stream \o messages
           /\ UNCHANGED <<pc, rv, unset, faults>>
        \/ /\ Byte(d.ino) >= inodes.size /\ Fault
           /\ unset' = unset \cup {d.ino}
           /\ stream' = stream \o messages
           /\ UNCHANGED <<pc, rv, inodes>>
        \/ /\ Fault
           /\ inodes' = marked
           /\ \E n \in 0..(Len(messages) - 1) : stream' = stream \o SubSeq(messages, 1, n)
           /\ rv' = "failed" /\ pc' = "commit"
           /\ UNCHANGED unset
  /\ UNCHANGED <<held, stuck, device, dirty, runs>>

\* zlib writes a part of its buffer to the file, over what an old log has there.
Flush ==
  /\ pc = "walk"
  /\ \E n \in 1..Len(stream) :
       /\ file.of = runs => n > Len(file.recs)
       /\ file' = [of |-> runs, recs |-> SubSeq(stream, 1, n), closed |-> FALSE]
  /\ UNCHANGED <<process, tree, label, walk, bounds>>

\* nftw returns 0, or less when it fails itself.
WalkEnds ==
  /\ pc = "walk"
  /\ \/ seen = tree /\ pc' = "commit" /\ rv' = "ok" /\ UNCHANGED <<held, faults>>
     \/ FailTo("out_bitvec")
  /\ UNCHANGED <<stuck, device, walk, runs>>

\* setxattr.
Commit ==
  /\ pc = "commit"
  /\ \/ pc' = "out_bitvec" /\ label' = runs /\ UNCHANGED <<rv, held, faults>>
     \/ FailTo("out_bitvec") /\ UNCHANGED label
  /\ UNCHANGED <<stuck, tree, file, walk, runs>>

-----------------------------------------------------------------------------
(* The labels at the end of main() *)

OutBitvec ==
  /\ pc = "out_bitvec"
  /\ pc' = "out_close" /\ held' = held \ {"inodes"}
  /\ UNCHANGED <<rv, stuck, device, walk, bounds>>

\* Mutant: the result of gzclose is not looked at.
OutCloseUnchecked ==
  /\ pc = "out_close"
  /\ pc' = "out_xattr" /\ held' = held \ {"log"}
  /\ \/ /\ file' = [of |-> runs, recs |-> stream, closed |-> TRUE]
        /\ UNCHANGED faults
     \/ Fault /\ UNCHANGED file
  /\ UNCHANGED <<rv, stuck, tree, label, walk, runs>>

\* gzclose writes what zlib still holds; if it fails, a part of it.
OutClose ==
  /\ pc = "out_close"
  /\ pc' = "out_xattr" /\ held' = held \ {"log"}
  /\ \/ /\ file' = [of |-> runs, recs |-> stream, closed |-> TRUE]
        /\ UNCHANGED <<rv, faults>>
     \/ Fault /\ rv' = "failed" /\ UNCHANGED file
  /\ UNCHANGED <<stuck, tree, label, walk, runs>>

OutXattr ==
  /\ pc = "out_xattr"
  /\ pc' = "out_umount" /\ held' = held \ {"xattr"}
  /\ UNCHANGED <<rv, stuck, device, walk, bounds>>

OutUmount ==
  /\ pc = "out_umount"
  /\ \/ pc' = "out_rmdir" /\ held' = held \ {"mount"} /\ UNCHANGED <<rv, stuck, faults>>
     \/ FailTo("out_rmdir") /\ stuck' = {"mount", "tmpdir"}
  /\ UNCHANGED <<device, walk, runs>>

\* rmdir fails on a directory that is still a mount point.
OutRmdir ==
  /\ pc = "out_rmdir"
  /\ pc' = "off"
  /\ \/ held' = held \ {"tmpdir"} /\ "mount" \notin held /\ UNCHANGED <<rv, stuck, faults>>
     \/ "mount" \in held /\ rv' = "failed" /\ UNCHANGED <<held, stuck, faults>>
     \/ Fault /\ rv' = "failed" /\ stuck' = held /\ UNCHANGED held
  /\ UNCHANGED <<device, walk, runs>>

\* The process dies: the kernel takes its memory and descriptors.
Kill ==
  /\ pc # "off" /\ Fault
  /\ pc' = "off" /\ rv' = "killed" /\ held' = held \cap {"tmpdir", "mount"}
  /\ UNCHANGED <<stuck, device, walk, runs>>

Next ==
  \/ Start \/ Mount \/ OldLabel \/ OpenLog \/ InitBits
  \/ (\E d \in Names : Callback(d)) \/ Flush \/ WalkEnds \/ Commit
  \/ OutBitvec \/ OutClose \/ OutXattr \/ OutUmount \/ OutRmdir
  \/ Kill

Spec == Init /\ [][Next]_vars

-----------------------------------------------------------------------------
(* Properties *)

\* A file with several names is allocated once, unless its bit could not be set.
AllocatedOnce ==
  \A m, n \in DOMAIN stream :
    /\ m # n /\ stream[m] = stream[n] /\ stream[m].op = "inode_alloc"
    => stream[m].ino \in unset

\* The inode that record n links is allocated by then, unless its bit was set at first.
InodeKnown(n) ==
  \/ stream[n].ino \in dirty
  \/ \E m \in 1..(n - 2) : /\ stream[m] = Alloc(stream[n].ino)
                           /\ stream[m + 1] = Setattr(stream[n].ino)

DirectoryKnown(n) ==
  \/ stream[n].dir = stream[n].ino
  \/ \E m \in 1..(n - 1) : stream[m].op = "link" /\ stream[m].ino = stream[n].dir

\* A reader that goes through the log once meets each inode once, and can resolve every
\* name: its inode is allocated and its directory linked by then.
StreamReadable ==
  /\ AllocatedOnce
  /\ \A n \in DOMAIN stream : stream[n].op = "link" => InodeKnown(n) /\ DirectoryKnown(n)

\* The log f tells of the names t: of all of them, and of their inodes but those in known.
Describes(f, t, known) ==
  /\ f.closed
  /\ \A d \in t : \E n \in DOMAIN f.recs : f.recs[n] = Link(d)
  /\ \A d \in t : d.ino \in known
       \/ \E m, n \in DOMAIN f.recs : f.recs[m] = Alloc(d.ino) /\ f.recs[n] = Setattr(d.ino)

\* An exit status of 0 under a new label means what it says, through every way to
\* the label and out of main().
SuccessMeansComplete ==
  pc = "off" /\ rv = "ok" /\ label = runs /\ runs > 0 =>
    file.of = label /\ Describes(file, tree, dirty)

\* Whatever fails, each label finds what it gives back and nothing that it does not: no
\* mount or directory is left behind, nothing is freed twice.
UnwindsInOrder ==
  /\ pc = "off" /\ rv # "killed" => held = stuck
  /\ pc \in {"out_rmdir", "mount"}  => "tmpdir" \in held /\ (held = {"tmpdir"} \/ held = stuck)
  /\ pc \in {"out_umount", "label"} => held = {"tmpdir", "mount"}
  /\ pc \in {"out_xattr", "open"}   => held = {"tmpdir", "mount", "xattr"}
  /\ pc \in {"out_close", "init"}   => held = {"tmpdir", "mount", "xattr", "log"}
  /\ pc \in {"walk", "commit", "out_bitvec"} =>
       held = {"tmpdir", "mount", "xattr", "log", "inodes"}

\* "Write uuid to xattr. This is our commit": when no pbang runs, a labelled device
\* has the complete log that goes with its label.
CommitMeansComplete ==
  pc = "off" /\ label # 0 => file.of = label /\ Describes(file, tree, {})
=============================================================================
