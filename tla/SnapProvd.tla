----------------------------- MODULE SnapProvd -----------------------------
(***************************************************************************)
(* reporters/snap_provd: the programs around the graph, snap_provd, which  *)
(* drains the kernel's relay and sleeps in turn, and snap_cat, which reads *)
(* a log to its end.  The graph is in the process's memory only: the next  *)
(* process begins with an empty one where the last has stopped reading, or *)
(* with a log that does not begin at boot, and meets credentials that it   *)
(* has not seen forked.                                                    *)
(***************************************************************************)
EXTENDS SnapGraph

CONSTANTS
  MaxStarts,   \* bound: processes
  MaxFaults    \* bound: kills and failed calls

ASSUME ProcessAssumption == MaxStarts \in Nat /\ MaxFaults \in Nat

VARIABLES
  pc,          \* where main() is
  mode,        \* snap_cat, or snap_provd with a delay or without (a single pass)
  stopping,    \* the flag the signal handler sets
  atBoot,      \* what this process reads begins with the kernel's first record
  lost,        \* this process has dropped a record
  starts, faults

process == <<pc, mode, stopping, atBoot, lost, starts, faults>>
vars == <<graphVars, process>>

Init ==
  /\ GraphInit
  /\ pc = "off" /\ mode = "none" /\ stopping = FALSE
  /\ atBoot = FALSE /\ lost = FALSE /\ starts = 0 /\ faults = 0

Fault == faults < MaxFaults /\ faults' = faults + 1

\* The process ends, and its graph with it: nobody writes it to a file.
Exit ==
  /\ pc' = "off"
  /\ Discard
  /\ mode' = "none" /\ stopping' = FALSE /\ atBoot' = FALSE /\ lost' = FALSE
  /\ UNCHANGED starts

\* main() up to the loop.
Start(m) ==
  /\ pc = "off" /\ starts < MaxStarts
  /\ starts' = starts + 1
  /\ pc' = "read" /\ mode' = m
  /\ atBoot' = (count = 0)
  /\ UNCHANGED <<graphVars, stopping, lost, faults>>

\* handle(): SIGHUP, SIGINT, SIGQUIT or SIGTERM; snap_cat has no handler.
Signal ==
  /\ pc # "off" /\ mode # "cat" /\ ~stopping
  /\ stopping' = TRUE
  /\ UNCHANGED <<graphVars, pc, mode, atBoot, lost, starts, faults>>

\* plog_process and plog_process_raw: what handle() returns is not looked at.
Read == pc = "read" /\ Handle /\ UNCHANGED process

\* A record whose body cannot be read or kept: the kernel has gone on.
Gone ==
  /\ Count
  /\ \/ count > 0 /\ UNCHANGED <<lives, forked>>
     \/ \E c \in DOMAIN lives : lives' = Without(lives, c) /\ UNCHANGED forked
     \/ \E c \in Creds \ DOMAIN lives :
          /\ count = 0 \/ lives # Empty
          /\ lives' = Put(lives, c, forked + 1) /\ forked' = forked + 1

\* read() of the body fails, which snap_provd passes over ("keep_going_anyway").
BodyFails ==
  /\ pc = "read" /\ mode # "cat"
  /\ Fault
  /\ Gone
  /\ lost' = TRUE
  /\ UNCHANGED <<graph, maps, facts, pc, mode, stopping, atBoot, starts>>

\* malloc() fails, or the log ends in the middle of a record.
ReadFails ==
  /\ pc = "read"
  /\ Fault
  /\ Gone
  /\ Exit

\* The relay is empty, or read() of a header fails; the end of snap_cat's log.
Drained ==
  /\ pc = "read"
  /\ \/ mode = "cat" /\ Exit
     \/ mode # "cat" /\ pc' = "check"
        /\ UNCHANGED <<graph, maps, facts, mode, stopping, atBoot, lost, starts>>
  /\ UNCHANGED <<lives, forked, count, faults>>

\* The exit condition, close() and usleep().
Check ==
  /\ pc = "check"
  /\ \/ (stopping \/ mode = "once") /\ Exit /\ UNCHANGED faults
     \/ Fault /\ Exit
     \/ /\ ~stopping /\ mode = "daemon"
        /\ pc' = "sleep"
        /\ UNCHANGED <<graph, maps, facts, mode, stopping, atBoot, lost, starts, faults>>
  /\ UNCHANGED <<lives, forked, count>>

\* The relay is opened again.
Wake ==
  /\ pc = "sleep"
  /\ \/ /\ pc' = "read"
        /\ UNCHANGED <<graph, maps, facts, mode, stopping, atBoot, lost, starts, faults>>
     \/ Fault /\ Exit
  /\ UNCHANGED <<lives, forked, count>>

\* SIGKILL.
Kill == pc # "off" /\ Fault /\ Exit /\ UNCHANGED <<lives, forked, count>>

Next ==
  \/ \E m \in {"daemon", "once", "cat"} : Start(m)
  \/ Signal \/ Read \/ BodyFails \/ ReadFails \/ Drained \/ Check \/ Wake \/ Kill

Spec == Init /\ [][Next]_vars

-----------------------------------------------------------------------------
(* Properties *)

\* What the graph says: its edges, and which program each activity runs.
Told ==
  {Fact(edges[e], nodes[e[1]], nodes[e[2]]) : e \in DOMAIN edges}
    \cup {Fact("Runs", nodes[i], Inode(prog[i])) : i \in DOMAIN prog}

Complete == atBoot /\ ~lost

\* A process that has read every record since boot knows what happened and nothing
\* else: an edge for every fork, read, write, setid and message, between the nodes of
\* the very lives that did it, and on the node of a life the program it executed last,
\* although ids are used again, execs overwrite and one edge serves a pair of nodes.
GraphTellsHistory == pc # "off" /\ Complete => Told = facts

\* A process that began later takes every credential it has not met for its first
\* node: all that it tells wrongly, or not at all, is about that node or about a
\* life it has no node for; and no thing has two nodes.
MistakesAtFirstNode ==
  pc # "off" =>
    /\ IsInjective(nodes)
    /\ ~lost => \A f \in (Told \ facts) \cup (facts \ Told) :
      \/ nodes # <<>> /\ nodes[1] \in {f.from, f.to}
      \/ ~({f.from, f.to} \subseteq Range(nodes))

\* One thing came from another at once, by the facts: nothing is followed beyond the
\* boot process.
CameFrom ==
  {<<f.from, f.to>> : f \in {g \in facts : g.rel \in {"Used", "WasGeneratedBy"}
                                         /\ g.from # Life(1)}}

\* All that x came from: what is in every set that is closed under CameFrom.
Sources(x) ==
  LET things == {p[2] : p \in CameFrom}
      closed == {S \in SUBSET things :
                   \A p \in CameFrom : p[1] \in S \cup {x} => p[2] \in S}
  IN {y \in things : \A S \in closed : y \in S}

\* The ancestors of a version are the versions whose content can have come into it by
\* reads and writes of forked processes; and the search for them ends unless it meets
\* a thing that came from itself, as does a version that a process first read and
\* then wrote, for which the test against cycles comes too late.
AncestorsAreSources ==
  pc # "off" /\ Complete =>
    \A iv \in DOMAIN InodeVersionMap :
      LET before == Sources(Inode(iv))
      IN /\ AncestorsEnd(iv) <=> \A y \in before : y \notin Sources(y)
         /\ GetAncestors(iv) = {Inode(iv)} \cup {y \in before : y.kind = "inode"}
=============================================================================
