------------------------------ MODULE GzProvd ------------------------------
(***************************************************************************)
(* reporters/gz_provd: the daemon that funnels the kernel's relay into a   *)
(* compressed log, and between two cycles takes one provenance record from *)
(* an application over a datagram socket (app_ipc.c).                      *)
(*                                                                         *)
(* The relay is a stream of units, a message being MsgLen of them; read()  *)
(* returns any number of units up to the size of the buffer.  The log is a *)
(* stream of the same units with an application's record here and there.   *)
(* An application sends its record and, if it has bound an address, waits  *)
(* for the daemon's ACK.                                                   *)
(***************************************************************************)
EXTENDS Naturals, Sequences, FiniteSetsExt

CONSTANTS
  Clients,     \* the applications
  Address,     \* what each has bound: a string with its final 0, or <<>>
  AddrLen,     \* sizeof(client_addr)
  MsgLen,      \* units of a kernel message
  BufSize,     \* units read() may return at once
  QueueLen,    \* datagrams a socket holds (net.unix.max_dgram_qlen)
  MaxUnits,    \* bound: units the kernel emits
  MaxSends,    \* bound: records the applications send
  MaxLives,    \* bound: starts of the daemon
  MaxFaults    \* bound: kills and failed system calls

ASSUME AddressAssumption ==
  Address \in [Clients -> Seq(Nat)] /\ \A c \in Clients : Len(Address[c]) <= AddrLen
\* A unit of the relay is known by its place in the stream, an application's record
\* by the application.
ASSUME ClientsAssumption == Clients \cap Nat = {}
ASSUME BoundsAssumption ==
  /\ {AddrLen, MaxUnits, MaxSends, MaxLives, MaxFaults} \subseteq Nat
  /\ {MsgLen, BufSize, QueueLen} \subseteq Nat \ {0}

VARIABLES
  sent,      \* units the kernel has emitted
  rd,        \* units read out of the relay
  pc,        \* where main() is
  rv,        \* main()'s rv is not 0
  stopping, oneShot,
  file,      \* what the current log holds or will hold: units and clients
  disk,      \* how much of it is on disk for certain
  gzerr,     \* a write has failed: zlib refuses every later one
  started,   \* app_ipc_start
  sockq,     \* the senders of the datagrams queued on the daemon's socket
  namelen,   \* msgh.msg_namelen
  client_addr,
  from,      \* the sender of the datagram in hand
  first,     \* rd when this process started
  cycle,     \* rd when this cycle started
  state,     \* of each application: idle, waiting or dead
  inbox,     \* of each application: unread ACKs
  sends, lives, faults

relay   == <<sent>>
main    == <<pc, rv, stopping, oneShot>>
log     == <<file, disk, gzerr>>
ipc     == <<started, sockq, namelen, client_addr, from>>
marks   == <<first, cycle>>
apps    == <<state, inbox>>
bounds  == <<sends, lives, faults>>
vars    == <<relay, rd, main, log, ipc, marks, apps, bounds>>

Init ==
  /\ sent = 0 /\ rd = 0 /\ first = 0 /\ cycle = 0
  /\ pc = "off" /\ rv = FALSE /\ stopping = FALSE /\ oneShot = FALSE
  /\ file = <<>> /\ disk = 0 /\ gzerr = FALSE
  /\ started = FALSE /\ sockq = <<>> /\ namelen = AddrLen
  /\ client_addr = [i \in 1..AddrLen |-> 0]
  /\ from \in Clients
  /\ state = [c \in Clients |-> "idle"] /\ inbox = [c \in Clients |-> 0]
  /\ sends = 0 /\ lives = 0 /\ faults = 0

Fault == faults < MaxFaults /\ faults' = faults + 1

-----------------------------------------------------------------------------
(* The kernel and the applications *)

\* The kernel writes a whole message.
Emit ==
  /\ sent + MsgLen <= MaxUnits
  /\ sent' = sent + MsgLen
  /\ UNCHANGED <<rd, main, log, ipc, marks, apps, bounds>>

\* An application sends its record; one that can be answered then waits.
Send(c) ==
  /\ state[c] = "idle" /\ sends < MaxSends
  /\ started /\ Len(sockq) < QueueLen
  /\ sends' = sends + 1
  /\ sockq' = Append(sockq, c)
  /\ state' = [state EXCEPT ![c] = IF Address[c] = <<>> THEN "idle" ELSE "waiting"]
  /\ UNCHANGED <<relay, rd, main, log, started, namelen, client_addr, from, marks, inbox,
                 lives, faults>>

\* A waiting application reads a datagram, takes it for its ACK and goes on.
ReadAck(c) ==
  /\ state[c] = "waiting" /\ inbox[c] > 0
  /\ inbox' = [inbox EXCEPT ![c] = @ - 1]
  /\ state' = [state EXCEPT ![c] = "idle"]
  /\ UNCHANGED <<relay, rd, main, log, ipc, marks, bounds>>

\* An application ends, and its socket with it.
Die(c) ==
  /\ state[c] # "dead"
  /\ Fault
  /\ state' = [state EXCEPT ![c] = "dead"]
  /\ inbox' = [inbox EXCEPT ![c] = 0]
  /\ UNCHANGED <<relay, rd, main, log, ipc, marks, sends, lives>>

\* handle()
Signal ==
  /\ pc # "off" /\ ~stopping
  /\ stopping' = TRUE
  /\ UNCHANGED <<relay, rd, pc, rv, oneShot, log, ipc, marks, apps, bounds>>

-----------------------------------------------------------------------------
(* The daemon: main() *)

\* gzopen "wb" empties the log of the life before; app_ipc_init replaces the
\* socket, and a failure of it is only printed.
Start ==
  /\ pc = "off" /\ lives < MaxLives
  /\ lives' = lives + 1
  /\ pc' = "funnel" /\ stopping' = FALSE /\ oneShot' \in BOOLEAN
  /\ file' = <<>> /\ disk' = 0 /\ gzerr' = FALSE
  /\ first' = rd /\ cycle' = rd
  /\ \/ started' = TRUE /\ rv' = FALSE /\ UNCHANGED faults
     \/ started' = FALSE /\ rv' = TRUE /\ Fault
  /\ sockq' = <<>> /\ namelen' = AddrLen /\ client_addr' = [i \in 1..AddrLen |-> 0]
  /\ UNCHANGED <<relay, rd, from, apps, sends>>

\* open() or gzopen() fails, or, with the log already emptied, daemon().
StartFails ==
  /\ pc = "off" /\ lives < MaxLives
  /\ lives' = lives + 1
  /\ Fault
  /\ rv' = TRUE
  /\ \/ UNCHANGED <<file, disk, marks>>
     \/ file' = <<>> /\ disk' = 0 /\ first' = rd /\ cycle' = rd
  /\ UNCHANGED <<relay, rd, pc, stopping, oneShot, gzerr, ipc, apps, sends>>

\* Of what zlib has buffered any part may get written.
SaveSome == \E n \in disk..Len(file) : file' = SubSeq(file, 1, n) /\ disk' = n
SaveAll  == disk' = Len(file) /\ UNCHANGED file

\* The process is gone, and with its socket what was queued there.
Gone(failed) ==
  /\ pc' = "off" /\ rv' = failed
  /\ started' = FALSE /\ sockq' = <<>>
  /\ UNCHANGED <<stopping, oneShot, namelen, client_addr, from>>

\* out_close_relay, out_close_log: gzclose writes out what is buffered.
Exit(failed) ==
  /\ Gone(failed)
  /\ IF gzerr THEN SaveSome ELSE SaveAll
  /\ UNCHANGED gzerr

\* Mutant: the whole buffer is written, however little was read.
UnitsOfBuffer(n) == [i \in 1..BufSize |-> rd + i]

\* The next n units of the stream.
Units(n) == [i \in 1..n |-> rd + i]

\* read() and gzwrite() of one buffer, which zlib refuses after an error.
FunnelChunk ==
  /\ pc = "funnel" /\ ~stopping
  /\ \E n \in 1..Min({BufSize, sent - rd}) :
       /\ rd' = rd + n
       /\ \/ /\ ~gzerr
             /\ file' = file \o Units(n)
             /\ UNCHANGED <<main, disk, ipc>>
          \/ gzerr /\ Gone(TRUE) /\ SaveSome
  /\ UNCHANGED <<relay, gzerr, marks, apps, bounds>>

\* read() fails, or gzwrite() does and the buffer is lost.  (The -1 of read() in a
\* size_t makes gzwrite refuse it, so that both leave by the same return.)
FunnelFails ==
  /\ pc = "funnel" /\ ~stopping
  /\ Fault
  /\ \/ Exit(TRUE) /\ UNCHANGED rd
     \/ /\ \E n \in 1..Min({BufSize, sent - rd}) : rd' = rd + n
        /\ gzerr' = TRUE
        /\ Gone(TRUE) /\ SaveSome
  /\ UNCHANGED <<relay, marks, apps, sends, lives>>

\* The relay is empty or a signal has come.
FunnelDone ==
  /\ pc = "funnel" /\ (stopping \/ rd = sent)
  /\ pc' = "recv"
  /\ UNCHANGED <<relay, rd, rv, stopping, oneShot, log, ipc, marks, apps, bounds>>

-----------------------------------------------------------------------------
(* The daemon: app_ipc_process *)

Return(failed) == pc' = "check" /\ rv' = failed

\* The kernel copies as much of the sender's address as the length in msgh allows
\* and stores the true length there; app_ipc_init has set it once.
CopyAddress(c) ==
  /\ client_addr' = [i \in 1..AddrLen |->
                       IF i <= Min({namelen, Len(Address[c])}) THEN Address[c][i]
                       ELSE client_addr[i]]
  /\ namelen' = Len(Address[c])

\* Mutant: the stop flag is not passed on.
RecvThoughStopping ==
  /\ pc = "recv"
  /\ \/ /\ ~started \/ sockq = <<>>
        /\ Return(FALSE)
        /\ UNCHANGED ipc
     \/ /\ started /\ sockq # <<>>
        /\ sockq' = Tail(sockq) /\ from' = Head(sockq)
        /\ CopyAddress(Head(sockq))
        /\ pc' = "lookup"
        /\ UNCHANGED <<started, rv>>
  /\ UNCHANGED <<relay, rd, stopping, oneShot, log, marks, apps, bounds>>

\* Mutant: recvmsg waits for a datagram.
RecvWaits ==
  /\ pc = "recv"
  /\ \/ /\ stopping \/ ~started
        /\ Return(FALSE)
        /\ UNCHANGED ipc
     \/ /\ ~stopping /\ started /\ sockq # <<>>
        /\ sockq' = Tail(sockq) /\ from' = Head(sockq)
        /\ CopyAddress(Head(sockq))
        /\ pc' = "lookup"
        /\ UNCHANGED <<started, rv>>
  /\ UNCHANGED <<relay, rd, stopping, oneShot, log, marks, apps, bounds>>

\* recvmsg with MSG_DONTWAIT, and the two early returns before it.
Recv ==
  /\ pc = "recv"
  /\ \/ /\ stopping \/ ~started \/ sockq = <<>>
        /\ Return(FALSE)
        /\ UNCHANGED ipc
     \/ /\ ~stopping /\ started /\ sockq # <<>>
        /\ sockq' = Tail(sockq) /\ from' = Head(sockq)
        /\ CopyAddress(Head(sockq))
        /\ pc' = "lookup"
        /\ UNCHANGED <<started, rv>>
  /\ UNCHANGED <<relay, rd, stopping, oneShot, log, marks, apps, bounds>>

\* readlink of /proc/<pid>/exe fails for a sender that has ended, unless its pid
\* has been given to another process.
Lookup ==
  /\ pc = "lookup"
  /\ \/ pc' = "ack" /\ UNCHANGED rv
     \/ state[from] = "dead" /\ Return(TRUE)
  /\ UNCHANGED <<relay, rd, stopping, oneShot, log, ipc, marks, apps, bounds>>

\* The living application at the address in client_addr, if there is one.
Target ==
  {c \in Clients : /\ state[c] # "dead" /\ Address[c] # <<>>
                   /\ SubSeq(client_addr, 1, Len(Address[c])) = Address[c]}

\* Mutant: the record is acknowledged twice.
AckTwice ==
  /\ pc = "ack"
  /\ \E c \in Target : inbox' = [inbox EXCEPT ![c] = Min({QueueLen, @ + 2})]
  /\ pc' = "commit"
  /\ UNCHANGED <<relay, rd, rv, stopping, oneShot, log, ipc, marks, state, bounds>>

\* sendmsg without MSG_DONTWAIT: it waits while the target's queue is full, and a
\* signal only restarts it.  A failure is only printed.
Ack ==
  /\ pc = "ack"
  /\ \/ Target = {} /\ UNCHANGED inbox
     \/ \E c \in Target :
          /\ inbox[c] < QueueLen
          /\ inbox' = [inbox EXCEPT ![c] = @ + 1]
  /\ pc' = "commit"
  /\ UNCHANGED <<relay, rd, rv, stopping, oneShot, log, ipc, marks, state, bounds>>

\* app_ipc_ima_check finds the sender's program measured twice, or no measurements.
ImaFails ==
  /\ pc = "commit"
  /\ Return(TRUE)
  /\ UNCHANGED <<relay, rd, stopping, oneShot, log, ipc, marks, apps, bounds>>

\* gzwrite() of the record, which may fail.
Commit ==
  /\ pc = "commit"
  /\ \/ ~gzerr /\ Return(FALSE) /\ file' = Append(file, from) /\ UNCHANGED <<gzerr, faults>>
     \/ gzerr /\ Return(TRUE) /\ UNCHANGED <<file, gzerr, faults>>
     \/ Fault /\ Return(TRUE) /\ gzerr' = TRUE /\ UNCHANGED file
  /\ UNCHANGED <<relay, rd, stopping, oneShot, disk, ipc, marks, apps, sends, lives>>

-----------------------------------------------------------------------------
(* The daemon: main() again *)

\* The exit condition; rv still is what app_ipc_process returned.
Check ==
  /\ pc = "check"
  /\ \/ /\ stopping \/ oneShot
        /\ \/ Exit(rv \/ gzerr) /\ UNCHANGED faults
           \/ Exit(TRUE) /\ Fault
     \/ /\ ~stopping /\ ~oneShot
        /\ \/ /\ pc' = "flush"
              /\ UNCHANGED <<rv, stopping, oneShot, log, ipc, faults>>
           \/ Exit(TRUE) /\ Fault
  /\ UNCHANGED <<relay, rd, marks, apps, sends, lives>>

\* Mutant: the log is not flushed before the daemon sleeps.
FlushForgotten ==
  /\ pc = "flush"
  /\ pc' = "sleep"
  /\ UNCHANGED <<relay, rd, rv, stopping, oneShot, log, ipc, marks, apps, bounds>>

\* gzflush(Z_SYNC_FLUSH)
Flush ==
  /\ pc = "flush"
  /\ \/ /\ ~gzerr
        /\ disk' = Len(file)
        /\ pc' = "sleep"
        /\ UNCHANGED <<rv, stopping, oneShot, file, gzerr, ipc, faults>>
     \/ gzerr /\ Exit(TRUE) /\ UNCHANGED faults
  /\ UNCHANGED <<relay, rd, marks, apps, sends, lives>>

\* usleep() returns and the relay is opened again.
Wake ==
  /\ pc = "sleep"
  /\ \/ /\ pc' = "funnel" /\ cycle' = rd
        /\ UNCHANGED <<rv, stopping, oneShot, log, ipc, first, faults>>
     \/ Exit(TRUE) /\ Fault /\ UNCHANGED marks
  /\ UNCHANGED <<relay, rd, apps, sends, lives>>

\* SIGKILL
Kill ==
  /\ pc # "off"
  /\ Fault
  /\ Gone(TRUE) /\ SaveSome
  /\ UNCHANGED <<relay, rd, gzerr, marks, apps, sends, lives>>

Step ==
  \/ FunnelChunk \/ FunnelDone \/ Recv \/ Lookup \/ Ack \/ ImaFails \/ Commit
  \/ Check \/ Flush \/ Wake

Next ==
  \/ Emit \/ Signal
  \/ \E c \in Clients : Send(c) \/ ReadAck(c) \/ Die(c)
  \/ Start \/ StartFails \/ FunnelFails \/ Kill
  \/ Step

\* The scheduler runs a runnable process: the daemon, and an application that
\* waits for the datagram that is there.
Spec ==
  /\ Init /\ [][Next]_vars
  /\ WF_vars(Step)
  /\ \A c \in Clients : WF_vars(ReadAck(c))

-----------------------------------------------------------------------------
(* Properties *)

\* How many of the first i entries of the log are units of the relay.
UnitsUpTo(i) == Cardinality({j \in 1..i : file[j] \notin Clients})

\* A log holds the relay's stream from where its daemon began: no unit is left out,
\* doubled or out of its place, however the reads cut the stream, whenever the
\* process is signalled or killed.
LogIsRelayStream ==
  \A i \in 1..Len(file) : file[i] \notin Clients => file[i] = first + UnitsUpTo(i)

\* An application's record never lands inside a kernel message, where gz_cat would
\* take it for the rest of that message.
AppRecordsAtBoundary ==
  \A i \in 1..Len(file) : file[i] \in Clients => (first + UnitsUpTo(i)) % MsgLen = 0

\* A crash costs the records of one cycle at most.
CrashLosesOneCycle ==
  \A u \in (first + 1)..cycle : \E i \in 1..disk : file[i] = u

\* Exit status 0: the log holds all that was read.
CleanExitComplete ==
  pc = "off" /\ ~rv /\ lives > 0 => UnitsUpTo(Len(file)) = rd - first /\ disk = Len(file)

\* No application is released by somebody else's ACK, now or with its next record.
NoSpuriousAck ==
  \A c \in Clients :
    /\ inbox[c] > 0 => state[c] = "waiting"
    /\ inbox[c] <= 1

\* "We should NOT impact the kernel relay": while the daemon runs it takes every
\* message out of the relay, whatever the applications do.
RelayDrained ==
  \A u \in 1..MaxUnits :
    (sent >= u /\ pc # "off") ~> (rd >= u \/ stopping \/ pc = "off")

\* "Either way, send ACK": the application whose record was taken gets the answer.
AckReachesSender ==
  [][pc = "ack" /\ pc' = "commit" /\ state[from] # "dead" =>
       inbox'[from] = inbox[from] + 1]_vars
=============================================================================
