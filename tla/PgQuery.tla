------------------------------ MODULE PgQuery -------------------------------
(***************************************************************************)
(* pg_query: the crawl from the credentials that touched a file back over  *)
(* the writers of what they read.  The main process scans a start itself   *)
(* and hands the credentials it finds there to a pool of worker processes. *)
(* These were forked when the module was loaded and have their own copies  *)
(* of every global: of the graph and of scanned_inodes.                    *)
(***************************************************************************)
EXTENDS ProvDb

CONSTANTS
  NumThreads,   \* NUM_THREADS (20): workers, and results collected together
  Iterations    \* of a benchmark

ASSUME QueryAssumption == NumThreads \in Nat \ {0} /\ Iterations \in Nat \ {0}

Main      == 0
Workers   == 1..NumThreads
Processes == {Main} \cup Workers

VARIABLES
  qstep,          \* where the main process is
  mode, target,   \* -i, -e or -b, and the inode
  iter,           \* iteration of the benchmark
  starts,         \* start credentials query() still has to scan
  scanned_creds,  \* of the main process
  new_creds,      \* of scan_cred
  threads,        \* of scan_cred: submitted tasks <<iteration, credential>>
  queue,          \* tasks no worker has taken
  results,        \* task -> what it returned
  stuck,          \* workers in an endless loop
  scanned_inodes, \* process -> inodes
  graph,          \* process -> edges
  begun,          \* history: credentials scanned by the main process
  lost            \* history: tasks whose result was dropped by scan_cred

pgVars == <<qstep, mode, target, iter, starts, scanned_creds, new_creds, threads, queue,
            results, stuck, scanned_inodes, graph, begun, lost>>

PgInit ==
  /\ qstep = "import" /\ mode = "inode" /\ target = 0 /\ iter = 0
  /\ starts = {} /\ scanned_creds = {} /\ new_creds = {}
  /\ threads = <<>> /\ queue = <<>> /\ results = <<>> /\ stuck = {}
  /\ scanned_inodes = [p \in Processes |-> {}]
  /\ graph = [p \in Processes |-> {}]
  /\ begun = {} /\ lost = {}

-----------------------------------------------------------------------------
(* query_handlers.py and dot_handlers.py *)

\* The text of no row at all; a number is a uid, or the id of a credential whose
\* forks lead to 0 without a setid.
None == -1

Passing == {c \in {db[n].provid : n \in DOMAIN db} : c # 0 /\ Setids(c) = {}}

\* get_agent_label looks at the parents only; which of them is left open.
AgentLabels(c) ==
  IF Setids(c) # {} THEN {LatestUid(c)}
  ELSE LET path == WalkBack({c}, Passing)
           seen == UNION {Parents(d) : d \in path}
       IN {LatestUid(p) : p \in {s \in seen : Setids(s) # {}}}
            \cup (IF 0 \in seen /\ Setids(0) = {} THEN {c} ELSE {})
            \cup (IF \E d \in path : Parents(d) = {} THEN {None} ELSE {})

MayHang(c) == Setids(c) = {} /\ GoesRound({c}, Passing)

Agent(label) == <<"agent", label>>
Process(c)   == <<"process", c>>
File(i)      == <<"file", i>>
Sock(ip)     == <<"sock", ip>>
Edge(src, label, dst) == [src |-> src, label |-> label, dst |-> dst]

Writes(row) == row.mask \cap {"WRITE", "APPEND"} # {}
Reads(row)  == "READ" \in row.mask

\* handle_exec: one process node, whatever the number of execs.
ExecEdges(c, label) == {Edge(Process(c), "WasControlledBy", Agent(label)) : n \in Execs(c)}

add_file_edges(i, other, row) ==
  (IF Writes(row) THEN {Edge(File(i), "WasWrittenBy", other)} ELSE {})
    \cup (IF Reads(row) THEN {Edge(other, "Read", File(i))} ELSE {})

\* handle_file_p: files hang on the process if it has executed anything.
FileEdges(c, label) ==
  LET other == IF Execs(c) # {} THEN Process(c) ELSE Agent(label)
  IN UNION {add_file_edges(row.inode, other, row) : row \in FilePs(c)}

add_sock_edges(ip, other) == Edge(other, "Messaged", Sock(ip))

\* handle_sockrecv gets its node numbers the wrong way round: messages hang on the
\* agent, always.
SockEdges(c, label) == {add_sock_edges(db[n].inode, Agent(label)) : n \in RowsOf("sockrecv", c)}

\* The edges a scan of c adds when its agent has this label.
Facts(c, label) == ExecEdges(c, label) \cup FileEdges(c, label) \cup SockEdges(c, label)

FilesRead(c) == {r.inode : r \in {x \in FilePs(c) : Reads(x)}}

\* mask IN (...) of _scan_cred: these masks and no others.
CrawlMasks == {{"WRITE"}, {"APPEND"}, {"WRITE", "READ"}, {"WRITE", "READ", "APPEND"}}

get_creds_by_inode(type, i, masks, known) ==
  {db[n].provid : n \in {k \in Table(type) : db[k].inode = i /\ (masks = {} \/ db[k].mask \in masks)}}
    \ known

RandomInodes == {db[n].inode : n \in Table("file_p")}

\* query_handlers filters by the list of its own module: that of the main process
\* until clear_all() has given pg_query a list of its own.
Known(p) == IF p = Main /\ mode # "bench" THEN scanned_creds' ELSE {}

\* _scan_cred of process p up to its return value.
ScanResult(p, c) ==
  UNION {get_creds_by_inode("file_p", i, CrawlMasks, Known(p)) : i \in FilesRead(c) \ scanned_inodes[p]}

\* Mutant: the workers are threads and share the graph.
ScanShared(p, c) ==
  /\ scanned_inodes' = [scanned_inodes EXCEPT ![p] = @ \cup FilesRead(c)]
  /\ \E label \in AgentLabels(c) : graph' = [graph EXCEPT ![Main] = @ \cup Facts(c, label)]

Scan(p, c) ==
  /\ scanned_inodes' = [scanned_inodes EXCEPT ![p] = @ \cup FilesRead(c)]
  /\ \E label \in AgentLabels(c) : graph' = [graph EXCEPT ![p] = @ \cup Facts(c, label)]

-----------------------------------------------------------------------------
(* The main process *)

\* main(): the start credentials; for -b, clear_all() first.  -i and -e put a text
\* into scanned_inodes, which no number equals.
BeginQuery ==
  /\ qstep = "begin"
  /\ UNCHANGED <<queue, results, stuck, graph, begun, lost>>
  /\ \/ /\ iter = 0 /\ iter' = 1 /\ UNCHANGED <<scanned_creds, scanned_inodes>>
        /\ \E i \in {db[n].inode : n \in Table("file_p") \cup Table("exec")} : target' = i
        /\ \/ mode' = "inode" /\ starts' = get_creds_by_inode("file_p", target', {}, {})
           \/ mode' = "exec"  /\ starts' = get_creds_by_inode("exec", target', {}, {})
     \/ /\ iter = 0 \/ mode = "bench"
        /\ iter' = iter + 1 /\ mode' = "bench"
        /\ target' \in RandomInodes
        /\ starts' = get_creds_by_inode("file_p", target', {}, {})
        /\ scanned_creds' = {}
        /\ scanned_inodes' = [scanned_inodes EXCEPT ![Main] = {target'}]
  /\ qstep' = "query" /\ threads' = <<>> /\ new_creds' = {}

\* scan_cred(cred): the list gets the credential before it is scanned.
ScanStart(c) ==
  /\ qstep = "query" /\ c \in starts
  /\ starts' = starts \ {c} /\ begun' = begun \cup {c}
  /\ scanned_creds' = scanned_creds \cup {c}
  /\ \/ /\ Scan(Main, c)
        /\ new_creds' = ScanResult(Main, c)
        /\ qstep' = "crawl"
     \/ MayHang(c) /\ qstep' = "hung" /\ UNCHANGED <<scanned_inodes, graph, new_creds>>
  /\ threads' = <<>>
  /\ UNCHANGED <<mode, target, iter, queue, results, stuck, lost>>

\* One round of scan_cred's loop, up to the collection of a full set of results.
Submit(c) ==
  /\ qstep = "crawl" /\ c \in new_creds
  /\ new_creds' = new_creds \ {c}
  /\ IF c \in scanned_creds THEN UNCHANGED <<scanned_creds, threads, queue>>
     ELSE /\ scanned_creds' = scanned_creds \cup {c}
          /\ threads' = Append(threads, <<iter, c>>) /\ queue' = Append(queue, <<iter, c>>)
  /\ qstep' = IF Len(threads') = NumThreads THEN "collect" ELSE "crawl"
  /\ UNCHANGED <<mode, target, iter, starts, results, stuck, scanned_inodes, graph, begun, lost>>

\* Mutant: the list is replaced.
CollectOver ==
  /\ qstep = "collect" /\ Head(threads) \in DOMAIN results
  /\ new_creds' = results[Head(threads)]
  /\ threads' = Tail(threads)
  /\ qstep' = IF threads' = <<>> THEN "crawl" ELSE "collect"
  /\ UNCHANGED <<mode, target, iter, starts, scanned_creds, queue, results, stuck,
                 scanned_inodes, graph, begun, lost>>

\* thread.get(): its result is there.
Collect ==
  /\ qstep = "collect" /\ Head(threads) \in DOMAIN results
  /\ new_creds' = new_creds \cup results[Head(threads)]
  /\ threads' = Tail(threads)
  /\ qstep' = IF threads' = <<>> THEN "crawl" ELSE "collect"
  /\ UNCHANGED <<mode, target, iter, starts, scanned_creds, queue, results, stuck,
                 scanned_inodes, graph, begun, lost>>

\* Mutant: get() without a timeout.
WaitForever == FALSE /\ UNCHANGED pgVars

\* get(timeout=100) raises TimeoutError, which nobody catches.
TimeOut ==
  /\ qstep = "collect" /\ Head(threads) \notin DOMAIN results
  /\ qstep' = "dead"
  /\ UNCHANGED <<mode, target, iter, starts, scanned_creds, new_creds, threads, queue, results,
                 stuck, scanned_inodes, graph, begun, lost>>

\* The loop ends with new_creds; fewer results than NumThreads are left behind.
EndScan ==
  /\ qstep = "crawl" /\ new_creds = {}
  /\ lost' = lost \cup {threads[k] : k \in DOMAIN threads}
  /\ threads' = <<>> /\ qstep' = "query"
  /\ UNCHANGED <<mode, target, iter, starts, scanned_creds, new_creds, queue, results, stuck,
                 scanned_inodes, graph, begun>>

\* The edges that the main process knows, all of them.
out_to_dot == graph[Main]

FileNodes == {db[n].inode : n \in UNION {RowsOf("file_p", c) : c \in begun}}

\* Label and write out; -i colours a node that is there only if somebody touched
\* the file.  On the inodes in hanging label_inodes does not end.
Finish(hanging) ==
  /\ qstep = "query" /\ starts = {}
  /\ qstep' = IF FileNodes \cap hanging # {} THEN "hung"
           ELSE IF mode = "inode" /\ target \notin FileNodes THEN "dead"
           ELSE IF mode = "bench" /\ iter < Iterations THEN "begin" ELSE "done"
  /\ UNCHANGED <<mode, target, iter, starts, scanned_creds, new_creds, threads, queue, results,
                 stuck, scanned_inodes, graph, begun, lost>>

-----------------------------------------------------------------------------
(* The pool *)

\* Worker w takes the oldest task.
Work(w) ==
  /\ queue # <<>> /\ w \notin stuck
  /\ queue' = Tail(queue)
  /\ LET task == Head(queue)
         c    == task[2]
     IN \/ /\ Scan(w, c)
           /\ results' = [t \in DOMAIN results \cup {task} |->
                            IF t = task THEN ScanResult(w, c) ELSE results[t]]
           /\ UNCHANGED stuck
        \/ MayHang(c) /\ stuck' = stuck \cup {w} /\ UNCHANGED <<scanned_inodes, graph, results>>
  /\ UNCHANGED <<qstep, mode, target, iter, starts, scanned_creds, new_creds, threads, begun, lost>>

\* The pool ends with the main process.
PgNext(hanging) ==
  /\ qstep \notin {"import", "done", "dead", "hung"}
  /\ \/ BeginQuery \/ (\E c \in starts : ScanStart(c)) \/ (\E c \in new_creds : Submit(c))
     \/ Collect \/ TimeOut \/ EndScan \/ Finish(hanging)
     \/ \E w \in Workers : Work(w)
=============================================================================
