------------------------------ MODULE NeoTool ------------------------------
(***************************************************************************)
(* neo-tool -p: copies the database into a graph of activities, agents and *)
(* file versions.  Every statement is a get_or_create, so that it can be   *)
(* repeated; but nothing is ever taken out of the graph, and pg_provd goes *)
(* on writing to the database between two statements.  neo-tool -b asks    *)
(* the graph for the ancestors of files.                                   *)
(***************************************************************************)
EXTENDS ProvDb

CONSTANTS MaxRuns, MaxKills   \* bounds

ASSUME NeoToolAssumption == MaxRuns \in Nat /\ MaxKills \in Nat

VARIABLES
  tstep,        \* "off", "scan", and the steps of scan_pg_cred for cred
  option,       \* of this run: <<"all">>, <<"cred", c>>, <<"inode", i, v>> or <<"bench">>
  todo,         \* credentials to scan, each with what tells it from its likes
  cred,         \* the one in hand
  outputs, inputs, \* what get_files returned
  pending,      \* edges this step still has to merge
  neo_nodes, neo_edges, \* the graph
  ends,         \* how the last run ended
  runs, kills,
  len0, len1,   \* history: rows when this run began, and when the first one did
  scans         \* history: credential -> how often get_files was called

toolVars == <<tstep, option, todo, cred, outputs, inputs, pending, neo_nodes, neo_edges,
              ends, runs, kills, len0, len1, scans>>

NoRun == <<"none">>

ToolInit ==
  /\ tstep = "off" /\ option = NoRun /\ ends = "none"
  /\ todo = {} /\ cred = 0 /\ outputs = {} /\ inputs = {} /\ pending = {}
  /\ neo_nodes = {} /\ neo_edges = {}
  /\ runs = 0 /\ kills = 0 /\ len0 = 0 /\ len1 = 0 /\ scans = <<>>

Activity(c)       == <<"Activity", c>>
AgentNode(u)      == <<"Agent", u>>
FileVersion(i, v) == <<"File", i, v>>
Relation(a, rel, b) == [from |-> a, rel |-> rel, to |-> b]

DerivedFrom(outs, ins) ==
  {Relation(FileVersion(o[1], o[2]), "WasDerivedFrom", FileVersion(i[1], i[2])) :
     o \in outs, i \in ins}

-----------------------------------------------------------------------------
(* query_handlers_postgres.py *)

NoSetid == {c \in {db[n].provid : n \in DOMAIN db} : Setids(c) = {}}

get_credforks(c) == {db[n].newid : n \in RowsOf("credfork", c)}

\* get_setids asks the credential itself and then its parents.
get_setids(c) ==
  IF Setids(c) # {} THEN {LatestUid(c)}
  ELSE {LatestUid(p) : p \in {s \in UNION {Parents(d) : d \in WalkBack({c}, NoSetid)} :
                                Setids(s) # {}}}

\* Where the forks end, it uses a variable that has no value yet.
EndsWithoutSetid(c) == Setids(c) = {} /\ \E d \in WalkBack({c}, NoSetid) : Parents(d) = {}
NeverEnds(c)        == Setids(c) = {} /\ GoesRound({c}, NoSetid)

\* The rows of file_p whose mask is one of these and nothing more.
Versions(c, masks) == {<<r.inode, r.version>> : r \in {x \in FilePs(c) : x.mask \in masks}}

get_writes(c) == Versions(c, {{"WRITE"}, {"APPEND"}})

\* Mutant: a version that is written is stepped over once.
LowerOnce(iv, written) ==
  IF iv \in written /\ iv[2] > 0 THEN <<iv[1], iv[2] - 1>> ELSE iv

\* "while (inode,version) in included_inode_versions and version > 0".
Lower(iv, written) ==
  LET down[v \in Nat] == IF <<iv[1], v>> \in written /\ v > 0 THEN down[v - 1] ELSE v
  IN <<iv[1], down[iv[2]]>>

get_reads(c, written) == {Lower(iv, written) : iv \in Versions(c, {{"READ"}})}

-----------------------------------------------------------------------------
(* neo-tool.py *)

Idle == pending = {}

NextCred(rest) == todo' = rest /\ tstep' = "scan" /\ cred' = 0 /\ outputs' = {} /\ inputs' = {}

Provids == {db[n].provid : n \in DOMAIN db}

\* What config.py lets through: one of -A, -c and -i with -v, or -b alone.
Options ==
  {<<"all">>, <<"bench">>} \cup {<<"cred", c>> : c \in Provids}
    \cup {<<"inode", db[k].inode, db[k].version>> : k \in Table("file_p")}

\* The list of credentials is read at once.  An inode's writers come with one entry
\* for each of their rows.
Listed(o) ==
  CASE o[1] = "all"   -> {<<c, c>> : c \in Provids}
    [] o[1] = "cred"  -> {<<o[2], o[2]>>}
    [] o[1] = "bench" -> {}
    [] o[1] = "inode" ->
         {<<n, db[n].provid>> : n \in {m \in Table("file_p") :
            <<db[m].inode, db[m].version>> = <<o[2], o[3]>> /\ db[m].mask = {"WRITE"}}}

\* main()
StartTool ==
  /\ tstep = "off" /\ runs < MaxRuns
  /\ runs' = runs + 1 /\ ends' = "none"
  /\ len0' = Len(db) /\ len1' = IF runs = 0 THEN Len(db) ELSE len1
  /\ option' \in Options /\ todo' = Listed(option')
  /\ tstep' = IF option'[1] = "bench" THEN "bench" ELSE "scan"
  /\ UNCHANGED <<cred, outputs, inputs, pending, neo_nodes, neo_edges, kills, scans>>

\* Mutant: a credential whose activity is there already is left out.
PeekOnce(t) ==
  /\ tstep = "scan" /\ t \in todo
  /\ option[1] # "inode" => \A s \in todo : t[1] <= s[1]
  /\ todo' = todo \ {t}
  /\ IF Execs(t[2]) = {} \/ Activity(t[2]) \in neo_nodes THEN UNCHANGED <<tstep, cred, neo_nodes>>
     ELSE /\ tstep' = "forks" /\ cred' = t[2]
          /\ neo_nodes' = neo_nodes \cup {Activity(t[2])}
  /\ UNCHANGED <<option, outputs, inputs, pending, neo_edges, ends, runs, kills, len0, len1, scans>>

\* scan_pg_cred looks at the execs first; a credential without any is left out.
Peek(t) ==
  /\ tstep = "scan" /\ t \in todo
  /\ option[1] # "inode" => \A s \in todo : t[1] <= s[1]
  /\ todo' = todo \ {t}
  /\ IF Execs(t[2]) = {} THEN UNCHANGED <<tstep, cred, neo_nodes>>
     ELSE /\ tstep' = "forks" /\ cred' = t[2]
          /\ neo_nodes' = neo_nodes \cup {Activity(t[2])}
  /\ UNCHANGED <<option, outputs, inputs, pending, neo_edges, ends, runs, kills, len0, len1, scans>>

\* One get_or_create_path, with the node at its other end.
Merge(e) ==
  /\ e \in pending
  /\ pending' = pending \ {e}
  /\ neo_edges' = neo_edges \cup {e}
  /\ neo_nodes' = neo_nodes \cup {e.from, e.to}
  /\ UNCHANGED <<tstep, option, todo, cred, outputs, inputs, ends, runs, kills, len0, len1, scans>>

Step(from, to, edges) ==
  /\ tstep = from /\ Idle
  /\ tstep' = to /\ pending' = edges
  /\ UNCHANGED <<option, todo, cred, neo_nodes, neo_edges, ends, runs, kills, len0, len1>>

Forks ==
  /\ Step("forks", "agent",
          {Relation(Activity(d), "WasForkedFrom", Activity(cred)) : d \in get_credforks(cred)})
  /\ UNCHANGED <<outputs, inputs, scans>>

Associate ==
  /\ \E u \in get_setids(cred) :
       Step("agent", "writes", {Relation(Activity(cred), "WasAssociatedWith", AgentNode(u))})
  /\ UNCHANGED <<outputs, inputs, scans>>

\* get_files, first pass and second pass: two statements.
SelectWrites ==
  /\ Step("writes", "reads", {})
  /\ outputs' = get_writes(cred)
  /\ scans' = [c \in DOMAIN scans \cup {cred} |->
                 (IF c \in DOMAIN scans THEN scans[c] ELSE 0) + (IF c = cred THEN 1 ELSE 0)]
  /\ UNCHANGED inputs

SelectReads ==
  /\ inputs' = get_reads(cred, outputs)
  /\ Step("reads", "outputs",
          {Relation(Activity(cred), "Used", FileVersion(i[1], i[2])) : i \in inputs'})
  /\ UNCHANGED <<outputs, scans>>

\* -i: the version is a number and the argument a text, so that the inode decides.
Chosen == IF option[1] = "inode" THEN {o \in outputs : o[1] = option[2]} ELSE outputs

Outputs ==
  /\ Step("outputs", "next",
          {Relation(FileVersion(o[1], o[2]), "WasGeneratedBy", Activity(cred)) : o \in Chosen}
            \cup DerivedFrom(Chosen, inputs))
  /\ UNCHANGED <<outputs, inputs, scans>>

ScanNext ==
  /\ tstep = "next" /\ Idle
  /\ NextCred(todo)
  /\ UNCHANGED <<option, pending, neo_nodes, neo_edges, ends, runs, kills, len0, len1, scans>>

Stop(how) ==
  /\ tstep' = "off" /\ ends' = how
  /\ todo' = {} /\ cred' = 0 /\ outputs' = {} /\ inputs' = {} /\ pending' = {}
  /\ UNCHANGED <<option, neo_nodes, neo_edges, runs, len0, len1, scans>>

\* benchmark(): a target without ancestors is passed over and not counted.  The first
\* that has some ends the run, since the text that reports it has places for one value
\* and gets two; so does the query while there is no index of files.
Bench ==
  /\ tstep = "bench"
  /\ \/ \E e \in neo_edges : e.rel = "WasDerivedFrom"
     \/ \A x \in neo_nodes : x[1] # "File"
  /\ Stop("died") /\ UNCHANGED kills

Complete == tstep = "scan" /\ todo = {} /\ Stop("complete") /\ UNCHANGED kills

\* UnboundLocalError in get_setids.
Die == tstep = "agent" /\ Idle /\ EndsWithoutSetid(cred) /\ Stop("died") /\ UNCHANGED kills

KillTool ==
  /\ tstep # "off" /\ kills < MaxKills
  /\ kills' = kills + 1 /\ Stop("killed")

ToolNext ==
  \/ StartTool \/ (\E t \in todo : Peek(t)) \/ (\E e \in pending : Merge(e))
  \/ Forks \/ Associate \/ SelectWrites \/ SelectReads \/ Outputs \/ ScanNext
  \/ Complete \/ Die \/ Bench \/ KillTool
=============================================================================
