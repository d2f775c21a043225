----------------------------- MODULE SnapGraph -----------------------------
(***************************************************************************)
(* reporters/snap_provd: the graph that snap_provd and snap_cat build in   *)
(* memory (snap_handlers.cpp).  A credential, a version of an inode, a     *)
(* user, a group and a socket address become nodes; maps lead from the     *)
(* kernel's ids to them; a pair of nodes has one edge at most.             *)
(*                                                                         *)
(* The kernel numbers new credentials like freed ones, and ids stay below  *)
(* 2^31.  Each life of an id is numbered in lives so that the graph can be *)
(* compared with what happened.  SnapProvd has the programs around it.     *)
(***************************************************************************)
EXTENDS Naturals, Sequences, Functions

CONSTANTS
  Creds,      \* credential ids
  Versions,   \* <<inode, version>> pairs
  Users,      \* the four user ids of a setid
  Groups,     \* the four group ids of a setid
  Ports,      \* ports of IPv4 socket addresses
  MaxRecords  \* bound: records of the log

ASSUME BoundAssumption == MaxRecords \in Nat

VARIABLES
  nodes,                  \* the graph's nodes, by id + 1
  prog,                   \* of each node: the program attributes handle_exec sets
  boots,                  \* the activities of subtype BOOT; the others are FORKs
  edges,                  \* EdgeMap: from pairs of nodes to the edge's relation
  CredMap, InodeVersionMap, UserMap, GroupMap, SockSendMap, SockRecvMap,
  lives,                  \* the kernel's live credentials and the number of their life
  facts,                  \* what the records read said, as relations between things
  forked,                 \* lives begun
  count                   \* records read

graph == <<nodes, prog, boots, edges>>
maps  == <<CredMap, InodeVersionMap, UserMap, GroupMap, SockSendMap, SockRecvMap>>
truth == <<lives, facts, forked>>
graphVars == <<graph, maps, truth, count>>

Empty == [x \in {} |-> 0]

\* What a node stands for.  An activity is the life its credential had when the node
\* was made; a packet is found again by credential and port.
Life(n)      == [kind |-> "life", key |-> n]
Inode(iv)    == [kind |-> "inode", key |-> iv]
User(u)      == [kind |-> "user", key |-> u]
Group(g)     == [kind |-> "group", key |-> g]
Packet(d, k) == [kind |-> d, key |-> k]

Ids == 1..Len(nodes)

GraphInit ==
  /\ nodes = <<>> /\ prog = Empty /\ boots = {} /\ edges = Empty
  /\ CredMap = Empty /\ InodeVersionMap = Empty
  /\ UserMap = Empty /\ GroupMap = Empty
  /\ SockSendMap = Empty /\ SockRecvMap = Empty
  /\ lives = Empty /\ facts = {} /\ forked = 0
  /\ count = 0

\* The destructor of ProvenanceGraph: the graph goes with its process.
Discard ==
  /\ nodes' = <<>> /\ prog' = Empty /\ boots' = {} /\ edges' = Empty
  /\ CredMap' = Empty /\ InodeVersionMap' = Empty
  /\ UserMap' = Empty /\ GroupMap' = Empty
  /\ SockSendMap' = Empty /\ SockRecvMap' = Empty
  /\ facts' = {}

-----------------------------------------------------------------------------
(* Nodes and edges *)

Put(m, k, v) == [x \in DOMAIN m \cup {k} |-> IF x = k THEN v ELSE m[x]]
Without(m, k) == Restrict(m, DOMAIN m \ {k})

\* get_or_create_node, over the nodes ns and one of the maps.
Node(ns, m, k, thing) ==
  IF k \in DOMAIN m
  THEN [ns |-> ns, map |-> m, id |-> m[k]]
  ELSE [ns |-> Append(ns, thing), map |-> Put(m, k, Len(ns) + 1), id |-> Len(ns) + 1]

\* The node that get_or_create_node has added, if it has.
Made(n) == 1..Len(n.ns) \ Ids

\* Mutant: an unknown credential is taken for the node made last.
CredNodeLast(c) ==
  IF c \in DOMAIN CredMap THEN [map |-> CredMap, id |-> CredMap[c]]
  ELSE LET last == IF nodes = <<>> THEN 1 ELSE Len(nodes)
       IN [map |-> Put(CredMap, c, last), id |-> last]

\* CredMap[c]: operator[] inserts a 0 for an unknown credential, which is the id of
\* the first node.
CredNode(c) ==
  IF c \in DOMAIN CredMap THEN [map |-> CredMap, id |-> CredMap[c]]
  ELSE [map |-> Put(CredMap, c, 1), id |-> 1]

EdgePair(s, d) == <<s, d>>

get_edge(es, s, d) == EdgePair(s, d) \in DOMAIN es

\* get_or_create_edge: the relation of an edge that is there is not looked at.
Edge(es, s, d, rel) ==
  IF s = d \/ get_edge(es, s, d) THEN es ELSE Put(es, EdgePair(s, d), rel)

Fact(rel, x, y) == [rel |-> rel, from |-> x, to |-> y]

Me(c) == Life(lives[c])

Count == count < MaxRecords /\ count' = count + 1

-----------------------------------------------------------------------------
(* The search for ancestors, which nothing calls while ANCESTOR_CACHE is false *)

\* Mutant: the relation of the edge is not looked at.
FollowsAll(i) == {j \in Ids : get_edge(edges, i, j) /\ i \notin boots}

\* The calls RecurseAncestors makes for a node: to those who wrote a version and to
\* what a forked process read.
Follows(i) ==
  {j \in Ids :
     /\ get_edge(edges, i, j)
     /\ \/ nodes[i].kind = "inode" /\ edges[EdgePair(i, j)] = "WasGeneratedBy"
        \/ nodes[i].kind = "life" /\ i \notin boots /\ edges[EdgePair(i, j)] = "Used"}

\* The nodes it is called with at each depth.
Calls(i) ==
  LET at[d \in 0..Len(nodes)] == IF d = 0 THEN {i} ELSE UNION {Follows(j) : j \in at[d - 1]}
  IN at

\* A recursion deeper than there are nodes goes round in circles until the stack is full.
AncestorsEnd(iv) == Calls(InodeVersionMap[iv])[Len(nodes)] = {}

GetAncestors(iv) ==
  {nodes[i] : i \in {j \in UNION Range(Calls(InodeVersionMap[iv])) : nodes[j].kind = "inode"}}

-----------------------------------------------------------------------------
(* The handlers *)

\* The kernel's first record.
handle_boot(c) ==
  LET b == Node(nodes, CredMap, c, Life(1))
  IN /\ count = 0 /\ Count
     /\ nodes' = b.ns /\ CredMap' = Put(b.map, c, b.id) /\ boots' = boots \cup Made(b)
     /\ lives' = Put(lives, c, 1) /\ forked' = 1
     /\ UNCHANGED <<prog, edges, InodeVersionMap, UserMap, GroupMap, SockSendMap,
                    SockRecvMap, facts>>

handle_credfork(c, d) ==
  LET old == Node(nodes, CredMap, c, Me(c))
      new == Node(old.ns, old.map, d, Life(forked + 1))
  IN /\ c \in DOMAIN lives /\ d \notin DOMAIN lives
     /\ Count
     /\ nodes' = new.ns /\ CredMap' = new.map /\ boots' = boots \cup Made(old)
     /\ edges' = Edge(edges, new.id, old.id, "WasForkedFrom")
     /\ lives' = Put(lives, d, forked + 1) /\ forked' = forked + 1
     /\ facts' = facts \cup {Fact("WasForkedFrom", Life(forked + 1), Me(c))}
     /\ UNCHANGED <<prog, InodeVersionMap, UserMap, GroupMap, SockSendMap, SockRecvMap>>

handle_credfree(c) ==
  /\ c \in DOMAIN lives
  /\ Count
  /\ CredMap' = Without(CredMap, c)
  /\ lives' = Without(lives, c)
  /\ UNCHANGED <<graph, InodeVersionMap, UserMap, GroupMap, SockSendMap, SockRecvMap,
                 facts, forked>>

\* The attributes of the program overwrite those of an earlier one; the library
\* drops them when there is no such node.
handle_exec(c, iv) ==
  LET a == CredNode(c)
  IN /\ c \in DOMAIN lives
     /\ Count
     /\ CredMap' = a.map
     /\ prog' = IF a.id \in Ids THEN Put(prog, a.id, iv) ELSE prog
     /\ facts' = {f \in facts : f.rel # "Runs" \/ f.from # Me(c)}
                   \cup {Fact("Runs", Me(c), Inode(iv))}
     /\ UNCHANGED <<nodes, boots, edges, InodeVersionMap, UserMap, GroupMap, SockSendMap,
                    SockRecvMap, lives, forked>>

\* Mutant: a read is recorded although the process wrote the version.
ReadEdgeAlways(es, iv, a, read) ==
  IF read THEN Edge(es, a, iv, "Used") ELSE es

\* The read edge, unless there is a write edge between the two.
ReadEdge(es, iv, a, read) ==
  IF read /\ ~get_edge(es, iv, a) THEN Edge(es, a, iv, "Used") ELSE es

\* A mask with MAY_READ, with MAY_WRITE or MAY_APPEND, or with both.
handle_file_p(c, iv, read, write) ==
  LET n  == Node(nodes, InodeVersionMap, iv, Inode(iv))
      a  == CredNode(c)
      es == IF write THEN Edge(edges, n.id, a.id, "WasGeneratedBy") ELSE edges
      wrote == write \/ Fact("WasGeneratedBy", Inode(iv), Me(c)) \in facts
  IN /\ c \in DOMAIN lives /\ (read \/ write)
     /\ Count
     /\ nodes' = n.ns /\ InodeVersionMap' = n.map /\ CredMap' = a.map
     /\ edges' = ReadEdge(es, n.id, a.id, read)
     /\ facts' = facts
          \cup (IF write THEN {Fact("WasGeneratedBy", Inode(iv), Me(c))} ELSE {})
          \cup (IF read /\ ~wrote THEN {Fact("Used", Me(c), Inode(iv))} ELSE {})
     /\ UNCHANGED <<prog, boots, UserMap, GroupMap, SockSendMap, SockRecvMap, lives, forked>>

handle_setid(c, u, g) ==
  LET a  == Node(nodes, CredMap, c, Me(c))
      us == Node(a.ns, UserMap, u, User(u))
      gr == Node(us.ns, GroupMap, g, Group(g))
      es == Edge(edges, a.id, us.id, "WasControlledBy")
  IN /\ c \in DOMAIN lives
     /\ Count
     /\ nodes' = gr.ns /\ CredMap' = a.map /\ UserMap' = us.map /\ GroupMap' = gr.map
     /\ edges' = Edge(es, us.id, gr.id, "ActedOnBehalfOf")
     /\ facts' = facts \cup {Fact("WasControlledBy", Me(c), User(u)),
                             Fact("ActedOnBehalfOf", User(u), Group(g))}
     /\ UNCHANGED <<prog, boots, InodeVersionMap, SockSendMap, SockRecvMap, lives, forked>>

\* The key's ip_address points to inet_ntoa's one buffer, so that all keys have the
\* same address and the maps tell credentials and ports apart only.
handle_socksend(c, p) ==
  LET n == Node(nodes, SockSendMap, <<c, p>>, Packet("sent", <<c, p>>))
      a == CredNode(c)
  IN /\ c \in DOMAIN lives
     /\ Count
     /\ nodes' = n.ns /\ SockSendMap' = n.map /\ CredMap' = a.map
     /\ edges' = Edge(edges, n.id, a.id, "WasGeneratedBy")
     /\ facts' = facts \cup {Fact("WasGeneratedBy", Packet("sent", <<c, p>>), Me(c))}
     /\ UNCHANGED <<prog, boots, InodeVersionMap, UserMap, GroupMap, SockRecvMap, lives, forked>>

handle_sockrecv(c, p) ==
  LET n == Node(nodes, SockRecvMap, <<c, p>>, Packet("received", <<c, p>>))
      a == CredNode(c)
  IN /\ c \in DOMAIN lives
     /\ Count
     /\ nodes' = n.ns /\ SockRecvMap' = n.map /\ CredMap' = a.map
     /\ edges' = Edge(edges, a.id, n.id, "Used")
     /\ facts' = facts \cup {Fact("Used", Me(c), Packet("received", <<c, p>>))}
     /\ UNCHANGED <<prog, boots, InodeVersionMap, UserMap, GroupMap, SockSendMap, lives, forked>>

\* What the records say that have a handler, beside the credential: mask tells reads
\* from writes, uid and gid stand for all four of each.
Record ==
       [type : {"boot", "credfree"}, cred : Creds]
  \cup [type : {"credfork"}, cred : Creds, forked_cred : Creds]
  \cup [type : {"exec"}, cred : Creds, inode : Versions]
  \cup [type : {"file_p"}, cred : Creds, inode : Versions,
        mask : (SUBSET {"read", "write"}) \ {{}}]
  \cup [type : {"setid"}, cred : Creds, uid : Users, gid : Groups]
  \cup [type : {"socksend", "sockrecv"}, cred : Creds, port : Ports]

\* handle(): a record of another type changes nothing.
Handle ==
  \E m \in Record :
    \/ m.type = "boot"     /\ handle_boot(m.cred)
    \/ m.type = "credfork" /\ handle_credfork(m.cred, m.forked_cred)
    \/ m.type = "credfree" /\ handle_credfree(m.cred)
    \/ m.type = "exec"     /\ handle_exec(m.cred, m.inode)
    \/ m.type = "file_p"   /\ handle_file_p(m.cred, m.inode, "read" \in m.mask, "write" \in m.mask)
    \/ m.type = "setid"    /\ handle_setid(m.cred, m.uid, m.gid)
    \/ m.type = "socksend" /\ handle_socksend(m.cred, m.port)
    \/ m.type = "sockrecv" /\ handle_sockrecv(m.cred, m.port)
=============================================================================
