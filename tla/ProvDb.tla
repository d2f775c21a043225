------------------------------- MODULE ProvDb -------------------------------
(***************************************************************************)
(* The tables that pg_provd fills (pg_cleardb.c), as pg_query and neo-tool *)
(* read them: row n of db is the event n of main joined with its row of    *)
(* the table of its type.                                                  *)
(***************************************************************************)
EXTENDS Integers, Sequences, FiniteSets

VARIABLE db

\* A row of main with the columns of one of the other tables.
JoinedRow == [event_type : STRING, provid : Int, newid : Int, uid : Int,
              inode : Int, version : Nat, mask : SUBSET STRING]

\* Columns a table does not have are 0.
BareRow(type, c) == [event_type |-> type, provid |-> c, newid |-> 0, uid |-> 0,
                 inode |-> 0, version |-> 0, mask |-> {}]

Credfork(c, d)  == [BareRow("credfork", c) EXCEPT !.newid = d]
Setid(c, u)     == [BareRow("setid", c) EXCEPT !.uid = u]
Exec(c, i)      == [BareRow("exec", c) EXCEPT !.inode = i]
FileP(c, i, v, mask) == [BareRow("file_p", c) EXCEPT !.inode = i, !.version = v, !.mask = mask]
Sockrecv(c, ip) == [BareRow("sockrecv", c) EXCEPT !.inode = ip]

Table(type)      == {n \in DOMAIN db : db[n].event_type = type}
RowsOf(type, c)  == {n \in Table(type) : db[n].provid = c}

Setids(c)  == RowsOf("setid", c)
Execs(c)   == RowsOf("exec", c)
FilePs(c)  == {db[n] : n \in RowsOf("file_p", c)}

\* ORDER BY eventid DESC, the first row.
LatestUid(c) == db[CHOOSE n \in Setids(c) : \A k \in Setids(c) : k <= n].uid

\* SELECT provid FROM credfork WHERE newid = c: with ids used again there may be
\* several rows, and "limit 1" without an order takes any of them.
Parents(c) == {db[n].provid : n \in {k \in Table("credfork") : db[k].newid = c}}

\* The credentials among known that a walk back over the forks goes through when
\* it starts from those in cs and goes on from each in Passes.
WalkBack(cs, Passes) ==
  LET back[n \in Nat] ==
        IF n = 0 THEN cs
        ELSE LET before == back[n - 1]
             IN before \cup (UNION {Parents(d) : d \in before} \cap Passes)
  IN back[Cardinality(Table("credfork"))]

\* Such a walk may go round for ever.
GoesRound(cs, Passes) ==
  \E d \in WalkBack(cs, Passes) : d \in WalkBack(Parents(d) \cap Passes, Passes)
=============================================================================
