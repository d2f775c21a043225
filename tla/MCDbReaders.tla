---------------------------- MODULE MCDbReaders ----------------------------
(* An instance of DbReaders for TLC. *)
EXTENDS DbReaders

r  == {"READ"}
w  == {"WRITE"}
rw == {"READ", "WRITE"}

\* 0 forks 1 to 4; 2 has executed a program and 3 a setid.
Processes4 == <<Setid(0, 500), Credfork(0, 1), Credfork(1, 2), Credfork(2, 3), Credfork(0, 4),
                Exec(2, 21), Setid(3, 501)>>

\* 1 wrote file 23 and read 21, which 2 and 3 wrote; 2 read 22, which 4 wrote.
Chain == Processes4 \o <<FileP(1, 23, 0, w), FileP(1, 21, 0, r), FileP(2, 21, 0, w), FileP(3, 21, 0, rw),
                         FileP(2, 22, 0, r), FileP(4, 22, 0, w)>>

\* 1 and 2 have forked each other, as ids used again allow; 3 read what 2 wrote.
Round == <<Credfork(1, 2), Credfork(2, 1), FileP(1, 22, 0, r), FileP(2, 21, 0, w), Setid(3, 501),
           FileP(3, 23, 0, w), FileP(3, 21, 0, r), Sockrecv(3, 80)>>

Some == {FileP(c, i, 0, m) : c \in 1..4, i \in {21, 22}, m \in {r, w, rw}}

QueryDbs == {Chain, Round, Append(Chain, Sockrecv(1, 80))} \cup {Append(Chain, a) : a \in Some}

\* Files 2 to 4 are the inodes of the file system below.
LinksDb == {<<Setid(1, 500), FileP(1, 2, 0, r), FileP(1, 3, 0, r), FileP(1, 4, 0, r)>>}

ToolDbs == {<<Setid(0, 500), Credfork(0, 1), Exec(1, 21), FileP(1, 21, 2, w)>>,
            <<Setid(1, 500), Exec(1, 21), FileP(1, 21, 1, r)>>,
            <<Credfork(0, 1), Exec(1, 21), Credfork(1, 2), FileP(1, 21, 1, r)>>,
            <<Setid(0, 500), Exec(0, 9), Credfork(0, 1), Exec(1, 21), FileP(1, 21, 0, r), FileP(0, 21, 1, w)>>}

MCDatabases == ("pickle_links" :> LinksDb) @@ ("pg_query" :> QueryDbs) @@ ("neo-tool" :> ToolDbs)
MCAccesses == {FileP(1, 21, 1, w), FileP(1, 21, 2, r), FileP(1, 22, 0, w)}

MCTree0 == {<<1, "x", 2>>, <<2, "x", 3>>}
=============================================================================
