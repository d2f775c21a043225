------------------------------ MODULE MCPbang ------------------------------
(* Instances of Pbang for TLC: a file with two names, one of them in a directory.  The
   vector starts with one byte, so that the file and the log need larger ones. *)
EXTENDS Pbang
MCTree ==
  {[dir |-> 2, name |-> "", ino |-> 2],
   [dir |-> 2, name |-> "d", ino |-> 10],
   [dir |-> 2, name |-> "f", ino |-> 9],
   [dir |-> 10, name |-> "g", ino |-> 9]}

\* Clear memory, and memory in which the root's bit is one.
MCLeftovers == {{}, {2}}
Clear == {{}}
=============================================================================
