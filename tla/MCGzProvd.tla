----------------------------- MODULE MCGzProvd -----------------------------
(* Instances of GzProvd for TLC: two applications.  An address ends in its 0. *)
EXTENDS GzProvd, TLC
CONSTANTS a, b
Both == {a, b}

\* Equally long addresses: the length the kernel leaves in msgh is always the one
\* that the next address needs.
AlikeAddress == (a :> <<1, 0>>) @@ (b :> <<2, 0>>)

\* Addresses of different lengths.
ShortLong == (a :> <<1, 0>>) @@ (b :> <<1, 2, 3, 0>>)
=============================================================================
