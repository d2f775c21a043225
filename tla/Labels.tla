------------------------------- MODULE Labels -------------------------------
(***************************************************************************)
(* The conversions of a record's text, which the reporters each have a     *)
(* copy of: argv_to_label (neo_provd, spade_provd, snap_provd) joins a     *)
(* program's arguments, argv_to_postgres_arr (pg_provd) makes an array of  *)
(* them and of the environment, encode_to_utf8 (pg_provd, neo_provd,       *)
(* spade_provd) keeps of a file's name what a query can hold.  Each writes *)
(* into a buffer whose size it computes first, and the first two stop at   *)
(* MAXENVLEN.                                                              *)
(*                                                                         *)
(* The characters written over the record's own text are left out.         *)
(***************************************************************************)
EXTENDS Integers, Sequences, SequencesExt

CONSTANTS
  Texts,       \* what a record may hold
  Argcs,       \* and the number of arguments it gives
  MAXENVLEN

\* Characters: "a" stands for all that are not special, "high" for a byte over 127.
Characters == {"a", "quote", "apostrophe", "backslash", "high", "nul"}

\* A text is the items of a program's stack, each with the 0 at its end.
ASSUME LabelAssumption ==
  /\ \A text \in Texts : text \in Seq(Characters) /\ text # <<>> /\ text[Len(text)] = "nul"
  /\ Argcs \subseteq Nat /\ MAXENVLEN \in Nat

VARIABLES
  conversion,  \* "label", "array" or "utf8"
  cstring,     \* the text
  asked,       \* the number of arguments the record gives
  argc,        \* those still to come
  oldcursor,   \* characters of it read
  newstring,   \* what has been written, without the final 0
  converting   \* the function has not returned

labelVars == <<conversion, cstring, asked, argc, oldcursor, newstring, converting>>

Quotes == {"quote", "apostrophe"}
CountOf(s, C) == Cardinality({i \in DOMAIN s : s[i] \in C})

NameLength == Len(cstring) + 1

\* Mutant: the quotes' backslashes are not counted.
LengthUnescaped == 2 + Len(cstring) + 3 * CountOf(cstring, {"nul"})

\* The size of the buffer of a label or an array.
newlength == 2 + Len(cstring) + 3 * CountOf(cstring, {"nul"}) + 2 * CountOf(cstring, Quotes)

LabelInit(c, text, n) ==
  /\ conversion = c /\ cstring = text
  /\ asked = n /\ argc = n
  /\ oldcursor = 0
  /\ newstring = IF c = "array" THEN <<"{", "quote">> ELSE <<>>
  /\ converting = TRUE

More == oldcursor < Len(cstring) /\ (conversion = "utf8" \/ Len(newstring) < MAXENVLEN)
Char == cstring[oldcursor + 1]

\* A quotation mark of either kind is escaped, a byte outside ASCII is blanked ("_" in
\* spade_provd).
Escaped(x) ==
  CASE x \in Quotes -> <<"backslash", "backslash", "quote">>
    [] x = "high"   -> <<"blank">>
    [] OTHER        -> <<x>>

CopyChar ==
  /\ converting /\ conversion # "utf8" /\ More /\ Char # "nul"
  /\ newstring' = newstring \o Escaped(Char)
  /\ oldcursor' = oldcursor + 1
  /\ UNCHANGED <<conversion, cstring, asked, argc, converting>>

\* A 0 that is not the last byte ends an argument; the last one that is asked for ends
\* the label.  (A count of 0 is below 0 at once.)
NextItem ==
  /\ converting /\ conversion = "label" /\ More
  /\ Char = "nul" /\ oldcursor < Len(cstring) - 1
  /\ argc' = argc - 1
  /\ \/ argc' = 0 /\ converting' = FALSE /\ UNCHANGED <<newstring, oldcursor>>
     \/ /\ argc' # 0
        /\ newstring' = Append(newstring, "blank")
        /\ oldcursor' = oldcursor + 1
        /\ UNCHANGED converting
  /\ UNCHANGED <<conversion, cstring, asked>>

PgItem ==
  /\ converting /\ conversion = "array" /\ More
  /\ Char = "nul" /\ oldcursor < Len(cstring) - 1
  /\ newstring' = newstring \o <<"quote", ",", "quote">>
  /\ oldcursor' = oldcursor + 1
  /\ UNCHANGED <<conversion, cstring, asked, argc, converting>>

LastNul ==
  /\ converting /\ conversion # "utf8" /\ More
  /\ Char = "nul" /\ oldcursor = Len(cstring) - 1
  /\ oldcursor' = oldcursor + 1
  /\ UNCHANGED <<conversion, cstring, asked, argc, newstring, converting>>

\* What a name keeps of a character: no byte outside ASCII, no 0, nothing that would end
\* a quoted string.
Encoded(x) ==
  CASE x \in {"high", "nul"}             -> <<>>
    [] x \in {"backslash", "apostrophe"} -> <<"blank">>
    [] OTHER                             -> <<x>>

Encode ==
  /\ converting /\ conversion = "utf8" /\ More
  /\ newstring' = newstring \o Encoded(Char)
  /\ oldcursor' = oldcursor + 1
  /\ UNCHANGED <<conversion, cstring, asked, argc, converting>>

Return ==
  /\ converting /\ ~More
  /\ newstring' = newstring \o (IF conversion = "array" THEN <<"quote", "}">> ELSE <<>>)
  /\ converting' = FALSE
  /\ UNCHANGED <<conversion, cstring, asked, argc, oldcursor>>

LabelNext == CopyChar \/ NextItem \/ PgItem \/ LastNul \/ Encode \/ Return

-----------------------------------------------------------------------------
(* What the text means *)

\* The members of a finite set of numbers, in their order.
InOrder(S) ==
  CHOOSE e \in Bijection(1..Cardinality(S), S) : \A j, k \in DOMAIN e : j < k => e[j] < e[k]

\* Its items, each of which ends with a 0.
Ends    == InOrder({i \in DOMAIN cstring : cstring[i] = "nul"})
From(k) == IF k = 1 THEN 0 ELSE Ends[k - 1]
Item(k) == FlattenSeq([i \in 1..(Ends[k] - 1 - From(k)) |-> Escaped(cstring[From(k) + i])])

Join(n, separator) ==
  FlattenSeq([k \in 1..n |-> IF k = 1 THEN Item(k) ELSE separator \o Item(k)])

\* The arguments, or with them the environment for a record that gives no number.
Joined ==
  IF conversion = "array" THEN Join(Len(Ends), <<"quote", ",", "quote">>)
  ELSE Join(IF asked \in 1..Len(Ends) THEN asked ELSE Len(Ends), <<"blank">>)

\* The head of the text t, whole if it is shorter than the limit.
CutTo(s, t, limit) ==
  /\ IsPrefix(s, t) /\ (s = t \/ Len(s) >= limit)
  /\ Len(s) <= limit + 2

-----------------------------------------------------------------------------
(* Properties *)

\* argv_to_label, argv_to_postgres_arr and encode_to_utf8: no text is written past the
\* buffer that the counts of its 0s and quotation marks size, and what is returned is
\* the arguments joined, or the array of all items, cut after MAXENVLEN but never so
\* that the array is left open; or the name, without what would end a quoted string.
ConvertedAsMeant ==
  /\ Len(newstring) < (IF conversion = "utf8" THEN NameLength ELSE newlength)
  /\ ~converting =>
       \/ conversion = "label" /\ CutTo(newstring, Joined, MAXENVLEN)
       \/ /\ conversion = "array"
          /\ \E body \in {SubSeq(newstring, 3, Len(newstring) - 2)} :
               /\ newstring = <<"{", "quote">> \o body \o <<"quote", "}">>
               /\ CutTo(body, Joined, MAXENVLEN - 2)
       \/ /\ conversion = "utf8"
          /\ LET kept == InOrder({i \in DOMAIN cstring : cstring[i] \notin {"high", "nul"}})
             IN newstring = [k \in DOMAIN kept |->
                  IF cstring[kept[k]] \in {"apostrophe", "backslash"} THEN "blank"
                  ELSE cstring[kept[k]]]
=============================================================================
