------------------------------ MODULE MCWpzip ------------------------------
(***************************************************************************)
(* Instances of Wpzip.  A threshold of one byte gives a file of two bytes   *)
(* two threads, so that chunks, remainders and the merge of neighbouring    *)
(* chunks all happen within a few bytes.                                    *)
(***************************************************************************)
EXTENDS Wpzip

CONSTANTS a, b

Texts(n) == UNION {[1 .. len -> {a, b}] : len \in 1 .. n}

(* Every pair of a file of one to three bytes and a file of one or two, up to
   swapping a and b: runs inside a chunk, across the chunks of a file and
   across files, a node that is absorbed whole, two absorbed in a row.  And
   one file of four bytes, whose last thread takes the remainder. *)
ReadableLists == {<<f, g>> : f \in {t \in Texts(3) : t[1] = a}, g \in Texts(2)}
                    \cup { << <<a, b, b, b>> >> }

(* With files that are empty or missing, at the front, inside and at the end. *)
AllLists ==
    { << <<a, b>>, <<b>> >>, << <<>>, <<a>> >>, << <<a>>, <<>>, <<b>> >>,
      << <<a, b>>, Missing >>, << Missing, <<a>> >>, << <<>> >>, << <<a>>, <<>> >> }

(* What the theorems ask of the command lines holds of these, which every run
   below but the one on missing and empty files uses. *)
ASSUME TextsAreSound == HaveText(ReadableLists) /\ FirstHasText(ReadableLists)
=============================================================================
