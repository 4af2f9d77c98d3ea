----------------------------- MODULE MCZipTools -----------------------------
(***************************************************************************)
(* Instances of ZipTools.  A chunk of two bytes at least gives a file of    *)
(* four bytes two threads and one of six three.                             *)
(***************************************************************************)
EXTENDS ZipTools

CONSTANTS a, b

Texts(n) == UNION {[1 .. len -> {a, b}] : len \in 0 .. n}

(* Texts up to swapping a and b.                                            *)
Named(n) == {t \in Texts(n) : t = <<>> \/ t[1] = a}

(* Every pair of files of at most three characters, empty and missing ones
   included, that holds a character at all; a file of four or five with a
   shorter one after or before it; and one of six. *)
Lists == ({<<f, g>> : f \in Named(3) \cup {Missing}, g \in Texts(3) \cup {Missing}}
             \ { << <<>>, <<>> >> })
         \cup {<<f, g>> : f \in Named(5) \ Texts(3), g \in Texts(1) \cup {Missing}}
         \cup {<<g, f>> : f \in Named(4) \ Texts(3), g \in Texts(2)}
         \cup { << <<a, b, b, b, b, a>> >> }

ASSUME TextsAreSound == LinesHaveText
ASSUME TextsAreShort == LinesShort
=============================================================================
