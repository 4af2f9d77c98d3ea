----------------------------- MODULE RunLength -----------------------------
(***************************************************************************)
(* The run-length code shared by wzip.c, wpzip.c and wpzip_unoptimized.c.  *)
(* A run is a pair of a count and a character (the code writes the count   *)
(* as four bytes and the character as one); an encoding is a sequence of   *)
(* runs.                                                                   *)
(***************************************************************************)
EXTENDS Naturals, Sequences, SequencesExt

CONSTANTS Char,      \* the characters a file may hold
          Missing    \* stands for a file that cannot be opened

ASSUME CharAssumption == Char # {}

Run == [count : Nat, char : Char]

(* A run that has become n characters longer.                              *)
Bump(r, n) == [count |-> r.count + n, char |-> r.char]
BumpLast(runs, n) ==
    IF runs = <<>> THEN runs ELSE [runs EXCEPT ![Len(runs)] = Bump(@, n)]

(* One more character: it extends the last run or opens a new one.  This is *)
(* the body of the loop of every encoder of the repository.                 *)
AddChar(runs, c) ==
    IF runs # <<>> /\ Last(runs).char = c
    THEN BumpLast(runs, 1)
    ELSE Append(runs, [count |-> 1, char |-> c])

Rle(text) == FoldLeft(AddChar, <<>>, text)

(* What the runs decode to.                                                *)
Expand(runs) ==
    FlattenSeq([k \in DOMAIN runs |-> [n \in 1 .. runs[k].count |-> runs[k].char]])

(* The text of a command line: its files one after the other.              *)
TextOf(files) == FlattenSeq(files)
=============================================================================
