----------------------------- MODULE ZipStream -----------------------------
(***************************************************************************)
(* What a zip program promises.  It gets a list of files and writes, run by *)
(* run and in order, the encoding of their concatenation; it may stop early *)
(* only when one of the files cannot be opened.  Whether the text is read   *)
(* by one loop or by a crowd of threads is invisible here: wzip.c and       *)
(* wpzip.c are both meant to implement this module.                         *)
(***************************************************************************)
EXTENDS RunLength

VARIABLES files,    \* the files named on the command line
          out,      \* the runs on standard output
          status    \* "running", "exited" (status 0) or "failed"

vars == <<files, out, status>>

Readable == \A k \in DOMAIN files : files[k] # Missing

Init == /\ out = <<>>
        /\ status = "running"

(* The next run of the encoding appears on standard output.  The text before
   the first missing file is all a program can have encoded. *)
ReadablePrefix ==
    SelectInSeq(files, LAMBDA f : f = Missing)

Encoding ==
    IF Readable THEN Rle(TextOf(files))
    ELSE Rle(TextOf(SubSeq(files, 1, ReadablePrefix - 1)))

Emit == /\ status = "running"
        /\ Len(out) < Len(Encoding)
        /\ out' = Append(out, Encoding[Len(out) + 1])
        /\ UNCHANGED <<files, status>>

Finish == /\ status = "running"
          /\ Readable
          /\ out = Encoding
          /\ status' = "exited"
          /\ UNCHANGED <<files, out>>

Fail == /\ status = "running"
        /\ ~Readable
        /\ status' = "failed"
        /\ UNCHANGED <<files, out>>

Next == Emit \/ Finish \/ Fail

Spec == Init /\ [][Next]_vars
=============================================================================
