----------------------------- MODULE FileStore -----------------------------
(***************************************************************************)
(* What a file system promises to a client that only appends: files come    *)
(* into being empty, grow by all that a call appends and are otherwise left *)
(* alone until they are removed.  A crash loses nothing and leaves no call  *)
(* half done, except that a removal blanks the file first and may be cut    *)
(* short there.                                                             *)
(***************************************************************************)
EXTENDS Naturals, Sequences

CONSTANTS Inum,      \* the files' numbers
          Lengths,   \* how much a call may append
          Tag,       \* what it may append, and
          Zero       \* the byte a blanked file holds

VARIABLES files,     \* the bytes of each file there is, by its number
          removing   \* the file being removed, if any

There       == DOMAIN files
With(i, f)  == [n \in There \cup {i} |-> IF n = i THEN f ELSE files[n]]
Without(ns) == [n \in There \ ns |-> files[n]]

Create(i) == /\ removing = {}
             /\ i \in Inum \ There
             /\ files' = With(i, <<>>)
             /\ UNCHANGED removing

Grow(i) == /\ removing = {}
           /\ i \in There
           /\ \E len \in Lengths, tag \in Tag :
                 files' = With(i, files[i] \o [n \in 1 .. len |-> tag])
           /\ UNCHANGED removing

StartRemove(i) == /\ removing = {}
                  /\ i \in There
                  /\ removing' = {i}
                  /\ UNCHANGED files

Blank(i) == /\ i \in removing
            /\ \E from, to \in DOMAIN files[i] :
                  files' = With(i, [n \in DOMAIN files[i] |->
                                      IF n \in from .. to THEN Zero ELSE files[i][n]])
            /\ UNCHANGED removing

Remove(i) == /\ i \in removing
             /\ files' = Without({i})
             /\ removing' = {}

CutShort == /\ removing # {}
            /\ removing' = {}
            /\ UNCHANGED files

(* Formatting does away with any number of files at a time.                  *)
Wipe == /\ removing = {}
        /\ \E gone \in SUBSET There : files' = Without(gone)
        /\ UNCHANGED removing

Next == \/ \E i \in Inum : Create(i) \/ Grow(i) \/ StartRemove(i) \/ Blank(i) \/ Remove(i)
        \/ CutShort
        \/ Wipe

(* The files a disk brings along are whatever they are.                      *)
Init == /\ There \subseteq Inum
        /\ \A i \in There : files[i] \in Seq(Tag \cup {Zero})
        /\ removing = {}

Spec == Init /\ [][Next]_<<files, removing>>
=============================================================================
