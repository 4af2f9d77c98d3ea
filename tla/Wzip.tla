-------------------------------- MODULE Wzip --------------------------------
(***************************************************************************)
(* assigned-project-concurrency/wzip.c: the serial zip.  One loop over the  *)
(* bytes of all files keeps the run being counted in the globals count and  *)
(* current, which survive from one file to the next, and writes a run when  *)
(* the character changes.                                                   *)
(***************************************************************************)
EXTENDS RunLength, Integers

CONSTANT FileLists    \* the command lines

ASSUME FileListsAssumption ==
    /\ Missing \notin Seq(Char)
    /\ FileLists \subseteq Seq(Seq(Char) \cup {Missing}) \ {<<>>}

VARIABLES files,  \* argv[1 ..]
          i,      \* the file main is at
          unread, \* what is left of the open stream, or Missing before fopen
          run,    \* count and current
          out, status

vars == <<files, i, unread, run, out, status>>

TypeOK ==
    /\ files \in FileLists
    /\ i \in 1 .. Len(files) + 1
    /\ unread \in Seq(Char) \cup {Missing}
    /\ run \in Run
    /\ out \in Seq(Run)
    /\ status \in {"running", "written", "exited", "failed"}

(* The count before the first character.  Slip: a sentinel, as the variant of
   this program in assigned_project_utilities keeps in prevChar. *)
Sentinel == -1
NoCount  == 0

Init == /\ files \in FileLists
        /\ i = 1
        /\ unread = Missing
        /\ run = [count |-> NoCount, char |-> CHOOSE c \in Char : TRUE]
        /\ out = <<>>
        /\ status = "running"

Open == /\ status = "running"
        /\ i <= Len(files)
        /\ unread = Missing
        /\ unread' = files[i]
        /\ status' = IF files[i] = Missing THEN "failed" ELSE "running"
        /\ UNCHANGED <<files, i, run, out>>

(* Nothing has been counted yet.  Slip: the first character of every file is
   taken for the first one, and what was being counted is forgotten. *)
NewFile   == unread = files[i]
FirstChar == run.count = NoCount

Read == /\ status = "running"
        /\ unread # Missing /\ unread # <<>>
        /\ LET c == Head(unread)
           IN \/ /\ FirstChar
                 /\ run' = [count |-> 1, char |-> c]
                 /\ UNCHANGED out
              \/ /\ ~FirstChar
                 /\ c = run.char
                 /\ run' = Bump(run, 1)
                 /\ UNCHANGED out
              \/ /\ ~FirstChar
                 /\ c # run.char
                 /\ out' = Append(out, run)
                 /\ run' = [count |-> 1, char |-> c]
        /\ unread' = Tail(unread)
        /\ UNCHANGED <<files, i, status>>

(* feof: the stream is closed and main goes on to the next file.             *)
Close == /\ status = "running"
         /\ unread = <<>>
         /\ i' = i + 1
         /\ unread' = Missing
         /\ UNCHANGED <<files, run, out, status>>

(* main writes the last run, of no characters when nothing was read.        *)
WriteLast == /\ status = "running"
             /\ i > Len(files)
             /\ out' = Append(out, run)
             /\ status' = "written"
             /\ UNCHANGED <<files, i, unread, run>>

Exit == /\ status = "written"
        /\ status' = "exited"
        /\ UNCHANGED <<files, i, unread, run, out>>

Next == Open \/ Read \/ Close \/ WriteLast \/ Exit

-----------------------------------------------------------------------------
(* In between, the text read so far is what is written and what is counted:
   nothing is lost at the boundary of two files. *)
NothingLost ==
    LET done == TextOf(SubSeq(files, 1, i - 1))
        here == IF unread = Missing THEN <<>>
                ELSE SubSeq(files[i], 1, Len(files[i]) - Len(unread))
    IN  status = "running" => Expand(Append(out, run)) = done \o here

(* The command lines on which the encoding of the text is all the program writes: of no
   character at all it writes a run of none. *)
LinesHaveText ==
    \A list \in FileLists :
        (\A n \in DOMAIN list : list[n] # Missing) => TextOf(list) # <<>>

(* The serial program writes the encoding of the whole text, run by run, and
   has written all of it when it exits. *)
Stream == INSTANCE ZipStream WITH
             status <- IF status = "written" THEN "running" ELSE status
StreamSpec == Stream!Spec
=============================================================================
