------------------------------- MODULE Wunzip -------------------------------
(***************************************************************************)
(* wunzip of assigned_project_utilities.  A zipped file is read a byte at a *)
(* time; four bytes make a count, least significant first, and the fifth is *)
(* the character to repeat.  A byte of a count is a number below Base, any  *)
(* other byte a character.                                                  *)
(***************************************************************************)
EXTENDS RunLength, Integers

CONSTANT Base        \* the values a byte has: 256

VARIABLES zipped,    \* the files named on the command line
          at,        \* the loop variable of main
          unread,    \* what is left of the open file, Missing before fopen
          counter, rep_count,
          text,      \* the characters on standard output
          status     \* "idle" before the program starts

(* What the bytes of a count weigh: 1 << 0, 1 << 8, 1 << 16 and 1 << 24.     *)
Weight == <<1, Base, Base * Base, Base * Base * Base>>

(* An int of four bytes.                                                    *)
Limit == (Base * Weight[4]) \div 2
ToInt(n) == ((n + Limit) % (2 * Limit)) - Limit

(* What the zip programs write for a run: fwrite(&count, 4, 1, stdout) on a
   little-endian machine, and the character. *)
Digits(n) == [k \in 1 .. 4 |-> (n \div Weight[k]) % Base]
Bytes(runs) == FlattenSeq([k \in DOMAIN runs |->
                             Append(Digits(runs[k].count), runs[k].char)])

TypeOK ==
    /\ at \in 1 .. Len(zipped) + 1
    /\ unread \in Seq(Char \cup 0 .. Base - 1) \cup {Missing}
    /\ counter \in 0 .. 4
    /\ rep_count \in -Limit .. Limit - 1
    /\ text \in Seq(Char)
    /\ status \in {"idle", "running", "exited", "failed"}

Init == /\ zipped = <<>> /\ at = 1 /\ unread = Missing
        /\ counter = 0 /\ rep_count = 0
        /\ text = <<>> /\ status = "idle"

Start(list) == /\ status = "idle"
               /\ zipped' = list /\ status' = "running"
               /\ UNCHANGED <<at, unread, counter, rep_count, text>>

Open == /\ status = "running" /\ at <= Len(zipped) /\ unread = Missing
        /\ unread' = zipped[at]
        /\ counter' = 0 /\ rep_count' = 0
        /\ status' = IF zipped[at] = Missing THEN "failed" ELSE status
        /\ UNCHANGED <<zipped, at, text>>

(* Slip: the most significant byte comes first.                             *)
BigEndian(digit) == digit * Weight[4 - counter]
Weighed(digit)   == digit * Weight[counter + 1]

ReadCount == /\ status = "running" /\ unread # Missing /\ unread # <<>>
             /\ counter < 4
             /\ rep_count' = ToInt(rep_count + Weighed(Head(unread)))
             /\ counter' = counter + 1
             /\ unread' = Tail(unread)
             /\ UNCHANGED <<zipped, at, text, status>>

ReadChar == /\ status = "running" /\ unread # Missing /\ unread # <<>>
            /\ counter = 4
            /\ text' = text \o [n \in 1 .. rep_count |-> Head(unread)]
            /\ counter' = 0 /\ rep_count' = 0
            /\ unread' = Tail(unread)
            /\ UNCHANGED <<zipped, at, status>>

(* The end of the file, which is never closed.                              *)
NextFile == /\ status = "running" /\ unread = <<>>
            /\ at' = at + 1 /\ unread' = Missing
            /\ UNCHANGED <<zipped, counter, rep_count, text, status>>

Exit == /\ status = "running" /\ at > Len(zipped)
        /\ status' = "exited"
        /\ UNCHANGED <<zipped, at, unread, counter, rep_count, text>>

Next == Open \/ ReadCount \/ ReadChar \/ NextFile \/ Exit
=============================================================================
