--------------------------- MODULE ZipTools_proofs ---------------------------
(***************************************************************************)
(* Proofs about ZipTools, and through it about the serial zip (Wzip) and    *)
(* the first parallel one (WpzipJoin): for files of any number and length   *)
(* and any number of threads.                                               *)
(***************************************************************************)
EXTENDS ZipTools, RunLength_proofs

-----------------------------------------------------------------------------
(* wzip.c: what has been written and what is being counted is the encoding of
   what has been read. *)

Done(n)  == TextOf(SubSeq(files, 1, n))
Here     == IF unread = Missing THEN <<>>
            ELSE SubSeq(files[i], 1, Len(files[i]) - Len(unread))
TextRead == Done(i - 1) \o Here

PlaceInv ==
    /\ status # "failed" => \A n \in 1 .. i - 1 : files[n] # Missing
    /\ status = "running" /\ unread # Missing =>
         /\ i <= Len(files) /\ files[i] # Missing
         /\ Len(unread) <= Len(files[i])
         /\ unread = SubSeq(files[i], Len(files[i]) - Len(unread) + 1, Len(files[i]))
    /\ status \in {"written", "exited"} => i = Len(files) + 1

CodeInv ==
    /\ status = "running" => IF run.count = 0 THEN TextRead = <<>> /\ out = <<>>
                             ELSE Rle(TextRead) = Append(out, run)
    /\ status \in {"written", "exited"} => out = Rle(TextOf(files)) \/ TextOf(files) = <<>>

WzipInv == TypeOK /\ PlaceInv /\ CodeInv

LEMMA LineFacts ==
    ASSUME files \in FileLists
    PROVE  /\ files \in Seq(Seq(Char) \cup {Missing}) /\ Len(files) \in Nat \ {0}
           /\ Missing \notin Seq(Char) /\ Missing # <<>>
           /\ \A n \in 1 .. Len(files) : files[n] # Missing => files[n] \in Seq(Char)
<1>1. files \in Seq(Seq(Char) \cup {Missing}) /\ files # <<>> /\ Missing \notin Seq(Char)
  BY FileListsAssumption
<1>2. <<>> \in Seq(Char)
  OBVIOUS
<1>3. Len(files) \in Nat \ {0}
  BY <1>1
<1>4. \A n \in 1 .. Len(files) : files[n] \in Seq(Char) \cup {Missing}
  BY <1>1
<1> QED BY <1>1, <1>2, <1>3, <1>4

(* Where main is in the files, while it runs.                                *)
LEMMA ReadingFacts ==
    ASSUME TypeOK, PlaceInv, status = "running"
    PROVE  /\ i - 1 \in 0 .. Len(files) /\ i \in Nat
           /\ \A n \in 1 .. i - 1 : files[n] \in Seq(Char)
           /\ Done(i - 1) \in Seq(Char) /\ Here \in Seq(Char)
           /\ TextRead \in Seq(Char)
           /\ unread = Missing => TextRead = Done(i - 1)
<1>1. files \in FileLists /\ i \in 1 .. Len(files) + 1
      /\ unread \in Seq(Char) \cup {Missing}
  BY DEF TypeOK
<1>2. i - 1 \in 0 .. Len(files) /\ i \in Nat /\ \A n \in 1 .. i - 1 : n \in 1 .. Len(files)
  BY <1>1, LineFacts
<1>3. \A n \in 1 .. i - 1 : files[n] \in Seq(Char)
  BY <1>1, <1>2, LineFacts DEF PlaceInv
<1>4. Done(i - 1) \in Seq(Char)
  BY <1>1, <1>2, <1>3, LineFacts, TextUpTo DEF Done
<1>5. Here \in Seq(Char)
  <2>1. CASE unread = Missing
    BY <2>1 DEF Here
  <2>2. CASE unread # Missing
    <3> PICK f : f = files[i]
      OBVIOUS
    <3> PICK n : n = Len(f) - Len(unread)
      OBVIOUS
    <3>1. f \in Seq(Char) /\ unread \in Seq(Char) /\ Len(unread) <= Len(f)
      BY <1>1, <1>2, <2>2, LineFacts DEF PlaceInv
    <3>2. n \in 0 .. Len(f) /\ \A m \in 1 .. n : f[m] \in Char
      BY <3>1
    <3>3. SubSeq(f, 1, n) \in Seq(Char)
      BY <3>1, <3>2, FirstFiles
    <3> QED BY <2>2, <3>3 DEF Here
  <2> QED BY <2>1, <2>2
<1>6. TextRead \in Seq(Char)
  BY <1>4, <1>5, ConcatProperties DEF TextRead
<1>7. unread = Missing => TextRead = Done(i - 1)
  BY <1>4, ConcatEmptySeq DEF TextRead, Here
<1> QED BY <1>2, <1>3, <1>4, <1>5, <1>6, <1>7

LEMMA WzipStart == ASSUME Init PROVE WzipInv
<1>1. files \in FileLists /\ i = 1 /\ unread = Missing /\ out = <<>> /\ status = "running"
  BY DEF Init
<1>2. Len(files) \in Nat
  BY <1>1, LineFacts
<1>3. run \in Run /\ run.count = 0
  <2>1. (CHOOSE c \in Char : TRUE) \in Char
    BY CharAssumption
  <2> QED BY <2>1 DEF Init, Run, NoCount
<1>4. TypeOK
  BY <1>1, <1>2, <1>3 DEF TypeOK
<1>5. PlaceInv
  BY <1>1 DEF PlaceInv
<1>6. TextRead = <<>>
  <2>1. TextRead = Done(0)
    BY <1>1, <1>4, <1>5, ReadingFacts
  <2>2. 0 \in 0 .. Len(files) /\ \A n \in 1 .. 0 : files[n] \in Seq(Char)
    BY <1>2
  <2>3. Done(0) = <<>>
    BY <1>1, <2>2, LineFacts, TextUpTo DEF Done
  <2> QED BY <2>1, <2>3
<1> QED BY <1>1, <1>3, <1>4, <1>5, <1>6 DEF WzipInv, CodeInv


LEMMA WzipOpen == ASSUME WzipInv, Open PROVE WzipInv'
<1>1. /\ status = "running" /\ i <= Len(files) /\ unread = Missing /\ unread' = files[i]
      /\ status' = IF files[i] = Missing THEN "failed" ELSE "running"
      /\ files' = files /\ i' = i /\ run' = run /\ out' = out
  BY DEF Open
<1>2. TypeOK /\ PlaceInv /\ CodeInv /\ files \in FileLists /\ i \in 1 .. Len(files) + 1
      /\ Len(files) \in Nat
  BY LineFacts DEF WzipInv, TypeOK
<1>3. i \in 1 .. Len(files)
  BY <1>1, <1>2
<1>4. files[i] \in Seq(Char) \cup {Missing}
  BY <1>2, <1>3, LineFacts
<1>5. TypeOK'
  BY <1>1, <1>2, <1>4 DEF TypeOK
<1>6. CASE files[i] = Missing
  BY <1>1, <1>2, <1>5, <1>6 DEF WzipInv, PlaceInv, CodeInv
<1>7. CASE files[i] # Missing
  <2> PICK f : f = files[i]
    OBVIOUS
  <2>1. f \in Seq(Char)
    BY <1>4, <1>7
  <2>2. Len(f) \in Nat /\ Len(f) - Len(f) = 0 /\ 0 + 1 = 1
    BY <2>1
  <2>3. SubSeq(f, 1, Len(f)) = f
    BY <2>1, SubSeqFull
  <2>4. SubSeq(f, 1, 0) = <<>>
    <3>1. 0 \in 0 .. Len(f) /\ \A m \in 1 .. 0 : f[m] \in Char
      BY <2>1
    <3> QED BY <2>1, <3>1, FirstFiles
  <2>5. unread' = f /\ status' = "running"
    BY <1>1, <1>7
  <2>6. PlaceInv'
    BY <1>1, <1>2, <1>3, <1>7, <2>2, <2>3, <2>5 DEF PlaceInv
  <2>7. Here' = <<>> /\ Here = <<>>
    BY <1>1, <1>7, <2>2, <2>4, <2>5 DEF Here
  <2>8. TextRead' = TextRead
    BY <1>1, <2>7 DEF TextRead, Done
  <2> QED BY <1>1, <1>2, <1>5, <2>5, <2>6, <2>8 DEF WzipInv, CodeInv
<1> QED BY <1>6, <1>7

(* A character read is one more character of the text.                       *)
LEMMA ReadMore ==
    ASSUME TypeOK, PlaceInv, Read
    PROVE  /\ TypeOK' /\ PlaceInv'
           /\ Head(unread) \in Char
           /\ TextRead' = Append(TextRead, Head(unread))
<1> PICK f : f = files[i]
  OBVIOUS
<1> PICK n : n = Len(f) - Len(unread)
  OBVIOUS
<1> PICK c : c = Head(unread)
  OBVIOUS
<1>1. /\ status = "running" /\ status' = "running" /\ unread # Missing /\ unread # <<>>
      /\ unread' = Tail(unread) /\ files' = files /\ i' = i
  BY DEF Read
<1>2. /\ files \in FileLists /\ i \in 1 .. Len(files) + 1 /\ unread \in Seq(Char)
      /\ run \in Run /\ out \in Seq(Run)
  BY <1>1 DEF TypeOK
<1>3. /\ i <= Len(files) /\ f # Missing /\ Len(unread) <= Len(f)
      /\ unread = SubSeq(f, Len(f) - Len(unread) + 1, Len(f))
  BY <1>1 DEF PlaceInv
<1>4. i \in 1 .. Len(files) /\ f \in Seq(Char)
  BY <1>2, <1>3, LineFacts
<1>5. n \in Nat /\ n + 1 \in 1 .. Len(f) /\ Len(f) \in Nat /\ Len(unread) = Len(f) - n
      /\ Len(f) - Len(unread) = n
  BY <1>1, <1>2, <1>3, <1>4
<1>6. unread = SubSeq(f, n + 1, Len(f))
  BY <1>3, <1>5
<1>7. c = f[n + 1] /\ Tail(unread) = SubSeq(f, n + 2, Len(f))
  <2> PICK m : m = n + 1
    OBVIOUS
  <2> PICK l : l = Len(f)
    OBVIOUS
  <2>1. l \in m .. l /\ m \in 1 .. l /\ m + 1 = n + 2
    BY <1>5
  <2>2. Head(SubSeq(f, m, l)) = f[m] /\ Tail(SubSeq(f, m, l)) = SubSeq(f, m + 1, l)
    BY <1>4, <2>1, HeadTailOfSubSeq
  <2> QED BY <1>6, <2>1, <2>2
<1>8. c \in Char /\ Tail(unread) \in Seq(Char) /\ Len(Tail(unread)) = Len(unread) - 1
  BY <1>1, <1>2, HeadTailProperties
<1>9. Tail(unread) # Missing
  BY <1>2, <1>8, LineFacts
<1>10. /\ Len(f) - Len(Tail(unread)) = n + 1 /\ Len(Tail(unread)) <= Len(f)
       /\ Len(f) - Len(Tail(unread)) + 1 = n + 2
  BY <1>5, <1>8
<1>11. PlaceInv'
  BY <1>1, <1>3, <1>7, <1>10 DEF PlaceInv
<1>12. run' \in Run /\ out' \in Seq(Run)
  <2>1. [count |-> 1, char |-> c] \in Run
    BY <1>8 DEF Run
  <2>2. Bump(run, 1) \in Run
    BY <1>2, BumpFacts
  <2>3. Append(out, run) \in Seq(Run)
    BY <1>2
  <2>4. \/ run' = [count |-> 1, char |-> c] /\ out' = out
        \/ run' = Bump(run, 1) /\ out' = out
        \/ run' = [count |-> 1, char |-> c] /\ out' = Append(out, run)
    BY DEF Read
  <2> QED BY <1>2, <2>1, <2>2, <2>3, <2>4
<1>13. TypeOK'
  BY <1>1, <1>2, <1>8, <1>12 DEF TypeOK
<1>14. Here = SubSeq(f, 1, n) /\ Here' = SubSeq(f, 1, n + 1)
  BY <1>1, <1>5, <1>9, <1>10 DEF Here
<1>15. SubSeq(f, 1, n + 1) = SubSeq(f, 1, n) \o <<c>>
  <2>1. 1 \in 1 .. Len(f) /\ n + 1 \in 1 .. Len(f) /\ (n + 1) - 1 = n
    BY <1>5
  <2> QED BY <1>4, <1>7, <2>1, SubSeqRecursiveSecond
<1>16. TextRead' = Append(TextRead, c)
  <2> PICK d : d = Done(i - 1)
    OBVIOUS
  <2> PICK h : h = Here
    OBVIOUS
  <2>1. d \in Seq(Char) /\ h \in Seq(Char) /\ TextRead = d \o h
    BY <1>1, ReadingFacts DEF TextRead
  <2>2. TextRead' = d \o (h \o <<c>>)
    BY <1>1, <1>14, <1>15 DEF TextRead, Done
  <2>3. <<c>> \in Seq(Char)
    BY <1>8
  <2>4. (d \o h) \o <<c>> = d \o (h \o <<c>>)
    BY <2>1, <2>3, Associative
  <2>5. d \o h \in Seq(Char)
    BY <2>1, ConcatProperties
  <2>6. Append(d \o h, c) = (d \o h) \o <<c>>
    BY <1>8, <2>5, AppendIsConcat
  <2> QED BY <2>1, <2>2, <2>4, <2>6
<1> QED BY <1>8, <1>11, <1>13, <1>16


LEMMA WzipRead == ASSUME WzipInv, Read PROVE WzipInv'
<1> PICK c : c = Head(unread)
  OBVIOUS
<1> PICK one : one = [count |-> 1, char |-> c]
  OBVIOUS
<1> PICK seen : seen = TextRead
  OBVIOUS
<1>1. /\ TypeOK' /\ PlaceInv' /\ c \in Char /\ TextRead' = Append(seen, c)
  BY ReadMore DEF WzipInv
<1>2. status = "running" /\ status' = "running" /\ run \in Run /\ out \in Seq(Run)
      /\ seen \in Seq(Char)
  BY ReadingFacts DEF WzipInv, TypeOK, Read
<1>3. Rle(Append(seen, c)) = AddChar(Rle(seen), c)
  BY <1>1, <1>2, RleFacts
<1>4. run.count \in Nat /\ one.count = 1 /\ Bump(run, 1).count = run.count + 1
  BY <1>2, BumpFacts DEF Run
<1>5. CASE run.count = 0
  <2>1. run' = one /\ out' = out /\ seen = <<>> /\ out = <<>>
    BY <1>2, <1>5 DEF Read, FirstChar, NoCount, WzipInv, CodeInv
  <2>2. Rle(<<>>) = <<>>
    BY <1>2, RleFacts
  <2>3. AddChar(<<>>, c) = <<one>>
    BY <1>1, <1>2, AddCharFacts
  <2>4. Rle(Append(seen, c)) = <<one>> /\ Append(<<>>, one) = <<one>>
    BY <1>3, <2>1, <2>2, <2>3
  <2> QED BY <1>1, <1>2, <1>4, <2>1, <2>4 DEF WzipInv, CodeInv
<1>6. CASE run.count # 0
  <2>1. Rle(seen) = Append(out, run)
    BY <1>2, <1>6 DEF WzipInv, CodeInv
  <2>2. CASE c = run.char
    <3>1. run' = Bump(run, 1) /\ out' = out
      BY <1>6, <2>2 DEF Read, FirstChar, NoCount
    <3>2. Rle(Append(seen, c)) = Append(out, Bump(run, 1))
      BY <1>1, <1>2, <1>3, <2>1, <2>2, AddCharFacts
    <3> QED BY <1>1, <1>2, <1>4, <3>1, <3>2 DEF WzipInv, CodeInv
  <2>3. CASE c # run.char
    <3>1. run' = one /\ out' = Append(out, run)
      BY <1>6, <2>3 DEF Read, FirstChar, NoCount
    <3>2. Rle(Append(seen, c)) = Append(Append(out, run), one)
      BY <1>1, <1>2, <1>3, <2>1, <2>3, AddCharFacts
    <3> QED BY <1>1, <1>2, <1>4, <3>1, <3>2 DEF WzipInv, CodeInv
  <2> QED BY <2>2, <2>3
<1> QED BY <1>5, <1>6

LEMMA WzipClose == ASSUME WzipInv, Close PROVE WzipInv' /\ TextRead' = TextRead
<1> PICK f : f = files[i]
  OBVIOUS
<1>1. /\ status = "running" /\ unread = <<>> /\ i' = i + 1 /\ unread' = Missing
      /\ files' = files /\ run' = run /\ out' = out /\ status' = "running"
  BY DEF Close
<1>2. /\ TypeOK /\ PlaceInv /\ CodeInv /\ files \in FileLists /\ i \in 1 .. Len(files) + 1
      /\ unread # Missing
  BY <1>1, LineFacts DEF WzipInv, TypeOK
<1>3. i \in 1 .. Len(files) /\ f # Missing
  BY <1>1, <1>2 DEF PlaceInv
<1>4. f \in Seq(Char) /\ Len(f) \in Nat
  BY <1>2, <1>3, LineFacts
<1>5. i + 1 \in 1 .. Len(files) + 1 /\ (i + 1) - 1 = i /\ Len(files) \in Nat
  BY <1>2, <1>3, LineFacts
<1>6. TypeOK'
  BY <1>1, <1>2, <1>5 DEF TypeOK
<1>7. PlaceInv'
  <2>1. \A n \in 1 .. i : n = i \/ n \in 1 .. i - 1
    BY <1>3
  <2>2. \A n \in 1 .. i : files[n] # Missing
    BY <1>1, <1>2, <1>3, <2>1 DEF PlaceInv
  <2> QED BY <1>1, <1>5, <2>2 DEF PlaceInv
<1>8. Here = f
  <2>1. Len(f) - Len(unread) = Len(f)
    BY <1>1, <1>4
  <2>2. Here = SubSeq(f, 1, Len(f))
    BY <1>2, <2>1 DEF Here
  <2> QED BY <1>4, <2>2, SubSeqFull
<1>9. Done(i) = Done(i - 1) \o f
  <2>1. \A n \in 1 .. i : files[n] \in Seq(Char)
    <3>1. \A n \in 1 .. i : n = i \/ n \in 1 .. i - 1
      BY <1>3
    <3> QED BY <1>1, <1>2, <1>4, <3>1, ReadingFacts
  <2>2. i \in 0 .. Len(files) /\ i # 0
    BY <1>3, <1>5
  <2> QED BY <1>2, <2>1, <2>2, LineFacts, TextUpTo DEF Done
<1>10. TextRead' = TextRead
  <2>1. Here' = <<>>
    BY <1>1 DEF Here
  <2>2. TextRead' = Done(i) \o <<>>
    BY <1>1, <1>5, <2>1 DEF TextRead, Done
  <2>3. TextRead = Done(i)
    BY <1>8, <1>9 DEF TextRead
  <2>4. TextRead \in Seq(Char)
    BY <1>1, <1>2, ReadingFacts
  <2>5. Done(i) \o <<>> = Done(i)
    BY <2>3, <2>4, ConcatEmptySeq
  <2> QED BY <2>2, <2>3, <2>5
<1>11. CodeInv'
  BY <1>1, <1>2, <1>10 DEF CodeInv
<1> QED BY <1>6, <1>7, <1>10, <1>11 DEF WzipInv

(* When there is no file left the text read is the whole text.               *)
LEMMA AllRead ==
    ASSUME TypeOK, PlaceInv, status = "running", i > Len(files)
    PROVE  TextRead = TextOf(files) /\ i = Len(files) + 1 /\ unread = Missing
<1>1. files \in FileLists /\ i \in 1 .. Len(files) + 1
  BY DEF TypeOK
<1>2. files \in Seq(Seq(Char) \cup {Missing}) /\ Len(files) \in Nat
  BY <1>1, LineFacts
<1>3. i = Len(files) + 1 /\ unread = Missing
  <2>1. i = Len(files) + 1 /\ ~(i <= Len(files))
    BY <1>1, <1>2
  <2> QED BY <2>1 DEF PlaceInv
<1>4. TextRead = Done(i - 1)
  BY <1>3, ReadingFacts
<1>5. i - 1 = Len(files)
  BY <1>2, <1>3
<1>6. SubSeq(files, 1, Len(files)) = files
  BY <1>2, SubSeqFull
<1> QED BY <1>3, <1>4, <1>5, <1>6 DEF Done

LEMMA WzipWriteLast == ASSUME WzipInv, WriteLast PROVE WzipInv'
<1>1. /\ status = "running" /\ i > Len(files) /\ out' = Append(out, run) /\ status' = "written"
      /\ files' = files /\ i' = i /\ unread' = unread /\ run' = run
  BY DEF WriteLast
<1>2. TypeOK /\ PlaceInv /\ CodeInv /\ run \in Run /\ out \in Seq(Run)
  BY DEF WzipInv, TypeOK
<1>3. TextRead = TextOf(files) /\ i = Len(files) + 1 /\ unread = Missing
  BY <1>1, <1>2, AllRead
<1>4. TypeOK'
  <2>1. Append(out, run) \in Seq(Run)
    BY <1>2
  <2> QED BY <1>1, <1>2, <2>1 DEF TypeOK
<1>5. PlaceInv'
  BY <1>1, <1>2, <1>3 DEF PlaceInv
<1>6. CodeInv'
  BY <1>1, <1>2, <1>3 DEF CodeInv
<1> QED BY <1>4, <1>5, <1>6 DEF WzipInv

LEMMA WzipExit == ASSUME WzipInv, Exit PROVE WzipInv'
BY DEF Exit, WzipInv, TypeOK, PlaceInv, CodeInv

LEMMA WzipStays == ASSUME WzipInv, UNCHANGED vars PROVE WzipInv' /\ TextRead' = TextRead
<1>1. TextRead' = TextRead
  BY DEF vars, TextRead, Done, Here
<1> QED BY <1>1 DEF vars, WzipInv, TypeOK, PlaceInv, CodeInv

LEMMA WzipStep == ASSUME WzipInv, [Next]_vars PROVE WzipInv'
BY WzipOpen, WzipRead, WzipClose, WzipWriteLast, WzipExit, WzipStays DEF Next

LEMMA WzipWrites == ASSUME WzipInv PROVE NothingLost
<1> SUFFICES ASSUME status = "running" PROVE Expand(Append(out, run)) = TextRead
  BY DEF NothingLost, TextRead, Done, Here
<1>1. out \in Seq(Run) /\ run \in Run /\ TextRead \in Seq(Char)
  BY ReadingFacts DEF WzipInv, TypeOK
<1>2. CASE run.count = 0
  <2> PICK none : none = <<>>
    OBVIOUS
  <2>1. TextRead = none /\ out = none
    BY <1>2 DEF WzipInv, CodeInv
  <2>2. Expand(Append(out, run)) = Expand(out) \o Copies(run) /\ Expand(<<>>) = <<>>
        /\ Copies(run) = <<>>
    BY <1>1, <1>2, ExpandFacts, CopiesFacts
  <2>3. none \o none = none
    OBVIOUS
  <2> QED BY <2>1, <2>2, <2>3
<1>3. CASE run.count # 0
  <2>1. Rle(TextRead) = Append(out, run)
    BY <1>3 DEF WzipInv, CodeInv
  <2> QED BY <1>1, <2>1, ExpandRle
<1> QED BY <1>2, <1>3


LEMMA ToolsMove ==
    ASSUME [ToolsNext]_toolVars PROVE [Next]_vars
BY DEF ToolsNext, Wzips, Wpzips, Wunzips, Over, toolVars

LEMMA WzipInvariance == ToolsSpec => []WzipInv
<1>1. ToolsInit => WzipInv
  BY WzipStart DEF ToolsInit
<1>2. WzipInv /\ [ToolsNext]_toolVars => WzipInv'
  BY ToolsMove, WzipStep
<1> QED BY <1>1, <1>2, PTL DEF ToolsSpec

(* The serial zip loses nothing where two files meet: what it has written and
   what it is counting is always the text it has read, for files of any number
   and length. *)
THEOREM SerialLosesNothing == ToolsSpec => []NothingLost
BY WzipInvariance, WzipWrites, PTL

-----------------------------------------------------------------------------
(* wzip.c writes what ZipStream promises.                                    *)

(* The files a zip program can read: all of them, or those before the first
   that is missing. *)
Readables == IF Stream!Readable THEN Len(files) ELSE Stream!ReadablePrefix - 1

(* The operators of RunLength are the same there.                            *)
LEMMA StreamOperators ==
    /\ \A s : Stream!Rle(s) = Rle(s)
    /\ \A s : Stream!TextOf(s) = TextOf(s)
    /\ LET M == {n \in 1 .. Len(files) : files[n] = Missing}
       IN  M # {} => Stream!ReadablePrefix = Min(M)
<1>1. ASSUME NEW s PROVE Stream!Rle(s) = Rle(s)
  BY DEF Stream!Rle, Rle, Stream!FoldLeft, FoldLeft, Stream!MapThenFoldSet, MapThenFoldSet,
         Stream!AddChar, AddChar, Stream!BumpLast, BumpLast, Stream!Bump, Bump,
         Stream!Max, Max, Stream!Last, Last
<1>2. ASSUME NEW s PROVE Stream!TextOf(s) = TextOf(s)
  BY DEF Stream!TextOf, TextOf, Stream!FlattenSeq, FlattenSeq
<1>3. LET M == {n \in 1 .. Len(files) : files[n] = Missing}
      IN  M # {} => Stream!ReadablePrefix = Min(M)
  BY DEF Stream!ReadablePrefix, Stream!SelectInSeq, Stream!Min, Min
<1> QED BY <1>1, <1>2, <1>3

LEMMA ReadableFacts ==
    ASSUME files \in FileLists
    PROVE  /\ Readables \in 0 .. Len(files)
           /\ \A n \in 1 .. Readables : files[n] \in Seq(Char)
           /\ Readables < Len(files) => files[Readables + 1] = Missing
           /\ Stream!Encoding = Rle(Done(Readables))
           /\ Readables = Len(files) => Done(Readables) = TextOf(files)
           /\ Stream!Readable <=> Readables = Len(files)
<1>1. /\ files \in Seq(Seq(Char) \cup {Missing}) /\ Len(files) \in Nat
      /\ DOMAIN files = 1 .. Len(files)
      /\ \A n \in 1 .. Len(files) : files[n] # Missing => files[n] \in Seq(Char)
  BY LineFacts
<1>2. TextOf(files) = Done(Len(files))
  BY <1>1, SubSeqFull DEF Done
<1>3. CASE Stream!Readable
  <2>1. Readables = Len(files) /\ \A n \in 1 .. Len(files) : files[n] # Missing
    BY <1>1, <1>3 DEF Readables, Stream!Readable
  <2>2. Stream!Encoding = Rle(TextOf(files))
    BY <1>3, StreamOperators DEF Stream!Encoding
  <2> QED BY <1>1, <1>2, <1>3, <2>1, <2>2
<1>4. CASE ~Stream!Readable
  <2> DEFINE M == {n \in 1 .. Len(files) : files[n] = Missing}
  <2>1. M # {} /\ M \in SUBSET Nat
    BY <1>1, <1>4 DEF Stream!Readable
  <2>2. Stream!ReadablePrefix = Min(M)
    BY <2>1, StreamOperators
  <2>3. \A n \in 1 .. Len(files) : n \in M <=> files[n] = Missing
    OBVIOUS
  <2>4. \A n \in M : n \in 1 .. Len(files)
    OBVIOUS
  <2> HIDE DEF M
  <2> PICK p : p = Min(M)
    OBVIOUS
  <2>9. p \in M /\ \A y \in M : p <= y
    <3>1. \E x \in M : \A y \in M : x <= y
      BY <2>1, LeastNat
    <3> QED BY <3>1 DEF Min
  <2>5. p \in 1 .. Len(files) /\ files[p] = Missing
        /\ \A n \in 1 .. Len(files) : n < p => files[n] # Missing
    <3>1. \A n \in 1 .. Len(files) : n < p => ~(p <= n)
      BY <2>4, <2>9
    <3> QED BY <2>3, <2>4, <2>9, <3>1
  <2>6. Readables = p - 1
    BY <1>4, <2>2 DEF Readables
  <2>7. Stream!Encoding = Rle(Done(p - 1))
    BY <1>4, <2>2, StreamOperators DEF Stream!Encoding, Done
  <2>8. p - 1 \in 0 .. Len(files) /\ p - 1 < Len(files) /\ (p - 1) + 1 = p
        /\ \A n \in 1 .. p - 1 : n \in 1 .. Len(files) /\ n < p
    BY <1>1, <2>5
  <2> QED BY <1>1, <1>4, <2>5, <2>6, <2>7, <2>8
<1> QED BY <1>3, <1>4


(* What is left of the open file is what comes next in the text that can be read. *)
LEMMA TextAhead ==
    ASSUME TypeOK, PlaceInv, status = "running", unread # Missing
    PROVE  \E ahead \in Seq(Char) : Done(Readables) = TextRead \o (unread \o ahead)
<1> PICK N : N = Readables
  OBVIOUS
<1>1. /\ files \in FileLists /\ i \in 1 .. Len(files) + 1
      /\ unread \in Seq(Char) \cup {Missing}
  BY DEF TypeOK
<1>2. /\ files \in Seq(Seq(Char) \cup {Missing}) /\ Len(files) \in Nat
      /\ Missing \notin Seq(Char)
  BY <1>1, LineFacts
<1>3. /\ N \in 0 .. Len(files) /\ \A n \in 1 .. N : files[n] \in Seq(Char)
      /\ N < Len(files) => files[N + 1] = Missing
  BY <1>1, ReadableFacts
<1>4. \A n \in 1 .. i - 1 : files[n] \in Seq(Char)
  BY ReadingFacts
<1>5. ASSUME NEW m \in 0 .. Len(files), \A n \in 1 .. m : files[n] \in Seq(Char)
      PROVE  m \in 0 .. N
  <2>1. CASE m <= N
    BY <1>3, <2>1
  <2>2. CASE ~(m <= N)
    <3>1. N + 1 \in 1 .. m /\ N < Len(files)
      BY <1>2, <1>3, <2>2
    <3> QED BY <1>2, <1>3, <1>5, <3>1
  <2> QED BY <2>1, <2>2
<1> PICK f : f = files[i]
  OBVIOUS
<1>6. /\ i \in 1 .. Len(files) /\ f # Missing /\ Len(unread) <= Len(f)
      /\ unread = SubSeq(f, Len(f) - Len(unread) + 1, Len(f)) /\ unread \in Seq(Char)
  <2>1. i <= Len(files) /\ f # Missing /\ Len(unread) <= Len(f)
        /\ unread = SubSeq(f, Len(f) - Len(unread) + 1, Len(f))
    BY DEF PlaceInv
  <2>2. i \in 1 .. Len(files)
    BY <1>1, <1>2, <2>1
  <2> QED BY <1>1, <2>1, <2>2
<1>7. f \in Seq(Char)
  BY <1>1, <1>6, LineFacts
<1>8. \A n \in 1 .. i : files[n] \in Seq(Char)
  <2>1. \A n \in 1 .. i : n = i \/ n \in 1 .. i - 1
    BY <1>6
  <2> QED BY <1>4, <1>7, <2>1
<1>9. i \in 0 .. N /\ i \in 0 .. Len(files) /\ i # 0
  BY <1>5, <1>6, <1>8
<1> PICK ahead \in Seq(Char) : Done(N) = Done(i) \o ahead
  BY <1>2, <1>3, <1>9, TextPrefix DEF Done
<1>10. Done(i) = Done(i - 1) \o f
  BY <1>2, <1>8, <1>9, TextUpTo DEF Done
<1> PICK d : d = Done(i - 1)
  OBVIOUS
<1> PICK h : h = Here
  OBVIOUS
<1>11. d \in Seq(Char) /\ h \in Seq(Char) /\ TextRead = d \o h /\ TextRead \in Seq(Char)
  BY ReadingFacts DEF TextRead
<1>12. f = h \o unread
  <2> PICK n : n = Len(f) - Len(unread)
    OBVIOUS
  <2>1. n \in Nat /\ n <= Len(f) /\ Len(f) \in Nat
    BY <1>6, <1>7
  <2>2. h = SubSeq(f, 1, n) /\ unread = SubSeq(f, n + 1, Len(f))
    BY <1>6 DEF Here
  <2>3. 1 \in 1 .. Len(f) + 1 /\ n \in 1 - 1 .. Len(f) /\ Len(f) \in n .. Len(f)
    BY <2>1
  <2>4. SubSeq(f, 1, n) \o SubSeq(f, n + 1, Len(f)) = SubSeq(f, 1, Len(f))
    BY <1>7, <2>3, ConcatAdjacentSubSeq
  <2> QED BY <1>7, <2>2, <2>4, SubSeqFull
<1>13. /\ (d \o h) \o unread = d \o (h \o unread)
      /\ (TextRead \o unread) \o ahead = TextRead \o (unread \o ahead)
  <2> PICK u : u = unread
    OBVIOUS
  <2> PICK r : r = TextRead
    OBVIOUS
  <2>1. u \in Seq(Char) /\ r \in Seq(Char) /\ d \in Seq(Char) /\ h \in Seq(Char)
    BY <1>6, <1>11, Zenon
  <2>2. (d \o h) \o u = d \o (h \o u)
    <3>1. Regroups(d, h, u)
      BY <2>1, Regroup
    <3> QED BY <3>1 DEF Regroups
  <2>3. (r \o u) \o ahead = r \o (u \o ahead)
    <3>1. Regroups(r, u, ahead)
      BY <2>1, Regroup
    <3> QED BY <3>1 DEF Regroups
  <2> QED BY <2>2, <2>3, Zenon
<1>14. unread \o ahead \in Seq(Char)
  BY <1>6, ConcatProperties
<1>15. Done(N) = TextRead \o (unread \o ahead)
  BY <1>10, <1>11, <1>12, <1>13, Zenon
<1> QED BY <1>14, <1>15, Zenon

StreamStatus == IF status = "written" THEN "running" ELSE status

(* A run that a new character ends is the next one of the encoding.          *)
LEMMA StreamRead ==
    ASSUME WzipInv, Read, out' # out
    PROVE  Stream!Emit
<1> PICK c : c = Head(unread)
  OBVIOUS
<1> PICK one : one = [count |-> 1, char |-> c]
  OBVIOUS
<1> PICK seen : seen = TextRead
  OBVIOUS
<1> PICK left : left = Tail(unread)
  OBVIOUS
<1> PICK written : written = Append(out, run)
  OBVIOUS
<1>1. /\ status = "running" /\ status' = "running" /\ files' = files
      /\ unread # Missing /\ unread # <<>> /\ run.count # 0
      /\ c # run.char /\ out' = written
  BY DEF Read, FirstChar, NoCount
<1>2. /\ TypeOK /\ PlaceInv /\ files \in FileLists /\ run \in Run /\ out \in Seq(Run)
      /\ unread \in Seq(Char) /\ seen \in Seq(Char) /\ Rle(seen) = written
  BY <1>1, ReadingFacts DEF WzipInv, TypeOK, CodeInv
<1>3. c \in Char /\ left \in Seq(Char) /\ unread = <<c>> \o left
  <2>1. c \in Char /\ left \in Seq(Char)
    BY <1>1, <1>2, HeadTailProperties
  <2>2. unread = Append(<<>>, c) \o left
    BY <1>1, <1>2
  <2> QED BY <2>1, <2>2
<1>4. Rle(Append(seen, c)) = Append(written, one) /\ one \in Run /\ written \in Seq(Run)
      /\ Append(seen, c) \in Seq(Char)
  <2>1. Rle(Append(seen, c)) = AddChar(Rle(seen), c)
    BY <1>2, <1>3, RleFacts
  <2>2. AddChar(Append(out, run), c) = Append(Append(out, run), one)
    BY <1>1, <1>2, <1>3, AddCharFacts
  <2>3. one \in Run
    BY <1>3 DEF Run
  <2> QED BY <1>2, <1>3, <2>1, <2>2, <2>3
<1>5. Settles(written, Rle(Append(seen, c)))
  <2>1. Len(written) < Len(Append(written, one))
        /\ \A n \in 1 .. Len(written) : Append(written, one)[n] = written[n]
    BY <1>4, AppendProperties
  <2> QED BY <1>4, <2>1 DEF Settles
<1> PICK ahead \in Seq(Char) : Done(Readables) = seen \o (unread \o ahead)
  BY <1>1, <1>2, TextAhead
<1> PICK more : more = left \o ahead
  OBVIOUS
<1>6. Done(Readables) = Append(seen, c) \o more /\ more \in Seq(Char)
  <2> PICK first : first = <<c>>
    OBVIOUS
  <2>1. first \in Seq(Char) /\ more \in Seq(Char)
    BY <1>3, ConcatProperties
  <2>2. Regroups(first, left, ahead) /\ Regroups(seen, first, more)
    BY <1>2, <1>3, <2>1, Regroup
  <2>3. Append(seen, c) = seen \o first
    BY <1>2, <1>3, AppendIsConcat
  <2>4. (first \o left) \o ahead = first \o more /\ (seen \o first) \o more = seen \o (first \o more)
    BY <2>2 DEF Regroups
  <2> QED BY <1>3, <2>1, <2>3, <2>4, Zenon
<1>7. Stream!Encoding = Rle(Done(Readables))
  BY <1>2, ReadableFacts
<1> PICK code : code = Stream!Encoding
  OBVIOUS
<1>8. Settles(written, code)
  BY <1>4, <1>5, <1>6, <1>7, RleSettles
<1>9. Len(out) < Len(code) /\ code[Len(out) + 1] = run
  <2>1. Len(written) = Len(out) + 1 /\ written[Len(out) + 1] = run /\ Len(out) \in Nat
    BY <1>2, AppendProperties
  <2>2. Rle(Done(Readables)) \in Seq(Run)
    BY <1>4, <1>6, ConcatProperties, RleFacts
  <2>3. Len(code) \in Nat
    BY <1>7, <2>2
  <2> PICK n : n = Len(out) + 1
    OBVIOUS
  <2> PICK l : l = Len(code)
    OBVIOUS
  <2>4. n < l /\ \A m \in 1 .. n : code[m] = written[m]
    BY <1>8, <2>1 DEF Settles
  <2>5. n \in 1 .. n /\ Len(out) < n /\ n \in Nat /\ l \in Nat
    BY <2>1, <2>3
  <2>6. Len(out) < l
    BY <2>1, <2>4, <2>5
  <2> QED BY <2>1, <2>4, <2>5, <2>6
<1>10. Len(out) < Len(Stream!Encoding) /\ out' = Append(out, Stream!Encoding[Len(out) + 1])
  BY <1>1, <1>9
<1> QED BY <1>1, <1>10 DEF Stream!Emit

LEMMA StreamStep ==
    ASSUME LinesHaveText, WzipInv, [Next]_vars
    PROVE  [Stream!Next]_<<files, out, StreamStatus>>
<1>1. TypeOK /\ PlaceInv /\ CodeInv /\ files \in FileLists
      /\ DOMAIN files = 1 .. Len(files) /\ Len(files) \in Nat
  BY LineFacts DEF WzipInv, TypeOK
<1>2. CASE Open
  <2>1. /\ status = "running" /\ out' = out /\ files' = files
        /\ status' = IF files[i] = Missing THEN "failed" ELSE "running"
    BY <1>2 DEF Open
  <2>2. CASE files[i] = Missing
    <3>1. i \in DOMAIN files
      BY <1>1, <1>2 DEF Open, TypeOK
    <3>2. ~Stream!Readable
      BY <2>2, <3>1 DEF Stream!Readable
    <3> QED BY <2>1, <2>2, <3>2 DEF Stream!Next, Stream!Fail, StreamStatus
  <2>3. CASE files[i] # Missing
    BY <2>1, <2>3 DEF StreamStatus
  <2> QED BY <2>2, <2>3
<1>3. CASE Read
  <2>1. CASE out' = out
    BY <1>3, <2>1 DEF Read, StreamStatus
  <2>2. CASE out' # out
    BY <1>3, <2>2, StreamRead DEF Stream!Next
  <2> QED BY <2>1, <2>2
<1>4. CASE Close
  BY <1>4 DEF Close, StreamStatus
<1>5. ASSUME i = Len(files) + 1, status # "failed"
      PROVE  /\ Stream!Readable /\ TextOf(files) # <<>>
             /\ Stream!Encoding = Rle(TextOf(files))
  <2>1. \A n \in DOMAIN files : files[n] # Missing
    BY <1>1, <1>5 DEF PlaceInv
  <2>2. Stream!Readable
    BY <2>1 DEF Stream!Readable
  <2>3. TextOf(files) # <<>>
    BY <1>1, <2>1 DEF LinesHaveText
  <2> QED BY <1>1, <2>2, <2>3, ReadableFacts
<1>6. CASE WriteLast
  <2> PICK code : code = Rle(TextOf(files))
    OBVIOUS
  <2>1. /\ status = "running" /\ i > Len(files) /\ out' = Append(out, run)
        /\ status' = "written" /\ files' = files
    BY <1>6 DEF WriteLast
  <2>2. TextRead = TextOf(files) /\ i = Len(files) + 1
    BY <1>1, <2>1, AllRead
  <2>3. Stream!Encoding = code /\ TextOf(files) # <<>>
    BY <1>5, <2>1, <2>2
  <2>4. code = Append(out, run)
    BY <1>1, <2>1, <2>2, <2>3 DEF CodeInv
  <2>5. run \in Run /\ out \in Seq(Run)
    BY <1>1 DEF TypeOK
  <2>6. Len(out) < Len(code) /\ code[Len(out) + 1] = run
    BY <2>4, <2>5, AppendProperties
  <2>7. Stream!Emit
    BY <2>1, <2>3, <2>6 DEF Stream!Emit
  <2> QED BY <2>7 DEF Stream!Next
<1>7. CASE Exit
  <2>1. status = "written" /\ status' = "exited" /\ files' = files /\ out' = out
    BY <1>7 DEF Exit
  <2>2. i = Len(files) + 1
    BY <1>1, <2>1 DEF PlaceInv
  <2>3. out = Stream!Encoding /\ Stream!Readable
    BY <1>1, <1>5, <2>1, <2>2 DEF CodeInv
  <2> QED BY <2>1, <2>3 DEF Stream!Next, Stream!Finish
<1>8. CASE UNCHANGED vars
  BY <1>8 DEF vars, StreamStatus
<1> QED BY <1>2, <1>3, <1>4, <1>6, <1>7, <1>8 DEF Next

(* The serial zip is what ZipStream promises, for files of any number and
   length: it writes the encoding of their concatenation, run by run and in
   order, and exits only with all of it written; it fails only when a file is
   missing.  That some file has a character is needed: of no character at all the
   program writes a run of none. *)
THEOREM SerialIsStream ==
    ASSUME LinesHaveText
    PROVE  ToolsSpec => StreamSpec
<1>1. ToolsInit => Stream!Init
  BY DEF ToolsInit, Init, Stream!Init
<1>2. WzipInv /\ [ToolsNext]_toolVars => [Stream!Next]_<<files, out, StreamStatus>>
  BY ToolsMove, StreamStep
<1>3. ToolsSpec => Stream!Init /\ [][Stream!Next]_<<files, out, StreamStatus>>
  BY <1>1, <1>2, WzipInvariance, PTL DEF ToolsSpec
<1>4. StreamSpec <=> Stream!Init /\ [][Stream!Next]_<<files, out, StreamStatus>>
  BY DEF StreamSpec, Stream!Spec, Stream!vars, StreamStatus
<1> QED BY <1>3, <1>4, PTL

-----------------------------------------------------------------------------
(* wpzip_unoptimized.c: the threads of a file and the memory they read.      *)

LEMMA SizesBounded ==
    ASSUME files \in FileLists
    PROVE  /\ Join!Largest \in Nat
           /\ \A n \in 1 .. Len(files) : Join!FileSize(files[n]) \in Int
<1>1. files \in Seq(Seq(Char) \cup {Missing}) /\ Len(files) \in Nat
  BY LineFacts
<1> DEFINE size(n) == Join!FileSize(files[n])
           Bound(n) == \E most \in Nat : \A m \in 1 .. n : size(m) <= most
           T == {n \in 0 .. Len(files) : ~Bound(n)}
<1>2. \A n \in 1 .. Len(files) : size(n) \in Int
  <2> SUFFICES ASSUME NEW n \in 1 .. Len(files) PROVE size(n) \in Int
    OBVIOUS
  <2> PICK f : f = files[n]
    OBVIOUS
  <2>1. f \in Seq(Char) \cup {Missing}
    BY <1>1
  <2>2. f # Missing => Len(f) \in Int
    BY <2>1
  <2> QED BY <2>2 DEF Join!FileSize
<1>3. T = {}
  <2> SUFFICES ASSUME T # {} PROVE FALSE
    OBVIOUS
  <2>1. T \in SUBSET Nat /\ \A n \in T : n \in 0 .. Len(files) /\ ~Bound(n)
    OBVIOUS
  <2>2. \A n \in 0 .. Len(files) : n \notin T => Bound(n)
    OBVIOUS
  <2> HIDE DEF T, size, Bound
  <2> PICK n : n \in T /\ \A m \in T : n <= m
    BY <2>1, LeastNat
  <2>3. n # 0
    <3>1. Bound(0)
      BY DEF Bound
    <3> QED BY <2>1, <3>1
  <2>4. n - 1 \in 0 .. Len(files) /\ n - 1 \notin T /\ n \in 1 .. Len(files)
    BY <1>1, <2>1, <2>3
  <2> PICK most \in Nat : \A m \in 1 .. n - 1 : size(m) <= most
    BY <2>2, <2>4 DEF Bound
  <2>5. \E more \in Nat : most <= more /\ size(n) <= more
    <3>1. size(n) \in Int
      BY <1>2, <2>4
    <3>2. CASE size(n) <= most
      BY <3>2
    <3>3. CASE ~(size(n) <= most)
      <4>1. size(n) \in Nat /\ most <= size(n) /\ size(n) <= size(n)
        BY <3>1, <3>3
      <4> QED BY <4>1
    <3> QED BY <3>2, <3>3
  <2> PICK more \in Nat : most <= more /\ size(n) <= more
    BY <2>5
  <2>6. \A m \in 1 .. n : size(m) <= more
    <3>1. \A m \in 1 .. n : m = n \/ m \in 1 .. n - 1
      BY <2>4
    <3>2. \A m \in 1 .. n : size(m) \in Int
      BY <1>2, <2>4
    <3> QED BY <3>1, <3>2
  <2>7. Bound(n)
    BY <2>6 DEF Bound
  <2> QED BY <2>1, <2>7
<1>4. Len(files) \in 0 .. Len(files)
  BY <1>1
<1> PICK most \in Nat : \A m \in 1 .. Len(files) : size(m) <= most
  BY <1>3, <1>4
<1> DEFINE Sizes == {0} \cup {Join!FileSize(f) : f \in Join!ToSet(files)}
<1>5. \A x \in Sizes : x \in Int /\ x <= most
  <2> SUFFICES ASSUME NEW f \in Join!ToSet(files) PROVE Join!FileSize(f) \in Int /\ Join!FileSize(f) <= most
    OBVIOUS
  <2> PICK n \in 1 .. Len(files) : f = files[n]
    BY <1>1 DEF Join!ToSet
  <2> QED BY <1>2
<1>6. 0 \in Sizes
  OBVIOUS
<1>7. Join!Largest = Join!Max(Sizes)
  BY DEF Join!Largest
<1> HIDE DEF Sizes
<1>8. \E x \in Sizes : \A y \in Sizes : x >= y
  <2> DEFINE U == {most - x : x \in Sizes}
  <2>1. U \in SUBSET Nat
    BY <1>5
  <2>2. most - 0 \in U
    BY <1>6
  <2>3. \A x \in Sizes : most - x \in U
    OBVIOUS
  <2>4. \A t \in U : \E x \in Sizes : t = most - x
    OBVIOUS
  <2> HIDE DEF U
  <2> PICK t : t \in U /\ \A u \in U : t <= u
    BY <2>1, <2>2, LeastNat
  <2> PICK x \in Sizes : t = most - x
    BY <2>4
  <2>5. ASSUME NEW y \in Sizes PROVE x >= y
    <3>1. most - x <= most - y /\ x \in Int /\ y \in Int
      BY <1>5, <2>3
    <3> QED BY <3>1
  <2> QED BY <2>5
<1>9. Join!Max(Sizes) \in Sizes /\ \A y \in Sizes : Join!Max(Sizes) >= y
  BY <1>8 DEF Join!Max
<1>10. Join!Max(Sizes) \in Int /\ Join!Max(Sizes) >= 0
  BY <1>5, <1>6, <1>9
<1> QED BY <1>2, <1>7, <1>10

LEMMA LargerOfTwo ==
    ASSUME NEW x \in Int, NEW y \in Int
    PROVE  /\ Join!Max({x, y}) \in {x, y} /\ Join!Max({x, y}) >= x /\ Join!Max({x, y}) >= y
           /\ Join!Min({x, y}) \in {x, y} /\ Join!Min({x, y}) <= x /\ Join!Min({x, y}) <= y
<1> PICK s : s = {x, y}
  OBVIOUS
<1>1. \E u \in s : \A v \in s : u >= v
  OBVIOUS
<1>2. \E u \in s : \A v \in s : u <= v
  OBVIOUS
<1>3. Join!Max(s) \in s /\ \A v \in s : Join!Max(s) >= v
  BY <1>1 DEF Join!Max
<1>4. Join!Min(s) \in s /\ \A v \in s : Join!Min(s) <= v
  BY <1>2 DEF Join!Min
<1> QED BY <1>3, <1>4

LEMMA ThreadsFacts ==
    ASSUME files \in FileLists
    PROVE  /\ Join!Threads \in Nat \ {0}
           /\ file \in 1 .. Len(files) => Join!Chunk \in Nat
<1>1. Join!Largest \in Nat /\ \A n \in 1 .. Len(files) : Join!FileSize(files[n]) \in Int
  BY SizesBounded
<1> PICK whole : whole = Join!Largest \div MinChunk
  OBVIOUS
<1>2. whole \in Int /\ NumThreads \in Int /\ NumThreads >= 1
  BY <1>1, ZipToolsAssumption
<1> PICK wanted : wanted = Join!Max({1, whole})
  OBVIOUS
<1>3. wanted \in Int /\ wanted >= 1
  BY <1>2, LargerOfTwo
<1> PICK least : least = Join!Min({NumThreads, wanted})
  OBVIOUS
<1>4. least \in {NumThreads, wanted}
  BY <1>2, <1>3, LargerOfTwo
<1>5. Join!Threads \in Nat \ {0}
  <2>1. least \in Nat \ {0}
    BY <1>2, <1>3, <1>4
  <2> QED BY <2>1 DEF Join!Threads
<1>6. ASSUME file \in 1 .. Len(files) PROVE Join!Chunk \in Nat
  <2> PICK len : len = Join!FileSize(files[file])
    OBVIOUS
  <2> PICK size : size = Join!Max({0, len})
    OBVIOUS
  <2>1. len \in Int
    BY <1>1, <1>6
  <2>4. 0 \in Int
    OBVIOUS
  <2>5. size \in {0, len} /\ size >= 0
    BY <2>1, <2>4, LargerOfTwo
  <2>2. size \in Nat
    BY <2>1, <2>5
  <2>3. size \div Join!Threads \in Nat
    BY <1>5, <2>2
  <2> QED BY <2>3 DEF Join!Chunk
<1> QED BY <1>5, <1>6

-----------------------------------------------------------------------------
(* What main merges: the runs of all results, one after the other.           *)
Glue(runs) == FoldLeft(Join!AddRun, <<>>, runs)

GlueStep(runs, f, s) == IF s = {} THEN <<>> ELSE Join!AddRun(f[s \ {Max(s)}], runs[Max(s)])
GlueFold(runs, n, f) == f = [s \in SUBSET (1 .. n) |-> GlueStep(runs, f, s)]

LEMMA GlueDef ==
    ASSUME NEW runs, NEW n, DOMAIN runs = 1 .. n
    PROVE  Glue(runs) = (CHOOSE f : GlueFold(runs, n, f))[1 .. n]
BY DEF Glue, FoldLeft, MapThenFoldSet, GlueStep, GlueFold

(* A run glued to the runs before it.                                        *)
LEMMA AddRunType ==
    ASSUME NEW runs \in Seq(Run), NEW r \in Run
    PROVE  Join!AddRun(runs, r) \in Seq(Run)
<1>1. CASE runs # <<>> /\ Join!Last(runs).char = r.char
  <2> PICK l : l = Len(runs)
    OBVIOUS
  <2> PICK b : b = Join!Bump(runs[l], r.count)
    OBVIOUS
  <2>1. l \in 1 .. Len(runs) /\ runs[l] \in Run
    BY <1>1
  <2>2. b \in Run
    <3> PICK last \in Run : last = runs[l]
      BY <2>1
    <3>1. last.count + r.count \in Nat
      BY DEF Run
    <3> QED BY <3>1 DEF Join!Bump, Run
  <2>3. Join!AddRun(runs, r) = [runs EXCEPT ![l] = b]
    BY <1>1 DEF Join!AddRun, Join!AddCount, Join!BumpLast
  <2> QED BY <2>1, <2>2, <2>3
<1>2. CASE ~(runs # <<>> /\ Join!Last(runs).char = r.char)
  <2>1. Join!AddRun(runs, r) = Append(runs, r)
    BY <1>2, Zenon DEF Join!AddRun
  <2> QED BY <2>1
<1> QED BY <1>1, <1>2

LEMMA GlueFoldExists ==
    ASSUME NEW runs \in Seq(Run)
    PROVE  \E f : /\ GlueFold(runs, Len(runs), f)
                  /\ f \in [SUBSET (1 .. Len(runs)) -> Seq(Run)]
<1> PICK n : n = Len(runs)
  OBVIOUS
<1> PICK R : R = Seq(Run)
  OBVIOUS
<1> PICK step : step = [p \in (1 .. n) \X R |-> Join!AddRun(p[2], runs[p[1]])]
  OBVIOUS
<1>1. n \in Nat /\ <<>> \in R
  OBVIOUS
<1>2. ASSUME NEW m \in 1 .. n, NEW r \in R
      PROVE  step[<<m, r>>] = Join!AddRun(r, runs[m]) /\ step[<<m, r>>] \in R
  <2>1. runs[m] \in Run
    OBVIOUS
  <2>2. Join!AddRun(r, runs[m]) \in R
    BY <2>1, AddRunType
  <2> QED BY <2>2
<1>3. step \in [(1 .. n) \X R -> R]
  <2>1. ASSUME NEW p \in (1 .. n) \X R PROVE Join!AddRun(p[2], runs[p[1]]) \in R
    BY AddRunType
  <2> QED BY <2>1
<1> PICK f : FoldPart(R, n, <<>>, step, f)
  BY <1>1, <1>3, FoldPartExists
<1>4. f \in [SUBSET (1 .. n) -> R]
  BY DEF FoldPart
<1>5. ASSUME NEW s \in SUBSET (1 .. n) PROVE f[s] = GlueStep(runs, f, s)
  <2>1. f[s] = FoldStep(<<>>, step, f, s)
    BY DEF FoldPart
  <2>2. CASE s = {}
    BY <2>1, <2>2 DEF FoldStep, GlueStep
  <2>3. CASE s # {}
    <3> PICK m : m = Max(s)
      OBVIOUS
    <3> PICK r : r = f[s \ {m}]
      OBVIOUS
    <3>1. m \in 1 .. n
      BY <1>1, <2>3, MaxFacts
    <3>2. r \in R
      BY <1>4
    <3>3. f[s] = step[<<m, r>>]
      BY <2>1, <2>3 DEF FoldStep
    <3>4. f[s] = Join!AddRun(r, runs[m])
      BY <1>2, <3>1, <3>2, <3>3
    <3> QED BY <2>3, <3>4 DEF GlueStep
  <2> QED BY <2>2, <2>3
<1>6. GlueFold(runs, n, f)
  BY <1>4, <1>5 DEF GlueFold
<1> QED BY <1>4, <1>6

LEMMA GlueUnique ==
    ASSUME NEW runs, NEW more, NEW j \in Nat, NEW n \in Nat, NEW m \in Nat, j <= n, j <= m,
           NEW f, NEW g, GlueFold(runs, n, f), GlueFold(more, m, g), Agree(j, runs, more)
    PROVE  f[1 .. j] = g[1 .. j]
<1> DEFINE T == {l \in 0 .. j : f[1 .. l] # g[1 .. l]}
<1> SUFFICES ASSUME T # {} PROVE FALSE
  OBVIOUS
<1>1. T \in SUBSET Nat /\ \A l \in T : l \in 0 .. j /\ f[1 .. l] # g[1 .. l]
  OBVIOUS
<1>2. \A l \in 0 .. j : l \notin T => f[1 .. l] = g[1 .. l]
  OBVIOUS
<1> HIDE DEF T
<1> PICK l : l \in T /\ \A x \in T : l <= x
  BY <1>1, LeastNat
<1>3. l \in Nat /\ 1 .. l \in SUBSET (1 .. n) /\ 1 .. l \in SUBSET (1 .. m)
  BY <1>1
<1>4. f[1 .. l] = GlueStep(runs, f, 1 .. l) /\ g[1 .. l] = GlueStep(more, g, 1 .. l)
  BY <1>3 DEF GlueFold
<1>5. CASE l = 0
  BY <1>1, <1>4, <1>5 DEF GlueStep
<1>6. CASE l # 0
  <2>1. Max(1 .. l) = l /\ (1 .. l) \ {l} = 1 .. l - 1
    BY <1>3, <1>6, MaxOfInterval
  <2>4. l - 1 \in Nat /\ l - 1 \in 0 .. j /\ ~(l <= l - 1) /\ l \in 1 .. j /\ l \in 1 .. l
    BY <1>1, <1>6
  <2>2. l - 1 \in 0 .. j /\ l - 1 \notin T /\ l \in 1 .. j /\ 1 .. l # {}
    BY <2>4
  <2>3. f[1 .. l - 1] = g[1 .. l - 1] /\ runs[l] = more[l]
    BY <1>2, <2>2 DEF Agree
  <2> QED BY <1>1, <1>4, <2>1, <2>2, <2>3 DEF GlueStep
<1> QED BY <1>5, <1>6


LEMMA GlueIs ==
    ASSUME NEW runs \in Seq(Run)
    PROVE  \E f : GlueFold(runs, Len(runs), f) /\ Glue(runs) = f[1 .. Len(runs)]
<1> PICK n : n = Len(runs)
  OBVIOUS
<1>1. n \in Nat /\ DOMAIN runs = 1 .. n
  OBVIOUS
<1>2. \E f : GlueFold(runs, n, f)
  BY GlueFoldExists
<1> PICK f : f = CHOOSE h : GlueFold(runs, n, h)
  OBVIOUS
<1>3. GlueFold(runs, n, f)
  BY <1>2
<1>4. Glue(runs) = f[1 .. n]
  BY <1>1, GlueDef
<1> QED BY <1>3, <1>4

(* No runs merged, and one run more.                                         *)
LEMMA GlueFacts ==
    ASSUME NEW runs \in Seq(Run)
    PROVE  /\ Glue(<<>>) = <<>>
           /\ Glue(runs) \in Seq(Run)
           /\ \A c \in Run : Glue(Append(runs, c)) = Join!AddRun(Glue(runs), c)
<1> PICK n : n = Len(runs)
  OBVIOUS
<1>0. n \in Nat
  OBVIOUS
<1> PICK f : GlueFold(runs, n, f) /\ Glue(runs) = f[1 .. n]
  BY GlueIs
<1> PICK g : GlueFold(runs, n, g) /\ g \in [SUBSET (1 .. n) -> Seq(Run)]
  BY GlueFoldExists
<1>1. Glue(<<>>) = <<>>
  <2> PICK t : t = <<>>
    OBVIOUS
  <2>1. t \in Seq(Run) /\ Len(t) = 0
    OBVIOUS
  <2> PICK h : GlueFold(t, 0, h) /\ Glue(t) = h[1 .. 0]
    BY <2>1, GlueIs
  <2>2. 1 .. 0 = {}
    OBVIOUS
  <2> QED BY <2>2 DEF GlueFold, GlueStep
<1>2. Glue(runs) \in Seq(Run)
  <2>1. Agree(n, runs, runs)
    BY DEF Agree
  <2>2. f[1 .. n] = g[1 .. n]
    BY <1>0, <2>1, GlueUnique
  <2>3. g[1 .. n] \in Seq(Run)
    OBVIOUS
  <2> QED BY <2>2, <2>3
<1>3. ASSUME NEW c \in Run PROVE Glue(Append(runs, c)) = Join!AddRun(Glue(runs), c)
  <2> PICK t : t = Append(runs, c)
    OBVIOUS
  <2> PICK m : m = n + 1
    OBVIOUS
  <2>1. t \in Seq(Run) /\ Len(t) = m /\ t[m] = c /\ Agree(n, t, runs) /\ m \in Nat /\ n <= m
    BY DEF Agree
  <2> PICK h : GlueFold(t, m, h) /\ Glue(t) = h[1 .. m]
    BY <2>1, GlueIs
  <2>2. Max(1 .. m) = m /\ (1 .. m) \ {m} = 1 .. n /\ 1 .. m # {}
    <3>1. m # 0 /\ m - 1 = n /\ m \in 1 .. m
      BY <1>0
    <3> QED BY <2>1, <3>1, MaxOfInterval
  <2>3. h[1 .. m] = Join!AddRun(h[1 .. n], c)
    <3>1. h[1 .. m] = GlueStep(t, h, 1 .. m)
      BY DEF GlueFold
    <3> QED BY <2>1, <2>2, <3>1 DEF GlueStep
  <2>4. h[1 .. n] = f[1 .. n]
    BY <1>0, <2>1, GlueUnique
  <2> QED BY <2>3, <2>4
<1> QED BY <1>1, <1>2, <1>3

(* The operators of RunLength are the same in WpzipJoin.                     *)
AllResults == [n \in 1 .. Join!Threads * Len(files) |-> result[n - 1]]

LEMMA MergedIs == Join!Merged = Glue(FlattenSeq(AllResults))
<1>1. \A s : Join!FlattenSeq(s) = FlattenSeq(s)
  BY DEF Join!FlattenSeq, FlattenSeq
<1>2. \A s : Join!FoldLeft(Join!AddRun, <<>>, s) = FoldLeft(Join!AddRun, <<>>, s)
  BY DEF Join!FoldLeft, FoldLeft, Join!MapThenFoldSet, MapThenFoldSet, Join!Max, Max
<1>3. Join!Merged = Join!FoldLeft(Join!AddRun, <<>>, Join!FlattenSeq(AllResults))
  BY DEF Join!Merged, AllResults
<1> QED BY <1>1, <1>2, <1>3 DEF Glue

LEMMA MergedType ==
    ASSUME files \in FileLists,
           result \in [0 .. Join!Threads * Len(files) - 1 -> Seq(Run)]
    PROVE  Join!Merged \in Seq(Run)
<1> PICK all : all = Join!Threads * Len(files)
  OBVIOUS
<1> PICK R : R = Seq(Run)
  OBVIOUS
<1>1. all \in Nat
  BY ThreadsFacts, LineFacts
<1>2. result \in [0 .. all - 1 -> R]
  OBVIOUS
<1>3. \A n \in 1 .. all : result[n - 1] \in R
  <2>1. \A n \in 1 .. all : n - 1 \in 0 .. all - 1
    BY <1>1
  <2> QED BY <1>2, <2>1
<1>4. AllResults = [n \in 1 .. all |-> result[n - 1]]
  BY DEF AllResults
<1>5. AllResults \in Seq(R)
  <2>1. AllResults \in [1 .. all -> R]
    BY <1>3, <1>4
  <2> QED BY <1>1, <2>1
<1>6. FlattenSeq(AllResults) \in Seq(Run)
  BY <1>5, FlattenFacts
<1> QED BY <1>6, MergedIs, GlueFacts

-----------------------------------------------------------------------------
ThreadRecord == [state : {"none", "first", "loop", "ended"}, start : Nat,
                 run : [count : Nat, char : Char \cup {"none"}]]
Last0 == Join!Threads - 1

(* Main holds the file from the creation of its first thread to the join of the
   last one; at other times no thread exists. *)
JoinPlace ==
    /\ mpc \in {"open", "create", "join"} => file <= Len(files)
    /\ mpc \in {"create", "join"} => data = files[file]
    /\ mpc \notin {"create", "join"} => \A t \in 0 .. Last0 : thread[t].state = "none"
    /\ mpc = "create" => \A t \in 0 .. Last0 : t >= k <=> thread[t].state = "none"
    /\ mpc = "join" => \A t \in 0 .. Last0 :
         thread[t].state # "none" /\ (t < k => thread[t].state = "ended")
    /\ \A t \in 0 .. Last0 : thread[t].state = "loop" => thread[t].run \in Run

JoinInv == Join!TypeOK /\ JoinPlace

LEMMA JoinTypes ==
    ASSUME Join!TypeOK
    PROVE  /\ files \in FileLists /\ file \in Nat /\ k \in Nat
           /\ Len(files) \in Nat /\ Join!Threads \in Nat \ {0} /\ Last0 \in Nat
           /\ Last0 + 1 = Join!Threads
           /\ thread \in [0 .. Last0 -> ThreadRecord] /\ DOMAIN thread = 0 .. Last0
           /\ mpc \in {"open", "create", "join"} /\ file <= Len(files) =>
                files[file] \in Seq(Char) \cup {Missing}
<1>1. files \in FileLists /\ file \in 1 .. Len(files) + 1 /\ k \in 0 .. Join!Threads
      /\ thread \in [0 .. Last0 -> ThreadRecord]
  BY DEF Join!TypeOK, Last0, ThreadRecord
<1>2. Join!Threads \in Nat \ {0}
  BY <1>1, ThreadsFacts
<1>3. Last0 \in Nat /\ Last0 + 1 = Join!Threads /\ k \in Nat
  BY <1>1, <1>2 DEF Last0
<1>4. files \in Seq(Seq(Char) \cup {Missing}) /\ Len(files) \in Nat
  BY <1>1, LineFacts
<1>5. file <= Len(files) => files[file] \in Seq(Char) \cup {Missing}
  BY <1>1, <1>4
<1> QED BY <1>1, <1>2, <1>3, <1>4, <1>5

LEMMA SameRuns == Join!Run = Run
BY DEF Join!Run, Run

LEMMA SameThreads ==
    ASSUME files' = files
    PROVE  Join!Threads' = Join!Threads /\ Last0' = Last0
BY DEF Join!Threads, Join!Largest, Last0

LEMMA JoinTyped ==
    ASSUME files' = files, files \in FileLists,
           mpc' \in {"open", "create", "join", "merge", "write", "end"},
           file' \in 1 .. Len(files) + 1, k' \in 0 .. Join!Threads,
           data' \in Seq(Char) \cup {Missing}, jout' \in Seq(Run),
           joining' \in {"running", "exited", "crashed"},
           thread' \in [0 .. Join!Threads - 1 -> ThreadRecord],
           result' \in [0 .. Join!Threads * Len(files) - 1 -> Seq(Run)]
    PROVE  Join!TypeOK'
<1>1. Join!Threads' = Join!Threads
  BY SameThreads
<1>2. /\ files' \in FileLists /\ file' \in 1 .. Len(files') + 1 /\ k' \in 0 .. Join!Threads'
      /\ thread' \in [0 .. Join!Threads' - 1 -> ThreadRecord]
      /\ result' \in [0 .. Join!Threads' * Len(files') - 1 -> Seq(Run)]
  BY <1>1, Zenon
<1> QED BY <1>2, SameRuns, Zenon DEF Join!TypeOK, ThreadRecord

LEMMA JoinStart == ASSUME Init, Join!Init PROVE JoinInv
<1>1. files \in FileLists /\ Len(files) \in Nat \ {0} /\ Join!Threads \in Nat \ {0}
  BY ThreadsFacts, LineFacts DEF Init
<1>2. /\ mpc = "open" /\ file = 1 /\ k = 0 /\ data = Missing /\ jout = <<>> /\ joining = "running"
      /\ thread = [t \in 0 .. Last0 |-> Join!NoThread]
      /\ result = [t \in 0 .. Join!Threads * Len(files) - 1 |-> <<>>]
  BY DEF Join!Init, Last0
<1>3. Join!NoThread \in ThreadRecord /\ Join!NoThread.state = "none"
  BY DEF Join!NoThread, ThreadRecord
<1>4. thread \in [0 .. Last0 -> ThreadRecord] /\ \A t \in 0 .. Last0 : thread[t].state = "none"
  BY <1>2, <1>3
<1>5. result \in [0 .. Join!Threads * Len(files) - 1 -> Seq(Run)]
  BY <1>2
<1>6. Join!TypeOK
  <2>1. /\ mpc \in {"open", "create", "join", "merge", "write", "end"}
        /\ file \in 1 .. Len(files) + 1 /\ k \in 0 .. Join!Threads
        /\ data \in Seq(Char) \cup {Missing} /\ jout \in Seq(Run)
        /\ joining \in {"running", "exited", "crashed"}
    BY <1>1, <1>2
  <2>2. thread \in [0 .. Join!Threads - 1 -> ThreadRecord]
    BY <1>4 DEF Last0
  <2> QED BY <1>1, <1>5, <2>1, <2>2, SameRuns, Zenon DEF Join!TypeOK, ThreadRecord
<1> QED BY <1>1, <1>2, <1>4, <1>6 DEF JoinInv, JoinPlace

(* A thread that reads a byte or ends changes no other and nothing of main's. *)
LEMMA ThreadMoves ==
    ASSUME JoinInv, NEW t \in 0 .. Last0, thread[t].state \in {"first", "loop"},
           NEW th \in ThreadRecord, th.state \in {"loop", "ended"},
           th.state = "loop" => th.run \in Run,
           thread' = [thread EXCEPT ![t] = th],
           UNCHANGED <<files, mpc, file, k, data, jout, joining>>,
           result' \in [0 .. Join!Threads * Len(files) - 1 -> Seq(Run)]
    PROVE  JoinInv'
<1>1. thread \in [0 .. Last0 -> ThreadRecord]
  BY JoinTypes DEF JoinInv
<1>2. /\ thread' \in [0 .. Last0 -> ThreadRecord] /\ thread'[t] = th
      /\ \A u \in 0 .. Last0 : u # t => thread'[u] = thread[u]
  BY <1>1
<1>3. Join!Threads' = Join!Threads /\ Last0' = Last0
  BY SameThreads
<1>4. Join!TypeOK'
  <2>1. /\ files \in FileLists /\ mpc \in {"open", "create", "join", "merge", "write", "end"}
        /\ file \in 1 .. Len(files) + 1 /\ k \in 0 .. Join!Threads
        /\ data \in Seq(Char) \cup {Missing} /\ jout \in Seq(Run)
        /\ joining \in {"running", "exited", "crashed"}
    BY SameRuns DEF JoinInv, Join!TypeOK
  <2>2. thread' \in [0 .. Join!Threads - 1 -> ThreadRecord]
    BY <1>2 DEF Last0
  <2>3. result' \in [0 .. Join!Threads * Len(files) - 1 -> Seq(Run)]
    OBVIOUS
  <2> QED BY <1>3, <2>1, <2>2, <2>3, JoinTyped
<1>5. mpc \in {"create", "join"}
  BY DEF JoinInv, JoinPlace
<1>6. JoinPlace'
  <2>1. mpc' = mpc /\ file' = file /\ files' = files /\ data' = data /\ k' = k
    OBVIOUS
  <2>2. mpc = "create" => \A u \in 0 .. Last0 : u >= k <=> thread'[u].state = "none"
    BY <1>2 DEF JoinInv, JoinPlace
  <2>3. mpc = "join" => \A u \in 0 .. Last0 :
          thread'[u].state # "none" /\ (u < k => thread'[u].state = "ended")
    BY <1>2 DEF JoinInv, JoinPlace
  <2>4. \A u \in 0 .. Last0 : thread'[u].state = "loop" => thread'[u].run \in Run
    BY <1>2 DEF JoinInv, JoinPlace
  <2> QED BY <1>3, <1>5, <2>1, <2>2, <2>3, <2>4 DEF JoinInv, JoinPlace
<1> QED BY <1>4, <1>6 DEF JoinInv

LEMMA JoinKept ==
    ASSUME JoinInv
    PROVE  /\ files \in FileLists /\ mpc \in {"open", "create", "join", "merge", "write", "end"}
           /\ file \in 1 .. Len(files) + 1 /\ k \in 0 .. Join!Threads
           /\ data \in Seq(Char) \cup {Missing} /\ jout \in Seq(Run)
           /\ joining \in {"running", "exited", "crashed"}
           /\ thread \in [0 .. Join!Threads - 1 -> ThreadRecord]
           /\ thread \in [0 .. Last0 -> ThreadRecord]
           /\ result \in [0 .. Join!Threads * Len(files) - 1 -> Seq(Run)]
BY SameRuns DEF JoinInv, Join!TypeOK, Last0, ThreadRecord

LEMMA JoinOpen == ASSUME JoinInv, Join!Open PROVE JoinInv'
<1>1. /\ mpc = "open" /\ mpc' = "create" /\ file <= Len(files) /\ data' = files[file] /\ k' = 0
      /\ files' = files /\ file' = file /\ thread' = thread /\ result' = result
      /\ jout' = jout /\ joining' = joining
  BY DEF Join!Open
<1>2. files[file] \in Seq(Char) \cup {Missing} /\ 0 \in 0 .. Join!Threads
  BY <1>1, JoinTypes DEF JoinInv
<1>3. Join!TypeOK'
  BY <1>1, <1>2, JoinKept, JoinTyped
<1>4. \A t \in 0 .. Last0 : thread[t].state = "none"
  BY <1>1 DEF JoinInv, JoinPlace
<1>5. Last0' = Last0
  BY <1>1, SameThreads
<1>6. JoinPlace'
  BY <1>1, <1>4, <1>5 DEF JoinPlace
<1> QED BY <1>3, <1>6 DEF JoinInv

WithPlace(r, start) == [r EXCEPT !.state = "first", !.start = start]

LEMMA PlacedThread ==
    ASSUME NEW r \in ThreadRecord, NEW start \in Nat
    PROVE  WithPlace(r, start) \in ThreadRecord /\ WithPlace(r, start).state = "first"
BY DEF WithPlace, ThreadRecord

LEMMA JoinCreate == ASSUME JoinInv, Join!Create PROVE JoinInv'
<1>1. /\ mpc = "create" /\ files' = files /\ file' = file /\ data' = data /\ result' = result
      /\ jout' = jout /\ joining' = joining
  BY DEF Join!Create
<1>2. Last0' = Last0 /\ Last0 + 1 = Join!Threads /\ Last0 \in Nat /\ k \in Nat
      /\ k \in 0 .. Join!Threads
  BY <1>1, SameThreads, JoinTypes, JoinKept DEF JoinInv
<1>3. file <= Len(files) /\ data = files[file]
  BY <1>1 DEF JoinInv, JoinPlace
<1>4. CASE k < Join!Threads
  <2> PICK start : start = Join!Chunk * k
    OBVIOUS
  <2> PICK th : th = WithPlace(thread[k], start)
    OBVIOUS
  <2>1. mpc' = mpc /\ k' = k + 1 /\ k \in 0 .. Last0 /\ k + 1 \in 0 .. Join!Threads
    BY <1>2, <1>4 DEF Join!Create
  <2>2. thread' = [thread EXCEPT ![k] = th]
    BY <1>4 DEF Join!Create, WithPlace
  <2>3. start \in Nat
    <3>1. file \in 1 .. Len(files) /\ files \in FileLists
      <4>1. file \in 1 .. Len(files) + 1 /\ Len(files) \in Nat
        BY JoinKept, JoinTypes DEF JoinInv
      <4> QED BY <1>3, <4>1, JoinKept
    <3> PICK chunk \in Nat : chunk = Join!Chunk
      BY <3>1, ThreadsFacts
    <3>2. chunk * k \in Nat
      BY <1>2
    <3> QED BY <3>2
  <2>4. th \in ThreadRecord /\ th.state = "first"
    BY <2>1, <2>3, JoinKept, PlacedThread
  <2>5. thread \in [0 .. Last0 -> ThreadRecord]
    BY JoinKept
  <2>6. /\ thread' \in [0 .. Last0 -> ThreadRecord] /\ thread'[k] = th
        /\ \A u \in 0 .. Last0 : u # k => thread'[u] = thread[u]
    BY <2>1, <2>2, <2>4, <2>5
  <2>7. Join!TypeOK'
    <3>1. thread' \in [0 .. Join!Threads - 1 -> ThreadRecord]
      BY <2>6 DEF Last0
    <3>2. k' \in 0 .. Join!Threads /\ mpc' \in {"open", "create", "join", "merge", "write", "end"}
      BY <1>1, <2>1
    <3> QED BY <1>1, <3>1, <3>2, JoinKept, JoinTyped
  <2>8. \A u \in 0 .. Last0 : u >= k + 1 <=> thread'[u].state = "none"
    <3>1. \A u \in 0 .. Last0 : u >= k + 1 <=> u # k /\ u >= k
      BY <1>2
    <3>2. \A u \in 0 .. Last0 : u >= k <=> thread[u].state = "none"
      BY <1>1 DEF JoinInv, JoinPlace
    <3> QED BY <2>4, <2>6, <3>1, <3>2
  <2>9. \A u \in 0 .. Last0 : thread'[u].state = "loop" => thread'[u].run \in Run
    BY <2>4, <2>6 DEF JoinInv, JoinPlace
  <2>10. JoinPlace'
    BY <1>1, <1>2, <1>3, <2>1, <2>8, <2>9 DEF JoinPlace
  <2> QED BY <2>7, <2>10 DEF JoinInv
<1>5. CASE ~(k < Join!Threads)
  <2>1. mpc' = "join" /\ k' = 0 /\ thread' = thread
    BY <1>5 DEF Join!Create
  <2>2. \A t \in 0 .. Last0 : thread[t].state # "none" /\ ~(t < 0)
    <3>1. \A t \in 0 .. Last0 : ~(t >= k) /\ ~(t < 0)
      BY <1>2, <1>5
    <3>2. \A t \in 0 .. Last0 : t >= k <=> thread[t].state = "none"
      BY <1>1 DEF JoinInv, JoinPlace
    <3> QED BY <3>1, <3>2
  <2>3. Join!TypeOK'
    <3>1. 0 \in 0 .. Join!Threads
      BY <1>2
    <3> QED BY <1>1, <2>1, <3>1, JoinKept, JoinTyped
  <2>4. \A u \in 0 .. Last0 : thread[u].state = "loop" => thread[u].run \in Run
    BY DEF JoinInv, JoinPlace
  <2>5. JoinPlace'
    BY <1>1, <1>2, <1>3, <2>1, <2>2, <2>4 DEF JoinPlace
  <2> QED BY <2>3, <2>5 DEF JoinInv
<1> QED BY <1>4, <1>5

LEMMA JoinJoin == ASSUME JoinInv, Join!Join PROVE JoinInv'
<1>1. /\ mpc = "join" /\ mpc' = mpc /\ files' = files /\ file' = file /\ data' = data
      /\ thread' = thread /\ result' = result /\ jout' = jout /\ joining' = joining
      /\ k < Join!Threads /\ thread[k].state = "ended" /\ k' = k + 1
  BY DEF Join!Join, Join!Joined
<1>2. Last0' = Last0 /\ k \in 0 .. Join!Threads /\ k \in Nat /\ Join!Threads \in Nat
  BY <1>1, SameThreads, JoinTypes, JoinKept DEF JoinInv
<1>3. k + 1 \in 0 .. Join!Threads
  BY <1>1, <1>2
<1>4. Join!TypeOK'
  BY <1>1, <1>3, JoinKept, JoinTyped
<1>5. \A t \in 0 .. Last0 : t < k + 1 => t < k \/ t = k
  BY <1>2
<1>6. /\ \A t \in 0 .. Last0 : thread[t].state # "none" /\ (t < k => thread[t].state = "ended")
      /\ \A t \in 0 .. Last0 : thread[t].state = "loop" => thread[t].run \in Run
      /\ file <= Len(files) /\ data = files[file]
  BY <1>1 DEF JoinInv, JoinPlace
<1>7. \A t \in 0 .. Last0 : t < k + 1 => thread[t].state = "ended"
  BY <1>1, <1>5, <1>6
<1>8. JoinPlace'
  BY <1>1, <1>2, <1>6, <1>7 DEF JoinPlace
<1> QED BY <1>4, <1>8 DEF JoinInv

LEMMA JoinRelease == ASSUME JoinInv, Join!Release PROVE JoinInv'
<1>1. /\ mpc = "join" /\ files' = files /\ data' = Missing /\ file' = file + 1 /\ k' = k
      /\ result' = result /\ jout' = jout /\ joining' = joining /\ k = Join!Threads
      /\ mpc' = IF file = Len(files) THEN "merge" ELSE "open"
      /\ thread' = [t \in DOMAIN thread |->
                      IF thread[t].state = "ended" THEN Join!NoThread ELSE thread[t]]
  BY DEF Join!Release, Join!Joined
<1>2. /\ Last0' = Last0 /\ k \in 0 .. Join!Threads /\ DOMAIN thread = 0 .. Last0
      /\ Last0 + 1 = Join!Threads /\ Last0 \in Nat /\ Len(files) \in Nat
      /\ file \in 1 .. Len(files) + 1
  BY <1>1, SameThreads, JoinTypes, JoinKept DEF JoinInv
<1>3. \A t \in 0 .. Last0 : thread[t].state = "ended"
  <2>1. \A t \in 0 .. Last0 : t < k
    BY <1>1, <1>2
  <2> QED BY <1>1, <2>1 DEF JoinInv, JoinPlace
<1>4. Join!NoThread \in ThreadRecord /\ Join!NoThread.state = "none"
  BY DEF Join!NoThread, ThreadRecord
<1>5. thread' = [t \in 0 .. Last0 |-> Join!NoThread]
  BY <1>1, <1>2, <1>3
<1>6. thread' \in [0 .. Join!Threads - 1 -> ThreadRecord]
      /\ \A t \in 0 .. Last0 : thread'[t].state = "none"
  BY <1>4, <1>5 DEF Last0
<1>7. file <= Len(files)
  BY <1>1 DEF JoinInv, JoinPlace
<1>8. file + 1 \in 1 .. Len(files) + 1 /\ (file # Len(files) => file + 1 <= Len(files))
  BY <1>2, <1>7
<1>9. Join!TypeOK'
  BY <1>1, <1>6, <1>8, JoinKept, JoinTyped
<1>10. JoinPlace'
  BY <1>1, <1>2, <1>6, <1>8 DEF JoinPlace
<1> QED BY <1>9, <1>10 DEF JoinInv

LEMMA JoinMerge == ASSUME JoinInv, Join!Merge PROVE JoinInv'
<1>1. /\ mpc = "merge" /\ mpc' = "write" /\ files' = files /\ file' = file /\ data' = data
      /\ k' = k /\ thread' = thread /\ result' = result /\ jout' = jout /\ joining' = joining
  BY DEF Join!Merge
<1>2. Last0' = Last0
  BY <1>1, SameThreads
<1>3. Join!TypeOK'
  BY <1>1, JoinKept, JoinTyped
<1>4. JoinPlace'
  BY <1>1, <1>2 DEF JoinInv, JoinPlace
<1> QED BY <1>3, <1>4 DEF JoinInv

LEMMA JoinWrite == ASSUME JoinInv, Join!Write PROVE JoinInv'
<1>1. /\ mpc = "write" /\ mpc' \in {"write", "end"} /\ files' = files /\ file' = file
      /\ data' = data /\ k' = k /\ thread' = thread /\ result' = result
      /\ joining' \in {joining, "exited"}
  BY DEF Join!Write
<1>2. Last0' = Last0
  BY <1>1, SameThreads
<1>3. jout' \in Seq(Run)
  <2> PICK merged : merged = Join!Merged
    OBVIOUS
  <2>1. merged \in Seq(Run) /\ jout \in Seq(Run)
    BY JoinKept, MergedType
  <2>2. CASE Len(jout) < Len(merged)
    <3>1. jout' = Append(jout, merged[Len(jout) + 1])
      BY <2>2 DEF Join!Write
    <3>2. merged[Len(jout) + 1] \in Run
      BY <2>1, <2>2
    <3> QED BY <2>1, <3>1, <3>2
  <2>3. CASE ~(Len(jout) < Len(merged))
    BY <2>1, <2>3 DEF Join!Write
  <2> QED BY <2>2, <2>3
<1>4. Join!TypeOK'
  BY <1>1, <1>3, JoinKept, JoinTyped
<1>5. JoinPlace'
  BY <1>1, <1>2 DEF JoinInv, JoinPlace
<1> QED BY <1>4, <1>5 DEF JoinInv

LEMMA JoinCrash == ASSUME JoinInv, Join!Crash PROVE JoinInv'
<1>1. /\ mpc' = mpc /\ files' = files /\ file' = file /\ data' = data /\ k' = k
      /\ thread' = thread /\ result' = result /\ jout' = jout /\ joining' = "crashed"
  BY DEF Join!Crash
<1>2. Last0' = Last0
  BY <1>1, SameThreads
<1>3. Join!TypeOK'
  BY <1>1, JoinKept, JoinTyped
<1>4. JoinPlace'
  BY <1>1, <1>2 DEF JoinInv, JoinPlace
<1> QED BY <1>3, <1>4 DEF JoinInv

(* A byte a thread reads is a character, in the file or beyond.              *)
LEMMA ByteType ==
    ASSUME JoinInv, NEW p \in Nat, NEW c \in Join!Byte(p) PROVE c \in Char
<1>1. CASE data # Missing /\ p < Len(data)
  <2>1. data \in Seq(Char)
    BY <1>1, JoinKept
  <2>2. c = data[p + 1]
    BY <1>1 DEF Join!Byte
  <2> QED BY <1>1, <2>1, <2>2
<1>2. CASE ~(data # Missing /\ p < Len(data))
  BY <1>2, Zenon DEF Join!Byte
<1> QED BY <1>1, <1>2

LEMMA JoinFirstByte ==
    ASSUME JoinInv, NEW t \in 0 .. Last0, Join!FirstByte(t) PROVE JoinInv'
<1>1. thread[t].state = "first" /\ thread[t] \in ThreadRecord
  BY JoinKept DEF Join!FirstByte
<1>2. CASE files[file] = Missing
  <2>1. Join!Crash
    BY <1>2 DEF Join!FirstByte
  <2> QED BY <2>1, JoinCrash
<1>3. CASE files[file] # Missing
  <2> PICK start : start = thread[t].start
    OBVIOUS
  <2>1. start \in Nat
    BY <1>1 DEF ThreadRecord
  <2>2. \E c \in Join!Byte(start) :
          thread' = [thread EXCEPT ![t] = [state |-> "loop", start |-> thread[t].start + 1,
                                           run |-> [count |-> 1, char |-> c]]]
    BY <1>3 DEF Join!FirstByte
  <2> PICK c \in Join!Byte(start) :
        thread' = [thread EXCEPT ![t] = [state |-> "loop", start |-> start + 1,
                                         run |-> [count |-> 1, char |-> c]]]
    BY <2>2
  <2>3. UNCHANGED <<files, mpc, file, k, data, result, jout, joining>>
    BY <1>3 DEF Join!FirstByte
  <2> PICK th : th = [state |-> "loop", start |-> start + 1, run |-> [count |-> 1, char |-> c]]
    OBVIOUS
  <2>4. c \in Char
    BY <2>1, ByteType
  <2>5. th \in ThreadRecord /\ th.state = "loop" /\ th.run \in Run
    BY <2>1, <2>4 DEF ThreadRecord, Run
  <2>6. thread' = [thread EXCEPT ![t] = th]
    OBVIOUS
  <2>7. result' \in [0 .. Join!Threads * Len(files) - 1 -> Seq(Run)]
    BY <2>3, JoinKept
  <2> QED BY <1>1, <2>3, <2>5, <2>6, <2>7, ThreadMoves
<1> QED BY <1>2, <1>3

(* A run added to a result leaves it a result.                               *)
LEMMA AddEntryType ==
    ASSUME JoinInv, NEW t \in 0 .. Last0, thread[t].state = "loop", Join!AddEntry(t)
    PROVE  /\ result' \in [0 .. Join!Threads * Len(files) - 1 -> Seq(Run)]
           /\ UNCHANGED <<files, mpc, file, k, data, jout, joining>>
<1> PICK all : all = 0 .. Join!Threads * Len(files) - 1
  OBVIOUS
<1> PICK r : r = thread[t].run
  OBVIOUS
<1> PICK n : n = t + (file - 1) * Join!Threads
  OBVIOUS
<1> PICK R : R = Seq(Run)
  OBVIOUS
<1>1. r \in Run
  BY DEF JoinInv, JoinPlace
<1>2. result \in [all -> R]
  BY JoinKept
<1>3. result' = [result EXCEPT ![n] = Append(result[n], r)]
  BY DEF Join!AddEntry
<1>4. n \in all => Append(result[n], r) \in R
  BY <1>1, <1>2
<1>5. result' \in [all -> R]
  BY <1>2, <1>3, <1>4
<1>6. UNCHANGED <<files, mpc, file, k, data, jout, joining>>
  BY DEF Join!AddEntry
<1> QED BY <1>5, <1>6

LEMMA JoinNextByte ==
    ASSUME JoinInv, NEW t \in 0 .. Last0, Join!NextByte(t) PROVE JoinInv'
<1>1. thread[t].state = "loop" /\ thread[t] \in ThreadRecord /\ thread[t].run \in Run
  BY JoinKept DEF Join!NextByte, JoinInv, JoinPlace
<1> PICK start : start = thread[t].start
  OBVIOUS
<1> PICK old : old = thread[t].run
  OBVIOUS
<1>2. start \in Nat /\ old.count + 1 \in Nat /\ old.char \in Char
  BY <1>1 DEF ThreadRecord, Run
<1>3. \E c \in Join!Byte(start) : \E new :
        /\ new = IF c = old.char THEN Join!Bump(old, 1) ELSE [count |-> 1, char |-> c]
        /\ thread' = [thread EXCEPT ![t] = [state |-> "loop", start |-> start + 1, run |-> new]]
        /\ UNCHANGED <<files, mpc, file, k, data, result, jout, joining>> \/ Join!AddEntry(t)
  BY DEF Join!NextByte
<1> PICK c \in Join!Byte(start) : \E new :
        /\ new = IF c = old.char THEN Join!Bump(old, 1) ELSE [count |-> 1, char |-> c]
        /\ thread' = [thread EXCEPT ![t] = [state |-> "loop", start |-> start + 1, run |-> new]]
        /\ UNCHANGED <<files, mpc, file, k, data, result, jout, joining>> \/ Join!AddEntry(t)
  BY <1>3
<1> PICK new :
        /\ new = IF c = old.char THEN Join!Bump(old, 1) ELSE [count |-> 1, char |-> c]
        /\ thread' = [thread EXCEPT ![t] = [state |-> "loop", start |-> start + 1, run |-> new]]
        /\ UNCHANGED <<files, mpc, file, k, data, result, jout, joining>> \/ Join!AddEntry(t)
  OBVIOUS
<1>4. new \in Run
  <2>1. c \in Char
    BY <1>2, ByteType
  <2>2. Join!Bump(old, 1) \in Run
    BY <1>2 DEF Join!Bump, Run
  <2>3. [count |-> 1, char |-> c] \in Run
    BY <2>1 DEF Run
  <2> QED BY <2>2, <2>3
<1> PICK th : th = [state |-> "loop", start |-> start + 1, run |-> new]
  OBVIOUS
<1>5. th \in ThreadRecord /\ th.state = "loop" /\ th.run \in Run
  <2>1. new \in [count : Nat, char : Char \cup {"none"}]
    BY <1>4 DEF Run
  <2> QED BY <1>2, <1>4, <2>1 DEF ThreadRecord
<1>6. /\ result' \in [0 .. Join!Threads * Len(files) - 1 -> Seq(Run)]
      /\ UNCHANGED <<files, mpc, file, k, data, jout, joining>>
  BY <1>1, AddEntryType, JoinKept
<1> QED BY <1>1, <1>5, <1>6, ThreadMoves

WithState(r, state) == [r EXCEPT !.state = state]

LEMMA JoinEndThread ==
    ASSUME JoinInv, NEW t \in 0 .. Last0, Join!EndThread(t) PROVE JoinInv'
<1>1. thread[t].state = "loop" /\ thread[t] \in ThreadRecord
  BY JoinKept DEF Join!EndThread
<1> PICK th : th = WithState(thread[t], "ended")
  OBVIOUS
<1>2. th \in ThreadRecord /\ th.state = "ended"
  BY <1>1 DEF WithState, ThreadRecord
<1>3. \/ Join!Crash
      \/ /\ thread' = [thread EXCEPT ![t] = th]
         /\ UNCHANGED <<files, mpc, file, k, data, result, jout, joining>> \/ Join!AddEntry(t)
  BY DEF Join!EndThread, WithState
<1>4. CASE Join!Crash
  BY <1>4, JoinCrash
<1>5. CASE /\ thread' = [thread EXCEPT ![t] = th]
           /\ UNCHANGED <<files, mpc, file, k, data, result, jout, joining>> \/ Join!AddEntry(t)
  <2>1. /\ result' \in [0 .. Join!Threads * Len(files) - 1 -> Seq(Run)]
        /\ UNCHANGED <<files, mpc, file, k, data, jout, joining>>
    BY <1>1, <1>5, AddEntryType, JoinKept
  <2> QED BY <1>1, <1>2, <1>5, <2>1, ThreadMoves
<1> QED BY <1>3, <1>4, <1>5

LEMMA JoinStays == ASSUME JoinInv, UNCHANGED <<files, joinVars>> PROVE JoinInv'
<1>1. /\ mpc' = mpc /\ files' = files /\ file' = file /\ data' = data /\ k' = k
      /\ thread' = thread /\ result' = result /\ jout' = jout /\ joining' = joining
  BY DEF joinVars
<1>2. Last0' = Last0
  BY <1>1, SameThreads
<1>3. Join!TypeOK'
  BY <1>1, JoinKept, JoinTyped
<1>4. JoinPlace'
  BY <1>1, <1>2 DEF JoinInv, JoinPlace
<1> QED BY <1>3, <1>4 DEF JoinInv

LEMMA JoinMoves ==
    ASSUME [ToolsNext]_toolVars PROVE Join!Next \/ UNCHANGED <<files, joinVars>>
<1>1. CASE Wzips
  <2>1. files' = files
    BY <1>1 DEF Wzips, Next, Open, Read, Close, WriteLast, Exit
  <2> QED BY <1>1, <2>1 DEF Wzips
<1>2. CASE Wpzips
  BY <1>2 DEF Wpzips
<1>3. CASE Wunzips \/ Over \/ UNCHANGED toolVars
  BY <1>3 DEF Wunzips, Over, toolVars, vars
<1> QED BY <1>1, <1>2, <1>3 DEF ToolsNext

LEMMA JoinStep == ASSUME JoinInv, [ToolsNext]_toolVars PROVE JoinInv'
<1>1. CASE UNCHANGED <<files, joinVars>>
  BY <1>1, JoinStays
<1>2. CASE Join!Next
  <2>1. DOMAIN thread = 0 .. Last0
    BY JoinTypes DEF JoinInv
  <2>2. Join!Main \/ \E t \in 0 .. Last0 :
                       Join!FirstByte(t) \/ Join!NextByte(t) \/ Join!EndThread(t)
    BY <1>2, <2>1, Zenon DEF Join!Next
  <2>3. CASE Join!Main
    BY <2>3, JoinOpen, JoinCreate, JoinJoin, JoinRelease, JoinMerge, JoinWrite DEF Join!Main
  <2>4. ASSUME NEW t \in 0 .. Last0, Join!FirstByte(t) \/ Join!NextByte(t) \/ Join!EndThread(t)
        PROVE  JoinInv'
    BY <2>4, JoinFirstByte, JoinNextByte, JoinEndThread
  <2> QED BY <2>2, <2>3, <2>4
<1> QED BY <1>1, <1>2, JoinMoves

LEMMA JoinInvariance == ToolsSpec => []JoinInv
<1>1. ToolsInit => JoinInv
  BY JoinStart DEF ToolsInit
<1>2. JoinInv /\ [ToolsNext]_toolVars => JoinInv'
  BY JoinStep
<1> QED BY <1>1, <1>2, PTL DEF ToolsSpec

(* In the first parallel zip no thread reads a file that main has already
   released, or one that is not yet in memory: for any number of threads, files
   and characters. *)
THEOREM NoUseAfterFree == ToolsSpec => []ReadBeforeFree
<1>1. JoinInv => ReadBeforeFree
  <2> SUFFICES ASSUME JoinInv PROVE ReadBeforeFree
    OBVIOUS
  <2>1. DOMAIN thread = 0 .. Last0
    BY JoinTypes DEF JoinInv
  <2> QED BY <2>1 DEF ReadBeforeFree, Join!ReadBeforeFree, JoinInv, JoinPlace
<1> QED BY <1>1, JoinInvariance, PTL

-----------------------------------------------------------------------------
(* wunzip.c: every fifth byte of a zipped file is a character, the four before
   it a count. *)

Digit == 0 .. Base - 1
Byte  == Char \cup Digit

(* A byte sequence of which this many bytes of a run have been read before.  *)
InStep(s, before) ==
    \A p \in 1 .. Len(s) : IF (p + before) % 5 = 0 THEN s[p] \in Char ELSE s[p] \in Digit

LEMMA LimitFacts ==
    /\ Unzip!Limit \in Nat \ {0} /\ Base \in Nat \ {0}
    /\ \A n \in 1 .. 4 : Unzip!Weight[n] \in Nat \ {0}
    /\ \A n \in Int : Unzip!ToInt(n) \in -Unzip!Limit .. Unzip!Limit - 1
<1>1. Base \in Nat /\ Base >= 2
  BY ZipToolsAssumption
<1>2. Base * Base \in Nat /\ Base * Base >= 2
  BY <1>1
<1> PICK square \in Nat : square = Base * Base /\ square >= 2
  BY <1>2
<1>3. square * Base \in Nat /\ square * Base >= 2
  BY <1>1
<1> PICK cube \in Nat : cube = square * Base /\ cube >= 2
  BY <1>3
<1>4. Base * cube \in Nat /\ Base * cube >= 2
  BY <1>1
<1>5. Unzip!Weight = <<1, Base, square, cube>>
  BY DEF Unzip!Weight
<1>6. \A n \in 1 .. 4 : Unzip!Weight[n] \in Nat \ {0}
  <2>1. \A n \in 1 .. 4 : n = 1 \/ n = 2 \/ n = 3 \/ n = 4
    OBVIOUS
  <2>2. 1 \in Nat \ {0} /\ Base \in Nat \ {0} /\ square \in Nat \ {0} /\ cube \in Nat \ {0}
    BY <1>1
  <2> QED BY <1>5, <2>1, <2>2
<1> PICK whole \in Nat : whole = Base * cube /\ whole >= 2
  BY <1>4
<1>7. Unzip!Limit = whole \div 2
  BY <1>5 DEF Unzip!Limit
<1>8. whole \div 2 \in Nat \ {0}
  OBVIOUS
<1>9. ASSUME NEW n \in Int PROVE Unzip!ToInt(n) \in -Unzip!Limit .. Unzip!Limit - 1
  <2> PICK l \in Nat \ {0} : l = Unzip!Limit
    BY <1>7, <1>8
  <2>1. (n + l) % (2 * l) \in 0 .. 2 * l - 1
    OBVIOUS
  <2>2. ((n + l) % (2 * l)) - l \in -l .. l - 1
    BY <2>1
  <2> QED BY <2>2 DEF Unzip!ToInt
<1> QED BY <1>1, <1>6, <1>7, <1>8, <1>9

(* The bytes of one run.                                                     *)
RunBytes(r) == Append(Unzip!Digits(r.count), r.char)

LEMMA RunBytesFacts ==
    ASSUME NEW r \in Run
    PROVE  /\ RunBytes(r) \in Seq(Byte) /\ Len(RunBytes(r)) = 5
           /\ \A p \in 1 .. 4 : RunBytes(r)[p] = Unzip!Digits(r.count)[p] /\ RunBytes(r)[p] \in Digit
           /\ RunBytes(r)[5] = r.char /\ r.char \in Char
<1> PICK n : n = r.count
  OBVIOUS
<1> PICK d : d = Unzip!Digits(n)
  OBVIOUS
<1>1. n \in Nat /\ r.char \in Char
  BY DEF Run
<1>2. \A p \in 1 .. 4 : (n \div Unzip!Weight[p]) % Base \in Digit
  <2> SUFFICES ASSUME NEW p \in 1 .. 4 PROVE (n \div Unzip!Weight[p]) % Base \in Digit
    OBVIOUS
  <2> PICK w \in Nat \ {0} : w = Unzip!Weight[p]
    BY LimitFacts
  <2> PICK b \in Nat \ {0} : b = Base
    BY LimitFacts
  <2>1. n \div w \in Nat
    BY <1>1
  <2> PICK q \in Nat : q = n \div w
    BY <2>1
  <2>2. q % b \in 0 .. b - 1
    OBVIOUS
  <2> QED BY <2>2 DEF Digit
<1>3. d = [p \in 1 .. 4 |-> (n \div Unzip!Weight[p]) % Base]
  BY DEF Unzip!Digits
<1>4. \A p \in 1 .. 4 : d[p] \in Digit
  BY <1>2, <1>3
<1>5. d \in Seq(Byte) /\ Len(d) = 4
  BY <1>3, <1>4 DEF Byte
<1>6. r.char \in Byte /\ RunBytes(r) = Append(d, r.char)
  BY <1>1 DEF Byte, RunBytes
<1>7. /\ Append(d, r.char) \in Seq(Byte) /\ Len(Append(d, r.char)) = 5
      /\ Append(d, r.char)[5] = r.char /\ \A p \in 1 .. 4 : Append(d, r.char)[p] = d[p]
  BY <1>5, <1>6, AppendProperties
<1> QED BY <1>1, <1>4, <1>6, <1>7

AllBytes(runs) == [n \in 1 .. Len(runs) |-> RunBytes(runs[n])]

LEMMA BytesDef ==
    ASSUME NEW runs \in Seq(Run)
    PROVE  /\ Unzip!Bytes(runs) = FlattenSeq(AllBytes(runs))
           /\ AllBytes(runs) \in Seq(Seq(Byte))
<1>1. DOMAIN runs = 1 .. Len(runs) /\ Len(runs) \in Nat
  OBVIOUS
<1>2. \A s : Unzip!FlattenSeq(s) = FlattenSeq(s)
  BY DEF Unzip!FlattenSeq, FlattenSeq
<1>3. Unzip!Bytes(runs) = Unzip!FlattenSeq(AllBytes(runs))
  BY <1>1 DEF Unzip!Bytes, AllBytes, RunBytes
<1>4. \A n \in 1 .. Len(runs) : RunBytes(runs[n]) \in Seq(Byte)
  BY RunBytesFacts
<1>5. AllBytes(runs) \in Seq(Seq(Byte))
  BY <1>1, <1>4 DEF AllBytes
<1> QED BY <1>2, <1>3, <1>5

LEMMA BytesMore ==
    ASSUME NEW runs \in Seq(Run)
    PROVE  /\ Unzip!Bytes(<<>>) = <<>>
           /\ Unzip!Bytes(runs) \in Seq(Byte)
           /\ \A r \in Run : Unzip!Bytes(Append(runs, r)) = Unzip!Bytes(runs) \o RunBytes(r)
<1>1. Unzip!Bytes(<<>>) = <<>>
  <2> PICK none : none = <<>>
    OBVIOUS
  <2>1. none \in Seq(Run) /\ Len(none) = 0
    OBVIOUS
  <2>2. Unzip!Bytes(none) = FlattenSeq(AllBytes(none)) /\ AllBytes(none) \in Seq(Seq(Byte))
    BY <2>1, BytesDef
  <2>3. AllBytes(none) = <<>>
    BY <2>1 DEF AllBytes
  <2>4. FlattenSeq(<<>>) = <<>>
    BY <2>2, FlattenFacts
  <2> QED BY <2>2, <2>3, <2>4
<1>2. Unzip!Bytes(runs) \in Seq(Byte)
  BY BytesDef, FlattenFacts
<1>3. ASSUME NEW r \in Run PROVE Unzip!Bytes(Append(runs, r)) = Unzip!Bytes(runs) \o RunBytes(r)
  <2> PICK more : more = Append(runs, r)
    OBVIOUS
  <2> PICK n : n = Len(runs)
    OBVIOUS
  <2> PICK s : s = AllBytes(runs)
    OBVIOUS
  <2> PICK t : t = AllBytes(more)
    OBVIOUS
  <2> PICK x : x = RunBytes(r)
    OBVIOUS
  <2>1. more \in Seq(Run) /\ Len(more) = n + 1 /\ more[n + 1] = r /\ n \in Nat
        /\ \A m \in 1 .. n : more[m] = runs[m]
    OBVIOUS
  <2>2. s \in Seq(Seq(Byte)) /\ t \in Seq(Seq(Byte)) /\ x \in Seq(Byte)
    BY <2>1, BytesDef, RunBytesFacts
  <2>3. Len(s) = n /\ Len(t) = n + 1 /\ t[n + 1] = x /\ \A m \in 1 .. n : t[m] = s[m]
    BY <2>1 DEF AllBytes
  <2>4. t = Append(s, x)
    BY <2>1, <2>2, <2>3
  <2>5. FlattenSeq(t) = FlattenSeq(s) \o x
    BY <2>2, <2>4, FlattenFacts
  <2>6. Unzip!Bytes(more) = FlattenSeq(t) /\ Unzip!Bytes(runs) = FlattenSeq(s)
    BY <2>1, BytesDef
  <2> QED BY <2>5, <2>6
<1> QED BY <1>1, <1>2, <1>3

Coded(s, n) == s \in Seq(Byte) /\ Len(s) = 5 * n /\ InStep(s, 0)

LEMMA ByFives ==
    ASSUME NEW n \in Nat, NEW q \in 1 .. 5
    PROVE  (5 * n + q + 0) % 5 = 0 <=> q = 5
OBVIOUS

LEMMA CodedMore ==
    ASSUME NEW n \in Nat, NEW s, Coded(s, n), NEW r \in Run
    PROVE  Coded(s \o RunBytes(r), n + 1)
<1> PICK x : x = RunBytes(r)
  OBVIOUS
<1> PICK t : t = s \o x
  OBVIOUS
<1>1. s \in Seq(Byte) /\ Len(s) = 5 * n /\ x \in Seq(Byte) /\ Len(x) = 5
  BY RunBytesFacts DEF Coded
<1>2. /\ t \in Seq(Byte) /\ Len(t) = 5 * n + 5
      /\ \A p \in 1 .. Len(t) : t[p] = IF p <= 5 * n THEN s[p] ELSE x[p - 5 * n]
  <2> PICK l \in Nat : l = 5 * n
    OBVIOUS
  <2>1. /\ t \in Seq(Byte) /\ Len(t) = l + 5
        /\ \A p \in 1 .. Len(t) : t[p] = IF p <= l THEN s[p] ELSE x[p - l]
    <3>1. /\ t \in Seq(Byte) /\ Len(t) = Len(s) + Len(x)
          /\ \A p \in 1 .. Len(s) + Len(x) : t[p] = IF p <= Len(s) THEN s[p] ELSE x[p - Len(s)]
      BY <1>1, ConcatProperties
    <3>2. Len(s) = l /\ Len(x) = 5
      BY <1>1
    <3> QED BY <3>1, <3>2
  <2> QED BY <2>1
<1>3. Len(t) = 5 * (n + 1)
  BY <1>2
<1>4. ASSUME NEW p \in 1 .. Len(t)
      PROVE  IF (p + 0) % 5 = 0 THEN t[p] \in Char ELSE t[p] \in Digit
  <2>1. CASE p <= 5 * n
    <3>1. p \in 1 .. Len(s) /\ t[p] = s[p]
      BY <1>1, <1>2, <2>1
    <3> QED BY <3>1 DEF Coded, InStep
  <2>2. CASE ~(p <= 5 * n)
    <3> PICK q : q = p - 5 * n
      OBVIOUS
    <3>1. q \in 1 .. 5 /\ p = 5 * n + q
      BY <1>2, <2>2
    <3>2. t[p] = x[q]
      BY <1>2, <2>2
    <3>3. CASE q = 5
      <4>1. (p + 0) % 5 = 0
        BY <3>1, <3>3, ByFives
      <4> QED BY <3>2, <3>3, <4>1, RunBytesFacts
    <3>4. CASE q # 5
      <4>1. (p + 0) % 5 # 0 /\ q \in 1 .. 4
        <5>1. (5 * n + q + 0) % 5 # 0
          BY <3>1, <3>4, ByFives
        <5>2. q \in 1 .. 4
          BY <3>1, <3>4
        <5> QED BY <3>1, <5>1, <5>2
      <4> QED BY <3>2, <4>1, RunBytesFacts
    <3> QED BY <3>3, <3>4
  <2> QED BY <2>1, <2>2
<1> QED BY <1>2, <1>3, <1>4 DEF Coded, InStep

LEMMA BytesCoded ==
    ASSUME NEW runs \in Seq(Run)
    PROVE  Coded(Unzip!Bytes(runs), Len(runs))
<1> DEFINE T == {n \in Nat : \E s \in Seq(Run) : Len(s) = n /\ ~Coded(Unzip!Bytes(s), n)}
<1> SUFFICES ASSUME T # {} PROVE FALSE
  <2>1. Len(runs) \in Nat
    OBVIOUS
  <2> QED BY <2>1
<1>1. T \in SUBSET Nat
      /\ \A n \in Nat \ T : \A s \in Seq(Run) : Len(s) = n => Coded(Unzip!Bytes(s), n)
  OBVIOUS
<1>2. \A n \in T : \E s \in Seq(Run) : Len(s) = n /\ ~Coded(Unzip!Bytes(s), n)
  OBVIOUS
<1> HIDE DEF T
<1> PICK n : n \in T /\ \A m \in T : n <= m
  BY <1>1, LeastNat
<1> PICK s \in Seq(Run) : Len(s) = n /\ ~Coded(Unzip!Bytes(s), n)
  BY <1>2
<1>3. s # <<>>
  <2> SUFFICES ASSUME s = <<>> PROVE FALSE
    OBVIOUS
  <2> PICK none : none = <<>>
    OBVIOUS
  <2>1. Len(none) = 0 /\ none \in Seq(Byte) /\ n = 0
    OBVIOUS
  <2>2. Unzip!Bytes(s) = none
    BY BytesMore
  <2>3. Coded(none, 0)
    BY <2>1 DEF Coded, InStep
  <2> QED BY <2>1, <2>2, <2>3
<1> PICK t \in Seq(Run), r \in Run : s = Append(t, r) /\ Len(s) = Len(t) + 1
  BY <1>3, SplitLast
<1> PICK m : m = Len(t)
  OBVIOUS
<1>4. m \in Nat \ T /\ m + 1 = n
  <2>1. m \in Nat /\ ~(n <= m) /\ m + 1 = n
    OBVIOUS
  <2> QED BY <2>1
<1>5. Coded(Unzip!Bytes(t), m)
  BY <1>1, <1>4
<1>6. Coded(Unzip!Bytes(t) \o RunBytes(r), m + 1)
  BY <1>4, <1>5, CodedMore
<1>7. Unzip!Bytes(s) = Unzip!Bytes(t) \o RunBytes(r)
  BY BytesMore
<1> QED BY <1>4, <1>6, <1>7

(* A byte less.                                                              *)
LEMMA ByteRead ==
    ASSUME NEW s \in Seq(Byte), s # <<>>, NEW before \in 0 .. 4, InStep(s, before)
    PROVE  /\ Head(s) = s[1] /\ Tail(s) \in Seq(Byte)
           /\ IF before = 4 THEN Head(s) \in Char /\ InStep(Tail(s), 0)
              ELSE Head(s) \in Digit /\ InStep(Tail(s), before + 1)
<1>1. /\ Head(s) = s[1] /\ Tail(s) \in Seq(Byte) /\ Len(Tail(s)) = Len(s) - 1
      /\ \A p \in 1 .. Len(s) - 1 : Tail(s)[p] = s[p + 1]
      /\ Len(s) \in Nat /\ 1 \in 1 .. Len(s)
  OBVIOUS
<1>2. \A p \in 1 .. Len(s) - 1 : p + 1 \in 1 .. Len(s)
  BY <1>1
<1>3. CASE before = 4
  <2>1. (1 + before) % 5 = 0 /\ \A p \in Nat : ((p + 1) + before) % 5 = (p + 0) % 5
    BY <1>3
  <2>2. Head(s) \in Char
    BY <1>1, <2>1 DEF InStep
  <2>3. InStep(Tail(s), 0)
    BY <1>1, <1>2, <2>1 DEF InStep
  <2> QED BY <1>1, <1>3, <2>2, <2>3
<1>4. CASE before # 4
  <2>1. (1 + before) % 5 # 0 /\ \A p \in Nat : (p + 1) + before = p + (before + 1)
    BY <1>4
  <2>2. Head(s) \in Digit
    BY <1>1, <2>1 DEF InStep
  <2>3. InStep(Tail(s), before + 1)
    BY <1>1, <1>2, <2>1 DEF InStep
  <2> QED BY <1>1, <1>4, <2>2, <2>3
<1> QED BY <1>3, <1>4

-----------------------------------------------------------------------------
(* The file that is read starts a run where the count starts.                *)
ZipFile(z) == z = Missing \/ (z \in Seq(Byte) /\ InStep(z, 0))

UnzipPlace ==
    /\ unzipping = "idle" => zipped = <<>> /\ bytes = Missing
    /\ zipped \in Seq(Seq(Byte) \cup {Missing})
    /\ \A n \in 1 .. Len(zipped) : ZipFile(zipped[n])
    /\ unzipping = "running" /\ bytes # Missing =>
         bytes \in Seq(Byte) /\ InStep(bytes, counter) /\ at <= Len(zipped)

UnzipInv == Unzip!TypeOK /\ UnzipPlace

LEMMA UnzipStart == ASSUME Unzip!Init PROVE UnzipInv
<1>1. /\ zipped = <<>> /\ at = 1 /\ bytes = Missing /\ counter = 0 /\ rep_count = 0
      /\ text = <<>> /\ unzipping = "idle"
  BY DEF Unzip!Init
<1> PICK l \in Nat \ {0} : l = Unzip!Limit
  BY LimitFacts
<1>2. at \in 1 .. Len(zipped) + 1 /\ 0 \in -l .. l - 1 /\ text \in Seq(Char)
  BY <1>1
<1>3. Unzip!TypeOK
  BY <1>1, <1>2 DEF Unzip!TypeOK
<1> QED BY <1>1, <1>3 DEF UnzipInv, UnzipPlace

LEMMA OneAndOne ==
    ASSUME NEW x, NEW y PROVE <<x>> \o <<y>> = <<x, y>>
<1> PICK u : u = <<x>>
  OBVIOUS
<1> PICK v : v = <<y>>
  OBVIOUS
<1> PICK w : w = <<x, y>>
  OBVIOUS
<1>1. u \in Seq({x, y}) /\ v \in Seq({x, y}) /\ w \in Seq({x, y})
  OBVIOUS
<1>2. Len(u) = 1 /\ Len(v) = 1 /\ Len(w) = 2 /\ u[1] = x /\ v[1] = y /\ w[1] = x /\ w[2] = y
  OBVIOUS
<1>3. u \o v \in Seq({x, y}) /\ Len(u \o v) = 2 /\ (u \o v)[1] = x /\ (u \o v)[2] = y
  BY <1>1, <1>2
<1>4. \A n \in 1 .. 2 : (u \o v)[n] = w[n]
  <2>1. \A n \in 1 .. 2 : n = 1 \/ n = 2
    OBVIOUS
  <2> QED BY <1>2, <1>3, <2>1
<1> QED BY <1>1, <1>2, <1>3, <1>4, SeqEqual

(* wunzip is given what was written, and perhaps a second file: the same or none. *)
LEMMA StartGives ==
    ASSUME StartUnzip, Output \in Seq(Run)
    PROVE  /\ zipped' \in Seq(Seq(Byte) \cup {Missing}) /\ Len(zipped') \in Nat
           /\ \A n \in 1 .. Len(zipped') : zipped'[n] = Unzip!Bytes(Output) \/ zipped'[n] = Missing
<1> PICK z : z = Unzip!Bytes(Output)
  OBVIOUS
<1>1. z \in Seq(Byte)
  BY BytesCoded DEF Coded
<1>2. \E more \in {<<>>, <<z>>, <<Missing>>} : Unzip!Start(<<z>> \o more)
  BY DEF StartUnzip
<1> PICK more \in {<<>>, <<z>>, <<Missing>>} : Unzip!Start(<<z>> \o more)
  BY <1>2
<1>3. zipped' = <<z>> \o more
  BY DEF Unzip!Start
<1>4. <<z>> \o <<>> = <<z>> /\ <<z>> \o <<z>> = <<z, z>> /\ <<z>> \o <<Missing>> = <<z, Missing>>
  <2>1. <<z>> \o <<z>> = <<z, z>> /\ <<z>> \o <<Missing>> = <<z, Missing>>
    BY OneAndOne
  <2>2. <<z>> \o <<>> = <<z>>
    OBVIOUS
  <2> QED BY <2>1, <2>2
<1>5. zipped' = <<z>> \/ zipped' = <<z, z>> \/ zipped' = <<z, Missing>>
  BY <1>3, <1>4
<1>6. CASE zipped' = <<z>>
  BY <1>1, <1>6
<1>7. CASE zipped' = <<z, z>>
  BY <1>1, <1>7
<1>8. CASE zipped' = <<z, Missing>>
  BY <1>1, <1>8
<1> QED BY <1>5, <1>6, <1>7, <1>8

LEMMA UnzipBegin ==
    ASSUME UnzipInv, Output \in Seq(Run), StartUnzip PROVE UnzipInv'
<1> PICK z : z = Unzip!Bytes(Output)
  OBVIOUS
<1>1. Coded(z, Len(Output)) /\ z \in Seq(Byte)
  BY BytesCoded DEF Coded
<1>2. /\ unzipping = "idle" /\ unzipping' = "running"
      /\ at' = at /\ bytes' = bytes /\ counter' = counter /\ rep_count' = rep_count /\ text' = text
  BY DEF StartUnzip, Unzip!Start
<1>3. ZipFile(z) /\ ZipFile(Missing)
  BY <1>1 DEF ZipFile, Coded
<1>4. /\ zipped' \in Seq(Seq(Byte) \cup {Missing}) /\ Len(zipped') \in Nat
      /\ \A n \in 1 .. Len(zipped') : zipped'[n] = z \/ zipped'[n] = Missing
  BY StartGives
<1>5. zipped = <<>> /\ at \in 1 .. Len(zipped) + 1 /\ bytes = bytes
  BY <1>2 DEF UnzipInv, UnzipPlace, Unzip!TypeOK
<1>6. at' \in 1 .. Len(zipped') + 1
  BY <1>2, <1>4, <1>5
<1>7. Unzip!TypeOK'
  BY <1>2, <1>6 DEF UnzipInv, Unzip!TypeOK
<1> QED BY <1>2, <1>3, <1>4, <1>7 DEF UnzipInv, UnzipPlace

LEMMA UnzipKept ==
    ASSUME UnzipInv
    PROVE  /\ at \in 1 .. Len(zipped) + 1 /\ bytes \in Seq(Byte) \cup {Missing}
           /\ counter \in 0 .. 4 /\ rep_count \in -Unzip!Limit .. Unzip!Limit - 1
           /\ text \in Seq(Char) /\ unzipping \in {"idle", "running", "exited", "failed"}
           /\ zipped \in Seq(Seq(Byte) \cup {Missing}) /\ Len(zipped) \in Nat
BY DEF UnzipInv, UnzipPlace, Unzip!TypeOK, Byte, Digit

LEMMA UnzipTyped ==
    ASSUME zipped' = zipped, at' \in 1 .. Len(zipped) + 1, bytes' \in Seq(Byte) \cup {Missing},
           counter' \in 0 .. 4, rep_count' \in -Unzip!Limit .. Unzip!Limit - 1,
           text' \in Seq(Char), unzipping' \in {"idle", "running", "exited", "failed"}
    PROVE  Unzip!TypeOK'
BY DEF Unzip!TypeOK, Unzip!Limit, Byte, Digit

LEMMA UnzipOpen == ASSUME UnzipInv, Unzip!Open PROVE UnzipInv'
<1>1. /\ unzipping = "running" /\ at <= Len(zipped) /\ bytes = Missing /\ bytes' = zipped[at]
      /\ counter' = 0 /\ rep_count' = 0 /\ unzipping' \in {unzipping, "failed"}
      /\ zipped' = zipped /\ at' = at /\ text' = text
  BY DEF Unzip!Open
<1>2. at \in 1 .. Len(zipped)
  BY <1>1, UnzipKept
<1>3. bytes' \in Seq(Byte) \cup {Missing} /\ ZipFile(bytes')
  BY <1>1, <1>2, UnzipKept DEF UnzipInv, UnzipPlace
<1> PICK l \in Nat \ {0} : l = Unzip!Limit
  BY LimitFacts
<1>4. 0 \in -l .. l - 1 /\ 0 \in 0 .. 4
  OBVIOUS
<1>5. Unzip!TypeOK'
  BY <1>1, <1>3, <1>4, UnzipKept, UnzipTyped
<1>6. UnzipPlace'
  BY <1>1, <1>3 DEF UnzipInv, UnzipPlace, ZipFile
<1> QED BY <1>5, <1>6 DEF UnzipInv

LEMMA UnzipReadCount == ASSUME UnzipInv, Unzip!ReadCount PROVE UnzipInv'
<1>1. /\ unzipping = "running" /\ bytes # Missing /\ bytes # <<>> /\ counter < 4
      /\ rep_count' = Unzip!ToInt(rep_count + Unzip!Weighed(Head(bytes)))
      /\ counter' = counter + 1 /\ bytes' = Tail(bytes)
      /\ zipped' = zipped /\ at' = at /\ text' = text /\ unzipping' = unzipping
  BY DEF Unzip!ReadCount
<1>2. bytes \in Seq(Byte) /\ InStep(bytes, counter) /\ at <= Len(zipped)
  BY <1>1 DEF UnzipInv, UnzipPlace
<1>3. counter \in 0 .. 4 /\ counter # 4 /\ counter + 1 \in 0 .. 4 /\ counter + 1 \in 1 .. 4
  BY <1>1, UnzipKept
<1>4. Head(bytes) \in Digit /\ Tail(bytes) \in Seq(Byte) /\ InStep(Tail(bytes), counter + 1)
  BY <1>1, <1>2, <1>3, ByteRead
<1>5. rep_count' \in -Unzip!Limit .. Unzip!Limit - 1
  <2> PICK d : d = Head(bytes)
    OBVIOUS
  <2> PICK w \in Nat \ {0} : w = Unzip!Weight[counter + 1]
    BY <1>3, LimitFacts
  <2>1. d \in Nat
    BY <1>4, LimitFacts DEF Digit
  <2>2. d * w \in Nat
    BY <2>1
  <2>3. rep_count \in Int
    BY UnzipKept, LimitFacts
  <2> PICK n : n = rep_count + d * w
    OBVIOUS
  <2>4. n \in Int
    BY <2>2, <2>3
  <2>5. rep_count' = Unzip!ToInt(n)
    BY <1>1 DEF Unzip!Weighed
  <2> QED BY <2>4, <2>5, LimitFacts
<1>6. Unzip!TypeOK'
  BY <1>1, <1>3, <1>4, <1>5, UnzipKept, UnzipTyped
<1>7. UnzipPlace'
  BY <1>1, <1>2, <1>4 DEF UnzipInv, UnzipPlace
<1> QED BY <1>6, <1>7 DEF UnzipInv

LEMMA Repeated ==
    ASSUME NEW c \in Char, NEW n \in Int
    PROVE  [m \in 1 .. n |-> c] \in Seq(Char)
<1>1. CASE n >= 0
  BY <1>1
<1>2. CASE ~(n >= 0)
  <2>1. 1 .. n = {}
    BY <1>2
  <2>2. [m \in {} |-> c] = <<>>
    OBVIOUS
  <2>3. [m \in 1 .. n |-> c] = <<>>
    BY <2>1, <2>2
  <2> QED BY <2>3
<1> QED BY <1>1, <1>2

LEMMA UnzipReadChar == ASSUME UnzipInv, Unzip!ReadChar PROVE UnzipInv'
<1>1. /\ unzipping = "running" /\ bytes # Missing /\ bytes # <<>> /\ counter = 4
      /\ text' = text \o [n \in 1 .. rep_count |-> Head(bytes)]
      /\ counter' = 0 /\ rep_count' = 0 /\ bytes' = Tail(bytes)
      /\ zipped' = zipped /\ at' = at /\ unzipping' = unzipping
  BY DEF Unzip!ReadChar
<1>2. bytes \in Seq(Byte) /\ InStep(bytes, counter) /\ at <= Len(zipped)
  BY <1>1 DEF UnzipInv, UnzipPlace
<1>3. Head(bytes) \in Char /\ Tail(bytes) \in Seq(Byte) /\ InStep(Tail(bytes), 0)
  <2>1. 4 \in 0 .. 4 /\ InStep(bytes, 4)
    BY <1>1, <1>2
  <2> QED BY <1>1, <1>2, <2>1, ByteRead
<1>4. text' \in Seq(Char)
  <2> PICK c : c = Head(bytes)
    OBVIOUS
  <2> PICK n : n = rep_count
    OBVIOUS
  <2>1. n \in Int /\ c \in Char
    BY <1>3, UnzipKept, LimitFacts
  <2> PICK s : s = [m \in 1 .. n |-> c]
    OBVIOUS
  <2>2. s \in Seq(Char)
    BY <2>1, Repeated
  <2>3. text' = text \o s
    BY <1>1
  <2> QED BY <2>2, <2>3, UnzipKept, ConcatProperties
<1> PICK l \in Nat \ {0} : l = Unzip!Limit
  BY LimitFacts
<1>5. 0 \in -l .. l - 1 /\ 0 \in 0 .. 4
  OBVIOUS
<1>6. Unzip!TypeOK'
  BY <1>1, <1>3, <1>4, <1>5, UnzipKept, UnzipTyped
<1>7. UnzipPlace'
  BY <1>1, <1>2, <1>3 DEF UnzipInv, UnzipPlace
<1> QED BY <1>6, <1>7 DEF UnzipInv

LEMMA UnzipNextFile == ASSUME UnzipInv, Unzip!NextFile PROVE UnzipInv'
<1>1. /\ unzipping = "running" /\ bytes = <<>> /\ at' = at + 1 /\ bytes' = Missing
      /\ counter' = counter /\ rep_count' = rep_count /\ text' = text
      /\ zipped' = zipped /\ unzipping' = unzipping
  BY DEF Unzip!NextFile
<1>2. bytes # Missing
  <2>1. <<>> \in Seq(Char)
    OBVIOUS
  <2> QED BY <1>1, <2>1, FileListsAssumption
<1>3. at <= Len(zipped)
  BY <1>1, <1>2 DEF UnzipInv, UnzipPlace
<1>4. at' \in 1 .. Len(zipped) + 1
  BY <1>1, <1>3, UnzipKept
<1>5. Unzip!TypeOK'
  BY <1>1, <1>4, UnzipKept, UnzipTyped
<1>6. UnzipPlace'
  BY <1>1 DEF UnzipInv, UnzipPlace
<1> QED BY <1>5, <1>6 DEF UnzipInv

LEMMA UnzipRest ==
    ASSUME UnzipInv, Unzip!Exit \/ UNCHANGED unzipVars PROVE UnzipInv'
<1>1. /\ at' = at /\ bytes' = bytes /\ counter' = counter /\ rep_count' = rep_count
      /\ text' = text /\ zipped' = zipped
      /\ unzipping' = unzipping \/ unzipping' = "exited"
  BY DEF Unzip!Exit, unzipVars
<1>2. Unzip!TypeOK'
  BY <1>1, UnzipKept, UnzipTyped
<1>3. UnzipPlace'
  BY <1>1 DEF UnzipInv, UnzipPlace
<1> QED BY <1>2, <1>3 DEF UnzipInv

LEMMA UnzipStep ==
    ASSUME UnzipInv, WzipInv, JoinInv, [ToolsNext]_toolVars PROVE UnzipInv'
<1>1. Output \in Seq(Run)
  BY JoinKept DEF Output, WzipInv, TypeOK
<1>2. StartUnzip \/ Unzip!Next \/ UNCHANGED unzipVars
  BY DEF ToolsNext, Wzips, Wpzips, Wunzips, Over, toolVars
<1>3. CASE StartUnzip
  BY <1>1, <1>3, UnzipBegin
<1>4. CASE Unzip!Next
  BY <1>4, UnzipOpen, UnzipReadCount, UnzipReadChar, UnzipNextFile, UnzipRest DEF Unzip!Next
<1>5. CASE UNCHANGED unzipVars
  BY <1>5, UnzipRest
<1> QED BY <1>2, <1>3, <1>4, <1>5

LEMMA UnzipInvariance == ToolsSpec => []UnzipInv
<1>1. ToolsInit => UnzipInv
  BY UnzipStart DEF ToolsInit
<1>2. UnzipInv /\ WzipInv /\ JoinInv /\ [ToolsNext]_toolVars => UnzipInv'
  BY UnzipStep
<1> QED BY <1>1, <1>2, WzipInvariance, JoinInvariance, PTL DEF ToolsSpec

(* The three programs keep their types: wunzip too, whose count is a sum of
   bytes only because every fifth byte, and no other, is the character. *)
THEOREM TypesCorrect == ToolsSpec => []TypesOK
<1>1. WzipInv /\ JoinInv /\ UnzipInv => TypesOK
  BY DEF WzipInv, JoinInv, UnzipInv, TypesOK
<1> QED BY <1>1, WzipInvariance, JoinInvariance, UnzipInvariance, PTL

-----------------------------------------------------------------------------
(* The first parallel zip writes what ZipStream promises.                    *)

(* Runs glued where they meet are the encoding of their text.                *)
LEMMA GlueAdds ==
    ASSUME NEW seen \in Seq(Char), NEW r \in Run, r.count >= 1
    PROVE  Join!AddRun(Rle(seen), r) = Rle(seen \o Copies(r))
<1>1. PICK code : code = Rle(seen)
  OBVIOUS
<1>2. code \in Seq(Run) /\ Canonical(code) /\ Expand(code) = seen
  BY <1>1, RleFacts, RleCanonical, ExpandRle
<1>3. Join!Last(code) = Last(code)
  BY DEF Join!Last, Last
<1>4. CASE code # <<>> /\ Last(code).char = r.char
  <2>1. PICK v \in Seq(Run), q \in Run : code = Append(v, q) /\ Len(code) = Len(v) + 1
    BY <1>2, <1>4, SplitLast
  <2>2. q.char = r.char /\ r.count \in Nat
    <3>1. code[Len(code)] = q
      BY <2>1, AppendProperties
    <3> QED BY <1>4, <3>1 DEF Last, Run
  <2>3. PICK new : new = BumpLast(code, r.count)
    OBVIOUS
  <2>4. new \in Seq(Run) /\ Canonical(new)
    BY <1>2, <1>4, <2>2, <2>3, CanonicalBump
  <2>5. Expand(new) = Expand(code) \o Copies([count |-> r.count, char |-> q.char])
    BY <2>1, <2>2, <2>3, BumpLastFacts
  <2>6. [count |-> r.count, char |-> q.char] = r
    BY <2>2 DEF Run
  <2>7. Rle(seen \o Copies(r)) = new
    BY <1>2, <2>4, <2>5, <2>6, CanonicalRle
  <2>8. Join!BumpLast(code, r.count) = BumpLast(code, r.count)
    BY DEF Join!BumpLast, BumpLast, Join!Bump, Bump
  <2>9. Join!AddRun(code, r) = new
    BY <1>3, <1>4, <2>3, <2>8 DEF Join!AddRun, Join!AddCount
  <2> QED BY <1>1, <2>7, <2>9
<1>5. CASE ~(code # <<>> /\ Last(code).char = r.char)
  <2>1. Join!AddRun(code, r) = Append(code, r)
    BY <1>3, <1>5, Zenon DEF Join!AddRun
  <2>2. Rle(seen \o Copies(r)) = Append(code, r)
    BY <1>1, <1>5, RleOfRun
  <2> QED BY <1>1, <2>1, <2>2
<1> QED BY <1>4, <1>5

LEMMA GlueEncodes ==
    ASSUME NEW runs \in Seq(Run), NEW seen \in Seq(Char), Encodes(runs, seen)
    PROVE  Glue(runs) = Rle(seen)
<1> DEFINE Bad(t) == (\A l \in 1 .. Len(t) : t[l].count >= 1) /\ Glue(t) # Rle(Expand(t))
           T == {n \in Nat : \E t \in Seq(Run) : Len(t) = n /\ Bad(t)}
<1>1. ASSUME T = {} PROVE Glue(runs) = Rle(seen)
  <2>1. Len(runs) \in Nat
    OBVIOUS
  <2>2. ~Bad(runs)
    BY <1>1, <2>1
  <2> QED BY <2>2 DEF Encodes
<1> SUFFICES ASSUME T # {} PROVE FALSE
  BY <1>1
<1>2. T \in SUBSET Nat
  OBVIOUS
<1>3. \A n \in Nat : n \in T <=> \E t \in Seq(Run) : Len(t) = n /\ Bad(t)
  OBVIOUS
<1> HIDE DEF T
<1>4. PICK n \in T : \A x \in T : n <= x
  BY <1>2, LeastNat
<1>5. PICK t \in Seq(Run) : Len(t) = n /\ Bad(t)
  BY <1>2, <1>3
<1>6. CASE t = <<>>
  <2>1. Glue(<<>>) = <<>>
    BY GlueFacts
  <2>2. Expand(<<>>) = <<>>
    BY <1>6, ExpandFacts
  <2>3. PICK none : none = <<>>
    OBVIOUS
  <2>4. Rle(<<>>) = <<>>
    <3>1. none \in Seq(Char)
      BY <2>3
    <3> QED BY <3>1, RleFacts
  <2> QED BY <1>5, <1>6, <2>1, <2>2, <2>4
<1>7. CASE t # <<>>
  <2>1. PICK u \in Seq(Run), r \in Run : t = Append(u, r) /\ Len(t) = Len(u) + 1
    BY <1>7, SplitLast
  <2>2. Len(u) \in Nat /\ ~(n <= Len(u)) /\ n = Len(u) + 1
    BY <1>5, <2>1
  <2>3. /\ t[n] = r /\ \A l \in 1 .. Len(u) : t[l] = u[l]
    BY <2>1, <2>2, AppendProperties
  <2>4. r.count >= 1 /\ \A l \in 1 .. Len(u) : u[l].count >= 1
    <3>1. n \in 1 .. n /\ \A l \in 1 .. Len(u) : l \in 1 .. n
      BY <2>2
    <3> QED BY <1>5, <2>3, <3>1
  <2>5. Glue(u) = Rle(Expand(u))
    <3>1. Len(u) \notin T
      BY <1>4, <2>2
    <3>2. ~Bad(u)
      BY <1>3, <2>2, <3>1
    <3> QED BY <2>4, <3>2
  <2>6. Glue(t) = Join!AddRun(Glue(u), r)
    BY <2>1, GlueFacts
  <2>7. Expand(u) \in Seq(Char) /\ Expand(t) = Expand(u) \o Copies(r)
    BY <2>1, ExpandFacts
  <2>8. Join!AddRun(Rle(Expand(u)), r) = Rle(Expand(u) \o Copies(r))
    BY <2>4, <2>7, GlueAdds
  <2> QED BY <1>5, <2>5, <2>6, <2>7, <2>8
<1> QED BY <1>6, <1>7

-----------------------------------------------------------------------------
(* Where the part of thread t of a file begins; that of the next one is where it
   ends. *)
Bound(f, t) == IF t = Join!Threads THEN Len(f) ELSE (Len(f) \div Join!Threads) * t
Part(f, t)  == SubSeq(f, Bound(f, t) + 1, Bound(f, t + 1))

LEMMA Multiples ==
    ASSUME NEW q \in Nat, NEW c \in Nat, NEW d \in Nat, c <= d
    PROVE  q * c \in Nat /\ q * c <= q * d /\ q * (c + 1) = q * c + q
<1>1. PICK e \in Nat : d = c + e
  <2>1. d - c \in Nat /\ d = c + (d - c)
    OBVIOUS
  <2> QED BY <2>1
<1>2. q * e \in Nat /\ q * c \in Nat
  OBVIOUS
<1>3. q * d = q * c + q * e
  BY <1>1
<1> QED BY <1>2, <1>3

LEMMA BoundFacts ==
    ASSUME files \in FileLists, NEW f \in Seq(Char)
    PROVE  /\ \A t \in 0 .. Join!Threads : Bound(f, t) \in Nat
           /\ Bound(f, 0) = 0 /\ Bound(f, Join!Threads) = Len(f)
           /\ \A t \in 0 .. Join!Threads - 1 :
                /\ Bound(f, t) <= Bound(f, t + 1) /\ Bound(f, t + 1) <= Len(f)
                /\ Bound(f, t) = (Len(f) \div Join!Threads) * t
<1>1. PICK count : count = Join!Threads
  OBVIOUS
<1>2. PICK len : len = Len(f)
  OBVIOUS
<1>3. PICK q : q = len \div count
  OBVIOUS
<1>4. count \in Nat /\ count >= 1 /\ len \in Nat
  BY <1>1, <1>2, ThreadsFacts
<1>5. q \in Nat /\ q * count <= len
  BY <1>3, <1>4
<1>6. \A t \in 0 .. count : Bound(f, t) = IF t = count THEN len ELSE q * t
  BY <1>1, <1>2, <1>3 DEF Bound
<1>7. ASSUME NEW t \in 0 .. count PROVE q * t \in Nat /\ q * t <= len
  <2>1. q * t \in Nat /\ q * t <= q * count
    BY <1>4, <1>5, Multiples
  <2>2. q * count \in Nat
    BY <1>4, <1>5
  <2> QED BY <1>4, <1>5, <2>1, <2>2
<1>8. \A t \in 0 .. count : Bound(f, t) \in Nat /\ Bound(f, t) <= len
  BY <1>4, <1>6, <1>7
<1>9. Bound(f, 0) = 0 /\ Bound(f, count) = len
  <2>1. q * 0 = 0
    BY <1>5
  <2>2. 0 \in 0 .. count /\ count \in 0 .. count /\ 0 # count
    BY <1>4
  <2> QED BY <1>6, <2>1, <2>2
<1>10. ASSUME NEW t \in 0 .. count - 1
       PROVE  Bound(f, t) <= Bound(f, t + 1) /\ Bound(f, t) = q * t
  <2>1. t \in 0 .. count /\ t + 1 \in 0 .. count /\ t # count /\ t \in Nat
    BY <1>4
  <2>2. Bound(f, t) = q * t
    BY <1>6, <2>1
  <2>3. CASE t + 1 = count
    BY <1>6, <1>7, <2>1, <2>2, <2>3
  <2>4. CASE t + 1 # count
    <3>1. Bound(f, t + 1) = q * (t + 1)
      BY <1>6, <2>1, <2>4
    <3>2. q * (t + 1) = q * t + q /\ q * t \in Nat
      BY <1>5, <2>1, Multiples
    <3> QED BY <1>5, <2>2, <3>1, <3>2
  <2> QED BY <2>2, <2>3, <2>4
<1>11. \A t \in 0 .. count - 1 : t + 1 \in 0 .. count
  BY <1>4
<1> QED BY <1>1, <1>2, <1>3, <1>8, <1>9, <1>10, <1>11

(* Where results_array has the result of a thread of a file.                 *)
Place(n, t) == t + (n - 1) * Join!Threads

LEMMA PlaceFacts ==
    ASSUME files \in FileLists, NEW n \in 1 .. Len(files), NEW t \in 0 .. Last0
    PROVE  /\ Place(n, t) \in 0 .. Join!Threads * Len(files) - 1
           /\ \A m \in 1 .. Len(files), u \in 0 .. Last0 :
                Place(m, u) = Place(n, t) => m = n /\ u = t
<1>1. PICK count : count = Join!Threads
  OBVIOUS
<1>2. count \in Nat /\ count >= 1 /\ Last0 = count - 1 /\ Len(files) \in Nat
  BY <1>1, ThreadsFacts, LineFacts DEF Last0
<1>3. ASSUME NEW m \in 1 .. Len(files), NEW u \in 0 .. Last0
      PROVE  /\ count * (m - 1) \in Nat /\ Place(m, u) = u + count * (m - 1)
             /\ Place(m, u) \in Nat
             /\ \A d \in m .. Len(files) : Place(m, u) < count * d /\ count * d \in Nat
  <2>1. m - 1 \in Nat /\ u \in Nat /\ u < count /\ m - 1 + 1 = m
    BY <1>2
  <2>2. count * (m - 1) \in Nat /\ count * (m - 1 + 1) = count * (m - 1) + count
    BY <1>2, <2>1, Multiples
  <2>3. (m - 1) * count = count * (m - 1)
    BY <1>2, <2>1
  <2>4. Place(m, u) = u + count * (m - 1)
    BY <1>1, <2>3 DEF Place
  <2>5. ASSUME NEW d \in m .. Len(files) PROVE Place(m, u) < count * d /\ count * d \in Nat
    <3>1. count * m \in Nat /\ count * m <= count * d
      BY <1>2, Multiples
    <3>2. count * d \in Nat
      BY <1>2
    <3> QED BY <1>2, <2>1, <2>2, <2>4, <3>1, <3>2
  <2> QED BY <2>1, <2>2, <2>4, <2>5
<1>4. Place(n, t) \in 0 .. count * Len(files) - 1
  <2>1. Len(files) \in n .. Len(files)
    BY <1>2
  <2>2. Place(n, t) \in Nat /\ Place(n, t) < count * Len(files) /\ count * Len(files) \in Nat
    BY <1>3, <2>1
  <2> QED BY ONLY <2>2
<1>5. ASSUME NEW m \in 1 .. Len(files), NEW u \in 0 .. Last0, NEW l \in 1 .. Len(files),
             NEW v \in 0 .. Last0, m < l
      PROVE  Place(m, u) # Place(l, v)
  <2>1. l - 1 \in m .. Len(files)
    BY <1>2, <1>5
  <2>2. Place(m, u) < count * (l - 1)
    BY <1>3, <2>1
  <2>3. Place(l, v) = v + count * (l - 1) /\ count * (l - 1) \in Nat /\ v \in Nat
        /\ Place(m, u) \in Nat
    BY <1>2, <1>3
  <2> QED BY <2>2, <2>3
<1>6. ASSUME NEW m \in 1 .. Len(files), NEW u \in 0 .. Last0, Place(m, u) = Place(n, t)
      PROVE  m = n /\ u = t
  <2>1. ~(m < n) /\ ~(n < m)
    BY <1>5, <1>6
  <2>2. m = n
    BY <1>2, <2>1
  <2>3. u + count * (n - 1) = t + count * (n - 1) /\ count * (n - 1) \in Nat
    BY <1>3, <1>6, <2>2
  <2> QED BY <2>2, <2>3
<1> QED BY <1>1, <1>4, <1>6

LEMMA ResultsType ==
    ASSUME JoinInv
    PROVE  /\ AllResults \in Seq(Seq(Run)) /\ Len(AllResults) = Join!Threads * Len(files)
           /\ \A n \in 1 .. Join!Threads * Len(files) : AllResults[n] = result[n - 1]
<1>1. PICK all : all = Join!Threads * Len(files)
  OBVIOUS
<1>2. PICK R : R = Seq(Run)
  OBVIOUS
<1>3. all \in Nat /\ result \in [0 .. all - 1 -> R]
  <2>1. files \in FileLists /\ result \in [0 .. all - 1 -> R]
    BY <1>1, <1>2, JoinKept
  <2> QED BY <1>1, <2>1, ThreadsFacts, LineFacts
<1>4. \A n \in 1 .. all : result[n - 1] \in R
  <2>1. \A n \in 1 .. all : n - 1 \in 0 .. all - 1
    BY <1>3
  <2> QED BY <1>3, <2>1
<1>5. AllResults = [n \in 1 .. all |-> result[n - 1]]
  BY <1>1 DEF AllResults
<1>6. AllResults \in [1 .. all -> R]
  BY <1>4, <1>5
<1> QED BY <1>1, <1>2, <1>3, <1>5, <1>6

(* The results of all parts of all files, merged, are the encoding of the files. *)
LEMMA JoinText ==
    ASSUME JoinInv, \A n \in 1 .. Len(files) : files[n] \in Seq(Char),
           \A n \in 1 .. Len(files) : \A t \in 0 .. Last0 :
              result[Place(n, t)] = Rle(Part(files[n], t))
    PROVE  Join!Merged = Rle(TextOf(files))
<1>1. PICK count : count = Join!Threads
  OBVIOUS
<1>2. PICK last : last = Len(files)
  OBVIOUS
<1>3. /\ files \in FileLists /\ files \in Seq(Seq(Char) \cup {Missing}) /\ last \in Nat
      /\ count \in Nat /\ count >= 1 /\ Last0 = count - 1
  <2>1. files \in FileLists
    BY JoinKept
  <2> QED BY <1>1, <1>2, <2>1, ThreadsFacts, LineFacts DEF Last0
<1>4. PICK code : code = AllResults
  OBVIOUS
<1>5. /\ code \in Seq(Seq(Run)) /\ Len(code) = count * last
      /\ \A n \in 1 .. count * last : code[n] = result[n - 1]
  BY <1>1, <1>2, <1>4, ResultsType
<1> DEFINE T == {n \in 0 .. last : ~Encodes(UpTo(code, count * n), Done(n))}
<1>6. ASSUME T = {} PROVE Join!Merged = Rle(TextOf(files))
  <2>1. last \in 0 .. last
    BY <1>3
  <2>2. Encodes(UpTo(code, count * last), Done(last))
    BY <1>6, <2>1
  <2>3. Done(last) = TextOf(files)
    BY <1>2, <1>3, SubSeqFull DEF Done
  <2>4. PICK all : all = count * last
    OBVIOUS
  <2>5. all \in 0 .. Len(code) /\ all = Len(code)
    BY <1>5, <2>4
  <2>6. UpTo(code, all) = FlattenSeq(code) /\ UpTo(code, all) \in Seq(Run)
    BY <1>5, <2>5, UpToFacts
  <2>7. Done(last) \in Seq(Char)
    BY <1>2, <1>3, <2>1, TextUpTo DEF Done
  <2>8. Glue(FlattenSeq(code)) = Rle(Done(last))
    BY <2>2, <2>4, <2>6, <2>7, GlueEncodes
  <2> QED BY <1>4, <2>3, <2>8, MergedIs
<1> SUFFICES ASSUME T # {} PROVE FALSE
  BY <1>6
<1>7. T \in SUBSET Nat
      /\ \A n \in 0 .. last : n \in T <=> ~Encodes(UpTo(code, count * n), Done(n))
  <2>1. \A n \in T : n \in 0 .. last
    OBVIOUS
  <2>2. T \in SUBSET Nat
    BY <2>1
  <2> QED BY <2>2, Zenon
<1>8. \A n \in T : n \in 0 .. last
  OBVIOUS
<1> HIDE DEF T
<1>9. PICK n \in T : \A x \in T : n <= x
  BY <1>7, LeastNat
<1>10. n \in 0 .. last /\ ~Encodes(UpTo(code, count * n), Done(n))
  BY <1>7, <1>8
<1>11. \A m \in 1 .. n : files[m] \in Seq(Char)
  BY <1>2, <1>3, <1>10
<1>12. CASE n = 0
  <2>1. Done(0) = <<>>
    BY <1>2, <1>3, <1>10, <1>11, <1>12, TextUpTo DEF Done
  <2>2. count * n = 0 /\ 0 \in 0 .. Len(code)
    BY <1>3, <1>5, <1>12
  <2>3. UpTo(code, 0) = <<>>
    BY <1>5, <2>2, UpToFacts
  <2>4. PICK none : none = <<>>
    OBVIOUS
  <2>5. none \in Seq(Run) /\ Len(none) = 0
    BY <2>4
  <2>6. Expand(none) = <<>>
    BY <2>4, <2>5, ExpandFacts
  <2>7. Encodes(none, <<>>)
    BY <2>5, <2>6 DEF Encodes
  <2> QED BY <1>10, <1>12, <2>1, <2>2, <2>3, <2>4, <2>7
<1>13. CASE n # 0
  <2>1. PICK p : p = n - 1
    OBVIOUS
  <2>2. p \in 0 .. last /\ p \in Nat /\ p + 1 = n /\ ~(n <= p) /\ n \in 1 .. last
    BY <1>3, <1>10, <1>13, <2>1
  <2>3. Encodes(UpTo(code, count * p), Done(p))
    BY <1>7, <1>9, <2>2
  <2>4. PICK m : m = count * p
    OBVIOUS
  <2>5. m \in Nat /\ count * n = m + count /\ m + count <= Len(code)
    <3>1. count * p \in Nat /\ count * (p + 1) = count * p + count
      BY <1>3, <2>2, Multiples
    <3>2. count * n <= count * last
      BY <1>3, <2>2, Multiples
    <3> QED BY <1>5, <2>2, <2>4, <3>1, <3>2
  <2>6. PICK f : f = files[n]
    OBVIOUS
  <2>7. f \in Seq(Char)
    BY <1>2, <2>2, <2>6
  <2>8. PICK to : to = [t \in 0 .. count |-> Bound(f, t)]
    OBVIOUS
  <2>9. /\ \A t \in 0 .. count : to[t] = Bound(f, t) /\ to[t] \in Nat
        /\ to[0] = 0 /\ to[count] = Len(f)
        /\ \A t \in 0 .. count - 1 : to[t] <= to[t + 1] /\ to[t + 1] <= Len(f)
    <3>1. /\ \A t \in 0 .. count : Bound(f, t) \in Nat
          /\ Bound(f, 0) = 0 /\ Bound(f, count) = Len(f)
          /\ \A t \in 0 .. count - 1 :
               Bound(f, t) <= Bound(f, t + 1) /\ Bound(f, t + 1) <= Len(f)
      BY <1>1, <1>3, <2>7, BoundFacts
    <3>2. 0 \in 0 .. count /\ count \in 0 .. count
          /\ \A t \in 0 .. count - 1 : t \in 0 .. count /\ t + 1 \in 0 .. count
      BY <1>3
    <3> QED BY <2>8, <3>1, <3>2
  <2>10. to \in [0 .. count -> Nat]
    BY <2>8, <2>9
  <2>11. ASSUME NEW t \in 0 .. count - 1
         PROVE  code[m + t + 1] = Rle(SubSeq(f, to[t] + 1, to[t + 1]))
    <3>1. m + t + 1 \in 1 .. count * last /\ (m + t + 1) - 1 = m + t
      <4>1. PICK all \in Nat : all = count * last
        BY <1>5
      <4>2. m + count <= all /\ t \in Nat /\ t < count
        BY <1>3, <1>5, <2>5, <4>1
      <4> QED BY <1>3, <2>5, <4>1, <4>2
    <3>2. Place(n, t) = m + t
      <4>1. (n - 1) * count = m /\ t \in Nat
        BY <1>3, <2>1, <2>2, <2>4
      <4> QED BY <1>1, <2>5, <4>1 DEF Place
    <3>3. code[m + t + 1] = result[Place(n, t)]
      BY <1>5, <3>1, <3>2
    <3>4. t \in 0 .. Last0 /\ n \in 1 .. Len(files)
      BY <1>2, <1>3, <2>2
    <3>5. result[Place(n, t)] = Rle(Part(files[n], t))
      BY <3>4
    <3>6. t \in 0 .. count /\ t + 1 \in 0 .. count
      BY <1>3
    <3>7. Part(files[n], t) = SubSeq(f, to[t] + 1, to[t + 1])
      BY <2>6, <2>9, <3>6 DEF Part
    <3> QED BY <3>3, <3>5, <3>7
  <2>12. Done(p) \in Seq(Char)
    <3>1. p \in 0 .. Len(files) /\ \A l \in 1 .. p : files[l] \in Seq(Char)
      BY <1>2, <1>3, <2>2
    <3> QED BY <1>3, <3>1, TextUpTo DEF Done
  <2>13. Encodes(UpTo(code, m + count), Done(p) \o f)
    BY <1>3, <1>5, <2>3, <2>4, <2>5, <2>7, <2>9, <2>10, <2>11, <2>12, PartsOfFile
  <2>14. Done(n) = Done(p) \o f
    BY <1>2, <1>3, <1>10, <1>11, <1>13, <2>1, <2>6, TextUpTo DEF Done
  <2> QED BY <1>10, <2>5, <2>13, <2>14
<1> QED BY <1>12, <1>13

-----------------------------------------------------------------------------
(* What a thread has in its result r while it encodes the part of f from a to b:
   nothing until the first run ends, and with the run under way the encoding of
   what it has read.  Of a part without a byte it leaves nothing. *)
Reads(f, a, b, at0, cur, r) ==
    IF a < b THEN a < at0 /\ at0 <= b /\ Rle(SubSeq(f, a + 1, at0)) = Append(r, cur)
    ELSE at0 = a + 1 /\ r = <<>>

Codes(th, r, f, a, b) ==
    /\ th.state \in {"none", "first"} => r = <<>>
    /\ th.state = "first" /\ f # Missing => th.start = a
    /\ th.state \in {"loop", "ended"} => f # Missing
    /\ th.state = "loop" => Reads(f, a, b, th.start, th.run, r)
    /\ th.state = "ended" => r = Rle(SubSeq(f, a + 1, b))

CodeAt(n, t) ==
    /\ n < file => files[n] # Missing /\ result[Place(n, t)] = Rle(Part(files[n], t))
    /\ n > file => result[Place(n, t)] = <<>>
    /\ n = file => Codes(thread[t], result[Place(n, t)], files[n],
                         Bound(files[n], t), Bound(files[n], t + 1))

JoinCode == \A n \in 1 .. Len(files) : \A t \in 0 .. Last0 : CodeAt(n, t)

(* What main has written is the beginning of what it merged.                 *)
JoinOut ==
    /\ mpc \in {"merge", "write", "end"} => file = Len(files) + 1
    /\ mpc \notin {"write", "end"} => jout = <<>>
    /\ mpc = "write" => /\ Len(jout) <= Len(Join!Merged)
                        /\ \A l \in 1 .. Len(jout) : jout[l] = Join!Merged[l]

JoinTextInv == JoinInv /\ JoinCode /\ JoinOut

LEMMA SamePlaces ==
    ASSUME files' = files
    PROVE  /\ Last0' = Last0 /\ Len(files)' = Len(files)
           /\ \A n, t : /\ Place(n, t)' = Place(n, t)
                        /\ Bound(files[n], t)' = Bound(files[n], t)
                        /\ Part(files[n], t)' = Part(files[n], t)
<1>1. Join!Threads' = Join!Threads /\ Last0' = Last0
  BY SameThreads
<1>2. \A n, t : Bound(files[n], t)' = Bound(files[n], t)
  BY <1>1 DEF Bound
<1> QED BY <1>1, <1>2 DEF Place, Part

LEMMA SameMerged ==
    ASSUME files' = files, result' = result
    PROVE  Join!Merged' = Join!Merged
<1>1. Join!Threads' = Join!Threads
  BY SameThreads
<1> QED BY <1>1 DEF Join!Merged

LEMMA CodeStays ==
    ASSUME JoinCode, UNCHANGED <<files, file, thread, result>>
    PROVE  JoinCode'
<1>1. Last0' = Last0 /\ Len(files)' = Len(files)
  BY SamePlaces
<1>2. ASSUME NEW n \in 1 .. Len(files), NEW t \in 0 .. Last0 PROVE CodeAt(n, t)'
  <2>1. CodeAt(n, t)
    BY DEF JoinCode
  <2>2. /\ Place(n, t)' = Place(n, t) /\ Bound(files[n], t)' = Bound(files[n], t)
        /\ Bound(files[n], t + 1)' = Bound(files[n], t + 1)
        /\ Part(files[n], t)' = Part(files[n], t)
    BY SamePlaces
  <2> QED BY <2>1, <2>2 DEF CodeAt
<1> QED BY <1>1, <1>2 DEF JoinCode

(* A thread that moves changes its own result only.                          *)
LEMMA CodeMoves ==
    ASSUME JoinInv, JoinCode, file <= Len(files),
           UNCHANGED <<files, file>>, NEW t \in 0 .. Last0, NEW th, NEW r,
           thread' = [thread EXCEPT ![t] = th],
           result' = [result EXCEPT ![Place(file, t)] = r],
           Codes(th, r, files[file], Bound(files[file], t), Bound(files[file], t + 1))
    PROVE  JoinCode'
<1>1. /\ Last0' = Last0 /\ Len(files)' = Len(files) /\ files \in FileLists
      /\ file \in 1 .. Len(files)
  <2>1. file \in 1 .. Len(files) + 1 /\ files \in FileLists
    BY JoinKept
  <2>2. Len(files) \in Nat
    BY <2>1, LineFacts
  <2> QED BY <2>1, <2>2, SamePlaces
<1>2. ASSUME NEW n \in 1 .. Len(files), NEW u \in 0 .. Last0 PROVE CodeAt(n, u)'
  <2>1. CodeAt(n, u)
    BY DEF JoinCode
  <2>2. /\ Place(n, u)' = Place(n, u) /\ Bound(files[n], u)' = Bound(files[n], u)
        /\ Bound(files[n], u + 1)' = Bound(files[n], u + 1)
        /\ Part(files[n], u)' = Part(files[n], u)
    BY SamePlaces
  <2>3. /\ thread \in [0 .. Last0 -> ThreadRecord]
        /\ Place(n, u) \in DOMAIN result
    <3>1. Place(n, u) \in 0 .. Join!Threads * Len(files) - 1
      BY <1>1, PlaceFacts
    <3>2. result \in [0 .. Join!Threads * Len(files) - 1 -> Seq(Run)]
          /\ thread \in [0 .. Last0 -> ThreadRecord]
      BY JoinKept
    <3> QED BY <3>1, <3>2
  <2>4. CASE n = file /\ u = t
    <3>1. thread'[u] = th /\ result'[Place(n, u)] = r
      BY <2>3, <2>4
    <3> QED BY <2>2, <2>4, <3>1 DEF CodeAt
  <2>5. CASE ~(n = file /\ u = t)
    <3>1. Place(n, u) # Place(file, t)
      BY <1>1, <2>5, PlaceFacts
    <3>2. result'[Place(n, u)] = result[Place(n, u)]
      BY <2>3, <3>1
    <3>3. n = file => thread'[u] = thread[u]
      BY <2>3, <2>5
    <3> QED BY <2>1, <2>2, <3>2, <3>3 DEF CodeAt
  <2> QED BY <2>4, <2>5
<1> QED BY <1>1, <1>2 DEF JoinCode

(* The part that main hands to a thread.                                     *)
LEMMA PartFacts ==
    ASSUME JoinInv, file <= Len(files), NEW t \in 0 .. Last0, files[file] # Missing
    PROVE  LET f == files[file]
               a == Bound(f, t)
               b == Bound(f, t + 1)
           IN  /\ f \in Seq(Char) /\ Len(f) \in Nat
               /\ a \in Nat /\ b \in Nat /\ a <= b /\ b <= Len(f)
               /\ Join!Chunk * t = a /\ Join!EndOffset(t) = b
<1>1. PICK f : f = files[file]
  OBVIOUS
<1>2. PICK count : count = Join!Threads
  OBVIOUS
<1>3. /\ files \in FileLists /\ count \in Nat /\ count >= 1 /\ Last0 = count - 1
      /\ file \in 1 .. Len(files)
  <2>1. file \in 1 .. Len(files) + 1 /\ files \in FileLists
    BY JoinKept
  <2>2. Len(files) \in Nat
    BY <2>1, LineFacts
  <2> QED BY <1>2, <2>1, <2>2, ThreadsFacts DEF Last0
<1>4. f \in Seq(Char) /\ f # Missing
  BY <1>1, <1>3, LineFacts
<1>5. PICK len \in Nat : len = Len(f)
  BY <1>4
<1>6. t \in 0 .. count - 1 /\ t \in 0 .. count /\ t + 1 \in 0 .. count
  BY <1>3
<1>7. /\ Bound(f, t) \in Nat /\ Bound(f, t + 1) \in Nat
      /\ Bound(f, t) <= Bound(f, t + 1) /\ Bound(f, t + 1) <= len
      /\ Bound(f, t) = (len \div count) * t
  BY <1>2, <1>3, <1>4, <1>5, <1>6, BoundFacts
<1>8. Join!Chunk = len \div count /\ Join!FileSize(files[file]) = len
  <2>1. Join!FileSize(files[file]) = len
    BY <1>1, <1>4, <1>5 DEF Join!FileSize
  <2>2. Join!Max({0, len}) = len
    <3>1. 0 \in Int /\ len \in Int
      BY <1>5
    <3>2. Join!Max({0, len}) \in {0, len} /\ Join!Max({0, len}) >= len
      BY <3>1, LargerOfTwo
    <3> QED BY <1>5, <3>2
  <2> QED BY <1>2, <2>1, <2>2 DEF Join!Chunk
<1>9. Join!EndOffset(t) = Bound(f, t + 1)
  <2>1. CASE t = count - 1
    <3>1. t + 1 = count
      BY <1>3, <2>1
    <3>2. Bound(f, t + 1) = len
      BY <1>2, <1>5, <3>1 DEF Bound
    <3> QED BY <1>2, <1>8, <2>1, <3>2 DEF Join!EndOffset
  <2>2. CASE t # count - 1
    <3>1. t + 1 # count
      BY <1>3, <1>6, <2>2
    <3>2. Bound(f, t + 1) = (len \div count) * (t + 1)
      BY <1>2, <1>5, <3>1 DEF Bound
    <3> QED BY <1>2, <1>8, <2>2, <3>2 DEF Join!EndOffset
  <2> QED BY <2>1, <2>2
<1> QED BY <1>1, <1>4, <1>5, <1>7, <1>8, <1>9

LEMMA CodeStart == ASSUME Init, Join!Init PROVE JoinTextInv
<1>1. JoinInv
  BY JoinStart
<1>2. /\ mpc = "open" /\ file = 1 /\ jout = <<>>
      /\ thread = [t \in 0 .. Last0 |-> Join!NoThread]
      /\ result = [t \in 0 .. Join!Threads * Len(files) - 1 |-> <<>>]
  BY DEF Join!Init, Last0
<1>3. JoinOut
  BY <1>2 DEF JoinOut
<1>4. ASSUME NEW n \in 1 .. Len(files), NEW t \in 0 .. Last0 PROVE CodeAt(n, t)
  <2>1. files \in FileLists
    BY DEF Init
  <2>2. Place(n, t) \in 0 .. Join!Threads * Len(files) - 1
    BY <2>1, PlaceFacts
  <2>3. result[Place(n, t)] = <<>> /\ thread[t].state = "none"
    BY <1>2, <2>2 DEF Join!NoThread
  <2>4. ~(n < file)
    BY <1>2
  <2> QED BY <2>3, <2>4 DEF CodeAt, Codes
<1> QED BY <1>1, <1>3, <1>4 DEF JoinTextInv, JoinCode

LEMMA CodeOpen == ASSUME JoinTextInv, Join!Open PROVE JoinCode' /\ JoinOut'
<1>1. /\ mpc = "open" /\ mpc' = "create" /\ jout' = jout
      /\ UNCHANGED <<files, file, thread, result>>
  BY DEF Join!Open
<1> QED BY <1>1, CodeStays DEF JoinTextInv, JoinOut

LEMMA CodeCreate == ASSUME JoinTextInv, Join!Create PROVE JoinCode' /\ JoinOut'
<1>1. /\ mpc = "create" /\ mpc' \in {"create", "join"} /\ jout' = jout
      /\ UNCHANGED <<files, file, result>>
  BY DEF Join!Create
<1>2. JoinOut'
  BY <1>1 DEF JoinTextInv, JoinOut
<1>3. CASE k < Join!Threads
  <2>1. PICK th : th = WithPlace(thread[k], Join!Chunk * k)
    OBVIOUS
  <2>2. thread' = [thread EXCEPT ![k] = th]
    BY <1>3, <2>1 DEF Join!Create, WithPlace
  <2>3. k \in 0 .. Last0 /\ file <= Len(files) /\ thread \in [0 .. Last0 -> ThreadRecord]
    <3>1. k \in 0 .. Join!Threads /\ Join!Threads \in Nat /\ Last0 = Join!Threads - 1
      BY JoinKept, JoinTypes DEF JoinTextInv, JoinInv, Last0
    <3>2. k \in 0 .. Last0
      BY <1>3, <3>1
    <3>3. file <= Len(files)
      BY <1>1 DEF JoinTextInv, JoinInv, JoinPlace
    <3> QED BY <3>2, <3>3, JoinKept DEF JoinTextInv
  <2>4. PICK r : r = result[Place(file, k)]
    OBVIOUS
  <2>5. result' = [result EXCEPT ![Place(file, k)] = r]
    <3>1. result \in [0 .. Join!Threads * Len(files) - 1 -> Seq(Run)]
      BY JoinKept DEF JoinTextInv
    <3> QED BY <1>1, <2>4, <3>1
  <2>6. file \in 1 .. Len(files)
    <3>1. file \in 1 .. Len(files) + 1 /\ Len(files) \in Nat
      BY JoinKept, JoinTypes DEF JoinTextInv, JoinInv
    <3> QED BY <2>3, <3>1
  <2>7. r = <<>>
    <3>1. thread[k].state = "none"
      <4>1. \A t \in 0 .. Last0 : t >= k <=> thread[t].state = "none"
        BY <1>1 DEF JoinTextInv, JoinInv, JoinPlace
      <4>2. k >= k
        BY <2>3
      <4> QED BY <2>3, <4>1, <4>2
    <3>2. CodeAt(file, k)
      BY <2>3, <2>6 DEF JoinTextInv, JoinCode
    <3> QED BY <2>4, <3>1, <3>2 DEF CodeAt, Codes
  <2>8. th.state = "first" /\ th.start = Join!Chunk * k
    BY <2>1, <2>3 DEF WithPlace, ThreadRecord
  <2>9. files[file] # Missing => Join!Chunk * k = Bound(files[file], k)
    BY <2>3, PartFacts DEF JoinTextInv
  <2>10. Codes(th, r, files[file], Bound(files[file], k), Bound(files[file], k + 1))
    BY <2>7, <2>8, <2>9 DEF Codes
  <2>11. JoinCode'
    BY <1>1, <2>2, <2>3, <2>5, <2>10, CodeMoves DEF JoinTextInv
  <2> QED BY <1>2, <2>11
<1>4. CASE ~(k < Join!Threads)
  <2>1. thread' = thread
    BY <1>4 DEF Join!Create
  <2> QED BY <1>1, <1>2, <2>1, CodeStays DEF JoinTextInv
<1> QED BY <1>3, <1>4

LEMMA CodeJoin == ASSUME JoinTextInv, Join!Join PROVE JoinCode' /\ JoinOut'
<1>1. /\ mpc = "join" /\ mpc' = mpc /\ jout' = jout /\ UNCHANGED <<files, file, thread, result>>
  BY DEF Join!Join
<1> QED BY <1>1, CodeStays DEF JoinTextInv, JoinOut

LEMMA CodeRelease == ASSUME JoinTextInv, Join!Release PROVE JoinCode' /\ JoinOut'
<1>1. /\ mpc = "join" /\ mpc' = IF file = Len(files) THEN "merge" ELSE "open"
      /\ jout' = jout /\ files' = files /\ result' = result /\ file' = file + 1
      /\ k = Join!Threads
      /\ thread' = [t \in DOMAIN thread |->
                      IF thread[t].state = "ended" THEN Join!NoThread ELSE thread[t]]
  BY DEF Join!Release, Join!Joined
<1>2. /\ Last0' = Last0 /\ Len(files)' = Len(files)
      /\ Last0 + 1 = Join!Threads /\ Last0 \in Nat /\ DOMAIN thread = 0 .. Last0
      /\ file \in Nat /\ Len(files) \in Nat
  BY <1>1, SamePlaces, JoinTypes DEF JoinTextInv, JoinInv
<1>3. \A t \in 0 .. Last0 : thread[t].state = "ended"
  <2>1. \A t \in 0 .. Last0 : t < k
    BY <1>1, <1>2
  <2> QED BY <1>1, <2>1 DEF JoinTextInv, JoinInv, JoinPlace
<1>4. \A t \in 0 .. Last0 : thread'[t] = Join!NoThread
  BY <1>1, <1>2, <1>3
<1>5. ASSUME NEW n \in 1 .. Len(files), NEW t \in 0 .. Last0 PROVE CodeAt(n, t)'
  <2>1. CodeAt(n, t)
    BY <1>5 DEF JoinTextInv, JoinCode
  <2>2. /\ Place(n, t)' = Place(n, t) /\ Part(files[n], t)' = Part(files[n], t)
    BY <1>1, SamePlaces
  <2>3. n < file + 1 => n < file \/ n = file
    BY <1>2
  <2>4. n >= file + 1 => n > file
    BY <1>2
  <2>5. CASE n < file
    BY <1>1, <1>2, <2>1, <2>2, <2>5 DEF CodeAt
  <2>6. CASE n = file
    <3>1. files[n] # Missing /\ result[Place(n, t)] = Rle(Part(files[n], t))
      BY <1>3, <2>1, <2>6 DEF CodeAt, Codes, Part
    <3>2. ~(n > file + 1) /\ n # file + 1
      BY <1>2, <2>6
    <3> QED BY <1>1, <2>2, <3>1, <3>2 DEF CodeAt
  <2>7. CASE n > file
    <3>1. result[Place(n, t)] = <<>>
      BY <2>1, <2>7 DEF CodeAt
    <3>2. ~(n < file + 1)
      BY <1>2, <2>7
    <3>3. thread'[t].state = "none"
      BY <1>4 DEF Join!NoThread
    <3>4. result'[Place(n, t)'] = <<>>
      BY <1>1, <2>2, <3>1
    <3> QED BY <1>1, <3>2, <3>3, <3>4 DEF CodeAt, Codes
  <2>8. n < file \/ n = file \/ n > file
    BY <1>2
  <2> QED BY <2>5, <2>6, <2>7, <2>8
<1>6. JoinOut'
  <2>1. file = Len(files) => file + 1 = Len(files) + 1
    OBVIOUS
  <2> QED BY <1>1, <2>1 DEF JoinTextInv, JoinOut
<1> QED BY <1>2, <1>5, <1>6 DEF JoinCode

LEMMA CodeMerge == ASSUME JoinTextInv, Join!Merge PROVE JoinCode' /\ JoinOut'
<1>1. /\ mpc = "merge" /\ mpc' = "write" /\ jout' = jout /\ UNCHANGED <<files, file, thread, result>>
  BY DEF Join!Merge
<1>2. jout = <<>> /\ Len(jout) = 0 /\ file = Len(files) + 1
  BY <1>1 DEF JoinTextInv, JoinOut
<1>3. Join!Merged' = Join!Merged
  BY <1>1, SameMerged
<1>4. Len(Join!Merged) \in Nat
  <2>1. Join!Merged \in Seq(Run)
    BY JoinKept, MergedType DEF JoinTextInv
  <2> QED BY <2>1
<1>5. JoinOut'
  BY <1>1, <1>2, <1>3, <1>4 DEF JoinOut
<1> QED BY <1>1, <1>5, CodeStays DEF JoinTextInv

LEMMA CodeWrite == ASSUME JoinTextInv, Join!Write PROVE JoinCode' /\ JoinOut'
<1>1. /\ mpc = "write" /\ UNCHANGED <<files, file, thread, result>>
  BY DEF Join!Write
<1>2. PICK merged : merged = Join!Merged
  OBVIOUS
<1>3. Join!Merged' = merged
  BY <1>1, <1>2, SameMerged
<1>4. /\ merged \in Seq(Run) /\ jout \in Seq(Run) /\ Len(merged) \in Nat /\ Len(jout) \in Nat
  BY <1>2, JoinKept, MergedType DEF JoinTextInv
<1>5. /\ file = Len(files) + 1 /\ Len(jout) <= Len(merged)
      /\ \A l \in 1 .. Len(jout) : jout[l] = merged[l]
  BY <1>1, <1>2 DEF JoinTextInv, JoinOut
<1>6. CASE Len(jout) < Len(merged)
  <2>1. PICK l : l = Len(jout) + 1
    OBVIOUS
  <2>2. jout' = Append(jout, merged[l]) /\ mpc' = mpc
    BY <1>2, <1>6, <2>1 DEF Join!Write
  <2>3. l \in Nat /\ l \in 1 .. Len(merged) /\ \A m \in 1 .. l : m = l \/ m \in 1 .. Len(jout)
    BY <1>4, <1>6, <2>1
  <2>4. merged[l] \in Run
    BY <1>4, <2>3
  <2>5. Len(jout') = l /\ jout'[l] = merged[l] /\ \A m \in 1 .. Len(jout) : jout'[m] = jout[m]
    BY <1>4, <2>1, <2>2, <2>4, AppendProperties
  <2>6. Len(jout') <= Len(merged) /\ \A m \in 1 .. Len(jout') : jout'[m] = merged[m]
    BY <1>5, <2>3, <2>5
  <2>7. JoinOut'
    BY <1>1, <1>3, <1>5, <2>2, <2>6 DEF JoinOut
  <2> QED BY <1>1, <2>7, CodeStays DEF JoinTextInv
<1>7. CASE ~(Len(jout) < Len(merged))
  <2>1. mpc' = "end" /\ jout' = jout
    BY <1>2, <1>7 DEF Join!Write
  <2>2. JoinOut'
    BY <1>1, <1>5, <2>1 DEF JoinOut
  <2> QED BY <1>1, <2>2, CodeStays DEF JoinTextInv
<1> QED BY <1>6, <1>7

LEMMA CodeCrash == ASSUME JoinTextInv, Join!Crash PROVE JoinCode' /\ JoinOut'
<1>1. mpc' = mpc /\ jout' = jout /\ UNCHANGED <<files, file, thread, result>>
  BY DEF Join!Crash
<1>2. Join!Merged' = Join!Merged
  BY <1>1, SameMerged
<1>3. JoinOut'
  BY <1>1, <1>2 DEF JoinTextInv, JoinOut
<1> QED BY <1>1, <1>3, CodeStays DEF JoinTextInv

(* While a thread runs main has written nothing.                             *)
LEMMA OutWaits ==
    ASSUME JoinTextInv, NEW t \in 0 .. Last0, thread[t].state # "none",
           UNCHANGED <<files, mpc, file, jout>>
    PROVE  /\ JoinOut' /\ mpc \in {"create", "join"} /\ file \in 1 .. Len(files)
           /\ file <= Len(files) /\ data = files[file] /\ CodeAt(file, t)
<1>1. mpc \in {"create", "join"} /\ file <= Len(files) /\ data = files[file]
  BY DEF JoinTextInv, JoinInv, JoinPlace
<1>2. file \in 1 .. Len(files)
  <2>1. file \in 1 .. Len(files) + 1 /\ Len(files) \in Nat
    BY JoinKept, JoinTypes DEF JoinTextInv, JoinInv
  <2> QED BY <1>1, <2>1
<1>3. JoinOut'
  BY <1>1 DEF JoinTextInv, JoinOut
<1>4. CodeAt(file, t)
  BY <1>2 DEF JoinTextInv, JoinCode
<1> QED BY <1>1, <1>2, <1>3, <1>4

(* A result that a thread leaves alone.                                      *)
LEMMA SameResult ==
    ASSUME JoinInv, result' = result
    PROVE  \A n : result' = [result EXCEPT ![n] = result[n]]
<1>1. result \in [0 .. Join!Threads * Len(files) - 1 -> Seq(Run)]
  BY JoinKept
<1> QED BY <1>1

LEMMA CodeFirstByte ==
    ASSUME JoinTextInv, NEW t \in 0 .. Last0, Join!FirstByte(t)
    PROVE  JoinCode' /\ JoinOut'
<1>1. CASE files[file] = Missing
  <2>1. Join!Crash
    BY <1>1 DEF Join!FirstByte
  <2> QED BY <2>1, CodeCrash
<1>2. CASE files[file] # Missing
  <2>1. PICK start : start = thread[t].start
    OBVIOUS
  <2>2. /\ thread[t].state = "first"
        /\ UNCHANGED <<files, mpc, file, k, data, result, jout, joining>>
        /\ \E c \in Join!Byte(start) :
             thread' = [thread EXCEPT ![t] = [state |-> "loop", start |-> start + 1,
                                              run |-> [count |-> 1, char |-> c]]]
    BY <1>2, <2>1 DEF Join!FirstByte
  <2>3. PICK c \in Join!Byte(start) :
          thread' = [thread EXCEPT ![t] = [state |-> "loop", start |-> start + 1,
                                           run |-> [count |-> 1, char |-> c]]]
    BY <2>2
  <2>4. /\ JoinOut' /\ file \in 1 .. Len(files) /\ file <= Len(files) /\ data = files[file]
        /\ CodeAt(file, t)
    BY <2>2, OutWaits
  <2>5. PICK f : f = files[file]
    OBVIOUS
  <2>6. PICK a : a = Bound(f, t)
    OBVIOUS
  <2>7. PICK b : b = Bound(f, t + 1)
    OBVIOUS
  <2>8. /\ f \in Seq(Char) /\ Len(f) \in Nat /\ a \in Nat /\ b \in Nat /\ a <= b /\ b <= Len(f)
        /\ f # Missing
    BY <1>2, <2>4, <2>5, <2>6, <2>7, PartFacts DEF JoinTextInv
  <2>9. PICK r : r = result[Place(file, t)]
    OBVIOUS
  <2>10. r = <<>> /\ start = a
    BY <1>2, <2>1, <2>2, <2>4, <2>5, <2>6, <2>9 DEF CodeAt, Codes
  <2>11. PICK one : one = [count |-> 1, char |-> c]
    OBVIOUS
  <2>12. PICK th : th = [state |-> "loop", start |-> start + 1, run |-> one]
    OBVIOUS
  <2>13. Reads(f, a, b, start + 1, one, r)
    <3>1. CASE a < b
      <4>1. a < Len(f)
        BY <2>8, <3>1
      <4>2. c = f[a + 1]
        BY <2>4, <2>5, <2>8, <2>10, <4>1 DEF Join!Byte
      <4>3. PICK none : none = <<>>
        OBVIOUS
      <4>4. /\ c \in Char /\ SubSeq(f, a + 1, a + 1) = Append(<<>>, c)
        <5>1. /\ f[a + 1] \in Char /\ SubSeq(f, a + 1, a) = <<>>
              /\ SubSeq(f, a + 1, a + 1) = Append(SubSeq(f, a + 1, a), f[a + 1])
          BY <2>8, <4>1, SliceGrows
        <5> QED BY <4>2, <5>1
      <4>5. Rle(Append(none, c)) = AddChar(Rle(none), c) /\ Rle(none) = none
        <5>1. none \in Seq(Char)
          BY <4>3
        <5> QED BY <4>3, <4>4, <5>1, RleFacts
      <4>6. AddChar(<<>>, c) = <<one>>
        <5>1. none \in Seq(Run) /\ one \in Run
          BY <2>11, <4>3, <4>4 DEF Run
        <5> QED BY <2>11, <4>4, <5>1, AddCharFacts
      <4>7. Rle(SubSeq(f, a + 1, a + 1)) = Append(r, one)
        <5>1. Append(none, one) = <<one>>
          BY <4>3
        <5> QED BY <2>10, <4>3, <4>4, <4>5, <4>6, <5>1
      <4>8. a < a + 1 /\ a + 1 <= b
        BY <2>8, <3>1
      <4> QED BY <2>10, <3>1, <4>7, <4>8 DEF Reads
    <3>2. CASE ~(a < b)
      BY <2>10, <3>2 DEF Reads
    <3> QED BY <3>1, <3>2
  <2>14. Codes(th, r, f, a, b)
    BY <2>8, <2>12, <2>13 DEF Codes
  <2>15. result' = [result EXCEPT ![Place(file, t)] = r]
    BY <2>2, <2>9, SameResult DEF JoinTextInv
  <2>16. thread' = [thread EXCEPT ![t] = th]
    BY <2>3, <2>11, <2>12
  <2>17. JoinCode'
    BY <2>2, <2>4, <2>5, <2>6, <2>7, <2>14, <2>15, <2>16, CodeMoves DEF JoinTextInv
  <2> QED BY <2>4, <2>17
<1> QED BY <1>1, <1>2

LEMMA CodeNextByte ==
    ASSUME JoinTextInv, NEW t \in 0 .. Last0, Join!NextByte(t)
    PROVE  JoinCode' /\ JoinOut'
<1>1. PICK start : start = thread[t].start
  OBVIOUS
<1>2. PICK old : old = thread[t].run
  OBVIOUS
<1>3. /\ thread[t].state = "loop" /\ start < Join!EndOffset(t)
      /\ \E c \in Join!Byte(start) :
           /\ thread' = [thread EXCEPT ![t] =
                [state |-> "loop", start |-> start + 1,
                 run |-> IF c = old.char THEN Join!Bump(old, 1) ELSE [count |-> 1, char |-> c]]]
           /\ IF c = old.char
              THEN UNCHANGED <<files, mpc, file, k, data, result, jout, joining>>
              ELSE Join!AddEntry(t)
  BY <1>1, <1>2 DEF Join!NextByte
<1>4. PICK c \in Join!Byte(start) :
        /\ thread' = [thread EXCEPT ![t] =
             [state |-> "loop", start |-> start + 1,
              run |-> IF c = old.char THEN Join!Bump(old, 1) ELSE [count |-> 1, char |-> c]]]
        /\ IF c = old.char
           THEN UNCHANGED <<files, mpc, file, k, data, result, jout, joining>>
           ELSE Join!AddEntry(t)
  BY <1>3
<1>5. UNCHANGED <<files, mpc, file, k, data, jout, joining>>
  BY <1>4 DEF Join!AddEntry
<1>6. /\ JoinOut' /\ file \in 1 .. Len(files) /\ file <= Len(files) /\ data = files[file]
      /\ CodeAt(file, t)
  BY <1>3, <1>5, OutWaits
<1>7. PICK f : f = files[file]
  OBVIOUS
<1>8. PICK a : a = Bound(f, t)
  OBVIOUS
<1>9. PICK b : b = Bound(f, t + 1)
  OBVIOUS
<1>10. PICK r : r = result[Place(file, t)]
  OBVIOUS
<1>11. f # Missing /\ Reads(f, a, b, start, old, r)
  BY <1>1, <1>2, <1>3, <1>6, <1>7, <1>8, <1>9, <1>10 DEF CodeAt, Codes
<1>12. /\ f \in Seq(Char) /\ Len(f) \in Nat /\ a \in Nat /\ b \in Nat /\ a <= b /\ b <= Len(f)
       /\ Join!EndOffset(t) = b
  BY <1>6, <1>7, <1>8, <1>9, <1>11, PartFacts DEF JoinTextInv
<1>13. /\ start \in Nat /\ old \in Run
  <2>1. thread[t] \in ThreadRecord
    BY JoinKept DEF JoinTextInv
  <2> QED BY <1>1, <1>2, <1>3, <2>1 DEF ThreadRecord, JoinTextInv, JoinInv, JoinPlace
<1>14. a < b /\ a < start /\ start < b /\ Rle(SubSeq(f, a + 1, start)) = Append(r, old)
  <2>1. start < b
    BY <1>3, <1>12
  <2>2. a < b
    BY <1>11, <1>12, <1>13, <2>1 DEF Reads
  <2> QED BY <1>11, <2>1, <2>2 DEF Reads
<1>15. start < Len(f) /\ a <= start
  BY <1>12, <1>13, <1>14
<1>16. c = f[start + 1]
  BY <1>6, <1>7, <1>11, <1>15 DEF Join!Byte
<1>17. PICK seen : seen = SubSeq(f, a + 1, start)
  OBVIOUS
<1>18. /\ c \in Char /\ seen \in Seq(Char)
       /\ SubSeq(f, a + 1, start + 1) = Append(seen, c)
  BY <1>12, <1>13, <1>15, <1>16, <1>17, SliceGrows
<1>19. Rle(Append(seen, c)) = AddChar(Append(r, old), c)
  BY <1>14, <1>17, <1>18, RleFacts
<1>20. r \in Seq(Run)
  <2>1. Place(file, t) \in 0 .. Join!Threads * Len(files) - 1
    BY <1>6, JoinKept, PlaceFacts DEF JoinTextInv
  <2>2. result \in [0 .. Join!Threads * Len(files) - 1 -> Seq(Run)]
    BY JoinKept DEF JoinTextInv
  <2>3. PICK R : R = Seq(Run)
    OBVIOUS
  <2>4. result[Place(file, t)] \in R
    BY <2>1, <2>2, <2>3
  <2> QED BY <1>10, <2>3, <2>4
<1>21. PICK new : new = IF c = old.char THEN Join!Bump(old, 1) ELSE [count |-> 1, char |-> c]
  OBVIOUS
<1>22. PICK th : th = [state |-> "loop", start |-> start + 1, run |-> new]
  OBVIOUS
<1>23. thread' = [thread EXCEPT ![t] = th]
  BY <1>4, <1>21, <1>22
<1>24. ASSUME NEW q, Rle(SubSeq(f, a + 1, start + 1)) = Append(q, new),
              result' = [result EXCEPT ![Place(file, t)] = q]
       PROVE  JoinCode'
  <2>1. a < start + 1 /\ start + 1 <= b
    BY <1>12, <1>13, <1>14
  <2>2. Reads(f, a, b, start + 1, new, q)
    BY <1>14, <1>24, <2>1 DEF Reads
  <2>3. Codes(th, q, f, a, b)
    BY <1>11, <1>22, <2>2 DEF Codes
  <2> QED BY <1>5, <1>6, <1>7, <1>8, <1>9, <1>23, <1>24, <2>3, CodeMoves DEF JoinTextInv
<1>25. CASE c = old.char
  <2>1. new = Bump(old, 1)
    BY <1>21, <1>25 DEF Join!Bump, Bump
  <2>2. AddChar(Append(r, old), c) = Append(r, Bump(old, 1))
    BY <1>13, <1>18, <1>20, <1>25, AddCharFacts
  <2>3. Rle(SubSeq(f, a + 1, start + 1)) = Append(r, new)
    BY <1>18, <1>19, <2>1, <2>2
  <2>4. result' = result
    BY <1>4, <1>25
  <2>5. result' = [result EXCEPT ![Place(file, t)] = r]
    BY <1>10, <2>4, SameResult DEF JoinTextInv
  <2> QED BY <1>6, <1>24, <2>3, <2>5
<1>26. CASE c # old.char
  <2>1. new = [count |-> 1, char |-> c]
    BY <1>21, <1>26
  <2>2. PICK q : q = Append(r, old)
    OBVIOUS
  <2>3. AddChar(q, c) = Append(q, new)
    BY <1>13, <1>18, <1>20, <1>26, <2>1, <2>2, AddCharFacts
  <2>4. Rle(SubSeq(f, a + 1, start + 1)) = Append(q, new)
    BY <1>18, <1>19, <2>2, <2>3
  <2>5. result' = [result EXCEPT ![Place(file, t)] = q]
    BY <1>2, <1>4, <1>10, <1>26, <2>2 DEF Join!AddEntry, Place
  <2> QED BY <1>6, <1>24, <2>4, <2>5
<1> QED BY <1>25, <1>26

LEMMA CodeEndThread ==
    ASSUME JoinTextInv, NEW t \in 0 .. Last0, Join!EndThread(t)
    PROVE  JoinCode' /\ JoinOut'
<1>1. PICK start : start = thread[t].start
  OBVIOUS
<1>2. PICK old : old = thread[t].run
  OBVIOUS
<1>3. PICK th : th = WithState(thread[t], "ended")
  OBVIOUS
<1>4. /\ thread[t].state = "loop" /\ start >= Join!EndOffset(t)
      /\ \/ Join!Crash
         \/ /\ start # Join!EndOffset(t) /\ thread' = [thread EXCEPT ![t] = th]
            /\ UNCHANGED <<files, mpc, file, k, data, result, jout, joining>>
         \/ /\ start = Join!EndOffset(t) /\ thread' = [thread EXCEPT ![t] = th]
            /\ Join!AddEntry(t)
  BY <1>1, <1>3 DEF Join!EndThread, WithState
<1>5. CASE Join!Crash
  BY <1>5, CodeCrash
<1>6. CASE ~Join!Crash
  <2>1. UNCHANGED <<files, mpc, file, k, data, jout, joining>>
        /\ thread' = [thread EXCEPT ![t] = th]
    BY <1>4, <1>6 DEF Join!AddEntry
  <2>2. /\ JoinOut' /\ file \in 1 .. Len(files) /\ file <= Len(files) /\ data = files[file]
        /\ CodeAt(file, t)
    BY <1>4, <2>1, OutWaits
  <2>3. PICK f : f = files[file]
    OBVIOUS
  <2>4. PICK a : a = Bound(f, t)
    OBVIOUS
  <2>5. PICK b : b = Bound(f, t + 1)
    OBVIOUS
  <2>6. PICK r : r = result[Place(file, t)]
    OBVIOUS
  <2>7. f # Missing /\ Reads(f, a, b, start, old, r)
    BY <1>1, <1>2, <1>4, <2>2, <2>3, <2>4, <2>5, <2>6 DEF CodeAt, Codes
  <2>8. /\ f \in Seq(Char) /\ Len(f) \in Nat /\ a \in Nat /\ b \in Nat /\ a <= b /\ b <= Len(f)
        /\ Join!EndOffset(t) = b
    BY <2>2, <2>3, <2>4, <2>5, <2>7, PartFacts DEF JoinTextInv
  <2>9. start \in Nat /\ th.state = "ended"
    <3>1. thread[t] \in ThreadRecord
      BY JoinKept DEF JoinTextInv
    <3> QED BY <1>1, <1>3, <3>1 DEF ThreadRecord, WithState
  <2>10. ASSUME NEW q, Rle(SubSeq(f, a + 1, b)) = q,
                result' = [result EXCEPT ![Place(file, t)] = q]
         PROVE  JoinCode'
    <3>1. Codes(th, q, f, a, b)
      BY <2>7, <2>9, <2>10 DEF Codes
    <3> QED BY <2>1, <2>2, <2>3, <2>4, <2>5, <2>10, <3>1, CodeMoves DEF JoinTextInv
  <2>11. CASE start # b
    <3>1. ~(a < b)
      BY <1>4, <2>7, <2>8, <2>9, <2>11 DEF Reads
    <3>2. r = <<>> /\ b = a
      BY <2>7, <2>8, <3>1 DEF Reads
    <3>3. SubSeq(f, a + 1, b) = <<>>
      BY <2>8, <3>2, SubSeqEmpty
    <3>4. PICK none : none = <<>>
      OBVIOUS
    <3>5. Rle(<<>>) = <<>>
      <4>1. none \in Seq(Char)
        BY <3>4
      <4> QED BY <4>1, RleFacts
    <3>6. Rle(SubSeq(f, a + 1, b)) = r
      BY <3>2, <3>3, <3>5
    <3>7. result' = [result EXCEPT ![Place(file, t)] = r]
      <4>1. result' = result
        BY <1>4, <1>6, <2>8, <2>11
      <4> QED BY <2>6, <4>1, SameResult DEF JoinTextInv
    <3> QED BY <2>2, <2>10, <3>6, <3>7
  <2>12. CASE start = b
    <3>1. a < b
      BY <2>7, <2>8, <2>12 DEF Reads
    <3>2. PICK q : q = Append(r, old)
      OBVIOUS
    <3>3. Rle(SubSeq(f, a + 1, b)) = q
      BY <2>7, <2>12, <3>1, <3>2 DEF Reads
    <3>4. result' = [result EXCEPT ![Place(file, t)] = q]
      BY <1>2, <1>4, <1>6, <2>6, <2>8, <2>12, <3>2 DEF Join!AddEntry, Place
    <3> QED BY <2>2, <2>10, <3>3, <3>4
  <2> QED BY <2>11, <2>12
<1> QED BY <1>5, <1>6

LEMMA JoinTextStays == ASSUME JoinTextInv, UNCHANGED <<files, joinVars>> PROVE JoinCode' /\ JoinOut'
<1>1. mpc' = mpc /\ jout' = jout /\ UNCHANGED <<files, file, thread, result>>
  BY DEF joinVars
<1>2. Join!Merged' = Join!Merged
  BY <1>1, SameMerged
<1>3. JoinOut'
  BY <1>1, <1>2 DEF JoinTextInv, JoinOut
<1> QED BY <1>1, <1>3, CodeStays DEF JoinTextInv

LEMMA CodeStep == ASSUME JoinTextInv, [ToolsNext]_toolVars PROVE JoinTextInv'
<1>1. JoinInv'
  BY JoinStep DEF JoinTextInv
<1>2. CASE UNCHANGED <<files, joinVars>>
  BY <1>1, <1>2, JoinTextStays DEF JoinTextInv
<1>3. CASE Join!Next
  <2>1. DOMAIN thread = 0 .. Last0
    BY JoinTypes DEF JoinTextInv, JoinInv
  <2>2. Join!Main \/ \E t \in 0 .. Last0 :
                       Join!FirstByte(t) \/ Join!NextByte(t) \/ Join!EndThread(t)
    BY <1>3, <2>1, Zenon DEF Join!Next
  <2>3. CASE Join!Main
    <3>1. JoinCode' /\ JoinOut'
      BY <2>3, CodeOpen, CodeCreate, CodeJoin, CodeRelease, CodeMerge, CodeWrite DEF Join!Main
    <3> QED BY <1>1, <3>1 DEF JoinTextInv
  <2>4. ASSUME NEW t \in 0 .. Last0, Join!FirstByte(t) \/ Join!NextByte(t) \/ Join!EndThread(t)
        PROVE  JoinTextInv'
    <3>1. JoinCode' /\ JoinOut'
      BY <2>4, CodeFirstByte, CodeNextByte, CodeEndThread
    <3> QED BY <1>1, <3>1 DEF JoinTextInv
  <2> QED BY <2>2, <2>3, <2>4
<1> QED BY <1>2, <1>3, JoinMoves DEF JoinTextInv

LEMMA JoinTextInvariance == ToolsSpec => []JoinTextInv
<1>1. ToolsInit => JoinTextInv
  BY CodeStart DEF ToolsInit
<1>2. JoinTextInv /\ [ToolsNext]_toolVars => JoinTextInv'
  BY CodeStep
<1> QED BY <1>1, <1>2, PTL DEF ToolsSpec

(* What the abstract program shows: a process that has crashed has failed if it
   had a file to miss, and otherwise writes no more. *)
JoinStatus == IF joining # "crashed" THEN joining
              ELSE IF Missing \in ToSet(files) THEN "failed" ELSE "running"

LEMMA JoinStreamOperators ==
    /\ \A s : Join!JoinStream!Rle(s) = Rle(s)
    /\ \A s : Join!JoinStream!TextOf(s) = TextOf(s)
<1>1. ASSUME NEW s PROVE Join!JoinStream!Rle(s) = Rle(s)
  BY DEF Join!JoinStream!Rle, Rle, Join!JoinStream!FoldLeft, FoldLeft,
         Join!JoinStream!MapThenFoldSet, MapThenFoldSet,
         Join!JoinStream!AddChar, AddChar, Join!JoinStream!BumpLast, BumpLast,
         Join!JoinStream!Bump, Bump, Join!JoinStream!Max, Max, Join!JoinStream!Last, Last
<1>2. ASSUME NEW s PROVE Join!JoinStream!TextOf(s) = TextOf(s)
  BY DEF Join!JoinStream!TextOf, TextOf, Join!JoinStream!FlattenSeq, FlattenSeq
<1> QED BY <1>1, <1>2

LEMMA JoinStreamVars ==
    ASSUME UNCHANGED <<files, jout, JoinStatus>>
    PROVE  UNCHANGED Join!JoinStream!vars
<1>1. Join!JoinStream!vars = <<files, jout, JoinStatus>>
  BY DEF Join!JoinStream!vars, JoinStatus, Join!ToSet, ToSet
<1>2. Join!JoinStream!vars' = <<files, jout, JoinStatus>>'
  BY DEF Join!JoinStream!vars, JoinStatus, Join!ToSet, ToSet
<1> QED BY <1>1, <1>2

(* What main writes is what ZipStream says is written.                       *)
LEMMA JoinEncoding ==
    ASSUME JoinTextInv, mpc = "write"
    PROVE  Join!JoinStream!Readable /\ Join!JoinStream!Encoding = Join!Merged
<1>1. files \in FileLists /\ Len(files) \in Nat /\ DOMAIN files = 1 .. Len(files)
      /\ file = Len(files) + 1
  <2>1. files \in FileLists
    BY JoinKept DEF JoinTextInv
  <2> QED BY <2>1, LineFacts DEF JoinTextInv, JoinOut
<1>2. ASSUME NEW n \in 1 .. Len(files)
      PROVE  /\ files[n] # Missing
             /\ \A t \in 0 .. Last0 : result[Place(n, t)] = Rle(Part(files[n], t))
  <2>1. n < file
    BY <1>1
  <2>2. \A t \in 0 .. Last0 : CodeAt(n, t)
    BY DEF JoinTextInv, JoinCode
  <2>3. 0 \in 0 .. Last0
    <3>1. Last0 \in Nat
      BY JoinTypes DEF JoinTextInv, JoinInv
    <3> QED BY <3>1
  <2> QED BY <2>1, <2>2, <2>3 DEF CodeAt
<1>3. \A n \in 1 .. Len(files) : files[n] \in Seq(Char)
  BY <1>1, <1>2, LineFacts
<1>4. Join!Merged = Rle(TextOf(files))
  BY <1>2, <1>3, JoinText DEF JoinTextInv
<1>5. Join!JoinStream!Readable
  BY <1>1, <1>2 DEF Join!JoinStream!Readable
<1>6. Join!JoinStream!Encoding = Rle(TextOf(files))
  BY <1>5, JoinStreamOperators DEF Join!JoinStream!Encoding
<1> QED BY <1>4, <1>5, <1>6

LEMMA StreamCrash ==
    ASSUME JoinTextInv, joining = "running", Join!Crash
    PROVE  Join!JoinStream!Fail \/ UNCHANGED <<files, jout, JoinStatus>>
<1>1. joining' = "crashed" /\ files' = files /\ jout' = jout
  BY DEF Join!Crash
<1>2. CASE Missing \in ToSet(files)
  <2>1. JoinStatus = "running" /\ JoinStatus' = "failed"
    BY <1>1, <1>2 DEF JoinStatus
  <2>2. \E n \in DOMAIN files : files[n] = Missing
    BY <1>2 DEF ToSet
  <2>3. ~Join!JoinStream!Readable
    BY <2>2 DEF Join!JoinStream!Readable
  <2> QED BY <1>1, <2>1, <2>3 DEF Join!JoinStream!Fail, JoinStatus, Join!ToSet, ToSet
<1>3. CASE Missing \notin ToSet(files)
  BY <1>1, <1>3 DEF JoinStatus
<1> QED BY <1>2, <1>3

LEMMA StreamWrite ==
    ASSUME JoinTextInv, joining = "running", Join!Write
    PROVE  Join!JoinStream!Emit \/ Join!JoinStream!Finish
<1>1. mpc = "write" /\ files' = files
  BY DEF Join!Write
<1>2. PICK merged : merged = Join!Merged
  OBVIOUS
<1>3. /\ Join!JoinStream!Readable /\ Join!JoinStream!Encoding = merged
  BY <1>1, <1>2, JoinEncoding
<1>4. /\ merged \in Seq(Run) /\ jout \in Seq(Run)
      /\ Len(jout) <= Len(merged) /\ \A l \in 1 .. Len(jout) : jout[l] = merged[l]
  BY <1>1, <1>2, JoinKept, MergedType DEF JoinTextInv, JoinOut
<1>5. CASE Len(jout) < Len(merged)
  <2>1. jout' = Append(jout, merged[Len(jout) + 1]) /\ joining' = joining
    BY <1>2, <1>5 DEF Join!Write
  <2> QED BY <1>1, <1>3, <1>5, <2>1 DEF Join!JoinStream!Emit, Join!ToSet, ToSet
<1>6. CASE ~(Len(jout) < Len(merged))
  <2>1. jout' = jout /\ joining' = "exited"
    BY <1>2, <1>6 DEF Join!Write
  <2>2. jout = merged
    BY <1>4, <1>6
  <2> QED BY <1>1, <1>3, <2>1, <2>2 DEF Join!JoinStream!Finish
<1> QED BY <1>5, <1>6

LEMMA JoinStreamStep ==
    ASSUME JoinTextInv, [ToolsNext]_toolVars
    PROVE  [Join!JoinStream!Next]_(Join!JoinStream!vars)
<1>1. CASE UNCHANGED <<files, joinVars>>
  <2>1. UNCHANGED <<files, jout, JoinStatus>>
    BY <1>1 DEF joinVars, JoinStatus
  <2> QED BY <2>1, JoinStreamVars
<1>2. CASE Join!Next
  <2>1. joining = "running" /\ DOMAIN thread = 0 .. Last0
    BY <1>2, JoinTypes DEF Join!Next, JoinTextInv, JoinInv
  <2>2. \/ Join!Write
        \/ Join!Crash
        \/ files' = files /\ jout' = jout /\ joining' = joining
    BY <1>2 DEF Join!Next, Join!Main, Join!Open, Join!Create, Join!Join, Join!Release, Join!Merge,
                Join!FirstByte, Join!NextByte, Join!EndThread, Join!AddEntry
  <2>3. CASE Join!Write
    BY <2>1, <2>3, StreamWrite DEF Join!JoinStream!Next
  <2>4. CASE Join!Crash
    BY <2>1, <2>4, StreamCrash, JoinStreamVars DEF Join!JoinStream!Next
  <2>5. CASE files' = files /\ jout' = jout /\ joining' = joining
    <3>1. UNCHANGED <<files, jout, JoinStatus>>
      BY <2>5 DEF JoinStatus
    <3> QED BY <3>1, JoinStreamVars
  <2> QED BY <2>2, <2>3, <2>4, <2>5
<1> QED BY <1>1, <1>2, JoinMoves

(* The first parallel zip is what ZipStream promises, for files of any number
   and length, empty ones included, any number of threads and every way they can
   be scheduled: what main merges from their results is the encoding of the files,
   and it is written run by run and in order.  It crashes before it has written
   anything, if it does. *)
THEOREM JoinIsStream == ToolsSpec => JoinSpec
<1>1. ToolsInit => Join!JoinStream!Init
  BY DEF ToolsInit, Join!Init, Join!JoinStream!Init
<1>2. JoinTextInv /\ [ToolsNext]_toolVars => [Join!JoinStream!Next]_(Join!JoinStream!vars)
  BY JoinStreamStep
<1> QED BY <1>1, <1>2, JoinTextInvariance, PTL DEF ToolsSpec, JoinSpec, Join!JoinStream!Spec

-----------------------------------------------------------------------------
(* wunzip writes the text that was zipped.                                   *)

(* What rep_count is after c bytes of the count n.                           *)
Low(n, c) == IF c = 4 THEN n ELSE n % Unzip!Weight[c + 1]

LEMMA WeightFacts ==
    /\ Unzip!Weight[1] = 1
    /\ \A c \in 1 .. 3 : Unzip!Weight[c + 1] = Unzip!Weight[c] * Base
    /\ Unzip!Limit <= Unzip!Weight[4] * Base
<1>1. Base \in Nat
  BY LimitFacts
<1>2. PICK square \in Nat : square = Base * Base
  BY <1>1
<1>3. PICK cube \in Nat : cube = square * Base
  BY <1>1
<1>4. Unzip!Weight = <<1, Base, square, cube>>
  BY <1>2, <1>3 DEF Unzip!Weight
<1>5. PICK whole \in Nat : whole = Base * cube
  BY <1>1
<1>6. Unzip!Limit = whole \div 2 /\ cube * Base = whole
  BY <1>1, <1>4, <1>5 DEF Unzip!Limit
<1>7. ASSUME NEW c \in 1 .. 3 PROVE Unzip!Weight[c + 1] = Unzip!Weight[c] * Base
  <2>1. c = 1 \/ c = 2 \/ c = 3
    OBVIOUS
  <2>2. Unzip!Weight[2] = Unzip!Weight[1] * Base
    BY <1>1, <1>4
  <2>3. Unzip!Weight[3] = Unzip!Weight[2] * Base /\ Unzip!Weight[4] = Unzip!Weight[3] * Base
    BY <1>2, <1>3, <1>4
  <2> QED BY <2>1, <2>2, <2>3
<1>8. whole \div 2 <= whole
  OBVIOUS
<1> QED BY <1>4, <1>6, <1>7, <1>8

LEMMA NoWrap ==
    ASSUME NEW n \in Nat, n < Unzip!Limit
    PROVE  Unzip!ToInt(n) = n
<1>1. PICK l \in Nat \ {0} : l = Unzip!Limit
  BY LimitFacts
<1>2. n + l \in 0 .. 2 * l - 1 /\ 2 * l \in Nat \ {0}
  BY <1>1
<1>3. PICK d \in Nat \ {0} : d = 2 * l
  BY <1>2
<1>4. PICK x \in 0 .. d - 1 : x = n + l
  BY <1>2, <1>3
<1>5. (d * 0 + x) % d = x
  BY Divided
<1>6. d * 0 + x = x
  OBVIOUS
<1>7. (n + l) % (2 * l) = n + l
  BY <1>3, <1>4, <1>5, <1>6
<1> QED BY <1>1, <1>7 DEF Unzip!ToInt

LEMMA LowFacts ==
    ASSUME NEW n \in Nat, n < Unzip!Limit
    PROVE  /\ Low(n, 0) = 0 /\ Low(n, 4) = n
           /\ \A c \in 0 .. 3 :
                Unzip!ToInt(Low(n, c) + Unzip!Digits(n)[c + 1] * Unzip!Weight[c + 1]) = Low(n, c + 1)
<1>1. PICK b \in Nat \ {0} : b = Base
  BY LimitFacts
<1>2. Low(n, 0) = 0
  <2>1. n % 1 = 0
    OBVIOUS
  <2> QED BY <2>1, WeightFacts DEF Low
<1>3. Low(n, 4) = n
  BY DEF Low
<1>4. ASSUME NEW c \in 0 .. 3
      PROVE  Unzip!ToInt(Low(n, c) + Unzip!Digits(n)[c + 1] * Unzip!Weight[c + 1]) = Low(n, c + 1)
  <2>1. PICK w \in Nat \ {0} : w = Unzip!Weight[c + 1]
    <3>1. c + 1 \in 1 .. 4
      OBVIOUS
    <3> QED BY <3>1, LimitFacts
  <2>2. Unzip!Digits(n)[c + 1] = (n \div w) % b
    <3>1. c + 1 \in 1 .. 4
      OBVIOUS
    <3> QED BY <1>1, <2>1, <3>1 DEF Unzip!Digits
  <2>3. Low(n, c) = n % w
    BY <2>1 DEF Low
  <2>4. n % (w * b) = (n % w) + ((n \div w) % b) * w
    BY DigitMore
  <2>5. Low(n, c + 1) = n % (w * b)
    <3>1. CASE c # 3
      <4>1. c + 1 \in 1 .. 3 /\ c + 1 # 4
        BY <3>1
      <4>2. Unzip!Weight[(c + 1) + 1] = w * b
        BY <1>1, <2>1, <4>1, WeightFacts
      <4> QED BY <4>1, <4>2 DEF Low
    <3>2. CASE c = 3
      <4>1. PICK d \in Nat \ {0} : d = w * b
        <5>1. w * b \in Nat \ {0}
          OBVIOUS
        <5> QED BY <5>1
      <4>2. Unzip!Limit <= d
        BY <1>1, <2>1, <3>2, <4>1, WeightFacts
      <4>3. Unzip!Limit \in Nat
        BY LimitFacts
      <4>4. n \in 0 .. d - 1
        BY <4>2, <4>3
      <4>5. (d * 0 + n) % d = n /\ d * 0 + n = n
        BY <4>4, Divided
      <4>6. Low(n, c + 1) = n
        BY <3>2 DEF Low
      <4> QED BY <4>1, <4>5, <4>6
    <3> QED BY <3>1, <3>2
  <2>6. Low(n, c + 1) \in Nat /\ Low(n, c + 1) <= n
    <3>1. PICK d \in Nat \ {0} : d = w * b
      <4>1. w * b \in Nat \ {0}
        OBVIOUS
      <4> QED BY <4>1
    <3>2. n % d \in Nat /\ n % d <= n
      BY DigitMore
    <3> QED BY <2>5, <3>1, <3>2
  <2>7. Low(n, c + 1) < Unzip!Limit
    BY <2>6, LimitFacts
  <2>8. Low(n, c) + Unzip!Digits(n)[c + 1] * Unzip!Weight[c + 1] = Low(n, c + 1)
    BY <2>1, <2>2, <2>3, <2>4, <2>5
  <2> QED BY <2>6, <2>7, <2>8, NoWrap
<1> QED BY <1>2, <1>3, <1>4

(* What wunzip has still to read after p - 1 runs and c bytes of the next.    *)
Left(runs, p, c) ==
    IF p > Len(runs) THEN <<>>
    ELSE SubSeq(RunBytes(runs[p]), c + 1, 5) \o From(AllBytes(runs), p + 1)

LEMMA LeftFacts ==
    ASSUME NEW runs \in Seq(Run)
    PROVE  /\ Left(runs, 1, 0) = Unzip!Bytes(runs)
           /\ Left(runs, Len(runs) + 1, 0) = <<>>
           /\ \A p \in 1 .. Len(runs), c \in 0 .. 4 :
                /\ Left(runs, p, c) # <<>>
                /\ Head(Left(runs, p, c)) = RunBytes(runs[p])[c + 1]
                /\ Tail(Left(runs, p, c)) = IF c = 4 THEN Left(runs, p + 1, 0)
                                            ELSE Left(runs, p, c + 1)
<1>1. PICK len \in Nat : len = Len(runs)
  OBVIOUS
<1>2. PICK ss : ss = AllBytes(runs)
  OBVIOUS
<1>3. /\ ss \in Seq(Seq(Byte)) /\ Len(ss) = len /\ Unzip!Bytes(runs) = FlattenSeq(ss)
      /\ \A p \in 1 .. len : ss[p] = RunBytes(runs[p])
  <2>1. ss \in Seq(Seq(Byte)) /\ Unzip!Bytes(runs) = FlattenSeq(ss)
    BY <1>2, BytesDef
  <2>2. ss = [p \in 1 .. len |-> RunBytes(runs[p])]
    BY <1>1, <1>2 DEF AllBytes
  <2> QED BY <2>1, <2>2
<1>4. ASSUME NEW p \in 1 .. len + 1 PROVE From(ss, p) \in Seq(Byte)
  <2>1. PICK z \in Seq(Byte) : z = FlattenSeq(ss)
    BY <1>3, FlattenFacts
  <2>2. PICK m \in Nat : m = Len(UpTo(ss, p - 1))
    <3>1. p - 1 \in 0 .. Len(ss)
      BY <1>3
    <3>2. UpTo(ss, p - 1) \in Seq(Byte)
      BY <1>3, <3>1, UpToFacts
    <3> QED BY <3>2
  <2>3. \A n \in m + 1 .. Len(z) : z[n] \in Byte
    OBVIOUS
  <2>4. m + 1 \in Int /\ Len(z) \in Int
    OBVIOUS
  <2>5. SubSeq(z, m + 1, Len(z)) \in Seq(Byte)
    BY <2>3, <2>4, SubSeqProperties
  <2> QED BY <2>1, <2>2, <2>5 DEF From
<1>5. ASSUME NEW p \in 1 .. len
      PROVE  From(ss, p) = RunBytes(runs[p]) \o From(ss, p + 1)
  <2>1. p \in 1 .. Len(ss) /\ p + 1 \in p + 1 .. Len(ss) + 1
    BY <1>3
  <2>2. \A l \in p + 1 .. (p + 1) - 1 : ss[l] = <<>>
    OBVIOUS
  <2>3. From(ss, p) = ss[p] \o From(ss, p + 1)
    BY <1>3, <2>1, <2>2, FromFacts
  <2> QED BY <1>3, <2>3
<1>6. ASSUME NEW p \in 1 .. len PROVE Left(runs, p, 0) = From(ss, p)
  <2>1. PICK x \in Seq(Byte) : x = RunBytes(runs[p]) /\ Len(x) = 5
    <3>1. runs[p] \in Run
      BY <1>1
    <3> QED BY <3>1, RunBytesFacts
  <2>2. SubSeq(x, 0 + 1, 5) = x
    <3>1. SubSeq(x, 1, Len(x)) = x
      BY SubSeqFull
    <3> QED BY <2>1, <3>1
  <2>3. Left(runs, p, 0) = SubSeq(x, 0 + 1, 5) \o From(ss, p + 1)
    BY <1>1, <1>2, <2>1 DEF Left
  <2> QED BY <1>5, <2>1, <2>2, <2>3
<1>7. From(ss, len + 1) = <<>>
  <2>1. CASE len = 0
    <3>1. FlattenSeq(ss) = <<>>
      <4>1. ss = <<>>
        BY <1>3, <2>1
      <4> QED BY <1>3, <4>1, FlattenFacts
    <3>2. Len(UpTo(ss, 0)) = 0 /\ (len + 1) - 1 = 0
      <4>2. 0 \in 0 .. Len(ss)
        BY <1>3
      <4>1. UpTo(ss, 0) = <<>>
        BY <1>3, <4>2, UpToFacts
      <4> QED BY <2>1, <4>1
    <3>3. From(ss, len + 1) = SubSeq(<<>>, 0 + 1, Len(<<>>))
      BY <3>1, <3>2 DEF From
    <3> QED BY <3>3
  <2>2. CASE len # 0
    <3>1. 1 \in 1 .. Len(ss) /\ 2 \in 1 + 1 .. Len(ss) + 1 /\ \A l \in 1 + 1 .. 2 - 1 : ss[l] = <<>>
      BY <1>3, <2>2
    <3>2. From(ss, Len(ss) + 1) = <<>>
      BY <1>3, <3>1, FromFacts
    <3> QED BY <1>3, <3>2
  <2> QED BY <2>1, <2>2
<1>8. Left(runs, len + 1, 0) = <<>>
  BY <1>1 DEF Left
<1>9. Left(runs, 1, 0) = Unzip!Bytes(runs)
  <2>1. CASE len = 0
    <3>1. ss = <<>> /\ Left(runs, 1, 0) = <<>>
      BY <1>3, <1>8, <2>1
    <3>2. FlattenSeq(<<>>) = <<>>
      BY <1>3, FlattenFacts
    <3> QED BY <1>3, <3>1, <3>2
  <2>2. CASE len # 0
    <3>1. 1 \in 1 .. len /\ 1 \in 1 .. Len(ss) /\ 2 \in 1 + 1 .. Len(ss) + 1
          /\ \A l \in 1 + 1 .. 2 - 1 : ss[l] = <<>>
      BY <1>3, <2>2
    <3>2. From(ss, 1) = FlattenSeq(ss)
      BY <1>3, <3>1, FromFacts
    <3> QED BY <1>3, <1>6, <3>1, <3>2
  <2> QED BY <2>1, <2>2
<1>10. ASSUME NEW p \in 1 .. len, NEW c \in 0 .. 4
       PROVE  /\ Left(runs, p, c) # <<>>
              /\ Head(Left(runs, p, c)) = RunBytes(runs[p])[c + 1]
              /\ Tail(Left(runs, p, c)) = IF c = 4 THEN Left(runs, p + 1, 0)
                                          ELSE Left(runs, p, c + 1)
  <2>1. PICK x \in Seq(Byte) : x = RunBytes(runs[p]) /\ Len(x) = 5
    <3>1. runs[p] \in Run
      BY <1>1
    <3> QED BY <3>1, RunBytesFacts
  <2>2. PICK y \in Seq(Byte) : y = From(ss, p + 1)
    BY <1>4
  <2>3. ASSUME NEW e \in Nat PROVE Left(runs, p, e) = SubSeq(x, e + 1, 5) \o y
    BY <1>1, <1>2, <2>1, <2>2 DEF Left
  <2>4. /\ SubSeq(x, c + 1, 5) \o y # <<>>
        /\ Head(SubSeq(x, c + 1, 5) \o y) = x[c + 1]
        /\ Tail(SubSeq(x, c + 1, 5) \o y) = SubSeq(x, c + 2, 5) \o y
    BY <2>1, ReadFirst
  <2>8. c \in Nat /\ c + 1 \in Nat
    OBVIOUS
  <2>5. Left(runs, p, c) = SubSeq(x, c + 1, 5) \o y
    BY <2>3, <2>8
  <2>6. CASE c # 4
    <3>1. Left(runs, p, c + 1) = SubSeq(x, c + 2, 5) \o y
      <4>1. (c + 1) + 1 = c + 2
        OBVIOUS
      <4> QED BY <2>3, <2>8, <4>1
    <3>2. Head(Left(runs, p, c)) = RunBytes(runs[p])[c + 1]
      BY <2>1, <2>4, <2>5
    <3>3. Tail(Left(runs, p, c)) = Left(runs, p, c + 1)
      BY <2>4, <2>5, <3>1
    <3>4. Left(runs, p, c) # <<>>
      BY <2>4, <2>5
    <3> QED BY <2>6, <3>2, <3>3, <3>4
  <2>7. CASE c = 4
    <3>1. SubSeq(x, c + 2, 5) = <<>>
      <4>1. c + 2 \in Int /\ 5 \in Int /\ 5 < c + 2
        BY <2>7
      <4> QED BY <4>1, SubSeqEmpty
    <3>2. SubSeq(x, c + 2, 5) \o y = y
      BY <3>1, ConcatEmptySeq
    <3>3. Left(runs, p + 1, 0) = y
      <4>1. CASE p = len
        BY <1>7, <1>8, <2>2, <4>1
      <4>2. CASE p # len
        <5>1. p + 1 \in 1 .. len
          BY <4>2
        <5> QED BY <1>6, <2>2, <5>1
      <4> QED BY <4>1, <4>2
    <3> QED BY <2>1, <2>4, <2>5, <2>7, <3>2, <3>3
  <2> QED BY <2>6, <2>7
<1> QED BY <1>1, <1>8, <1>9, <1>10

(* What wzip has written decodes to the text of its files, and what the first
   parallel zip has written is the encoding of it. *)
WzipText == status \in {"written", "exited"} => Expand(out) = TextOf(files)
JoinDone ==
    joining = "exited" =>
        (\A n \in 1 .. Len(files) : files[n] # Missing) /\ jout = Rle(TextOf(files))

LEMMA WzipTextStep ==
    ASSUME WzipInv, WzipText, [ToolsNext]_toolVars PROVE WzipText'
<1>1. [Next]_vars
  BY ToolsMove
<1>2. CASE WriteLast
  <2>1. /\ status = "running" /\ i > Len(files) /\ out' = Append(out, run) /\ files' = files
    BY <1>2 DEF WriteLast
  <2>2. TextRead = TextOf(files)
    BY <2>1, AllRead DEF WzipInv
  <2>3. Expand(Append(out, run)) = TextRead
    BY <2>1, WzipWrites DEF NothingLost, TextRead, Done, Here
  <2> QED BY <2>1, <2>2, <2>3 DEF WzipText
<1>3. CASE ~WriteLast
  <2>1. /\ status' \in {"written", "exited"} => status \in {"written", "exited"} /\ out' = out
        /\ files' = files
    BY <1>1, <1>3 DEF Next, Open, Read, Close, Exit, vars
  <2> QED BY <2>1 DEF WzipText
<1> QED BY <1>2, <1>3

LEMMA JoinDoneStep ==
    ASSUME JoinTextInv, JoinDone, [ToolsNext]_toolVars PROVE JoinDone'
<1>1. CASE UNCHANGED <<files, joinVars>>
  BY <1>1 DEF joinVars, JoinDone
<1>2. CASE Join!Next
  <2>1. joining = "running" /\ DOMAIN thread = 0 .. Last0
    BY <1>2, JoinTypes DEF Join!Next, JoinTextInv, JoinInv
  <2>2. \/ Join!Write
        \/ Join!Crash
        \/ joining' = joining
    BY <1>2 DEF Join!Next, Join!Main, Join!Open, Join!Create, Join!Join, Join!Release, Join!Merge,
                Join!FirstByte, Join!NextByte, Join!EndThread, Join!AddEntry
  <2>3. CASE Join!Write
    <3>1. mpc = "write" /\ files' = files
      BY <2>3 DEF Join!Write
    <3>2. PICK merged : merged = Join!Merged
      OBVIOUS
    <3>3. /\ Join!JoinStream!Readable /\ Join!JoinStream!Encoding = merged
      BY <3>1, <3>2, JoinEncoding
    <3>4. merged = Rle(TextOf(files))
      BY <3>3, JoinStreamOperators DEF Join!JoinStream!Encoding
    <3>5. /\ merged \in Seq(Run) /\ jout \in Seq(Run)
          /\ Len(jout) <= Len(merged) /\ \A l \in 1 .. Len(jout) : jout[l] = merged[l]
      BY <3>1, <3>2, JoinKept, MergedType DEF JoinTextInv, JoinOut
    <3>6. \A n \in 1 .. Len(files) : files[n] # Missing
      <4>1. files \in FileLists
        BY JoinKept DEF JoinTextInv
      <4>2. DOMAIN files = 1 .. Len(files)
        BY <4>1, LineFacts
      <4> QED BY <3>3, <4>2 DEF Join!JoinStream!Readable
    <3>7. CASE Len(jout) < Len(merged)
      <4>1. joining' = joining
        BY <3>2, <3>7, <2>3 DEF Join!Write
      <4> QED BY <2>1, <4>1 DEF JoinDone
    <3>8. CASE ~(Len(jout) < Len(merged))
      <4>1. jout' = jout
        BY <3>2, <3>8, <2>3 DEF Join!Write
      <4>2. jout = merged
        BY <3>5, <3>8
      <4> QED BY <3>1, <3>4, <3>6, <4>1, <4>2 DEF JoinDone
    <3> QED BY <3>7, <3>8
  <2>4. CASE Join!Crash
    BY <2>4 DEF Join!Crash, JoinDone
  <2>5. CASE joining' = joining
    BY <2>1, <2>5 DEF JoinDone
  <2> QED BY <2>2, <2>3, <2>4, <2>5
<1> QED BY <1>1, <1>2, JoinMoves

(* What wunzip is given: the runs decode to the text, and no count of them is too
   large for four bytes. *)
Decodes(o, t) ==
    /\ o \in Seq(Run) /\ t \in Seq(Char) /\ Expand(o) = t
    /\ \A p \in 1 .. Len(o) : o[p].count \in Nat /\ o[p].count < Unzip!Limit

LEMMA OutputText ==
    ASSUME LinesShort, WzipInv, JoinInv, WzipText, JoinDone, Zipped
    PROVE  Decodes(Output, TextOf(files))
<1>1. PICK o : o = Output
  OBVIOUS
<1>2. o \in Seq(Run) /\ files \in FileLists
  BY <1>1, JoinKept DEF Output, WzipInv, TypeOK
<1>3. files \in Seq(Seq(Char) \cup {Missing}) /\ Len(files) \in Nat /\ DOMAIN files = 1 .. Len(files)
  BY <1>2, LineFacts
<1>4. \A n \in 1 .. Len(files) : files[n] # Missing
  <2>1. CASE tool = "wzip"
    <3>1. status = "exited"
      BY <2>1 DEF Zipped
    <3>2. i = Len(files) + 1 /\ \A n \in 1 .. i - 1 : files[n] # Missing
      BY <3>1 DEF WzipInv, PlaceInv
    <3>3. i - 1 = Len(files)
      BY <1>3, <3>2
    <3> QED BY <3>2, <3>3
  <2>2. CASE tool # "wzip"
    BY <2>2 DEF Zipped, JoinDone
  <2> QED BY <2>1, <2>2
<1>5. PICK t \in Seq(Char) : t = TextOf(files)
  <2>1. files \in Seq(Seq(Char))
    BY <1>2, <1>3, <1>4, LineFacts
  <2> QED BY <2>1, FlattenFacts DEF TextOf
<1>6. Expand(o) = t
  <2>1. CASE tool = "wzip"
    BY <1>1, <1>5, <2>1 DEF Zipped, WzipText, Output
  <2>2. CASE tool # "wzip"
    <3>1. o = Rle(t)
      BY <1>1, <1>5, <2>2 DEF Zipped, JoinDone, Output
    <3> QED BY <3>1, ExpandRle
  <2> QED BY <2>1, <2>2
<1>7. Len(t) < Unzip!Limit
  BY <1>2, <1>3, <1>4, <1>5 DEF LinesShort
<1>8. ASSUME NEW p \in 1 .. Len(o) PROVE o[p].count \in Nat /\ o[p].count < Unzip!Limit
  <2>1. o[p].count \in Nat /\ o[p].count <= Len(t)
    BY <1>2, <1>6, CountBound
  <2>2. Unzip!Limit \in Nat /\ Len(t) \in Nat
    BY LimitFacts
  <2> QED BY <1>7, <2>1, <2>2
<1> QED BY <1>1, <1>2, <1>5, <1>6, <1>8 DEF Decodes

-----------------------------------------------------------------------------
(* What wunzip has written: of every file before the one it reads the whole text, and
   of this one the runs it has read. *)
Whole(t) == [n \in 1 .. Len(zipped) |-> t]

(* It stands before the p-th run, or has read some bytes of its count.       *)
Reading(o, t, p) ==
    /\ bytes = Left(o, p, counter)
    /\ p > Len(o) => counter = 0
    /\ rep_count = IF p > Len(o) THEN 0 ELSE Low(o[p].count, counter)
    /\ text = UpTo(Whole(t), at - 1) \o Decoded(o, p)

Unzipped(o, t) ==
    /\ \A n \in 1 .. Len(zipped) : zipped[n] = Unzip!Bytes(o) \/ zipped[n] = Missing
    /\ bytes = Missing => text = UpTo(Whole(t), at - 1)
    /\ bytes # Missing => unzipping = "running" /\ \E p \in 1 .. Len(o) + 1 : Reading(o, t, p)
    /\ unzipping = "exited" => at = Len(zipped) + 1

UnzipText == IF Zipped THEN Unzipped(Output, TextOf(files))
             ELSE unzipping = "idle" /\ text = <<>>

LEMMA WholeFacts ==
    ASSUME UnzipInv, NEW t \in Seq(Char)
    PROVE  /\ Whole(t) \in Seq(Seq(Char)) /\ Len(Whole(t)) = Len(zipped)
           /\ at - 1 \in 0 .. Len(zipped) /\ at \in Nat
           /\ UpTo(Whole(t), at - 1) \in Seq(Char)
           /\ at = 1 => UpTo(Whole(t), at - 1) = <<>>
           /\ at <= Len(zipped) => UpTo(Whole(t), at) = UpTo(Whole(t), at - 1) \o t
<1>1. PICK len \in Nat : len = Len(zipped)
  BY UnzipKept
<1>2. PICK e \in 1 .. len + 1 : e = at
  BY <1>1, UnzipKept
<1>3. PICK w \in Seq(Seq(Char)) : w = Whole(t) /\ Len(w) = len
  <2>1. [n \in 1 .. len |-> t] \in Seq(Seq(Char)) /\ Len([n \in 1 .. len |-> t]) = len
    OBVIOUS
  <2> QED BY <1>1, <2>1 DEF Whole
<1>4. e - 1 \in 0 .. Len(w) /\ e \in Nat
  BY <1>2, <1>3
<1>5. UpTo(w, e - 1) \in Seq(Char) /\ (e - 1 = 0 => UpTo(w, e - 1) = <<>>)
  BY <1>4, UpToFacts
<1>6. ASSUME e <= len PROVE UpTo(w, e) = UpTo(w, e - 1) \o t
  <2>1. e \in 0 .. Len(w) /\ e # 0 /\ e \in 1 .. len
    BY <1>2, <1>3, <1>6
  <2>2. UpTo(w, e) = UpTo(w, e - 1) \o w[e]
    BY <2>1, UpToFacts
  <2>3. w[e] = t
    BY <1>1, <1>3, <2>1 DEF Whole
  <2> QED BY <2>2, <2>3
<1>7. e = 1 => e - 1 = 0
  OBVIOUS
<1> QED BY <1>1, <1>2, <1>3, <1>4, <1>5, <1>6, <1>7

(* A file that has not been opened is like one of no bytes that has been read. *)
LEMMA TextOpen ==
    ASSUME UnzipInv, NEW o, NEW t, Decodes(o, t), Unzipped(o, t), Unzip!Open
    PROVE  Unzipped(o, t)'
<1>1. /\ unzipping = "running" /\ at <= Len(zipped) /\ bytes = Missing /\ bytes' = zipped[at]
      /\ counter' = 0 /\ rep_count' = 0
      /\ unzipping' = IF zipped[at] = Missing THEN "failed" ELSE unzipping
      /\ zipped' = zipped /\ at' = at /\ text' = text
  BY DEF Unzip!Open
<1>2. at \in 1 .. Len(zipped)
  BY <1>1, UnzipKept
<1>3. o \in Seq(Run) /\ t \in Seq(Char)
      /\ \A p \in 1 .. Len(o) : o[p].count \in Nat /\ o[p].count < Unzip!Limit
  BY DEF Decodes
<1>4. text = UpTo(Whole(t), at - 1) /\ Whole(t)' = Whole(t)
  BY <1>1 DEF Unzipped, Whole
<1>5. ASSUME bytes' # Missing PROVE Reading(o, t, 1)'
  <2>1. bytes' = Unzip!Bytes(o)
    BY <1>1, <1>2, <1>5 DEF Unzipped
  <2>2. bytes' = Left(o, 1, 0)
    BY <1>3, <2>1, LeftFacts
  <2>3. 1 > Len(o) \/ Low(o[1].count, 0) = 0
    <3>1. CASE 1 \in 1 .. Len(o)
      BY <1>3, <3>1, LowFacts
    <3>2. CASE 1 \notin 1 .. Len(o)
      BY <1>3, <3>2
    <3> QED BY <3>1, <3>2
  <2>4. text' = UpTo(Whole(t), at - 1) \o Decoded(o, 1)
    <3>1. PICK u \in Seq(Char) : u = UpTo(Whole(t), at - 1)
      BY <1>3, WholeFacts
    <3>2. u \o <<>> = u
      BY ConcatEmptySeq
    <3>3. Decoded(o, 1) = <<>>
      BY <1>3, DecodedFacts
    <3> QED BY <1>1, <1>4, <3>1, <3>2, <3>3
  <2> QED BY <1>1, <1>4, <2>2, <2>3, <2>4 DEF Reading, Decoded
<1>6. 1 \in 1 .. Len(o) + 1
  BY <1>3
<1>7. bytes' # Missing => unzipping' = "running" /\ \E p \in 1 .. Len(o) + 1 : Reading(o, t, p)'
  BY <1>1, <1>5, <1>6
<1>8. \A n \in 1 .. Len(zipped') : zipped'[n] = Unzip!Bytes(o) \/ zipped'[n] = Missing
  BY <1>1 DEF Unzipped
<1>9. bytes' = Missing => text' = UpTo(Whole(t), at - 1)'
  BY <1>1, <1>4
<1>10. unzipping' # "exited"
  BY <1>1
<1> QED BY <1>7, <1>8, <1>9, <1>10, Zenon DEF Unzipped, Unzip!Bytes, Unzip!Digits, Unzip!Weight

(* Where it reads a byte, there is a run it belongs to.                      *)
LEMMA AtRun ==
    ASSUME UnzipInv, NEW o, NEW t, Decodes(o, t), Unzipped(o, t), bytes # Missing
    PROVE  /\ bytes # <<>> => \E p \in 1 .. Len(o) :
                                  /\ Reading(o, t, p) /\ bytes = Left(o, p, counter)
                                  /\ rep_count = Low(o[p].count, counter)
           /\ bytes = <<>> => Reading(o, t, Len(o) + 1)
<1>1. o \in Seq(Run)
  BY DEF Decodes
<1>2. PICK p \in 1 .. Len(o) + 1 : Reading(o, t, p)
  BY DEF Unzipped
<1>3. CASE p = Len(o) + 1
  <2>1. p > Len(o)
    BY <1>1, <1>3
  <2>2. bytes = Left(o, Len(o) + 1, 0)
    BY <1>2, <1>3, <2>1 DEF Reading
  <2>3. bytes = <<>>
    BY <1>1, <2>2, LeftFacts
  <2> QED BY <1>2, <1>3, <2>3
<1>4. CASE p # Len(o) + 1
  <2>1. p \in 1 .. Len(o) /\ ~(p > Len(o))
    BY <1>1, <1>4
  <2>2. bytes = Left(o, p, counter) /\ rep_count = Low(o[p].count, counter)
    BY <1>2, <2>1 DEF Reading
  <2>3. counter \in 0 .. 4
    BY UnzipKept
  <2>4. bytes # <<>>
    BY <1>1, <2>1, <2>2, <2>3, LeftFacts
  <2> QED BY <1>2, <2>1, <2>2, <2>4
<1> QED BY <1>3, <1>4

LEMMA TextStays ==
    ASSUME NEW o, NEW t, Unzipped(o, t), NEW p \in 1 .. Len(o) + 1, Reading(o, t, p)',
           unzipping = "running", unzipping' = unzipping, zipped' = zipped, bytes' # Missing
    PROVE  Unzipped(o, t)'
<1>1. \A n \in 1 .. Len(zipped') : zipped'[n] = Unzip!Bytes(o) \/ zipped'[n] = Missing
  BY DEF Unzipped
<1>2. \E n \in 1 .. Len(o) + 1 : Reading(o, t, n)'
  OBVIOUS
<1> QED BY <1>1, <1>2 DEF Unzipped, Unzip!Bytes, Unzip!Digits, Unzip!Weight

LEMMA TailIsRead ==
    ASSUME UnzipInv, unzipping = "running", bytes # Missing, bytes # <<>>
    PROVE  Tail(bytes) # Missing
<1>1. bytes \in Seq(Byte) /\ InStep(bytes, counter) /\ counter \in 0 .. 4
  BY UnzipKept DEF UnzipInv, UnzipPlace
<1>2. Tail(bytes) \in Seq(Byte)
  BY <1>1
<1> QED BY <1>2, MissingAssumption DEF Byte, Digit

LEMMA TextReadCount ==
    ASSUME UnzipInv, NEW o, NEW t, Decodes(o, t), Unzipped(o, t), Unzip!ReadCount
    PROVE  Unzipped(o, t)'
<1>1. /\ unzipping = "running" /\ bytes # Missing /\ bytes # <<>> /\ counter < 4
      /\ rep_count' = Unzip!ToInt(rep_count + Unzip!Weighed(Head(bytes)))
      /\ counter' = counter + 1 /\ bytes' = Tail(bytes)
      /\ zipped' = zipped /\ at' = at /\ text' = text /\ unzipping' = unzipping
  BY DEF Unzip!ReadCount
<1>2. o \in Seq(Run)
      /\ \A p \in 1 .. Len(o) : o[p].count \in Nat /\ o[p].count < Unzip!Limit
  BY DEF Decodes
<1>3. PICK p \in 1 .. Len(o) : /\ Reading(o, t, p) /\ bytes = Left(o, p, counter)
                               /\ rep_count = Low(o[p].count, counter)
  BY <1>1, AtRun
<1>4. counter \in 0 .. 3 /\ counter \in 0 .. 4 /\ counter # 4 /\ counter + 1 \in 1 .. 4
  BY <1>1, UnzipKept
<1>5. PICK n \in Nat : n = o[p].count /\ n < Unzip!Limit
  BY <1>2
<1>6. Head(bytes) = Unzip!Digits(n)[counter + 1]
  <2>1. Head(bytes) = RunBytes(o[p])[counter + 1]
    BY <1>2, <1>3, <1>4, LeftFacts
  <2>2. o[p] \in Run
    BY <1>2
  <2>3. RunBytes(o[p])[counter + 1] = Unzip!Digits(n)[counter + 1]
    BY <1>4, <1>5, <2>2, RunBytesFacts
  <2> QED BY <2>1, <2>3
<1>7. rep_count' = Low(n, counter + 1)
  BY <1>1, <1>3, <1>4, <1>5, <1>6, LowFacts DEF Unzip!Weighed
<1>8. bytes' = Left(o, p, counter + 1)
  BY <1>1, <1>2, <1>3, <1>4, LeftFacts
<1>9. text = UpTo(Whole(t), at - 1) \o Decoded(o, p) /\ Whole(t)' = Whole(t)
  BY <1>1, <1>3 DEF Reading, Whole
<1>10. ~(p > Len(o)) /\ p \in 1 .. Len(o) + 1
  BY <1>2
<1>11. Reading(o, t, p)'
  BY <1>1, <1>5, <1>7, <1>8, <1>9, <1>10 DEF Reading
<1>12. bytes' # Missing
  BY <1>1, TailIsRead
<1> QED BY <1>1, <1>10, <1>11, <1>12, TextStays

LEMMA TextReadChar ==
    ASSUME UnzipInv, NEW o, NEW t, Decodes(o, t), Unzipped(o, t), Unzip!ReadChar
    PROVE  Unzipped(o, t)'
<1>1. /\ unzipping = "running" /\ bytes # Missing /\ bytes # <<>> /\ counter = 4
      /\ text' = text \o [n \in 1 .. rep_count |-> Head(bytes)]
      /\ counter' = 0 /\ rep_count' = 0 /\ bytes' = Tail(bytes)
      /\ zipped' = zipped /\ at' = at /\ unzipping' = unzipping
  BY DEF Unzip!ReadChar
<1>2. o \in Seq(Run) /\ t \in Seq(Char)
      /\ \A p \in 1 .. Len(o) : o[p].count \in Nat /\ o[p].count < Unzip!Limit
  BY DEF Decodes
<1>3. PICK p \in 1 .. Len(o) : /\ Reading(o, t, p) /\ bytes = Left(o, p, counter)
                               /\ rep_count = Low(o[p].count, counter)
  BY <1>1, AtRun
<1>4. PICK r \in Run : r = o[p]
  BY <1>2
<1>5. r.count \in Nat /\ r.count < Unzip!Limit /\ 4 \in 0 .. 4
  BY <1>2, <1>4
<1>6. rep_count = r.count
  BY <1>1, <1>3, <1>4, <1>5, LowFacts
<1>7. Head(bytes) = r.char
  <2>1. Head(bytes) = RunBytes(r)[4 + 1]
    BY <1>1, <1>2, <1>3, <1>4, <1>5, LeftFacts
  <2>2. RunBytes(r)[5] = r.char
    BY RunBytesFacts
  <2>3. 4 + 1 = 5
    OBVIOUS
  <2> QED BY <2>1, <2>2, <2>3
<1>8. text' = text \o Copies(r)
  BY <1>1, <1>6, <1>7 DEF Copies
<1>9. bytes' = Left(o, p + 1, 0)
  BY <1>1, <1>2, <1>3, <1>5, LeftFacts
<1>10. text = UpTo(Whole(t), at - 1) \o Decoded(o, p) /\ Whole(t)' = Whole(t)
  BY <1>1, <1>3 DEF Reading, Whole
<1>11. p + 1 \in 1 .. Len(o) + 1 /\ p \in 1 .. Len(o) + 1
  BY <1>2
<1>12. text' = UpTo(Whole(t), at - 1) \o Decoded(o, p + 1)
  <2>1. PICK u \in Seq(Char) : u = UpTo(Whole(t), at - 1)
    BY <1>2, WholeFacts
  <2>2. PICK v \in Seq(Char) : v = Decoded(o, p)
    BY <1>2, <1>11, DecodedFacts
  <2>3. PICK w \in Seq(Char) : w = Copies(r)
    BY CopiesFacts
  <2>4. (u \o v) \o w = u \o (v \o w)
    BY Regroup DEF Regroups
  <2>5. Decoded(o, p + 1) = v \o w
    BY <1>2, <1>4, <2>2, <2>3, DecodedFacts
  <2> QED BY <1>8, <1>10, <2>1, <2>2, <2>3, <2>4, <2>5
<1>13. p + 1 > Len(o) \/ Low(o[p + 1].count, 0) = 0
  <2>1. CASE p + 1 \in 1 .. Len(o)
    BY <1>2, <2>1, LowFacts
  <2>2. CASE p + 1 \notin 1 .. Len(o)
    BY <1>2, <2>2
  <2> QED BY <2>1, <2>2
<1>14. Reading(o, t, p + 1)'
  BY <1>1, <1>9, <1>10, <1>12, <1>13 DEF Reading
<1>15. bytes' # Missing
  BY <1>1, TailIsRead
<1> QED BY <1>1, <1>11, <1>14, <1>15, TextStays

LEMMA TextNextFile ==
    ASSUME UnzipInv, NEW o, NEW t, Decodes(o, t), Unzipped(o, t), Unzip!NextFile
    PROVE  Unzipped(o, t)'
<1>1. /\ unzipping = "running" /\ bytes = <<>> /\ at' = at + 1 /\ bytes' = Missing
      /\ text' = text /\ zipped' = zipped /\ unzipping' = unzipping
  BY DEF Unzip!NextFile
<1>2. bytes # Missing
  <2>1. <<>> \in Seq(Char)
    OBVIOUS
  <2> QED BY <1>1, <2>1, FileListsAssumption
<1>3. o \in Seq(Run) /\ t \in Seq(Char) /\ Expand(o) = t
  BY DEF Decodes
<1>4. at <= Len(zipped) /\ at \in Nat
  BY <1>1, <1>2, <1>3, WholeFacts DEF UnzipInv, UnzipPlace
<1>5. text = UpTo(Whole(t), at - 1) \o Decoded(o, Len(o) + 1)
  <2>1. Reading(o, t, Len(o) + 1)
    BY <1>1, <1>2, AtRun
  <2> QED BY <2>1 DEF Reading
<1>6. Decoded(o, Len(o) + 1) = t
  BY <1>3, DecodedFacts
<1>7. text = UpTo(Whole(t), at)
  BY <1>3, <1>4, <1>5, <1>6, WholeFacts
<1>8. (at + 1) - 1 = at
  BY <1>4
<1>9. Whole(t)' = Whole(t)
  BY <1>1 DEF Whole
<1> QED BY <1>1, <1>7, <1>8, <1>9 DEF Unzipped, Unzip!Bytes, Unzip!Digits, Unzip!Weight

LEMMA TextRest ==
    ASSUME UnzipInv, NEW o, NEW t, Unzipped(o, t), Unzip!Exit \/ UNCHANGED unzipVars
    PROVE  Unzipped(o, t)'
<1>1. CASE Unzip!Exit
  <2>1. /\ unzipping = "running" /\ at > Len(zipped) /\ unzipping' = "exited"
        /\ at' = at /\ bytes' = bytes /\ text' = text /\ zipped' = zipped
    BY <1>1 DEF Unzip!Exit
  <2>2. at \in 1 .. Len(zipped) + 1 /\ Len(zipped) \in Nat
    BY UnzipKept
  <2>3. at = Len(zipped) + 1 /\ ~(at <= Len(zipped))
    BY <2>1, <2>2
  <2>4. bytes = Missing
    BY <2>1, <2>3 DEF UnzipInv, UnzipPlace
  <2>5. Whole(t)' = Whole(t)
    BY <2>1 DEF Whole
  <2> QED BY <2>1, <2>3, <2>4, <2>5 DEF Unzipped, Unzip!Bytes, Unzip!Digits, Unzip!Weight
<1>2. CASE UNCHANGED unzipVars
  BY <1>2 DEF unzipVars, Unzipped, Reading, Whole, Decoded, Left, From, Low, Unzip!Bytes,
              Unzip!Digits, Unzip!Weight
<1> QED BY <1>1, <1>2

LEMMA TextIdle ==
    ASSUME UnzipInv, unzipping = "idle", text = <<>>, NEW o, NEW t
    PROVE  Unzipped(o, t)
<1>1. PICK none \in Seq(Seq(Char)) : none = <<>> /\ Len(none) = 0
  <2>1. <<>> \in Seq(Seq(Char)) /\ Len(<<>>) = 0
    OBVIOUS
  <2> QED BY <2>1
<1>2. zipped = none /\ Len(zipped) = 0 /\ at = 1 /\ bytes = Missing
  <2>1. zipped = <<>> /\ bytes = Missing
    BY DEF UnzipInv, UnzipPlace
  <2>2. at \in 1 .. 0 + 1
    BY <2>1, UnzipKept
  <2> QED BY <1>1, <2>1, <2>2
<1>3. Whole(t) = none
  BY <1>1, <1>2 DEF Whole
<1>4. UpTo(none, 0) = <<>>
  <2>1. 0 \in 0 .. Len(none)
    BY <1>1
  <2> QED BY <2>1, UpToFacts
<1>5. at - 1 = 0
  BY <1>2
<1> QED BY <1>2, <1>3, <1>4, <1>5 DEF Unzipped

LEMMA TextStart ==
    ASSUME UnzipInv, NEW o, NEW t, Decodes(o, t), o = Output, Unzipped(o, t), StartUnzip
    PROVE  Unzipped(o, t)'
<1>1. /\ unzipping = "idle" /\ unzipping' = "running"
      /\ at' = at /\ bytes' = bytes /\ text' = text
  BY DEF StartUnzip, Unzip!Start
<1>2. t \in Seq(Char) /\ o \in Seq(Run)
  BY DEF Decodes
<1>3. zipped = <<>> /\ at = 1 /\ bytes = Missing
  <2>1. zipped = <<>> /\ bytes = Missing
    BY <1>1 DEF UnzipInv, UnzipPlace
  <2>2. at \in 1 .. 0 + 1
    BY <2>1, UnzipKept
  <2> QED BY <2>1, <2>2
<1>4. text = <<>>
  BY <1>2, <1>3, WholeFacts DEF Unzipped
<1>5. PICK len \in Nat : len = Len(zipped')
  BY <1>2, StartGives
<1>6. PICK w \in Seq(Seq(Char)) : w = Whole(t)' /\ Len(w) = len
  <2>1. [n \in 1 .. len |-> t] \in Seq(Seq(Char)) /\ Len([n \in 1 .. len |-> t]) = len
    BY <1>2
  <2> QED BY <1>5, <2>1 DEF Whole
<1>7. UpTo(w, 0) = <<>> /\ at' - 1 = 0
  <2>1. 0 \in 0 .. Len(w)
    BY <1>6
  <2>2. UpTo(w, 0) = <<>>
    BY <2>1, UpToFacts
  <2>3. at' - 1 = 0
    BY <1>1, <1>3
  <2> QED BY <2>2, <2>3
<1>8. \A n \in 1 .. Len(zipped') : zipped'[n] = Unzip!Bytes(o) \/ zipped'[n] = Missing
  BY <1>2, StartGives
<1> QED BY <1>1, <1>3, <1>4, <1>6, <1>7, <1>8 DEF Unzipped, Unzip!Bytes, Unzip!Digits, Unzip!Weight

(* Who is done zips no more, and what wunzip is given does not change.       *)
LEMMA TextStep ==
    ASSUME LinesShort, WzipInv, JoinInv, UnzipInv, WzipText, JoinDone, UnzipText,
           [ToolsNext]_toolVars
    PROVE  UnzipText'
<1>1. CASE Wunzips
  <2>1. PICK o : o = Output
    OBVIOUS
  <2>2. PICK t : t = TextOf(files)
    OBVIOUS
  <2>3. Zipped /\ (StartUnzip \/ Unzip!Next) /\ UNCHANGED <<tool, vars, joinVars>>
    BY <1>1 DEF Wunzips
  <2>4. Decodes(o, t) /\ Unzipped(o, t)
    BY <2>1, <2>2, <2>3, OutputText DEF UnzipText
  <2>5. Unzipped(o, t)'
    BY <2>1, <2>3, <2>4, TextStart, TextOpen, TextReadCount, TextReadChar, TextNextFile, TextRest
       DEF Unzip!Next
  <2>6. Output' = o /\ TextOf(files)' = t /\ Zipped'
    BY <2>1, <2>2, <2>3 DEF vars, joinVars, Output, Zipped
  <2> QED BY <2>5, <2>6 DEF UnzipText, Unzipped, Reading, Whole, Decoded, Unzip!Bytes, Unzip!Digits,
                           Unzip!Weight
<1>2. CASE Zipped /\ UNCHANGED toolVars
  <2>1. PICK o : o = Output
    OBVIOUS
  <2>2. PICK t : t = TextOf(files)
    OBVIOUS
  <2>3. Unzipped(o, t)
    BY <1>2, <2>1, <2>2 DEF UnzipText
  <2>4. Unzipped(o, t)'
    BY <1>2, <2>3, TextRest DEF toolVars
  <2>5. Output' = o /\ TextOf(files)' = t /\ Zipped'
    BY <1>2, <2>1, <2>2 DEF toolVars, vars, joinVars, Output, Zipped
  <2> QED BY <2>4, <2>5 DEF UnzipText, Unzipped, Reading, Whole, Decoded, Unzip!Bytes, Unzip!Digits,
                           Unzip!Weight
<1>3. CASE ~Zipped /\ UNCHANGED unzipVars
  <2>1. unzipping = "idle" /\ text = <<>> /\ unzipping' = "idle" /\ text' = <<>>
    BY <1>3 DEF UnzipText, unzipVars
  <2>2. PICK o : o = Output'
    OBVIOUS
  <2>3. PICK t : t = TextOf(files)'
    OBVIOUS
  <2>4. Unzipped(o, t)'
    BY <1>3, <2>1, TextIdle, TextRest
  <2> QED BY <2>1, <2>2, <2>3, <2>4 DEF UnzipText, Unzipped, Reading, Whole, Decoded, Unzip!Bytes,
                                       Unzip!Digits, Unzip!Weight
<1>4. \/ Wunzips
      \/ Zipped /\ UNCHANGED toolVars
      \/ ~Zipped /\ UNCHANGED unzipVars
  <2>1. CASE Wzips
    BY <2>1 DEF Wzips, Zipped, Next, Open, Read, Close, WriteLast, Exit
  <2>2. CASE Wpzips
    BY <2>2 DEF Wpzips, Zipped, Join!Next
  <2>3. CASE Over \/ UNCHANGED toolVars
    BY <2>3 DEF Over, toolVars
  <2> QED BY <2>1, <2>2, <2>3 DEF ToolsNext
<1> QED BY <1>1, <1>2, <1>3, <1>4

LEMMA TextIsRight ==
    ASSUME LinesShort, WzipInv, JoinInv, UnzipInv, WzipText, JoinDone, UnzipText
    PROVE  RoundTrip
<1>1. SUFFICES ASSUME unzipping # "idle"
               PROVE  LET whole == FlattenSeq([n \in DOMAIN zipped |-> TextOf(files)])
                      IN  /\ IsPrefix(text, whole)
                          /\ unzipping = "exited" => text = whole
  BY DEF RoundTrip
<1>2. PICK o : o = Output
  OBVIOUS
<1>3. PICK t : t = TextOf(files)
  OBVIOUS
<1>4. Decodes(o, t) /\ Unzipped(o, t)
  BY <1>1, <1>2, <1>3, OutputText DEF UnzipText
<1>5. o \in Seq(Run) /\ t \in Seq(Char) /\ Expand(o) = t
  BY <1>4 DEF Decodes
<1>6. PICK len \in Nat : len = Len(zipped) /\ DOMAIN zipped = 1 .. len
  BY UnzipKept
<1>7. PICK w \in Seq(Seq(Char)) : w = Whole(t) /\ Len(w) = len
  BY <1>5, <1>6, WholeFacts
<1>8. PICK whole \in Seq(Char) : whole = FlattenSeq(w)
  BY FlattenFacts
<1>9. FlattenSeq([n \in DOMAIN zipped |-> TextOf(files)]) = whole
  BY <1>3, <1>6, <1>7, <1>8 DEF Whole
<1>10. PICK u \in Seq(Char) : u = UpTo(w, at - 1)
  BY <1>5, <1>7, WholeFacts
<1>11. ASSUME NEW m \in 0 .. len PROVE Begins(UpTo(w, m), whole)
  <2>1. m \in 0 .. Len(w) /\ Len(w) \in m .. Len(w) /\ Len(w) \in 0 .. Len(w)
    BY <1>7
  <2>2. UpTo(w, Len(w)) = whole
    BY <1>8, <2>1, UpToFacts
  <2> QED BY <2>1, <2>2, UpToMore DEF Begins
<1>12. at - 1 \in 0 .. len /\ at \in Nat
  BY <1>5, <1>6, WholeFacts
<1>13. CASE bytes = Missing
  <2>1. text = u
    BY <1>4, <1>7, <1>10, <1>13 DEF Unzipped
  <2>2. IsPrefix(text, whole)
    BY <1>10, <1>11, <1>12, <2>1, BeginsFacts
  <2>3. ASSUME unzipping = "exited" PROVE text = whole
    <3>1. at = len + 1
      BY <1>4, <1>6, <2>3 DEF Unzipped
    <3>2. at - 1 = Len(w) /\ Len(w) \in 0 .. Len(w)
      BY <1>7, <3>1
    <3> QED BY <1>8, <1>10, <2>1, <3>2, UpToFacts
  <2> QED BY <1>9, <2>2, <2>3
<1>14. CASE bytes # Missing
  <2>1. PICK p \in 1 .. Len(o) + 1 : Reading(o, t, p)
    BY <1>4, <1>14 DEF Unzipped
  <2>2. PICK v \in Seq(Char) : v = Decoded(o, p)
    BY <1>5, DecodedFacts
  <2>3. text = u \o v
    BY <1>7, <1>10, <2>1, <2>2 DEF Reading
  <2>4. unzipping = "running"
    BY <1>4, <1>14 DEF Unzipped
  <2>5. at <= len
    BY <1>6, <1>14, <2>4 DEF UnzipInv, UnzipPlace
  <2>6. Begins(v, t)
    <3>1. PICK c \in Seq(Seq(Char)) : c = AllCopies(o) /\ Len(c) = Len(o)
      BY <1>5, DecodedFacts
    <3>2. p - 1 \in 0 .. Len(c) /\ Len(c) \in p - 1 .. Len(c)
      BY <1>5, <3>1
    <3>3. v = UpTo(c, p - 1)
      BY <2>2, <3>1 DEF Decoded
    <3>4. UpTo(c, Len(c)) = t
      <4>1. Decoded(o, Len(o) + 1) = t /\ (Len(o) + 1) - 1 = Len(c)
        BY <1>5, <3>1, DecodedFacts
      <4> QED BY <3>1, <4>1 DEF Decoded
    <3> QED BY <3>2, <3>3, <3>4, UpToMore DEF Begins
  <2>7. Begins(u \o v, u \o t)
    BY <1>5, <2>6, BeginsFacts
  <2>8. u \o t = UpTo(w, at) /\ at \in 0 .. len
    <3>1. at \in 0 .. len
      BY <1>12, <2>5
    <3> QED BY <1>5, <1>6, <1>7, <1>10, <2>5, <3>1, WholeFacts
  <2>9. Begins(u \o t, whole)
    BY <1>11, <2>8
  <2>10. u \o v \in Seq(Char) /\ u \o t \in Seq(Char)
    BY <1>5, ConcatProperties
  <2>11. Begins(u \o v, whole)
    BY <2>7, <2>9, <2>10, BeginsFacts
  <2>12. IsPrefix(text, whole)
    BY <2>3, <2>10, <2>11, BeginsFacts
  <2> QED BY <1>9, <2>4, <2>12
<1> QED BY <1>13, <1>14

(* What is zipped, with either program, and unzipped is the text it was: for files
   of any number and length and any number of threads, wunzip writes of every file it
   is given the text that was zipped, as far as it has come, and all of it when it
   exits.  Of a run longer than an int of four bytes counts it would not. *)
THEOREM ZippedAndUnzipped ==
    ASSUME LinesShort PROVE ToolsSpec => []RoundTrip
<1>1. ToolsInit => WzipText /\ JoinDone /\ UnzipText
  BY DEF ToolsInit, Init, Join!Init, Unzip!Init, WzipText, JoinDone, UnzipText, Zipped
<1>2. WzipInv /\ JoinInv /\ JoinTextInv /\ UnzipInv /\ WzipText /\ JoinDone /\ UnzipText
        /\ [ToolsNext]_toolVars => (WzipText /\ JoinDone /\ UnzipText)'
  BY WzipTextStep, JoinDoneStep, TextStep
<1>3. WzipInv /\ JoinInv /\ UnzipInv /\ WzipText /\ JoinDone /\ UnzipText => RoundTrip
  BY TextIsRight
<1> QED BY <1>1, <1>2, <1>3, WzipInvariance, JoinInvariance, JoinTextInvariance, UnzipInvariance, PTL
        DEF ToolsSpec
=============================================================================
