----------------------------- MODULE WpzipJoin -----------------------------
(***************************************************************************)
(* assigned-project-concurrency/wpzip_unoptimized.c: the first parallel     *)
(* zip.  Every file is cut into as many chunks as there are threads; main   *)
(* starts a thread for each chunk, joins them all, lets go of the file and  *)
(* takes the next.  After the last it merges all results and writes them.   *)
(*                                                                          *)
(* A file is there or not: one that stat finds and open does not, whose     *)
(* bytes the code leaves unread, is not modelled.  Nor is a pthread_create  *)
(* that fails, which the code takes for one that has not.                   *)
(***************************************************************************)
EXTENDS RunLength, Integers

CONSTANTS FileLists,    \* the command lines
          NumThreads,   \* the first argument
          MinChunk      \* min_chunk_size: 2048

VARIABLES
    files,     \* argv[2 ..]
    mpc, file, i,  \* where main is, the file it is at, the loop variable there
    data,      \* the file's bytes in memory; Missing while it has none
    thread,    \* the threads of the file: place, start_offset, count and current
    result,    \* results_array
    out, status

(* get_file_size: -1 when stat fails.                                       *)
FileSize(f) == IF f = Missing THEN -1 ELSE Len(f)
Largest     == Max({0} \cup {FileSize(f) : f \in ToSet(files)})
Threads     == Min({NumThreads, Max({1, Largest \div MinChunk})})
Capacity    == (Largest \div Threads) \div 2     \* of every result at first

NoThread == [state |-> "none", start |-> 0, run |-> [count |-> 0, char |-> "none"]]

TypeOK ==
    /\ files \in FileLists
    /\ mpc \in {"open", "create", "join", "merge", "write", "end"}
    /\ file \in 1 .. Len(files) + 1
    /\ i \in 0 .. Threads
    /\ data \in Seq(Char) \cup {Missing}
    /\ thread \in [0 .. Threads - 1 ->
                     [state : {"none", "first", "loop", "ended"}, start : Nat,
                      run : [count : Nat, char : Char \cup {"none"}]]]
    /\ result \in [0 .. Threads * Len(files) - 1 -> Seq(Run)]
    /\ out \in Seq(Run)
    /\ status \in {"running", "exited", "crashed"}

Init == /\ files \in FileLists
        /\ mpc = "open" /\ file = 1 /\ i = 0
        /\ data = Missing
        /\ thread = [k \in 0 .. Threads - 1 |-> NoThread]
        /\ result = [k \in 0 .. Threads * Len(files) - 1 |-> <<>>]
        /\ out = <<>> /\ status = "running"

-----------------------------------------------------------------------------
(* main and per_file.                                                       *)

Open == /\ mpc = "open"
        /\ file <= Len(files)
        /\ data' = files[file]
        /\ mpc' = "create" /\ i' = 0
        /\ UNCHANGED <<files, file, thread, result, out, status>>

(* C divides towards 0; with one thread, which starts at 0, -1 does no harm. *)
Chunk        == Max({0, FileSize(files[file])}) \div Threads
EndOffset(k) == IF k # Threads - 1 THEN Chunk * (k + 1) ELSE FileSize(files[file])

Create == /\ mpc = "create"
          /\ IF i < Threads
             THEN /\ thread' = [thread EXCEPT ![i].state = "first", ![i].start = Chunk * i]
                  /\ i' = i + 1 /\ UNCHANGED mpc
             ELSE mpc' = "join" /\ i' = 0 /\ UNCHANGED thread
          /\ UNCHANGED <<files, file, data, result, out, status>>

(* Slip: the last thread is not waited for.                                 *)
AllButOne == Threads - 1
Joined    == Threads

Join == /\ mpc = "join"
        /\ i < Joined
        /\ thread[i].state = "ended"
        /\ i' = i + 1
        /\ UNCHANGED <<files, mpc, file, data, thread, result, out, status>>

(* free or munmap, and on to the next file.                                 *)
Release == /\ mpc = "join"
           /\ i = Joined
           /\ data' = Missing
           /\ thread' = [k \in DOMAIN thread |->
                           IF thread[k].state = "ended" THEN NoThread ELSE thread[k]]
           /\ file' = file + 1
           /\ mpc' = IF file = Len(files) THEN "merge" ELSE "open"
           /\ UNCHANGED <<files, i, result, out, status>>

(* Runs of one character that meet where chunks or files do become one.
   Slip: only the last of them is counted.                                  *)
KeepCount(runs, r) == [runs EXCEPT ![Len(runs)] = r]
AddCount(runs, r)  == BumpLast(runs, r.count)

AddRun(runs, r) == IF runs # <<>> /\ Last(runs).char = r.char
                   THEN AddCount(runs, r) ELSE Append(runs, r)

Merged == FoldLeft(AddRun, <<>>,
                   FlattenSeq([k \in 1 .. Threads * Len(files) |-> result[k - 1]]))

Merge == /\ mpc = "merge"
         /\ mpc' = "write"
         /\ UNCHANGED <<files, file, i, data, thread, result, out, status>>

Write == /\ mpc = "write"
         /\ IF Len(out) < Len(Merged)
            THEN out' = Append(out, Merged[Len(out) + 1]) /\ UNCHANGED <<mpc, status>>
            ELSE mpc' = "end" /\ status' = "exited" /\ UNCHANGED out
         /\ UNCHANGED <<files, file, i, data, thread, result>>

-----------------------------------------------------------------------------
(* thread_rle.                                                              *)

Byte(p) == IF data # Missing /\ p < Len(data) THEN {data[p + 1]} ELSE Char

Crash == status' = "crashed" /\ UNCHANGED <<files, mpc, file, i, data, thread, result, out>>

(* The byte at start_offset, read whatever the length of the chunk: of a chunk
   that is empty, and of a file that cannot be read, where there is none.   *)
FirstByte(k) ==
    /\ thread[k].state = "first"
    /\ IF files[file] = Missing THEN Crash
       ELSE /\ \E c \in Byte(thread[k].start) :
                 thread' = [thread EXCEPT ![k] = [state |-> "loop", start |-> @.start + 1,
                                                  run |-> [count |-> 1, char |-> c]]]
            /\ UNCHANGED <<files, mpc, file, i, data, result, out, status>>

(* add_entry doubles the capacity it needs more of; doubling 0 leaves nothing
   to write to. *)
AddEntry(k) ==
    /\ result' = [result EXCEPT ![k + (file - 1) * Threads] = Append(@, thread[k].run)]
    /\ UNCHANGED <<files, mpc, file, i, data, out, status>>

NextByte(k) ==
    /\ thread[k].state = "loop"
    /\ thread[k].start < EndOffset(k)
    /\ \E c \in Byte(thread[k].start) :
         LET same == c = thread[k].run.char
             run  == IF same THEN Bump(thread[k].run, 1) ELSE [count |-> 1, char |-> c]
         IN  /\ thread' = [thread EXCEPT ![k] = [state |-> "loop", start |-> @.start + 1,
                                                 run |-> run]]
             /\ IF same THEN UNCHANGED <<files, mpc, file, i, data, result, out, status>>
                ELSE AddEntry(k)

(* A chunk that was empty has start beyond end and leaves no run.           *)
EndThread(k) ==
    /\ thread[k].state = "loop"
    /\ thread[k].start >= EndOffset(k)
    /\ IF thread[k].start # EndOffset(k)
       THEN /\ thread' = [thread EXCEPT ![k].state = "ended"]
            /\ UNCHANGED <<files, mpc, file, i, data, result, out, status>>
       ELSE IF Capacity = 0 THEN Crash
       ELSE thread' = [thread EXCEPT ![k].state = "ended"] /\ AddEntry(k)

-----------------------------------------------------------------------------
Main == Open \/ Create \/ Join \/ Release \/ Merge \/ Write

Next == /\ status = "running"
        /\ Main \/ \E k \in DOMAIN thread : FirstByte(k) \/ NextByte(k) \/ EndThread(k)

(* A thread at work finds the file in memory: main lets go of it only when all
   threads of the file have ended. *)
ReadBeforeFree ==
    \A k \in DOMAIN thread :
        thread[k].state \in {"first", "loop"} =>
            mpc \in {"create", "join"} /\ data = files[file]

(* What is written is the encoding of all files, run by run and in order, as
   the serial program writes it.  A process that crashes has written nothing:
   one that cannot read a file, and one whose longest file has one byte.    *)
JoinStream == INSTANCE ZipStream WITH
                 status <- IF status # "crashed" THEN status
                           ELSE IF Missing \in ToSet(files) THEN "failed" ELSE "running"
=============================================================================
