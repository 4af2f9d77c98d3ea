------------------------------- MODULE Wpzip -------------------------------
(***************************************************************************)
(* assigned-project-concurrency/wpzip.c: the parallel zip.  The main        *)
(* thread cuts every file into chunks and starts one thread per chunk,      *)
(* gated by the semaphore thread_s; each thread encodes its chunk into its  *)
(* own node of a linked list of results and counts itself in threads_done   *)
(* under the mutex thread_count_m.  When threads_done equals total_threads  *)
(* the main thread merges the list, writes it and exits.                    *)
(*                                                                          *)
(* Thread w is the w-th thread created and owns the w-th node of the list:  *)
(* init_threadData_array hands the nodes out in that order and leaves one   *)
(* empty node behind the last.                                              *)
(***************************************************************************)
EXTENDS RunLength, Integers

CONSTANTS FileLists,    \* the command lines: non-empty sequences of files
          NumThreads,   \* num_threads, the first argument
          Threshold,    \* SMALL_FILE_THRESHOLD
          MaxThreadIds  \* room in thread_ids; the code has 1000 and no check

ASSUME NumThreadsAssumption == NumThreads \in Nat \ {0}
ASSUME ThresholdAssumption == Threshold \in Nat \ {0}
ASSUME MaxThreadIdsAssumption == MaxThreadIds \in Nat
ASSUME FileListsAssumption ==
    /\ Missing \notin Seq(Char)
    /\ FileLists \subseteq Seq(Seq(Char) \cup {Missing}) \ {<<>>}

(* What the results below ask of the command lines: that no file of any, or
   not the first, is empty.  An empty file makes main's merge read before an
   array, or makes a thread encode a byte that is not there. *)
HaveText(lists)     == \A list \in lists : \A n \in DOMAIN list : list[n] # <<>>
FirstHasText(lists) == \A list \in lists : list[1] # <<>>

Worker == 1 .. MaxThreadIds       \* threads, in the order of their creation
Node   == 1 .. MaxThreadIds + 1   \* result nodes, in the order of init_result
NULL   == 0

VARIABLES
    files,          \* argv[2 ..]
    mpc,            \* where main is
    i, j,           \* its loop variables: the file, the threads started for it
    threads_per_file, total_threads, thread_index,
    threads_d,      \* ThreadData of each thread: its file and [start, end)
    thread_s,       \* the semaphore's value
    thread_count_m, \* the thread that holds the mutex, or NULL
    threads_done,   \* the shared counter
    wpc,            \* where each thread is
    start, run, tmp,\* thread_rle's locals: next byte, (count, current), the
                    \* value loaded by threads_done++
    entries,        \* the runs of each result node
    first,          \* its field start: the first run still to write, 0 or 1
    next,           \* the list's links
    iter, k,        \* result_iter of merge and write_results; the entry index
    out             \* the runs written to standard output

mainVars   == <<files, i, j, threads_per_file, total_threads, thread_index, threads_d>>
syncVars   == <<thread_s, thread_count_m, threads_done>>
workerVars == <<wpc, start, run, tmp>>
listVars   == <<entries, first, next, iter, k, out>>
vars == <<mpc, mainVars, syncVars, workerVars, listVars>>

-----------------------------------------------------------------------------
(* get_file_size: -1 when stat fails.                                       *)
FileSize(f) == IF f = Missing THEN -1 ELSE Len(f)

(* MAX(MIN(file_size / SMALL_FILE_THRESHOLD, num_threads), 1); C divides -1 *)
(* by the threshold to 0.                                                   *)
ThreadsPerFile(f) ==
    LET wanted == IF f = Missing THEN 0 ELSE Len(f) \div Threshold
    IN  IF wanted < 1 THEN 1 ELSE IF wanted > NumThreads THEN NumThreads ELSE wanted

(* Slip: the first byte of a slice computed one chunk too early.             *)
SliceEarly(f, n, count) ==
    LET chunk == FileSize(f) \div count
    IN  [file |-> f, from |-> chunk * (n - 1), to |-> chunk * n]

(* The slice of thread n (from 0) of f, when f is cut for count threads: the
   last thread takes the remainder. *)
Slice(f, n, count) ==
    LET chunk == FileSize(f) \div count
    IN  [file |-> f, from |-> chunk * n,
         to |-> IF n = count - 1 THEN FileSize(f) ELSE chunk * (n + 1)]

NoSlice == [file |-> <<>>, from |-> 0, to |-> 0]
NoRun == [count |-> 0, char |-> CHOOSE c \in Char : TRUE]

(* What sem_init puts into thread_s; the slip counts the main thread in.     *)
PermitsAndMain == NumThreads + 1
Permits == NumThreads

TypeOK ==
    /\ files \in FileLists
    /\ mpc \in {"file", "wait", "create", "poll", "merge", "write",
                "destroy", "exited", "failed"}
    /\ i \in Nat /\ j \in Nat
    /\ threads_per_file \in Nat /\ total_threads \in Nat /\ thread_index \in Nat
    /\ threads_d \in [Worker -> [file : Seq(Char), from : Nat, to : Nat]]
    /\ thread_s \in Nat
    /\ thread_count_m \in Worker \cup {NULL}
    /\ threads_done \in Nat
    /\ wpc \in [Worker -> {"none", "first", "loop", "lock", "load", "store",
                           "unlock", "post", "returned"}]
    /\ start \in [Worker -> Nat]
    /\ run \in [Worker -> Run]
    /\ tmp \in [Worker -> Nat]
    /\ entries \in [Node -> Seq(Run)]
    /\ first \in [Node -> {0, 1}]
    /\ next \in [Node -> Node \cup {NULL}]
    /\ iter \in Node /\ k \in Nat
    /\ out \in Seq(Run)

Init ==
    /\ files \in FileLists
    /\ mpc = "file" /\ i = 1 /\ j = 0
    /\ threads_per_file = 0 /\ total_threads = 0 /\ thread_index = 0
    /\ threads_d = [w \in Worker |-> NoSlice]
    /\ thread_s = Permits
    /\ thread_count_m = NULL
    /\ threads_done = 0
    /\ wpc = [w \in Worker |-> "none"]
    /\ start = [w \in Worker |-> 0]
    /\ run = [w \in Worker |-> NoRun]
    /\ tmp = [w \in Worker |-> 0]
    /\ entries = [n \in Node |-> <<>>]
    /\ first = [n \in Node |-> 0]
    /\ next = [n \in Node |-> NULL]
    /\ iter = 1 /\ k = 0
    /\ out = <<>>

-----------------------------------------------------------------------------
(* The main thread.                                                         *)

(* The head of the loop over the files: size the file, cut it, append one
   node per thread to the list.  A file that cannot be opened ends the
   process, with whatever threads are running. *)
OpenFile ==
    /\ mpc = "file"
    /\ LET f     == files[i]
           count == ThreadsPerFile(f)
       IN IF f = Missing
          THEN /\ mpc' = "failed"
               /\ UNCHANGED <<i, j, threads_per_file, total_threads, thread_index, threads_d, next>>
          ELSE /\ total_threads + count <= MaxThreadIds
               /\ threads_per_file' = count
               /\ total_threads' = total_threads + count
               /\ threads_d' = [w \in Worker |->
                      IF w \in total_threads + 1 .. total_threads + count
                      THEN Slice(f, w - total_threads - 1, count) ELSE threads_d[w]]
               /\ next' = [n \in Node |->
                      IF n \in total_threads + 1 .. total_threads + count
                      THEN n + 1 ELSE next[n]]
               /\ j' = 0
               /\ mpc' = "wait"
               /\ UNCHANGED <<i, thread_index>>
    /\ UNCHANGED <<files, syncVars, workerVars, entries, first, iter, k, out>>

SemWait ==
    /\ mpc = "wait"
    /\ thread_s > 0
    /\ thread_s' = thread_s - 1
    /\ mpc' = "create"
    /\ UNCHANGED <<mainVars, thread_count_m, threads_done, workerVars, listVars>>

(* pthread_create, and the ends of the two loops.  What it returns is ignored
   (line 273): that it can fail, and the poll then never ends, is left out.  *)
CreateThread ==
    /\ mpc = "create"
    /\ thread_index' = thread_index + 1
    /\ wpc' = [wpc EXCEPT ![thread_index + 1] = "first"]
    /\ start' = [start EXCEPT ![thread_index + 1] = threads_d[thread_index + 1].from]
    /\ j' = j + 1
    /\ IF j + 1 < threads_per_file
       THEN mpc' = "wait" /\ UNCHANGED i
       ELSE /\ mpc' = IF i < Len(files) THEN "file" ELSE "poll"
            /\ i' = i + 1
    /\ UNCHANGED <<files, threads_per_file, total_threads, threads_d, syncVars, run, tmp, listVars>>

(* The poll reads threads_done without the mutex and sleeps between reads.
   Slips: any finished thread ends it; the comparison is off by one. *)
SomeDone == threads_done # 0
MoreDone == threads_done > total_threads
AllDone  == threads_done = total_threads

PollAgain == mpc = "poll" /\ ~AllDone /\ UNCHANGED vars

Poll ==
    /\ mpc = "poll"
    /\ AllDone
    /\ mpc' = "merge"
    /\ iter' = 1
    /\ UNCHANGED <<mainVars, syncVars, workerVars, entries, first, next, k, out>>

(* One iteration of merge: glue the first run of the next node to the last
   run of this one when they carry the same character, then drop the next
   node if that was its only run, else step onto it.  With no run here (an
   empty file at the head of the list) chars[-1] is whatever lies before the
   array: either answer to the comparison, and the count added to memory
   outside the list. *)
MergeGo == /\ next[iter] # NULL
           /\ entries[next[iter]] # <<>>

NeverSame(here, there) == {FALSE}    \* slip: the chunks are only concatenated
SameChar(here, there) ==
    IF entries[here] = <<>> THEN BOOLEAN
    ELSE {Last(entries[here]).char = entries[there][1].char}

KeepFirst(n) == first                \* slip: the absorbed run is written again
SkipFirst(n) == [first EXCEPT ![n] = 1]

MergeStep ==
    /\ mpc = "merge"
    /\ MergeGo
    /\ LET there == next[iter]
       IN /\ \E same \in SameChar(iter, there) :
               IF same
               THEN /\ entries' = [entries EXCEPT ![iter] = BumpLast(@, entries[there][1].count)]
                    /\ first' = SkipFirst(there)
               ELSE UNCHANGED <<entries, first>>
          /\ IF Len(entries[there]) = first'[there]
             THEN next' = [next EXCEPT ![iter] = next[there]] /\ UNCHANGED iter
             ELSE iter' = there /\ UNCHANGED next
    /\ UNCHANGED <<mpc, mainVars, syncVars, workerVars, k, out>>

MergeEnd ==
    /\ mpc = "merge"
    /\ ~MergeGo
    /\ mpc' = "write"
    /\ iter' = 1
    /\ k' = first[1]
    /\ UNCHANGED <<mainVars, syncVars, workerVars, entries, first, next, out>>

(* write_results: the outer loop stops at the first node without runs.      *)
WriteGo == /\ next[iter] # NULL
           /\ entries[iter] # <<>>

WriteEntry ==
    /\ mpc = "write"
    /\ WriteGo
    /\ k < Len(entries[iter])
    /\ out' = Append(out, entries[iter][k + 1])
    /\ k' = k + 1
    /\ UNCHANGED <<mpc, mainVars, syncVars, workerVars, entries, first, next, iter>>

WriteNode ==
    /\ mpc = "write"
    /\ WriteGo
    /\ k >= Len(entries[iter])
    /\ iter' = next[iter]
    /\ k' = first[next[iter]]
    /\ UNCHANGED <<mpc, mainVars, syncVars, workerVars, entries, first, next, out>>

WriteEnd ==
    /\ mpc = "write"
    /\ ~WriteGo
    /\ mpc' = "destroy"
    /\ UNCHANGED <<mainVars, syncVars, workerVars, listVars>>

(* The mutex and the semaphore are destroyed and freed, then exit(0) takes
   the remaining threads down. *)
Exit ==
    /\ mpc = "destroy"
    /\ mpc' = "exited"
    /\ UNCHANGED <<mainVars, syncVars, workerVars, listVars>>

MainNext == \/ OpenFile \/ SemWait \/ CreateThread \/ PollAgain \/ Poll
            \/ MergeStep \/ MergeEnd \/ WriteEntry \/ WriteNode \/ WriteEnd \/ Exit

-----------------------------------------------------------------------------
(* A thread: thread_rle.                                                    *)

Alive == mpc \notin {"exited", "failed"}

Go(w, from, to) == /\ Alive
                   /\ wpc[w] = from
                   /\ wpc' = [wpc EXCEPT ![w] = to]

(* The first byte; past the end of an empty file it is an arbitrary one.    *)
FirstByte(w) ==
    /\ Go(w, "first", "loop")
    /\ \E c \in Char :
         /\ start[w] < Len(threads_d[w].file) => c = threads_d[w].file[start[w] + 1]
         /\ run' = [run EXCEPT ![w] = [count |-> 1, char |-> c]]
    /\ start' = [start EXCEPT ![w] = @ + 1]
    /\ UNCHANGED <<mpc, mainVars, syncVars, tmp, listVars>>

NextByte(w) ==
    /\ Go(w, "loop", "loop")
    /\ start[w] < threads_d[w].to
    /\ LET c == threads_d[w].file[start[w] + 1]
       IN IF c # run[w].char
          THEN /\ entries' = [entries EXCEPT ![w] = Append(@, run[w])]
               /\ run' = [run EXCEPT ![w] = [count |-> 1, char |-> c]]
          ELSE /\ run' = [run EXCEPT ![w] = Bump(@, 1)]
               /\ UNCHANGED entries
    /\ start' = [start EXCEPT ![w] = @ + 1]
    /\ UNCHANGED <<mpc, mainVars, syncVars, tmp, first, next, iter, k, out>>

(* The end of the chunk: the last run is added, except for an empty file.   *)
LastRun(w) ==
    /\ Go(w, "loop", "lock")
    /\ start[w] >= threads_d[w].to
    /\ entries' = IF start[w] = threads_d[w].to
                  THEN [entries EXCEPT ![w] = Append(@, run[w])] ELSE entries
    /\ UNCHANGED <<mpc, mainVars, syncVars, start, run, tmp, first, next, iter, k, out>>

NoMutex   == TRUE                    \* slip: threads_done++ is not guarded
MutexFree == thread_count_m = NULL

Lock(w) ==
    /\ Go(w, "lock", "load")
    /\ MutexFree
    /\ thread_count_m' = w
    /\ UNCHANGED <<mpc, mainVars, thread_s, threads_done, start, run, tmp, listVars>>

(* threads_done++ is a load and a store.                                    *)
LoadDone(w) ==
    /\ Go(w, "load", "store")
    /\ tmp' = [tmp EXCEPT ![w] = threads_done]
    /\ UNCHANGED <<mpc, mainVars, syncVars, start, run, listVars>>

StoreDone(w) ==
    /\ Go(w, "store", "unlock")
    /\ threads_done' = tmp[w] + 1
    /\ UNCHANGED <<mpc, mainVars, thread_s, thread_count_m, start, run, tmp, listVars>>

Unlock(w) ==
    /\ Go(w, "unlock", "post")
    /\ thread_count_m' = NULL
    /\ UNCHANGED <<mpc, mainVars, thread_s, threads_done, start, run, tmp, listVars>>

SemPost(w) ==
    /\ Go(w, "post", "returned")
    /\ thread_s' = thread_s + 1
    /\ UNCHANGED <<mpc, mainVars, thread_count_m, threads_done, start, run, tmp, listVars>>

ThreadRle(w) == \/ FirstByte(w) \/ NextByte(w) \/ LastRun(w)
                \/ Lock(w) \/ LoadDone(w) \/ StoreDone(w) \/ Unlock(w) \/ SemPost(w)

-----------------------------------------------------------------------------
Terminated == ~Alive /\ UNCHANGED vars

Next == MainNext \/ (\E w \in Worker : ThreadRle(w)) \/ Terminated

(* The main thread and every thread created run on their own kernel threads,
   so the scheduler gives each of them weak fairness and no more. *)
Fairness == WF_vars(MainNext) /\ \A w \in Worker : WF_vars(ThreadRle(w))

Spec     == Init /\ [][Next]_vars
FairSpec == Spec /\ Fairness

-----------------------------------------------------------------------------
(* Properties.                                                              *)

Encoded   == {"lock", "load", "store", "unlock", "post", "returned"}
InMutex   == {"load", "store", "unlock"}
Counted   == {w \in Worker : wpc[w] \in {"unlock", "post", "returned"}}
Active    == {w \in Worker : wpc[w] \notin {"none", "returned"}}
AfterPoll == {"merge", "write", "destroy", "exited"}

(* At no time do more than num_threads threads exist that have not given back
   their permit: the semaphore gates pthread_create (README.txt, and lines
   272 and 128). *)
AtMostNumThreads == Cardinality(Active) <= NumThreads

(* threads_done is the number of threads past the increment: no increment is
   ever lost, although threads_done++ is not atomic. *)
CounterExact == threads_done = Cardinality(Counted)

(* From the end of the poll on, every thread of every file has been created
   and has finished writing its result node: merge reads no node that a thread
   still writes. *)
MergeSeesAllResults ==
    mpc \in AfterPoll =>
        /\ thread_index = total_threads
        /\ \A w \in 1 .. total_threads :
             wpc[w] \in Encoded /\ start[w] >= threads_d[w].to

(* The inductive invariant behind the three properties above, which the proofs
   use.  Threads are created in order, all those of the files opened so far. *)
SpawnInv ==
    /\ thread_index <= total_threads /\ total_threads <= MaxThreadIds
    /\ IF mpc \in {"wait", "create"}
       THEN j < threads_per_file /\ thread_index + threads_per_file = total_threads + j
       ELSE thread_index = total_threads
    /\ \A w \in Worker : wpc[w] = "none" <=> w > thread_index
(* The holder of the mutex is the one thread inside it, and what it has loaded
   is still the counter's value. *)
MutexInv ==
    \A w \in Worker : /\ wpc[w] \in InMutex <=> thread_count_m = w
                      /\ wpc[w] = "store" => tmp[w] = threads_done
EncodedInv == \A w \in Worker : wpc[w] \in Encoded => start[w] >= threads_d[w].to
(* A permit is free, with an active thread, or with main about to create one. *)
PermitInv ==
    thread_s + Cardinality(Active) + (IF mpc = "create" THEN 1 ELSE 0) = NumThreads
SafetyInv == SpawnInv /\ MutexInv /\ EncodedInv /\ PermitInv /\ CounterExact
                /\ MergeSeesAllResults

(* What the list still says: the nodes in link order, each from its start.   *)
ListRuns ==
    LET from[n \in {NULL} \cup Node] ==
          IF n = NULL THEN <<>>
          ELSE SubSeq(entries[n], first[n] + 1, Len(entries[n]))
               \o from[next[n]]
    IN  from[1]

(* Merging moves counts and unlinks nodes but never changes the text that the
   list decodes to, which is the concatenation of the files. *)
ListTextPreserved ==
    mpc \in {"merge", "write"} => Expand(ListRuns) = TextOf(files)

(* The program stops: neither the semaphore nor the poll waits for ever.     *)
Termination == <>~Alive

(* wpzip writes what the serial program would: the runs of the encoding of
   the whole text, in order, and the encoding is complete when it exits. *)
status == IF Alive THEN "running" ELSE mpc
Stream == INSTANCE ZipStream
ZipSpec == Stream!Spec
=============================================================================
