---------------------------- MODULE Wpzip_proofs ----------------------------
(***************************************************************************)
(* Proofs about Wpzip, for every command line, number of threads, threshold *)
(* and interleaving.                                                        *)
(***************************************************************************)
EXTENDS Wpzip, RunLength_proofs, FiniteSetTheorems

-----------------------------------------------------------------------------
(* The arithmetic of the slices.                                            *)

(* C's integer division: m chunks of a text of len bytes cut into count
   chunks never reach past its end (line 176). *)
LEMMA ChunkBound ==
    ASSUME NEW len \in Nat, NEW count \in Nat \ {0}, NEW m \in 0 .. count
    PROVE  /\ len \div count \in Nat
           /\ (len \div count) * m \in Nat
           /\ (len \div count) * m <= len
<1> DEFINE q == len \div count
<1>1. q \in Nat /\ count * q <= len
  BY Z3
<1>2. q * m \in Nat /\ m * q <= count * q
  <2> HIDE DEF q
  <2> QED BY <1>1, Z3
<1> QED BY <1>1, <1>2, Z3

(* Every file gets between one and num_threads threads (lines 263 to 266).   *)
LEMMA ThreadsPerFileType ==
    ASSUME NEW f \in Seq(Char) \cup {Missing}
    PROVE  ThreadsPerFile(f) \in 1 .. NumThreads
<1>1. ASSUME f # Missing PROVE Len(f) \div Threshold \in Int
  BY <1>1, ThresholdAssumption, Z3
<1> QED BY <1>1, NumThreadsAssumption, Z3 DEF ThreadsPerFile

(* The slices that init_threadData_array cuts a file into partition it: the
   first begins at its first byte, each begins where the one before it ends,
   the last ends with the file (lines 197 to 216). *)
THEOREM SlicesPartition ==
    ASSUME NEW f \in Seq(Char), NEW count \in Nat \ {0}
    PROVE  /\ Slice(f, 0, count).from = 0
           /\ Slice(f, count - 1, count).to = Len(f)
           /\ \A n \in 0 .. count - 2 : Slice(f, n, count).to = Slice(f, n + 1, count).from
           /\ \A n \in 0 .. count - 1 :
                /\ Slice(f, n, count).file = f
                /\ Slice(f, n, count).from \in Nat /\ Slice(f, n, count).to \in Nat
                /\ Slice(f, n, count).from <= Slice(f, n, count).to
                /\ Slice(f, n, count).to <= Len(f)
<1> DEFINE len == Len(f)
           q   == len \div count
<1>1. FileSize(f) = len /\ len \in Nat
  BY FileListsAssumption DEF FileSize
<1>2. \A m \in 0 .. count : q \in Nat /\ q * m \in Nat /\ q * m <= len
  <2> HIDE DEF len
  <2> QED BY <1>1, ChunkBound
<1>3. ASSUME NEW n \in 0 .. count - 1
      PROVE  /\ Slice(f, n, count).file = f
             /\ Slice(f, n, count).from = q * n
             /\ Slice(f, n, count).to = IF n = count - 1 THEN len ELSE q * (n + 1)
  BY <1>1 DEF Slice
<1> HIDE DEF q, len
<1>4. \A n \in 0 .. count - 1 : n \in 0 .. count /\ n + 1 \in 0 .. count
  OBVIOUS
<1>5. q * 0 = 0
  BY <1>2, <1>4, Z3
<1>6. \A n \in 0 .. count - 1 : q * n <= q * (n + 1)
  <2> TAKE n \in 0 .. count - 1
  <2>1. q \in Nat /\ n \in Nat
    BY <1>2, <1>4
  <2> QED BY <2>1, Z3
<1>7. Slice(f, 0, count).from = 0 /\ Slice(f, count - 1, count).to = Len(f)
  <2>1. 0 \in 0 .. count - 1 /\ count - 1 \in 0 .. count - 1
    OBVIOUS
  <2> QED BY <1>3, <1>5, <2>1 DEF len
<1>8. \A n \in 0 .. count - 2 : Slice(f, n, count).to = Slice(f, n + 1, count).from
  <2> TAKE n \in 0 .. count - 2
  <2>1. n \in 0 .. count - 1 /\ n + 1 \in 0 .. count - 1 /\ n # count - 1
    OBVIOUS
  <2> QED BY <1>3, <2>1
<1>9. ASSUME NEW n \in 0 .. count - 1
      PROVE  /\ Slice(f, n, count).file = f
             /\ Slice(f, n, count).from \in Nat /\ Slice(f, n, count).to \in Nat
             /\ Slice(f, n, count).from <= Slice(f, n, count).to
             /\ Slice(f, n, count).to <= Len(f)
  <2>1. Slice(f, n, count).from \in Nat /\ Slice(f, n, count).from <= len
    BY <1>2, <1>3, <1>4
  <2>2. CASE n = count - 1
    BY <1>1, <1>3, <2>1, <2>2 DEF len
  <2>3. CASE n # count - 1
    BY <1>2, <1>3, <1>4, <1>6, <2>1, <2>3 DEF len
  <2> QED BY <2>2, <2>3, <1>3
<1> QED BY <1>7, <1>8, <1>9

-----------------------------------------------------------------------------
(* Types.  A thread reads inside its file, and main inside its command line. *)

SliceInv == \A w \in Worker : threads_d[w].to <= Len(threads_d[w].file)
FileInv  == mpc \in {"file", "wait", "create"} => i \in 1 .. Len(files)
TypeInv  == TypeOK /\ SliceInv /\ FileInv

LEMMA FilesType ==
    ASSUME TypeOK
    PROVE  /\ files \in Seq(Seq(Char) \cup {Missing})
           /\ Len(files) \in Nat /\ Len(files) > 0
           /\ \A n \in 1 .. Len(files) : files[n] \in Seq(Char) \cup {Missing}
BY FileListsAssumption, EmptySeq DEF TypeOK

LEMMA InitType == Init => TypeInv
<1> SUFFICES ASSUME Init PROVE TypeInv
  OBVIOUS
<1>1. NoRun \in Run /\ NoRun.char \in Char
  BY CharAssumption DEF NoRun, Run
<1>2. NoSlice \in [file : Seq(Char), from : Nat, to : Nat] /\ NoSlice.to = Len(NoSlice.file)
  BY DEF NoSlice
<1>3. <<>> \in Seq(Run)
  BY EmptySeq
<1>4. NULL = 0 /\ 1 \in Node
  BY MaxThreadIdsAssumption DEF NULL, Node
<1>5. TypeOK
  BY <1>1, <1>2, <1>3, <1>4, NumThreadsAssumption DEF Init, TypeOK, Permits
<1>6. SliceInv
  BY <1>2 DEF Init, SliceInv
<1>7. FileInv
  BY <1>5, FilesType DEF Init, FileInv
<1> QED BY <1>5, <1>6, <1>7 DEF TypeInv

LEMMA BumpLastType ==
    ASSUME NEW runs \in Seq(Run), NEW c \in Nat
    PROVE  BumpLast(runs, c) \in Seq(Run)
<1>1. CASE runs = <<>>
  BY <1>1 DEF BumpLast
<1>2. CASE runs # <<>>
  <2>1. Len(runs) \in 1 .. Len(runs)
    BY <1>2
  <2>2. runs[Len(runs)] \in Run
    BY <2>1
  <2>3. Bump(runs[Len(runs)], c) \in Run
    BY <2>2 DEF Run, Bump
  <2> QED BY <1>2, <2>1, <2>3, ExceptSeq DEF BumpLast
<1> QED BY <1>1, <1>2

LEMMA FirstType == ASSUME TypeOK, NEW n \in Node PROVE first[n] \in Nat
<1>1. first[n] \in {0, 1}
  BY DEF TypeOK
<1> QED BY <1>1

LEMMA TypeStepMain == TypeInv /\ MainNext => TypeInv'
<1> SUFFICES ASSUME TypeInv, MainNext PROVE TypeInv'
  OBVIOUS
<1> USE DEF TypeInv
<1>0. MaxThreadIds \in Nat /\ NumThreads \in Nat \ {0}
  BY MaxThreadIdsAssumption, NumThreadsAssumption
<1>1. CASE OpenFile
  <2> DEFINE f     == files[i]
             count == ThreadsPerFile(f)
  <2>1. mpc = "file" /\ i \in 1 .. Len(files) /\ f \in Seq(Char) \cup {Missing}
    BY <1>1, FilesType DEF OpenFile, FileInv
  <2>2. CASE f = Missing
    BY <1>1, <2>1, <2>2 DEF OpenFile, TypeOK, SliceInv, FileInv, workerVars, syncVars
  <2>3. CASE f # Missing
    <3>1. f \in Seq(Char) /\ count \in 1 .. NumThreads
      BY <2>1, <2>3, ThreadsPerFileType
    <3>2. \A n \in 0 .. count - 1 :
            /\ Slice(f, n, count) \in [file : Seq(Char), from : Nat, to : Nat]
            /\ Slice(f, n, count).to <= Len(Slice(f, n, count).file)
      <4> TAKE n \in 0 .. count - 1
      <4>1. Slice(f, n, count) = [file |-> Slice(f, n, count).file,
                                  from |-> Slice(f, n, count).from,
                                  to   |-> Slice(f, n, count).to]
        BY DEF Slice
      <4>2. count \in Nat \ {0}
        BY <1>0, <3>1
      <4>3. Slice(f, n, count).file = f /\ Slice(f, n, count).from \in Nat
            /\ Slice(f, n, count).to \in Nat /\ Slice(f, n, count).to <= Len(f)
        BY <3>1, <4>2, SlicesPartition
      <4> HIDE DEF f, count
      <4> QED BY <3>1, <4>1, <4>3
    <3> HIDE DEF f, count
    <3>3. /\ total_threads + count <= MaxThreadIds
          /\ threads_per_file' = count
          /\ total_threads' = total_threads + count
          /\ threads_d' = [w \in Worker |->
                 IF w \in total_threads + 1 .. total_threads + count
                 THEN Slice(f, w - total_threads - 1, count) ELSE threads_d[w]]
          /\ next' = [n \in Node |->
                 IF n \in total_threads + 1 .. total_threads + count
                 THEN n + 1 ELSE next[n]]
          /\ j' = 0 /\ mpc' = "wait" /\ i' = i /\ thread_index' = thread_index
          /\ UNCHANGED <<files, syncVars, workerVars, entries, first, iter, k, out>>
      BY <1>1, <2>3 DEF OpenFile, f, count
    <3>4. total_threads \in Nat /\ count \in Nat
      BY <1>0, <3>1 DEF TypeOK
    <3>5. \A w \in Worker : w \in total_threads + 1 .. total_threads + count
                              => w - total_threads - 1 \in 0 .. count - 1
      BY <3>4 DEF Worker
    <3>6. threads_d' \in [Worker -> [file : Seq(Char), from : Nat, to : Nat]] /\ SliceInv'
      BY <3>2, <3>3, <3>5 DEF TypeOK, SliceInv
    <3>7. next' \in [Node -> Node \cup {NULL}]
      <4>1. \A n \in total_threads + 1 .. total_threads + count : n + 1 \in Node
        BY <1>0, <3>3, <3>4 DEF Node
      <4>2. next \in [Node -> Node \cup {NULL}]
        BY DEF TypeOK
      <4> QED BY <3>3, <4>1, <4>2
    <3>8. threads_per_file' \in Nat /\ total_threads' \in Nat /\ mpc' = "wait" /\ j' \in Nat
      BY <3>3, <3>4
    <3>9. FileInv'
      BY <2>1, <3>3 DEF FileInv
    <3>10. TypeOK'
      BY <3>3, <3>6, <3>7, <3>8 DEF TypeOK, syncVars, workerVars
    <3> QED BY <3>6, <3>9, <3>10
  <2> QED BY <2>2, <2>3
<1>2. CASE SemWait
  BY <1>2 DEF SemWait, TypeOK, SliceInv, FileInv, mainVars, workerVars, listVars
<1>3. CASE CreateThread
  <2>1. start' \in [Worker -> Nat]
    BY <1>3 DEF CreateThread, TypeOK
  <2>2. FileInv'
    BY <1>3, FilesType DEF CreateThread, TypeOK, FileInv
  <2> QED BY <1>3, <2>1, <2>2 DEF CreateThread, TypeOK, SliceInv, syncVars, listVars
<1>4. CASE PollAgain
  BY <1>4 DEF PollAgain, vars, mainVars, syncVars, workerVars, listVars, TypeOK, SliceInv, FileInv
<1>5. CASE Poll
  BY <1>0, <1>5 DEF Poll, mainVars, syncVars, workerVars, TypeOK, SliceInv, FileInv, Node
<1>6. CASE MergeStep
  <2> DEFINE there == next[iter]
  <2>1. iter \in Node /\ there \in Node /\ entries[there] # <<>> /\ entries[there] \in Seq(Run)
    BY <1>6 DEF MergeStep, MergeGo, TypeOK, Node, NULL
  <2>2. entries[there][1].count \in Nat
    <3>1. entries[there][1] \in Run
      <4> HIDE DEF there
      <4> QED BY <2>1
    <3> HIDE DEF there
    <3> QED BY <3>1 DEF Run
  <2>3. entries' \in [Node -> Seq(Run)]
    <3> DEFINE c == entries[there][1].count
    <3>1. entries' = entries \/ entries' = [entries EXCEPT ![iter] = BumpLast(entries[iter], c)]
      BY <1>6 DEF MergeStep
    <3>2. BumpLast(entries[iter], c) \in Seq(Run)
      BY <2>1, <2>2, BumpLastType DEF TypeOK
    <3> HIDE DEF c
    <3> QED BY <3>1, <3>2 DEF TypeOK
  <2>4. first' \in [Node -> {0, 1}]
    BY <1>6, <2>1 DEF MergeStep, SkipFirst, TypeOK
  <2>5. next' \in [Node -> Node \cup {NULL}] /\ iter' \in Node
    BY <1>6, <2>1 DEF MergeStep, TypeOK
  <2>6. UNCHANGED <<mpc, mainVars, syncVars, workerVars, k, out>>
    BY <1>6 DEF MergeStep
  <2> QED BY <2>3, <2>4, <2>5, <2>6
          DEF TypeOK, SliceInv, FileInv, mainVars, syncVars, workerVars
<1>7. CASE MergeEnd
  <2>1. 1 \in Node
    BY <1>0 DEF Node
  <2>2. first[1] \in Nat
    BY <2>1, FirstType
  <2> QED BY <1>7, <2>1, <2>2 DEF MergeEnd, mainVars, syncVars, workerVars, TypeOK, SliceInv, FileInv
<1>8. CASE WriteEntry
  <2>1. /\ entries[iter] \in Seq(Run)
        /\ k + 1 \in 1 .. Len(entries[iter])
    BY <1>8 DEF WriteEntry, TypeOK
  <2>2. out' \in Seq(Run) /\ k' \in Nat
    BY <1>8, <2>1 DEF WriteEntry, TypeOK
  <2> QED BY <1>8, <2>2 DEF WriteEntry, mainVars, syncVars, workerVars, TypeOK, SliceInv, FileInv
<1>9. CASE WriteNode
  <2>1. next[iter] \in Node
    BY <1>9 DEF WriteNode, WriteGo, TypeOK, Node, NULL
  <2>2. first[next[iter]] \in Nat
    BY <2>1, FirstType
  <2> QED BY <1>9, <2>1, <2>2 DEF WriteNode, mainVars, syncVars, workerVars, TypeOK, SliceInv, FileInv
<1>10. CASE WriteEnd \/ Exit
  BY <1>10 DEF WriteEnd, Exit, mainVars, syncVars, workerVars, listVars, TypeOK, SliceInv, FileInv
<1> QED BY <1>1, <1>2, <1>3, <1>4, <1>5, <1>6, <1>7, <1>8, <1>9, <1>10 DEF MainNext

LEMMA TypeStepThread ==
    ASSUME TypeInv, NEW w \in Worker, ThreadRle(w)
    PROVE  TypeInv'
<1> USE DEF TypeInv, Go
<1>0. w \in Node
  BY MaxThreadIdsAssumption DEF Worker, Node
<1>1. CASE FirstByte(w)
  <2>1. run' \in [Worker -> Run]
    BY <1>1 DEF FirstByte, TypeOK, Run
  <2>2. start' \in [Worker -> Nat]
    BY <1>1 DEF FirstByte, TypeOK
  <2>3. wpc' = [wpc EXCEPT ![w] = "loop"] /\ UNCHANGED <<mpc, mainVars, syncVars, tmp, listVars>>
    BY <1>1 DEF FirstByte
  <2> QED BY <2>1, <2>2, <2>3 DEF TypeOK, SliceInv, FileInv, mainVars, syncVars, listVars
<1>2. CASE NextByte(w)
  <2> DEFINE c == threads_d[w].file[start[w] + 1]
  <2>1. c \in Char
    <3>1. /\ threads_d[w].file \in Seq(Char) /\ threads_d[w].to \in Nat
          /\ threads_d[w].to <= Len(threads_d[w].file)
          /\ start[w] \in Nat /\ start[w] < threads_d[w].to
      BY <1>2 DEF NextByte, TypeOK, SliceInv
    <3>2. start[w] + 1 \in 1 .. Len(threads_d[w].file)
      BY <3>1
    <3> QED BY <3>1, <3>2
  <2>2. run[w] \in Run /\ Bump(run[w], 1) \in Run /\ [count |-> 1, char |-> c] \in Run
    BY <2>1 DEF TypeOK, Run, Bump
  <2> HIDE DEF c
  <2>3. \/ /\ entries' = [entries EXCEPT ![w] = Append(entries[w], run[w])]
           /\ run' = [run EXCEPT ![w] = [count |-> 1, char |-> c]]
        \/ entries' = entries /\ run' = [run EXCEPT ![w] = Bump(run[w], 1)]
    BY <1>2 DEF NextByte, c
  <2>4. entries[w] \in Seq(Run)
    BY <1>0 DEF TypeOK
  <2>5. Append(entries[w], run[w]) \in Seq(Run)
    BY <2>2, <2>4
  <2>6. entries' \in [Node -> Seq(Run)] /\ run' \in [Worker -> Run]
    <3>1. entries \in [Node -> Seq(Run)] /\ run \in [Worker -> Run]
      BY DEF TypeOK
    <3> QED BY <2>2, <2>3, <2>5, <3>1
  <2>7. start' \in [Worker -> Nat]
    <3>1. start' = [start EXCEPT ![w] = start[w] + 1]
      BY <1>2 DEF NextByte
    <3>2. start \in [Worker -> Nat]
      BY DEF TypeOK
    <3> QED BY <3>1, <3>2
  <2>8. /\ wpc' = [wpc EXCEPT ![w] = "loop"]
        /\ UNCHANGED <<mpc, mainVars, syncVars, tmp, first, next, iter, k, out>>
    BY <1>2 DEF NextByte
  <2> QED BY <2>6, <2>7, <2>8 DEF TypeOK, SliceInv, FileInv, mainVars, syncVars
<1>3. CASE LastRun(w)
  <2>1. Append(entries[w], run[w]) \in Seq(Run)
    <3>1. entries[w] \in Seq(Run) /\ run[w] \in Run
      BY <1>0 DEF TypeOK
    <3> QED BY <3>1
  <2>2. entries' \in [Node -> Seq(Run)]
    BY <1>3, <2>1 DEF LastRun, TypeOK
  <2>3. /\ wpc' = [wpc EXCEPT ![w] = "lock"]
        /\ UNCHANGED <<mpc, mainVars, syncVars, start, run, tmp, first, next, iter, k, out>>
    BY <1>3 DEF LastRun
  <2> QED BY <2>2, <2>3 DEF TypeOK, SliceInv, FileInv, mainVars, syncVars
<1>4. CASE Lock(w)
  BY <1>4 DEF Lock, TypeOK, SliceInv, FileInv, mainVars, listVars
<1>5. CASE LoadDone(w)
  BY <1>5 DEF LoadDone, TypeOK, SliceInv, FileInv, mainVars, syncVars, listVars
<1>6. CASE StoreDone(w)
  BY <1>6 DEF StoreDone, TypeOK, SliceInv, FileInv, mainVars, listVars
<1>7. CASE Unlock(w)
  BY <1>7 DEF Unlock, TypeOK, SliceInv, FileInv, mainVars, listVars
<1>8. CASE SemPost(w)
  BY <1>8 DEF SemPost, TypeOK, SliceInv, FileInv, mainVars, listVars
<1> QED BY <1>1, <1>2, <1>3, <1>4, <1>5, <1>6, <1>7, <1>8 DEF ThreadRle

LEMMA TypeStep == TypeInv /\ [Next]_vars => TypeInv'
<1> SUFFICES ASSUME TypeInv, [Next]_vars PROVE TypeInv'
  OBVIOUS
<1>1. CASE UNCHANGED vars
  BY <1>1 DEF TypeInv, TypeOK, SliceInv, FileInv,
              vars, mainVars, syncVars, workerVars, listVars
<1>2. CASE Next
  BY <1>1, <1>2, TypeStepMain, TypeStepThread DEF Next, Terminated
<1> QED BY <1>1, <1>2

(* In every execution each variable keeps its type; in particular main never
   follows a link past the list. *)
THEOREM TypeCorrect == Spec => []TypeOK
<1>1. TypeInv => TypeOK
  BY DEF TypeInv
<1> QED BY <1>1, InitType, TypeStep, PTL DEF Spec

-----------------------------------------------------------------------------
(* The protocol between main and its threads.                               *)

LEMMA ThreadSets ==
    /\ IsFiniteSet(Worker) /\ NULL \notin Worker
    /\ IsFiniteSet(Active) /\ Cardinality(Active) \in Nat
    /\ IsFiniteSet(Counted) /\ Cardinality(Counted) \in Nat
<1>1. IsFiniteSet(Worker) /\ NULL \notin Worker
  BY MaxThreadIdsAssumption, FS_Interval DEF Worker, NULL
<1>2. Active \in SUBSET Worker /\ Counted \in SUBSET Worker
  BY DEF Active, Counted
<1>3. IsFiniteSet(Active) /\ IsFiniteSet(Counted)
  BY <1>1, <1>2, FS_Subset
<1> QED BY <1>1, <1>3, FS_CardinalityType

LEMMA InitSafety == ASSUME Init PROVE SafetyInv
<1>1. Active = {} /\ Counted = {}
  BY DEF Init, Active, Counted
<1>2. Cardinality(Active) = 0 /\ Cardinality(Counted) = 0
  BY <1>1, FS_EmptySet
<1>3. SpawnInv /\ MutexInv /\ EncodedInv /\ MergeSeesAllResults
  BY MaxThreadIdsAssumption, ThreadSets
     DEF Init, SpawnInv, MutexInv, EncodedInv, MergeSeesAllResults,
         Encoded, InMutex, AfterPoll, Worker
<1>4. PermitInv /\ CounterExact
  BY <1>2, NumThreadsAssumption DEF Init, PermitInv, CounterExact, Permits
<1> QED BY <1>3, <1>4 DEF SafetyInv

(* Steps that leave main's variables, the threads and the synchronisation
   alone, and do not cross the poll, change nothing the invariant speaks of. *)
LEMMA FrameSafety ==
    ASSUME SafetyInv, UNCHANGED <<mainVars, syncVars, workerVars>>,
           mpc' = mpc \/ (mpc \in AfterPoll /\ mpc' \in AfterPoll)
    PROVE  SafetyInv'
<1>1. Active' = Active /\ Counted' = Counted
  BY DEF workerVars, Active, Counted
<1>2. (mpc' = "create") = (mpc = "create") /\ (mpc' \in AfterPoll) = (mpc \in AfterPoll)
      /\ (mpc' \in {"wait", "create"}) = (mpc \in {"wait", "create"})
  BY DEF AfterPoll
<1>3. SpawnInv' /\ MergeSeesAllResults'
  BY <1>2 DEF SafetyInv, SpawnInv, MergeSeesAllResults, mainVars, workerVars
<1>4. MutexInv' /\ EncodedInv'
  BY DEF SafetyInv, MutexInv, EncodedInv, mainVars, syncVars, workerVars
<1>5. PermitInv' /\ CounterExact'
  BY <1>1, <1>2 DEF SafetyInv, PermitInv, CounterExact, syncVars
<1> QED BY <1>3, <1>4, <1>5 DEF SafetyInv

LEMMA SafetyStepMain ==
    ASSUME TypeInv, SafetyInv, MainNext
    PROVE  SafetyInv'
<1> USE DEF TypeInv
<1>0. MaxThreadIds \in Nat /\ NumThreads \in Nat \ {0}
  BY MaxThreadIdsAssumption, NumThreadsAssumption
<1>1. CASE OpenFile
  <2> DEFINE count == ThreadsPerFile(files[i])
  <2>1. mpc = "file" /\ i \in 1 .. Len(files) /\ count \in 1 .. NumThreads
    BY <1>1, FilesType, ThreadsPerFileType DEF OpenFile, FileInv
  <2>2. UNCHANGED <<files, syncVars, workerVars>> /\ thread_index' = thread_index
    BY <1>1 DEF OpenFile
  <2>3. Active' = Active /\ Counted' = Counted
    BY <2>2 DEF workerVars, Active, Counted
  <2>4. mpc' \in {"wait", "failed"}
    BY <1>1 DEF OpenFile
  <2>5. PermitInv' /\ CounterExact' /\ MergeSeesAllResults' /\ MutexInv'
    BY <2>1, <2>2, <2>3, <2>4
       DEF SafetyInv, PermitInv, CounterExact, MergeSeesAllResults, MutexInv, AfterPoll,
           syncVars, workerVars
  <2> HIDE DEF count
  <2>6. CASE mpc' = "wait"
    <3>1. /\ total_threads + count <= MaxThreadIds
          /\ threads_per_file' = count
          /\ total_threads' = total_threads + count
          /\ j' = 0
      BY <1>1, <2>6 DEF OpenFile, count
    <3>2. \A w \in Worker : wpc[w] # "none" => threads_d'[w] = threads_d[w]
      <4> TAKE w \in Worker
      <4> HAVE wpc[w] # "none"
      <4>1. w \notin total_threads + 1 .. total_threads + count
        BY <2>1 DEF SafetyInv, SpawnInv, TypeOK, Worker
      <4>2. threads_d'[w] = IF w \in total_threads + 1 .. total_threads + count
                            THEN Slice(files[i], w - total_threads - 1, count)
                            ELSE threads_d[w]
        BY <1>1, <2>6 DEF OpenFile, count
      <4> QED BY <4>1, <4>2
    <3>3. EncodedInv'
      BY <2>2, <3>2 DEF SafetyInv, EncodedInv, Encoded, workerVars
    <3>4. SpawnInv'
      BY <1>0, <2>1, <2>2, <2>6, <3>1 DEF SafetyInv, SpawnInv, workerVars, TypeOK
    <3> QED BY <2>5, <3>3, <3>4 DEF SafetyInv
  <2>7. CASE mpc' = "failed"
    <3>1. UNCHANGED <<j, threads_per_file, total_threads, threads_d>>
      BY <1>1, <2>7 DEF OpenFile
    <3>2. EncodedInv' /\ SpawnInv'
      BY <2>1, <2>2, <2>7, <3>1 DEF SafetyInv, EncodedInv, SpawnInv, workerVars
    <3> QED BY <2>5, <3>2 DEF SafetyInv
  <2> QED BY <2>4, <2>6, <2>7
<1>2. CASE SemWait
  <2>1. /\ mpc = "wait" /\ mpc' = "create" /\ thread_s' = thread_s - 1
        /\ UNCHANGED <<mainVars, thread_count_m, threads_done, workerVars>>
    BY <1>2 DEF SemWait
  <2>2. Active' = Active /\ Counted' = Counted
    BY <2>1 DEF workerVars, Active, Counted
  <2>3. PermitInv' /\ CounterExact'
    BY <1>0, <2>1, <2>2, ThreadSets DEF SafetyInv, PermitInv, CounterExact, TypeOK
  <2>4. SpawnInv' /\ MutexInv' /\ EncodedInv' /\ MergeSeesAllResults'
    BY <2>1 DEF SafetyInv, SpawnInv, MutexInv, EncodedInv, MergeSeesAllResults, AfterPoll,
                mainVars, workerVars
  <2> QED BY <2>3, <2>4 DEF SafetyInv
<1>3. CASE CreateThread
  <2> DEFINE w == thread_index + 1
  <2>1. /\ mpc = "create" /\ mpc' \in {"wait", "file", "poll"}
        /\ thread_index' = thread_index + 1 /\ j' = j + 1
        /\ wpc' = [wpc EXCEPT ![w] = "first"]
        /\ start' = [start EXCEPT ![w] = threads_d[w].from]
        /\ (mpc' = "wait") = (j + 1 < threads_per_file)
        /\ UNCHANGED <<threads_per_file, total_threads, threads_d, syncVars, tmp>>
    BY <1>3 DEF CreateThread
  <2>2. w \in Worker /\ w <= total_threads /\ wpc[w] = "none"
    BY <1>0, <2>1 DEF SafetyInv, SpawnInv, TypeOK, Worker
  <2>3. Active' = Active \cup {w} /\ w \notin Active /\ Counted' = Counted
    BY <2>1, <2>2 DEF Active, Counted, TypeOK
  <2>4. Cardinality(Active') = Cardinality(Active) + 1
    BY <2>3, ThreadSets, FS_AddElement
  <2>5. SpawnInv'
    <3>1. \A v \in Worker : wpc'[v] = "none" <=> v > thread_index'
      BY <2>1, <2>2 DEF SafetyInv, SpawnInv, TypeOK, Worker
    <3>2. thread_index + threads_per_file = total_threads + j /\ j < threads_per_file
      BY <2>1 DEF SafetyInv, SpawnInv
    <3>3. total_threads' <= MaxThreadIds
      BY <2>1 DEF SafetyInv, SpawnInv
    <3>4. thread_index' <= total_threads'
      BY <2>1, <3>2 DEF TypeOK
    <3>5. IF mpc' \in {"wait", "create"}
          THEN j' < threads_per_file'
               /\ thread_index' + threads_per_file' = total_threads' + j'
          ELSE thread_index' = total_threads'
      BY <2>1, <3>2 DEF TypeOK
    <3> QED BY <3>1, <3>3, <3>4, <3>5 DEF SpawnInv
  <2>6. MutexInv' /\ EncodedInv'
    BY <2>1, <2>2 DEF SafetyInv, MutexInv, EncodedInv, InMutex, Encoded, TypeOK, syncVars
  <2>7. PermitInv' /\ CounterExact'
    BY <1>0, <2>1, <2>3, <2>4, ThreadSets
       DEF SafetyInv, PermitInv, CounterExact, TypeOK, syncVars
  <2>8. MergeSeesAllResults'
    BY <2>1 DEF MergeSeesAllResults, AfterPoll
  <2> QED BY <2>5, <2>6, <2>7, <2>8 DEF SafetyInv
<1>4. CASE PollAgain
  BY <1>4, FrameSafety DEF PollAgain, vars
<1>5. CASE Poll
  <2>1. /\ mpc = "poll" /\ mpc' = "merge" /\ threads_done = total_threads
        /\ UNCHANGED <<mainVars, syncVars, workerVars>>
    BY <1>5 DEF Poll, AllDone
  <2>2. Active' = Active /\ Counted' = Counted
    BY <2>1 DEF workerVars, Active, Counted
  <2>3. SpawnInv' /\ MutexInv' /\ EncodedInv' /\ PermitInv' /\ CounterExact'
    BY <2>1, <2>2 DEF SafetyInv, SpawnInv, MutexInv, EncodedInv, PermitInv, CounterExact,
                      mainVars, syncVars, workerVars
  <2>4. thread_index = total_threads /\ total_threads \in Nat
    BY <2>1 DEF SafetyInv, SpawnInv, TypeOK
  (* As many threads have counted themselves as exist: they all have.      *)
  <2>5. Counted = 1 .. total_threads
    <3>1. Counted \in SUBSET (1 .. total_threads)
      BY <2>4 DEF SafetyInv, SpawnInv, Counted, Worker
    <3>2. Cardinality(Counted) = total_threads
      BY <2>1 DEF SafetyInv, CounterExact
    <3>3. IsFiniteSet(1 .. total_threads) /\ Cardinality(1 .. total_threads) = total_threads
      BY <2>4, FS_Interval
    <3> QED BY <3>1, <3>2, <3>3, FS_Subset
  <2>6. \A w \in 1 .. total_threads : w \in Worker /\ wpc[w] \in Encoded
    BY <2>5 DEF Counted, Encoded
  <2>7. MergeSeesAllResults'
    BY <2>1, <2>4, <2>6 DEF SafetyInv, EncodedInv, MergeSeesAllResults, mainVars, workerVars
  <2> QED BY <2>3, <2>7 DEF SafetyInv
<1>6. CASE MergeStep \/ MergeEnd \/ WriteEntry \/ WriteNode \/ WriteEnd \/ Exit
  <2>1. UNCHANGED <<mainVars, syncVars, workerVars>>
    BY <1>6 DEF MergeStep, MergeEnd, WriteEntry, WriteNode, WriteEnd, Exit
  <2>2. mpc \in AfterPoll /\ mpc' \in AfterPoll
    BY <1>6 DEF MergeStep, MergeEnd, WriteEntry, WriteNode, WriteEnd, Exit, AfterPoll
  <2> QED BY <2>1, <2>2, FrameSafety
<1> QED BY <1>1, <1>2, <1>3, <1>4, <1>5, <1>6 DEF MainNext

(* What a thread's step does to the sets that the invariant counts.          *)
LEMMA ThreadStepSets ==
    ASSUME TypeInv, NEW w \in Worker, NEW from, NEW to, Go(w, from, to),
           from # "none", from # "returned", to # "none"
    PROVE  /\ Active' = IF to = "returned" THEN Active \ {w} ELSE Active
           /\ w \in Active
           /\ ~(from \in {"unlock", "post"}) /\ to = "unlock"
                => Counted' = Counted \cup {w} /\ w \notin Counted
           /\ (from \in {"unlock", "post"}) = (to \in {"unlock", "post", "returned"})
                => Counted' = Counted
BY DEF TypeInv, TypeOK, Go, Active, Counted

(* A thread only moves forward: what main has seen of it stays seen.         *)
LEMMA ThreadKeepsMain ==
    ASSUME TypeInv, SafetyInv, NEW w \in Worker, NEW from, NEW to, Go(w, from, to),
           from # "none", to # "none", UNCHANGED <<mpc, mainVars>>,
           \/ from = "first" /\ to = "loop" /\ start' = [start EXCEPT ![w] = @ + 1]
           \/ from = "loop" /\ to = "loop" /\ start' = [start EXCEPT ![w] = @ + 1]
           \/ from = "loop" /\ start[w] >= threads_d[w].to /\ start' = start
           \/ from \in Encoded /\ to \in Encoded /\ start' = start
    PROVE  SpawnInv' /\ EncodedInv' /\ MergeSeesAllResults'
<1> USE DEF TypeInv
<1>1. wpc' = [wpc EXCEPT ![w] = to] /\ wpc[w] = from
  BY DEF Go
<1>2. SpawnInv'
  BY <1>1 DEF SafetyInv, SpawnInv, mainVars, TypeOK
<1>3. EncodedInv'
  BY <1>1 DEF SafetyInv, EncodedInv, Encoded, mainVars, TypeOK
<1>4. MergeSeesAllResults'
  <2> SUFFICES ASSUME mpc \in AfterPoll
               PROVE  /\ thread_index = total_threads
                      /\ \A v \in 1 .. total_threads :
                            wpc'[v] \in Encoded /\ start'[v] >= threads_d[v].to
    BY DEF MergeSeesAllResults, mainVars
  <2>1. /\ thread_index = total_threads /\ total_threads <= MaxThreadIds
        /\ \A v \in 1 .. total_threads :
              v \in Worker /\ wpc[v] \in Encoded /\ start[v] >= threads_d[v].to
    <3>1. /\ thread_index = total_threads /\ total_threads <= MaxThreadIds
          /\ \A v \in 1 .. total_threads :
                wpc[v] \in Encoded /\ start[v] >= threads_d[v].to
      BY DEF SafetyInv, SpawnInv, MergeSeesAllResults
    <3>2. 1 .. total_threads \subseteq Worker
      BY <3>1, MaxThreadIdsAssumption DEF Worker, TypeOK
    <3> QED BY <3>1, <3>2
  <2>2. w \in 1 .. total_threads
    BY <1>1, <2>1 DEF SafetyInv, SpawnInv, Worker, TypeOK
  <2>3. from \in Encoded /\ to \in Encoded /\ start' = start
    BY <1>1, <2>1, <2>2 DEF Encoded
  <2> QED BY <1>1, <2>1, <2>3 DEF TypeOK
<1> QED BY <1>2, <1>3, <1>4

LEMMA SafetyStepThread ==
    ASSUME TypeInv, SafetyInv, NEW w \in Worker, ThreadRle(w)
    PROVE  SafetyInv'
<1> USE DEF TypeInv
<1>0. IsFiniteSet(Active) /\ IsFiniteSet(Counted) /\ Cardinality(Active) \in Nat
      /\ Cardinality(Counted) \in Nat /\ NULL \notin Worker /\ NumThreads \in Nat
  BY ThreadSets, NumThreadsAssumption
<1>1. CASE FirstByte(w) \/ NextByte(w) \/ LastRun(w)
  <2>1. /\ Go(w, "first", "loop") \/ Go(w, "loop", "loop") \/ Go(w, "loop", "lock")
        /\ UNCHANGED <<mpc, mainVars, syncVars, tmp>>
    BY <1>1 DEF FirstByte, NextByte, LastRun
  <2>2. Active' = Active /\ Counted' = Counted
    BY <2>1, ThreadStepSets
  <2>3. SpawnInv' /\ EncodedInv' /\ MergeSeesAllResults'
    <3>1. CASE FirstByte(w)
      BY <2>1, <3>1, ThreadKeepsMain DEF FirstByte
    <3>2. CASE NextByte(w)
      BY <2>1, <3>2, ThreadKeepsMain DEF NextByte
    <3>3. CASE LastRun(w)
      BY <2>1, <3>3, ThreadKeepsMain DEF LastRun
    <3> QED BY <1>1, <3>1, <3>2, <3>3
  <2>4. MutexInv'
    BY <2>1 DEF SafetyInv, MutexInv, InMutex, Go, TypeOK, syncVars
  <2>5. PermitInv' /\ CounterExact'
    BY <2>1, <2>2 DEF SafetyInv, PermitInv, CounterExact, syncVars
  <2> QED BY <2>3, <2>4, <2>5 DEF SafetyInv
<1>2. CASE Lock(w)
  <2>1. /\ Go(w, "lock", "load") /\ thread_count_m = NULL /\ thread_count_m' = w
        /\ UNCHANGED <<mpc, mainVars, thread_s, threads_done, start, tmp>>
    BY <1>2 DEF Lock, MutexFree
  <2>2. Active' = Active /\ Counted' = Counted
    BY <2>1, ThreadStepSets
  <2>3. SpawnInv' /\ EncodedInv' /\ MergeSeesAllResults'
    BY <2>1, ThreadKeepsMain DEF Encoded
  <2>4. MutexInv'
    <3>1. \A v \in Worker : wpc[v] \notin InMutex
      BY <1>0, <2>1 DEF SafetyInv, MutexInv
    <3> QED BY <2>1, <3>1 DEF MutexInv, InMutex, Go, TypeOK
  <2>5. PermitInv' /\ CounterExact'
    BY <2>1, <2>2 DEF SafetyInv, PermitInv, CounterExact
  <2> QED BY <2>3, <2>4, <2>5 DEF SafetyInv
<1>3. CASE LoadDone(w)
  <2>1. /\ Go(w, "load", "store") /\ tmp' = [tmp EXCEPT ![w] = threads_done]
        /\ UNCHANGED <<mpc, mainVars, syncVars, start>>
    BY <1>3 DEF LoadDone
  <2>2. Active' = Active /\ Counted' = Counted
    BY <2>1, ThreadStepSets
  <2>3. SpawnInv' /\ EncodedInv' /\ MergeSeesAllResults'
    BY <2>1, ThreadKeepsMain DEF Encoded
  <2>4. MutexInv'
    BY <2>1 DEF SafetyInv, MutexInv, InMutex, Go, TypeOK, syncVars
  <2>5. PermitInv' /\ CounterExact'
    BY <2>1, <2>2 DEF SafetyInv, PermitInv, CounterExact, syncVars
  <2> QED BY <2>3, <2>4, <2>5 DEF SafetyInv
<1>4. CASE StoreDone(w)
  <2>1. /\ Go(w, "store", "unlock") /\ threads_done' = tmp[w] + 1
        /\ UNCHANGED <<mpc, mainVars, thread_s, thread_count_m, start, tmp>>
    BY <1>4 DEF StoreDone
  <2>2. Active' = Active /\ Counted' = Counted \cup {w} /\ w \notin Counted
    BY <2>1, ThreadStepSets
  <2>3. SpawnInv' /\ EncodedInv' /\ MergeSeesAllResults'
    BY <2>1, ThreadKeepsMain DEF Encoded
  <2>4. tmp[w] = threads_done /\ thread_count_m = w
    BY <2>1 DEF SafetyInv, MutexInv, InMutex, Go
  (* No other thread is between its load and its store.                    *)
  <2>5. \A v \in Worker : v # w => wpc[v] \notin InMutex
    BY <2>4 DEF SafetyInv, MutexInv
  <2>6. MutexInv'
    BY <2>1, <2>4, <2>5 DEF MutexInv, InMutex, Go, TypeOK
  <2>7. Cardinality(Counted') = Cardinality(Counted) + 1
    BY <1>0, <2>2, FS_AddElement
  <2>8. PermitInv' /\ CounterExact'
    BY <2>1, <2>2, <2>4, <2>7 DEF SafetyInv, PermitInv, CounterExact
  <2> QED BY <2>3, <2>6, <2>8 DEF SafetyInv
<1>5. CASE Unlock(w)
  <2>1. /\ Go(w, "unlock", "post") /\ thread_count_m' = NULL
        /\ UNCHANGED <<mpc, mainVars, thread_s, threads_done, start, tmp>>
    BY <1>5 DEF Unlock
  <2>2. Active' = Active /\ Counted' = Counted
    BY <2>1, ThreadStepSets
  <2>3. SpawnInv' /\ EncodedInv' /\ MergeSeesAllResults'
    BY <2>1, ThreadKeepsMain DEF Encoded
  <2>4. MutexInv'
    <3>1. \A v \in Worker : v # w => wpc[v] \notin InMutex
      BY <2>1 DEF SafetyInv, MutexInv, InMutex, Go
    <3> QED BY <1>0, <2>1, <3>1 DEF MutexInv, InMutex, Go, TypeOK
  <2>5. PermitInv' /\ CounterExact'
    BY <2>1, <2>2 DEF SafetyInv, PermitInv, CounterExact
  <2> QED BY <2>3, <2>4, <2>5 DEF SafetyInv
<1>6. CASE SemPost(w)
  <2>1. /\ Go(w, "post", "returned") /\ thread_s' = thread_s + 1
        /\ UNCHANGED <<mpc, mainVars, thread_count_m, threads_done, start, tmp>>
    BY <1>6 DEF SemPost
  <2>2. Active' = Active \ {w} /\ w \in Active /\ Counted' = Counted
    BY <2>1, ThreadStepSets
  <2>3. SpawnInv' /\ EncodedInv' /\ MergeSeesAllResults'
    BY <2>1, ThreadKeepsMain DEF Encoded
  <2>4. MutexInv'
    BY <2>1 DEF SafetyInv, MutexInv, InMutex, Go, TypeOK
  <2>5. Cardinality(Active') = Cardinality(Active) - 1
    BY <1>0, <2>2, FS_RemoveElement
  <2>6. PermitInv' /\ CounterExact'
    BY <1>0, <2>1, <2>2, <2>5 DEF SafetyInv, PermitInv, CounterExact, TypeOK
  <2> QED BY <2>3, <2>4, <2>6 DEF SafetyInv
<1> QED BY <1>1, <1>2, <1>3, <1>4, <1>5, <1>6 DEF ThreadRle

LEMMA SafetyStep == TypeInv /\ SafetyInv /\ [Next]_vars => SafetyInv'
<1> SUFFICES ASSUME TypeInv, SafetyInv, [Next]_vars PROVE SafetyInv'
  OBVIOUS
<1>1. CASE UNCHANGED vars
  BY <1>1, FrameSafety DEF vars
<1>2. CASE Next
  BY <1>1, <1>2, SafetyStepMain, SafetyStepThread DEF Next, Terminated
<1> QED BY <1>1, <1>2

(* The inductive invariant of the protocol holds in every execution.         *)
THEOREM SafetyCorrect == Spec => [](TypeInv /\ SafetyInv)
<1>1. Init => TypeInv /\ SafetyInv
  BY InitType, InitSafety
<1>2. TypeInv /\ SafetyInv /\ [Next]_vars => (TypeInv /\ SafetyInv)'
  BY TypeStep, SafetyStep
<1> QED BY <1>1, <1>2, PTL DEF Spec

(* No increment of threads_done is lost, whatever the interleaving.          *)
THEOREM NoLostIncrement == Spec => []CounterExact
<1>1. SafetyInv => CounterExact
  BY DEF SafetyInv
<1> QED BY <1>1, SafetyCorrect, PTL

(* merge reads only finished result nodes, and all of them.                  *)
THEOREM MergeAfterAllResults == Spec => []MergeSeesAllResults
<1>1. SafetyInv => MergeSeesAllResults
  BY DEF SafetyInv
<1> QED BY <1>1, SafetyCorrect, PTL

(* The semaphore bounds the threads at work by num_threads.                  *)
THEOREM SemaphoreGates == Spec => []AtMostNumThreads
<1>1. TypeInv /\ SafetyInv => AtMostNumThreads
  <2> SUFFICES ASSUME TypeInv, SafetyInv PROVE AtMostNumThreads
    OBVIOUS
  <2>1. thread_s \in Nat /\ Cardinality(Active) \in Nat /\ NumThreads \in Nat
    BY ThreadSets, NumThreadsAssumption DEF TypeInv, TypeOK
  <2>2. thread_s + Cardinality(Active) + (IF mpc = "create" THEN 1 ELSE 0) = NumThreads
    BY DEF SafetyInv, PermitInv
  <2> QED BY <2>1, <2>2 DEF AtMostNumThreads
<1> QED BY <1>1, SafetyCorrect, PTL


-----------------------------------------------------------------------------
(* What the threads encode: the slices of the files opened so far, one after
   the other, are these files. *)

(* C's integer division again: a quotient is no larger than what is divided,
   and not zero when the divisor is no larger. *)
LEMMA QuotientSmall ==
    ASSUME NEW len \in Nat, NEW count \in Nat \ {0}
    PROVE  /\ len \div count \in Nat /\ len \div count <= len
           /\ count <= len => len \div count >= 1
<1>1. PICK q : q = len \div count
  OBVIOUS
<1>2. PICK r : r = len % count
  OBVIOUS
<1>3. q \in Nat /\ r \in 0 .. count - 1 /\ len = count * q + r
  BY <1>1, <1>2, Z3
<1>4. q <= count * q
  BY <1>3, Z3
<1>5. count <= len => q >= 1
  <2>1. ASSUME q = 0 PROVE len < count
    BY <1>3, <2>1
  <2> QED BY <1>3, <2>1
<1> QED BY <1>1, <1>3, <1>4, <1>5

(* No thread of a file with a byte in it has an empty slice: there are no more
   threads than bytes (line 264). *)
LEMMA SliceNotEmpty ==
    ASSUME NEW f \in Seq(Char), f # <<>>, NEW n \in 0 .. ThreadsPerFile(f) - 1
    PROVE  Slice(f, n, ThreadsPerFile(f)).from < Slice(f, n, ThreadsPerFile(f)).to
<1>1. PICK count : count = ThreadsPerFile(f)
  OBVIOUS
<1>2. PICK len : len = Len(f)
  OBVIOUS
<1>3. f # Missing /\ len \in Nat /\ len >= 1 /\ FileSize(f) = len
  BY <1>2, FileListsAssumption DEF FileSize
<1>4. count \in Nat \ {0} /\ count <= len
  <2>1. len \div Threshold \in Nat /\ len \div Threshold <= len
    BY <1>3, ThresholdAssumption, QuotientSmall
  <2>2. count \in 1 .. NumThreads
    BY <1>1, ThreadsPerFileType
  <2>3. count <= 1 \/ count <= len \div Threshold
    BY <1>1, <1>2, <1>3, <2>1, NumThreadsAssumption DEF ThreadsPerFile
  <2> QED BY <1>3, <2>1, <2>2, <2>3, NumThreadsAssumption
<1>5. PICK q : q = len \div count
  OBVIOUS
<1>6. q \in Nat /\ q >= 1 /\ q * count <= len
  <2>1. count \in 0 .. count
    BY <1>4
  <2> QED BY <1>3, <1>4, <1>5, <2>1, QuotientSmall, ChunkBound
<1>7. n \in Nat /\ q * n \in Nat /\ q * (n + 1) = q * n + q
  BY <1>1, <1>4, <1>6, Z3
<1>8. Slice(f, n, count).from = q * n
      /\ Slice(f, n, count).to = IF n = count - 1 THEN len ELSE q * (n + 1)
  BY <1>3, <1>5 DEF Slice
<1>9. CASE n = count - 1
  <2>1. q * count = q * n + q
    BY <1>4, <1>7, <1>9
  <2> QED BY <1>1, <1>3, <1>6, <1>7, <1>8, <1>9, <2>1
<1>10. CASE n # count - 1
  BY <1>1, <1>6, <1>7, <1>8, <1>10
<1> QED BY <1>9, <1>10

(* The slices of a file, behind what comes before it.                        *)
LEMMA SlicesText ==
    ASSUME NEW f \in Seq(Char), NEW count \in Nat \ {0}, NEW cut \in Seq(Seq(Char)),
           NEW n \in Nat, Len(cut) = n + count,
           \A m \in 0 .. count - 1 :
              cut[n + m + 1] = SubSeq(f, Slice(f, m, count).from + 1, Slice(f, m, count).to)
    PROVE  TextOf(cut) = UpTo(cut, n) \o f
<1> DEFINE To(m) == Slice(f, m - 1, count).to
           T == {m \in 1 .. count : UpTo(cut, n + m) # UpTo(cut, n) \o SubSeq(f, 1, To(m))}
<1>0. n + count \in 0 .. Len(cut) /\ n \in 0 .. Len(cut) /\ count \in 1 .. count
  OBVIOUS
<1>1. /\ Slice(f, 0, count).from = 0 /\ To(count) = Len(f)
      /\ \A m \in 0 .. count - 2 : Slice(f, m, count).to = Slice(f, m + 1, count).from
      /\ \A m \in 0 .. count - 1 :
            /\ Slice(f, m, count).from \in Nat /\ Slice(f, m, count).to \in Nat
            /\ Slice(f, m, count).from <= Slice(f, m, count).to
            /\ Slice(f, m, count).to <= Len(f)
  BY SlicesPartition, Zenon
<1>2. ASSUME T = {} PROVE TextOf(cut) = UpTo(cut, n) \o f
  <2>1. UpTo(cut, n + count) = UpTo(cut, n) \o SubSeq(f, 1, To(count))
    BY <1>0, <1>2
  <2>2. UpTo(cut, n + count) = FlattenSeq(cut)
    BY <1>0, UpToFacts
  <2>3. SubSeq(f, 1, Len(f)) = f
    BY SubSeqFull
  <2> QED BY <1>1, <2>1, <2>2, <2>3 DEF TextOf
<1> SUFFICES ASSUME T # {} PROVE FALSE
  BY <1>2
<1>3. T \in SUBSET Nat
      /\ \A m \in 1 .. count :
            m \in T <=> UpTo(cut, n + m) # UpTo(cut, n) \o SubSeq(f, 1, To(m))
  <2>1. \A m \in T : m \in 1 .. count
    OBVIOUS
  <2>2. T \in SUBSET Nat
    BY <2>1
  <2> QED BY <2>2, Zenon
<1>4. \A m \in T : m \in 1 .. count
  OBVIOUS
<1> HIDE DEF T
<1>5. PICK m \in T : \A x \in T : m <= x
  BY <1>3, LeastNat
<1>6. m \in 1 .. count /\ UpTo(cut, n + m) # UpTo(cut, n) \o SubSeq(f, 1, To(m))
  BY <1>3, <1>4
<1>7. m - 1 \in 0 .. count - 1 /\ n + m \in 0 .. Len(cut) /\ n + m # 0
      /\ (n + m) - 1 = n + (m - 1) /\ n + (m - 1) + 1 = n + m /\ m \in Nat
  BY <1>6
<1>8. PICK e : e = Slice(f, m - 1, count).from
  OBVIOUS
<1>9. PICK e1 : e1 = To(m)
  OBVIOUS
<1>10. e \in Nat /\ e1 \in Nat /\ e <= e1 /\ e1 <= Len(f)
  BY <1>1, <1>7, <1>8, <1>9
<1>11. cut[n + m] = SubSeq(f, e + 1, e1)
  <2>1. cut[n + (m - 1) + 1] = SubSeq(f, Slice(f, m - 1, count).from + 1, Slice(f, m - 1, count).to)
    BY <1>7
  <2> QED BY <1>7, <1>8, <1>9, <2>1
<1>12. UpTo(cut, n + m) = UpTo(cut, n + (m - 1)) \o SubSeq(f, e + 1, e1)
  BY <1>7, <1>11, UpToFacts
<1>13. UpTo(cut, n + (m - 1)) = UpTo(cut, n) \o SubSeq(f, 1, e)
  <2>1. CASE m = 1
    <3>1. e = 0 /\ n + (m - 1) = n
      BY <1>1, <1>8, <2>1
    <3>2. SubSeq(f, 1, 0) = <<>>
      BY SubSeqEmpty
    <3>3. UpTo(cut, n) \in Seq(Char)
      BY <1>0, UpToFacts
    <3>4. UpTo(cut, n) \o <<>> = UpTo(cut, n)
      BY <3>3, ConcatEmptySeq
    <3> QED BY <3>1, <3>2, <3>4
  <2>2. CASE m # 1
    <3>1. m - 1 \in 1 .. count /\ ~(m <= m - 1) /\ (m - 1) - 1 \in 0 .. count - 2
          /\ ((m - 1) - 1) + 1 = m - 1
      BY <1>6, <2>2
    <3>2. m - 1 \notin T
      BY <1>5, <3>1
    <3>3. UpTo(cut, n + (m - 1)) = UpTo(cut, n) \o SubSeq(f, 1, To(m - 1))
      BY <1>3, <3>1, <3>2
    <3>4. To(m - 1) = e
      BY <1>1, <1>8, <3>1
    <3> QED BY <3>3, <3>4
  <2> QED BY <2>1, <2>2
<1>14. SubSeq(f, 1, e) \o SubSeq(f, e + 1, e1) = SubSeq(f, 1, e1)
  <2>1. 1 \in 1 .. Len(f) + 1 /\ e \in 1 - 1 .. Len(f) /\ e1 \in e .. Len(f)
    BY <1>10
  <2> QED BY <2>1, ConcatAdjacentSubSeq
<1>15. PICK u : u = UpTo(cut, n)
  OBVIOUS
<1>16. PICK y : y = SubSeq(f, 1, e)
  OBVIOUS
<1>17. PICK z : z = SubSeq(f, e + 1, e1)
  OBVIOUS
<1>18. u \in Seq(Char) /\ y \in Seq(Char) /\ z \in Seq(Char)
  <2>1. u \in Seq(Char)
    BY <1>0, <1>15, UpToFacts
  <2>2. y \in Seq(Char) /\ z \in Seq(Char)
    BY <1>10, <1>16, <1>17
  <2> QED BY <2>1, <2>2
<1>19. (u \o y) \o z = u \o (y \o z)
  BY <1>18, Regroup, Zenon DEF Regroups
<1>20. UpTo(cut, n + m) = (u \o y) \o z
  BY <1>12, <1>13, <1>15, <1>16, <1>17
<1>21. UpTo(cut, n + m) = u \o SubSeq(f, 1, e1)
  BY <1>14, <1>16, <1>17, <1>19, <1>20
<1> QED BY <1>6, <1>9, <1>15, <1>21


-----------------------------------------------------------------------------
(* How far main is: the files opened so far, which are cut into the slices of
   the threads created or about to be. *)
Opening == {"file", "wait", "create", "failed"}
Opened  == IF mpc \in {"wait", "create"} THEN i ELSE i - 1

SliceText(w) == SubSeq(threads_d[w].file, threads_d[w].from + 1, threads_d[w].to)
Cut == [w \in 1 .. total_threads |-> SliceText(w)]

(* A thread's slice is of a file opened, and has a byte if that has one.     *)
SliceOf(w, f) == /\ threads_d[w].file = f
                 /\ threads_d[w].from <= threads_d[w].to
                 /\ f # <<>> => threads_d[w].from < threads_d[w].to

CutInv ==
    /\ 1 <= i /\ i <= Len(files) + 1
    /\ mpc \in Opening => i <= Len(files)
    /\ mpc \notin Opening => i = Len(files) + 1
    /\ \A n \in 1 .. Opened : files[n] # Missing
    /\ TextOf(Cut) = TextOf(SubSeq(files, 1, Opened))
    /\ \A w \in 1 .. total_threads : \E n \in 1 .. Opened : SliceOf(w, files[n])
    /\ Opened = 0 => total_threads = 0
    /\ Opened # 0 => total_threads # 0 /\ SliceOf(1, files[1])

LEMMA CutFacts ==
    ASSUME TypeInv, SpawnInv, CutInv
    PROVE  /\ Opened \in 0 .. Len(files) /\ Opened \in Nat
           /\ total_threads \in Nat /\ total_threads <= MaxThreadIds /\ MaxThreadIds \in Nat
           /\ \A w \in 1 .. total_threads : w \in Worker /\ Cut[w] = SliceText(w)
           /\ Cut \in Seq(Seq(Char)) /\ Len(Cut) = total_threads
<1>1. /\ i \in Nat /\ total_threads \in Nat /\ MaxThreadIds \in Nat
      /\ threads_d \in [Worker -> [file : Seq(Char), from : Nat, to : Nat]]
  BY MaxThreadIdsAssumption DEF TypeInv, TypeOK
<1>2. Opened \in 0 .. Len(files) /\ Opened \in Nat
  <2>1. Len(files) \in Nat
    BY FilesType DEF TypeInv
  <2> QED BY <1>1, <2>1 DEF CutInv, Opened, Opening
<1>3. total_threads <= MaxThreadIds
  BY DEF SpawnInv
<1>4. \A w \in 1 .. total_threads : w \in Worker
  BY <1>1, <1>3 DEF Worker
<1>5. \A w \in 1 .. total_threads : SliceText(w) \in Seq(Char)
  <2> SUFFICES ASSUME NEW w \in 1 .. total_threads PROVE SliceText(w) \in Seq(Char)
    OBVIOUS
  <2>1. PICK f : f = threads_d[w].file
    OBVIOUS
  <2>2. PICK a : a = threads_d[w].from
    OBVIOUS
  <2>3. PICK b : b = threads_d[w].to
    OBVIOUS
  <2>4. f \in Seq(Char) /\ a \in Nat /\ b \in Nat /\ b <= Len(f)
    BY <1>1, <1>4, <2>1, <2>2, <2>3 DEF TypeInv, SliceInv
  <2>5. \A n \in a + 1 .. b : f[n] \in Char
    BY <2>4
  <2>6. SubSeq(f, a + 1, b) \in Seq(Char)
    BY <2>4, <2>5, SubSeqProperties
  <2> QED BY <2>1, <2>2, <2>3, <2>6 DEF SliceText
<1>6. Cut \in Seq(Seq(Char)) /\ Len(Cut) = total_threads
      /\ \A w \in 1 .. total_threads : Cut[w] = SliceText(w)
  BY <1>1, <1>5 DEF Cut
<1> QED BY <1>1, <1>2, <1>3, <1>4, <1>6

LEMMA InitCut == ASSUME Init PROVE CutInv
<1>1. TypeInv
  BY InitType
<1>2. Len(files) \in Nat /\ Len(files) > 0 /\ files \in Seq(Seq(Char) \cup {Missing})
  BY <1>1, FilesType DEF TypeInv
<1>3. i = 1 /\ mpc = "file" /\ total_threads = 0 /\ Opened = 0
  BY DEF Init, Opened
<1>4. Cut = <<>> /\ SubSeq(files, 1, 0) = <<>>
  <2>1. Cut = [w \in {} |-> SliceText(w)]
    BY <1>3 DEF Cut
  <2>2. SubSeq(files, 1, 0) = <<>>
    BY SubSeqEmpty
  <2> QED BY <2>1, <2>2
<1>5. TextOf(Cut) = TextOf(SubSeq(files, 1, Opened))
  BY <1>3, <1>4
<1>6. 1 <= i /\ i <= Len(files) + 1 /\ i <= Len(files)
  BY <1>2, <1>3
<1>7. 1 .. Opened = {} /\ 1 .. total_threads = {}
  BY <1>3
<1> QED BY <1>3, <1>5, <1>6, <1>7 DEF CutInv, Opening

(* Steps that open no file.                                                  *)
LEMMA FrameCut ==
    ASSUME CutInv, UNCHANGED <<files, total_threads, threads_d>>,
           Opened' = Opened, i' \in {i, i + 1}, TypeInv,
           mpc' \in Opening => i' <= Len(files),
           mpc' \notin Opening => i' = Len(files) + 1
    PROVE  CutInv'
<1>1. Cut' = Cut
  BY DEF Cut, SliceText
<1>2. \A w, f : SliceOf(w, f)' <=> SliceOf(w, f)
  BY DEF SliceOf
<1>3. i \in Nat /\ Len(files) \in Nat
  BY FilesType DEF TypeInv, TypeOK
<1>4. 1 <= i' /\ i' <= Len(files) + 1
  BY <1>3 DEF CutInv
<1> QED BY <1>1, <1>2, <1>4 DEF CutInv

LEMMA CutOpenFile ==
    ASSUME TypeInv, SpawnInv, CutInv, OpenFile, TypeInv', SpawnInv'
    PROVE  CutInv'
<1>1. PICK f : f = files[i]
  OBVIOUS
<1>2. PICK count : count = ThreadsPerFile(f)
  OBVIOUS
<1>3. PICK n : n = total_threads
  OBVIOUS
<1>4. mpc = "file" /\ files' = files /\ i' = i /\ i \in 1 .. Len(files) /\ i \in Nat
      /\ Len(files) \in Nat
  BY FilesType DEF OpenFile, TypeInv, TypeOK, FileInv
<1>5. CASE f = Missing
  <2>1. mpc' = "failed" /\ UNCHANGED <<i, total_threads, threads_d, files>>
    BY <1>1, <1>5 DEF OpenFile
  <2>2. Opened' = Opened
    BY <1>4, <2>1 DEF Opened
  <2> QED BY <1>4, <2>1, <2>2, FrameCut DEF Opening
<1>6. CASE f # Missing
  <2>1. f \in Seq(Char) /\ count \in Nat \ {0} /\ count \in 1 .. NumThreads
    <3>1. f \in Seq(Char) \cup {Missing}
      BY <1>1, <1>4, FilesType DEF TypeInv
    <3>2. count \in 1 .. NumThreads
      BY <1>2, <3>1, ThreadsPerFileType
    <3> QED BY <1>6, <3>1, <3>2, NumThreadsAssumption
  <2>2. /\ total_threads' = n + count /\ mpc' = "wait"
        /\ threads_d' = [w \in Worker |->
               IF w \in n + 1 .. n + count THEN Slice(f, w - n - 1, count) ELSE threads_d[w]]
    BY <1>1, <1>2, <1>3, <1>6 DEF OpenFile
  <2>3. Opened = i - 1 /\ Opened' = i
    BY <1>4, <2>2 DEF Opened
  <2>4. n \in Nat /\ MaxThreadIds \in Nat /\ Cut \in Seq(Seq(Char)) /\ Len(Cut) = n
        /\ (\A w \in 1 .. n : w \in Worker /\ Cut[w] = SliceText(w))
    BY <1>3, CutFacts
  <2>5. n + count <= MaxThreadIds
    BY <2>2 DEF SpawnInv
  <2>6. \A w \in 1 .. n : threads_d'[w] = threads_d[w]
    <3>1. \A w \in 1 .. n : w \notin n + 1 .. n + count
      BY <2>1, <2>4
    <3> QED BY <2>2, <2>4, <3>1
  <2>7. \A m \in 0 .. count - 1 : /\ n + m + 1 \in 1 .. n + count
                                  /\ threads_d'[n + m + 1] = Slice(f, m, count)
    <3> SUFFICES ASSUME NEW m \in 0 .. count - 1
                 PROVE  /\ n + m + 1 \in 1 .. n + count
                        /\ threads_d'[n + m + 1] = Slice(f, m, count)
      OBVIOUS
    <3>1. n + m + 1 \in n + 1 .. n + count /\ n + m + 1 \in Worker /\ (n + m + 1) - n - 1 = m
          /\ n + m + 1 \in 1 .. n + count
      BY <2>1, <2>4, <2>5 DEF Worker
    <3> QED BY <2>2, <3>1
  <2>8. \A w \in 1 .. n + count : w \in 1 .. n \/ \E m \in 0 .. count - 1 : w = n + m + 1
    <3> SUFFICES ASSUME NEW w \in 1 .. n + count, w \notin 1 .. n
                 PROVE  \E m \in 0 .. count - 1 : w = n + m + 1
      OBVIOUS
    <3>1. w - n - 1 \in 0 .. count - 1 /\ w = n + (w - n - 1) + 1
      BY <2>1, <2>4
    <3> QED BY <3>1
  <2>9. PICK cut : cut = [w \in 1 .. n + count |->
            SubSeq(threads_d'[w].file, threads_d'[w].from + 1, threads_d'[w].to)]
    OBVIOUS
  <2>10. Cut' = cut
    BY <2>2, <2>9 DEF Cut, SliceText
  <2>11. \A w \in 1 .. n : cut[w] = Cut[w]
    <3>1. \A w \in 1 .. n : w \in 1 .. n + count
      BY <2>1, <2>4
    <3> QED BY <2>4, <2>6, <2>9, <3>1 DEF SliceText
  <2>12. \A m \in 0 .. count - 1 :
            cut[n + m + 1] = SubSeq(f, Slice(f, m, count).from + 1, Slice(f, m, count).to)
    <3>1. \A m \in 0 .. count - 1 : Slice(f, m, count).file = f
      BY DEF Slice
    <3> QED BY <2>7, <2>9, <3>1
  <2>13. \A m \in 0 .. count - 1 :
            /\ Slice(f, m, count).file = f
            /\ Slice(f, m, count).from \in Nat /\ Slice(f, m, count).to \in Nat
            /\ Slice(f, m, count).from <= Slice(f, m, count).to
            /\ Slice(f, m, count).to <= Len(f)
    BY <2>1, SlicesPartition
  <2>14. cut \in Seq(Seq(Char)) /\ Len(cut) = n + count
    <3>1. ASSUME NEW m \in 0 .. count - 1 PROVE cut[n + m + 1] \in Seq(Char)
      <4>1. PICK a : a = Slice(f, m, count).from
        OBVIOUS
      <4>2. PICK b : b = Slice(f, m, count).to
        OBVIOUS
      <4>3. a \in Nat /\ b \in Nat /\ b <= Len(f)
        BY <2>13, <4>1, <4>2
      <4>4. \A l \in a + 1 .. b : f[l] \in Char
        BY <2>1, <4>3
      <4>5. SubSeq(f, a + 1, b) \in Seq(Char)
        BY <4>3, <4>4, SubSeqProperties
      <4> QED BY <2>12, <4>1, <4>2, <4>5
    <3>2. \A w \in 1 .. n : cut[w] \in Seq(Char)
      BY <2>4, <2>11
    <3>3. \A w \in 1 .. n + count : cut[w] \in Seq(Char)
      BY <2>8, <3>1, <3>2
    <3>4. n + count \in Nat
      BY <2>1, <2>4
    <3>5. cut \in [1 .. n + count -> Seq(Char)]
      BY <2>9, <3>3
    <3> QED BY <3>4, <3>5
  <2>15. TextOf(cut) = UpTo(cut, n) \o f
    BY <2>1, <2>4, <2>12, <2>14, SlicesText
  <2>16. UpTo(cut, n) = TextOf(Cut)
    <3>1. n \in 0 .. Len(cut) /\ n \in 0 .. Len(Cut) /\ n = Len(Cut)
      BY <2>1, <2>4, <2>14
    <3>2. UpTo(cut, n) = UpTo(Cut, n)
      BY <2>4, <2>11, <2>14, <3>1, UpToSame
    <3>3. UpTo(Cut, n) = FlattenSeq(Cut)
      BY <2>4, <3>1, UpToFacts
    <3> QED BY <3>2, <3>3 DEF TextOf
  <2>17. \A m \in 1 .. i : files[m] # Missing
    <3>1. \A m \in 1 .. i : m \in 1 .. i - 1 \/ m = i
      BY <1>4
    <3> QED BY <1>1, <1>6, <2>3, <3>1 DEF CutInv
  <2>18. TextOf(SubSeq(files, 1, i)) = TextOf(SubSeq(files, 1, i - 1)) \o f
    <3>1. files \in Seq(Seq(Char) \cup {Missing}) /\ i \in 0 .. Len(files) /\ i # 0
      BY <1>4, FilesType DEF TypeInv
    <3>2. \A m \in 1 .. i : files[m] \in Seq(Char)
      <4>1. \A m \in 1 .. i : m \in 1 .. Len(files)
        BY <1>4
      <4>2. \A m \in 1 .. Len(files) : files[m] \in Seq(Char) \cup {Missing}
        BY FilesType DEF TypeInv
      <4> QED BY <2>17, <4>1, <4>2
    <3> QED BY <1>1, <3>1, <3>2, TextUpTo
  <2>19. TextOf(Cut') = TextOf(SubSeq(files, 1, i))
    BY <2>3, <2>10, <2>15, <2>16, <2>18 DEF CutInv
  <2>20. \A w \in 1 .. n : \A g : SliceOf(w, g)' <=> SliceOf(w, g)
    BY <2>6 DEF SliceOf
  <2>21. \A m \in 0 .. count - 1 : SliceOf(n + m + 1, f)'
    <3>1. \A m \in 0 .. count - 1 :
             f # <<>> => Slice(f, m, count).from < Slice(f, m, count).to
      BY <1>2, <2>1, SliceNotEmpty
    <3> QED BY <2>7, <2>13, <3>1 DEF SliceOf
  <2>22. \A w \in 1 .. n + count : \E m \in 1 .. i : SliceOf(w, files[m])'
    <3> SUFFICES ASSUME NEW w \in 1 .. n + count
                 PROVE  \E m \in 1 .. i : SliceOf(w, files[m])'
      OBVIOUS
    <3>1. CASE w \in 1 .. n
      <4>1. PICK m \in 1 .. i - 1 : SliceOf(w, files[m])
        BY <1>3, <2>3, <3>1 DEF CutInv
      <4>2. m \in 1 .. i
        BY <1>4
      <4> QED BY <1>4, <2>20, <3>1, <4>1, <4>2
    <3>2. CASE w \notin 1 .. n
      <4>1. SliceOf(w, f)'
        BY <2>8, <2>21, <3>2
      <4>2. i \in 1 .. i
        BY <1>4
      <4> QED BY <1>1, <1>4, <4>1, <4>2
    <3> QED BY <3>1, <3>2
  <2>23. n + count # 0 /\ SliceOf(1, files[1])'
    <3>1. CASE n = 0
      <4>1. i = 1
        BY <1>3, <1>4, <2>3, <3>1 DEF CutInv
      <4>2. 0 \in 0 .. count - 1 /\ n + 0 + 1 = 1 /\ n + count # 0
        BY <2>1, <3>1
      <4> QED BY <1>1, <1>4, <2>21, <4>1, <4>2
    <3>2. CASE n # 0
      <4>1. 1 \in 1 .. n /\ n + count # 0
        BY <2>1, <2>4, <3>2
      <4>2. SliceOf(1, files[1])
        BY <1>3, <1>4, <2>3, <3>2 DEF CutInv
      <4> QED BY <1>4, <2>20, <4>1, <4>2
    <3> QED BY <3>1, <3>2
  <2>24. 1 <= i /\ i <= Len(files) + 1 /\ i <= Len(files) /\ i # 0
    BY <1>4
  <2> QED BY <1>4, <2>2, <2>3, <2>17, <2>19, <2>22, <2>23, <2>24 DEF CutInv, Opening
<1> QED BY <1>5, <1>6

LEMMA CutStep ==
    ASSUME TypeInv, SafetyInv, CutInv, [Next]_vars, TypeInv', SafetyInv'
    PROVE  CutInv'
<1>0. SpawnInv /\ SpawnInv' /\ i \in Nat /\ Len(files) \in Nat
  BY FilesType DEF SafetyInv, TypeInv, TypeOK
<1>1. CASE OpenFile
  BY <1>0, <1>1, CutOpenFile
<1>2. CASE CreateThread
  <2>1. /\ mpc = "create" /\ UNCHANGED <<files, total_threads, threads_d>>
        /\ \/ mpc' = "wait" /\ i' = i
           \/ mpc' = (IF i < Len(files) THEN "file" ELSE "poll") /\ i' = i + 1
    BY <1>2 DEF CreateThread
  <2>2. Opened' = Opened
    BY <1>0, <2>1 DEF Opened
  <2>3. i <= Len(files)
    BY <2>1 DEF CutInv, Opening
  <2> QED BY <1>0, <2>1, <2>2, <2>3, FrameCut DEF Opening
<1>3. ASSUME UNCHANGED mainVars, mpc' = mpc PROVE CutInv'
  BY <1>3, FrameCut DEF mainVars, Opened, CutInv
<1>4. ASSUME UNCHANGED mainVars, mpc \notin Opening, mpc' \notin Opening PROVE CutInv'
  BY <1>4, FrameCut DEF mainVars, Opened, CutInv, Opening
<1>5. CASE SemWait
  <2>1. UNCHANGED mainVars /\ mpc = "wait" /\ mpc' = "create"
    BY <1>5 DEF SemWait
  <2> QED BY <2>1, FrameCut DEF mainVars, Opened, CutInv, Opening
<1>6. CASE PollAgain
  BY <1>3, <1>6 DEF PollAgain, vars
<1>7. CASE Poll
  BY <1>4, <1>7 DEF Poll, Opening
<1>8. CASE MergeStep
  BY <1>3, <1>8 DEF MergeStep
<1>9. CASE MergeEnd
  BY <1>4, <1>9 DEF MergeEnd, Opening
<1>10. CASE WriteEntry
  BY <1>3, <1>10 DEF WriteEntry
<1>11. CASE WriteNode
  BY <1>3, <1>11 DEF WriteNode
<1>12. CASE WriteEnd
  BY <1>4, <1>12 DEF WriteEnd, Opening
<1>13. CASE Exit
  BY <1>4, <1>13 DEF Exit, Opening
<1>14. ASSUME NEW w \in Worker, ThreadRle(w) PROVE CutInv'
  BY <1>3, <1>14 DEF ThreadRle, FirstByte, NextByte, LastRun, Lock, LoadDone, StoreDone,
                     Unlock, SemPost
<1>15. CASE UNCHANGED vars
  BY <1>3, <1>15 DEF vars
<1> QED BY <1>1, <1>2, <1>5, <1>6, <1>7, <1>8, <1>9, <1>10, <1>11, <1>12, <1>13, <1>14, <1>15
        DEF Next, MainNext, Terminated


-----------------------------------------------------------------------------
(* What a thread has encoded: of its slice, the bytes before start; of none,
   nothing. *)
TextTo(w, m) == SubSeq(threads_d[w].file, threads_d[w].from + 1, m)

ThreadInv(w) ==
    /\ wpc[w] \in {"none", "first"} => entries[w] = <<>>
    /\ wpc[w] = "first" => start[w] = threads_d[w].from
    /\ wpc[w] = "loop" =>
          IF threads_d[w].from < threads_d[w].to
          THEN /\ threads_d[w].from < start[w] /\ start[w] <= threads_d[w].to
               /\ Append(entries[w], run[w]) = Rle(TextTo(w, start[w]))
          ELSE start[w] > threads_d[w].to /\ entries[w] = <<>>
    /\ wpc[w] \in Encoded => entries[w] = Rle(SliceText(w))

(* The list before main touches it.                                          *)
FreshList ==
    /\ \A n \in Node : first[n] = 0
    /\ \A n \in Node : next[n] = IF n <= total_threads THEN n + 1 ELSE NULL
    /\ entries[MaxThreadIds + 1] = <<>>
    /\ out = <<>>

EncodeInv == mpc \notin AfterPoll => FreshList /\ \A w \in Worker : ThreadInv(w)

LEMMA InitEncode == ASSUME Init PROVE EncodeInv
<1>1. MaxThreadIds \in Nat /\ MaxThreadIds + 1 \in Node /\ \A n \in Node : ~(n <= 0)
      /\ \A w \in Worker : w \in Node
  BY MaxThreadIdsAssumption DEF Node, Worker
<1>2. FreshList
  BY <1>1 DEF Init, FreshList
<1>3. \A w \in Worker : wpc[w] = "none" /\ entries[w] = <<>>
  BY <1>1 DEF Init
<1> QED BY <1>2, <1>3 DEF EncodeInv, ThreadInv, Encoded

(* What an invariant step may use of a thread.                               *)
LEMMA ThreadFacts ==
    ASSUME TypeInv, SafetyInv, CutInv, NEW w \in Worker, wpc[w] # "none"
    PROVE  /\ w \in 1 .. total_threads /\ w \in Node
           /\ threads_d[w].file \in Seq(Char) /\ threads_d[w].from \in Nat
           /\ threads_d[w].to \in Nat /\ threads_d[w].from <= threads_d[w].to
           /\ threads_d[w].to <= Len(threads_d[w].file) /\ Len(threads_d[w].file) \in Nat
           /\ start[w] \in Nat /\ run[w] \in Run /\ entries[w] \in Seq(Run)
<1>1. w \in Nat /\ w >= 1 /\ w <= MaxThreadIds /\ MaxThreadIds \in Nat /\ total_threads \in Nat
      /\ thread_index \in Nat
  BY MaxThreadIdsAssumption DEF Worker, TypeInv, TypeOK
<1>2. w <= thread_index /\ thread_index <= total_threads
  BY <1>1 DEF SafetyInv, SpawnInv
<1>3. w \in 1 .. total_threads /\ w \in Node
  BY <1>1, <1>2 DEF Node
<1>4. threads_d[w] \in [file : Seq(Char), from : Nat, to : Nat] /\ start[w] \in Nat
      /\ run[w] \in Run /\ entries[w] \in Seq(Run)
  BY <1>3 DEF TypeInv, TypeOK
<1>5. threads_d[w].to <= Len(threads_d[w].file)
  BY DEF TypeInv, SliceInv
<1>6. threads_d[w].from <= threads_d[w].to
  BY <1>3 DEF CutInv, SliceOf
<1>7. threads_d[w].file \in Seq(Char) /\ Len(threads_d[w].file) \in Nat
  BY <1>4
<1> QED BY <1>3, <1>4, <1>5, <1>6, <1>7

(* The steps of a thread that encode a byte or end the slice (lines 104 to 119). *)
LEMMA FirstByteEncodes ==
    ASSUME TypeInv, SafetyInv, CutInv, NEW w \in Worker, ThreadInv(w), FirstByte(w)
    PROVE  ThreadInv(w)'
<1>1. PICK f : f = threads_d[w].file
  OBVIOUS
<1>2. PICK a : a = threads_d[w].from
  OBVIOUS
<1>3. PICK b : b = threads_d[w].to
  OBVIOUS
<1>4. wpc[w] = "first" /\ entries[w] = <<>> /\ start[w] = a
  BY <1>2 DEF FirstByte, Go, ThreadInv
<1>5. /\ f \in Seq(Char) /\ a \in Nat /\ b \in Nat /\ a <= b /\ b <= Len(f) /\ Len(f) \in Nat
      /\ w \in Node
  BY <1>1, <1>2, <1>3, <1>4, ThreadFacts
<1>6. PICK c \in Char : /\ start[w] < Len(f) => c = f[start[w] + 1]
                        /\ run' = [run EXCEPT ![w] = [count |-> 1, char |-> c]]
  BY <1>1 DEF FirstByte
<1>7. /\ wpc' = [wpc EXCEPT ![w] = "loop"] /\ start' = [start EXCEPT ![w] = start[w] + 1]
      /\ threads_d' = threads_d /\ entries' = entries
  BY DEF FirstByte, Go, mainVars, listVars
<1>8. /\ wpc'[w] = "loop" /\ start'[w] = a + 1 /\ run'[w] = [count |-> 1, char |-> c]
      /\ entries'[w] = <<>>
  BY <1>4, <1>6, <1>7 DEF TypeInv, TypeOK
<1>9. ASSUME a < b
      PROVE  a < a + 1 /\ a + 1 <= b
             /\ Append(<<>>, [count |-> 1, char |-> c]) = Rle(SubSeq(f, a + 1, a + 1))
  <2>1. c = f[a + 1]
    BY <1>4, <1>5, <1>6, <1>9
  <2>2. SubSeq(f, a + 1, a) = <<>> /\ SubSeq(f, a + 1, a + 1) = Append(SubSeq(f, a + 1, a), c)
    BY <1>5, <1>9, <2>1, SliceGrows
  <2>3. PICK none : none = <<>>
    OBVIOUS
  <2>4. none \in Seq(Char) /\ none \in Seq(Run)
    BY <2>3
  <2>5. Rle(Append(none, c)) = AddChar(Rle(none), c) /\ Rle(none) = none
    BY <2>3, <2>4, RleFacts
  <2>6. AddChar(none, c) = <<[count |-> 1, char |-> c]>>
    <3>1. [count |-> 1, char |-> c] \in Run
      BY DEF Run
    <3> QED BY <2>3, <2>4, <3>1, AddCharFacts
  <2>7. Append(<<>>, [count |-> 1, char |-> c]) = <<[count |-> 1, char |-> c]>>
    OBVIOUS
  <2>8. Rle(SubSeq(f, a + 1, a + 1)) = <<[count |-> 1, char |-> c]>>
    BY <2>2, <2>3, <2>5, <2>6
  <2> QED BY <1>5, <1>9, <2>7, <2>8
<1>10. ASSUME ~(a < b) PROVE a + 1 > b
  BY <1>5, <1>10
<1> QED BY <1>1, <1>2, <1>3, <1>7, <1>8, <1>9, <1>10 DEF ThreadInv, TextTo, Encoded

LEMMA NextByteEncodes ==
    ASSUME TypeInv, SafetyInv, CutInv, NEW w \in Worker, ThreadInv(w), NextByte(w)
    PROVE  ThreadInv(w)'
<1>1. PICK f : f = threads_d[w].file
  OBVIOUS
<1>2. PICK a : a = threads_d[w].from
  OBVIOUS
<1>3. PICK b : b = threads_d[w].to
  OBVIOUS
<1>4. PICK m : m = start[w]
  OBVIOUS
<1>5. PICK rs : rs = entries[w]
  OBVIOUS
<1>6. PICK r : r = run[w]
  OBVIOUS
<1>7. PICK c : c = f[m + 1]
  OBVIOUS
<1>8. wpc[w] = "loop" /\ m < b
  BY <1>3, <1>4 DEF NextByte, Go
<1>9. /\ f \in Seq(Char) /\ a \in Nat /\ b \in Nat /\ m \in Nat /\ b <= Len(f) /\ Len(f) \in Nat
      /\ rs \in Seq(Run) /\ r \in Run /\ w \in Node
  BY <1>1, <1>2, <1>3, <1>4, <1>5, <1>6, <1>8, ThreadFacts
<1>10. a < b /\ a < m /\ Append(rs, r) = Rle(SubSeq(f, a + 1, m))
  BY <1>1, <1>2, <1>3, <1>4, <1>5, <1>6, <1>8, <1>9 DEF ThreadInv, TextTo
<1>11. /\ wpc' = [wpc EXCEPT ![w] = "loop"] /\ start' = [start EXCEPT ![w] = start[w] + 1]
       /\ threads_d' = threads_d
  BY DEF NextByte, Go, mainVars
<1>12. wpc'[w] = "loop" /\ start'[w] = m + 1
  BY <1>4, <1>11 DEF TypeInv, TypeOK
<1>13. c \in Char /\ Rle(SubSeq(f, a + 1, m + 1)) = AddChar(Append(rs, r), c)
  <2>1. /\ c \in Char /\ SubSeq(f, a + 1, m) \in Seq(Char)
        /\ SubSeq(f, a + 1, m + 1) = Append(SubSeq(f, a + 1, m), c)
    <3>1. a <= m /\ m < Len(f)
      BY <1>8, <1>9, <1>10
    <3> QED BY <1>7, <1>9, <3>1, SliceGrows
  <2> QED BY <1>10, <2>1, RleFacts
<1>14. Append(entries'[w], run'[w]) = AddChar(Append(rs, r), c)
  <2>1. entries \in [Node -> Seq(Run)] /\ run \in [Worker -> Run]
    BY DEF TypeInv, TypeOK
  <2>2. CASE c # r.char
    <3>1. entries' = [entries EXCEPT ![w] = Append(rs, r)]
          /\ run' = [run EXCEPT ![w] = [count |-> 1, char |-> c]]
      BY <1>1, <1>4, <1>5, <1>6, <1>7, <2>2 DEF NextByte
    <3>2. entries'[w] = Append(rs, r) /\ run'[w] = [count |-> 1, char |-> c]
      BY <1>9, <2>1, <3>1
    <3>3. AddChar(Append(rs, r), c) = Append(Append(rs, r), [count |-> 1, char |-> c])
      BY <1>9, <1>13, <2>2, AddCharFacts
    <3> QED BY <3>2, <3>3
  <2>3. CASE c = r.char
    <3>1. entries' = entries /\ run' = [run EXCEPT ![w] = Bump(r, 1)]
      BY <1>1, <1>4, <1>6, <1>7, <2>3 DEF NextByte
    <3>2. entries'[w] = rs /\ run'[w] = Bump(r, 1)
      BY <1>5, <2>1, <3>1
    <3>3. r.char = c
      BY <2>3
    <3>4. AddChar(Append(rs, r), c) = Append(rs, Bump(r, 1))
      BY <1>9, <1>13, <3>3, AddCharFacts
    <3> QED BY <3>2, <3>4
  <2> QED BY <2>2, <2>3
<1>15. a < m + 1 /\ m + 1 <= b
  BY <1>8, <1>9, <1>10
<1> QED BY <1>1, <1>2, <1>3, <1>10, <1>11, <1>12, <1>13, <1>14, <1>15 DEF ThreadInv, TextTo, Encoded

LEMMA LastRunEncodes ==
    ASSUME TypeInv, SafetyInv, CutInv, NEW w \in Worker, ThreadInv(w), LastRun(w)
    PROVE  ThreadInv(w)'
<1>1. PICK f : f = threads_d[w].file
  OBVIOUS
<1>2. PICK a : a = threads_d[w].from
  OBVIOUS
<1>3. PICK b : b = threads_d[w].to
  OBVIOUS
<1>4. wpc[w] = "loop" /\ start[w] >= b
  BY <1>3 DEF LastRun, Go
<1>5. /\ f \in Seq(Char) /\ a \in Nat /\ b \in Nat /\ a <= b /\ b <= Len(f) /\ Len(f) \in Nat
      /\ start[w] \in Nat /\ entries[w] \in Seq(Run) /\ w \in Node
  BY <1>1, <1>2, <1>3, <1>4, ThreadFacts
<1>6. /\ wpc' = [wpc EXCEPT ![w] = "lock"] /\ threads_d' = threads_d
      /\ entries' = IF start[w] = b THEN [entries EXCEPT ![w] = Append(@, run[w])] ELSE entries
  BY <1>3 DEF LastRun, Go, mainVars
<1>7. wpc'[w] = "lock" /\ entries \in [Node -> Seq(Run)]
  BY <1>6 DEF TypeInv, TypeOK
<1>8. entries'[w] = Rle(SubSeq(f, a + 1, b))
  <2>1. CASE a < b
    <3>1. start[w] = b /\ Append(entries[w], run[w]) = Rle(SubSeq(f, a + 1, b))
      BY <1>1, <1>2, <1>3, <1>4, <1>5, <2>1 DEF ThreadInv, TextTo
    <3>2. entries' = [entries EXCEPT ![w] = Append(@, run[w])]
      BY <1>6, <3>1
    <3> QED BY <1>5, <1>7, <3>1, <3>2
  <2>2. CASE ~(a < b)
    <3>1. start[w] > b /\ entries[w] = <<>>
      BY <1>1, <1>2, <1>3, <1>4, <2>2 DEF ThreadInv
    <3>2. start[w] # b
      BY <1>5, <3>1
    <3>3. entries'[w] = <<>>
      BY <1>6, <3>1, <3>2
    <3>4. a + 1 \in Int /\ b \in Int /\ b < a + 1
      BY <1>5, <2>2
    <3>5. SubSeq(f, a + 1, b) = <<>>
      BY <3>4, SubSeqEmpty
    <3>6. Rle(<<>>) = <<>>
      BY <1>5, RleFacts
    <3> QED BY <3>3, <3>5, <3>6
  <2> QED BY <2>1, <2>2
<1>9. SliceText(w)' = SubSeq(f, a + 1, b)
  BY <1>1, <1>2, <1>3, <1>6 DEF SliceText
<1> QED BY <1>7, <1>8, <1>9 DEF ThreadInv, Encoded

(* Once main has seen the full count no thread touches its results again.    *)
LEMMA LateThreads ==
    ASSUME SafetyInv, TypeInv, mpc \in AfterPoll, NEW w \in Worker
    PROVE  ~FirstByte(w) /\ ~NextByte(w) /\ ~LastRun(w)
<1>1. wpc[w] = "none" \/ wpc[w] \in Encoded
  <2>1. w \in Nat /\ w >= 1 /\ total_threads \in Nat
    BY MaxThreadIdsAssumption DEF Worker, TypeInv, TypeOK
  <2>2. CASE w <= total_threads
    BY <2>1, <2>2 DEF SafetyInv, MergeSeesAllResults
  <2>3. CASE ~(w <= total_threads)
    BY <2>1, <2>3 DEF SafetyInv, SpawnInv, MergeSeesAllResults
  <2> QED BY <2>2, <2>3
<1> QED BY <1>1 DEF FirstByte, NextByte, LastRun, Go, Encoded

LEMMA EncodeThread ==
    ASSUME TypeInv, SafetyInv, CutInv, EncodeInv, NEW w \in Worker, ThreadRle(w)
    PROVE  EncodeInv'
<1>1. mpc' = mpc /\ UNCHANGED mainVars /\ UNCHANGED <<first, next, out>>
  BY DEF ThreadRle, FirstByte, NextByte, LastRun, Lock, LoadDone, StoreDone, Unlock, SemPost, listVars
<1> SUFFICES ASSUME mpc \notin AfterPoll PROVE EncodeInv'
  BY <1>1 DEF EncodeInv
<1>2. FreshList /\ \A v \in Worker : ThreadInv(v)
  BY DEF EncodeInv
<1>3. /\ \E pc : wpc' = [wpc EXCEPT ![w] = pc]
      /\ \A v \in Worker : v # w => start'[v] = start[v] /\ run'[v] = run[v]
      /\ \A n \in Node : n # w => entries'[n] = entries[n]
  <2>1. /\ start \in [Worker -> Nat] /\ run \in [Worker -> Run] /\ entries \in [Node -> Seq(Run)]
    BY DEF TypeInv, TypeOK
  <2>2. CASE FirstByte(w)
    BY <2>1, <2>2 DEF FirstByte, Go, listVars
  <2>3. CASE NextByte(w)
    BY <2>1, <2>3 DEF NextByte, Go
  <2>4. CASE LastRun(w)
    BY <2>1, <2>4 DEF LastRun, Go
  <2>5. CASE Lock(w) \/ LoadDone(w) \/ StoreDone(w) \/ Unlock(w) \/ SemPost(w)
    BY <2>5 DEF Lock, LoadDone, StoreDone, Unlock, SemPost, Go, listVars
  <2> QED BY <2>2, <2>3, <2>4, <2>5 DEF ThreadRle
<1>4. \A v \in Worker : v \in Node /\ v # MaxThreadIds + 1 /\ MaxThreadIds + 1 \in Node
  BY MaxThreadIdsAssumption DEF Worker, Node
<1>5. FreshList'
  <2>1. entries'[MaxThreadIds + 1] = entries[MaxThreadIds + 1]
    BY <1>3, <1>4
  <2> QED BY <1>1, <1>2, <2>1 DEF FreshList, mainVars
<1>6. ASSUME NEW v \in Worker, v # w PROVE ThreadInv(v)'
  <2>1. wpc'[v] = wpc[v]
    BY <1>3, <1>6 DEF TypeInv, TypeOK
  <2>2. start'[v] = start[v] /\ run'[v] = run[v] /\ entries'[v] = entries[v] /\ threads_d' = threads_d
    BY <1>1, <1>3, <1>4, <1>6 DEF mainVars
  <2>3. ThreadInv(v)
    BY <1>2
  <2> QED BY <2>1, <2>2, <2>3 DEF ThreadInv, TextTo, SliceText, Encoded
<1>7. ThreadInv(w)'
  <2>1. ThreadInv(w)
    BY <1>2
  <2>2. CASE FirstByte(w)
    BY <2>1, <2>2, FirstByteEncodes
  <2>3. CASE NextByte(w)
    BY <2>1, <2>3, NextByteEncodes
  <2>4. CASE LastRun(w)
    BY <2>1, <2>4, LastRunEncodes
  <2>5. CASE Lock(w) \/ LoadDone(w) \/ StoreDone(w) \/ Unlock(w) \/ SemPost(w)
    <3>1. wpc[w] \in Encoded /\ \E pc \in Encoded : wpc' = [wpc EXCEPT ![w] = pc]
      BY <2>5 DEF Lock, LoadDone, StoreDone, Unlock, SemPost, Go, Encoded
    <3>2. wpc'[w] \in Encoded
      BY <3>1 DEF TypeInv, TypeOK
    <3>3. entries' = entries /\ threads_d' = threads_d
      BY <1>1, <2>5 DEF Lock, LoadDone, StoreDone, Unlock, SemPost, listVars, mainVars
    <3>4. entries'[w] = Rle(SliceText(w)')
      BY <2>1, <3>1, <3>3 DEF ThreadInv, SliceText
    <3> QED BY <3>2, <3>4 DEF ThreadInv, Encoded
  <2> QED BY <2>2, <2>3, <2>4, <2>5 DEF ThreadRle
<1> QED BY <1>5, <1>6, <1>7 DEF EncodeInv

LEMMA EncodeStep ==
    ASSUME TypeInv, SafetyInv, CutInv, EncodeInv, [Next]_vars, TypeInv', SafetyInv'
    PROVE  EncodeInv'
<1>1. ASSUME UNCHANGED <<total_threads, threads_d, workerVars, listVars>>,
             mpc \in AfterPoll => mpc' \in AfterPoll
      PROVE  EncodeInv'
  <2>1. FreshList' <=> FreshList
    BY <1>1 DEF FreshList, listVars
  <2>2. \A w : ThreadInv(w)' <=> ThreadInv(w)
    BY <1>1 DEF ThreadInv, TextTo, SliceText, workerVars, listVars
  <2> QED BY <1>1, <2>1, <2>2 DEF EncodeInv
<1>2. ASSUME mpc' \in AfterPoll PROVE EncodeInv'
  BY <1>2 DEF EncodeInv
<1>3. CASE OpenFile
  <2>1. mpc = "file" /\ UNCHANGED <<workerVars, entries, first, iter, k, out>>
    BY <1>3 DEF OpenFile
  <2>2. CASE files[i] = Missing
    <3>1. UNCHANGED <<total_threads, threads_d, workerVars, listVars>>
      BY <1>3, <2>1, <2>2 DEF OpenFile, listVars
    <3> QED BY <1>1, <2>1, <3>1 DEF AfterPoll
  <2>3. CASE files[i] # Missing
    <3>1. PICK n : n = total_threads
      OBVIOUS
    <3>2. PICK count : count = ThreadsPerFile(files[i])
      OBVIOUS
    <3>3. /\ total_threads' = n + count /\ mpc' = "wait"
          /\ threads_d' = [w \in Worker |->
                 IF w \in n + 1 .. n + count
                 THEN Slice(files[i], w - n - 1, count) ELSE threads_d[w]]
          /\ next' = [l \in Node |-> IF l \in n + 1 .. n + count THEN l + 1 ELSE next[l]]
      BY <1>3, <2>3, <3>1, <3>2 DEF OpenFile
    <3>4. n \in Nat /\ count \in 1 .. NumThreads /\ NumThreads \in Nat
      <4>1. files[i] \in Seq(Char) \cup {Missing}
        BY <2>1, FilesType DEF TypeInv, FileInv
      <4> QED BY <3>1, <3>2, <4>1, ThreadsPerFileType, NumThreadsAssumption DEF TypeInv, TypeOK
    <3>5. FreshList /\ \A w \in Worker : ThreadInv(w)
      BY <2>1 DEF EncodeInv, AfterPoll
    <3>6. \A l \in Node : next'[l] = IF l <= n + count THEN l + 1 ELSE NULL
      <4> SUFFICES ASSUME NEW l \in Node
                   PROVE  next'[l] = IF l <= n + count THEN l + 1 ELSE NULL
        OBVIOUS
      <4>1. l \in Nat
        BY MaxThreadIdsAssumption DEF Node
      <4>2. next[l] = IF l <= n THEN l + 1 ELSE NULL
        BY <3>1, <3>5 DEF FreshList
      <4>3. next'[l] = IF l \in n + 1 .. n + count THEN l + 1 ELSE next[l]
        BY <3>3
      <4>4. count \in Nat
        BY <3>4
      <4>5. l \in n + 1 .. n + count <=> ~(l <= n) /\ l <= n + count
        BY <3>4, <4>1, <4>4
      <4>6. l <= n => l <= n + count
        BY <3>4, <4>1, <4>4
      <4> QED BY <4>2, <4>3, <4>5, <4>6
    <3>7. FreshList'
      BY <2>1, <3>3, <3>5, <3>6 DEF FreshList
    <3>8. ASSUME NEW w \in Worker PROVE ThreadInv(w)'
      <4>1. wpc' = wpc /\ start' = start /\ run' = run /\ entries' = entries
        BY <2>1 DEF workerVars
      <4>2. ThreadInv(w)
        BY <3>5
      <4>3. CASE wpc[w] = "none"
        BY <4>1, <4>2, <4>3 DEF ThreadInv, Encoded
      <4>4. CASE wpc[w] # "none"
        <5>1. w <= n /\ w \in Nat
          <6>1. w \in 1 .. total_threads
            BY <4>4, ThreadFacts
          <6> QED BY <3>1, <3>4, <6>1
        <5>2. threads_d'[w] = threads_d[w]
          BY <3>3, <3>4, <5>1
        <5> QED BY <4>1, <4>2, <5>2 DEF ThreadInv, TextTo, SliceText
      <4> QED BY <4>3, <4>4
    <3> QED BY <3>7, <3>8 DEF EncodeInv
  <2> QED BY <2>2, <2>3
<1>4. CASE CreateThread
  <2>1. PICK t : t = thread_index + 1
    OBVIOUS
  <2>2. /\ mpc = "create" /\ wpc' = [wpc EXCEPT ![t] = "first"]
        /\ start' = [start EXCEPT ![t] = threads_d[t].from]
        /\ UNCHANGED <<total_threads, threads_d, run, listVars>>
    BY <1>4, <2>1 DEF CreateThread
  <2>3. FreshList /\ \A w \in Worker : ThreadInv(w)
    BY <2>2 DEF EncodeInv, AfterPoll
  <2>4. FreshList'
    BY <2>2, <2>3 DEF FreshList, listVars
  <2>5. t \in Worker => wpc[t] = "none"
    <3>1. thread_index \in Nat /\ t > thread_index
      BY <2>1 DEF TypeInv, TypeOK
    <3> QED BY <3>1 DEF SafetyInv, SpawnInv
  <2>6. ASSUME NEW w \in Worker PROVE ThreadInv(w)'
    <3>1. ThreadInv(w) /\ entries' = entries
      BY <2>2, <2>3 DEF listVars
    <3>4. DOMAIN wpc = Worker /\ DOMAIN start = Worker
      BY DEF TypeInv, TypeOK
    <3>2. CASE w = t
      <4>1. wpc'[w] = "first" /\ start'[w] = threads_d[w].from /\ entries[w] = <<>>
        BY <2>2, <2>5, <3>1, <3>2, <3>4 DEF ThreadInv
      <4> QED BY <2>2, <3>1, <4>1 DEF ThreadInv, Encoded
    <3>3. CASE w # t
      <4>1. wpc'[w] = wpc[w] /\ start'[w] = start[w] /\ run' = run /\ threads_d' = threads_d
        BY <2>2, <3>3, <3>4
      <4> QED BY <3>1, <4>1 DEF ThreadInv, TextTo, SliceText
    <3> QED BY <3>2, <3>3
  <2> QED BY <2>4, <2>6 DEF EncodeInv
<1>5. CASE SemWait
  BY <1>1, <1>5 DEF SemWait, mainVars, AfterPoll
<1>6. CASE PollAgain
  BY <1>1, <1>6 DEF PollAgain, vars, mainVars
<1>7. CASE Poll
  BY <1>2, <1>7 DEF Poll, AfterPoll
<1>8. CASE MergeStep \/ MergeEnd \/ WriteEntry \/ WriteNode \/ WriteEnd \/ Exit
  BY <1>2, <1>8 DEF MergeStep, MergeEnd, WriteEntry, WriteNode, WriteEnd, Exit, AfterPoll
<1>9. ASSUME NEW w \in Worker, ThreadRle(w) PROVE EncodeInv'
  BY <1>9, EncodeThread
<1>10. CASE UNCHANGED vars
  BY <1>1, <1>10 DEF vars, mainVars
<1> QED BY <1>3, <1>4, <1>5, <1>6, <1>7, <1>8, <1>9, <1>10 DEF Next, MainNext, Terminated


-----------------------------------------------------------------------------
(* What the list still says while main merges and writes it. *)
Rem(n) == Rest(entries[n], first[n])
Rems   == [n \in 1 .. total_threads |-> Rem(n)]

(* Links lead forward and pass over nothing that is still to be said; behind
   the nodes of the threads the list is empty. *)
Linked ==
    /\ total_threads # 0
    /\ \A n \in 1 .. total_threads :
         /\ next[n] \in n + 1 .. total_threads + 1
         /\ \A m \in n + 1 .. next[n] - 1 : Rem(m) = <<>>
    /\ \A n \in Node : n > total_threads => next[n] = NULL /\ entries[n] = <<>>

(* Where merge is there is a run, and what lies ahead it has not touched.     *)
AtRun ==
    /\ iter \in 1 .. total_threads /\ Rem(iter) # <<>>
    /\ \A m \in next[iter] .. total_threads : first[m] = 0

ListInv ==
    mpc \in AfterPoll => /\ Linked
                         /\ Expand(FlattenSeq(Rems)) = TextOf(files)
                         /\ mpc = "merge" => AtRun

LEMMA RemFacts ==
    ASSUME TypeInv, SpawnInv
    PROVE  /\ total_threads \in Nat /\ MaxThreadIds \in Nat /\ total_threads <= MaxThreadIds
           /\ \A n \in 1 .. total_threads :
                n \in Node /\ entries[n] \in Seq(Run) /\ Rem(n) \in Seq(Run) /\ Rems[n] = Rem(n)
           /\ \A n \in Node : entries[n] \in Seq(Run) /\ first[n] \in {0, 1}
           /\ Rems \in Seq(Seq(Run)) /\ Len(Rems) = total_threads
<1>1. /\ total_threads \in Nat /\ MaxThreadIds \in Nat /\ total_threads <= MaxThreadIds
      /\ \A n \in Node : entries[n] \in Seq(Run) /\ first[n] \in {0, 1}
  BY MaxThreadIdsAssumption DEF TypeInv, TypeOK, SpawnInv
<1>2. \A n \in 1 .. total_threads : n \in Node
  BY <1>1 DEF Node
<1>3. \A n \in 1 .. total_threads : Rem(n) \in Seq(Run)
  BY <1>1, <1>2, RestFacts DEF Rem
<1>4. Rems \in [1 .. total_threads -> Seq(Run)]
  BY <1>3 DEF Rems
<1>5. Rems \in Seq(Seq(Run)) /\ Len(Rems) = total_threads
  BY <1>1, <1>4
<1>6. \A n \in 1 .. total_threads : Rems[n] = Rem(n)
  BY DEF Rems
<1> QED BY <1>1, <1>2, <1>3, <1>5, <1>6

(* Reading the list along its links says what the nodes say in order.        *)
ListStep(f, n) == IF n = NULL THEN <<>> ELSE Rem(n) \o f[next[n]]
Lists(f) == f = [n \in {NULL} \cup Node |-> ListStep(f, n)]

LEMMA ListRunsDef == ListRuns = (CHOOSE f : Lists(f))[1]
BY DEF ListRuns, Lists, ListStep, Rem, Rest

LEMMA ListRunsIs ==
    ASSUME TypeInv, SpawnInv, Linked
    PROVE  ListRuns = FlattenSeq(Rems)
<1>1. PICK N : N = total_threads
  OBVIOUS
<1>2. PICK ss : ss = Rems
  OBVIOUS
<1>3. /\ N \in Nat /\ N # 0 /\ MaxThreadIds \in Nat /\ N <= MaxThreadIds
      /\ \A n \in 1 .. N : n \in Node /\ Rem(n) \in Seq(Run) /\ ss[n] = Rem(n)
      /\ ss \in Seq(Seq(Run)) /\ Len(ss) = N
  BY <1>1, <1>2, RemFacts DEF Linked
<1>4. /\ \A n \in 1 .. N : /\ next[n] \in n + 1 .. N + 1
                           /\ \A m \in n + 1 .. next[n] - 1 : ss[m] = <<>>
      /\ \A n \in Node : n > N => next[n] = NULL /\ Rem(n) = <<>>
  <2>1. \A n \in 1 .. N : /\ next[n] \in n + 1 .. N + 1
                          /\ \A m \in n + 1 .. next[n] - 1 : Rem(m) = <<>>
    BY <1>1 DEF Linked
  <2>2. \A n \in 1 .. N : \A m \in n + 1 .. next[n] - 1 : m \in 1 .. N
    BY <1>3, <2>1
  <2>3. \A n \in Node : n > N => next[n] = NULL /\ Rem(n) = <<>>
    <3> SUFFICES ASSUME NEW n \in Node, n > N PROVE next[n] = NULL /\ Rem(n) = <<>>
      OBVIOUS
    <3>1. next[n] = NULL /\ entries[n] = <<>> /\ entries[n] \in Seq(Run) /\ first[n] \in {0, 1}
      BY <1>1, RemFacts DEF Linked
    <3>2. PICK d : d = first[n]
      OBVIOUS
    <3>3. PICK s : s = <<>>
      OBVIOUS
    <3>4. s \in Seq(Run) /\ d \in {0, 1} /\ Len(s) <= d
      BY <3>1, <3>2, <3>3
    <3>5. Rest(s, d) = <<>>
      BY <3>4, RestFacts
    <3> QED BY <3>1, <3>2, <3>3, <3>5 DEF Rem
  <2> QED BY <1>3, <2>1, <2>2, <2>3
<1>5. \A n \in Node : n \in 1 .. N \/ n > N
  BY <1>3 DEF Node
<1>6. PICK g : g = [n \in {NULL} \cup Node |->
                      IF n = NULL \/ n > N THEN <<>> ELSE From(ss, n)]
  OBVIOUS
<1>7. g[NULL] = <<>> /\ NULL = 0 /\ NULL \notin Node
  <2>1. NULL = 0 /\ NULL \notin Node
    BY <1>3 DEF NULL, Node
  <2> QED BY <1>6, <2>1
<1>8. \A n \in 1 .. N : g[n] = From(ss, n)
  <2>1. \A n \in 1 .. N : n \in Node /\ n # NULL /\ ~(n > N)
    BY <1>3, <1>7
  <2> QED BY <1>6, <2>1
<1>9. \A n \in Node : n > N => g[n] = <<>>
  BY <1>6
<1>10. ASSUME NEW n \in 1 .. N PROVE Rem(n) \o g[next[n]] = From(ss, n)
  <2>1. PICK m : m = next[n]
    OBVIOUS
  <2>2. n \in 1 .. Len(ss) /\ m \in n + 1 .. Len(ss) + 1 /\ \A l \in n + 1 .. m - 1 : ss[l] = <<>>
    BY <1>3, <1>4, <2>1
  <2>3. From(ss, n) = ss[n] \o From(ss, m)
    BY <1>3, <2>2, FromFacts
  <2>4. g[m] = From(ss, m)
    <3>1. CASE m \in 1 .. N
      BY <1>8, <3>1
    <3>2. CASE m \notin 1 .. N
      <4>1. m = N + 1 /\ m \in Node /\ m > N
        BY <1>3, <2>2, <3>2 DEF Node
      <4>2. From(ss, Len(ss) + 1) = <<>>
        BY <1>3, <2>2, FromFacts
      <4> QED BY <1>3, <1>9, <4>1, <4>2
    <3> QED BY <3>1, <3>2
  <2> QED BY <1>3, <2>1, <2>3, <2>4
<1>11. <<>> \o <<>> = <<>>
  OBVIOUS
<1>12. \A n \in {NULL} \cup Node : g[n] = ListStep(g, n)
  <2> SUFFICES ASSUME NEW n \in {NULL} \cup Node PROVE g[n] = ListStep(g, n)
    OBVIOUS
  <2>1. CASE n = NULL
    BY <1>7, <2>1 DEF ListStep
  <2>2. CASE n \in 1 .. N
    <3>1. n # NULL
      BY <1>3, <1>7, <2>2
    <3> QED BY <1>8, <1>10, <2>2, <3>1 DEF ListStep
  <2>3. CASE n \in Node /\ n > N
    <3>1. n # NULL /\ next[n] = NULL /\ Rem(n) = <<>>
      BY <1>4, <1>7, <2>3
    <3> QED BY <1>7, <1>9, <1>11, <2>3, <3>1 DEF ListStep
  <2> QED BY <1>5, <2>1, <2>2, <2>3
<1>13. Lists(g)
  BY <1>6, <1>12 DEF Lists
<1>14. PICK f : f = CHOOSE h : Lists(h)
  OBVIOUS
<1>15. Lists(f)
  BY <1>13, <1>14
<1>16. \A n \in {NULL} \cup Node : f[n] = ListStep(f, n)
  BY <1>15 DEF Lists
<1>17. f[NULL] = <<>>
  BY <1>16 DEF ListStep
<1>18. \A n \in Node : n > N => f[n] = g[n]
  <2> SUFFICES ASSUME NEW n \in Node, n > N PROVE f[n] = g[n]
    OBVIOUS
  <2>1. n # NULL /\ next[n] = NULL /\ Rem(n) = <<>>
    BY <1>4, <1>7
  <2>2. f[n] = ListStep(f, n)
    BY <1>16
  <2> QED BY <1>9, <1>11, <1>17, <2>1, <2>2 DEF ListStep
<1> DEFINE T == {l \in 0 .. N : N - l \in 1 .. N /\ f[N - l] # g[N - l]}
<1>19. T = {}
  <2> SUFFICES ASSUME T # {} PROVE FALSE
    OBVIOUS
  <2>1. T \in SUBSET Nat
        /\ \A l \in 0 .. N : l \in T <=> N - l \in 1 .. N /\ f[N - l] # g[N - l]
    OBVIOUS
  <2>2. \A l \in T : l \in 0 .. N
    OBVIOUS
  <2> HIDE DEF T
  <2>3. PICK l \in T : \A x \in T : l <= x
    BY <2>1, LeastNat
  <2>4. PICK n : n = N - l
    OBVIOUS
  <2>5. n \in 1 .. N /\ f[n] # g[n] /\ l \in 0 .. N /\ l \in Nat
    BY <2>1, <2>2, <2>4
  <2>6. PICK m : m = next[n]
    OBVIOUS
  <2>7. m \in n + 1 .. N + 1
    BY <1>4, <2>5, <2>6
  <2>8. f[m] = g[m]
    <3>1. CASE m \in 1 .. N
      <4>1. N - m \in 0 .. N /\ ~(l <= N - m) /\ N - (N - m) = m
        BY <1>3, <2>4, <2>5, <2>7, <3>1
      <4>2. N - m \notin T
        BY <2>3, <4>1
      <4> QED BY <2>1, <3>1, <4>1, <4>2
    <3>2. CASE m \notin 1 .. N
      <4>1. m \in Node /\ m > N
        BY <1>3, <2>5, <2>7, <3>2 DEF Node
      <4> QED BY <1>18, <4>1
    <3> QED BY <3>1, <3>2
  <2>9. n # NULL /\ n \in Node
    BY <1>3, <1>7, <2>5
  <2>10. f[n] = Rem(n) \o f[m] /\ g[n] = Rem(n) \o g[m]
    BY <1>12, <1>16, <2>6, <2>9 DEF ListStep
  <2> QED BY <2>5, <2>8, <2>10
<1>20. f[1] = g[1]
  <2>1. N - 1 \in 0 .. N /\ N - (N - 1) = 1 /\ 1 \in 1 .. N
    BY <1>3
  <2>2. N - 1 \notin T
    BY <1>19
  <2> QED BY <2>1, <2>2
<1>21. From(ss, 1) = FlattenSeq(ss)
  <2>1. 1 \in 1 .. Len(ss) /\ next[1] \in 1 + 1 .. Len(ss) + 1
        /\ \A l \in 1 + 1 .. next[1] - 1 : ss[l] = <<>>
    BY <1>3, <1>4
  <2> QED BY <1>3, <2>1, FromFacts
<1>22. 1 \in 1 .. N
  BY <1>3
<1> QED BY <1>2, <1>8, <1>14, <1>20, <1>21, <1>22, ListRunsDef


LEMMA FrameList ==
    ASSUME ListInv, UNCHANGED <<files, total_threads, entries, first, next>>,
           mpc' \in AfterPoll => mpc \in AfterPoll,
           mpc' = "merge" => mpc = "merge" /\ iter' = iter
    PROVE  ListInv'
<1>1. \A n : Rem(n)' = Rem(n)
  BY DEF Rem
<1>2. Rems' = Rems
  BY <1>1 DEF Rems
<1>3. Linked' <=> Linked
  BY <1>1 DEF Linked
<1>4. mpc' = "merge" => (AtRun' <=> AtRun)
  BY <1>1 DEF AtRun
<1> QED BY <1>2, <1>3, <1>4 DEF ListInv

(* A slice with a byte in it has a run.                                      *)
LEMMA SliceHasRuns ==
    ASSUME TypeInv, SafetyInv, CutInv, NEW w \in Worker, wpc[w] # "none",
           threads_d[w].from < threads_d[w].to
    PROVE  /\ SliceText(w) \in Seq(Char) /\ Rle(SliceText(w)) # <<>>
           /\ Rle(SliceText(w)) \in Seq(Run) /\ Canonical(Rle(SliceText(w)))
<1>1. PICK f : f = threads_d[w].file
  OBVIOUS
<1>2. PICK a : a = threads_d[w].from
  OBVIOUS
<1>3. PICK b : b = threads_d[w].to
  OBVIOUS
<1>4. f \in Seq(Char) /\ a \in Nat /\ b \in Nat /\ a < b /\ b <= Len(f)
  BY <1>1, <1>2, <1>3, ThreadFacts
<1>5. PICK t : t = SubSeq(f, a + 1, b)
  OBVIOUS
<1>6. \A l \in a + 1 .. b : f[l] \in Char
  BY <1>4
<1>7. t \in Seq(Char) /\ Len(t) = (IF a + 1 <= b THEN b - (a + 1) + 1 ELSE 0)
  BY <1>4, <1>5, <1>6, SubSeqProperties
<1>8. t # <<>>
  BY <1>4, <1>7
<1>9. Expand(Rle(t)) = t
  BY <1>7, ExpandRle
<1>10. Expand(<<>>) = <<>>
  <2>1. PICK none : none = <<>>
    OBVIOUS
  <2>2. none \in Seq(Run)
    BY <2>1
  <2> QED BY <2>2, ExpandFacts
<1>11. Rle(t) # <<>>
  BY <1>8, <1>9, <1>10
<1>12. Rle(t) \in Seq(Run)
  BY <1>7, RleFacts
<1>13. Canonical(Rle(t))
  BY <1>7, RleCanonical
<1>14. SliceText(w) = t
  BY <1>1, <1>2, <1>3, <1>5 DEF SliceText
<1> QED BY <1>7, <1>11, <1>12, <1>13, <1>14

(* The end of the poll (line 281): every node has its chunk's runs.          *)
LEMMA PollList ==
    ASSUME TypeInv, SafetyInv, CutInv, EncodeInv, Poll, SafetyInv', FirstHasText(FileLists)
    PROVE  ListInv'
<1>1. /\ mpc = "poll" /\ mpc' = "merge" /\ iter' = 1
      /\ UNCHANGED <<files, total_threads, entries, first, next, wpc>>
  BY DEF Poll, mainVars, workerVars
<1>2. PICK N : N = total_threads
  OBVIOUS
<1>3. /\ N \in Nat /\ MaxThreadIds \in Nat /\ N <= MaxThreadIds
      /\ \A n \in 1 .. N :
           n \in Node /\ n \in Worker /\ entries[n] \in Seq(Run) /\ Rems[n] = Rem(n)
           /\ Cut[n] = SliceText(n)
      /\ Rems \in Seq(Seq(Run)) /\ Len(Rems) = N
      /\ Cut \in Seq(Seq(Char)) /\ Len(Cut) = N
  BY <1>2, RemFacts, CutFacts DEF SafetyInv
<1>4. FreshList /\ \A w \in Worker : ThreadInv(w)
  BY <1>1 DEF EncodeInv, AfterPoll
<1>5. \A w \in 1 .. N : wpc[w] \in Encoded
  BY <1>1, <1>2 DEF SafetyInv, MergeSeesAllResults, AfterPoll
<1>6. \A w \in 1 .. N : entries[w] = Rle(Cut[w]) /\ Rem(w) = entries[w] /\ Rems[w] = Rle(Cut[w])
  <2> SUFFICES ASSUME NEW w \in 1 .. N
               PROVE  entries[w] = Rle(Cut[w]) /\ Rem(w) = entries[w] /\ Rems[w] = Rle(Cut[w])
    OBVIOUS
  <2>1. entries[w] = Rle(Cut[w])
    BY <1>3, <1>4, <1>5 DEF ThreadInv
  <2>2. first[w] = 0 /\ entries[w] \in Seq(Run)
    BY <1>3, <1>4 DEF FreshList
  <2>3. Rest(entries[w], 0) = entries[w]
    BY <2>2, RestFacts
  <2> QED BY <1>3, <2>1, <2>2, <2>3 DEF Rem
<1>7. Expand(FlattenSeq(Rems)) = TextOf(Cut)
  BY <1>3, <1>6, ExpandParts
<1>8. Opened = Len(files) /\ Len(files) \in Nat /\ Len(files) > 0 /\ files \in FileLists
      /\ files \in Seq(Seq(Char) \cup {Missing})
  <2>1. Len(files) \in Nat /\ Len(files) > 0 /\ files \in Seq(Seq(Char) \cup {Missing})
    BY FilesType DEF TypeInv
  <2>2. i = Len(files) + 1 /\ Opened = i - 1
    BY <1>1 DEF CutInv, Opening, Opened
  <2> QED BY <2>1, <2>2 DEF TypeInv, TypeOK
<1>9. TextOf(Cut) = TextOf(files)
  <2>1. SubSeq(files, 1, Len(files)) = files
    BY <1>8, SubSeqFull
  <2> QED BY <1>8, <2>1 DEF CutInv
<1>10. N # 0 /\ SliceOf(1, files[1])
  BY <1>2, <1>8 DEF CutInv
<1>11. Linked
  <2>1. \A n \in 1 .. N : next[n] = n + 1
    <3> SUFFICES ASSUME NEW n \in 1 .. N PROVE next[n] = n + 1
      OBVIOUS
    <3>1. n \in Node /\ n <= N
      BY <1>3
    <3> QED BY <1>2, <1>4, <3>1 DEF FreshList
  <2>2. \A n \in 1 .. N : next[n] \in n + 1 .. N + 1 /\ n + 1 .. next[n] - 1 = {}
    <3> SUFFICES ASSUME NEW n \in 1 .. N
                 PROVE  n + 1 \in n + 1 .. N + 1 /\ n + 1 .. (n + 1) - 1 = {}
      BY <2>1
    <3> QED BY <1>3
  <2>3. ASSUME NEW n \in Node, n > N PROVE next[n] = NULL /\ entries[n] = <<>>
    <3>1. next[n] = NULL
      <4>1. ~(n <= N)
        BY <1>3, <2>3 DEF Node
      <4> QED BY <1>2, <1>4, <4>1 DEF FreshList
    <3>2. CASE n = MaxThreadIds + 1
      BY <1>4, <3>1, <3>2 DEF FreshList
    <3>3. CASE n # MaxThreadIds + 1
      <4>1. n \in Worker
        BY <1>3, <3>3 DEF Node, Worker
      <4>2. thread_index = N
        BY <1>1, <1>2 DEF SafetyInv, SpawnInv
      <4>3. wpc[n] = "none"
        BY <2>3, <4>1, <4>2 DEF SafetyInv, SpawnInv
      <4> QED BY <1>4, <3>1, <4>1, <4>3 DEF ThreadInv
    <3> QED BY <3>2, <3>3
  <2> QED BY <1>2, <1>10, <2>2, <2>3 DEF Linked
<1>12. Rem(1) # <<>>
  <2>1. 1 \in 1 .. N /\ files[1] # <<>>
    BY <1>3, <1>8, <1>10 DEF FirstHasText
  <2>2. threads_d[1].from < threads_d[1].to
    BY <1>10, <2>1 DEF SliceOf
  <2>3. wpc[1] # "none" /\ 1 \in Worker
    BY <1>3, <1>5, <2>1 DEF Encoded
  <2>4. Rle(SliceText(1)) # <<>>
    BY <2>2, <2>3, SliceHasRuns
  <2> QED BY <1>3, <1>6, <2>1, <2>4
<1>13. \A m \in next[1] .. N : first[m] = 0
  <2>1. 1 \in 1 .. N /\ next[1] \in 1 + 1 .. N + 1
    <3>1. 1 \in 1 .. N
      BY <1>3, <1>10
    <3> QED BY <1>2, <1>11, <3>1 DEF Linked
  <2>2. \A m \in next[1] .. N : m \in 1 .. N
    BY <1>3, <2>1
  <2> QED BY <1>3, <1>4, <2>2 DEF FreshList
<1>14. \A n : Rem(n)' = Rem(n)
  BY <1>1 DEF Rem
<1>15. Rems' = Rems
  BY <1>1, <1>14 DEF Rems
<1>16. Linked'
  BY <1>1, <1>11, <1>14 DEF Linked
<1>17. AtRun'
  <2>1. 1 \in 1 .. N
    BY <1>3, <1>10
  <2> QED BY <1>1, <1>2, <1>12, <1>13, <1>14, <2>1 DEF AtRun
<1> QED BY <1>1, <1>7, <1>9, <1>15, <1>16, <1>17 DEF ListInv


(* One iteration of merge (lines 300 to 320), with the node p it is at and the
   next one, q: a run moves from q to p or none does, and q is left behind or
   unlinked. *)
LEMMA MergeHere ==
    ASSUME TypeInv, SpawnInv, Linked, AtRun, MergeGo, NEW p, p = iter, NEW q, q = next[iter]
    PROVE  /\ p \in 1 .. total_threads /\ q \in p + 1 .. total_threads
           /\ \A m \in p + 1 .. q - 1 : Rem(m) = <<>>
           /\ next[q] \in q + 1 .. total_threads + 1
           /\ \A m \in q + 1 .. next[q] - 1 : Rem(m) = <<>>
           /\ \A m \in q .. total_threads : first[m] = 0
           /\ Rem(q) = entries[q] /\ entries[q] # <<>> /\ Rem(p) # <<>>
           /\ entries[p] # <<>> /\ Last(entries[p]) = Rem(p)[Len(Rem(p))]
<1>1. PICK N : N = total_threads
  OBVIOUS
<1>2. /\ N \in Nat /\ MaxThreadIds \in Nat /\ N <= MaxThreadIds
      /\ \A n \in 1 .. N : n \in Node /\ entries[n] \in Seq(Run)
      /\ \A n \in Node : entries[n] \in Seq(Run) /\ first[n] \in {0, 1}
  BY <1>1, RemFacts
<1>3. p \in 1 .. N /\ Rem(p) # <<>> /\ \A m \in q .. N : first[m] = 0
  BY <1>1 DEF AtRun
<1>4. q \in p + 1 .. N + 1 /\ \A m \in p + 1 .. q - 1 : Rem(m) = <<>>
  BY <1>1, <1>3 DEF Linked
<1>5. entries[q] # <<>>
  BY DEF MergeGo
<1>6. q \in p + 1 .. N
  <2>1. q # N + 1
    <3> SUFFICES ASSUME q = N + 1 PROVE FALSE
      OBVIOUS
    <3>1. q \in Node /\ q > N
      BY <1>2 DEF Node
    <3> QED BY <1>1, <1>5, <3>1 DEF Linked
  <2>2. N \in Nat /\ p \in 1 .. N /\ q \in p + 1 .. N + 1
    BY <1>2, <1>3, <1>4
  <2> QED BY <2>1, <2>2
<1>7. q \in 1 .. N /\ q \in q .. N
  BY <1>2, <1>3, <1>6
<1>8. next[q] \in q + 1 .. N + 1 /\ \A m \in q + 1 .. next[q] - 1 : Rem(m) = <<>>
  BY <1>1, <1>7 DEF Linked
<1>9. Rem(q) = entries[q]
  <2>1. first[q] = 0 /\ entries[q] \in Seq(Run)
    BY <1>2, <1>3, <1>7
  <2>2. Rest(entries[q], 0) = entries[q]
    BY <2>1, RestFacts
  <2> QED BY <2>1, <2>2 DEF Rem
<1>10. entries[p] # <<>> /\ Last(entries[p]) = Rem(p)[Len(Rem(p))]
  <2>1. PICK d : d = first[p]
    OBVIOUS
  <2>2. PICK s : s = entries[p]
    OBVIOUS
  <2>3. d \in {0, 1} /\ s \in Seq(Run) /\ Rest(s, d) # <<>> /\ 0 \in Nat
    BY <1>2, <1>3, <2>1, <2>2 DEF Rem
  <2>4. s # <<>> /\ Last(s) = Rest(s, d)[Len(Rest(s, d))]
    BY <2>3, BumpRest
  <2> QED BY <2>1, <2>2, <2>4 DEF Rem
<1> QED BY <1>1, <1>3, <1>4, <1>5, <1>6, <1>8, <1>9, <1>10

(* The two ways an iteration ends, and what they leave of the list's shape.   *)
LEMMA StepOn ==
    ASSUME TypeInv, SpawnInv, Linked, AtRun, MergeGo, UNCHANGED <<total_threads, next>>,
           NEW q, q = next[iter], iter' = q, Rem(q)' # <<>>,
           \A m \in 1 .. total_threads : Rem(m) = <<>> => Rem(m)' = <<>>,
           \A n \in Node : n > total_threads => entries'[n] = entries[n],
           \A m \in Node : m > q => first'[m] = first[m]
    PROVE  Linked' /\ AtRun'
<1>2. PICK p : p = iter
  OBVIOUS
<1>3. PICK N : N = total_threads
  OBVIOUS
<1>4. /\ N \in Nat /\ MaxThreadIds \in Nat /\ N <= MaxThreadIds /\ \A n \in 1 .. N : n \in Node
  BY <1>3, RemFacts
<1>5. /\ p \in 1 .. N /\ q \in p + 1 .. N /\ next[q] \in q + 1 .. N + 1
      /\ \A m \in q .. N : first[m] = 0
  BY <1>2, <1>3, MergeHere
<1>6. Linked'
  <2>1. \A n \in 1 .. N : /\ next[n] \in n + 1 .. N + 1
                          /\ \A m \in n + 1 .. next[n] - 1 : Rem(m) = <<>>
    BY <1>3 DEF Linked
  <2>2. \A n \in 1 .. N : \A m \in n + 1 .. next[n] - 1 : m \in 1 .. N
    BY <1>4, <2>1
  <2>3. \A n \in 1 .. N : \A m \in n + 1 .. next[n] - 1 : Rem(m)' = <<>>
    BY <1>3, <2>1, <2>2
  <2> QED BY <1>3, <2>1, <2>3 DEF Linked
<1>7. AtRun'
  <2>1. q \in 1 .. N
    BY <1>4, <1>5
  <2>2. \A m \in next[q] .. N : m \in Node /\ m > q /\ m \in q .. N
    BY <1>4, <1>5
  <2>3. \A m \in next[q] .. N : first'[m] = 0
    BY <1>5, <2>2
  <2>4. Rem(iter)' = Rem(q)'
    BY DEF Rem
  <2> QED BY <1>3, <2>1, <2>3, <2>4 DEF AtRun
<1> QED BY <1>6, <1>7

LEMMA Unlink ==
    ASSUME TypeInv, SpawnInv, Linked, AtRun, MergeGo, total_threads' = total_threads,
           NEW p, p = iter, NEW q, q = next[iter],
           next' = [next EXCEPT ![p] = next[q]], iter' = iter,
           Rem(p)' # <<>>, Rem(q)' = <<>>,
           \A m \in 1 .. total_threads : Rem(m) = <<>> => Rem(m)' = <<>>,
           \A n \in Node : n > total_threads => entries'[n] = entries[n],
           \A m \in Node : m > q => first'[m] = first[m]
    PROVE  Linked' /\ AtRun'
<1>1. PICK N : N = total_threads
  OBVIOUS
<1>2. PICK r : r = next[q]
  OBVIOUS
<1>3. /\ N \in Nat /\ MaxThreadIds \in Nat /\ N <= MaxThreadIds /\ \A n \in 1 .. N : n \in Node
  BY <1>1, RemFacts
<1>4. /\ p \in 1 .. N /\ q \in p + 1 .. N /\ r \in q + 1 .. N + 1
      /\ \A m \in p + 1 .. q - 1 : Rem(m) = <<>>
      /\ \A m \in q + 1 .. r - 1 : Rem(m) = <<>>
      /\ \A m \in q .. N : first[m] = 0
  BY <1>1, <1>2, MergeHere
<1>5. DOMAIN next = Node
  BY DEF TypeInv, TypeOK
<1>6. next'[p] = r /\ \A n \in Node : n # p => next'[n] = next[n]
  BY <1>2, <1>3, <1>4, <1>5
<1>7. ASSUME NEW n \in 1 .. N
      PROVE  next'[n] \in n + 1 .. N + 1 /\ \A m \in n + 1 .. next'[n] - 1 : Rem(m)' = <<>>
  <2>1. CASE n # p
    <3>1. next'[n] = next[n]
      BY <1>3, <1>6, <2>1
    <3>2. next[n] \in n + 1 .. N + 1 /\ \A m \in n + 1 .. next[n] - 1 : Rem(m) = <<>>
      BY <1>1 DEF Linked
    <3>3. \A m \in n + 1 .. next[n] - 1 : m \in 1 .. N
      BY <1>3, <3>2
    <3> QED BY <1>1, <3>1, <3>2, <3>3
  <2>2. CASE n = p
    <3>1. r \in p + 1 .. N + 1
      BY <1>3, <1>4
    <3>2. ASSUME NEW m \in p + 1 .. r - 1 PROVE Rem(m)' = <<>>
      <4>1. m \in 1 .. N /\ (m \in p + 1 .. q - 1 \/ m = q \/ m \in q + 1 .. r - 1)
        BY <1>3, <1>4
      <4>2. CASE m = q
        BY <4>2
      <4>3. CASE m # q
        BY <1>1, <1>4, <4>1, <4>3
      <4> QED BY <4>2, <4>3
    <3> QED BY <1>6, <2>2, <3>1, <3>2
  <2> QED BY <2>1, <2>2
<1>8. \A n \in Node : n > N => next'[n] = NULL /\ entries'[n] = <<>>
  <2> SUFFICES ASSUME NEW n \in Node, n > N PROVE next'[n] = NULL /\ entries'[n] = <<>>
    OBVIOUS
  <2>1. n # p
    BY <1>3, <1>4
  <2> QED BY <1>1, <1>6, <2>1 DEF Linked
<1>9. Linked'
  BY <1>1, <1>7, <1>8 DEF Linked
<1>10. AtRun'
  <2>1. \A m \in r .. N : m \in Node /\ m > q /\ m \in q .. N
    BY <1>3, <1>4
  <2>2. \A m \in r .. N : first'[m] = 0
    BY <1>4, <2>1
  <2>3. Rem(iter)' = Rem(p)'
    BY DEF Rem
  <2> QED BY <1>1, <1>4, <1>6, <2>2, <2>3 DEF AtRun
<1> QED BY <1>9, <1>10


(* What an iteration does to the runs: it passes them, or it moves the first of
   the next node onto the last of this one. *)
Passed(p, q) == /\ UNCHANGED <<entries, first, next>> /\ iter' = q
                /\ Last(entries[p]).char # entries[q][1].char
Moved(p, q) ==
    /\ Last(entries[p]).char = entries[q][1].char
    /\ Rem(p)' = BumpLast(Rem(p), entries[q][1].count)
    /\ Rem(q)' = Rest(entries[q], 1)
    /\ \A n \in Node : n # p /\ n # q => Rem(n)' = Rem(n)
    /\ entries'[p] = BumpLast(entries[p], entries[q][1].count)
    /\ \A n \in Node : n # p => entries'[n] = entries[n]
    /\ \A n \in Node : n # q => first'[n] = first[n]
    /\ IF Len(entries[q]) = 1 THEN next' = [next EXCEPT ![p] = next[q]] /\ iter' = p
       ELSE next' = next /\ iter' = q

LEMMA MergeOutcome ==
    ASSUME TypeInv, SpawnInv, Linked, AtRun, MergeStep, NEW p, p = iter, NEW q, q = next[iter]
    PROVE  Passed(p, q) \/ Moved(p, q)
<1>1. MergeGo
  BY DEF MergeStep
<1>2. PICK N : N = total_threads
  OBVIOUS
<1>3. /\ N \in Nat /\ \A n \in 1 .. N : n \in Node /\ entries[n] \in Seq(Run) /\ Rem(n) \in Seq(Run)
      /\ \A n \in Node : entries[n] \in Seq(Run) /\ first[n] \in {0, 1}
  BY <1>2, RemFacts
<1>4. /\ p \in 1 .. N /\ q \in p + 1 .. N
      /\ \A m \in q .. N : first[m] = 0
      /\ Rem(q) = entries[q] /\ entries[q] # <<>> /\ Rem(p) # <<>> /\ entries[p] # <<>>
  BY <1>1, <1>2, MergeHere
<1>5. /\ DOMAIN entries = Node /\ DOMAIN first = Node /\ p \in Node /\ q \in Node /\ q # p
      /\ first[q] = 0
  <2>1. q \in 1 .. N /\ q # p /\ q \in q .. N
    BY <1>3, <1>4
  <2> QED BY <1>3, <1>4, <2>1 DEF TypeInv, TypeOK
<1>6. PICK y : y = entries[q]
  OBVIOUS
<1>7. y \in Seq(Run) /\ y # <<>> /\ Len(y) \in Nat /\ Len(y) >= 1 /\ y[1] \in Run /\ y[1].count \in Nat
  <2>1. y \in Seq(Run) /\ y # <<>>
    BY <1>3, <1>4, <1>5, <1>6
  <2>2. Len(y) \in Nat /\ Len(y) >= 1 /\ y[1] \in Run
    BY <2>1
  <2> QED BY <2>1, <2>2 DEF Run
<1>8. PICK same \in {Last(entries[p]).char = y[1].char} :
        /\ IF same
           THEN /\ entries' = [entries EXCEPT ![p] = BumpLast(@, y[1].count)]
                /\ first' = [first EXCEPT ![q] = 1]
           ELSE UNCHANGED <<entries, first>>
        /\ IF Len(y) = first'[q]
           THEN next' = [next EXCEPT ![p] = next[q]] /\ UNCHANGED iter
           ELSE iter' = q /\ UNCHANGED next
  BY <1>4, <1>6 DEF MergeStep, SameChar, SkipFirst
<1>9. CASE ~same
  <2>1. UNCHANGED <<entries, first>>
    BY <1>8, <1>9
  <2>2. iter' = q /\ UNCHANGED next
    BY <1>5, <1>7, <1>8, <2>1
  <2> QED BY <1>6, <1>8, <1>9, <2>1, <2>2 DEF Passed
<1>10. CASE same
  <2>1. PICK c : c = y[1].count
    OBVIOUS
  <2>2. /\ entries' = [entries EXCEPT ![p] = BumpLast(entries[p], c)]
        /\ first' = [first EXCEPT ![q] = 1]
        /\ Last(entries[p]).char = y[1].char
        /\ c \in Nat
    BY <1>7, <1>8, <1>10, <2>1
  <2>3. /\ entries'[p] = BumpLast(entries[p], c) /\ first'[p] = first[p]
        /\ entries'[q] = y /\ first'[q] = 1
        /\ \A n \in Node : n # p => entries'[n] = entries[n]
        /\ \A n \in Node : n # q => first'[n] = first[n]
    BY <1>5, <1>6, <2>2
  <2>4. Rem(p)' = BumpLast(Rem(p), c)
    <3>1. PICK s : s = entries[p]
      OBVIOUS
    <3>2. PICK d : d = first[p]
      OBVIOUS
    <3>3. s \in Seq(Run) /\ d \in {0, 1} /\ Rest(s, d) # <<>> /\ c \in Nat
      BY <1>3, <1>4, <1>5, <2>2, <3>1, <3>2 DEF Rem
    <3>4. Rest(BumpLast(s, c), d) = BumpLast(Rest(s, d), c)
      BY <3>3, BumpRest
    <3>5. Rem(p)' = Rest(BumpLast(s, c), d) /\ Rem(p) = Rest(s, d)
      BY <2>3, <3>1, <3>2 DEF Rem
    <3> QED BY <3>4, <3>5
  <2>5. Rem(q)' = Rest(y, 1)
    BY <2>3 DEF Rem
  <2>6. \A n \in Node : n # p /\ n # q => Rem(n)' = Rem(n)
    BY <2>3 DEF Rem
  <2>7. IF Len(y) = 1 THEN next' = [next EXCEPT ![p] = next[q]] /\ iter' = p
        ELSE next' = next /\ iter' = q
    BY <1>8, <2>3
  <2> QED BY <1>6, <2>1, <2>2, <2>3, <2>4, <2>5, <2>6, <2>7 DEF Moved
<1> QED BY <1>9, <1>10

(* The run that is moved, and the lists before and after.                    *)
LEMMA MovedRun ==
    ASSUME TypeInv, SpawnInv, Linked, AtRun, MergeGo, total_threads' = total_threads,
           NEW p, p = iter, NEW q, q = next[iter], Moved(p, q)
    PROVE  /\ Rems' \in Seq(Seq(Run)) /\ Len(Rems') = total_threads
           /\ Rem(p)' \in Seq(Run) /\ Rem(p)' # <<>>
           /\ entries[q] \in Seq(Run) /\ entries[q] # <<>>
           /\ entries[q][1] \in Run /\ entries[q][1].count \in Nat
           /\ Rem(q)' = <<>> <=> Len(entries[q]) = 1
           /\ \A n \in 1 .. total_threads : n # p /\ n # q => Rems'[n] = Rems[n]
           /\ Rems'[p] = BumpLast(Rems[p], entries[q][1].count)
           /\ Rems'[q] = Rest(entries[q], 1) /\ Rems[p] = Rem(p) /\ Rems[q] = entries[q]
<1>1. PICK N : N = total_threads
  OBVIOUS
<1>2. /\ N \in Nat /\ \A n \in 1 .. N : n \in Node /\ entries[n] \in Seq(Run) /\ Rem(n) \in Seq(Run)
                                        /\ Rems[n] = Rem(n)
  BY <1>1, RemFacts
<1>3. p \in 1 .. N /\ q \in p + 1 .. N /\ Rem(q) = entries[q] /\ entries[q] # <<>> /\ Rem(p) # <<>>
  BY <1>1, MergeHere
<1>4. p \in Node /\ q \in Node /\ q # p /\ q \in 1 .. N /\ entries[q] \in Seq(Run)
  <2>1. q \in 1 .. N /\ q # p
    BY <1>2, <1>3
  <2> QED BY <1>2, <1>3, <2>1
<1>5. PICK y : y = entries[q]
  OBVIOUS
<1>6. PICK c : c = y[1].count
  OBVIOUS
<1>7. PICK ly : ly = Len(y)
  OBVIOUS
<1>8. y \in Seq(Run) /\ y # <<>> /\ ly \in Nat /\ ly >= 1 /\ y[1] \in Run /\ c \in Nat
  <2>1. y \in Seq(Run) /\ y # <<>>
    BY <1>3, <1>4, <1>5
  <2>2. ly \in Nat /\ ly >= 1 /\ y[1] \in Run
    BY <1>7, <2>1
  <2> QED BY <1>6, <2>1, <2>2 DEF Run
<1>9. Rem(p)' \in Seq(Run) /\ Rem(p)' # <<>>
  <2>1. PICK t : t = Rem(p)
    OBVIOUS
  <2>2. t \in Seq(Run) /\ t # <<>>
    BY <1>2, <1>3, <2>1
  <2>3. BumpLast(t, c) \in Seq(Run) /\ Len(BumpLast(t, c)) = Len(t) /\ Len(t) >= 1
    BY <1>8, <2>2, BumpLastIs
  <2>4. BumpLast(t, c) # <<>>
    BY <2>2, <2>3
  <2> QED BY <1>5, <1>6, <2>1, <2>3, <2>4 DEF Moved
<1>10. Rem(q)' = Rest(y, 1) /\ Rem(q)' \in Seq(Run) /\ (Rem(q)' = <<>> <=> ly <= 1)
  <2>1. 1 \in {0, 1}
    OBVIOUS
  <2>2. Rest(y, 1) \in Seq(Run) /\ (Rest(y, 1) = <<>> <=> ly <= 1)
    BY <1>7, <1>8, <2>1, RestFacts
  <2>3. Rem(q)' = Rest(y, 1)
    BY <1>5 DEF Moved
  <2> QED BY <2>2, <2>3
<1>11. Rem(q)' = <<>> <=> ly = 1
  <2>1. ly <= 1 <=> ly = 1
    BY <1>8
  <2> QED BY <1>10, <2>1
<1>12. \A n \in Node : n # p /\ n # q => Rem(n)' = Rem(n)
  BY DEF Moved
<1>13. PICK tt : tt = [n \in 1 .. N |-> Rem(n)']
  OBVIOUS
<1>14. Rems' = tt
  BY <1>1, <1>13 DEF Rems
<1>15. tt \in Seq(Seq(Run)) /\ Len(tt) = N
  <2>1. \A n \in 1 .. N : Rem(n)' \in Seq(Run)
    BY <1>2, <1>9, <1>10, <1>12
  <2>2. tt \in [1 .. N -> Seq(Run)]
    BY <1>13, <2>1
  <2> QED BY <1>2, <2>2
<1>16. \A n \in 1 .. N : n # p /\ n # q => tt[n] = Rems[n]
  BY <1>2, <1>12, <1>13
<1>17. tt[p] = Rem(p)' /\ tt[q] = Rem(q)' /\ Rems[p] = Rem(p) /\ Rems[q] = y
  BY <1>2, <1>3, <1>4, <1>5, <1>13
<1>18. Rem(p)' = BumpLast(Rem(p), c)
  BY <1>5, <1>6 DEF Moved
<1> QED BY <1>1, <1>5, <1>6, <1>7, <1>8, <1>9, <1>10, <1>11, <1>14, <1>15, <1>16, <1>17, <1>18

LEMMA MergeList ==
    ASSUME TypeInv, SpawnInv, ListInv, MergeStep
    PROVE  ListInv'
<1>1. PICK p : p = iter
  OBVIOUS
<1>2. PICK q : q = next[iter]
  OBVIOUS
<1>3. PICK N : N = total_threads
  OBVIOUS
<1>4. mpc = "merge" /\ mpc' = "merge" /\ MergeGo /\ UNCHANGED <<files, total_threads>>
  BY DEF MergeStep, mainVars
<1>5. Linked /\ AtRun /\ Expand(FlattenSeq(Rems)) = TextOf(files)
  BY <1>4 DEF ListInv, AfterPoll
<1>6. /\ N \in Nat /\ MaxThreadIds \in Nat /\ N <= MaxThreadIds
      /\ \A n \in 1 .. N : n \in Node /\ Rems[n] = Rem(n)
      /\ Rems \in Seq(Seq(Run)) /\ Len(Rems) = N
  BY <1>3, RemFacts
<1>7. /\ p \in 1 .. N /\ q \in p + 1 .. N
      /\ \A m \in p + 1 .. q - 1 : Rem(m) = <<>>
      /\ Rem(q) = entries[q] /\ entries[q] # <<>> /\ Rem(p) # <<>>
      /\ Last(entries[p]) = Rem(p)[Len(Rem(p))]
  BY <1>1, <1>2, <1>3, <1>4, <1>5, MergeHere
<1>8. CASE Passed(p, q)
  <2>1. UNCHANGED <<entries, first, next>> /\ iter' = q
    BY <1>8 DEF Passed
  <2>2. \A n : Rem(n)' = Rem(n)
    BY <2>1 DEF Rem
  <2>3. Rem(q)' # <<>>
    BY <1>7, <2>2
  <2>4. Linked' /\ AtRun'
    BY <1>2, <1>4, <1>5, <2>1, <2>2, <2>3, StepOn
  <2>5. Rems' = Rems
    BY <1>4, <2>2 DEF Rems
  <2> QED BY <1>4, <1>5, <2>4, <2>5 DEF ListInv
<1>9. CASE Moved(p, q)
  <2>1. PICK tt : tt = Rems'
    OBVIOUS
  <2>2. /\ tt \in Seq(Seq(Run)) /\ Len(tt) = N
        /\ Rem(p)' # <<>> /\ (Rem(q)' = <<>> <=> Len(entries[q]) = 1)
        /\ \A n \in 1 .. N : n # p /\ n # q => tt[n] = Rems[n]
        /\ tt[p] = BumpLast(Rems[p], entries[q][1].count)
        /\ tt[q] = Rest(entries[q], 1) /\ Rems[p] = Rem(p) /\ Rems[q] = entries[q]
    BY <1>1, <1>2, <1>3, <1>4, <1>5, <1>9, <2>1, MovedRun
  <2>3. Expand(FlattenSeq(tt)) = Expand(FlattenSeq(Rems))
    <3>1. PICK ss : ss = Rems
      OBVIOUS
    <3>2. \A l \in p + 1 .. q - 1 : ss[l] = <<>>
      <4>1. \A l \in p + 1 .. q - 1 : l \in 1 .. N
        BY <1>6, <1>7
      <4> QED BY <1>6, <1>7, <3>1, <4>1
    <3>3. ss[p] # <<>> /\ ss[q] # <<>> /\ ss[p][Len(ss[p])].char = ss[q][1].char
      BY <1>7, <1>9, <2>2, <3>1 DEF Moved
    <3>4. /\ ss \in Seq(Seq(Run)) /\ Len(ss) = Len(tt) /\ p \in 1 .. Len(ss) /\ q \in p + 1 .. Len(ss)
          /\ tt \in Seq(Seq(Run))
          /\ \A l \in 1 .. Len(ss) : l # p /\ l # q => tt[l] = ss[l]
      BY <1>6, <1>7, <2>2, <3>1
    <3>5. tt[p] = BumpLast(ss[p], ss[q][1].count) /\ tt[q] = SubSeq(ss[q], 2, Len(ss[q]))
      BY <2>2, <3>1 DEF Rest
    <3>6. Expand(FlattenSeq(tt)) = Expand(FlattenSeq(ss))
      BY <3>2, <3>3, <3>4, <3>5, MoveRun
    <3> QED BY <3>1, <3>6
  <2>4. \A m \in 1 .. N : Rem(m) = <<>> => Rem(m)' = <<>>
    BY <1>6, <1>7, <1>9 DEF Moved
  <2>5. \A n \in Node : n > N => entries'[n] = entries[n]
    <3>1. \A n \in Node : n > N => n # p
      BY <1>6, <1>7
    <3> QED BY <1>9, <3>1 DEF Moved
  <2>6. \A m \in Node : m > q => first'[m] = first[m]
    <3>1. \A n \in Node : n > q => n # q
      BY <1>6, <1>7 DEF Node
    <3> QED BY <1>9, <3>1 DEF Moved
  <2>7. CASE Len(entries[q]) = 1
    <3>1. next' = [next EXCEPT ![p] = next[q]] /\ iter' = iter
      BY <1>1, <1>9, <2>7 DEF Moved
    <3>2. Rem(q)' = <<>>
      BY <2>2, <2>7
    <3>3. Linked' /\ AtRun'
      BY <1>1, <1>2, <1>3, <1>4, <1>5, <2>2, <2>4, <2>5, <2>6, <3>1, <3>2, Unlink
    <3> QED BY <1>4, <1>5, <2>1, <2>3, <3>3 DEF ListInv
  <2>8. CASE Len(entries[q]) # 1
    <3>1. iter' = q /\ next' = next
      BY <1>9, <2>8 DEF Moved
    <3>2. Rem(q)' # <<>>
      BY <2>2, <2>8
    <3>3. Linked' /\ AtRun'
      BY <1>2, <1>3, <1>4, <1>5, <2>4, <2>5, <2>6, <3>1, <3>2, StepOn
    <3> QED BY <1>4, <1>5, <2>1, <2>3, <3>3 DEF ListInv
  <2> QED BY <2>7, <2>8
<1> QED BY <1>1, <1>2, <1>5, <1>8, <1>9, MergeOutcome

LEMMA ListKept ==
    ASSUME TypeInv, SafetyInv, CutInv, EncodeInv, ListInv, [Next]_vars, SafetyInv',
           FirstHasText(FileLists)
    PROVE  ListInv'
<1>1. ASSUME mpc' \notin AfterPoll PROVE ListInv'
  BY <1>1 DEF ListInv
<1>2. CASE OpenFile \/ SemWait \/ CreateThread
  BY <1>1, <1>2 DEF OpenFile, SemWait, CreateThread, AfterPoll
<1>3. CASE PollAgain
  BY <1>1, <1>3 DEF PollAgain, vars, AfterPoll
<1>4. CASE Poll
  BY <1>4, PollList
<1>5. CASE MergeStep
  BY <1>5, MergeList DEF SafetyInv
<1>6. CASE MergeEnd
  BY <1>6, FrameList DEF MergeEnd, mainVars, AfterPoll
<1>7. CASE WriteEntry \/ WriteNode
  BY <1>7, FrameList DEF WriteEntry, WriteNode, mainVars, AfterPoll
<1>8. CASE WriteEnd \/ Exit
  BY <1>8, FrameList DEF WriteEnd, Exit, mainVars, listVars, AfterPoll
<1>9. ASSUME NEW w \in Worker, ThreadRle(w) PROVE ListInv'
  <2>1. mpc' = mpc /\ UNCHANGED mainVars /\ UNCHANGED <<first, next, iter>>
    BY <1>9 DEF ThreadRle, FirstByte, NextByte, LastRun, Lock, LoadDone, StoreDone, Unlock,
                SemPost, listVars
  <2>2. CASE mpc \notin AfterPoll
    BY <1>1, <2>1, <2>2
  <2>3. CASE mpc \in AfterPoll
    <3>1. ~FirstByte(w) /\ ~NextByte(w) /\ ~LastRun(w)
      BY <2>3, LateThreads
    <3>2. entries' = entries
      BY <1>9, <3>1 DEF ThreadRle, Lock, LoadDone, StoreDone, Unlock, SemPost, listVars
    <3> QED BY <2>1, <3>2, FrameList DEF mainVars
  <2> QED BY <2>2, <2>3
<1>10. CASE UNCHANGED vars
  BY <1>10, FrameList DEF vars, mainVars, listVars
<1> QED BY <1>2, <1>3, <1>4, <1>5, <1>6, <1>7, <1>8, <1>9, <1>10 DEF Next, MainNext, Terminated

(* The inductive invariant about what is encoded.                            *)
TextInv == TypeInv /\ SafetyInv /\ CutInv /\ EncodeInv /\ ListInv

LEMMA TextInvariant ==
    ASSUME FirstHasText(FileLists)
    PROVE  Spec => []TextInv
<1>1. Init => TextInv
  BY InitType, InitSafety, InitCut, InitEncode DEF TextInv, ListInv, Init, AfterPoll
<1>2. TextInv /\ [Next]_vars => TextInv'
  <2> SUFFICES ASSUME TextInv, [Next]_vars PROVE TextInv'
    OBVIOUS
  <2>1. TypeInv' /\ SafetyInv'
    BY TypeStep, SafetyStep DEF TextInv
  <2>2. CutInv'
    BY <2>1, CutStep DEF TextInv
  <2>3. EncodeInv'
    BY <2>1, EncodeStep DEF TextInv
  <2>4. ListInv'
    BY <2>1, ListKept DEF TextInv
  <2> QED BY <2>1, <2>2, <2>3, <2>4 DEF TextInv
<1> QED BY <1>1, <1>2, PTL DEF Spec

(* merge moves runs between nodes and drops nodes, and what the list decodes to
   stays the text of the files (lines 294 to 345), for command lines whose first
   file is not empty. *)
THEOREM MergeKeepsText ==
    ASSUME FirstHasText(FileLists)
    PROVE  Spec => []ListTextPreserved
<1>1. TextInv => ListTextPreserved
  <2> SUFFICES ASSUME TextInv, mpc \in {"merge", "write"} PROVE Expand(ListRuns) = TextOf(files)
    BY DEF ListTextPreserved
  <2>1. Linked /\ Expand(FlattenSeq(Rems)) = TextOf(files)
    BY DEF TextInv, ListInv, AfterPoll
  <2>2. ListRuns = FlattenSeq(Rems)
    BY <2>1, ListRunsIs DEF TextInv, SafetyInv
  <2> QED BY <2>1, <2>2
<1> QED BY <1>1, TextInvariant, PTL


-----------------------------------------------------------------------------
(* What is written.  When no file is empty no node is: the runs main has merged
   are those of an encoding, and ahead of it every chunk's are. *)
Merged ==
    /\ Canonical(UpTo(Rems, iter))
    /\ \A m \in next[iter] .. total_threads : Canonical(entries[m])

(* The runs written are the first of the list's.                             *)
Written ==
    /\ iter \in 1 .. total_threads + 1 /\ first[iter] <= k
    /\ iter <= total_threads => k <= Len(entries[iter])
    /\ iter = total_threads + 1 => k = first[iter]
    /\ Len(out) = Len(UpTo(Rems, iter - 1)) + (k - first[iter])
    /\ \A l \in 1 .. Len(out) : out[l] = FlattenSeq(Rems)[l]

Writing == {"write", "destroy", "exited"}

CodeInv ==
    /\ mpc \in AfterPoll => \A n \in 1 .. total_threads : entries[n] # <<>>
    /\ mpc = "merge" => Merged
    /\ mpc \in Writing => FlattenSeq(Rems) = Rle(TextOf(files))
    /\ mpc = "write" => Written
    /\ mpc \in {"destroy", "exited"} => out = Rle(TextOf(files))
    /\ mpc \notin Writing => out = <<>>

LEMMA FrameCode ==
    ASSUME CodeInv, UNCHANGED <<files, total_threads, entries, first, next, out, iter, k>>,
           mpc' = mpc
    PROVE  CodeInv'
<1>1. \A n : Rem(n)' = Rem(n)
  BY DEF Rem
<1>2. Rems' = Rems
  BY <1>1 DEF Rems
<1>3. Merged' <=> Merged
  BY <1>2 DEF Merged
<1>4. Written' <=> Written
  BY <1>2 DEF Written
<1> QED BY <1>2, <1>3, <1>4 DEF CodeInv

LEMMA PollCode ==
    ASSUME TypeInv, SafetyInv, CutInv, EncodeInv, CodeInv, Poll, SafetyInv', HaveText(FileLists)
    PROVE  CodeInv'
<1>1. /\ mpc = "poll" /\ mpc' = "merge" /\ iter' = 1
      /\ UNCHANGED <<files, total_threads, entries, first, next, out, wpc>>
  BY DEF Poll, mainVars, workerVars
<1>2. PICK N : N = total_threads
  OBVIOUS
<1>3. /\ N \in Nat /\ MaxThreadIds \in Nat /\ N <= MaxThreadIds
      /\ \A n \in 1 .. N : n \in Node /\ n \in Worker /\ entries[n] \in Seq(Run) /\ Rems[n] = Rem(n)
      /\ Rems \in Seq(Seq(Run)) /\ Len(Rems) = N
  BY <1>2, RemFacts, CutFacts DEF SafetyInv
<1>4. FreshList /\ \A w \in Worker : ThreadInv(w)
  BY <1>1 DEF EncodeInv, AfterPoll
<1>5. \A w \in 1 .. N : wpc[w] \in Encoded
  BY <1>1, <1>2 DEF SafetyInv, MergeSeesAllResults, AfterPoll
<1>6. Opened = Len(files) /\ Len(files) \in Nat /\ Len(files) > 0 /\ files \in FileLists
      /\ DOMAIN files = 1 .. Len(files)
  <2>1. Len(files) \in Nat /\ Len(files) > 0 /\ files \in Seq(Seq(Char) \cup {Missing})
    BY FilesType DEF TypeInv
  <2>2. i = Len(files) + 1 /\ Opened = i - 1
    BY <1>1 DEF CutInv, Opening, Opened
  <2> QED BY <2>1, <2>2 DEF TypeInv, TypeOK
<1>7. ASSUME NEW w \in 1 .. N
      PROVE  entries[w] # <<>> /\ Canonical(entries[w])
  <2>1. PICK n \in 1 .. Len(files) : SliceOf(w, files[n])
    BY <1>2, <1>6 DEF CutInv
  <2>2. files[n] # <<>>
    BY <1>6 DEF HaveText
  <2>3. threads_d[w].from < threads_d[w].to
    BY <2>1, <2>2 DEF SliceOf
  <2>4. wpc[w] # "none" /\ w \in Worker
    BY <1>3, <1>5 DEF Encoded
  <2>5. Rle(SliceText(w)) # <<>> /\ Canonical(Rle(SliceText(w)))
    BY <2>3, <2>4, SliceHasRuns
  <2>6. entries[w] = Rle(SliceText(w))
    BY <1>4, <1>5, <2>4 DEF ThreadInv
  <2> QED BY <2>5, <2>6
<1>8. N # 0
  BY <1>2, <1>6 DEF CutInv
<1>9. Canonical(UpTo(Rems, 1))
  <2>1. 1 \in 1 .. N /\ 1 \in 0 .. Len(Rems) /\ 0 \in 0 .. Len(Rems) /\ 1 - 1 = 0 /\ 1 # 0
    BY <1>3, <1>8
  <2>2. UpTo(Rems, 1) = UpTo(Rems, 1 - 1) \o Rems[1]
    BY <1>3, <2>1, UpToFacts
  <2>3. UpTo(Rems, 0) = <<>>
    BY <1>3, <2>1, UpToFacts
  <2>4. PICK e : e = entries[1]
    OBVIOUS
  <2>5. e \in Seq(Run) /\ first[1] = 0 /\ Rems[1] = Rem(1)
    BY <1>3, <1>4, <2>1, <2>4 DEF FreshList
  <2>6. Rems[1] = e
    <3>1. Rest(e, 0) = e
      BY <2>5, RestFacts
    <3> QED BY <2>4, <2>5, <3>1 DEF Rem
  <2>7. <<>> \o e = e
    BY <2>5, ConcatEmptySeq
  <2>8. UpTo(Rems, 1) = e
    BY <2>1, <2>2, <2>3, <2>6, <2>7
  <2> QED BY <1>7, <2>1, <2>4, <2>8
<1>10. \A m \in next[1] .. N : m \in 1 .. N
  <2>1. 1 \in 1 .. N /\ 1 \in Node /\ 1 <= N
    BY <1>3, <1>8
  <2>2. next[1] = 2
    BY <1>2, <1>4, <2>1 DEF FreshList
  <2> QED BY <1>3, <2>2
<1>11. Rems' = Rems
  <2>1. \A n : Rem(n)' = Rem(n)
    BY <1>1 DEF Rem
  <2> QED BY <1>1, <2>1 DEF Rems
<1>12. Merged'
  BY <1>1, <1>2, <1>7, <1>9, <1>10, <1>11 DEF Merged
<1>13. out' = <<>>
  BY <1>1 DEF CodeInv, Writing
<1> QED BY <1>1, <1>2, <1>7, <1>12, <1>13 DEF CodeInv, Writing

LEMMA MergeCode ==
    ASSUME TypeInv, SpawnInv, ListInv, CodeInv, MergeStep
    PROVE  CodeInv'
<1>1. PICK p : p = iter
  OBVIOUS
<1>2. PICK q : q = next[iter]
  OBVIOUS
<1>3. PICK N : N = total_threads
  OBVIOUS
<1>4. mpc = "merge" /\ mpc' = "merge" /\ MergeGo /\ UNCHANGED <<files, total_threads, out>>
  BY DEF MergeStep, mainVars
<1>5. Linked /\ AtRun /\ Merged /\ out = <<>> /\ \A n \in 1 .. N : entries[n] # <<>>
  BY <1>3, <1>4 DEF ListInv, CodeInv, AfterPoll, Writing
<1>6. /\ N \in Nat /\ MaxThreadIds \in Nat /\ N <= MaxThreadIds
      /\ \A n \in 1 .. N : n \in Node /\ Rems[n] = Rem(n) /\ Rem(n) \in Seq(Run)
                           /\ entries[n] \in Seq(Run)
      /\ Rems \in Seq(Seq(Run)) /\ Len(Rems) = N
  BY <1>3, RemFacts
<1>7. /\ p \in 1 .. N /\ q \in p + 1 .. N
      /\ \A m \in p + 1 .. q - 1 : Rem(m) = <<>>
      /\ next[q] \in q + 1 .. N + 1
      /\ Rem(q) = entries[q] /\ entries[q] # <<>> /\ Rem(p) # <<>>
      /\ Last(entries[p]) = Rem(p)[Len(Rem(p))]
  BY <1>1, <1>2, <1>3, <1>4, <1>5, MergeHere
<1>8. PICK y : y = entries[q]
  OBVIOUS
<1>9. PICK r : r = Rem(p)
  OBVIOUS
<1>10. PICK u : u = UpTo(Rems, p - 1)
  OBVIOUS
<1>11. PICK x : x = UpTo(Rems, p)
  OBVIOUS
<1>12. /\ p - 1 \in 0 .. N /\ p \in 0 .. N /\ p # 0 /\ q \in 0 .. N /\ q # 0 /\ q - 1 \in p .. N
       /\ q - 1 \in 0 .. N /\ q \in 1 .. N /\ q # p /\ q \in q .. N
  <2>1. N \in Nat /\ p \in 1 .. N /\ q \in p + 1 .. N
    BY <1>6, <1>7
  <2> QED BY ONLY <2>1
<1>13. y \in Seq(Run) /\ y # <<>> /\ r \in Seq(Run) /\ r # <<>> /\ Canonical(y)
  BY <1>2, <1>3, <1>5, <1>6, <1>7, <1>8, <1>9, <1>12 DEF Merged
<1>14. u \in Seq(Run)
  BY <1>6, <1>10, <1>12, UpToFacts
<1>15. x = u \o r
  <2>1. UpTo(Rems, p) = UpTo(Rems, p - 1) \o Rems[p]
    BY <1>6, <1>12, UpToFacts
  <2> QED BY <1>6, <1>7, <1>9, <1>10, <1>11, <2>1
<1>16. x \in Seq(Run) /\ x # <<>> /\ x[Len(x)] = r[Len(r)] /\ Canonical(x)
  <2>1. x \in Seq(Run) /\ x # <<>> /\ x[Len(x)] = r[Len(r)]
    BY <1>13, <1>14, <1>15, LastOfConcat
  <2> QED BY <1>1, <1>5, <1>11, <2>1 DEF Merged
<1>17. \A m \in next[q] .. N : m \in 1 .. N /\ m # p /\ Canonical(entries[m])
  <2>1. \A m \in next[q] .. N : m \in q .. N /\ m \in 1 .. N /\ m # p
    BY <1>6, <1>7
  <2> QED BY <1>2, <1>3, <1>5, <2>1 DEF Merged
<1>18. CASE Passed(p, q)
  <2>1. UNCHANGED <<entries, first, next>> /\ iter' = q /\ r[Len(r)].char # y[1].char
    BY <1>7, <1>8, <1>9, <1>18 DEF Passed
  <2>2. Rems' = Rems
    <3>1. \A n : Rem(n)' = Rem(n)
      BY <2>1 DEF Rem
    <3> QED BY <1>4, <3>1 DEF Rems
  <2>3. UpTo(Rems, q) = x \o y
    <3>1. \A l \in p + 1 .. q - 1 : Rems[l] = <<>>
      <4>1. \A l \in p + 1 .. q - 1 : l \in 1 .. N
        BY <1>6, <1>7
      <4> QED BY <1>6, <1>7, <4>1
    <3>2. UpTo(Rems, q - 1) = UpTo(Rems, p)
      BY <1>6, <1>12, <3>1, UpToSkip
    <3>3. UpTo(Rems, q) = UpTo(Rems, q - 1) \o Rems[q]
      BY <1>6, <1>12, UpToFacts
    <3> QED BY <1>6, <1>7, <1>8, <1>11, <1>12, <3>2, <3>3
  <2>4. Canonical(x \o y)
    BY <1>13, <1>16, <2>1, CanonicalConcat
  <2>5. Merged'
    BY <1>3, <1>4, <1>17, <2>1, <2>2, <2>3, <2>4 DEF Merged
  <2> QED BY <1>3, <1>4, <1>5, <2>1, <2>5 DEF CodeInv, Writing
<1>19. CASE Moved(p, q)
  <2>1. PICK tt : tt = Rems'
    OBVIOUS
  <2>2. PICK c : c = y[1].count
    OBVIOUS
  <2>3. /\ tt \in Seq(Seq(Run)) /\ Len(tt) = N /\ c \in Nat
        /\ \A n \in 1 .. N : n # p /\ n # q => tt[n] = Rems[n]
        /\ tt[p] = BumpLast(r, c) /\ tt[q] = Rest(y, 1)
    BY <1>1, <1>2, <1>3, <1>4, <1>5, <1>8, <1>9, <1>19, <2>1, <2>2, MovedRun
  <2>4. UpTo(tt, p - 1) = u
    <3>1. \A l \in 1 .. p - 1 : l \in 1 .. N /\ l # p /\ l # q
      BY <1>6, <1>7
    <3>2. \A l \in 1 .. p - 1 : tt[l] = Rems[l]
      BY <2>3, <3>1
    <3> QED BY <1>6, <1>10, <1>12, <2>3, <3>2, UpToSame
  <2>5. UpTo(tt, p) = BumpLast(x, c)
    <3>1. UpTo(tt, p) = UpTo(tt, p - 1) \o tt[p]
      BY <1>12, <2>3, UpToFacts
    <3>2. u \o BumpLast(r, c) = BumpLast(u \o r, c)
      BY <1>13, <1>14, <2>3, ConcatBump
    <3> QED BY <1>15, <2>3, <2>4, <3>1, <3>2
  <2>6. PICK z : z = BumpLast(x, c)
    OBVIOUS
  <2>7. z \in Seq(Run) /\ z # <<>> /\ Canonical(z) /\ z[Len(z)].char = y[1].char
    <3>1. z \in Seq(Run) /\ z # <<>> /\ Canonical(z) /\ z[Len(z)].char = x[Len(x)].char
      BY <1>16, <2>3, <2>6, CanonicalBump
    <3>2. r[Len(r)].char = y[1].char
      BY <1>7, <1>8, <1>9, <1>19 DEF Moved
    <3> QED BY <1>16, <3>1, <3>2
  <2>8. \A n \in 1 .. N : entries'[n] # <<>>
    <3>1. entries'[p] = BumpLast(entries[p], c)
      BY <1>8, <1>19, <2>2 DEF Moved
    <3>2. PICK e : e = entries[p]
      OBVIOUS
    <3>3. e \in Seq(Run) /\ e # <<>>
      BY <1>5, <1>6, <1>7, <3>2
    <3>4. BumpLast(e, c) \in Seq(Run) /\ Len(BumpLast(e, c)) = Len(e) /\ Len(e) >= 1
      BY <2>3, <3>3, BumpLastIs
    <3>5. entries'[p] # <<>>
      BY <3>1, <3>2, <3>3, <3>4
    <3> QED BY <1>5, <1>6, <1>19, <3>5 DEF Moved
  <2>9. \A m \in next[q] .. N : Canonical(entries'[m])
    <3>1. \A m \in next[q] .. N : entries'[m] = entries[m]
      BY <1>6, <1>17, <1>19 DEF Moved
    <3> QED BY <1>17, <3>1
  <2>10. CASE Len(y) = 1
    <3>1. next' = [next EXCEPT ![p] = next[q]] /\ iter' = p
      BY <1>8, <1>19, <2>10 DEF Moved
    <3>2. next'[p] = next[q]
      BY <1>6, <1>7, <3>1 DEF TypeInv, TypeOK
    <3>3. Merged'
      BY <1>3, <1>4, <2>1, <2>5, <2>6, <2>7, <2>9, <3>1, <3>2 DEF Merged
    <3> QED BY <1>3, <1>4, <1>5, <2>8, <3>3 DEF CodeInv, Writing
  <2>11. CASE Len(y) # 1
    <3>1. iter' = q /\ next' = next
      BY <1>8, <1>19, <2>11 DEF Moved
    <3>2. PICK ly : ly = Len(y)
      OBVIOUS
    <3>3. ly \in Nat /\ ly # 0 /\ ly # 1
      BY <1>13, <2>11, <3>2
    <3>4. ly > 1
      BY <3>3
    <3>5. PICK t : t = Rest(y, 1)
      OBVIOUS
    <3>6. t \in Seq(Run) /\ t # <<>> /\ Canonical(t) /\ y[1].char # t[1].char
      BY <1>13, <3>2, <3>4, <3>5, CanonicalRest
    <3>7. Canonical(z \o t)
      BY <2>7, <3>6, CanonicalConcat
    <3>8. UpTo(tt, q) = z \o t
      <4>1. \A l \in p + 1 .. q - 1 : tt[l] = <<>>
        <5>1. \A l \in p + 1 .. q - 1 : l \in 1 .. N /\ l # p /\ l # q
          BY <1>6, <1>7
        <5> QED BY <1>6, <1>7, <2>3, <5>1
      <4>2. UpTo(tt, q - 1) = UpTo(tt, p)
        BY <1>12, <2>3, <4>1, UpToSkip
      <4>3. UpTo(tt, q) = UpTo(tt, q - 1) \o tt[q]
        BY <1>12, <2>3, UpToFacts
      <4> QED BY <2>3, <2>5, <2>6, <3>5, <4>2, <4>3
    <3>9. Merged'
      BY <1>3, <1>4, <2>1, <2>9, <3>1, <3>7, <3>8 DEF Merged
    <3> QED BY <1>3, <1>4, <1>5, <2>8, <3>9 DEF CodeInv, Writing
  <2> QED BY <2>10, <2>11
<1> QED BY <1>1, <1>2, <1>4, <1>5, <1>18, <1>19, MergeOutcome

(* The end of merge: what lies behind the last run is empty, so the whole list
   is an encoding, and the only one of its text. *)
LEMMA MergeEndCode ==
    ASSUME TypeInv, SpawnInv, ListInv, CodeInv, MergeEnd
    PROVE  CodeInv'
<1>1. PICK p : p = iter
  OBVIOUS
<1>2. PICK q : q = next[iter]
  OBVIOUS
<1>3. PICK N : N = total_threads
  OBVIOUS
<1>4. /\ mpc = "merge" /\ mpc' = "write" /\ ~MergeGo /\ iter' = 1 /\ k' = first[1]
      /\ UNCHANGED <<files, total_threads, entries, first, next, out>>
  BY DEF MergeEnd, mainVars
<1>5. /\ Linked /\ AtRun /\ Merged /\ out = <<>> /\ \A n \in 1 .. N : entries[n] # <<>>
      /\ Expand(FlattenSeq(Rems)) = TextOf(files)
  BY <1>3, <1>4 DEF ListInv, CodeInv, AfterPoll, Writing
<1>6. /\ N \in Nat
      /\ \A n \in 1 .. N : n \in Node /\ Rems[n] = Rem(n) /\ entries[n] \in Seq(Run)
      /\ \A n \in Node : first[n] \in {0, 1}
      /\ Rems \in Seq(Seq(Run)) /\ Len(Rems) = N /\ N # 0
  BY <1>3, <1>5, RemFacts DEF Linked
<1>7. p \in 1 .. N /\ q \in p + 1 .. N + 1 /\ \A m \in p + 1 .. q - 1 : Rem(m) = <<>>
  BY <1>1, <1>2, <1>3, <1>5 DEF Linked, AtRun
<1>8. q = N + 1
  <2>1. q # 0
    BY <1>6, <1>7
  <2>2. entries[q] = <<>>
    BY <1>2, <1>4, <2>1 DEF MergeGo, NULL
  <2>3. ~(q \in 1 .. N)
    BY <1>5, <2>2
  <2> QED BY <1>6, <1>7, <2>3
<1>9. p \in 0 .. N /\ N \in p .. N /\ N \in 0 .. N /\ q - 1 = N /\ 0 \in 0 .. N
      /\ 1 \in 1 .. N
  BY <1>6, <1>7, <1>8
<1>10. FlattenSeq(Rems) = UpTo(Rems, p)
  <2>1. \A m \in p + 1 .. N : Rems[m] = <<>>
    <3>1. \A m \in p + 1 .. N : m \in 1 .. N
      BY <1>6, <1>7
    <3> QED BY <1>6, <1>7, <1>9, <3>1
  <2>2. UpTo(Rems, N) = UpTo(Rems, p)
    BY <1>6, <1>9, <2>1, UpToSkip
  <2>3. UpTo(Rems, N) = FlattenSeq(Rems)
    BY <1>6, <1>9, UpToFacts
  <2> QED BY <2>2, <2>3
<1>11. FlattenSeq(Rems) = Rle(TextOf(files))
  <2>1. PICK c : c = FlattenSeq(Rems)
    OBVIOUS
  <2>2. c \in Seq(Run)
    BY <1>6, <1>9, <1>10, <2>1, UpToFacts
  <2>3. Canonical(c)
    BY <1>1, <1>5, <1>10, <2>1 DEF Merged
  <2> QED BY <1>5, <2>1, <2>2, <2>3, CanonicalRle
<1>12. Rems' = Rems
  <2>1. \A n : Rem(n)' = Rem(n)
    BY <1>4 DEF Rem
  <2> QED BY <1>4, <2>1 DEF Rems
<1>13. Written'
  <2>1. UpTo(Rems, 0) = <<>>
    BY <1>6, <1>9, UpToFacts
  <2>2. PICK d : d = first[1]
    OBVIOUS
  <2>3. PICK e : e = entries[1]
    OBVIOUS
  <2>4. d \in {0, 1} /\ e \in Seq(Run) /\ e # <<>>
    BY <1>5, <1>6, <1>9, <2>2, <2>3
  <2>5. d <= d /\ d <= Len(e) /\ d - d = 0
    BY <2>4
  <2>6. first'[iter'] = d /\ k' = d /\ entries'[iter'] = e /\ iter' = 1 /\ out' = <<>>
    BY <1>4, <1>5, <2>2, <2>3
  <2>7. 1 \in 1 .. N + 1 /\ 1 - 1 = 0 /\ Len(<<>>) = 0 /\ 0 + 0 = 0 /\ 1 .. 0 = {}
    BY <1>6
  <2>8. Len(out') = Len(UpTo(Rems', iter' - 1)) + (k' - first'[iter'])
    BY <1>12, <2>1, <2>5, <2>6, <2>7
  <2>9. \A l \in 1 .. Len(out') : out'[l] = FlattenSeq(Rems')[l]
    BY <2>6, <2>7
  <2>10. total_threads' = N
    BY <1>3, <1>4
  <2> QED BY <2>5, <2>6, <2>7, <2>8, <2>9, <2>10 DEF Written
<1> QED BY <1>3, <1>4, <1>5, <1>11, <1>12, <1>13 DEF CodeInv, Writing

(* Where write_results is: at the runs e, from d on, of the node p; the nodes
   before p say u, and those up to p say x. *)
WritesAt(p, e, d, u, x) ==
    /\ p \in 1 .. total_threads /\ next[p] \in p + 1 .. total_threads + 1
    /\ \A m \in p + 1 .. next[p] - 1 : Rem(m) = <<>>
    /\ e \in Seq(Run) /\ e # <<>> /\ d \in {0, 1} /\ d <= k /\ k <= Len(e)
    /\ u \in Seq(Run) /\ x \in Seq(Run)
    /\ Len(x) = Len(u) + (Len(e) - d)
    /\ \A l \in 1 .. Len(e) - d : x[Len(u) + l] = e[l + d]
    /\ Len(out) = Len(u) + (k - d)
    /\ Len(x) <= Len(FlattenSeq(Rems))
    /\ \A l \in 1 .. Len(x) : FlattenSeq(Rems)[l] = x[l]

LEMMA WriteAt ==
    ASSUME TypeInv, SpawnInv, Linked, Written, WriteGo,
           NEW p, p = iter, NEW e, e = entries[iter], NEW d, d = first[iter],
           NEW u, u = UpTo(Rems, iter - 1), NEW x, x = UpTo(Rems, iter)
    PROVE  WritesAt(p, e, d, u, x)
<1>1. PICK N : N = total_threads
  OBVIOUS
<1>2. PICK ss : ss = Rems
  OBVIOUS
<1>3. /\ N \in Nat /\ MaxThreadIds \in Nat /\ N <= MaxThreadIds
      /\ \A n \in 1 .. N : n \in Node /\ ss[n] = Rem(n)
      /\ \A n \in Node : entries[n] \in Seq(Run) /\ first[n] \in {0, 1}
      /\ ss \in Seq(Seq(Run)) /\ Len(ss) = N
  BY <1>1, <1>2, RemFacts
<1>4. /\ p \in 1 .. N + 1 /\ d <= k /\ (p <= N => k <= Len(e))
      /\ Len(out) = Len(u) + (k - d)
  BY <1>1 DEF Written
<1>5. p \in 1 .. N
  <2>1. p \in Node
    BY <1>3, <1>4 DEF Node
  <2>2. ~(p > N)
    BY <1>1, <2>1 DEF Linked, WriteGo
  <2> QED BY <1>3, <1>4, <2>2
<1>6. next[p] \in p + 1 .. N + 1 /\ \A m \in p + 1 .. next[p] - 1 : Rem(m) = <<>>
  BY <1>1, <1>5 DEF Linked
<1>7. e \in Seq(Run) /\ e # <<>> /\ d \in {0, 1} /\ k <= Len(e)
  <2>1. p <= N
    BY <1>3, <1>5
  <2> QED BY <1>3, <1>4, <1>5, <2>1 DEF WriteGo
<1>8. p \in 0 .. N /\ p - 1 \in 0 .. N /\ p # 0 /\ N \in p .. N /\ N \in 0 .. N
  BY <1>3, <1>5
<1>9. PICK r : r = Rest(e, d)
  OBVIOUS
<1>10. u \in Seq(Run) /\ x \in Seq(Run) /\ x = u \o r
  <2>1. u \in Seq(Run) /\ x \in Seq(Run)
    BY <1>2, <1>3, <1>8, UpToFacts
  <2>2. x = u \o ss[p]
    BY <1>2, <1>3, <1>8, UpToFacts
  <2>3. ss[p] = r
    BY <1>3, <1>5, <1>9 DEF Rem
  <2> QED BY <2>1, <2>2, <2>3
<1>11. /\ r \in Seq(Run) /\ Len(r) = Len(e) - d
       /\ \A l \in 1 .. Len(e) - d : r[l] = e[l + d]
  <2>1. r \in Seq(Run) /\ (r = <<>> <=> Len(e) <= d)
        /\ (Len(e) > d => Len(r) = Len(e) - d /\ \A l \in 1 .. Len(e) - d : r[l] = e[l + d])
    BY <1>7, <1>9, RestFacts
  <2>2. CASE Len(e) > d
    BY <2>1, <2>2
  <2>3. CASE ~(Len(e) > d)
    <3>1. PICK n : n = Len(e)
      OBVIOUS
    <3>2. n \in Nat /\ n # 0
      BY <1>7, <3>1
    <3>3. n = d /\ d \in Nat
      BY <1>7, <2>3, <3>1, <3>2
    <3>4. r = <<>> /\ Len(e) - d = 0 /\ Len(r) = 0
      BY <2>1, <3>1, <3>3
    <3> QED BY <2>1, <3>4
  <2> QED BY <2>2, <2>3
<1>12. /\ Len(x) = Len(u) + Len(r)
       /\ \A l \in 1 .. Len(r) : x[Len(u) + l] = r[l]
  <2>1. Len(x) = Len(u) + Len(r)
    BY <1>10, <1>11, ConcatProperties
  <2>2. \A l \in 1 .. Len(r) : (u \o r)[Len(u) + l] = r[l]
    BY <1>10, <1>11
  <2> QED BY <1>10, <2>1, <2>2
<1>13. Len(x) = Len(u) + (Len(e) - d)
  BY <1>11, <1>12
<1>14. \A l \in 1 .. Len(e) - d : x[Len(u) + l] = e[l + d]
  BY <1>11, <1>12
<1>15. /\ Len(x) <= Len(FlattenSeq(Rems))
       /\ \A l \in 1 .. Len(x) : FlattenSeq(Rems)[l] = x[l]
  <2>1. UpTo(ss, N) = FlattenSeq(ss)
    BY <1>3, <1>8, UpToFacts
  <2>2. /\ Len(UpTo(ss, p)) <= Len(UpTo(ss, N))
        /\ \A l \in 1 .. Len(UpTo(ss, p)) : UpTo(ss, N)[l] = UpTo(ss, p)[l]
    BY <1>3, <1>8, UpToMore
  <2>3. x = UpTo(ss, p)
    BY <1>2
  <2> QED BY <1>2, <2>1, <2>2, <2>3
<1> QED BY <1>1, <1>4, <1>5, <1>6, <1>7, <1>10, <1>13, <1>14, <1>15 DEF WritesAt

(* The run write_results writes is the next one of the list.                 *)
LEMMA WriteEntryIs ==
    ASSUME TypeInv, SpawnInv, Linked, Written, WriteEntry
    PROVE  /\ Len(out) \in Nat /\ Len(out) < Len(FlattenSeq(Rems))
           /\ out' = Append(out, FlattenSeq(Rems)[Len(out) + 1])
<1>1. PICK p : p = iter
  OBVIOUS
<1>2. PICK e : e = entries[iter]
  OBVIOUS
<1>3. PICK d : d = first[iter]
  OBVIOUS
<1>4. PICK u : u = UpTo(Rems, iter - 1)
  OBVIOUS
<1>5. PICK x : x = UpTo(Rems, iter)
  OBVIOUS
<1>6. WriteGo /\ k < Len(e) /\ out' = Append(out, e[k + 1]) /\ k \in Nat
  BY <1>2 DEF WriteEntry, TypeInv, TypeOK
<1>7. /\ e \in Seq(Run) /\ e # <<>> /\ d \in {0, 1} /\ d <= k /\ k <= Len(e)
      /\ u \in Seq(Run) /\ x \in Seq(Run)
      /\ Len(x) = Len(u) + (Len(e) - d)
      /\ \A l \in 1 .. Len(e) - d : x[Len(u) + l] = e[l + d]
      /\ Len(out) = Len(u) + (k - d)
      /\ Len(x) <= Len(FlattenSeq(Rems))
      /\ \A l \in 1 .. Len(x) : FlattenSeq(Rems)[l] = x[l]
  <2>1. WritesAt(p, e, d, u, x)
    BY <1>1, <1>2, <1>3, <1>4, <1>5, <1>6, WriteAt
  <2> QED BY <2>1 DEF WritesAt
<1>8. PICK le : le = Len(e)
  OBVIOUS
<1>9. PICK lu : lu = Len(u)
  OBVIOUS
<1>10. PICK lx : lx = Len(x)
  OBVIOUS
<1>11. PICK c : c = FlattenSeq(Rems)
  OBVIOUS
<1>12. PICK lo : lo = Len(out)
  OBVIOUS
<1>13. /\ le \in Nat /\ lu \in Nat /\ lx \in Nat /\ d \in Nat /\ k \in Nat
       /\ lx = lu + (le - d) /\ lo = lu + (k - d) /\ d <= k /\ k < le
  BY <1>6, <1>7, <1>8, <1>9, <1>10, <1>12
<1>14. /\ (k - d) + 1 \in 1 .. le - d /\ lu + ((k - d) + 1) = lo + 1
       /\ ((k - d) + 1) + d = k + 1 /\ lo + 1 \in 1 .. lx /\ lo \in Nat /\ lo < lx
  BY <1>13
<1>15. x[lo + 1] = e[k + 1]
  <2>1. PICK m : m = (k - d) + 1
    OBVIOUS
  <2>2. m \in 1 .. le - d /\ lu + m = lo + 1 /\ m + d = k + 1
    BY <1>14, <2>1
  <2>3. x[lu + m] = e[m + d]
    BY <1>7, <1>8, <1>9, <2>2
  <2> QED BY <2>2, <2>3
<1>16. c[lo + 1] = e[k + 1]
  BY <1>7, <1>10, <1>11, <1>14, <1>15
<1>17. lo < Len(c)
  <2>1. c \in Seq(Run)
    <3>1. /\ Rems \in Seq(Seq(Run)) /\ Len(Rems) = total_threads
          /\ total_threads \in Nat
      BY RemFacts
    <3>2. Len(Rems) \in 0 .. Len(Rems)
      BY <3>1
    <3>3. UpTo(Rems, Len(Rems)) = FlattenSeq(Rems) /\ UpTo(Rems, Len(Rems)) \in Seq(Run)
      BY <3>1, <3>2, UpToFacts
    <3> QED BY <1>11, <3>3
  <2>2. PICK lc : lc = Len(c)
    OBVIOUS
  <2>3. lc \in Nat /\ lx <= lc
    BY <1>7, <1>10, <1>11, <2>1, <2>2
  <2> QED BY <1>13, <1>14, <2>2, <2>3
<1> QED BY <1>6, <1>11, <1>12, <1>14, <1>16, <1>17

LEMMA WriteEntryCode ==
    ASSUME TypeInv, SpawnInv, ListInv, CodeInv, WriteEntry
    PROVE  CodeInv'
<1>1. /\ mpc = "write" /\ mpc' = "write" /\ WriteGo /\ k' = k + 1 /\ iter' = iter
      /\ UNCHANGED <<files, total_threads, entries, first, next>>
      /\ k < Len(entries[iter])
  BY DEF WriteEntry, mainVars
<1>2. Linked /\ Written
  BY <1>1 DEF ListInv, CodeInv, AfterPoll
<1>3. PICK c : c = FlattenSeq(Rems)
  OBVIOUS
<1>4. Len(out) \in Nat /\ Len(out) < Len(c) /\ out' = Append(out, c[Len(out) + 1])
  BY <1>2, <1>3, WriteEntryIs
<1>5. Rems' = Rems
  <2>1. \A n : Rem(n)' = Rem(n)
    BY <1>1 DEF Rem
  <2> QED BY <1>1, <2>1 DEF Rems
<1>6. PICK lo : lo = Len(out)
  OBVIOUS
<1>7. out \in Seq(Run) /\ lo \in Nat /\ \A l \in 1 .. lo : out[l] = c[l]
  BY <1>2, <1>3, <1>6 DEF Written, TypeInv, TypeOK
<1>8. out' = Append(out, c[lo + 1])
  BY <1>4, <1>6
<1>9. Len(out') = lo + 1 /\ out'[lo + 1] = c[lo + 1] /\ \A l \in 1 .. lo : out'[l] = out[l]
  BY <1>6, <1>7, <1>8
<1>10. \A l \in 1 .. Len(out') : out'[l] = FlattenSeq(Rems')[l]
  <2>1. \A l \in 1 .. lo + 1 : l \in 1 .. lo \/ l = lo + 1
    BY <1>7
  <2> QED BY <1>3, <1>5, <1>7, <1>9, <2>1
<1>11. /\ iter \in 1 .. total_threads /\ total_threads \in Nat
       /\ Len(UpTo(Rems, iter - 1)) \in Nat /\ first[iter] \in {0, 1}
  <2>1. PICK u : u = UpTo(Rems, iter - 1)
    OBVIOUS
  <2>2. PICK x : x = UpTo(Rems, iter)
    OBVIOUS
  <2>3. PICK e : e = entries[iter]
    OBVIOUS
  <2>4. PICK d : d = first[iter]
    OBVIOUS
  <2>5. PICK p : p = iter
    OBVIOUS
  <2>6. p \in 1 .. total_threads /\ u \in Seq(Run) /\ d \in {0, 1}
    <3>1. WritesAt(p, e, d, u, x)
      BY <1>1, <1>2, <2>1, <2>2, <2>3, <2>4, <2>5, WriteAt
    <3> QED BY <3>1 DEF WritesAt
  <2>7. Len(u) \in Nat /\ total_threads \in Nat
    BY <2>6 DEF TypeInv, TypeOK
  <2> QED BY <2>1, <2>4, <2>5, <2>6, <2>7
<1>12. Written'
  <2>1. PICK lu : lu = Len(UpTo(Rems, iter - 1))
    OBVIOUS
  <2>2. PICK d : d = first[iter]
    OBVIOUS
  <2>3. PICK le : le = Len(entries[iter])
    OBVIOUS
  <2>4. k \in Nat /\ le \in Nat /\ lu \in Nat /\ d \in Nat /\ lo = lu + (k - d) /\ d <= k /\ k < le
    <3>1. entries[iter] \in Seq(Run) /\ k \in Nat
      BY <1>11, RemFacts DEF TypeInv, TypeOK
    <3>2. le \in Nat
      BY <2>3, <3>1
    <3> QED BY <1>1, <1>2, <1>6, <1>11, <2>1, <2>2, <2>3, <3>1, <3>2 DEF Written
  <2>5. d <= k + 1 /\ k + 1 <= le /\ lo + 1 = lu + ((k + 1) - d)
    BY <2>4
  <2>6. iter \in 1 .. total_threads + 1 /\ iter # total_threads + 1
    BY <1>11
  <2> QED BY <1>1, <1>5, <1>9, <1>10, <2>1, <2>2, <2>3, <2>5, <2>6 DEF Written
<1>13. \A n \in 1 .. total_threads' : entries'[n] # <<>>
  BY <1>1 DEF CodeInv, AfterPoll
<1>14. FlattenSeq(Rems') = Rle(TextOf(files'))
  BY <1>1, <1>5 DEF CodeInv, Writing
<1> QED BY <1>1, <1>12, <1>13, <1>14 DEF CodeInv, Writing

LEMMA WriteNodeCode ==
    ASSUME TypeInv, SpawnInv, ListInv, CodeInv, WriteNode
    PROVE  CodeInv'
<1>1. /\ mpc = "write" /\ mpc' = "write" /\ WriteGo
      /\ UNCHANGED <<files, total_threads, entries, first, next, out>>
      /\ k >= Len(entries[iter])
  BY DEF WriteNode, mainVars
<1>2. Linked /\ Written
  BY <1>1 DEF ListInv, CodeInv, AfterPoll
<1>3. Rems' = Rems
  <2>1. \A n : Rem(n)' = Rem(n)
    BY <1>1 DEF Rem
  <2> QED BY <1>1, <2>1 DEF Rems
<1>4. PICK p : p = iter
  OBVIOUS
<1>5. PICK q : q = next[iter]
  OBVIOUS
<1>6. PICK e : e = entries[iter]
  OBVIOUS
<1>7. PICK d : d = first[iter]
  OBVIOUS
<1>8. PICK u : u = UpTo(Rems, iter - 1)
  OBVIOUS
<1>9. PICK x : x = UpTo(Rems, iter)
  OBVIOUS
<1>10. PICK N : N = total_threads
  OBVIOUS
<1>11. PICK f : f = first[q]
  OBVIOUS
<1>12. iter' = q /\ k' = f
  BY <1>5, <1>11 DEF WriteNode
<1>13. /\ p \in 1 .. N /\ q \in p + 1 .. N + 1
       /\ \A m \in p + 1 .. q - 1 : Rem(m) = <<>>
       /\ e \in Seq(Run) /\ d \in {0, 1} /\ d <= k /\ k <= Len(e)
       /\ u \in Seq(Run) /\ x \in Seq(Run)
       /\ Len(x) = Len(u) + (Len(e) - d)
       /\ Len(out) = Len(u) + (k - d)
  <2>1. WritesAt(p, e, d, u, x)
    BY <1>1, <1>2, <1>4, <1>6, <1>7, <1>8, <1>9, WriteAt
  <2> QED BY <1>4, <1>5, <1>10, <2>1 DEF WritesAt
<1>14. /\ N \in Nat /\ MaxThreadIds \in Nat /\ N <= MaxThreadIds
       /\ \A n \in 1 .. N : n \in Node /\ Rems[n] = Rem(n) /\ entries[n] \in Seq(Run)
       /\ \A n \in Node : entries[n] \in Seq(Run) /\ first[n] \in {0, 1}
       /\ Rems \in Seq(Seq(Run)) /\ Len(Rems) = N
  BY <1>10, RemFacts
<1>15. p \in 0 .. N /\ q - 1 \in p .. N /\ q \in 1 .. N + 1 /\ q \in Nat
  BY <1>13, <1>14
<1>16. q \in Node
  BY <1>14, <1>15 DEF Node
<1>17. f \in {0, 1}
  BY <1>11, <1>14, <1>16
<1>18. Len(out) = Len(x)
  <2>1. PICK le : le = Len(e)
    OBVIOUS
  <2>2. le \in Nat /\ k \in Nat /\ k <= le /\ k >= le
    BY <1>1, <1>6, <1>13, <2>1 DEF TypeInv, TypeOK
  <2>3. k = le
    BY <2>2
  <2> QED BY <1>13, <2>1, <2>3
<1>19. UpTo(Rems, q - 1) = x
  <2>1. \A m \in p + 1 .. q - 1 : Rems[m] = <<>>
    <3>1. \A m \in p + 1 .. q - 1 : m \in 1 .. N
      BY <1>13, <1>14
    <3> QED BY <1>13, <1>14, <3>1
  <2>2. UpTo(Rems, q - 1) = UpTo(Rems, p)
    BY <1>14, <1>15, <2>1, UpToSkip
  <2> QED BY <1>4, <1>9, <2>2
<1>20. Len(x) = Len(x) + (f - f) /\ f <= f
  <2>1. Len(x) \in Nat
    BY <1>13
  <2> QED BY <1>17, <2>1
<1>21. q <= N => f <= Len(entries[q])
  <2> SUFFICES ASSUME q <= N PROVE f <= Len(entries[q])
    OBVIOUS
  <2>1. q \in 1 .. N
    BY <1>14, <1>15
  <2>2. PICK ee : ee = entries[q]
    OBVIOUS
  <2>3. ee \in Seq(Run) /\ ee # <<>>
    BY <1>1, <1>10, <1>14, <2>1, <2>2 DEF CodeInv, AfterPoll
  <2>4. PICK n : n = Len(ee)
    OBVIOUS
  <2>5. n \in Nat /\ n # 0
    BY <2>3, <2>4
  <2>6. f <= n
    BY <1>17, <2>5
  <2> QED BY <2>2, <2>4, <2>6
<1>22. Written'
  <2>1. first'[iter'] = f /\ entries'[iter'] = entries[q] /\ total_threads' = N
        /\ UpTo(Rems', iter' - 1) = x
    BY <1>1, <1>3, <1>10, <1>11, <1>12, <1>19
  <2>2. \A l \in 1 .. Len(out') : out'[l] = FlattenSeq(Rems')[l]
    BY <1>1, <1>2, <1>3 DEF Written
  <2> QED BY <1>1, <1>12, <1>15, <1>18, <1>20, <1>21, <2>1, <2>2 DEF Written
<1>23. \A n \in 1 .. total_threads' : entries'[n] # <<>>
  BY <1>1 DEF CodeInv, AfterPoll
<1>24. FlattenSeq(Rems') = Rle(TextOf(files'))
  BY <1>1, <1>3 DEF CodeInv, Writing
<1> QED BY <1>1, <1>22, <1>23, <1>24 DEF CodeInv, Writing

LEMMA WriteEndCode ==
    ASSUME TypeInv, SpawnInv, ListInv, CodeInv, WriteEnd
    PROVE  CodeInv'
<1>1. /\ mpc = "write" /\ mpc' = "destroy" /\ ~WriteGo
      /\ UNCHANGED <<files, total_threads, entries, first, next, out>>
  BY DEF WriteEnd, mainVars, listVars
<1>2. Linked /\ Written /\ \A n \in 1 .. total_threads : entries[n] # <<>>
  BY <1>1 DEF ListInv, CodeInv, AfterPoll
<1>3. PICK c : c = FlattenSeq(Rems)
  OBVIOUS
<1>4. /\ total_threads \in Nat /\ Rems \in Seq(Seq(Run)) /\ Len(Rems) = total_threads
  BY RemFacts
<1>5. iter = total_threads + 1
  <2>1. PICK p : p = iter
    OBVIOUS
  <2>2. PICK N : N = total_threads
    OBVIOUS
  <2>3. ASSUME p \in 1 .. N PROVE FALSE
    <3>1. next[p] \in p + 1 .. N + 1 /\ entries[p] # <<>>
      BY <1>2, <2>2, <2>3 DEF Linked
    <3>2. next[p] # 0
      BY <2>3, <3>1
    <3> QED BY <1>1, <2>1, <3>1, <3>2 DEF WriteGo, NULL
  <2>4. p \in 1 .. N + 1 /\ N \in Nat
    BY <1>2, <1>4, <2>1, <2>2 DEF Written
  <2>5. p = N + 1
    BY <2>3, <2>4
  <2> QED BY <2>1, <2>2, <2>5
<1>6. Len(out) = Len(c) /\ c \in Seq(Run) /\ \A l \in 1 .. Len(out) : out[l] = c[l]
  <2>1. total_threads \in 0 .. Len(Rems) /\ (total_threads + 1) - 1 = total_threads
    BY <1>4
  <2>2. UpTo(Rems, total_threads) = c /\ c \in Seq(Run)
    BY <1>3, <1>4, <2>1, UpToFacts
  <2>3. PICK d : d = first[iter]
    OBVIOUS
  <2>4. k = d /\ Len(out) = Len(c) + (k - d) /\ k \in Nat
    BY <1>2, <1>5, <2>1, <2>2, <2>3 DEF Written, TypeInv, TypeOK
  <2>5. Len(c) \in Nat /\ d - d = 0
    BY <2>2, <2>4
  <2>6. Len(out) = Len(c)
    BY <2>4, <2>5
  <2> QED BY <1>2, <1>3, <2>2, <2>6 DEF Written
<1>7. out = c
  <2>1. out \in Seq(Run)
    BY DEF TypeInv, TypeOK
  <2> QED BY <1>6, <2>1, SeqEqual
<1>8. Rems' = Rems
  <2>1. \A n : Rem(n)' = Rem(n)
    BY <1>1 DEF Rem
  <2> QED BY <1>1, <2>1 DEF Rems
<1>9. FlattenSeq(Rems) = Rle(TextOf(files))
  BY <1>1 DEF CodeInv, Writing
<1> QED BY <1>1, <1>2, <1>3, <1>7, <1>8, <1>9 DEF CodeInv, Writing

LEMMA CodeKept ==
    ASSUME TypeInv, SafetyInv, CutInv, EncodeInv, ListInv, CodeInv, [Next]_vars, SafetyInv',
           HaveText(FileLists)
    PROVE  CodeInv'
<1>1. ASSUME mpc' \notin AfterPoll, mpc \notin AfterPoll, out' = out PROVE CodeInv'
  BY <1>1 DEF CodeInv, Writing, AfterPoll
<1>2. CASE OpenFile \/ SemWait \/ CreateThread
  BY <1>1, <1>2 DEF OpenFile, SemWait, CreateThread, AfterPoll, listVars
<1>3. CASE PollAgain
  BY <1>1, <1>3 DEF PollAgain, vars, AfterPoll, listVars
<1>4. CASE Poll
  BY <1>4, PollCode
<1>5. CASE MergeStep
  BY <1>5, MergeCode DEF SafetyInv
<1>6. CASE MergeEnd
  BY <1>6, MergeEndCode DEF SafetyInv
<1>7. CASE WriteEntry
  BY <1>7, WriteEntryCode DEF SafetyInv
<1>8. CASE WriteNode
  BY <1>8, WriteNodeCode DEF SafetyInv
<1>9. CASE WriteEnd
  BY <1>9, WriteEndCode DEF SafetyInv
<1>10. CASE Exit
  <2>1. /\ mpc = "destroy" /\ mpc' = "exited"
        /\ UNCHANGED <<files, total_threads, entries, first, next, out>>
    BY <1>10 DEF Exit, mainVars, listVars
  <2>2. Rems' = Rems
    <3>1. \A n : Rem(n)' = Rem(n)
      BY <2>1 DEF Rem
    <3> QED BY <2>1, <3>1 DEF Rems
  <2> QED BY <2>1, <2>2 DEF CodeInv, Writing, AfterPoll
<1>11. ASSUME NEW w \in Worker, ThreadRle(w) PROVE CodeInv'
  <2>1. mpc' = mpc /\ UNCHANGED mainVars /\ UNCHANGED <<first, next, iter, k, out>>
    BY <1>11 DEF ThreadRle, FirstByte, NextByte, LastRun, Lock, LoadDone, StoreDone, Unlock,
                 SemPost, listVars
  <2>2. CASE mpc \notin AfterPoll
    BY <1>1, <2>1, <2>2
  <2>3. CASE mpc \in AfterPoll
    <3>1. ~FirstByte(w) /\ ~NextByte(w) /\ ~LastRun(w)
      BY <2>3, LateThreads
    <3>2. entries' = entries
      BY <1>11, <3>1 DEF ThreadRle, Lock, LoadDone, StoreDone, Unlock, SemPost, listVars
    <3> QED BY <2>1, <3>2, FrameCode DEF mainVars
  <2> QED BY <2>2, <2>3
<1>12. CASE UNCHANGED vars
  BY <1>12, FrameCode DEF vars, mainVars, listVars
<1> QED BY <1>2, <1>3, <1>4, <1>5, <1>6, <1>7, <1>8, <1>9, <1>10, <1>11, <1>12
        DEF Next, MainNext, Terminated

LEMMA TextFirst == HaveText(FileLists) => FirstHasText(FileLists)
<1> SUFFICES ASSUME HaveText(FileLists), NEW list \in FileLists PROVE list[1] # <<>>
  BY DEF FirstHasText
<1>1. list \in Seq(Seq(Char) \cup {Missing}) /\ list # <<>>
  BY FileListsAssumption
<1>2. 1 \in DOMAIN list
  BY <1>1
<1> QED BY <1>2 DEF HaveText

LEMMA CodeInvariant ==
    ASSUME HaveText(FileLists)
    PROVE  Spec => [](TextInv /\ CodeInv)
<1>1. Init => CodeInv
  BY DEF CodeInv, Init, AfterPoll, Writing
<1>2. TextInv /\ TextInv' /\ CodeInv /\ [Next]_vars => CodeInv'
  BY CodeKept DEF TextInv
<1>3. Spec => []TextInv
  BY TextFirst, TextInvariant
<1> QED BY <1>1, <1>2, <1>3, PTL DEF Spec

-----------------------------------------------------------------------------
(* wpzip.c writes what ZipStream promises.                                   *)
LEMMA StreamOperators ==
    /\ \A s : Stream!Rle(s) = Rle(s)
    /\ \A s : Stream!TextOf(s) = TextOf(s)
<1>1. ASSUME NEW s PROVE Stream!Rle(s) = Rle(s)
  BY DEF Stream!Rle, Rle, Stream!FoldLeft, FoldLeft, Stream!MapThenFoldSet, MapThenFoldSet,
         Stream!AddChar, AddChar, Stream!BumpLast, BumpLast, Stream!Bump, Bump,
         Stream!Max, Max, Stream!Last, Last
<1>2. ASSUME NEW s PROVE Stream!TextOf(s) = TextOf(s)
  BY DEF Stream!TextOf, TextOf, Stream!FlattenSeq, FlattenSeq
<1> QED BY <1>1, <1>2

(* Behind the loop that opens them every file has been opened, and what is to be
   written is the encoding of all of them. *)
LEMMA EncodingOfAll ==
    ASSUME TypeInv, CutInv, mpc \notin Opening
    PROVE  Stream!Readable /\ Stream!Encoding = Rle(TextOf(files))
<1>1. Len(files) \in Nat /\ DOMAIN files = 1 .. Len(files)
  BY FilesType DEF TypeInv
<1>2. i = Len(files) + 1 /\ Opened = i - 1
  BY DEF CutInv, Opened, Opening
<1>3. Opened = Len(files)
  BY <1>1, <1>2
<1>4. Stream!Readable
  BY <1>1, <1>3 DEF CutInv, Stream!Readable
<1> QED BY <1>4, StreamOperators DEF Stream!Encoding

LEMMA StreamStep ==
    ASSUME TypeInv, SafetyInv, CutInv, ListInv, CodeInv, [Next]_vars
    PROVE  Stream!Next \/ UNCHANGED <<files, out, status>>
<1>1. CASE OpenFile
  <2>1. mpc = "file" /\ files' = files /\ out' = out
    BY <1>1 DEF OpenFile, listVars
  <2>2. CASE files[i] = Missing
    <3>1. mpc' = "failed"
      BY <1>1, <2>2 DEF OpenFile
    <3>2. i \in DOMAIN files
      <4>1. Len(files) \in Nat /\ DOMAIN files = 1 .. Len(files)
        BY FilesType DEF TypeInv
      <4> QED BY <2>1, <4>1 DEF TypeInv, FileInv
    <3>3. ~Stream!Readable
      BY <2>2, <3>2 DEF Stream!Readable
    <3> QED BY <2>1, <3>1, <3>3 DEF Stream!Next, Stream!Fail, status, Alive
  <2>3. CASE files[i] # Missing
    <3>1. mpc' = "wait"
      BY <1>1, <2>3 DEF OpenFile
    <3> QED BY <2>1, <3>1 DEF status, Alive
  <2> QED BY <2>2, <2>3
<1>2. CASE SemWait \/ CreateThread \/ Poll
  BY <1>2 DEF SemWait, CreateThread, Poll, mainVars, listVars, status, Alive
<1>3. CASE MergeStep \/ MergeEnd \/ WriteNode \/ WriteEnd
  BY <1>3 DEF MergeStep, MergeEnd, WriteNode, WriteEnd, mainVars, listVars, status, Alive
<1>4. CASE WriteEntry
  <2>1. mpc = "write" /\ mpc' = "write" /\ files' = files
    BY <1>4 DEF WriteEntry, mainVars
  <2>2. Linked /\ Written /\ FlattenSeq(Rems) = Rle(TextOf(files))
    BY <2>1 DEF ListInv, CodeInv, AfterPoll, Writing
  <2>3. Stream!Encoding = FlattenSeq(Rems)
    BY <2>1, <2>2, EncodingOfAll DEF Opening
  <2>4. /\ Len(out) < Len(FlattenSeq(Rems))
        /\ out' = Append(out, FlattenSeq(Rems)[Len(out) + 1])
    BY <1>4, <2>2, WriteEntryIs DEF SafetyInv
  <2> QED BY <2>1, <2>3, <2>4 DEF Stream!Next, Stream!Emit, status, Alive
<1>5. CASE Exit
  <2>1. mpc = "destroy" /\ mpc' = "exited" /\ files' = files /\ out' = out
    BY <1>5 DEF Exit, mainVars, listVars
  <2>2. out = Rle(TextOf(files))
    BY <2>1 DEF CodeInv
  <2>3. Stream!Readable /\ Stream!Encoding = Rle(TextOf(files))
    BY <2>1, EncodingOfAll DEF Opening
  <2> QED BY <2>1, <2>2, <2>3 DEF Stream!Next, Stream!Finish, status, Alive
<1>6. ASSUME NEW w \in Worker, ThreadRle(w) PROVE UNCHANGED <<files, out, status>>
  <2>1. mpc' = mpc /\ UNCHANGED mainVars /\ out' = out
    BY <1>6 DEF ThreadRle, FirstByte, NextByte, LastRun, Lock, LoadDone, StoreDone, Unlock,
                SemPost, listVars
  <2> QED BY <2>1 DEF mainVars, status, Alive
<1>7. CASE UNCHANGED vars
  BY <1>7 DEF vars, mainVars, listVars, status, Alive
<1> QED BY <1>1, <1>2, <1>3, <1>4, <1>5, <1>6, <1>7 DEF Next, MainNext, PollAgain, Terminated

(* The parallel zip writes what the serial one would, whatever the threads do:
   the runs of the encoding of the whole text, in order, and all of them before
   it exits (lines 236 to 372), for command lines none of whose files is empty. *)
THEOREM ParallelIsStream ==
    ASSUME HaveText(FileLists)
    PROVE  Spec => ZipSpec
<1>1. Init => Stream!Init
  BY DEF Init, Stream!Init, status, Alive
<1>2. TextInv /\ CodeInv /\ [Next]_vars => [Stream!Next]_<<files, out, status>>
  BY StreamStep DEF TextInv
<1>3. ZipSpec <=> Stream!Init /\ [][Stream!Next]_<<files, out, status>>
  BY DEF ZipSpec, Stream!Spec, Stream!vars
<1> QED BY <1>1, <1>2, <1>3, CodeInvariant, PTL DEF Spec
=============================================================================
