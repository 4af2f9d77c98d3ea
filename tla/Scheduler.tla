----------------------------- MODULE Scheduler -----------------------------
(***************************************************************************)
(* assigned-project-scheduling/scheduler.c and scheduler.h: jobs are run on *)
(* a simulated processor.  handle_run keeps a queue of copies of the jobs   *)
(* that have arrived, in the order of arrival, and asks one of three        *)
(* policies for the job to run next.  Round robin does not rotate the       *)
(* queue: the mark next_to_run goes along it.                               *)
(*                                                                          *)
(* A job is its place in the file, 1 for the job the program calls 0.  An   *)
(* iteration of the loop of handle_run is a step.                           *)
(***************************************************************************)
EXTENDS Integers, Sequences, FiniteSets

CONSTANTS Workloads,   \* the job files; <<>> is one that cannot be opened
          Timeslices

ASSUME WorkloadAssumption ==
    /\ Timeslices \subseteq Nat
    /\ \A w \in Workloads :
         /\ w \in Seq([arrival : Nat, length : Nat])
         /\ \A j, k \in DOMAIN w : j < k => w[j].arrival <= w[k].arrival

VARIABLES work,       \* the list at job_head, in the order of the file
          policy, timeslice,
          sim_time,
          scheduled,  \* the jobs copied to the queue so far
          queue,      \* job_queue, as the jobs the copies are of
          job,        \* the fields of each copy, as copy_job sets them at first
          stats,      \* stats_head: one record per finished job
          trace       \* the lines "t=: [Job ] arrived at, ran for"

vars == <<work, policy, timeslice, sim_time, scheduled, queue, job, stats, trace>>

Job == DOMAIN work
jobs_total == Len(work)
jobs_run   == Len(stats)

Copy == [length : Nat, start_time : Int, wait_time : Int, last_run : Int,
         next_to_run : BOOLEAN]
Stats == [id : Job, response_time : Int, turnaround_time : Int, wait_time : Int]
Line  == [t : Nat, job : Job, ran : Nat]

TypeOK ==
    /\ work \in Workloads /\ timeslice \in Timeslices
    /\ policy \in {"FIFO", "SJF", "RR"}
    /\ sim_time \in Nat
    /\ scheduled \subseteq Job
    /\ queue \in Seq(Job)
    /\ job \in [Job -> Copy]
    /\ stats \in Seq(Stats)
    /\ trace \in Seq(Line)

(***************************************************************************)
(* The queue.                                                               *)
(***************************************************************************)

(* The members of a finite set of jobs, as the scan of a list meets them.   *)
InOrder(S) == CHOOSE s \in [1 .. Cardinality(S) -> S] :
                \A k, l \in DOMAIN s : k < l => s[k] < s[l]

NotScheduled(t) == {j \in Job \ scheduled : work[j].arrival <= t}

(* Slip: the jobs that arrive go to the front.                              *)
AddInFront(q, t)   == InOrder(NotScheduled(t)) \o q
add_new_jobs(q, t) == q \o InOrder(NotScheduled(t))

Least(S)     == CHOOSE k \in S : \A l \in S : k <= l
Marked(q, f) == {k \in DOMAIN q : f[q[k]].next_to_run}

(* What the policies return, as a place in the queue.                       *)
handler_FIFO == 1
handler_SJF  ==
    Least({k \in DOMAIN queue :
             \A l \in DOMAIN queue : job[queue[k]].length <= job[queue[l]].length})
handler_RR   ==
    IF Marked(queue, job) = {} THEN 1 ELSE Least(Marked(queue, job))

policy_func == CASE policy = "FIFO" -> handler_FIFO
                 [] policy = "SJF"  -> handler_SJF
                 [] policy = "RR"   -> handler_RR

Mark(f, j, bit) == [f EXCEPT ![j].next_to_run = bit]

(* Slip: without a mark it is given to the first job, which has just run.   *)
MarkFirst(q, f) ==
    IF Marked(q, f) = {} THEN Mark(f, q[1], TRUE)
    ELSE LET k    == Least(Marked(q, f))
             next == IF k = Len(q) THEN 1 ELSE k + 1
         IN  Mark(Mark(f, q[k], FALSE), q[next], TRUE)

(* The mark goes from the job that has it to the next; without one, to the
   second job.                                                              *)
shift_job_queue(q, f) ==
    IF Marked(q, f) = {}
    THEN IF Len(q) > 1 THEN Mark(f, q[2], TRUE) ELSE f
    ELSE LET k    == Least(Marked(q, f))
             next == IF k = Len(q) THEN 1 ELSE k + 1
         IN  Mark(Mark(f, q[k], FALSE), q[next], TRUE)

(* The first copy of length 0, if there is one, leaves the queue.           *)
remove_finished_jobs(q, f) ==
    LET zero == {k \in DOMAIN q : f[q[k]].length = 0}
        k    == Least(zero)
    IN  IF zero = {} THEN q ELSE SubSeq(q, 1, k - 1) \o SubSeq(q, k + 1, Len(q))

(***************************************************************************)
(* handle_run.  What malloc returns for the queue is taken to be NULL (line *)
(* 248 reads it before anything has set it).                                *)
(***************************************************************************)
Init ==
    /\ work \in Workloads /\ timeslice \in Timeslices
    /\ policy \in {"FIFO", "SJF", "RR"}
    /\ sim_time = 0
    /\ scheduled = {j \in Job : work[j].arrival <= 0}
    /\ queue = InOrder({j \in Job : work[j].arrival <= 0})
    /\ job = [j \in Job |-> [length |-> work[j].length, start_time |-> -1,
                             wait_time |-> 0, last_run |-> -1,
                             next_to_run |-> FALSE]]
    /\ stats = <<>> /\ trace = <<>>

(* No job is there: the clock goes on by one.                               *)
Wait ==
    /\ jobs_run < jobs_total
    /\ queue = <<>>
    /\ sim_time' = sim_time + 1
    /\ queue' = add_new_jobs(queue, sim_time')
    /\ scheduled' = scheduled \cup NotScheduled(sim_time')
    /\ UNCHANGED <<work, policy, timeslice, job, stats, trace>>

(* Slips: a slice is used up to its end; without slices, the slice is 0.    *)
WholeSlice(j) == IF timeslice # 0 THEN timeslice ELSE job[j].length
NoSliceIs0(j) == IF timeslice < job[j].length THEN timeslice ELSE job[j].length

Runtime(j) == IF timeslice # 0 /\ timeslice < job[j].length
              THEN timeslice ELSE job[j].length

(* Slip: the wait after the first run counts from the arrival again.        *)
WaitedTwice(j) == job[j].wait_time + sim_time - work[j].arrival

(* Waiting: before the first run, and since the end of the last one.        *)
Waited(j) ==
    IF job[j].last_run # -1 THEN job[j].wait_time + sim_time - job[j].last_run
    ELSE sim_time - work[j].arrival

Started(j) == IF job[j].start_time = -1 THEN sim_time ELSE job[j].start_time

Served(j) == [job[j] EXCEPT !.start_time = Started(j),
                            !.wait_time  = Waited(j),
                            !.last_run   = sim_time + Runtime(j),
                            !.length     = @ - Runtime(j)]

insert_stats_sorted(s) ==
    LET k == Cardinality({m \in DOMAIN stats : stats[m].id < s.id})
    IN  SubSeq(stats, 1, k) \o <<s>> \o SubSeq(stats, k + 1, Len(stats))

StatsOf(j, copy, now) ==
    [id |-> j, response_time |-> copy.start_time - work[j].arrival,
     turnaround_time |-> now - work[j].arrival, wait_time |-> copy.wait_time]

Run ==
    /\ jobs_run < jobs_total
    /\ queue # <<>>
    /\ LET j == queue[policy_func]
           q == add_new_jobs(queue, sim_time')
       IN  /\ trace' = Append(trace, [t |-> sim_time, job |-> j, ran |-> Runtime(j)])
           /\ sim_time' = sim_time + Runtime(j)
           /\ scheduled' = scheduled \cup NotScheduled(sim_time')
           /\ job' = shift_job_queue(q, [job EXCEPT ![j] = Served(j)])
           /\ \/ /\ job'[j].length = 0
                 /\ stats' = insert_stats_sorted(StatsOf(j, job'[j], sim_time'))
                 /\ queue' = remove_finished_jobs(q, job')
              \/ /\ job'[j].length # 0
                 /\ queue' = q
                 /\ UNCHANGED stats
    /\ UNCHANGED <<work, policy, timeslice>>

Terminated == jobs_run = jobs_total /\ UNCHANGED vars

Next == Wait \/ Run \/ Terminated

Spec == Init /\ [][Next]_vars

-----------------------------------------------------------------------------
Finished == {stats[k].id : k \in DOMAIN stats}

(* The statistics of a finished job are those of its lines in the trace:
   response from arrival to the first line, turnaround to the end of the last,
   and of that the wait is all the time in which it did not run.  handle_run
   adds the wait up in pieces, at every dispatch. *)
StatsMatchTrace ==
    \A k \in DOMAIN stats :
      LET s     == stats[k]
          lines == {n \in DOMAIN trace : trace[n].job = s.id}
          first == trace[Least(lines)]
          last  == trace[CHOOSE n \in lines : \A m \in lines : m <= n]
          a     == work[s.id].arrival
      IN  /\ lines # {}
          /\ s.response_time = first.t - a
          /\ s.turnaround_time = last.t + last.ran - a
          /\ s.wait_time = s.turnaround_time - work[s.id].length
          /\ s.wait_time >= s.response_time /\ s.response_time >= 0

(* Under round robin no job is served a second time while another, there
   already the first time, waits to be served in between, wherever the mark was
   and whoever came or finished meanwhile. *)
RotationFair ==
    policy = "RR" =>
      \A k, l \in DOMAIN trace : \A i \in Job :
        (/\ k < l /\ trace[k].job = trace[l].job /\ i # trace[k].job
         /\ work[i].arrival <= trace[k].t
         /\ i \notin Finished \/ \E n \in DOMAIN trace : n > k /\ trace[n].job = i)
        => \E n \in k + 1 .. l - 1 : trace[n].job = i

(* The queue, its mark and the copies of the jobs amount to the policy as it is
   stated without them: no job is forgotten, run too early, too long or out of
   turn, and the processor does not wait while there is one. *)
Before(q) == LET m == Marked(q, job)
             IN  IF m = {} THEN {} ELSE {q[k] : k \in 1 .. Least(m) - 1}
Ideal == INSTANCE Dispatch WITH
            clock <- sim_time,
            left  <- [j \in Job |-> job[j].length],
            done  <- Finished,
            round <- IF policy = "RR" THEN Before(queue) ELSE {}
DispatchSpec == Ideal!Spec

(* The loop of handle_run comes to its end: a job is dispatched no more often
   than its length takes in slices, and the clock does not go on beyond the last
   arrival but for jobs that run. *)
Slices(j) ==
    IF timeslice = 0 \/ work[j].length = 0 THEN 1
    ELSE (work[j].length + timeslice - 1) \div timeslice

(* The time that the jobs of these lines ran.                               *)
Busy(lines) ==
    LET b[n \in 0 .. Len(lines)] == IF n = 0 THEN 0 ELSE b[n - 1] + lines[n].ran
    IN  b[Len(lines)]

RunBounded ==
    /\ \A j \in Job : Cardinality({n \in DOMAIN trace : trace[n].job = j}) <= Slices(j)
    /\ jobs_total = 0 \/ sim_time <= work[jobs_total].arrival + Busy(trace)
=============================================================================
