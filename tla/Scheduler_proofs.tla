-------------------------- MODULE Scheduler_proofs --------------------------
(***************************************************************************)
(* Proofs about Scheduler, for any files of jobs in the order of arrival    *)
(* and any timeslices.                                                      *)
(***************************************************************************)
EXTENDS Scheduler, FiniteSetTheorems, WellFoundedInduction, TLAPS

Members(s)    == {s[k] : k \in DOMAIN s}
Increasing(s) == \A k, l \in DOMAIN s : k < l => s[k] < s[l]

ParametersInv ==
    /\ work \in Workloads /\ timeslice \in Timeslices
    /\ policy \in {"FIFO", "SJF", "RR"}
    /\ sim_time \in Nat

(* The queue is the jobs that are there and not finished, in their order.    *)
QueueInv ==
    /\ scheduled = {j \in Job : work[j].arrival <= sim_time}
    /\ queue \in Seq(Job) /\ Increasing(queue)
    /\ Members(queue) = scheduled \ Finished

(* At most one copy in the queue has the mark, and under round robin the ones
   before it have been served: what remove_finished_jobs finds first is the
   job that has just run. *)
MarkInv ==
    /\ \A k, l \in Marked(queue, job) : k = l
    /\ \A j \in Job \ scheduled : ~job[j].next_to_run
    /\ policy = "RR" =>
         \A k \in Marked(queue, job), l \in DOMAIN queue : l < k => job[queue[l]].length # 0

(* A copy and the lines of its job.                                          *)
NeverRun(i) ==
    /\ \A n \in DOMAIN trace : trace[n].job # i
    /\ job[i].start_time = -1 /\ job[i].last_run = -1 /\ job[i].wait_time = 0
    /\ job[i].length = work[i].length

(* The times of a job that arrived at a and takes n, of which left is left.   *)
Times(start, wait, last, left, a, n) ==
    /\ a <= start /\ a <= last
    /\ wait = (last - a) - (n - left)
    /\ start - a <= wait

HasRun(i) ==
    /\ \E n \in DOMAIN trace :
          /\ trace[n].job = i /\ job[i].start_time = trace[n].t
          /\ \A m \in DOMAIN trace : trace[m].job = i => n <= m
    /\ \E n \in DOMAIN trace :
          /\ trace[n].job = i /\ job[i].last_run = trace[n].t + trace[n].ran
          /\ \A m \in DOMAIN trace : trace[m].job = i => m <= n
    /\ job[i].last_run <= sim_time
    /\ Times(job[i].start_time, job[i].wait_time, job[i].last_run, job[i].length,
             work[i].arrival, work[i].length)

JobInv ==
    /\ job \in [Job -> Copy]
    /\ trace \in Seq(Line)
    /\ \A i \in Job : NeverRun(i) \/ HasRun(i)

StatsOk(s) ==
    /\ HasRun(s.id) /\ job[s.id].length = 0
    /\ s.response_time = job[s.id].start_time - work[s.id].arrival
    /\ s.turnaround_time = job[s.id].last_run - work[s.id].arrival
    /\ s.wait_time = job[s.id].wait_time

StatsInv ==
    /\ stats \in Seq(Stats)
    /\ \A s \in Members(stats) : StatsOk(s)

Inv == ParametersInv /\ QueueInv /\ MarkInv /\ JobInv /\ StatsInv
-----------------------------------------------------------------------------
(* The operators.                                                           *)

(* What CHOOSE finds when it asks for the least of a set that is not empty. *)
LessThan == {ss \in Nat \X Nat : ss[1] < ss[2]}

LEMMA LeastNat ==
    ASSUME NEW T \in SUBSET Nat, T # {}
    PROVE  \E x \in T : \A y \in T : x <= y
<1>1. IsWellFoundedOn(LessThan, Nat)
  BY NatLessThanWellFounded, Zenon DEF LessThan, OpToRel
<1>2. \E x \in T : \A y \in T : ~(<<y, x>> \in LessThan)
  BY <1>1, WFMin
<1>3. \A x \in T, y \in T : <<y, x>> \in LessThan <=> y < x
  BY DEF LessThan
<1>4. \A x \in T, y \in T : ~(y < x) => x <= y
  OBVIOUS
<1> QED BY <1>2, <1>3, <1>4

LEMMA SeqFacts ==
    ASSUME NEW S, NEW s \in Seq(S)
    PROVE  /\ Len(s) \in Nat /\ DOMAIN s = 1 .. Len(s)
           /\ \A k \in DOMAIN s : s[k] \in S /\ k \in Nat
  OBVIOUS

LEMMA ConcatParts ==
    ASSUME NEW S, NEW s \in Seq(S), NEW t \in Seq(S)
    PROVE  /\ s \o t \in Seq(S) /\ Len(s \o t) = Len(s) + Len(t)
           /\ \A k \in 1 .. Len(s) : (s \o t)[k] = s[k]
           /\ \A k \in 1 .. Len(s) + Len(t) : k > Len(s) => (s \o t)[k] = t[k - Len(s)]
OBVIOUS

LEMMA WorkFacts ==
    ASSUME work \in Workloads
    PROVE  /\ Len(work) \in Nat /\ Job = 1 .. Len(work) /\ Job \subseteq Nat
           /\ \A j \in Job : work[j].arrival \in Nat /\ work[j].length \in Nat
           /\ \A j, k \in Job : j < k => work[j].arrival <= work[k].arrival
<1>1. /\ work \in Seq([arrival : Nat, length : Nat])
      /\ \A j, k \in DOMAIN work : j < k => work[j].arrival <= work[k].arrival
  BY WorkloadAssumption
<1>2. Len(work) \in Nat /\ Job = 1 .. Len(work)
  BY <1>1, SeqFacts DEF Job
<1>3. \A j \in Job : work[j] \in [arrival : Nat, length : Nat]
  BY <1>1, SeqFacts DEF Job
<1>4. \A j, k \in Job : j < k => work[j].arrival <= work[k].arrival
  BY <1>1 DEF Job
<1> QED BY <1>2, <1>3, <1>4

LEMMA LeastFacts ==
    ASSUME NEW S \in SUBSET Nat, S # {}
    PROVE  Least(S) \in S /\ \A m \in S : Least(S) <= m
<1>1. \E x \in S : \A y \in S : x <= y
  BY LeastNat
<1> QED BY <1>1, Zenon DEF Least

LEMMA LeastIs ==
    ASSUME NEW S \in SUBSET Nat, NEW k \in S, \A l \in S : k <= l
    PROVE  Least(S) = k
<1>1. Least(S) \in S /\ \A m \in S : Least(S) <= m
  BY LeastFacts
<1>2. Least(S) \in Nat /\ k \in Nat /\ k <= Least(S) /\ Least(S) <= k
  BY <1>1
<1> QED BY <1>2

(* The jobs that have arrived are the first ones of the file.                *)
LEMMA ArrivedFirst ==
    ASSUME work \in Workloads, NEW t \in Nat
    PROVE  \E m \in 0 .. Len(work) : {j \in Job : work[j].arrival <= t} = 1 .. m
<1> DEFINE late == {j \in 1 .. Len(work) + 1 : j \in Job => work[j].arrival > t}
<1>1. late \in SUBSET Nat /\ Len(work) + 1 \in late
  BY WorkFacts
<1>2. PICK f \in late : \A j \in late : f <= j
  BY <1>1, LeastNat
<1>3. f \in 1 .. Len(work) + 1 /\ f - 1 \in 0 .. Len(work)
  BY WorkFacts
<1>4. ASSUME NEW j \in Job PROVE work[j].arrival <= t <=> j <= f - 1
  <2>1. CASE j < f
    <3>1. j \notin late /\ j \in Nat
      BY <1>2, <1>3, <2>1, WorkFacts
    <3> QED BY <1>3, <2>1, <3>1, WorkFacts
  <2>2. CASE ~(j < f)
    <3>1. f \in Job /\ work[f].arrival > t
      BY <1>2, <1>3, <2>2, WorkFacts
    <3>2. work[f].arrival <= work[j].arrival
      BY <2>2, <3>1, WorkFacts
    <3> QED BY <1>3, <2>2, <3>1, <3>2, WorkFacts
  <2> QED BY <2>1, <2>2
<1>5. {j \in Job : work[j].arrival <= t} = 1 .. f - 1
  BY <1>3, <1>4, WorkFacts
<1> QED BY <1>3, <1>5

(* An increasing enumeration of as many numbers as there are leaves none out. *)
LEMMA InOrderInterval ==
    ASSUME NEW m \in Nat, NEW d \in Nat
    PROVE  InOrder(m + 1 .. m + d) = [k \in 1 .. d |-> m + k]
<1> DEFINE S == m + 1 .. m + d
           F == [k \in 1 .. d |-> m + k]
           P(s) == \A k, l \in DOMAIN s : k < l => s[k] < s[l]
<1>1. Cardinality(S) = d
  BY FS_Interval
<1>2. F \in [1 .. d -> S] /\ P(F)
  OBVIOUS
<1>3. ASSUME NEW s \in [1 .. d -> S], P(s) PROVE s = F
  <2>1. ASSUME NEW k \in 1 .. d, s[k] < m + k PROVE FALSE
    <3> DEFINE low == {l \in 1 .. d : s[l] < m + l}
    <3>1. low \in SUBSET Nat /\ k \in low
      BY <2>1
    <3>2. PICK l \in low : \A i \in low : l <= i
      BY <3>1, LeastNat
    <3>3. l # 1 /\ l - 1 \in 1 .. d /\ l - 1 \notin low
      BY <3>2
    <3>4. s[l - 1] < s[l]
      BY <1>3, <3>3
    <3> QED BY <3>3, <3>4
  <2>2. ASSUME NEW k \in 1 .. d, s[k] > m + k PROVE FALSE
    <3> DEFINE high == {i \in 0 .. d - 1 : s[d - i] > m + (d - i)}
    <3>1. high \in SUBSET Nat /\ d - k \in high
      BY <2>2
    <3>2. PICK i \in high : \A l \in high : i <= l
      BY <3>1, LeastNat
    <3>3. i \in 0 .. d - 1 /\ s[d - i] > m + (d - i)
      BY <3>2
    <3>6. i # 0
      <4>1. s[d] \in S
        BY <3>3
      <4> QED BY <3>3, <4>1
    <3>7. i - 1 \in 0 .. d - 1 /\ i - 1 \notin high
      <4>1. i - 1 \in high => i <= i - 1
        BY <3>2
      <4> QED BY <3>3, <3>6, <4>1
    <3>4. d - (i - 1) \in 1 .. d /\ d - i \in 1 .. d /\ d - i < d - (i - 1)
      BY <3>3, <3>6
    <3>5. s[d - i] < s[d - (i - 1)]
      BY <1>3, <3>4
    <3> QED BY <3>3, <3>4, <3>5, <3>7
  <2>3. \A k \in 1 .. d : s[k] = F[k]
    BY <2>1, <2>2
  <2> QED BY <2>3
<1>4. InOrder(S) = CHOOSE s \in [1 .. d -> S] : P(s)
  BY <1>1 DEF InOrder
<1> HIDE DEF S, F, P
<1>5. InOrder(S) \in [1 .. d -> S] /\ P(InOrder(S))
  BY <1>2, <1>4
<1> QED BY <1>3, <1>5 DEF S, F

LEMMA NewJobs ==
    ASSUME ParametersInv, QueueInv, NEW t \in Nat, sim_time <= t
    PROVE  /\ add_new_jobs(queue, t) \in Seq(Job)
           /\ Len(queue) <= Len(add_new_jobs(queue, t))
           /\ \A k \in DOMAIN queue : add_new_jobs(queue, t)[k] = queue[k]
           /\ \A k \in DOMAIN add_new_jobs(queue, t) :
                 k > Len(queue) => add_new_jobs(queue, t)[k] \in Job \ scheduled
           /\ Increasing(add_new_jobs(queue, t))
           /\ Members(add_new_jobs(queue, t)) = Members(queue) \cup NotScheduled(t)
           /\ scheduled \cup NotScheduled(t) = {j \in Job : work[j].arrival <= t}
<1>1. work \in Workloads /\ sim_time \in Nat /\ queue \in Seq(Job) /\ Increasing(queue)
      /\ scheduled = {j \in Job : work[j].arrival <= sim_time}
      /\ Members(queue) \subseteq scheduled
  BY DEF ParametersInv, QueueInv
<1>2. PICK m \in 0 .. Len(work) : scheduled = 1 .. m
  BY <1>1, ArrivedFirst
<1>3. PICK n \in 0 .. Len(work) : {j \in Job : work[j].arrival <= t} = 1 .. n
  BY <1>1, ArrivedFirst
<1>4. Job = 1 .. Len(work) /\ Len(work) \in Nat
      /\ \A j \in Job : work[j].arrival \in Nat
  BY <1>1, WorkFacts
<1>5. \A j \in scheduled : work[j].arrival <= t
  BY <1>1, <1>4
<1>6. scheduled \subseteq 1 .. n
  BY <1>1, <1>3, <1>5
<1>7. m <= n
  BY <1>2, <1>3, <1>6
<1> DEFINE d == n - m
           s == [k \in 1 .. d |-> m + k]
<1>8. d \in Nat /\ m \in Nat /\ m + d = n
  BY <1>7
<1>9. NotScheduled(t) = {j \in Job : work[j].arrival <= t} \ scheduled
  BY DEF NotScheduled
<1>10. NotScheduled(t) = m + 1 .. m + d
  BY <1>2, <1>3, <1>8, <1>9
<1>11. InOrder(NotScheduled(t)) = s
  BY <1>8, <1>10, InOrderInterval
<1> DEFINE q == queue \o s
<1>12. add_new_jobs(queue, t) = q
  BY <1>11 DEF add_new_jobs
<1>13. m + 1 .. m + d \subseteq Job
  BY <1>4, <1>8
<1>14. s \in Seq(Job) /\ Len(s) = d
  BY <1>8, <1>13
<1>15. \A k \in 1 .. Len(queue) : queue[k] \in 1 .. m
  BY <1>1, <1>2, SeqFacts DEF Members
<1>16. Len(queue) \in Nat /\ DOMAIN queue = 1 .. Len(queue)
  BY <1>1, SeqFacts
<1>17. /\ q \in Seq(Job) /\ Len(q) = Len(queue) + d /\ DOMAIN q = 1 .. Len(queue) + d
       /\ \A k \in 1 .. Len(queue) : q[k] = queue[k]
       /\ \A k \in 1 .. Len(queue) + d : k > Len(queue) => q[k] = m + (k - Len(queue))
  <2>1. /\ q \in Seq(Job) /\ Len(q) = Len(queue) + Len(s)
        /\ \A k \in 1 .. Len(queue) : q[k] = queue[k]
        /\ \A k \in 1 .. Len(queue) + Len(s) : k > Len(queue) => q[k] = s[k - Len(queue)]
    BY <1>1, <1>14, ConcatParts
  <2>2. DOMAIN q = 1 .. Len(q)
    BY <2>1, SeqFacts
  <2>3. ASSUME NEW k \in 1 .. Len(queue) + d, k > Len(queue) PROVE q[k] = m + (k - Len(queue))
    <3>1. k - Len(queue) \in 1 .. d
      BY <1>8, <1>16, <2>3
    <3>2. s[k - Len(queue)] = m + (k - Len(queue))
      BY <3>1
    <3> QED BY <1>14, <2>1, <2>3, <3>2
  <2> QED BY <1>14, <2>1, <2>2, <2>3
<1> HIDE DEF q, s
<1>18. Increasing(q)
  <2> SUFFICES ASSUME NEW k \in DOMAIN q, NEW l \in DOMAIN q, k < l PROVE q[k] < q[l]
    BY DEF Increasing
  <2>1. CASE l <= Len(queue)
    BY <1>1, <1>16, <1>17, <2>1 DEF Increasing
  <2>2. CASE l > Len(queue) /\ k <= Len(queue)
    <3>5. k \in 1 .. Len(queue)
      BY <1>16, <1>17, <2>2
    <3>1. q[k] \in 1 .. m
      BY <1>15, <1>17, <3>5
    <3>2. l \in 1 .. Len(queue) + d
      BY <1>17
    <3>3. q[l] = m + (l - Len(queue))
      BY <1>17, <2>2, <3>2
    <3>4. l - Len(queue) \in Nat /\ l - Len(queue) > 0
      BY <1>16, <2>2, <3>2
    <3> QED BY <1>8, <3>1, <3>3, <3>4
  <2>3. CASE k > Len(queue)
    BY <1>8, <1>16, <1>17, <2>3
  <2> QED BY <1>8, <1>16, <1>17, <2>1, <2>2, <2>3
<1>19. Members(q) = Members(queue) \cup (m + 1 .. m + d)
  <2>1. ASSUME NEW x \in Members(q) PROVE x \in Members(queue) \cup (m + 1 .. m + d)
    <3> PICK k \in 1 .. Len(queue) + d : x = q[k]
      BY <1>17 DEF Members
    <3>1. CASE k <= Len(queue)
      <4>1. k \in DOMAIN queue /\ x = queue[k]
        BY <1>8, <1>16, <1>17, <3>1
      <4> QED BY <4>1 DEF Members
    <3>2. CASE k > Len(queue)
      BY <1>8, <1>16, <1>17, <3>2
    <3> QED BY <1>8, <1>16, <3>1, <3>2
  <2>2. ASSUME NEW x \in Members(queue) PROVE x \in Members(q)
    <3> PICK k \in 1 .. Len(queue) : x = queue[k]
      BY <1>16 DEF Members
    <3>1. k \in 1 .. Len(queue) + d
      BY <1>8, <1>16
    <3>2. k \in DOMAIN q /\ q[k] = x
      BY <1>17, <3>1
    <3> QED BY <3>2, Zenon DEF Members
  <2>3. ASSUME NEW x \in m + 1 .. m + d PROVE x \in Members(q)
    <3>1. Len(queue) + (x - m) \in 1 .. Len(queue) + d /\ Len(queue) + (x - m) > Len(queue)
      BY <1>8, <1>16
    <3>2. q[Len(queue) + (x - m)] = x
      BY <1>8, <1>16, <1>17, <3>1
    <3> QED BY <1>17, <3>1, <3>2 DEF Members
  <2> QED BY <2>1, <2>2, <2>3
<1>20. \A k \in DOMAIN q : k > Len(queue) => q[k] \in Job \ scheduled
  <2> SUFFICES ASSUME NEW k \in 1 .. Len(queue) + d, k > Len(queue)
               PROVE  q[k] \in Job \ scheduled
    BY <1>17
  <2>1. q[k] = m + (k - Len(queue))
    BY <1>17
  <2>2. m + (k - Len(queue)) \in (m + 1 .. m + d) /\ m + (k - Len(queue)) \notin 1 .. m
    BY <1>8, <1>16
  <2> QED BY <1>2, <1>13, <2>1, <2>2
<1>21. scheduled \cup NotScheduled(t) = {j \in Job : work[j].arrival <= t}
  BY <1>3, <1>6, <1>9
<1> QED BY <1>8, <1>10, <1>12, <1>16, <1>17, <1>18, <1>19, <1>20, <1>21

(* Two copies that differ in the mark at most.                               *)
ButMark(c, d) ==
    /\ c.length = d.length /\ c.start_time = d.start_time
    /\ c.wait_time = d.wait_time /\ c.last_run = d.last_run

LEMMA MarkOn ==
    ASSUME NEW f \in [Job -> Copy], NEW j \in Job
    PROVE  /\ Mark(f, j, TRUE) \in [Job -> Copy]
           /\ \A i \in Job : ButMark(Mark(f, j, TRUE)[i], f[i])
           /\ \A i \in Job \ {j} : Mark(f, j, TRUE)[i] = f[i]
           /\ Mark(f, j, TRUE)[j].next_to_run
<1> PICK c : c = [f[j] EXCEPT !.next_to_run = TRUE]
  OBVIOUS
<1>1. f[j] \in Copy
  OBVIOUS
<1>2. c \in Copy /\ ButMark(c, f[j]) /\ c.next_to_run
  BY <1>1 DEF Copy, ButMark
<1>3. Mark(f, j, TRUE) = [f EXCEPT ![j] = c]
  BY DEF Mark
<1> QED BY <1>2, <1>3 DEF ButMark

LEMMA MarkOff ==
    ASSUME NEW f \in [Job -> Copy], NEW j \in Job
    PROVE  /\ Mark(f, j, FALSE) \in [Job -> Copy]
           /\ \A i \in Job : ButMark(Mark(f, j, FALSE)[i], f[i])
           /\ \A i \in Job \ {j} : Mark(f, j, FALSE)[i] = f[i]
           /\ ~Mark(f, j, FALSE)[j].next_to_run
<1> PICK c : c = [f[j] EXCEPT !.next_to_run = FALSE]
  OBVIOUS
<1>1. f[j] \in Copy
  OBVIOUS
<1>2. c \in Copy /\ ButMark(c, f[j]) /\ ~c.next_to_run
  BY <1>1 DEF Copy, ButMark
<1>3. Mark(f, j, FALSE) = [f EXCEPT ![j] = c]
  BY DEF Mark
<1> QED BY <1>2, <1>3 DEF ButMark

(* The mark is at most at one place, and goes on to the next.                *)
LEMMA ShiftFacts ==
    ASSUME NEW q \in Seq(Job), q # <<>>, NEW f \in [Job -> Copy],
           \A k, l \in DOMAIN q : q[k] = q[l] => k = l,
           \A k, l \in Marked(q, f) : k = l
    PROVE  /\ shift_job_queue(q, f) \in [Job -> Copy]
           /\ \A i \in Job : ButMark(shift_job_queue(q, f)[i], f[i])
           /\ \A i \in Job : i \notin Members(q) => shift_job_queue(q, f)[i] = f[i]
           /\ Marked(q, f) = {} =>
                 Marked(q, shift_job_queue(q, f)) = IF Len(q) > 1 THEN {2} ELSE {}
           /\ \A k \in Marked(q, f) :
                 Marked(q, shift_job_queue(q, f)) = {IF k = Len(q) THEN 1 ELSE k + 1}
<1> DEFINE g == shift_job_queue(q, f)
<1>1. Len(q) \in Nat /\ DOMAIN q = 1 .. Len(q) /\ Len(q) >= 1 /\ \A k \in 1 .. Len(q) : q[k] \in Job
  BY SeqFacts
<1>2. CASE Marked(q, f) = {} /\ Len(q) > 1
  <2>1. g = Mark(f, q[2], TRUE) /\ q[2] \in Job /\ 2 \in DOMAIN q
    BY <1>1, <1>2 DEF shift_job_queue
  <2> HIDE DEF g
  <2>2. /\ g \in [Job -> Copy] /\ \A i \in Job : ButMark(g[i], f[i])
        /\ \A i \in Job \ {q[2]} : g[i] = f[i]
        /\ g[q[2]].next_to_run
    <3>0. q[2] \in Job
      BY <2>1
    <3>1. /\ Mark(f, q[2], TRUE) \in [Job -> Copy]
          /\ \A i \in Job : ButMark(Mark(f, q[2], TRUE)[i], f[i])
          /\ \A i \in Job \ {q[2]} : Mark(f, q[2], TRUE)[i] = f[i]
      BY <3>0, MarkOn
    <3>2. Mark(f, q[2], TRUE)[q[2]].next_to_run
      BY <3>0, MarkOn
    <3> QED BY <2>1, <3>1, <3>2
  <2>3. Marked(q, g) = {2}
    <3>1. Marked(q, f) = {} /\ \A l \in DOMAIN q : ~f[q[l]].next_to_run
      BY <1>2 DEF Marked
    <3>2. ASSUME NEW l \in DOMAIN q, l # 2 PROVE ~g[q[l]].next_to_run
      <4>1. q[l] # q[2] /\ q[l] \in Job
        BY <1>1, <2>1, <3>2
      <4> QED BY <2>2, <3>1, <4>1
    <3> QED BY <2>1, <2>2, <3>2 DEF Marked
  <2> QED BY <1>2, <2>1, <2>2, <2>3 DEF Members, g
<1>3. CASE Marked(q, f) = {} /\ ~(Len(q) > 1)
  BY <1>3 DEF shift_job_queue, ButMark
<1>4. CASE Marked(q, f) # {}
  <2> PICK k \in Marked(q, f) : TRUE
    BY <1>4
  <2> DEFINE next == IF k = Len(q) THEN 1 ELSE k + 1
             h    == Mark(f, q[k], FALSE)
  <2>1. k \in 1 .. Len(q) /\ Marked(q, f) = {k} /\ Marked(q, f) \in SUBSET Nat
    BY <1>1 DEF Marked
  <2>2. Least(Marked(q, f)) = k
    BY <2>1, LeastIs
  <2>3. g = Mark(h, q[next], TRUE)
    BY <1>4, <2>2 DEF shift_job_queue
  <2>4. next \in 1 .. Len(q)
    <3>1. k \in 1 .. Len(q) /\ Len(q) \in Nat /\ Len(q) >= 1
      BY <1>1, <2>1
    <3>2. CASE k = Len(q)
      BY <3>1, <3>2
    <3>3. CASE k # Len(q)
      BY <3>1, <3>3
    <3> QED BY <3>2, <3>3
  <2> HIDE DEF g, next, h
  <2>5. /\ h \in [Job -> Copy] /\ \A i \in Job : ButMark(h[i], f[i])
        /\ \A i \in Job \ {q[k]} : h[i] = f[i]
        /\ ~h[q[k]].next_to_run
    <3>1. q[k] \in Job
      BY <1>1, <2>1
    <3> QED BY <3>1, MarkOff DEF h
  <2>6. /\ g \in [Job -> Copy] /\ \A i \in Job : ButMark(g[i], h[i])
        /\ \A i \in Job \ {q[next]} : g[i] = h[i]
        /\ g[q[next]].next_to_run
    <3>1. q[next] \in Job
      BY <1>1, <2>4
    <3>2. /\ Mark(h, q[next], TRUE) \in [Job -> Copy]
          /\ \A i \in Job : ButMark(Mark(h, q[next], TRUE)[i], h[i])
          /\ \A i \in Job \ {q[next]} : Mark(h, q[next], TRUE)[i] = h[i]
      BY <2>5, <3>1, MarkOn
    <3>3. Mark(h, q[next], TRUE)[q[next]].next_to_run
      BY <2>5, <3>1, MarkOn
    <3> QED BY <2>3, <3>2, <3>3
  <2>7. \A i \in Job : ButMark(g[i], f[i])
    BY <2>5, <2>6 DEF ButMark
  <2>8. Marked(q, g) = {next}
    <3>1. ASSUME NEW l \in 1 .. Len(q), l # next PROVE ~g[q[l]].next_to_run
      <4>1. q[l] \in Job /\ q[l] # q[next] /\ g[q[l]] = h[q[l]]
        BY <1>1, <2>4, <2>6, <3>1
      <4>2. CASE l = k
        BY <2>5, <4>1, <4>2
      <4>3. CASE l # k
        BY <1>1, <2>1, <2>5, <4>1, <4>3 DEF Marked
      <4> QED BY <4>2, <4>3
    <3> QED BY <1>1, <2>4, <2>6, <3>1 DEF Marked
  <2>9. \A i \in Job : i \notin Members(q) => g[i] = f[i]
    BY <1>1, <2>1, <2>4, <2>5, <2>6 DEF Members
  <2>10. \A l \in Marked(q, f) : Marked(q, g) = {IF l = Len(q) THEN 1 ELSE l + 1}
    BY <2>1, <2>8 DEF next
  <2> QED BY <1>4, <2>6, <2>7, <2>9, <2>10 DEF g
<1> QED BY <1>2, <1>3, <1>4

(* A sequence without its k-th element, and one with an element after it.    *)
Cut(q, k)       == SubSeq(q, 1, k - 1) \o SubSeq(q, k + 1, Len(q))
Insert(s, k, e) == SubSeq(s, 1, k) \o <<e>> \o SubSeq(s, k + 1, Len(s))

LEMMA ConcatFacts ==
    ASSUME NEW S, NEW c \in Seq(S), NEW b \in Seq(S)
    PROVE  /\ c \o b \in Seq(S) /\ Len(c \o b) = Len(c) + Len(b)
           /\ \A l \in 1 .. Len(c) + Len(b) :
                 (c \o b)[l] = IF l <= Len(c) THEN c[l] ELSE b[l - Len(c)]
  OBVIOUS

LEMMA CutFacts ==
    ASSUME NEW S, NEW q \in Seq(S), NEW k \in DOMAIN q
    PROVE  /\ Cut(q, k) \in Seq(S) /\ Len(Cut(q, k)) = Len(q) - 1
           /\ \A l \in 1 .. Len(q) - 1 : Cut(q, k)[l] = IF l < k THEN q[l] ELSE q[l + 1]
<1> DEFINE a == SubSeq(q, 1, k - 1)
           b == SubSeq(q, k + 1, Len(q))
<1>1. Len(q) \in Nat /\ k \in 1 .. Len(q)
  BY SeqFacts
<1>2. a \in Seq(S) /\ Len(a) = k - 1 /\ \A l \in 1 .. k - 1 : a[l] = q[l]
  BY <1>1
<1>3. b \in Seq(S) /\ Len(b) = Len(q) - k /\ \A l \in 1 .. Len(q) - k : b[l] = q[k + l]
  BY <1>1
<1> HIDE DEF a, b
<1>4. /\ a \o b \in Seq(S) /\ Len(a \o b) = Len(q) - 1
      /\ \A l \in 1 .. Len(q) - 1 : (a \o b)[l] = IF l < k THEN a[l] ELSE b[l - (k - 1)]
  <2>1. /\ a \o b \in Seq(S) /\ Len(a \o b) = (k - 1) + (Len(q) - k)
        /\ \A l \in 1 .. (k - 1) + (Len(q) - k) :
              (a \o b)[l] = IF l <= k - 1 THEN a[l] ELSE b[l - (k - 1)]
    <3>1. /\ a \o b \in Seq(S) /\ Len(a \o b) = Len(a) + Len(b)
          /\ \A l \in 1 .. Len(a) + Len(b) :
                (a \o b)[l] = IF l <= Len(a) THEN a[l] ELSE b[l - Len(a)]
      BY <1>2, <1>3, ConcatFacts, Zenon
    <3>2. Len(a) = k - 1 /\ Len(b) = Len(q) - k
      BY <1>2, <1>3
    <3> QED BY <3>1, <3>2, Zenon
  <2>2. (k - 1) + (Len(q) - k) = Len(q) - 1 /\ \A l \in 1 .. Len(q) - 1 : l <= k - 1 <=> l < k
    BY <1>1
  <2> QED BY <2>1, <2>2
<1>5. ASSUME NEW l \in 1 .. Len(q) - 1 PROVE (a \o b)[l] = IF l < k THEN q[l] ELSE q[l + 1]
  <2>1. CASE l < k
    BY <1>1, <1>2, <1>4, <2>1
  <2>2. CASE ~(l < k)
    <3>1. l - (k - 1) \in 1 .. Len(q) - k /\ k + (l - (k - 1)) = l + 1
      BY <1>1, <2>2
    <3>2. b[l - (k - 1)] = q[k + (l - (k - 1))]
      BY <1>3, <3>1
    <3> QED BY <1>4, <2>2, <3>1, <3>2
  <2> QED BY <2>1, <2>2
<1> QED BY <1>4, <1>5 DEF Cut, a, b

LEMMA InsertFacts ==
    ASSUME NEW S, NEW s \in Seq(S), NEW e \in S, NEW k \in 0 .. Len(s)
    PROVE  /\ Insert(s, k, e) \in Seq(S) /\ Len(Insert(s, k, e)) = Len(s) + 1
           /\ Members(Insert(s, k, e)) = Members(s) \cup {e}
<1> DEFINE a == SubSeq(s, 1, k)
           b == SubSeq(s, k + 1, Len(s))
           r == a \o <<e>> \o b
<1>1. Len(s) \in Nat /\ k \in Nat /\ k <= Len(s) /\ DOMAIN s = 1 .. Len(s)
  BY SeqFacts
<1>2. a \in Seq(S) /\ Len(a) = k /\ \A l \in 1 .. k : a[l] = s[l]
  BY <1>1
<1>3. b \in Seq(S) /\ Len(b) = Len(s) - k /\ \A l \in 1 .. Len(s) - k : b[l] = s[k + l]
  BY <1>1
<1> HIDE DEF a, b
<1>4. /\ r \in Seq(S) /\ Len(r) = Len(s) + 1
      /\ \A l \in 1 .. k : r[l] = a[l]
      /\ r[k + 1] = e
      /\ \A l \in k + 2 .. Len(s) + 1 : r[l] = b[l - (k + 1)]
  <2> PICK c : c = a \o <<e>>
    OBVIOUS
  <2>1. /\ c \in Seq(S) /\ Len(c) = k + 1
        /\ \A l \in 1 .. k : c[l] = a[l]
        /\ c[k + 1] = e
    BY <1>1, <1>2
  <2>2. r = c \o b
    OBVIOUS
  <2>3. /\ c \o b \in Seq(S) /\ Len(c \o b) = Len(s) + 1
        /\ \A l \in 1 .. k + 1 : (c \o b)[l] = c[l]
        /\ \A l \in k + 2 .. Len(s) + 1 : (c \o b)[l] = b[l - (k + 1)]
    <3>1. /\ c \o b \in Seq(S) /\ Len(c \o b) = Len(c) + Len(b)
          /\ \A l \in 1 .. Len(c) + Len(b) :
                (c \o b)[l] = IF l <= Len(c) THEN c[l] ELSE b[l - Len(c)]
      <4>1. b \in Seq(S) /\ c \in Seq(S)
        BY <1>3, <2>1
      <4> QED BY <4>1, ConcatFacts
    <3>2. Len(c) = k + 1 /\ Len(c) + Len(b) = Len(s) + 1
      <4>1. Len(c) = k + 1 /\ Len(b) = Len(s) - k
        BY <1>3, <2>1
      <4>2. (k + 1) + (Len(s) - k) = Len(s) + 1
        BY <1>1
      <4> QED BY <4>1, <4>2
    <3>3. \A l \in 1 .. k + 1 : l \in 1 .. Len(c) + Len(b) /\ l <= Len(c)
      BY <1>1, <3>2
    <3>4. \A l \in k + 2 .. Len(s) + 1 : l \in 1 .. Len(c) + Len(b) /\ ~(l <= Len(c))
      BY <1>1, <3>2
    <3>5. \A l \in 1 .. k + 1 : (c \o b)[l] = c[l]
      BY <3>1, <3>3
    <3>6. \A l \in k + 2 .. Len(s) + 1 : (c \o b)[l] = b[l - (k + 1)]
      BY <3>1, <3>2, <3>4
    <3> QED BY <3>1, <3>2, <3>5, <3>6
  <2> HIDE DEF r
  <2> QED BY <1>1, <2>1, <2>2, <2>3
<1> HIDE DEF r
<1>5. /\ \A l \in 1 .. k : r[l] = s[l]
      /\ \A l \in k + 2 .. Len(s) + 1 : r[l] = s[l - 1]
      /\ DOMAIN r = 1 .. Len(s) + 1
  <2>1. ASSUME NEW l \in k + 2 .. Len(s) + 1 PROVE r[l] = s[l - 1]
    <3>1. l - (k + 1) \in 1 .. Len(s) - k /\ k + (l - (k + 1)) = l - 1
      BY <1>1
    <3> QED BY <1>3, <1>4, <3>1
  <2> QED BY <1>2, <1>4, <2>1
<1>6. ASSUME NEW x \in Members(r) PROVE x \in Members(s) \cup {e}
  <2> PICK l \in 1 .. Len(s) + 1 : x = r[l]
    BY <1>5 DEF Members
  <2>1. CASE l <= k
    BY <1>1, <1>5, <2>1 DEF Members
  <2>2. CASE l = k + 1
    BY <1>4, <2>2
  <2>3. CASE l > k + 1
    <3>1. l - 1 \in DOMAIN s /\ x = s[l - 1]
      BY <1>1, <1>5, <2>3
    <3> QED BY <3>1 DEF Members
  <2> QED BY <1>1, <2>1, <2>2, <2>3
<1>7. ASSUME NEW x \in Members(s) PROVE x \in Members(r)
  <2> PICK l \in 1 .. Len(s) : x = s[l]
    BY <1>1 DEF Members
  <2>1. CASE l <= k
    <3>1. l \in DOMAIN r /\ x = r[l]
      BY <1>1, <1>5, <2>1
    <3> QED BY <3>1 DEF Members
  <2>2. CASE l > k
    <3>1. l + 1 \in DOMAIN r /\ x = r[l + 1]
      BY <1>1, <1>5, <2>2
    <3> QED BY <3>1 DEF Members
  <2> QED BY <1>1, <2>1, <2>2
<1>8. e \in Members(r)
  BY <1>1, <1>4, <1>5 DEF Members
<1>9. Members(r) = Members(s) \cup {e}
  BY <1>6, <1>7, <1>8
<1> QED BY <1>4, <1>9 DEF Insert, r, a, b

(* What a run does to the copy of its job.                                   *)
WithStart(c, z)  == [c EXCEPT !.start_time = z]
WithWait(c, z)   == [c EXCEPT !.wait_time = z]
WithRun(c, z)    == [c EXCEPT !.last_run = z]
WithLength(c, z) == [c EXCEPT !.length = z]

LEMMA WithFacts ==
    ASSUME NEW c \in Copy, NEW z \in Int, NEW n \in Nat
    PROVE  /\ WithStart(c, z) \in Copy /\ WithWait(c, z) \in Copy
           /\ WithRun(c, z) \in Copy /\ WithLength(c, n) \in Copy
           /\ WithStart(c, z).start_time = z /\ WithWait(c, z).wait_time = z
           /\ WithRun(c, z).last_run = z /\ WithLength(c, n).length = n
           /\ WithStart(c, z).length = c.length /\ WithWait(c, z).length = c.length
           /\ WithRun(c, z).length = c.length
           /\ WithWait(c, z).start_time = c.start_time /\ WithRun(c, z).start_time = c.start_time
           /\ WithLength(c, n).start_time = c.start_time
           /\ WithRun(c, z).wait_time = c.wait_time /\ WithLength(c, n).wait_time = c.wait_time
           /\ WithLength(c, n).last_run = c.last_run
  BY DEF Copy, WithStart, WithWait, WithRun, WithLength

LEMMA WithMark ==
    ASSUME NEW c \in Copy, NEW z \in Int, NEW n \in Nat
    PROVE  /\ WithStart(c, z).next_to_run => c.next_to_run
           /\ WithWait(c, z).next_to_run => c.next_to_run
           /\ WithRun(c, z).next_to_run => c.next_to_run
           /\ WithLength(c, n).next_to_run => c.next_to_run
           /\ c.next_to_run => WithStart(c, z).next_to_run
           /\ c.next_to_run => WithWait(c, z).next_to_run
           /\ c.next_to_run => WithRun(c, z).next_to_run
           /\ c.next_to_run => WithLength(c, n).next_to_run
  BY DEF Copy, WithStart, WithWait, WithRun, WithLength

LEMMA RuntimeFacts ==
    ASSUME ParametersInv, job \in [Job -> Copy], NEW j \in Job
    PROVE  /\ Runtime(j) \in Nat /\ Runtime(j) <= job[j].length /\ timeslice \in Nat
           /\ Runtime(j) = job[j].length \/ (timeslice # 0 /\ Runtime(j) = timeslice)
           /\ timeslice # 0 => Runtime(j) <= timeslice
<1>1. timeslice \in Nat /\ job[j].length \in Nat
  BY WorkloadAssumption DEF ParametersInv, Copy
<1> QED BY <1>1 DEF Runtime

LEMMA ServedFacts ==
    ASSUME ParametersInv, job \in [Job -> Copy], NEW j \in Job
    PROVE  /\ Served(j) \in Copy
           /\ Served(j).start_time = Started(j) /\ Served(j).wait_time = Waited(j)
           /\ Served(j).last_run = sim_time + Runtime(j)
           /\ Served(j).length = job[j].length - Runtime(j)
           /\ Served(j).next_to_run => job[j].next_to_run
           /\ job[j].next_to_run => Served(j).next_to_run
<1>1. /\ job[j] \in Copy /\ job[j].length \in Nat /\ job[j].start_time \in Int
      /\ job[j].wait_time \in Int /\ job[j].last_run \in Int
  BY DEF Copy
<1>2. /\ sim_time \in Nat /\ work[j].arrival \in Nat
  BY WorkFacts DEF ParametersInv
<1>3. /\ Started(j) \in Int /\ Waited(j) \in Int /\ sim_time + Runtime(j) \in Int
      /\ job[j].length - Runtime(j) \in Nat
  BY <1>1, <1>2, RuntimeFacts DEF Started, Waited
<1> DEFINE c1 == WithStart(job[j], Started(j))
           c2 == WithWait(c1, Waited(j))
           c3 == WithRun(c2, sim_time + Runtime(j))
           c4 == WithLength(c3, job[j].length - Runtime(j))
<1>4. /\ c1 \in Copy /\ c1.start_time = Started(j) /\ c1.length = job[j].length
  BY <1>1, <1>3, WithFacts
<1>5. (c1.next_to_run => job[j].next_to_run) /\ (job[j].next_to_run => c1.next_to_run)
  BY <1>1, <1>3, WithMark
<1> HIDE DEF c1
<1>6. /\ c2 \in Copy /\ c2.start_time = c1.start_time /\ c2.length = c1.length
      /\ c2.wait_time = Waited(j)
  BY <1>3, <1>4, WithFacts
<1>7. (c2.next_to_run => c1.next_to_run) /\ (c1.next_to_run => c2.next_to_run)
  BY <1>3, <1>4, WithMark
<1> HIDE DEF c2
<1>8. /\ c3 \in Copy /\ c3.start_time = c2.start_time /\ c3.length = c2.length
      /\ c3.wait_time = c2.wait_time /\ c3.last_run = sim_time + Runtime(j)
  BY <1>3, <1>6, WithFacts
<1>9. (c3.next_to_run => c2.next_to_run) /\ (c2.next_to_run => c3.next_to_run)
  BY <1>3, <1>6, WithMark
<1> HIDE DEF c3
<1>10. /\ c4 \in Copy /\ c4.start_time = c3.start_time
       /\ c4.length = job[j].length - Runtime(j)
       /\ c4.wait_time = c3.wait_time /\ c4.last_run = c3.last_run
  BY <1>3, <1>8, WithFacts
<1>11. (c4.next_to_run => c3.next_to_run) /\ (c3.next_to_run => c4.next_to_run)
  BY <1>3, <1>8, WithMark
<1>12. Served(j) = c4
  BY <1>4, <1>6, <1>8, Zenon DEF Served, c1, c2, c3, WithStart, WithWait, WithRun, WithLength
<1> HIDE DEF c4
<1> QED BY <1>4, <1>5, <1>6, <1>7, <1>8, <1>9, <1>10, <1>11, <1>12

LEMMA CutMembers ==
    ASSUME NEW q \in Seq(Job), Job \subseteq Nat, Increasing(q), NEW k \in DOMAIN q
    PROVE  /\ Increasing(Cut(q, k))
           /\ Members(Cut(q, k)) = Members(q) \ {q[k]}
<1> PICK r : r = Cut(q, k)
  OBVIOUS
<1>1. /\ Len(q) \in Nat /\ DOMAIN q = 1 .. Len(q) /\ k \in 1 .. Len(q)
      /\ \A l \in 1 .. Len(q) : q[l] \in Nat
  BY SeqFacts
<1>2. /\ DOMAIN r = 1 .. Len(q) - 1
      /\ \A l \in 1 .. Len(q) - 1 : r[l] = IF l < k THEN q[l] ELSE q[l + 1]
  BY CutFacts, SeqFacts
<1>3. \A l, i \in 1 .. Len(q) : l < i => q[l] < q[i]
  BY <1>1 DEF Increasing
<1>4. Increasing(r)
  <2> SUFFICES ASSUME NEW l \in 1 .. Len(q) - 1, NEW i \in 1 .. Len(q) - 1, l < i
               PROVE  r[l] < r[i]
    BY <1>2 DEF Increasing
  <2>1. CASE i < k
    BY <1>1, <1>2, <1>3, <2>1
  <2>2. CASE ~(i < k)
    <3>1. r[i] = q[i + 1] /\ i + 1 \in 1 .. Len(q) /\ l + 1 \in 1 .. Len(q)
      BY <1>1, <1>2, <2>2
    <3>2. r[l] = q[l] \/ r[l] = q[l + 1]
      BY <1>2
    <3> QED BY <1>1, <1>3, <3>1, <3>2
  <2> QED BY <2>1, <2>2
<1>5. ASSUME NEW x \in Members(r) PROVE x \in Members(q) /\ x # q[k]
  <2> PICK l \in 1 .. Len(q) - 1 : x = r[l]
    BY <1>2 DEF Members
  <2>1. CASE l < k
    <3>1. l \in DOMAIN q /\ x = q[l] /\ q[l] < q[k] /\ q[l] \in Nat /\ q[k] \in Nat
      BY <1>1, <1>2, <1>3, <2>1
    <3> QED BY <3>1 DEF Members
  <2>2. CASE ~(l < k)
    <3>1. l + 1 \in DOMAIN q /\ x = q[l + 1] /\ q[k] < q[l + 1]
          /\ q[l + 1] \in Nat /\ q[k] \in Nat
      BY <1>1, <1>2, <1>3, <2>2
    <3> QED BY <3>1 DEF Members
  <2> QED BY <2>1, <2>2
<1>6. ASSUME NEW x \in Members(q), x # q[k] PROVE x \in Members(r)
  <2> PICK l \in 1 .. Len(q) : x = q[l]
    BY <1>1 DEF Members
  <2>1. CASE l < k
    <3>1. l \in DOMAIN r /\ x = r[l]
      BY <1>1, <1>2, <2>1
    <3> QED BY <3>1 DEF Members
  <2>2. CASE k < l
    <3>1. l - 1 \in 1 .. Len(q) - 1 /\ ~(l - 1 < k) /\ (l - 1) + 1 = l
      BY <1>1, <2>2
    <3>2. l - 1 \in DOMAIN r /\ x = r[l - 1]
      BY <1>2, <3>1
    <3> QED BY <3>2 DEF Members
  <2> QED BY <1>1, <1>6, <2>1, <2>2
<1> QED BY <1>4, <1>5, <1>6
-----------------------------------------------------------------------------
(* The job that runs, and the queue and the copies as handle_run has them
   before and after the mark moves. *)
Chosen     == queue[policy_func]
Grown      == add_new_jobs(queue, sim_time')
ServedJobs == [job EXCEPT ![Chosen] = Served(Chosen)]

LEMMA QueueFacts ==
    ASSUME Inv
    PROVE  /\ queue \in Seq(Job) /\ Job \subseteq Nat
           /\ Len(queue) \in Nat /\ DOMAIN queue = 1 .. Len(queue)
           /\ (queue # <<>> => Len(queue) >= 1)
           /\ \A k \in DOMAIN queue : /\ queue[k] \in Job /\ queue[k] \in scheduled
                                      /\ queue[k] \notin Finished
           /\ \A k, l \in DOMAIN queue : k < l => queue[k] < queue[l]
           /\ \A k, l \in DOMAIN queue : queue[k] = queue[l] => k = l
<1>1. queue \in Seq(Job) /\ Increasing(queue) /\ Members(queue) = scheduled \ Finished
  BY DEF Inv, QueueInv
<1>2. Job \subseteq Nat
  BY WorkFacts DEF Inv, ParametersInv
<1>3. /\ Len(queue) \in Nat /\ DOMAIN queue = 1 .. Len(queue)
      /\ \A k \in DOMAIN queue : queue[k] \in Job
  BY <1>1, SeqFacts
<1>4. \A k \in DOMAIN queue : queue[k] \in scheduled /\ queue[k] \notin Finished
  BY <1>1 DEF Members
<1>5. queue # <<>> => Len(queue) >= 1
  BY <1>1, <1>3
<1>6. \A k, l \in DOMAIN queue : k < l => queue[k] < queue[l]
  BY <1>1 DEF Increasing
<1>7. \A k, l \in DOMAIN queue : queue[k] = queue[l] => k = l
  <2> TAKE k, l \in DOMAIN queue
  <2>1. k \in Nat /\ l \in Nat
    BY <1>3
  <2>2. queue[k] \in Nat /\ queue[l] \in Nat
    BY <1>2, <1>3
  <2> QED BY <1>6, <2>1, <2>2
<1> QED BY <1>1, <1>2, <1>3, <1>4, <1>5, <1>6, <1>7

(* No copy before the one a policy picks has length 0.                       *)
LEMMA PolicyFacts ==
    ASSUME Inv, queue # <<>>
    PROVE  /\ policy_func \in DOMAIN queue
           /\ \A l \in DOMAIN queue : l < policy_func => job[queue[l]].length # 0
           /\ policy = "FIFO" => policy_func = 1
           /\ policy = "SJF" =>
                \A l \in DOMAIN queue :
                   /\ job[queue[policy_func]].length <= job[queue[l]].length
                   /\ l < policy_func => job[queue[policy_func]].length < job[queue[l]].length
           /\ policy = "RR" => /\ Marked(queue, job) = {} => policy_func = 1
                               /\ \A k \in Marked(queue, job) : policy_func = k
<1>1. /\ policy \in {"FIFO", "SJF", "RR"} /\ MarkInv
      /\ Len(queue) \in Nat /\ DOMAIN queue = 1 .. Len(queue) /\ Len(queue) >= 1
  BY QueueFacts DEF Inv, ParametersInv
<1>2. \A k \in DOMAIN queue : job[queue[k]].length \in Nat
  BY QueueFacts DEF Inv, JobInv, Copy
<1>3. CASE policy = "FIFO"
  BY <1>1, <1>3 DEF policy_func, handler_FIFO
<1>4. CASE policy = "SJF"
  <2> DEFINE lengths == {job[queue[k]].length : k \in DOMAIN queue}
             best    == {k \in DOMAIN queue :
                           \A l \in DOMAIN queue : job[queue[k]].length <= job[queue[l]].length}
  <2>1. lengths \in SUBSET Nat /\ job[queue[1]].length \in lengths
    BY <1>1, <1>2
  <2>2. PICK x \in lengths : \A y \in lengths : x <= y
    BY <2>1, LeastNat
  <2>3. PICK k \in DOMAIN queue : x = job[queue[k]].length
    BY <2>2
  <2>4. k \in best
    BY <2>2, <2>3
  <2>5. best \in SUBSET Nat
    BY <1>1
  <2>6. Least(best) \in best /\ \A m \in best : Least(best) <= m
    BY <2>4, <2>5, LeastFacts
  <2>7. policy_func = Least(best)
    BY <1>4 DEF policy_func, handler_SJF
  <2> PICK p : p = policy_func
    OBVIOUS
  <2>8. p \in DOMAIN queue /\ \A l \in DOMAIN queue : job[queue[p]].length <= job[queue[l]].length
    BY <2>6, <2>7
  <2>9. ASSUME NEW l \in DOMAIN queue, l < p PROVE job[queue[p]].length < job[queue[l]].length
    <3>1. l \notin best
      <4>1. \A m \in best : p <= m
        BY <2>6, <2>7
      <4>2. l \in Nat /\ p \in Nat
        BY <1>1, <2>8
      <4> HIDE DEF best
      <4> QED BY <2>9, <4>1, <4>2
    <3>2. PICK i \in DOMAIN queue : ~(job[queue[l]].length <= job[queue[i]].length)
      BY <3>1
    <3>3. job[queue[p]].length <= job[queue[i]].length
      BY <2>8
    <3> QED BY <1>2, <2>8, <3>2, <3>3
  <2>10. ASSUME NEW l \in DOMAIN queue, l < p PROVE job[queue[l]].length # 0
    BY <1>2, <2>8, <2>9, <2>10
  <2> QED BY <1>4, <2>8, <2>9, <2>10
<1>5. CASE policy = "RR" /\ Marked(queue, job) = {}
  BY <1>1, <1>5 DEF policy_func, handler_RR
<1>6. CASE policy = "RR" /\ Marked(queue, job) # {}
  <2> PICK k \in Marked(queue, job) : TRUE
    BY <1>6
  <2>1. /\ k \in DOMAIN queue /\ Marked(queue, job) \in SUBSET Nat
        /\ \A l \in Marked(queue, job) : k = l
    BY <1>1 DEF Marked, MarkInv
  <2>2. Least(Marked(queue, job)) = k
    BY <1>1, <2>1, LeastIs
  <2>3. policy_func = k
    BY <1>6, <2>2 DEF policy_func, handler_RR
  <2> QED BY <1>1, <1>6, <2>1, <2>3 DEF MarkInv
<1> QED BY <1>1, <1>3, <1>4, <1>5, <1>6

LEMMA RunParts ==
    ASSUME Run
    PROVE  /\ jobs_run < jobs_total /\ queue # <<>>
           /\ trace' = Append(trace, [t |-> sim_time, job |-> Chosen, ran |-> Runtime(Chosen)])
           /\ sim_time' = sim_time + Runtime(Chosen)
           /\ scheduled' = scheduled \cup NotScheduled(sim_time')
           /\ job' = shift_job_queue(Grown, ServedJobs)
           /\ \/ /\ job'[Chosen].length = 0
                 /\ stats' = insert_stats_sorted(StatsOf(Chosen, job'[Chosen], sim_time'))
                 /\ queue' = remove_finished_jobs(Grown, job')
              \/ job'[Chosen].length # 0 /\ queue' = Grown /\ UNCHANGED stats
           /\ UNCHANGED <<work, policy, timeslice>>
  BY Zenon DEF Run, Chosen, Grown, ServedJobs

LEMMA GrownFacts ==
    ASSUME Inv, Run
    PROVE  /\ Chosen \in Job /\ Chosen \in scheduled /\ Chosen \notin Finished
           /\ policy_func \in DOMAIN queue /\ Chosen = queue[policy_func]
           /\ sim_time' \in Nat /\ sim_time <= sim_time'
           /\ Job' = Job /\ work' = work
           /\ Grown \in Seq(Job) /\ Increasing(Grown)
           /\ Len(Grown) \in Nat /\ DOMAIN Grown = 1 .. Len(Grown) /\ Len(queue) <= Len(Grown)
           /\ \A k \in DOMAIN queue : k \in DOMAIN Grown /\ Grown[k] = queue[k]
           /\ \A k \in DOMAIN Grown : k \notin DOMAIN queue => Grown[k] \in Job \ scheduled
           /\ \A k, l \in DOMAIN Grown : Grown[k] = Grown[l] => k = l
           /\ Members(Grown) = scheduled' \ Finished
           /\ scheduled' = {j \in Job : work[j].arrival <= sim_time'}
           /\ scheduled \subseteq scheduled'
<1>1. /\ queue # <<>> /\ sim_time' = sim_time + Runtime(Chosen)
      /\ scheduled' = scheduled \cup NotScheduled(sim_time') /\ work' = work
  BY RunParts
<1>2. /\ policy_func \in DOMAIN queue /\ Chosen = queue[policy_func]
  BY <1>1, PolicyFacts DEF Chosen
<1>3. Chosen \in Job /\ Chosen \in scheduled /\ Chosen \notin Finished
  BY <1>2, QueueFacts
<1>4. Runtime(Chosen) \in Nat /\ sim_time \in Nat
  BY <1>3, RuntimeFacts DEF Inv, JobInv, ParametersInv
<1> PICK t : t = sim_time'
  OBVIOUS
<1>5. t \in Nat /\ sim_time <= t
  BY <1>1, <1>4
<1> DEFINE q == add_new_jobs(queue, t)
<1>6. Grown = q
  BY Zenon DEF Grown
<1>7. ParametersInv /\ QueueInv
  BY DEF Inv
<1>8. /\ q \in Seq(Job) /\ Len(queue) <= Len(q)
      /\ \A k \in DOMAIN queue : q[k] = queue[k]
      /\ \A k \in DOMAIN q : k > Len(queue) => q[k] \in Job \ scheduled
      /\ Increasing(q)
      /\ Members(q) = Members(queue) \cup NotScheduled(t)
      /\ scheduled \cup NotScheduled(t) = {j \in Job : work[j].arrival <= t}
  BY <1>5, <1>7, NewJobs
<1> HIDE DEF q
<1>9. /\ Len(q) \in Nat /\ DOMAIN q = 1 .. Len(q) /\ \A k \in 1 .. Len(q) : q[k] \in Job
  BY <1>8, SeqFacts
<1>10. /\ Len(queue) \in Nat /\ DOMAIN queue = 1 .. Len(queue) /\ Job \subseteq Nat
  BY QueueFacts
<1>11. /\ \A k \in DOMAIN queue : k \in DOMAIN q /\ q[k] = queue[k]
       /\ \A k \in DOMAIN q : k \notin DOMAIN queue => q[k] \in Job \ scheduled
  BY <1>8, <1>9, <1>10
<1>12. \A k, l \in DOMAIN q : q[k] = q[l] => k = l
  <2> SUFFICES ASSUME NEW k \in DOMAIN q, NEW l \in DOMAIN q, k < l PROVE q[k] # q[l]
    BY <1>9
  <2>1. q[k] \in Nat /\ q[l] \in Nat /\ q[k] < q[l]
    BY <1>8, <1>9, <1>10 DEF Increasing
  <2> QED BY <2>1
<1>13. Finished \subseteq scheduled
  <2> SUFFICES ASSUME NEW k \in DOMAIN stats PROVE stats[k].id \in scheduled
    BY DEF Finished
  <2>1. stats \in Seq(Stats) /\ HasRun(stats[k].id)
    BY DEF Inv, StatsInv, StatsOk, Members
  <2>2. stats[k].id \in Job
    <3>1. stats[k] \in Stats
      BY <2>1, SeqFacts
    <3> QED BY <3>1 DEF Stats
  <2> PICK i \in Job : i = stats[k].id
    BY <2>2
  <2>3. work[i].arrival <= job[i].last_run /\ job[i].last_run <= sim_time
    BY <2>1 DEF HasRun, Times
  <2>4. work[i].arrival \in Nat /\ job[i].last_run \in Int
    BY WorkFacts DEF Inv, ParametersInv, JobInv, Copy
  <2>5. work[i].arrival <= sim_time
    BY <1>4, <2>3, <2>4
  <2> QED BY <2>5 DEF Inv, QueueInv
<1>14. Members(q) = scheduled' \ Finished
  <2>1. Members(queue) = scheduled \ Finished /\ NotScheduled(t) \cap scheduled = {}
    BY DEF Inv, QueueInv, NotScheduled
  <2> QED BY <1>1, <1>8, <1>13, <2>1
<1>15. Job' = Job
  BY <1>1 DEF Job
<1> QED BY <1>1, <1>2, <1>3, <1>5, <1>6, <1>8, <1>9, <1>11, <1>12, <1>14, <1>15

LEMMA JobFacts ==
    ASSUME Inv, Run
    PROVE  /\ job' \in [Job -> Copy]
           /\ \A i \in Job \ {Chosen} : ButMark(job'[i], job[i])
           /\ ButMark(job'[Chosen], Served(Chosen))
           /\ \A i \in Job \ scheduled' : ~job'[i].next_to_run
           /\ Marked(queue, job) = {} => Marked(Grown, job') = IF Len(Grown) > 1 THEN {2} ELSE {}
           /\ \A k \in Marked(queue, job) :
                 Marked(Grown, job') = {IF k = Len(Grown) THEN 1 ELSE k + 1}
<1> PICK j : j = Chosen
  OBVIOUS
<1> PICK q : q = Grown
  OBVIOUS
<1> PICK f : f = ServedJobs
  OBVIOUS
<1>1. job' = shift_job_queue(q, f) /\ f = [job EXCEPT ![j] = Served(j)]
  BY RunParts DEF ServedJobs
<1>2. /\ j \in Job /\ j \in scheduled /\ q \in Seq(Job) /\ Len(q) \in Nat /\ DOMAIN q = 1 .. Len(q)
      /\ \A k \in DOMAIN queue : k \in DOMAIN q /\ q[k] = queue[k]
      /\ \A k \in DOMAIN q : k \notin DOMAIN queue => q[k] \in Job \ scheduled
      /\ \A k, l \in DOMAIN q : q[k] = q[l] => k = l
      /\ Members(q) = scheduled' \ Finished /\ scheduled \subseteq scheduled'
      /\ policy_func \in DOMAIN queue
  BY GrownFacts
<1>3. ParametersInv /\ job \in [Job -> Copy] /\ MarkInv
  BY DEF Inv, JobInv
<1>4. /\ Served(j) \in Copy
      /\ Served(j).next_to_run => job[j].next_to_run
      /\ job[j].next_to_run => Served(j).next_to_run
  BY <1>2, <1>3, ServedFacts
<1>5. f \in [Job -> Copy] /\ f[j] = Served(j) /\ \A i \in Job \ {j} : f[i] = job[i]
  BY <1>1, <1>2, <1>3, <1>4
<1>6. \A i \in Job : (f[i].next_to_run => job[i].next_to_run)
                     /\ (job[i].next_to_run => f[i].next_to_run)
  BY <1>4, <1>5
<1>7. Marked(q, f) = Marked(queue, job)
  <2>1. ASSUME NEW k \in Marked(q, f) PROVE k \in Marked(queue, job)
    <3>1. k \in DOMAIN q /\ f[q[k]].next_to_run
      BY <2>1 DEF Marked
    <3>2. q[k] \in Job
      BY <1>2, <3>1, SeqFacts
    <3>3. job[q[k]].next_to_run
      BY <1>6, <3>1, <3>2
    <3>4. k \in DOMAIN queue
      BY <1>2, <1>3, <3>1, <3>3 DEF MarkInv
    <3> QED BY <1>2, <3>3, <3>4 DEF Marked
  <2>2. ASSUME NEW k \in Marked(queue, job) PROVE k \in Marked(q, f)
    <3>1. k \in DOMAIN queue /\ job[queue[k]].next_to_run
      BY <2>2 DEF Marked
    <3>2. k \in DOMAIN q /\ q[k] = queue[k] /\ q[k] \in Job
      BY <1>2, <3>1, SeqFacts
    <3>3. f[q[k]].next_to_run
      BY <1>6, <3>1, <3>2
    <3> QED BY <3>2, <3>3 DEF Marked
  <2> QED BY <2>1, <2>2
<1>8. \A k, l \in Marked(q, f) : k = l
  BY <1>3, <1>7 DEF MarkInv
<1>9. q # <<>>
  BY <1>2
<1> PICK g : g = shift_job_queue(q, f)
  OBVIOUS
<1>10. /\ g \in [Job -> Copy]
       /\ \A i \in Job : ButMark(g[i], f[i])
       /\ \A i \in Job : i \notin Members(q) => g[i] = f[i]
  BY <1>2, <1>5, <1>8, <1>9, ShiftFacts
<1>11. /\ Marked(q, f) = {} => Marked(q, g) = IF Len(q) > 1 THEN {2} ELSE {}
       /\ \A k \in Marked(q, f) : Marked(q, g) = {IF k = Len(q) THEN 1 ELSE k + 1}
  BY <1>2, <1>5, <1>8, <1>9, ShiftFacts
<1>12. job' = g
  BY <1>1
<1>13. \A i \in Job \ {j} : ButMark(g[i], job[i])
  BY <1>5, <1>10
<1>14. ButMark(g[j], Served(j))
  BY <1>2, <1>5, <1>10
<1>15. ASSUME NEW i \in Job \ scheduled' PROVE ~g[i].next_to_run
  <2>1. i \notin Members(q) /\ i # j /\ i \in Job \ scheduled
    BY <1>2, <1>15
  <2>2. g[i] = job[i]
    BY <1>5, <1>10, <2>1
  <2> QED BY <1>3, <2>1, <2>2 DEF MarkInv
<1> QED BY <1>7, <1>10, <1>11, <1>12, <1>13, <1>14, <1>15

(* The first copy of length 0 is that of the job that has just run.          *)
LEMMA EndFacts ==
    ASSUME Inv, Run
    PROVE  \/ /\ Served(Chosen).length = 0
              /\ queue' = Cut(Grown, policy_func)
              /\ stats' = insert_stats_sorted(StatsOf(Chosen, job'[Chosen], sim_time'))
           \/ /\ Served(Chosen).length # 0
              /\ queue' = Grown /\ stats' = stats
<1> PICK j : j = Chosen
  OBVIOUS
<1> PICK q : q = Grown
  OBVIOUS
<1> PICK p : p = policy_func
  OBVIOUS
<1> PICK g : g = job'
  OBVIOUS
<1>1. \/ /\ g[j].length = 0
         /\ stats' = insert_stats_sorted(StatsOf(Chosen, job'[Chosen], sim_time'))
         /\ queue' = remove_finished_jobs(q, g)
      \/ g[j].length # 0 /\ queue' = q /\ stats' = stats
  BY RunParts
<1>2. ButMark(g[j], Served(j)) /\ \A i \in Job \ {j} : ButMark(g[i], job[i])
  BY JobFacts
<1>3. g[j].length = Served(j).length /\ \A i \in Job \ {j} : g[i].length = job[i].length
  BY <1>2 DEF ButMark
<1>4. CASE g[j].length = 0
  <2> DEFINE zero == {k \in DOMAIN q : g[q[k]].length = 0}
  <2>1. /\ q \in Seq(Job) /\ Len(q) \in Nat /\ DOMAIN q = 1 .. Len(q)
        /\ \A k \in DOMAIN queue : k \in DOMAIN q /\ q[k] = queue[k]
        /\ Len(queue) <= Len(q)
        /\ \A k, l \in DOMAIN q : q[k] = q[l] => k = l
        /\ p \in DOMAIN queue /\ j = queue[p] /\ j \in Job
    BY GrownFacts
  <2>2. Len(queue) \in Nat /\ DOMAIN queue = 1 .. Len(queue)
    BY QueueFacts
  <2>3. p \in zero /\ zero \in SUBSET Nat
    BY <1>4, <2>1
  <2>4. ASSUME NEW l \in zero PROVE p <= l
    <3> SUFFICES ASSUME l < p PROVE FALSE
      BY <2>1, <2>2
    <3>1. l \in DOMAIN queue
      BY <2>1, <2>2
    <3>2. q[l] = queue[l] /\ q[l] # j /\ q[l] \in Job
      BY <2>1, <2>2, <3>1, SeqFacts
    <3>3. job[queue[l]].length # 0
      BY <3>1, PolicyFacts, RunParts
    <3> QED BY <1>3, <3>2, <3>3
  <2> HIDE DEF zero
  <2>5. Least(zero) = p
    BY <2>3, <2>4, LeastIs
  <2>6. remove_finished_jobs(q, g) = Cut(q, p)
    BY <2>3, <2>5 DEF remove_finished_jobs, Cut, zero
  <2> QED BY <1>1, <1>3, <1>4, <2>6
<1> QED BY <1>1, <1>3, <1>4

(* Where a job ends, its statistics are added to those of the others.        *)
LEMMA StatsAdded ==
    ASSUME Inv, NEW s \in Stats
    PROVE  /\ insert_stats_sorted(s) \in Seq(Stats)
           /\ Len(insert_stats_sorted(s)) = Len(stats) + 1
           /\ Members(insert_stats_sorted(s)) = Members(stats) \cup {s}
<1> DEFINE before == {m \in DOMAIN stats : stats[m].id < s.id}
           k      == Cardinality(before)
<1>1. stats \in Seq(Stats) /\ Len(stats) \in Nat /\ DOMAIN stats = 1 .. Len(stats)
  BY SeqFacts DEF Inv, StatsInv
<1>2. IsFiniteSet(1 .. Len(stats)) /\ Cardinality(1 .. Len(stats)) = Len(stats)
  BY <1>1, FS_Interval
<1>3. before \in SUBSET (1 .. Len(stats))
  BY <1>1
<1> HIDE DEF before
<1>4. IsFiniteSet(before) /\ k <= Len(stats) /\ k \in Nat
  BY <1>2, <1>3, FS_Subset, FS_CardinalityType
<1>5. k \in 0 .. Len(stats)
  BY <1>1, <1>4
<1>6. insert_stats_sorted(s) = Insert(stats, k, s)
  BY DEF insert_stats_sorted, Insert, before
<1> HIDE DEF k
<1>7. /\ Insert(stats, k, s) \in Seq(Stats) /\ Len(Insert(stats, k, s)) = Len(stats) + 1
      /\ Members(Insert(stats, k, s)) = Members(stats) \cup {s}
  <2>1. stats \in Seq(Stats)
    BY <1>1
  <2> QED BY <1>5, <2>1, InsertFacts
<1> QED BY <1>6, <1>7

LEMMA StatsOfFacts ==
    ASSUME Inv, Run
    PROVE  StatsOf(Chosen, job'[Chosen], sim_time') \in Stats
<1> PICK j : j = Chosen
  OBVIOUS
<1> PICK c : c = job'[j]
  OBVIOUS
<1>1. c \in Copy /\ j \in Job /\ sim_time' \in Nat /\ work[j].arrival \in Nat
  BY JobFacts, GrownFacts, WorkFacts DEF Inv, ParametersInv
<1>2. c.start_time \in Int /\ c.wait_time \in Int
  BY <1>1 DEF Copy
<1> QED BY <1>1, <1>2 DEF StatsOf, Stats

LEMMA EndQueue ==
    ASSUME Inv, Run
    PROVE  QueueInv'
<1> PICK j : j = Chosen
  OBVIOUS
<1> PICK q : q = Grown
  OBVIOUS
<1> PICK p : p = policy_func
  OBVIOUS
<1>1. /\ q \in Seq(Job) /\ Increasing(q) /\ Len(q) \in Nat /\ DOMAIN q = 1 .. Len(q)
      /\ \A k \in DOMAIN queue : k \in DOMAIN q /\ q[k] = queue[k]
      /\ p \in DOMAIN queue /\ j = queue[p] /\ j \in Job
      /\ Members(q) = scheduled' \ Finished
      /\ scheduled' = {i \in Job : work[i].arrival <= sim_time'}
      /\ Job' = Job /\ work' = work
  BY GrownFacts
<1>2. Job \subseteq Nat
  BY QueueFacts
<1>3. p \in DOMAIN q /\ j = q[p]
  BY <1>1
<1>4. CASE Served(j).length # 0
  <2>1. queue' = q /\ stats' = stats
    BY <1>4, EndFacts
  <2>2. Finished' = Finished
    BY <2>1 DEF Finished
  <2> QED BY <1>1, <2>1, <2>2 DEF QueueInv, Increasing, Members
<1>5. CASE Served(j).length = 0
  <2> PICK s : s = StatsOf(Chosen, job'[Chosen], sim_time')
    OBVIOUS
  <2> PICK r : r = Cut(q, p)
    OBVIOUS
  <2>1. queue' = r /\ stats' = insert_stats_sorted(s)
    BY <1>5, EndFacts
  <2>2. s \in Stats /\ s.id = j
    BY StatsOfFacts DEF StatsOf
  <2>3. Members(stats') = Members(stats) \cup {s}
    BY <2>1, <2>2, StatsAdded
  <2>4. Finished' = {e.id : e \in Members(stats')} /\ Finished = {e.id : e \in Members(stats)}
    BY DEF Finished, Members
  <2>5. Finished' = Finished \cup {j}
    BY <2>2, <2>3, <2>4
  <2>6. r \in Seq(Job)
    BY <1>1, <1>3, CutFacts
  <2>7. Increasing(r) /\ Members(r) = Members(q) \ {j}
    BY <1>1, <1>2, <1>3, CutMembers
  <2>8. Members(r) = scheduled' \ Finished'
    BY <1>1, <2>5, <2>7
  <2> QED BY <1>1, <2>1, <2>6, <2>7, <2>8 DEF QueueInv, Increasing, Members
<1> QED BY <1>4, <1>5

LEMMA AtMostOne ==
    ASSUME Inv, Run
    PROVE  \A k, l \in Marked(Grown, job') : k = l
<1>1. CASE Marked(queue, job) = {}
  BY <1>1, JobFacts
<1>2. CASE Marked(queue, job) # {}
  BY <1>2, JobFacts
<1> QED BY <1>1, <1>2

(* Under round robin the job that runs has the mark or there is none; then
   the job after it gets it. *)
LEMMA Rotated ==
    ASSUME Inv, Run, policy = "RR"
    PROVE  /\ policy_func < Len(Grown) => Marked(Grown, job') = {policy_func + 1}
           /\ policy_func = Len(Grown) => Marked(Grown, job') \subseteq {1}
<1> PICK p : p = policy_func
  OBVIOUS
<1> PICK n : n = Len(Grown)
  OBVIOUS
<1> PICK M : M = Marked(Grown, job')
  OBVIOUS
<1>1. /\ Marked(queue, job) = {} => p = 1
      /\ \A k \in Marked(queue, job) : p = k
  BY PolicyFacts, RunParts
<1>2. p \in 1 .. n /\ n \in Nat
  BY GrownFacts
<1>3. CASE Marked(queue, job) = {}
  <2>1. M = IF n > 1 THEN {2} ELSE {}
    BY <1>3, JobFacts
  <2> QED BY <1>1, <1>2, <1>3, <2>1
<1>4. CASE Marked(queue, job) # {}
  <2>1. M = {IF p = n THEN 1 ELSE p + 1}
    BY <1>1, <1>4, JobFacts
  <2> QED BY <1>2, <2>1
<1> QED BY <1>3, <1>4

LEMMA MarkedCut ==
    ASSUME NEW q \in Seq(Job), NEW p \in DOMAIN q, NEW f
    PROVE  /\ \A k \in Marked(Cut(q, p), f) : /\ k \in 1 .. Len(q) - 1
                                              /\ k < p => k \in Marked(q, f)
                                              /\ ~(k < p) => k + 1 \in Marked(q, f)
           /\ \A k \in 1 .. Len(q) - 1 : k < p /\ k \in Marked(q, f) => k \in Marked(Cut(q, p), f)
           /\ \A k \in 1 .. Len(q) - 1 :
                 ~(k < p) /\ k + 1 \in Marked(q, f) => k \in Marked(Cut(q, p), f)
<1> PICK r : r = Cut(q, p)
  OBVIOUS
<1>1. /\ r \in Seq(Job) /\ Len(r) = Len(q) - 1
      /\ \A l \in 1 .. Len(q) - 1 : r[l] = IF l < p THEN q[l] ELSE q[l + 1]
  BY CutFacts
<1>2. /\ DOMAIN r = 1 .. Len(q) - 1 /\ DOMAIN q = 1 .. Len(q) /\ Len(q) \in Nat /\ p \in 1 .. Len(q)
  BY <1>1, SeqFacts
<1>3. ASSUME NEW k \in Marked(r, f)
      PROVE  /\ k \in 1 .. Len(q) - 1
             /\ k < p => k \in Marked(q, f)
             /\ ~(k < p) => k + 1 \in Marked(q, f)
  <2>1. k \in 1 .. Len(q) - 1 /\ f[r[k]].next_to_run
    BY <1>2, <1>3 DEF Marked
  <2>2. CASE k < p
    <3>1. k \in DOMAIN q /\ r[k] = q[k]
      BY <1>1, <1>2, <2>1, <2>2
    <3> QED BY <2>1, <2>2, <3>1 DEF Marked
  <2>3. CASE ~(k < p)
    <3>1. k + 1 \in DOMAIN q /\ r[k] = q[k + 1]
      BY <1>1, <1>2, <2>1, <2>3
    <3> QED BY <2>1, <2>3, <3>1 DEF Marked
  <2> QED BY <2>1, <2>2, <2>3
<1>4. ASSUME NEW k \in 1 .. Len(q) - 1, k < p, k \in Marked(q, f) PROVE k \in Marked(r, f)
  <2>1. k \in DOMAIN r /\ r[k] = q[k]
    BY <1>1, <1>2, <1>4
  <2> QED BY <1>4, <2>1 DEF Marked
<1>5. ASSUME NEW k \in 1 .. Len(q) - 1, ~(k < p), k + 1 \in Marked(q, f)
      PROVE  k \in Marked(r, f)
  <2>1. k \in DOMAIN r /\ r[k] = q[k + 1]
    BY <1>1, <1>2, <1>5
  <2> QED BY <1>5, <2>1 DEF Marked
<1> QED BY <1>3, <1>4, <1>5

LEMMA RunMark ==
    ASSUME Inv, Run
    PROVE  MarkInv'
<1> PICK q : q = Grown
  OBVIOUS
<1> PICK p : p = policy_func
  OBVIOUS
<1> PICK g : g = job'
  OBVIOUS
<1> PICK j : j = Chosen
  OBVIOUS
<1>1. /\ q \in Seq(Job) /\ Len(q) \in Nat /\ DOMAIN q = 1 .. Len(q)
      /\ \A k \in DOMAIN queue : k \in DOMAIN q /\ q[k] = queue[k]
      /\ \A k, l \in DOMAIN q : q[k] = q[l] => k = l
      /\ p \in DOMAIN queue /\ j = queue[p] /\ j \in Job /\ p \in DOMAIN q
      /\ Job' = Job
  BY GrownFacts
<1>2. Len(queue) \in Nat /\ DOMAIN queue = 1 .. Len(queue)
  BY QueueFacts
<1>3. \A k, l \in Marked(q, g) : k = l
  BY AtMostOne
<1>4. /\ policy' = policy
      /\ policy = "RR" /\ p < Len(q) => Marked(q, g) = {p + 1}
      /\ policy = "RR" /\ p = Len(q) => Marked(q, g) \subseteq {1}
  BY Rotated, RunParts
<1>5. ASSUME NEW l \in DOMAIN q, l < p PROVE g[q[l]].length # 0
  <2>1. l \in DOMAIN queue
    BY <1>1, <1>2, <1>5
  <2>2. q[l] = queue[l] /\ q[l] # j /\ q[l] \in Job
    BY <1>1, <1>5, <2>1, SeqFacts
  <2>3. job[queue[l]].length # 0
    BY <1>5, <2>1, PolicyFacts, RunParts
  <2> QED BY <2>2, <2>3, JobFacts DEF ButMark
<1>6. \A i \in Job \ scheduled' : ~g[i].next_to_run
  BY JobFacts
<1>7. ASSUME \A k, l \in Marked(queue', g) : k = l,
             \A k \in Marked(queue', g), l \in DOMAIN queue' :
                policy = "RR" /\ l < k => g[queue'[l]].length # 0
      PROVE  MarkInv'
  BY <1>1, <1>4, <1>6, <1>7 DEF MarkInv, Marked
<1>8. CASE Served(j).length # 0
  <2>1. queue' = q
    BY <1>8, EndFacts
  <2>2. g[j].length # 0
    BY <1>8, JobFacts DEF ButMark
  <2>3. ASSUME NEW k \in Marked(q, g), NEW l \in DOMAIN q, policy = "RR", l < k
        PROVE  g[q[l]].length # 0
    <3>1. k \in 1 .. Len(q) /\ l \in 1 .. Len(q) /\ p \in 1 .. Len(q)
      BY <1>1 DEF Marked
    <3>2. k = p + 1 \/ k = 1
      BY <1>1, <1>4, <2>3, <3>1
    <3>3. l <= p
      BY <2>3, <3>1, <3>2
    <3>4. CASE l = p
      BY <1>1, <2>2, <3>4
    <3>5. CASE l < p
      BY <1>5, <3>5
    <3> QED BY <3>1, <3>3, <3>4, <3>5
  <2> QED BY <1>3, <1>7, <2>1, <2>3
<1>9. CASE Served(j).length = 0
  <2> PICK r : r = Cut(q, p)
    OBVIOUS
  <2>1. queue' = r
    BY <1>9, EndFacts
  <2>2. /\ r \in Seq(Job) /\ Len(r) = Len(q) - 1 /\ DOMAIN r = 1 .. Len(q) - 1
        /\ \A l \in 1 .. Len(q) - 1 : r[l] = IF l < p THEN q[l] ELSE q[l + 1]
    <3>1. /\ r \in Seq(Job) /\ Len(r) = Len(q) - 1
          /\ \A l \in 1 .. Len(q) - 1 : r[l] = IF l < p THEN q[l] ELSE q[l + 1]
      <4>1. q \in Seq(Job) /\ p \in DOMAIN q
        BY <1>1
      <4> QED BY <4>1, CutFacts
    <3> QED BY <3>1, SeqFacts
  <2>3. \A k \in Marked(r, g) : /\ k \in 1 .. Len(q) - 1
                                /\ k < p => k \in Marked(q, g)
                                /\ ~(k < p) => k + 1 \in Marked(q, g)
    <3>1. q \in Seq(Job) /\ p \in DOMAIN q
      BY <1>1
    <3> QED BY <3>1, MarkedCut
  <2>4. ASSUME NEW k \in Marked(r, g), NEW l \in Marked(r, g) PROVE k = l
    <3>1. k \in Nat /\ l \in Nat /\ p \in Nat
      BY <1>1, <2>3
    <3>2. CASE k < p /\ l < p
      BY <1>3, <2>3, <3>2
    <3>3. CASE k < p /\ ~(l < p)
      <4>1. k = l + 1
        BY <1>3, <2>3, <3>3
      <4> QED BY <3>1, <3>3, <4>1
    <3>4. CASE ~(k < p) /\ l < p
      <4>1. k + 1 = l
        BY <1>3, <2>3, <3>4
      <4> QED BY <3>1, <3>4, <4>1
    <3>5. CASE ~(k < p) /\ ~(l < p)
      <4>1. k + 1 = l + 1
        BY <1>3, <2>3, <3>5
      <4> QED BY <3>1, <4>1
    <3> QED BY <3>2, <3>3, <3>4, <3>5
  <2>5. ASSUME NEW k \in Marked(r, g), NEW l \in DOMAIN r, policy = "RR", l < k
        PROVE  g[r[l]].length # 0
    <3>1. k \in 1 .. Len(q) - 1 /\ l \in 1 .. Len(q) - 1 /\ p \in 1 .. Len(q) /\ l \in DOMAIN q
      BY <1>1, <2>2, <2>3
    <3>2. (k \in Marked(q, g) /\ k < p) \/ (k + 1 \in Marked(q, g) /\ ~(k < p))
      BY <2>3
    <3>3. p < Len(q) => Marked(q, g) = {p + 1}
      BY <1>4, <2>5
    <3>4. p = Len(q) => Marked(q, g) \subseteq {1}
      BY <1>4, <2>5
    <3>5. l < p
      <4>1. CASE p < Len(q)
        BY <2>5, <3>1, <3>2, <3>3, <4>1
      <4>2. CASE p = Len(q)
        BY <2>5, <3>1, <3>2, <3>4, <4>2
      <4> QED BY <1>1, <3>1, <4>1, <4>2
    <3>6. r[l] = q[l]
      BY <2>2, <3>1, <3>5
    <3> QED BY <1>5, <3>1, <3>5, <3>6
  <2> QED BY <1>7, <2>1, <2>4, <2>5
<1> QED BY <1>8, <1>9

LEMMA RunTrace ==
    ASSUME Inv, Run
    PROVE  /\ trace' \in Seq(Line) /\ DOMAIN trace' = 1 .. Len(trace) + 1
           /\ Len(trace) \in Nat /\ DOMAIN trace = 1 .. Len(trace)
           /\ \A n \in DOMAIN trace : trace'[n] = trace[n] /\ trace[n] \in Line
           /\ trace'[Len(trace) + 1] = [t |-> sim_time, job |-> Chosen, ran |-> Runtime(Chosen)]
<1> PICK e : e = [t |-> sim_time, job |-> Chosen, ran |-> Runtime(Chosen)]
  OBVIOUS
<1>1. e \in Line
  <2>1. Chosen \in Job /\ sim_time \in Nat /\ Runtime(Chosen) \in Nat
    BY GrownFacts, RuntimeFacts DEF Inv, JobInv, ParametersInv
  <2> QED BY <2>1 DEF Line
<1>2. trace \in Seq(Line) /\ trace' = Append(trace, e)
  BY RunParts DEF Inv, JobInv
<1>3. /\ Append(trace, e) \in Seq(Line) /\ DOMAIN Append(trace, e) = 1 .. Len(trace) + 1
      /\ Len(trace) \in Nat /\ DOMAIN trace = 1 .. Len(trace)
      /\ \A n \in DOMAIN trace : Append(trace, e)[n] = trace[n]
      /\ Append(trace, e)[Len(trace) + 1] = e
  BY <1>1, <1>2
<1>4. \A n \in DOMAIN trace : trace[n] \in Line
  BY <1>2, SeqFacts
<1> QED BY <1>2, <1>3, <1>4

LEMMA RunTypes ==
    ASSUME Inv, Run
    PROVE  ParametersInv'
  BY GrownFacts, RunParts DEF Inv, ParametersInv

LEMMA JobTypes ==
    ASSUME Inv, NEW i \in Job
    PROVE  /\ job[i].length \in Nat /\ job[i].start_time \in Int
           /\ job[i].wait_time \in Int /\ job[i].last_run \in Int
           /\ work[i].arrival \in Nat /\ work[i].length \in Nat /\ sim_time \in Nat
  BY WorkFacts DEF Inv, JobInv, ParametersInv, Copy

LEMMA OthersKept ==
    ASSUME Inv, Run, NEW i \in Job, i # Chosen
    PROVE  /\ NeverRun(i) => NeverRun(i)'
           /\ HasRun(i) => HasRun(i)'
           /\ ButMark(job'[i], job[i])
<1> DEFINE z == Len(trace) + 1
<1>1. ButMark(job'[i], job[i]) /\ work' = work /\ sim_time <= sim_time' /\ sim_time' \in Nat
  BY JobFacts, GrownFacts
<1>2. /\ DOMAIN trace' = DOMAIN trace \cup {z} /\ trace'[z].job = Chosen
      /\ DOMAIN trace \subseteq Nat
      /\ \A n \in DOMAIN trace : trace'[n] = trace[n]
  BY RunTrace
<1>3. \A n \in DOMAIN trace' : trace'[n].job = i => n \in DOMAIN trace /\ trace[n].job = i
  BY <1>2
<1>4. NeverRun(i) => NeverRun(i)'
  BY <1>1, <1>3 DEF NeverRun, ButMark
<1>5. ASSUME HasRun(i) PROVE HasRun(i)'
  <2>1. PICK n \in DOMAIN trace :
           /\ trace[n].job = i /\ job[i].start_time = trace[n].t
           /\ \A m \in DOMAIN trace : trace[m].job = i => n <= m
    BY <1>5 DEF HasRun
  <2>2. PICK l \in DOMAIN trace :
           /\ trace[l].job = i /\ job[i].last_run = trace[l].t + trace[l].ran
           /\ \A m \in DOMAIN trace : trace[m].job = i => m <= l
    BY <1>5 DEF HasRun
  <2>3. /\ n \in DOMAIN trace' /\ trace'[n].job = i /\ job'[i].start_time = trace'[n].t
        /\ \A m \in DOMAIN trace' : trace'[m].job = i => n <= m
    BY <1>1, <1>2, <1>3, <2>1 DEF ButMark
  <2>4. /\ l \in DOMAIN trace' /\ trace'[l].job = i /\ job'[i].last_run = trace'[l].t + trace'[l].ran
        /\ \A m \in DOMAIN trace' : trace'[m].job = i => m <= l
    BY <1>1, <1>2, <1>3, <2>2 DEF ButMark
  <2>5. Times(job'[i].start_time, job'[i].wait_time, job'[i].last_run, job'[i].length,
              work'[i].arrival, work'[i].length)
    BY <1>1, <1>5 DEF HasRun, ButMark
  <2>6. job'[i].last_run <= sim_time'
    <3>1. job'[i].last_run = job[i].last_run /\ job[i].last_run <= sim_time
      BY <1>1, <1>5 DEF HasRun, ButMark
    <3> QED BY <1>1, <3>1, JobTypes
  <2> QED BY <2>3, <2>4, <2>5, <2>6 DEF HasRun
<1> QED BY <1>1, <1>4, <1>5

LEMMA FirstTimes ==
    ASSUME NEW t \in Nat, NEW a \in Nat, NEW ran \in Nat, NEW n \in Nat, a <= t
    PROVE  Times(t, t - a, t + ran, n - ran, a, n)
  BY DEF Times

LEMMA LaterTimes ==
    ASSUME NEW start \in Int, NEW wait \in Int, NEW last \in Int, NEW left \in Nat,
           NEW a \in Nat, NEW n \in Nat, NEW t \in Nat, NEW ran \in Nat, last <= t,
           Times(start, wait, last, left, a, n)
    PROVE  Times(start, wait + t - last, t + ran, left - ran, a, n)
<1>1. /\ a <= start /\ a <= last /\ start - a <= wait
      /\ wait = (last - a) - (n - left)
  BY DEF Times
<1>2. a <= t + ran
  BY <1>1
<1>3. start - a <= wait + t - last
  BY <1>1
<1>4. n - (left - ran) = (n - left) + ran
  OBVIOUS
<1>5. ((last - a) - (n - left)) + (t - last) = ((t + ran) - a) - ((n - left) + ran)
  OBVIOUS
<1>6. wait + t - last = ((t + ran) - a) - (n - (left - ran))
  BY <1>1, <1>4, <1>5
<1> QED BY <1>1, <1>2, <1>3, <1>6 DEF Times

LEMMA ChosenRun ==
    ASSUME Inv, Run, NEW j, j = Chosen
    PROVE  HasRun(j)' /\ job'[j].last_run = sim_time'
<1>0. j \in Job
  BY GrownFacts
<1> PICK z : z = Len(trace) + 1
  OBVIOUS
<1> PICK ran : ran = Runtime(j)
  OBVIOUS
<1> PICK c : c = job'[j]
  OBVIOUS
<1>1. /\ job[j].length \in Nat /\ job[j].start_time \in Int
      /\ job[j].wait_time \in Int /\ job[j].last_run \in Int
      /\ work[j].arrival \in Nat /\ work[j].length \in Nat /\ sim_time \in Nat
  BY <1>0, JobTypes
<1>2. ran \in Nat /\ ran <= job[j].length /\ work' = work /\ sim_time' = sim_time + ran
  BY <1>0, RuntimeFacts, GrownFacts, RunParts DEF Inv, JobInv
<1>3. /\ Served(j).start_time = Started(j) /\ Served(j).wait_time = Waited(j)
      /\ Served(j).last_run = sim_time + ran /\ Served(j).length = job[j].length - ran
  BY <1>0, ServedFacts DEF Inv, JobInv
<1>4. /\ c.start_time = Started(j) /\ c.wait_time = Waited(j)
      /\ c.last_run = sim_time + ran /\ c.length = job[j].length - ran
  <2>1. ButMark(c, Served(j))
    BY JobFacts
  <2> QED BY <1>3, <2>1 DEF ButMark
<1>5. work[j].arrival <= sim_time
  BY GrownFacts DEF Inv, QueueInv
<1>6. /\ DOMAIN trace' = DOMAIN trace \cup {z} /\ DOMAIN trace \subseteq Nat
      /\ trace'[z].job = j /\ trace'[z].t = sim_time /\ trace'[z].ran = ran
      /\ \A n \in DOMAIN trace : trace'[n] = trace[n] /\ n < z
      /\ z \in Nat
  BY RunTrace
<1>7. \E n \in DOMAIN trace' :
         /\ trace'[n].job = j /\ c.last_run = trace'[n].t + trace'[n].ran
         /\ \A m \in DOMAIN trace' : trace'[m].job = j => m <= n
  <2>1. \A m \in DOMAIN trace' : m <= z
    BY <1>6
  <2> QED BY <1>4, <1>6, <2>1
<1>8. c.last_run = sim_time' /\ c.last_run <= sim_time'
  BY <1>1, <1>2, <1>4
<1>9. NeverRun(j) \/ HasRun(j)
  BY <1>0 DEF Inv, JobInv
<1>10. CASE NeverRun(j)
  <2>1. /\ job[j].start_time = -1 /\ job[j].last_run = -1 /\ job[j].length = work[j].length
        /\ \A n \in DOMAIN trace : trace[n].job # j
    BY <1>10 DEF NeverRun
  <2>2. Started(j) = sim_time /\ Waited(j) = sim_time - work[j].arrival
    BY <2>1 DEF Started, Waited
  <2>3. \E n \in DOMAIN trace' :
           /\ trace'[n].job = j /\ c.start_time = trace'[n].t
           /\ \A m \in DOMAIN trace' : trace'[m].job = j => n <= m
    <3>1. \A m \in DOMAIN trace' : trace'[m].job = j => z <= m
      BY <1>6, <2>1
    <3> QED BY <1>4, <1>6, <2>2, <3>1
  <2>4. Times(c.start_time, c.wait_time, c.last_run, c.length, work[j].arrival, work[j].length)
    <3>1. Times(sim_time, sim_time - work[j].arrival, sim_time + ran, work[j].length - ran,
                work[j].arrival, work[j].length)
      BY <1>1, <1>2, <1>5, FirstTimes
    <3>2. c.start_time = sim_time /\ c.wait_time = sim_time - work[j].arrival
          /\ c.last_run = sim_time + ran /\ c.length = work[j].length - ran
      BY <1>4, <2>1, <2>2
    <3> QED BY <3>1, <3>2
  <2> QED BY <1>2, <1>4, <1>7, <1>8, <2>3, <2>4 DEF HasRun
<1>11. CASE HasRun(j)
  <2>1. /\ job[j].last_run <= sim_time
        /\ Times(job[j].start_time, job[j].wait_time, job[j].last_run, job[j].length,
                 work[j].arrival, work[j].length)
    BY <1>11 DEF HasRun
  <2>6. work[j].arrival <= job[j].start_time /\ work[j].arrival <= job[j].last_run
    BY <2>1 DEF Times
  <2>2. job[j].start_time # -1 /\ job[j].last_run # -1
    <3>1. work[j].arrival \in Nat
      BY <1>1
    <3> QED BY <2>6, <3>1
  <2>3. Started(j) = job[j].start_time /\ Waited(j) = job[j].wait_time + sim_time - job[j].last_run
    BY <2>2 DEF Started, Waited
  <2>4. \E n \in DOMAIN trace' :
           /\ trace'[n].job = j /\ c.start_time = trace'[n].t
           /\ \A m \in DOMAIN trace' : trace'[m].job = j => n <= m
    <3>1. PICK n \in DOMAIN trace :
             /\ trace[n].job = j /\ job[j].start_time = trace[n].t
             /\ \A m \in DOMAIN trace : trace[m].job = j => n <= m
      BY <1>11 DEF HasRun
    <3>2. \A m \in DOMAIN trace' : trace'[m].job = j => n <= m
      BY <1>6, <3>1
    <3> QED BY <1>4, <1>6, <2>3, <3>1, <3>2
  <2>5. Times(c.start_time, c.wait_time, c.last_run, c.length, work[j].arrival, work[j].length)
    <3>1. Times(job[j].start_time, job[j].wait_time + sim_time - job[j].last_run,
                sim_time + ran, job[j].length - ran, work[j].arrival, work[j].length)
      BY <1>1, <1>2, <2>1, LaterTimes
    <3> QED BY <1>4, <2>3, <3>1
  <2> QED BY <1>2, <1>4, <1>7, <1>8, <2>4, <2>5 DEF HasRun
<1> QED BY <1>1, <1>2, <1>4, <1>9, <1>10, <1>11

LEMMA RunJob ==
    ASSUME Inv, Run
    PROVE  JobInv'
<1>1. job' \in [Job -> Copy] /\ Job' = Job /\ Chosen \in Job
  BY JobFacts, GrownFacts
<1>2. Line' = Line
  BY <1>1 DEF Line
<1>3. trace' \in Seq(Line')
  BY <1>2, RunTrace
<1>4. ASSUME NEW i \in Job PROVE NeverRun(i)' \/ HasRun(i)'
  <2> PICK j : j = Chosen
    OBVIOUS
  <2>1. CASE i = j
    BY <2>1, ChosenRun
  <2>2. CASE i # j
    BY <2>2, OthersKept DEF Inv, JobInv
  <2> QED BY <2>1, <2>2
<1> QED BY <1>1, <1>3, <1>4 DEF JobInv, Copy

LEMMA RunStats ==
    ASSUME Inv, Run
    PROVE  StatsInv'
<1> PICK j : j = Chosen
  OBVIOUS
<1>1. Job' = Job /\ work' = work /\ j \in Job /\ j \notin Finished
  BY GrownFacts
<1>2. Stats' = Stats
  BY <1>1 DEF Stats
<1>3. ASSUME NEW s \in Members(stats) PROVE StatsOk(s)'
  <2>1. StatsOk(s) /\ s \in Stats
    <3>1. stats \in Seq(Stats) /\ \A e \in Members(stats) : StatsOk(e)
      BY DEF Inv, StatsInv
    <3> QED BY <1>3, <3>1, SeqFacts DEF Members
  <2>2. s.id \in Finished
    BY <1>3 DEF Finished, Members
  <2>3. s.id \in Job /\ s.id # Chosen
    BY <1>1, <2>1, <2>2 DEF Stats
  <2>4. HasRun(s.id)' /\ ButMark(job'[s.id], job[s.id])
    BY <2>1, <2>3, OthersKept DEF StatsOk
  <2> QED BY <1>1, <2>1, <2>4 DEF StatsOk, ButMark
<1>4. CASE Served(j).length # 0
  <2>1. stats' = stats
    BY <1>4, EndFacts
  <2> QED BY <1>2, <1>3, <2>1 DEF Inv, StatsInv, Members
<1>5. CASE Served(j).length = 0
  <2> PICK s : s = StatsOf(Chosen, job'[Chosen], sim_time')
    OBVIOUS
  <2>1. stats' = insert_stats_sorted(s)
    BY <1>5, EndFacts
  <2>2. s \in Stats
    BY StatsOfFacts
  <2>3. stats' \in Seq(Stats) /\ Members(stats') = Members(stats) \cup {s}
    BY <2>1, <2>2, StatsAdded
  <2>4. StatsOk(s)'
    <3>1. /\ s.id = j /\ s.response_time = job'[j].start_time - work[j].arrival
          /\ s.turnaround_time = sim_time' - work[j].arrival /\ s.wait_time = job'[j].wait_time
      BY DEF StatsOf
    <3>2. job'[j].length = 0
      BY <1>5, JobFacts DEF ButMark
    <3>3. HasRun(j)' /\ job'[j].last_run = sim_time'
      BY ChosenRun
    <3> QED BY <1>1, <3>1, <3>2, <3>3 DEF StatsOk
  <2>5. \A e \in Members(stats') : StatsOk(e)'
    BY <1>3, <2>3, <2>4
  <2>6. \A e \in Members(stats)' : StatsOk(e)'
    BY <2>5 DEF Members
  <2> QED BY <1>2, <2>3, <2>6 DEF StatsInv
<1> QED BY <1>4, <1>5

LEMMA InitInv == Init => Inv
<1> SUFFICES ASSUME Init PROVE Inv
  OBVIOUS
<1>1. /\ work \in Workloads /\ timeslice \in Timeslices /\ policy \in {"FIFO", "SJF", "RR"}
      /\ sim_time = 0 /\ scheduled = {j \in Job : work[j].arrival <= 0}
      /\ queue = InOrder({j \in Job : work[j].arrival <= 0})
      /\ stats = <<>> /\ trace = <<>>
  BY DEF Init
<1>2. Len(work) \in Nat /\ Job = 1 .. Len(work)
      /\ \A j \in Job : work[j].arrival \in Nat /\ work[j].length \in Nat
  BY <1>1, WorkFacts
<1>3. PICK n \in 0 .. Len(work) : {j \in Job : work[j].arrival <= 0} = 1 .. n
  BY <1>1, ArrivedFirst
<1>4. n \in Nat /\ 0 \in Nat /\ 0 + 1 .. 0 + n = 1 .. n
  BY <1>2
<1>5. queue = [k \in 1 .. n |-> 0 + k]
  BY <1>1, <1>3, <1>4, InOrderInterval
<1>6. queue = [k \in 1 .. n |-> k]
  BY <1>4, <1>5
<1>7. scheduled = 1 .. n /\ 1 .. n \subseteq Job
  BY <1>1, <1>3
<1>8. Finished = {}
  BY <1>1 DEF Finished
<1>9. QueueInv
  <2>1. queue \in Seq(Job) /\ DOMAIN queue = 1 .. n
    BY <1>4, <1>6, <1>7
  <2>2. Increasing(queue)
    BY <1>4, <1>6 DEF Increasing
  <2>3. Members(queue) = 1 .. n
    BY <1>6 DEF Members
  <2> QED BY <1>1, <1>7, <1>8, <2>1, <2>2, <2>3 DEF QueueInv
<1>10. /\ job \in [Job -> Copy]
       /\ \A j \in Job : /\ job[j].length = work[j].length /\ job[j].start_time = -1
                         /\ job[j].wait_time = 0 /\ job[j].last_run = -1
                         /\ ~job[j].next_to_run
  BY <1>2 DEF Init, Copy
<1>11. MarkInv
  <2>1. Marked(queue, job) = {}
    BY <1>6, <1>7, <1>10 DEF Marked
  <2> QED BY <1>10, <2>1 DEF MarkInv
<1>12. JobInv
  BY <1>1, <1>10 DEF JobInv, NeverRun
<1>13. StatsInv
  BY <1>1 DEF StatsInv, Members
<1> QED BY <1>1, <1>9, <1>11, <1>12, <1>13 DEF Inv, ParametersInv

LEMMA WaitFacts ==
    ASSUME Inv, Wait
    PROVE  /\ queue = <<>> /\ UNCHANGED <<work, policy, timeslice, job, stats, trace>>
           /\ sim_time' = sim_time + 1 /\ sim_time' \in Nat /\ sim_time <= sim_time'
           /\ Job' = Job
           /\ queue' \in Seq(Job) /\ Increasing(queue')
           /\ Members(queue') = scheduled' \ Finished
           /\ \A k \in DOMAIN queue' : queue'[k] \in Job \ scheduled
           /\ scheduled' = {j \in Job : work[j].arrival <= sim_time'}
           /\ scheduled \subseteq scheduled'
<1>1. /\ queue = <<>> /\ UNCHANGED <<work, policy, timeslice, job, stats, trace>>
      /\ sim_time' = sim_time + 1 /\ queue' = add_new_jobs(queue, sim_time')
      /\ scheduled' = scheduled \cup NotScheduled(sim_time')
  BY Zenon DEF Wait
<1>2. sim_time \in Nat /\ ParametersInv /\ QueueInv
  BY DEF Inv, ParametersInv
<1> PICK t : t = sim_time'
  OBVIOUS
<1>3. t \in Nat /\ sim_time <= t
  BY <1>1, <1>2
<1> PICK q : q = add_new_jobs(queue, t)
  OBVIOUS
<1>4. /\ q \in Seq(Job)
      /\ \A k \in DOMAIN q : k > Len(queue) => q[k] \in Job \ scheduled
      /\ Increasing(q)
      /\ Members(q) = Members(queue) \cup NotScheduled(t)
      /\ scheduled \cup NotScheduled(t) = {j \in Job : work[j].arrival <= t}
  BY <1>2, <1>3, NewJobs
<1>5. queue' = q
  BY <1>1
<1>6. \A k \in DOMAIN q : q[k] \in Job \ scheduled
  <2>1. Len(queue) = 0 /\ \A k \in DOMAIN q : k \in 1 .. Len(q)
    BY <1>1, <1>4, SeqFacts
  <2> QED BY <1>4, <2>1
<1>7. Members(queue) = {}
  BY <1>1 DEF Members
<1>8. Members(queue) = scheduled \ Finished
  BY <1>2 DEF QueueInv
<1>9. \A i \in NotScheduled(t) : i \notin Finished
  <2> SUFFICES ASSUME NEW i \in NotScheduled(t), i \in Finished PROVE FALSE
    OBVIOUS
  <2>1. i \in Job /\ i \notin scheduled
    BY DEF NotScheduled
  <2>2. PICK s \in Members(stats) : i = s.id
    BY DEF Finished, Members
  <2>3. HasRun(i)
    BY <2>2 DEF Inv, StatsInv, StatsOk
  <2>4. work[i].arrival <= job[i].last_run /\ job[i].last_run <= sim_time
    BY <2>3 DEF HasRun, Times
  <2>5. work[i].arrival <= sim_time
    BY <2>1, <2>4, JobTypes
  <2> QED BY <1>2, <2>1, <2>5 DEF QueueInv
<1>10. Members(q) = scheduled' \ Finished
  BY <1>1, <1>4, <1>7, <1>8, <1>9
<1> QED BY <1>1, <1>3, <1>4, <1>5, <1>6, <1>10 DEF Job

LEMMA WaitInv ==
    ASSUME Inv, Wait
    PROVE  Inv'
<1>1. /\ UNCHANGED <<work, policy, timeslice, job, stats, trace>> /\ Job' = Job
      /\ sim_time' \in Nat /\ sim_time <= sim_time' /\ sim_time \in Nat
      /\ scheduled \subseteq scheduled'
  BY WaitFacts DEF Inv, ParametersInv
<1>2. Finished' = Finished
  BY <1>1 DEF Finished
<1>3. ParametersInv'
  BY <1>1 DEF Inv, ParametersInv
<1>4. QueueInv'
  BY <1>1, <1>2, WaitFacts DEF QueueInv, Increasing, Members
<1>5. MarkInv'
  <2>1. \A j \in Job \ scheduled : ~job[j].next_to_run
    BY DEF Inv, MarkInv
  <2>2. Marked(queue', job) = {}
    BY <2>1, WaitFacts DEF Marked
  <2>3. Marked(queue, job)' = {}
    BY <1>1, <2>2 DEF Marked
  <2> QED BY <1>1, <2>1, <2>3 DEF MarkInv
<1>6. \A i \in Job : HasRun(i) => HasRun(i)'
  <2> SUFFICES ASSUME NEW i \in Job, HasRun(i) PROVE HasRun(i)'
    OBVIOUS
  <2>1. job[i].last_run <= sim_time'
    <3>1. job[i].last_run <= sim_time /\ job[i].last_run \in Int
      BY JobTypes DEF HasRun
    <3> QED BY <1>1, <3>1
  <2> QED BY <1>1, <2>1 DEF HasRun
<1>7. JobInv'
  BY <1>1, <1>6 DEF Inv, JobInv, NeverRun, Copy, Line
<1>8. StatsInv'
  <2>1. stats \in Seq(Stats) /\ Stats' = Stats
    BY <1>1 DEF Inv, StatsInv, Stats
  <2>2. ASSUME NEW s \in Members(stats) PROVE StatsOk(s)'
    <3>1. s \in Stats
      BY <2>1, <2>2, SeqFacts DEF Members
    <3>2. s.id \in Job /\ StatsOk(s)
      BY <3>1 DEF Stats, Inv, StatsInv
    <3> QED BY <1>1, <1>6, <3>2 DEF StatsOk
  <2> QED BY <1>1, <2>1, <2>2 DEF StatsInv, Members
<1> QED BY <1>3, <1>4, <1>5, <1>7, <1>8 DEF Inv

LEMMA InvNext == Inv /\ [Next]_vars => Inv'
<1> SUFFICES ASSUME Inv, [Next]_vars PROVE Inv'
  OBVIOUS
<1>1. CASE Run
  BY <1>1, RunTypes, EndQueue, RunMark, RunJob, RunStats DEF Inv
<1>2. CASE Wait
  BY <1>2, WaitInv
<1>3. CASE UNCHANGED vars
  <2>1. /\ UNCHANGED <<work, policy, timeslice, sim_time, scheduled, queue, job, stats, trace>>
        /\ Job' = Job
    BY <1>3 DEF vars, Job
  <2>2. ParametersInv'
    BY <2>1 DEF Inv, ParametersInv
  <2>3. QueueInv'
    BY <2>1 DEF Inv, QueueInv, Finished, Increasing, Members
  <2>4. MarkInv'
    BY <2>1 DEF Inv, MarkInv, Marked
  <2>5. JobInv'
    BY <2>1 DEF Inv, JobInv, NeverRun, HasRun, Copy, Line
  <2>6. StatsInv'
    BY <2>1 DEF Inv, StatsInv, StatsOk, HasRun, Members, Stats
  <2> QED BY <2>2, <2>3, <2>4, <2>5, <2>6 DEF Inv
<1> QED BY <1>1, <1>2, <1>3 DEF Next, Terminated

LEMMA Invariance == Spec => []Inv
  BY InitInv, InvNext, PTL DEF Spec
-----------------------------------------------------------------------------
(* Every variable keeps its type: the queue holds jobs of the file alone, and
   neither the clock nor what is left of a job goes below 0. *)
THEOREM TypeCorrect == Spec => []TypeOK
<1>1. Inv => TypeOK
  BY DEF Inv, ParametersInv, QueueInv, JobInv, StatsInv, TypeOK
<1> QED BY <1>1, Invariance, PTL

(* The statistics of a finished job are those of its lines in the trace, for
   any file, policy and timeslice: the pieces of waiting that handle_run adds
   up at every dispatch come to all the time the job did not run. *)
THEOREM StatsCorrect == Spec => []StatsMatchTrace
<1>1. ASSUME Inv, NEW k \in DOMAIN stats
      PROVE  LET s     == stats[k]
                 lines == {n \in DOMAIN trace : trace[n].job = s.id}
                 first == trace[Least(lines)]
                 last  == trace[CHOOSE n \in lines : \A m \in lines : m <= n]
                 a     == work[s.id].arrival
             IN  /\ lines # {}
                 /\ s.response_time = first.t - a
                 /\ s.turnaround_time = last.t + last.ran - a
                 /\ s.wait_time = s.turnaround_time - work[s.id].length
                 /\ s.wait_time >= s.response_time /\ s.response_time >= 0
  <2> PICK s : s = stats[k]
    OBVIOUS
  <2>1. s \in Members(stats) /\ stats \in Seq(Stats) /\ trace \in Seq(Line)
    BY <1>1 DEF Members, Inv, StatsInv, JobInv
  <2>2. s \in Stats
    BY <1>1, <2>1, SeqFacts
  <2> PICK i \in Job : i = s.id
    BY <2>2 DEF Stats
  <2>3. /\ HasRun(i) /\ job[i].length = 0
        /\ s.response_time = job[i].start_time - work[i].arrival
        /\ s.turnaround_time = job[i].last_run - work[i].arrival
        /\ s.wait_time = job[i].wait_time
    BY <1>1, <2>1 DEF Inv, StatsInv, StatsOk
  <2> DEFINE lines == {n \in DOMAIN trace : trace[n].job = i}
             latest == CHOOSE n \in lines : \A m \in lines : m <= n
  <2>4. lines \in SUBSET Nat
    BY <2>1, SeqFacts
  <2>5. PICK n \in lines : job[i].start_time = trace[n].t /\ \A m \in lines : n <= m
    BY <2>3 DEF HasRun
  <2>6. PICK l \in lines : job[i].last_run = trace[l].t + trace[l].ran /\ \A m \in lines : m <= l
    BY <2>3 DEF HasRun
  <2> HIDE DEF lines
  <2>7. Least(lines) = n
    BY <2>4, <2>5, LeastIs
  <2>8. latest = l
    <3>1. latest \in lines /\ \A m \in lines : m <= latest
      BY <2>6
    <3> HIDE DEF latest
    <3>2. latest \in Nat /\ l \in Nat /\ latest <= l /\ l <= latest
      BY <2>4, <2>6, <3>1
    <3> QED BY <3>2
  <2> HIDE DEF latest
  <2>9. /\ s.response_time = trace[Least(lines)].t - work[i].arrival
        /\ s.turnaround_time = trace[latest].t + trace[latest].ran - work[i].arrival
    <3>1. trace[l] \in Line
      BY <2>1, <2>6, SeqFacts DEF lines
    <3>2. trace[l].t \in Nat /\ trace[l].ran \in Nat
      BY <3>1 DEF Line
    <3> QED BY <1>1, <2>3, <2>5, <2>6, <2>7, <2>8, <3>2, JobTypes
  <2>10. /\ s.wait_time = s.turnaround_time - work[i].length
         /\ s.wait_time >= s.response_time /\ s.response_time >= 0
    <3>1. Times(job[i].start_time, job[i].wait_time, job[i].last_run, job[i].length,
                work[i].arrival, work[i].length)
      BY <2>3 DEF HasRun
    <3> QED BY <1>1, <2>3, <3>1, JobTypes DEF Times
  <2> QED BY <2>5, <2>9, <2>10, Zenon DEF lines, latest
<1>2. Inv => StatsMatchTrace
  BY <1>1 DEF StatsMatchTrace
<1> QED BY <1>2, Invariance, PTL

-----------------------------------------------------------------------------
(* The refinement of Dispatch.                                              *)

First(q, n)    == {q[k] : k \in 1 .. n}
BeforeOf(q, f) == LET m == Marked(q, f)
                  IN  IF m = {} THEN {} ELSE {q[k] : k \in 1 .. Least(m) - 1}

LEMMA BeforeAt ==
    ASSUME NEW q, NEW f, NEW k \in Nat, Marked(q, f) = {k}
    PROVE  BeforeOf(q, f) = First(q, k - 1)
<1>1. Least({k}) = k
  BY LeastIs
<1> QED BY <1>1 DEF BeforeOf, First

LEMMA BeforeNone ==
    ASSUME NEW q, NEW f, Marked(q, f) \subseteq {1}
    PROVE  BeforeOf(q, f) = {}
<1>1. CASE Marked(q, f) = {}
  BY <1>1 DEF BeforeOf
<1>2. CASE Marked(q, f) # {}
  <2>1. Marked(q, f) = {1}
    BY <1>2
  <2>2. BeforeOf(q, f) = First(q, 1 - 1)
    BY <2>1, BeforeAt
  <2> QED BY <2>2 DEF First
<1> QED BY <1>1, <1>2

LEMMA BeforeIs ==
    ASSUME Inv, queue # <<>>, policy = "RR"
    PROVE  BeforeOf(queue, job) = First(queue, policy_func - 1)
<1> PICK p : p = policy_func
  OBVIOUS
<1>1. /\ Marked(queue, job) = {} => p = 1
      /\ \A k \in Marked(queue, job) : p = k
      /\ p \in DOMAIN queue
  BY PolicyFacts
<1>2. p \in Nat
  BY <1>1, QueueFacts
<1>3. CASE Marked(queue, job) = {}
  BY <1>1, <1>3 DEF BeforeOf, First
<1>4. CASE Marked(queue, job) # {}
  <2>1. Marked(queue, job) = {p}
    BY <1>1, <1>4
  <2> QED BY <1>2, <2>1, BeforeAt
<1> QED BY <1>3, <1>4

LEMMA FinishedNext ==
    ASSUME Inv, Run
    PROVE  Finished' = IF job'[Chosen].length = 0 THEN Finished \cup {Chosen} ELSE Finished
<1> PICK j : j = Chosen
  OBVIOUS
<1>1. job'[j].length = Served(j).length
  BY JobFacts DEF ButMark
<1>2. CASE Served(j).length # 0
  <2>1. stats' = stats
    BY <1>2, EndFacts
  <2> QED BY <1>1, <1>2, <2>1 DEF Finished
<1>3. CASE Served(j).length = 0
  <2> PICK s : s = StatsOf(Chosen, job'[Chosen], sim_time')
    OBVIOUS
  <2>1. stats' = insert_stats_sorted(s)
    BY <1>3, EndFacts
  <2>2. s \in Stats /\ s.id = j
    BY StatsOfFacts DEF StatsOf
  <2>3. Members(stats') = Members(stats) \cup {s}
    BY <2>1, <2>2, StatsAdded
  <2>4. Finished' = {e.id : e \in Members(stats')} /\ Finished = {e.id : e \in Members(stats)}
    BY DEF Finished, Members
  <2> QED BY <1>1, <1>3, <2>2, <2>3, <2>4
<1> QED BY <1>2, <1>3

(* Where the mark is after a run is where the round is.                      *)
LEMMA RoundNext ==
    ASSUME Inv, Run, policy = "RR", NEW served,
           served = (BeforeOf(queue, job) \cup {Chosen}) \ Finished'
    PROVE  BeforeOf(queue', job') = IF Members(queue') \subseteq served THEN {} ELSE served
<1> PICK q : q = Grown
  OBVIOUS
<1> PICK p : p = policy_func
  OBVIOUS
<1> PICK g : g = job'
  OBVIOUS
<1> PICK j : j = Chosen
  OBVIOUS
<1>1. /\ q \in Seq(Job) /\ Len(q) \in Nat /\ DOMAIN q = 1 .. Len(q) /\ Increasing(q)
      /\ \A k \in DOMAIN queue : k \in DOMAIN q /\ q[k] = queue[k]
      /\ \A k, l \in DOMAIN q : q[k] = q[l] => k = l
      /\ p \in DOMAIN queue /\ j = queue[p] /\ p \in DOMAIN q
      /\ Members(q) = scheduled' \ Finished
  BY GrownFacts
<1>2. /\ Len(queue) \in Nat /\ DOMAIN queue = 1 .. Len(queue) /\ Job \subseteq Nat
      /\ \A k \in DOMAIN queue : queue[k] \notin Finished
  BY QueueFacts
<1>3. BeforeOf(queue, job) = First(queue, p - 1)
  BY BeforeIs, RunParts
<1>4. \A k \in 1 .. p : k \in DOMAIN queue /\ q[k] = queue[k] /\ q[k] \notin Finished
  BY <1>1, <1>2
<1>5. First(queue, p - 1) = First(q, p - 1) /\ j = q[p]
  BY <1>1, <1>2, <1>4 DEF First
<1>6. First(q, p - 1) \cup {j} = First(q, p)
  <2>1. p \in Nat /\ p >= 1
    BY <1>1
  <2>2. ASSUME NEW x \in First(q, p) PROVE x \in First(q, p - 1) \cup {j}
    <3> PICK k \in 1 .. p : x = q[k]
      BY DEF First
    <3>1. k = p \/ k \in 1 .. p - 1
      BY <2>1
    <3> QED BY <1>5, <3>1 DEF First
  <2>3. First(q, p - 1) \cup {j} \subseteq First(q, p)
    BY <1>5, <2>1 DEF First
  <2> QED BY <2>2, <2>3
<1>7. served = First(q, p) \ Finished'
  BY <1>3, <1>5, <1>6
<1>8. p < Len(q) => Marked(q, g) = {p + 1}
  BY Rotated
<1>9. p = Len(q) => Marked(q, g) \subseteq {1}
  BY Rotated
<1>10. CASE Served(j).length # 0
  <2>1. queue' = q /\ stats' = stats
    BY <1>10, EndFacts
  <2>2. Finished' = Finished
    BY <2>1 DEF Finished
  <2>3. served = First(q, p)
    BY <1>4, <1>7, <2>2 DEF First
  <2>4. CASE p < Len(q)
    <3>1. Marked(q, g) = {p + 1} /\ p + 1 \in Nat /\ (p + 1) - 1 = p
      BY <1>1, <1>8, <2>4
    <3>2. BeforeOf(q, g) = First(q, p)
      BY <3>1, BeforeAt
    <3>3. p + 1 \in DOMAIN q /\ q[p + 1] \notin First(q, p)
      BY <1>1, <2>4 DEF First
    <3>4. q[p + 1] \in Members(q)
      BY <3>3 DEF Members
    <3> QED BY <2>1, <2>3, <3>2, <3>3, <3>4
  <2>5. CASE p = Len(q)
    <3>1. BeforeOf(q, g) = {}
      BY <1>9, <2>5, BeforeNone
    <3>2. Members(q) \subseteq First(q, p)
      BY <1>1, <2>5 DEF First, Members
    <3> QED BY <2>1, <2>3, <3>1, <3>2
  <2> QED BY <1>1, <2>4, <2>5
<1>11. CASE Served(j).length = 0
  <2> PICK r : r = Cut(q, p)
    OBVIOUS
  <2>1. queue' = r
    BY <1>11, EndFacts
  <2>2. Finished' = Finished \cup {j}
    <3>1. job'[j].length = Served(j).length
      BY JobFacts DEF ButMark
    <3> QED BY <1>11, <3>1, FinishedNext
  <2>3. served = First(q, p - 1)
    <3>1. \A k \in 1 .. p - 1 : q[k] # j /\ q[k] \notin Finished
      BY <1>1, <1>4, <1>5
    <3>2. First(q, p - 1) \cap (Finished \cup {j}) = {}
      BY <3>1 DEF First
    <3>3. served = (First(q, p - 1) \cup {j}) \ (Finished \cup {j})
      BY <1>3, <1>5, <2>2
    <3> QED BY <3>2, <3>3
  <2>4. Members(r) = Members(q) \ {j}
    BY <1>1, <1>2, <1>5, CutMembers
  <2>5. /\ DOMAIN r = 1 .. Len(q) - 1
        /\ \A l \in 1 .. Len(q) - 1 : r[l] = IF l < p THEN q[l] ELSE q[l + 1]
    <3>1. q \in Seq(Job) /\ p \in DOMAIN q
      BY <1>1
    <3>2. /\ r \in Seq(Job) /\ Len(r) = Len(q) - 1
          /\ \A l \in 1 .. Len(q) - 1 : r[l] = IF l < p THEN q[l] ELSE q[l + 1]
      BY <3>1, CutFacts
    <3> QED BY <3>2, SeqFacts
  <2>6. /\ \A k \in Marked(r, g) : /\ k \in 1 .. Len(q) - 1
                                   /\ k < p => k \in Marked(q, g)
                                   /\ ~(k < p) => k + 1 \in Marked(q, g)
    <3>1. q \in Seq(Job) /\ p \in DOMAIN q
      BY <1>1
    <3> QED BY <3>1, MarkedCut
  <2>7. \A k \in 1 .. Len(q) - 1 : ~(k < p) /\ k + 1 \in Marked(q, g) => k \in Marked(r, g)
    <3>1. q \in Seq(Job) /\ p \in DOMAIN q
      BY <1>1
    <3> QED BY <3>1, MarkedCut
  <2>8. CASE p < Len(q)
    <3>1. Marked(q, g) = {p + 1} /\ p \in Nat /\ p \in 1 .. Len(q) - 1
      BY <1>1, <1>8, <2>8
    <3>2. Marked(r, g) = {p}
      <4>1. p \in Marked(r, g)
        BY <2>7, <3>1
      <4>2. ASSUME NEW k \in Marked(r, g) PROVE k = p
        <5>1. k \in 1 .. Len(q) - 1 /\ (k < p => k = p + 1) /\ (~(k < p) => k + 1 = p + 1)
          BY <2>6, <3>1
        <5> QED BY <1>1, <3>1, <5>1
      <4> QED BY <4>1, <4>2
    <3>3. BeforeOf(r, g) = First(r, p - 1)
      BY <3>1, <3>2, BeforeAt
    <3>4. First(r, p - 1) = First(q, p - 1)
      <4>1. \A l \in 1 .. p - 1 : r[l] = q[l]
        BY <1>1, <2>5, <3>1
      <4> QED BY <4>1 DEF First
    <3>5. p + 1 \in DOMAIN q /\ q[p + 1] \notin First(q, p - 1) /\ q[p + 1] # j
      BY <1>1, <1>5, <2>8 DEF First
    <3>6. q[p + 1] \in Members(r)
      BY <2>4, <3>5 DEF Members
    <3> QED BY <2>1, <2>3, <3>3, <3>4, <3>5, <3>6
  <2>9. CASE p = Len(q)
    <3>1. Marked(r, g) \subseteq {1}
      <4> SUFFICES ASSUME NEW k \in Marked(r, g) PROVE k = 1
        OBVIOUS
      <4>1. k \in 1 .. Len(q) - 1 /\ k < p
        BY <1>1, <2>6, <2>9
      <4> QED BY <1>9, <2>6, <2>9, <4>1
    <3>2. BeforeOf(r, g) = {}
      BY <3>1, BeforeNone
    <3>3. Members(r) \subseteq First(q, p - 1)
      <4> SUFFICES ASSUME NEW x \in Members(q), x # j PROVE x \in First(q, p - 1)
        BY <2>4
      <4> PICK k \in 1 .. Len(q) : x = q[k]
        BY <1>1 DEF Members
      <4>1. k \in 1 .. p - 1
        BY <1>1, <1>5, <2>9
      <4> QED BY <4>1 DEF First
    <3> QED BY <2>1, <2>3, <3>2, <3>3
  <2> QED BY <1>1, <2>8, <2>9
<1> QED BY <1>10, <1>11

-----------------------------------------------------------------------------
LEMMA ReadyIs ==
    ASSUME QueueInv
    PROVE  Ideal!Ready = Members(queue)
  BY DEF QueueInv, Ideal!Ready, Ideal!Job, Job

(* The first of some places of the queue holds the job that came first.      *)
LEMMA CameFirstAt ==
    ASSUME Inv, NEW p \in DOMAIN queue, NEW S, queue[p] \in S,
           \A i \in S : \E k \in DOMAIN queue : i = queue[k] /\ p <= k
    PROVE  Ideal!CameFirst(queue[p], S)
<1> PICK j : j = queue[p]
  OBVIOUS
<1>1. \A k \in DOMAIN queue : k \in Nat /\ queue[k] \in Job /\ queue[k] \in Nat
  BY QueueFacts
<1>2. ASSUME NEW i \in S
      PROVE  \/ work[j].arrival < work[i].arrival
             \/ work[j].arrival = work[i].arrival /\ j <= i
  <2> PICK k \in DOMAIN queue : i = queue[k] /\ p <= k
    OBVIOUS
  <2>1. /\ i \in Job /\ j \in Job /\ i \in Nat /\ j \in Nat
    BY <1>1
  <2>2. work[i].arrival \in Nat /\ work[j].arrival \in Nat
    BY <2>1, WorkFacts DEF Inv, ParametersInv
  <2>3. i = j \/ j < i
    <3>1. k = p \/ p < k
      BY <1>1
    <3> QED BY <3>1, QueueFacts
  <2>4. work[j].arrival <= work[i].arrival
    BY <2>1, <2>2, <2>3, WorkFacts DEF Inv, ParametersInv
  <2> QED BY <2>1, <2>2, <2>3, <2>4
<1> QED BY <1>2 DEF Ideal!CameFirst

LEMMA ChoiceOfRun ==
    ASSUME Inv, Run
    PROVE  Ideal!Choice(Chosen)
<1> PICK p : p = policy_func
  OBVIOUS
<1>1. queue # <<>>
  BY RunParts
<1>2. /\ p \in DOMAIN queue /\ Chosen = queue[p]
      /\ policy = "FIFO" => p = 1
      /\ policy = "SJF" =>
           \A l \in DOMAIN queue :
              /\ job[queue[p]].length <= job[queue[l]].length
              /\ l < p => job[queue[p]].length < job[queue[l]].length
  BY <1>1, PolicyFacts DEF Chosen
<1>3. Len(queue) \in Nat /\ DOMAIN queue = 1 .. Len(queue)
  BY QueueFacts
<1>4. Ideal!Ready = Members(queue)
  BY ReadyIs DEF Inv
<1>5. CASE policy = "FIFO"
  <2>1. \A i \in Members(queue) : \E k \in DOMAIN queue : i = queue[k] /\ p <= k
    BY <1>2, <1>3, <1>5 DEF Members
  <2>2. queue[p] \in Members(queue)
    BY <1>2 DEF Members
  <2>3. Ideal!CameFirst(queue[p], Members(queue))
    BY <1>2, <2>1, <2>2, CameFirstAt
  <2> QED BY <1>2, <1>4, <1>5, <2>3 DEF Ideal!Choice
<1>6. CASE policy = "SJF"
  <2> DEFINE S == Ideal!Shortest(Members(queue))
  <2>1. \A k \in DOMAIN queue : k \in Nat /\ queue[k] \in Job /\ job[queue[k]].length \in Nat
    BY <1>3, QueueFacts, JobTypes
  <2>2. S = {j \in Members(queue) : \A i \in Members(queue) : job[j].length <= job[i].length}
    <3>1. Members(queue) \subseteq Job
      BY <2>1 DEF Members
    <3> QED BY <3>1 DEF Ideal!Shortest
  <2> HIDE DEF S
  <2>3. queue[p] \in S
    BY <1>2, <1>6, <2>2 DEF Members
  <2>4. ASSUME NEW i \in S PROVE \E k \in DOMAIN queue : i = queue[k] /\ p <= k
    <3>1. PICK k \in DOMAIN queue : i = queue[k]
      BY <2>2 DEF Members
    <3>2. job[queue[k]].length <= job[queue[p]].length
      BY <1>2, <2>2, <3>1 DEF Members
    <3>3. ~(k < p)
      BY <1>2, <1>6, <2>1, <3>2
    <3> QED BY <1>2, <2>1, <3>1, <3>3
  <2>5. Ideal!CameFirst(queue[p], S)
    BY <1>2, <2>3, <2>4, CameFirstAt
  <2> QED BY <1>2, <1>4, <1>6, <2>5 DEF Ideal!Choice, S
<1>7. CASE policy = "RR"
  <2> PICK round : round = First(queue, p - 1)
    OBVIOUS
  <2>1. (IF policy = "RR" THEN Before(queue) ELSE {}) = round
    <3>1. BeforeOf(queue, job) = round
      BY <1>1, <1>7, BeforeIs
    <3> QED BY <1>7, <3>1 DEF BeforeOf, Before
  <2> PICK S : S = Members(queue) \ round
    OBVIOUS
  <2>2. queue[p] \in S
    BY <1>2, <1>3, QueueFacts DEF First, Members
  <2>3. ASSUME NEW i \in S PROVE \E k \in DOMAIN queue : i = queue[k] /\ p <= k
    <3>1. PICK k \in DOMAIN queue : i = queue[k]
      BY DEF Members
    <3>2. ~(k \in 1 .. p - 1)
      BY <3>1 DEF First
    <3> QED BY <1>2, <1>3, <3>1, <3>2
  <2>4. Ideal!CameFirst(queue[p], S)
    BY <1>2, <2>2, <2>3, CameFirstAt
  <2> QED BY <1>2, <1>4, <1>7, <2>1, <2>4 DEF Ideal!Choice
<1> QED BY <1>5, <1>6, <1>7 DEF Inv, ParametersInv

(* Every run of the scheduler is one the policy allows: a dispatch serves the
   job it picks, and the processor is idle only while no job is there. *)
LEMMA RunServes ==
    ASSUME Inv, Run, NEW j, j = Chosen
    PROVE  Ideal!Serve(j)
<1> DEFINE Left  == [i \in Job |-> job[i].length]
           Round == IF policy = "RR" THEN Before(queue) ELSE {}
<1>1. /\ j \in Job /\ Job' = Job /\ sim_time' = sim_time + Runtime(j)
      /\ UNCHANGED <<work, policy, timeslice>>
  BY RunParts, GrownFacts
<1>2. Ideal!Choice(j)
  BY ChoiceOfRun
<1>3. /\ Runtime(j) \in 0 .. Left[j]
      /\ Runtime(j) = Left[j] \/ (timeslice # 0 /\ Runtime(j) = timeslice)
      /\ timeslice # 0 => Runtime(j) <= timeslice
  <2>1. ParametersInv /\ job \in [Job -> Copy] /\ job[j].length \in Nat
    BY <1>1, JobTypes DEF Inv, JobInv
  <2>2. /\ Runtime(j) \in Nat /\ Runtime(j) <= job[j].length
        /\ Runtime(j) = job[j].length \/ (timeslice # 0 /\ Runtime(j) = timeslice)
        /\ timeslice # 0 => Runtime(j) <= timeslice
    BY <1>1, <2>1, RuntimeFacts
  <2> QED BY <1>1, <2>1, <2>2
<1>4. Left' = [Left EXCEPT ![j] = @ - Runtime(j)]
  <2>1. \A i \in Job \ {j} : job'[i].length = job[i].length
    BY JobFacts DEF ButMark
  <2>2. job'[j].length = job[j].length - Runtime(j)
    <3>1. ParametersInv /\ job \in [Job -> Copy]
      BY DEF Inv, JobInv
    <3>2. Served(j).length = job[j].length - Runtime(j)
      BY <1>1, <3>1, ServedFacts
    <3> QED BY <3>2, JobFacts DEF ButMark
  <2>3. Left' = [i \in Job |-> job'[i].length]
    BY <1>1
  <2> QED BY <1>1, <2>1, <2>2, <2>3
<1>5. Finished' = IF Left'[j] = 0 THEN Finished \cup {j} ELSE Finished
  <2>1. Left'[j] = job'[j].length
    BY <1>1
  <2> QED BY <2>1, FinishedNext
<1>6. Ideal!Ready' = Members(queue')
  <2>1. QueueInv'
    BY EndQueue
  <2>2. Job' = Job /\ Ideal!Ready' = {i \in Job' \ Finished' : work'[i].arrival <= sim_time'}
    BY <1>1 DEF Ideal!Ready, Ideal!Job, Job
  <2>3. Members(queue') = {i \in Job' : work'[i].arrival <= sim_time'} \ Finished'
    BY <2>1 DEF QueueInv, Members
  <2> QED BY <2>2, <2>3
<1>7. Round' = LET served == (Round \cup {j}) \ Finished'
               IN  IF policy # "RR" \/ Ideal!Ready' \subseteq served THEN {} ELSE served
  <2>1. CASE policy # "RR"
    BY <1>1, <2>1
  <2>2. CASE policy = "RR"
    <3> PICK served : served = (BeforeOf(queue, job) \cup {Chosen}) \ Finished'
      OBVIOUS
    <3>1. BeforeOf(queue', job') = IF Members(queue') \subseteq served THEN {} ELSE served
      BY <2>2, RoundNext
    <3>2. Round = BeforeOf(queue, job) /\ Round' = BeforeOf(queue', job')
      BY <1>1, <2>2 DEF Before, BeforeOf, Marked
    <3> QED BY <1>6, <2>2, <3>1, <3>2
  <2> QED BY <2>1, <2>2
<1> HIDE DEF Left, Round
<1>8. /\ sim_time' = sim_time + Runtime(j)
      /\ Ideal!Choice(j)
  BY <1>1, <1>2
<1> USE DEF Left, Round
<1> QED BY <1>1, <1>3, <1>4, <1>5, <1>7, <1>8 DEF Ideal!Serve

(* handle_run counts the jobs that have statistics: while some have none, not
   all jobs are finished. *)
LEMMA SomeLeft ==
    ASSUME Inv, jobs_run < jobs_total
    PROVE  Finished # Job
<1> SUFFICES ASSUME Finished = Job PROVE FALSE
  OBVIOUS
<1>1. Len(stats) \in Nat /\ DOMAIN stats = 1 .. Len(stats)
  BY SeqFacts DEF Inv, StatsInv
<1>2. Len(work) \in Nat /\ Job = 1 .. Len(work)
  BY WorkFacts DEF Inv, ParametersInv
<1> DEFINE f == [k \in 1 .. Len(stats) |-> stats[k].id]
<1>3. f \in Surjection(1 .. Len(stats), 1 .. Len(work))
  BY <1>1, <1>2 DEF Finished, Surjection
<1>4. /\ IsFiniteSet(1 .. Len(stats)) /\ Cardinality(1 .. Len(stats)) = Len(stats)
      /\ IsFiniteSet(1 .. Len(work)) /\ Cardinality(1 .. Len(work)) = Len(work)
  <2>1. ASSUME NEW n \in Nat PROVE IsFiniteSet(1 .. n) /\ Cardinality(1 .. n) = n
    BY FS_Interval
  <2> QED BY <1>1, <1>2, <2>1
<1> HIDE DEF f
<1>5. Cardinality(1 .. Len(work)) <= Cardinality(1 .. Len(stats))
  BY <1>3, <1>4, FS_Surjection
<1> QED BY <1>1, <1>2, <1>4, <1>5 DEF jobs_run, jobs_total

LEMMA WaitIdles ==
    ASSUME Inv, Wait
    PROVE  Ideal!Idle
<1>1. /\ queue = <<>> /\ sim_time' = sim_time + 1 /\ Job' = Job
      /\ UNCHANGED <<work, policy, timeslice, job, stats, trace>>
  BY WaitFacts
<1>2. Finished # DOMAIN work
  BY SomeLeft DEF Wait, Job
<1>3. Ideal!Ready = {}
  BY <1>1, ReadyIs DEF Inv, Members
<1>4. UNCHANGED [i \in Job |-> job[i].length] /\ UNCHANGED Finished
  BY <1>1 DEF Finished
<1>5. Before(queue) = {} /\ Before(queue)' = {}
  <2>1. Marked(queue, job) = {}
    BY <1>1 DEF Marked
  <2>2. \A i \in Job \ scheduled : ~job[i].next_to_run
    BY DEF Inv, MarkInv
  <2>3. Marked(queue', job') = {}
    BY <1>1, <2>2, WaitFacts DEF Marked
  <2> QED BY <2>1, <2>3 DEF Before, Marked
<1> QED BY <1>1, <1>2, <1>3, <1>4, <1>5 DEF Ideal!Idle, Ideal!Job

LEMMA InitIdeal == Init => Ideal!Init
<1> SUFFICES ASSUME Init PROVE Ideal!Init
  OBVIOUS
<1>1. [i \in Job |-> job[i].length] = [i \in Job |-> work[i].length]
  BY DEF Init
<1>2. Finished = {}
  BY DEF Init, Finished
<1>3. Before(queue) = {}
  <2>1. \A i \in Job : ~job[i].next_to_run
    BY DEF Init
  <2>2. \A k \in DOMAIN queue : queue[k] \in Job
    <3>1. QueueInv
      BY InitInv DEF Inv
    <3> QED BY <3>1, SeqFacts DEF QueueInv
  <2> QED BY <2>1, <2>2 DEF Before, Marked
<1> QED BY <1>1, <1>2, <1>3 DEF Init, Ideal!Init, Ideal!Job, Job

LEMMA StepIdeal == Inv /\ [Next]_vars => [Ideal!Next]_(Ideal!vars)
<1> SUFFICES ASSUME Inv, [Next]_vars PROVE [Ideal!Next]_(Ideal!vars)
  OBVIOUS
<1>1. CASE Run
  <2> PICK j : j = Chosen
    OBVIOUS
  <2>1. Ideal!Serve(j) /\ j \in Job
    BY <1>1, RunServes, GrownFacts
  <2> QED BY <2>1 DEF Ideal!Next, Ideal!Job, Job
<1>2. CASE Wait
  BY <1>2, WaitIdles DEF Ideal!Next
<1>3. CASE UNCHANGED vars
  <2>1. UNCHANGED <<work, policy, timeslice, sim_time, queue, job, stats>>
    BY <1>3 DEF vars
  <2> QED BY <2>1 DEF Ideal!vars, Finished, Before, Marked, Job
<1> QED BY <1>1, <1>2, <1>3 DEF Next, Terminated

(* The queue of copies, the places at which jobs come into it and leave it and
   the mark that goes along it amount to the policies of Dispatch, for any file
   and timeslice: no job is forgotten, run before it arrives, longer than it
   takes or a slice lasts, or out of turn, and the processor waits only while
   no job is there. *)
THEOREM Refinement == Spec => DispatchSpec
  BY InitIdeal, StepIdeal, Invariance, PTL DEF Spec, DispatchSpec, Ideal!Spec

-----------------------------------------------------------------------------
(* Round robin is fair.                                                     *)

(* The turn of i comes before that of j: in the same round and earlier in the
   queue, or in this round while j has been served in it. *)
Ahead(i, j) ==
    LET R == BeforeOf(queue, job)
    IN  \/ i \notin R /\ j \in R
        \/ (i \in R <=> j \in R) /\ i < j

WaitsSince(i, k) ==
    /\ work[i].arrival <= trace[k].t /\ i \notin Finished
    /\ \A n \in DOMAIN trace : n > k => trace[n].job # i

(* Who waits since another job was served is ahead of that job.              *)
TurnInv ==
    \A k \in DOMAIN trace, i \in Job :
      i # trace[k].job /\ trace[k].job \notin Finished /\ WaitsSince(i, k)
        => i \in scheduled /\ Ahead(i, trace[k].job)

LEMMA ChosenFirst ==
    ASSUME Inv, Run, policy = "RR"
    PROVE  /\ Chosen \notin BeforeOf(queue, job)
           /\ \A i \in BeforeOf(queue, job) : i < Chosen
           /\ \A i \in scheduled \ Finished : i \notin BeforeOf(queue, job) => Chosen <= i
<1> PICK p : p = policy_func
  OBVIOUS
<1>1. p \in DOMAIN queue /\ Chosen = queue[p] /\ queue # <<>>
  BY GrownFacts, RunParts
<1>2. BeforeOf(queue, job) = First(queue, p - 1)
  BY <1>1, BeforeIs
<1>3. /\ Len(queue) \in Nat /\ DOMAIN queue = 1 .. Len(queue)
      /\ \A k, l \in DOMAIN queue : k < l => queue[k] < queue[l]
      /\ \A k \in DOMAIN queue : queue[k] \in Nat
      /\ \A k, l \in DOMAIN queue : queue[k] = queue[l] => k = l
  BY QueueFacts
<1>4. \A i \in First(queue, p - 1) : i < Chosen
  BY <1>1, <1>3 DEF First
<1>5. ASSUME NEW i \in scheduled \ Finished, i \notin First(queue, p - 1)
      PROVE  Chosen <= i
  <2>1. i \in Members(queue)
    BY DEF Inv, QueueInv
  <2>2. PICK k \in DOMAIN queue : i = queue[k]
    BY <2>1 DEF Members
  <2>3. ~(k \in 1 .. p - 1)
    BY <1>5, <2>2 DEF First
  <2>4. k = p \/ p < k
    BY <1>1, <1>3, <2>3
  <2>5. CASE k = p
    BY <1>1, <1>3, <2>2, <2>5
  <2>6. CASE p < k
    <3>1. queue[p] < queue[k] /\ queue[p] \in Nat /\ queue[k] \in Nat
      BY <1>1, <1>3, <2>6
    <3> QED BY <1>1, <2>2, <3>1
  <2> QED BY <2>4, <2>5, <2>6
<1>6. Chosen \notin First(queue, p - 1)
  <2>1. ASSUME NEW k \in 1 .. p - 1 PROVE queue[k] # queue[p]
    BY <1>1, <1>3
  <2> QED BY <1>1, <2>1 DEF First
<1> QED BY <1>2, <1>4, <1>5, <1>6

(* The round after a run, as it bears on a job that is there and not done.   *)
LEMMA RoundThen ==
    ASSUME Inv, Run, policy = "RR"
    PROVE  /\ \A i \in scheduled' \ Finished' :
                i \notin BeforeOf(queue, job) /\ i # Chosen =>
                  /\ i \notin BeforeOf(queue', job')
                  /\ \A j \in Job \ Finished' :
                       j \in BeforeOf(queue, job) \/ j = Chosen => j \in BeforeOf(queue', job')
           /\ \A i, j \in Job \ Finished' :
                (i \in BeforeOf(queue, job) \/ i = Chosen <=> j \in BeforeOf(queue, job) \/ j = Chosen)
                  => (i \in BeforeOf(queue', job') <=> j \in BeforeOf(queue', job'))
<1> PICK R : R = BeforeOf(queue, job)
  OBVIOUS
<1> PICK served : served = (R \cup {Chosen}) \ Finished'
  OBVIOUS
<1> PICK N : N = BeforeOf(queue', job')
  OBVIOUS
<1>1. N = IF Members(queue') \subseteq served THEN {} ELSE served
  BY RoundNext
<1>2. Members(queue') = scheduled' \ Finished'
  BY EndQueue DEF QueueInv, Members
<1> QED BY <1>1, <1>2

LEMMA RunTurn ==
    ASSUME Inv, Run, policy = "RR", TurnInv
    PROVE  TurnInv'
<1> PICK c : c = Chosen
  OBVIOUS
<1> PICK z : z = Len(trace) + 1
  OBVIOUS
<1>1. /\ DOMAIN trace' = DOMAIN trace \cup {z} /\ DOMAIN trace \subseteq Nat
      /\ \A n \in DOMAIN trace : trace'[n] = trace[n] /\ n < z /\ trace[n].job \in Job
      /\ trace'[z].job = c /\ trace'[z].t = sim_time
  BY RunTrace DEF Line
<1>2. /\ c \in Job /\ Job' = Job /\ work' = work /\ Job \subseteq Nat
      /\ Finished \subseteq Finished' /\ scheduled \subseteq scheduled'
      /\ scheduled = {i \in Job : work[i].arrival <= sim_time}
  BY GrownFacts, FinishedNext, QueueFacts, RunParts DEF Inv, QueueInv
<1> PICK R : R = BeforeOf(queue, job)
  OBVIOUS
<1> PICK N : N = BeforeOf(queue', job')
  OBVIOUS
<1>3. /\ c \notin R /\ \A i \in R : i < c
      /\ \A i \in scheduled \ Finished : i \notin R => c <= i
  BY ChosenFirst
<1>4. /\ \A i \in scheduled' \ Finished' :
           i \notin R /\ i # c =>
             i \notin N /\ \A j \in Job \ Finished' : j \in R \/ j = c => j \in N
      /\ \A i, j \in Job \ Finished' :
           (i \in R \/ i = c <=> j \in R \/ j = c) => (i \in N <=> j \in N)
  BY RoundThen
<1>5. ASSUME NEW k \in DOMAIN trace', NEW i \in Job, NEW j, j = trace'[k].job,
             i # j, j \notin Finished', WaitsSince(i, k)'
      PROVE  i \in scheduled' /\ Ahead(i, j)'
  <2>1. /\ work[i].arrival <= trace'[k].t /\ i \notin Finished'
        /\ \A n \in DOMAIN trace' : n > k => trace'[n].job # i
    BY <1>2, <1>5 DEF WaitsSince
  <2>2. j \in Job \ Finished' /\ i # j /\ i \in Nat /\ j \in Nat /\ c \in Nat
    BY <1>1, <1>2, <1>5
  <2>3. SUFFICES /\ i \in scheduled'
                 /\ (i \notin N /\ j \in N) \/ ((i \in N <=> j \in N) /\ i < j)
    BY DEF Ahead
  <2>4. CASE k = z
    <3>1. i \in scheduled /\ i \in scheduled' \ Finished' /\ j = c /\ i # c
      BY <1>1, <1>2, <1>5, <2>1, <2>4
    <3>2. i \in R => i < c /\ (i \in N <=> j \in N)
      BY <1>3, <1>4, <2>1, <2>2, <3>1
    <3>3. i \notin R => i \notin N /\ j \in N
      BY <1>4, <2>2, <3>1
    <3> QED BY <3>1, <3>2, <3>3
  <2>5. CASE k \in DOMAIN trace
    <3>1. i # c /\ z > k /\ trace[k].job = j
      <4>1. z > k /\ z \in DOMAIN trace' /\ trace[k].job = j
        BY <1>1, <1>5, <2>5
      <4> QED BY <1>1, <2>1, <4>1
    <3>2. WaitsSince(i, k)
      BY <1>1, <1>2, <2>1, <2>5 DEF WaitsSince
    <3>3. i \in scheduled /\ Ahead(i, j)
      BY <1>2, <2>2, <2>5, <3>1, <3>2 DEF TurnInv
    <3>4. (i \notin R /\ j \in R) \/ ((i \in R <=> j \in R) /\ i < j)
      BY <3>3 DEF Ahead
    <3>5. i \in scheduled' \ Finished' /\ i \in scheduled \ Finished
      BY <1>2, <2>1, <3>3
    <3>6. j # c
      BY <1>3, <2>2, <3>4, <3>5
    <3> QED BY <1>4, <2>2, <3>1, <3>4, <3>5, <3>6
  <2> QED BY <1>1, <2>4, <2>5
<1> QED BY <1>2, <1>5 DEF TurnInv

LEMMA RunFair ==
    ASSUME Inv, Run, policy = "RR", TurnInv, RotationFair
    PROVE  RotationFair'
<1> PICK c : c = Chosen
  OBVIOUS
<1> PICK z : z = Len(trace) + 1
  OBVIOUS
<1>1. /\ DOMAIN trace' = DOMAIN trace \cup {z} /\ DOMAIN trace \subseteq Nat
      /\ \A n \in DOMAIN trace : trace'[n] = trace[n] /\ n < z /\ n \in 1 .. z - 1
      /\ \A n \in 1 .. z - 1 : n \in DOMAIN trace
      /\ trace'[z].job = c /\ z \in Nat
  BY RunTrace
<1>2. /\ c \in Job /\ c \notin Finished /\ Job' = Job /\ work' = work /\ Job \subseteq Nat
      /\ Finished \subseteq Finished'
  BY GrownFacts, FinishedNext, QueueFacts
<1>3. ASSUME NEW k \in DOMAIN trace', NEW l \in DOMAIN trace', NEW i \in Job,
             k < l, trace'[k].job = trace'[l].job, i # trace'[k].job,
             work[i].arrival <= trace'[k].t,
             i \notin Finished' \/ \E n \in DOMAIN trace' : n > k /\ trace'[n].job = i
      PROVE  \E n \in k + 1 .. l - 1 : trace'[n].job = i
  <2>1. k \in DOMAIN trace /\ k \in Nat /\ l \in Nat /\ trace'[k] = trace[k]
    BY <1>1, <1>3
  <2>2. CASE l \in DOMAIN trace
    <3>1. trace'[l] = trace[l] /\ \A n \in k + 1 .. l - 1 : n \in DOMAIN trace /\ trace'[n] = trace[n]
      BY <1>1, <2>1, <2>2
    <3>2. i \notin Finished \/ \E n \in DOMAIN trace : n > k /\ trace[n].job = i
      <4>1. ASSUME NEW n \in DOMAIN trace', n > k, trace'[n].job = i
            PROVE  i \notin Finished \/ (n \in DOMAIN trace /\ trace[n].job = i)
        BY <1>1, <1>2, <4>1
      <4> QED BY <1>2, <1>3, <4>1
    <3>3. \E n \in k + 1 .. l - 1 : trace[n].job = i
      BY <1>3, <2>1, <2>2, <3>1, <3>2 DEF RotationFair
    <3> QED BY <3>1, <3>3
  <2>3. CASE l = z
    <3>1. trace[k].job = c /\ i # c
      BY <1>1, <1>3, <2>1, <2>3
    <3>2. SUFFICES ASSUME \A n \in DOMAIN trace : n > k => trace[n].job # i
                   PROVE  FALSE
      <4>1. \A n \in DOMAIN trace : n > k => n \in k + 1 .. l - 1 /\ trace'[n] = trace[n]
        BY <1>1, <2>1, <2>3
      <4> QED BY <4>1
    <3>3. i \notin Finished
      <4>1. ASSUME NEW n \in DOMAIN trace', n > k, trace'[n].job = i PROVE FALSE
        <5>1. n \in DOMAIN trace
          BY <1>1, <3>1, <4>1
        <5> QED BY <1>1, <3>2, <4>1, <5>1
      <4> QED BY <1>2, <1>3, <4>1
    <3>4. WaitsSince(i, k)
      BY <1>3, <2>1, <3>2, <3>3 DEF WaitsSince
    <3>5. i \in scheduled /\ Ahead(i, c)
      BY <1>2, <2>1, <3>1, <3>4 DEF TurnInv
    <3>6. /\ c \notin BeforeOf(queue, job)
          /\ \A j \in scheduled \ Finished : j \notin BeforeOf(queue, job) => c <= j
      BY ChosenFirst
    <3> QED BY <1>2, <3>3, <3>5, <3>6 DEF Ahead
  <2> QED BY <1>1, <2>2, <2>3
<1> QED BY <1>2, <1>3 DEF RotationFair

FairInv == RotationFair /\ (policy = "RR" => TurnInv)

LEMMA InitFair == Init => FairInv
<1> SUFFICES ASSUME Init PROVE FairInv
  OBVIOUS
<1>1. DOMAIN trace = {}
  BY DEF Init
<1> QED BY <1>1 DEF FairInv, RotationFair, TurnInv

LEMMA NextFair == Inv /\ FairInv /\ [Next]_vars => FairInv'
<1> SUFFICES ASSUME Inv, FairInv, [Next]_vars PROVE FairInv'
  OBVIOUS
<1>1. CASE Run
  <2>1. policy' = policy
    BY <1>1, RunParts
  <2>2. CASE policy = "RR"
    BY <1>1, <2>2, RunTurn, RunFair DEF FairInv
  <2> QED BY <2>1, <2>2 DEF FairInv, RotationFair
<1>2. CASE Wait
  <2>1. /\ UNCHANGED <<work, policy, trace>> /\ Job' = Job /\ Finished' = Finished
        /\ queue = <<>>
    BY <1>2, WaitFacts DEF Finished
  <2>2. RotationFair'
    BY <2>1 DEF FairInv, RotationFair
  <2>3. ASSUME policy = "RR" PROVE TurnInv'
    <3>1. scheduled \ Finished = {}
      BY <2>1 DEF Inv, QueueInv, Members
    <3>2. ASSUME NEW k \in DOMAIN trace, NEW i \in Job, i # trace[k].job,
                 trace[k].job \notin Finished, WaitsSince(i, k)
          PROVE  FALSE
      BY <2>3, <3>1, <3>2 DEF FairInv, TurnInv, WaitsSince
    <3> QED BY <2>1, <3>2 DEF TurnInv, WaitsSince
  <2> QED BY <2>1, <2>2, <2>3 DEF FairInv
<1>3. CASE UNCHANGED vars
  <2>1. UNCHANGED <<work, policy, scheduled, queue, job, stats, trace>>
    BY <1>3 DEF vars
  <2>2. Job' = Job /\ Finished' = Finished
    BY <2>1 DEF Job, Finished
  <2>3. RotationFair'
    BY <2>1, <2>2 DEF FairInv, RotationFair
  <2>4. ASSUME NEW i, NEW j PROVE Ahead(i, j)' = Ahead(i, j)
    BY <2>1 DEF Ahead, BeforeOf, Marked
  <2>5. ASSUME NEW i, NEW k PROVE WaitsSince(i, k)' = WaitsSince(i, k)
    BY <2>1, <2>2 DEF WaitsSince
  <2>6. ASSUME policy = "RR" PROVE TurnInv'
    <3> SUFFICES ASSUME NEW k \in DOMAIN trace, NEW i \in Job, NEW j, j = trace[k].job,
                        i # j, j \notin Finished, WaitsSince(i, k)'
                 PROVE  i \in scheduled /\ Ahead(i, j)'
      BY <2>1, <2>2 DEF TurnInv
    <3>1. WaitsSince(i, k)
      BY <2>5
    <3>2. i \in scheduled /\ Ahead(i, j)
      BY <2>6, <3>1 DEF FairInv, TurnInv
    <3> QED BY <2>4, <3>2
  <2> QED BY <2>1, <2>3, <2>6 DEF FairInv
<1> QED BY <1>1, <1>2, <1>3 DEF Next, Terminated

(* No job is served twice while another, there already the first time, waits,
   for any number of jobs: the mark that handle_run moves after every dispatch
   passes no copy, however many come or leave meanwhile. *)
THEOREM Fair == Spec => []RotationFair
<1>1. Spec => []FairInv
  BY InitFair, NextFair, Invariance, PTL DEF Spec
<1> QED BY <1>1, PTL DEF FairInv

-----------------------------------------------------------------------------
(* The loop of handle_run comes to its end.                                 *)

(* The sum of the times in lines, as the recursion of Busy goes over them.   *)
Sums(lines, b) ==
    /\ b \in [0 .. Len(lines) -> Nat] /\ b[0] = 0
    /\ \A n \in 1 .. Len(lines) : b[n] = b[n - 1] + lines[n].ran

LEMMA SumsExist ==
    ASSUME NEW lines \in Seq(Line)
    PROVE  \E b : Sums(lines, b)
<1> DEFINE Upto(n, b) == /\ b \in [0 .. n -> Nat] /\ b[0] = 0
                         /\ \A k \in 1 .. n : b[k] = b[k - 1] + lines[k].ran
           T == {n \in 0 .. Len(lines) : ~\E b : Upto(n, b)}
<1>1. Len(lines) \in Nat /\ \A n \in 1 .. Len(lines) : lines[n].ran \in Nat
  <2>1. \A n \in 1 .. Len(lines) : lines[n] \in Line
    BY SeqFacts
  <2> QED BY <2>1, SeqFacts DEF Line
<1>2. ASSUME T = {} PROVE \E b : Sums(lines, b)
  <2>1. Len(lines) \in 0 .. Len(lines) /\ Len(lines) \notin T
    BY <1>1, <1>2
  <2>2. PICK b : Upto(Len(lines), b)
    BY <2>1
  <2> QED BY <2>2 DEF Sums
<1> SUFFICES ASSUME T # {} PROVE FALSE
  BY <1>2
<1>3. T \in SUBSET Nat
  OBVIOUS
<1>4. PICK n \in T : \A m \in T : n <= m
  BY <1>3, LeastNat
<1>5. n \in 0 .. Len(lines) /\ n \in Nat
  BY <1>1
<1>6. n # 0
  <2>1. Upto(0, [k \in 0 .. 0 |-> 0])
    OBVIOUS
  <2>2. 0 \notin T
    BY <2>1
  <2> HIDE DEF T
  <2> QED BY <1>4, <2>2
<1>7. n - 1 \in 0 .. Len(lines) /\ n - 1 \notin T
  <2>1. n - 1 \in 0 .. Len(lines) /\ ~(n <= n - 1)
    BY <1>1, <1>5, <1>6
  <2> HIDE DEF T
  <2> QED BY <1>4, <2>1
<1>8. PICK b : Upto(n - 1, b)
  BY <1>7
<1> DEFINE c == [k \in 0 .. n |-> IF k = n THEN b[n - 1] + lines[n].ran ELSE b[k]]
<1>9. Upto(n, c)
  <2>1. b[n - 1] \in Nat /\ lines[n].ran \in Nat
    BY <1>1, <1>5, <1>6, <1>8
  <2>2. c \in [0 .. n -> Nat] /\ c[0] = 0
    BY <1>5, <1>6, <1>8, <2>1
  <2>3. ASSUME NEW k \in 1 .. n PROVE c[k] = c[k - 1] + lines[k].ran
    BY <1>5, <1>6, <1>8, <2>3
  <2> QED BY <2>2, <2>3
<1> QED BY <1>4, <1>9

LEMMA BusyIs ==
    ASSUME NEW lines \in Seq(Line), NEW b, Sums(lines, b)
    PROVE  Busy(lines) = b[Len(lines)]
<1> DEFINE Step(f) == [n \in 0 .. Len(lines) |->
                         IF n = 0 THEN 0 ELSE f[n - 1] + lines[n].ran]
           f == CHOOSE g : g = Step(g)
<1>1. Len(lines) \in Nat
  BY SeqFacts
<1>2. b = Step(b)
  BY <1>1 DEF Sums
<1>3. f = Step(f)
  BY <1>2, Zenon
<1>4. Busy(lines) = f[Len(lines)]
  BY Zenon DEF Busy
<1> HIDE DEF f
<1>5. f[0] = 0 /\ \A n \in 1 .. Len(lines) : f[n] = f[n - 1] + lines[n].ran
  BY <1>1, <1>3
<1> DEFINE T == {n \in 0 .. Len(lines) : f[n] # b[n]}
<1> SUFFICES ASSUME T # {} PROVE FALSE
  BY <1>1, <1>4
<1>6. T \in SUBSET Nat
  OBVIOUS
<1>7. PICK n \in T : \A m \in T : n <= m
  BY <1>6, LeastNat
<1>8. n \in 1 .. Len(lines)
  BY <1>1, <1>5 DEF Sums
<1>9. n - 1 \in 0 .. Len(lines) /\ n - 1 \notin T
  BY <1>1, <1>7, <1>8
<1> QED BY <1>5, <1>8, <1>9 DEF Sums

LEMMA BusyType ==
    ASSUME NEW lines \in Seq(Line)
    PROVE  Busy(lines) \in Nat
<1>1. PICK b : Sums(lines, b)
  BY SumsExist
<1> QED BY <1>1, BusyIs, SeqFacts DEF Sums

LEMMA NoLines == Busy(<<>>) = 0
<1>1. <<>> \in Seq(Line) /\ Len(<<>>) = 0
  OBVIOUS
<1>2. PICK b : Sums(<<>>, b)
  BY <1>1, SumsExist
<1>3. Busy(<<>>) = b[Len(<<>>)]
  BY <1>1, <1>2, BusyIs
<1> QED BY <1>1, <1>2, <1>3 DEF Sums

LEMMA BusyMore ==
    ASSUME NEW lines \in Seq(Line), NEW e \in Line
    PROVE  Busy(Append(lines, e)) = Busy(lines) + e.ran /\ Busy(lines) \in Nat
<1> PICK longer : longer = Append(lines, e)
  OBVIOUS
<1>1. /\ Len(lines) \in Nat /\ Len(longer) = Len(lines) + 1 /\ longer \in Seq(Line)
      /\ \A n \in 1 .. Len(lines) : longer[n] = lines[n]
      /\ longer[Len(lines) + 1] = e
  OBVIOUS
<1>2. PICK b : Sums(longer, b)
  BY <1>1, SumsExist
<1> DEFINE c == [n \in 0 .. Len(lines) |-> b[n]]
<1>3. Sums(lines, c)
  BY <1>1, <1>2 DEF Sums
<1>4. Busy(lines) = c[Len(lines)] /\ Busy(longer) = b[Len(longer)]
  BY <1>1, <1>2, <1>3, BusyIs
<1>5. c[Len(lines)] = b[Len(lines)] /\ b[Len(lines)] \in Nat
  BY <1>1, <1>2 DEF Sums
<1>6. b[Len(lines) + 1] = b[Len(lines)] + e.ran
  BY <1>1, <1>2 DEF Sums
<1> QED BY <1>1, <1>4, <1>5, <1>6

Lines(i)  == {n \in DOMAIN trace : trace[n].job = i}
Turns(i)  == Cardinality(Lines(i))

(* What is left of a job is what its turns have not used up, and a job that has
   had one and is not finished needs more than its slices so far. *)
SliceInv ==
    \A i \in Job :
      /\ Turns(i) <= Slices(i)
      /\ i \notin Finished =>
           /\ Turns(i) * timeslice + job[i].length = work[i].length
           /\ Turns(i) = 0 \/ (timeslice # 0 /\ job[i].length # 0)

ClockInv == jobs_total = 0 \/ sim_time <= work[jobs_total].arrival + Busy(trace)

LEMMA Quotient ==
    ASSUME NEW a \in Nat, NEW d \in Nat \ {0}, NEW k \in Nat, k * d <= a
    PROVE  k <= a \div d /\ a \div d \in Nat
<1>1. PICK q \in Nat : q = a \div d
  OBVIOUS
<1>2. a < q * d + d
  BY <1>1
<1>3. SUFFICES ASSUME q < k PROVE FALSE
  BY <1>1
<1>4. PICK e \in Nat : k = q + 1 + e
  <2>1. k - (q + 1) \in Nat /\ k = q + 1 + (k - (q + 1))
    BY <1>3
  <2> QED BY <2>1
<1>5. k * d = q * d + d + e * d
  BY <1>4
<1>6. e * d \in Nat /\ q * d \in Nat
  OBVIOUS
<1> QED BY <1>2, <1>5, <1>6

(* One turn more is a slice that the length of the job has room for.         *)
LEMMA SliceForTurn ==
    ASSUME Inv, NEW i \in Job, NEW n \in Nat,
           n * timeslice + job[i].length = work[i].length,
           n = 0 \/ (timeslice # 0 /\ job[i].length # 0)
    PROVE  n + 1 <= Slices(i) /\ Slices(i) \in Nat
<1> PICK len \in Nat : len = work[i].length
  BY JobTypes
<1> PICK left \in Nat : left = job[i].length
  BY JobTypes
<1>1. timeslice \in Nat
  BY WorkloadAssumption DEF Inv, ParametersInv
<1> PICK d \in Nat : d = timeslice
  BY <1>1
<1>2. CASE d = 0 \/ len = 0
  <2>1. Slices(i) = 1
    BY <1>2 DEF Slices
  <2>2. n = 0
    <3>1. n = 0 \/ (d # 0 /\ left # 0 /\ len = 0)
      BY <1>2
    <3>2. n * d \in Nat /\ n * d + left = len
      OBVIOUS
    <3> QED BY <3>1, <3>2
  <2> QED BY <2>1, <2>2
<1>3. CASE d # 0 /\ len # 0
  <2>1. Slices(i) = (len + d - 1) \div d
    BY <1>3 DEF Slices
  <2>2. left # 0
    <3>1. n = 0 \/ left # 0
      OBVIOUS
    <3>2. n = 0 => left = len
      <4>1. n * d + left = len /\ 0 * d = 0
        OBVIOUS
      <4> QED BY <4>1
    <3> QED BY <1>3, <3>1, <3>2
  <2>3. n * d \in Nat /\ n * d + left = len /\ (n + 1) * d = n * d + d
    OBVIOUS
  <2>4. (n + 1) * d <= len + d - 1 /\ len + d - 1 \in Nat
    BY <1>3, <2>2, <2>3
  <2>5. n + 1 \in Nat /\ d \in Nat \ {0}
    BY <1>3
  <2>6. n + 1 <= (len + d - 1) \div d /\ (len + d - 1) \div d \in Nat
    BY <2>4, <2>5, Quotient
  <2> QED BY <2>1, <2>6
<1> QED BY <1>2, <1>3

LEMMA TurnsNext ==
    ASSUME Inv, Run, NEW i \in Job
    PROVE  /\ Turns(i) \in Nat
           /\ Turns(i)' = IF i = Chosen THEN Turns(i) + 1 ELSE Turns(i)
<1> PICK z : z = Len(trace) + 1
  OBVIOUS
<1> PICK c : c = Chosen
  OBVIOUS
<1>1. /\ Len(trace) \in Nat /\ DOMAIN trace = 1 .. Len(trace) /\ z \notin DOMAIN trace
      /\ DOMAIN trace' = DOMAIN trace \cup {z}
      /\ \A n \in DOMAIN trace : trace'[n] = trace[n]
      /\ trace'[z].job = c
  BY RunTrace
<1> PICK old : old = Lines(i)
  OBVIOUS
<1> PICK new : new = {n \in DOMAIN trace' : trace'[n].job = i}
  OBVIOUS
<1>2. IsFiniteSet(old) /\ Cardinality(old) \in Nat
  <2>1. IsFiniteSet(1 .. Len(trace))
    BY <1>1, FS_Interval
  <2>2. old \in SUBSET (1 .. Len(trace))
    BY <1>1 DEF Lines
  <2> QED BY <2>1, <2>2, FS_Subset, FS_CardinalityType
<1>3. Turns(i) = Cardinality(old) /\ Turns(i)' = Cardinality(new)
  BY DEF Turns, Lines
<1>4. CASE i = c
  <2>1. new = old \cup {z} /\ z \notin old
    BY <1>1, <1>4 DEF Lines
  <2>2. Cardinality(new) = Cardinality(old) + 1
    BY <1>2, <2>1, FS_AddElement
  <2> QED BY <1>2, <1>3, <1>4, <2>2
<1>5. CASE i # c
  <2>1. new = old
    BY <1>1, <1>5 DEF Lines
  <2> QED BY <1>2, <1>3, <1>5, <2>1
<1> QED BY <1>4, <1>5

LEMMA InitBounded == Init => SliceInv /\ ClockInv
<1> SUFFICES ASSUME Init PROVE SliceInv /\ ClockInv
  OBVIOUS
<1>1. Inv /\ trace = <<>> /\ sim_time = 0
  BY InitInv DEF Init
<1>2. ASSUME NEW i \in Job
      PROVE  /\ Turns(i) = 0 /\ 1 <= Slices(i) /\ Slices(i) \in Nat
             /\ Turns(i) * timeslice + job[i].length = work[i].length
  <2>1. Lines(i) = {}
    BY <1>1 DEF Lines
  <2>2. Turns(i) = 0
    BY <2>1, FS_EmptySet DEF Turns
  <2>3. job[i].length = work[i].length
    BY DEF Init
  <2>4. 0 * timeslice = 0 /\ work[i].length \in Nat
    <3>1. timeslice \in Nat
      BY WorkloadAssumption DEF Init
    <3> QED BY <1>1, <3>1, JobTypes
  <2>5. 0 * timeslice + job[i].length = work[i].length
    BY <2>3, <2>4
  <2>6. 0 + 1 <= Slices(i) /\ Slices(i) \in Nat
    BY <1>1, <2>5, SliceForTurn
  <2> QED BY <2>2, <2>5, <2>6
<1>3. SliceInv
  BY <1>2 DEF SliceInv
<1>4. ClockInv
  <2> SUFFICES ASSUME jobs_total # 0
               PROVE  sim_time <= work[jobs_total].arrival + Busy(trace)
    BY DEF ClockInv
  <2>1. jobs_total \in Job
    BY <1>1, WorkFacts DEF Inv, ParametersInv, jobs_total
  <2>2. work[jobs_total].arrival \in Nat /\ Busy(trace) = 0
    BY <1>1, <2>1, JobTypes, NoLines
  <2> QED BY <1>1, <2>2
<1> QED BY <1>3, <1>4

LEMMA RunSlices ==
    ASSUME Inv, Run, SliceInv
    PROVE  SliceInv'
<1> PICK c : c = Chosen
  OBVIOUS
<1>1. /\ c \in Job /\ c \notin Finished /\ Job' = Job
      /\ UNCHANGED <<work, timeslice>>
  BY GrownFacts, RunParts
<1>2. /\ Finished' = IF job'[c].length = 0 THEN Finished \cup {c} ELSE Finished
      /\ job'[c].length = Served(c).length
      /\ \A i \in Job \ {c} : job'[i].length = job[i].length
  BY JobFacts, FinishedNext DEF ButMark
<1>3. ParametersInv /\ job \in [Job -> Copy]
  BY DEF Inv, JobInv
<1>4. ASSUME NEW i \in Job
      PROVE  /\ Turns(i)' <= Slices(i)
             /\ i \notin Finished' =>
                  /\ Turns(i)' * timeslice + job'[i].length = work[i].length
                  /\ Turns(i)' = 0 \/ (timeslice # 0 /\ job'[i].length # 0)
  <2>1. CASE i # c
    <3>1. Turns(i)' = Turns(i) /\ job'[i].length = job[i].length
      BY <1>2, <2>1, TurnsNext
    <3>2. i \notin Finished' => i \notin Finished
      BY <1>2
    <3> QED BY <3>1, <3>2 DEF SliceInv
  <2>2. CASE i = c
    <3> PICK n \in Nat : n = Turns(i)
      BY TurnsNext
    <3> PICK d \in Nat : d = timeslice
      BY <1>3, WorkloadAssumption DEF ParametersInv
    <3> PICK len \in Nat : len = work[i].length
      BY JobTypes
    <3> PICK left \in Nat : left = job[i].length
      BY JobTypes
    <3> PICK ran \in Nat : ran = Runtime(i)
      BY <1>3, RuntimeFacts
    <3>1. Turns(i)' = n + 1
      BY <2>2, TurnsNext
    <3>2. n * d + left = len /\ (n = 0 \/ (d # 0 /\ left # 0))
      BY <1>1, <2>2 DEF SliceInv
    <3>3. n + 1 <= Slices(i)
      BY <3>2, SliceForTurn
    <3>4. job'[i].length = left - ran
      BY <1>2, <1>3, <2>2, ServedFacts
    <3>5. i \notin Finished' => left - ran # 0
      BY <1>2, <2>2, <3>4
    <3>6. ran = left \/ (d # 0 /\ ran = d)
      BY <1>3, RuntimeFacts
    <3>7. (n + 1) * d = n * d + d /\ n * d \in Nat
      OBVIOUS
    <3>8. left - ran # 0 => (n + 1) * d + (left - ran) = len /\ d # 0
      BY <3>2, <3>6, <3>7
    <3> QED BY <3>1, <3>3, <3>4, <3>5, <3>8
  <2> QED BY <2>1, <2>2
<1>5. ASSUME NEW i \in Job PROVE Slices(i)' = Slices(i)
  BY <1>1 DEF Slices
<1> QED BY <1>1, <1>4, <1>5 DEF SliceInv

LEMMA RunClock ==
    ASSUME Inv, Run, ClockInv
    PROVE  ClockInv'
<1> PICK e : e = [t |-> sim_time, job |-> Chosen, ran |-> Runtime(Chosen)]
  OBVIOUS
<1>1. /\ trace' = Append(trace, e) /\ sim_time' = sim_time + e.ran /\ work' = work
  BY RunParts
<1>2. trace \in Seq(Line) /\ e \in Line
  <2>1. Chosen \in Job /\ sim_time \in Nat /\ Runtime(Chosen) \in Nat
    BY GrownFacts, RuntimeFacts DEF Inv, JobInv, ParametersInv
  <2> QED BY <2>1 DEF Inv, JobInv, Line
<1>3. Busy(trace') = Busy(trace) + e.ran /\ Busy(trace) \in Nat
  BY <1>1, <1>2, BusyMore
<1>4. SUFFICES ASSUME jobs_total # 0
               PROVE  sim_time' <= work[jobs_total].arrival + Busy(trace')
  BY <1>1 DEF ClockInv, jobs_total
<1>5. jobs_total \in Job
  BY <1>4, WorkFacts DEF Inv, ParametersInv, jobs_total
<1>6. work[jobs_total].arrival \in Nat /\ sim_time \in Nat
  BY <1>5, JobTypes
<1>7. e.ran \in Nat /\ sim_time <= work[jobs_total].arrival + Busy(trace)
  BY <1>2, <1>4 DEF ClockInv, Line
<1> QED BY <1>1, <1>3, <1>6, <1>7

(* The clock goes on without a job only while one is still to arrive.        *)
LEMMA WaitClock ==
    ASSUME Inv, Wait
    PROVE  ClockInv'
<1>1. /\ queue = <<>> /\ sim_time' = sim_time + 1 /\ UNCHANGED <<work, trace>>
  BY WaitFacts
<1>2. Finished # Job
  BY SomeLeft DEF Wait
<1>3. Finished \subseteq Job
  <2>1. \A k \in DOMAIN stats : stats[k] \in Stats
    BY SeqFacts DEF Inv, StatsInv
  <2> QED BY <2>1 DEF Finished, Stats
<1>4. PICK i \in Job : i \notin Finished
  BY <1>2, <1>3
<1>5. i \notin scheduled
  BY <1>1, <1>4 DEF Inv, QueueInv, Members
<1>6. work[i].arrival \in Nat /\ sim_time \in Nat /\ ~(work[i].arrival <= sim_time)
  BY <1>5, JobTypes DEF Inv, QueueInv
<1>7. /\ Len(work) \in Job /\ work[Len(work)].arrival \in Nat
      /\ work[i].arrival <= work[Len(work)].arrival
  BY WorkFacts DEF Inv, ParametersInv
<1>8. Busy(trace) \in Nat
  BY BusyType DEF Inv, JobInv
<1> QED BY <1>1, <1>6, <1>7, <1>8 DEF ClockInv, jobs_total

LEMMA NextBounded == Inv /\ SliceInv /\ ClockInv /\ [Next]_vars => SliceInv' /\ ClockInv'
<1> SUFFICES ASSUME Inv, SliceInv, ClockInv, [Next]_vars PROVE SliceInv' /\ ClockInv'
  OBVIOUS
<1>1. CASE Run
  BY <1>1, RunSlices, RunClock
<1>2. CASE Wait
  <2>1. UNCHANGED <<work, timeslice, job, stats, trace>>
    BY <1>2, WaitFacts
  <2>2. SliceInv'
    BY <2>1 DEF SliceInv, Slices, Turns, Lines, Job, Finished
  <2> QED BY <1>2, <2>2, WaitClock
<1>3. CASE UNCHANGED vars
  BY <1>3 DEF vars, SliceInv, ClockInv, Slices, Turns, Lines, Job, Finished, jobs_total
<1> QED BY <1>1, <1>2, <1>3 DEF Next, Terminated

(* handle_run ends, whatever the jobs and the slice: it dispatches a job no more
   often than its length takes in slices, since every turn but the last uses a
   whole slice up, and it lets the clock go on without a job only while one is
   still to arrive. *)
THEOREM Bounded == Spec => []RunBounded
<1>1. Spec => [](SliceInv /\ ClockInv)
  BY InitBounded, NextBounded, Invariance, PTL DEF Spec
<1>2. SliceInv /\ ClockInv => RunBounded
  BY DEF SliceInv, ClockInv, RunBounded, Turns, Lines
<1> QED BY <1>1, <1>2, PTL

=============================================================================
