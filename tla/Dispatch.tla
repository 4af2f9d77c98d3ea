------------------------------ MODULE Dispatch ------------------------------
(***************************************************************************)
(* What a run of the scheduler promises: one processor, never idle while a  *)
(* job is there, serves one job after the other as the policy says, without *)
(* a queue and without a mark.                                              *)
(*                                                                          *)
(* Round robin goes in rounds: the job served next is the one that came     *)
(* first of those not served in this round, and a round ends when all jobs  *)
(* that are there have been served, those that came meanwhile included.     *)
(***************************************************************************)
EXTENDS Integers

VARIABLES work,      \* the jobs: arrival and length of each, in the order listed
          policy,    \* "FIFO", "SJF" or "RR"
          timeslice, \* 0 for none
          clock,
          left,      \* how long each job still has to run
          done,      \* the finished jobs
          round      \* the jobs served in this round

vars == <<work, policy, timeslice, clock, left, done, round>>

Job == DOMAIN work

Ready == {j \in Job \ done : work[j].arrival <= clock}

CameFirst(j, S) ==
    /\ j \in S
    /\ \A i \in S : \/ work[j].arrival < work[i].arrival
                    \/ work[j].arrival = work[i].arrival /\ j <= i

Shortest(S) == {j \in S : \A i \in S : left[j] <= left[i]}

Choice(j) ==
    \/ policy = "FIFO" /\ CameFirst(j, Ready)
    \/ policy = "SJF"  /\ CameFirst(j, Shortest(Ready))
    \/ policy = "RR"   /\ CameFirst(j, Ready \ round)

Init ==
    /\ clock = 0
    /\ left = [j \in Job |-> work[j].length]
    /\ done = {} /\ round = {}

Serve(j) ==
    /\ Choice(j)
    /\ \E ran \in 0 .. left[j] :
         /\ ran = left[j] \/ (timeslice # 0 /\ ran = timeslice)
         /\ timeslice # 0 => ran <= timeslice
         /\ clock' = clock + ran
         /\ left' = [left EXCEPT ![j] = @ - ran]
    /\ done' = IF left'[j] = 0 THEN done \cup {j} ELSE done
    /\ LET served == (round \cup {j}) \ done'
       IN  round' = IF policy # "RR" \/ Ready' \subseteq served THEN {} ELSE served
    /\ UNCHANGED <<work, policy, timeslice>>

Idle ==
    /\ done # Job /\ Ready = {}
    /\ clock' = clock + 1
    /\ UNCHANGED <<work, policy, timeslice, left, done, round>>

Next == Idle \/ \E j \in Job : Serve(j)

Spec == Init /\ [][Next]_vars
=============================================================================
