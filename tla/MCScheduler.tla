---------------------------- MODULE MCScheduler ----------------------------
(***************************************************************************)
(* Instances of Scheduler: every file of up to three jobs, and of four      *)
(* short ones, in the order of arrival.                                     *)
(***************************************************************************)
EXTENDS Scheduler

Files(n, arrivals, lengths) ==
    {w \in [1 .. n -> [arrival : arrivals, length : lengths]] :
       \A k \in 1 .. n - 1 : w[k].arrival <= w[k + 1].arrival}

SmallWorkloads == {<<>>} \cup Files(2, 0 .. 5, 0 .. 3) \cup Files(3, 0 .. 4, 0 .. 3)
                  \cup Files(4, 0 .. 3, 0 .. 2)
=============================================================================
