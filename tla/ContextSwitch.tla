--------------------------- MODULE ContextSwitch ---------------------------
(***************************************************************************)
(* assigned-project-scheduling/context_switch.c: a process and its child    *)
(* send a byte to and fro through two pipes; the time this takes, over      *)
(* twice the rounds, is printed as the cost of a context switch.            *)
(***************************************************************************)
EXTENDS Pipe, Integers

CONSTANT NUM_ITERATIONS

ASSUME IterationsAssumption == NUM_ITERATIONS \in Nat \ {0}

VARIABLES pc,     \* where each process is
          i,      \* the rounds it has done
          p_2_c,  \* the pipe to the child
          c_2_p   \* the pipe to the parent

vars == <<pc, i, p_2_c, c_2_p>>

Proc == {"parent", "child"}
Over == {"done", "failed", "none"}  \* "none": the child before fork

PipeState == [readers : SUBSET Proc, writers : SUBSET Proc, content : 0 .. 1]

TypeOK ==
    /\ pc \in [Proc -> Over \cup {"pipe", "fork", "affinity", "close", "write", "read",
                                  "wait", "exit"}]
    /\ i \in [Proc -> 0 .. NUM_ITERATIONS]
    /\ p_2_c \in PipeState /\ c_2_p \in PipeState

Init ==
    /\ pc = [parent |-> "pipe", child |-> "none"]
    /\ i = [p \in Proc |-> 0]
    /\ p_2_c = [readers |-> {}, writers |-> {}, content |-> 0]
    /\ c_2_p = p_2_c

Goto(p, where) == pc' = [pc EXCEPT ![p] = where]

(* The process ends, and with it its hold on the pipes.                     *)
Ends(p, how) ==
    /\ Goto(p, how)
    /\ p_2_c' = CloseBoth(p_2_c, p)
    /\ c_2_p' = CloseBoth(c_2_p, p)
    /\ UNCHANGED i

pipe ==
    /\ pc["parent"] = "pipe"
    /\ \/ /\ Goto("parent", "fork")
          /\ p_2_c' = Opened("parent") /\ c_2_p' = Opened("parent")
          /\ UNCHANGED i
       \/ Ends("parent", "failed")

fork ==
    /\ pc["parent"] = "fork"
    /\ \/ /\ pc' = [p \in Proc |-> "affinity"]
          /\ p_2_c' = Inherited(p_2_c, "parent", "child")
          /\ c_2_p' = Inherited(c_2_p, "parent", "child")
          /\ UNCHANGED i
       \/ Ends("parent", "failed")

sched_setaffinity(p) ==
    /\ pc[p] = "affinity"
    /\ \/ Goto(p, "close") /\ UNCHANGED <<i, p_2_c, c_2_p>>
       \/ Ends(p, "failed")

(* Each closes the ends it does not use.  Slip: the child keeps the end
   through which it is written to.                                          *)
ChildKeepsEnd(p) ==
    IF p = "child" THEN /\ c_2_p' = CloseRead(c_2_p, p) /\ UNCHANGED p_2_c
    ELSE p_2_c' = CloseRead(p_2_c, p) /\ c_2_p' = CloseWrite(c_2_p, p)

ClosesUnused(p) ==
    IF p = "child" THEN p_2_c' = CloseWrite(p_2_c, p) /\ c_2_p' = CloseRead(c_2_p, p)
    ELSE p_2_c' = CloseRead(p_2_c, p) /\ c_2_p' = CloseWrite(c_2_p, p)

FirstCall(p) == IF p = "child" THEN "read" ELSE "write"

close(p) ==
    /\ pc[p] = "close"
    /\ ClosesUnused(p)
    /\ Goto(p, FirstCall(p))
    /\ UNCHANGED i

(* Slip: a round too many.                                                  *)
OneMore(n)    == n <= NUM_ITERATIONS
MoreRounds(n) == n < NUM_ITERATIONS

NextRound(p) ==
    /\ i' = [i EXCEPT ![p] = @ + 1]
    /\ Goto(p, IF MoreRounds(i'[p]) THEN FirstCall(p)
               ELSE IF p = "child" THEN "exit" ELSE "wait")

Out(p) == IF p = "child" THEN c_2_p ELSE p_2_c
In(p)  == IF p = "child" THEN p_2_c ELSE c_2_p

write(p) ==
    /\ pc[p] = "write"
    /\ \/ /\ ~Broken(Out(p))
          /\ \/ p = "child"  /\ c_2_p' = Put(c_2_p) /\ UNCHANGED p_2_c /\ NextRound(p)
             \/ p = "parent" /\ p_2_c' = Put(p_2_c) /\ UNCHANGED <<c_2_p, i>>
                             /\ Goto(p, "read")
       \/ Broken(Out(p)) /\ Ends(p, "failed")

read(p) ==
    /\ pc[p] = "read"
    /\ \/ /\ HasInput(In(p))
          /\ \/ p = "child"  /\ p_2_c' = Taken(p_2_c) /\ UNCHANGED <<c_2_p, i>>
                             /\ Goto(p, "write")
             \/ p = "parent" /\ c_2_p' = Taken(c_2_p) /\ UNCHANGED p_2_c /\ NextRound(p)
       \/ EndOfFile(In(p)) /\ Ends(p, "failed")

exit ==
    /\ pc["child"] = "exit"
    /\ Ends("child", "done")

(* wait(NULL) collects the child, however it ended.  Slip: it does not wait. *)
NoWait    == TRUE
ChildOver == pc["child"] \in Over

wait ==
    /\ pc["parent"] = "wait"
    /\ ChildOver
    /\ Ends("parent", "done")

Parent == pipe \/ fork \/ sched_setaffinity("parent") \/ close("parent")
          \/ write("parent") \/ read("parent") \/ wait
Child  == sched_setaffinity("child") \/ close("child")
          \/ read("child") \/ write("child") \/ exit

Next == Parent \/ Child

(* Both are processes that the system schedules.                            *)
Spec == Init /\ [][Next]_vars /\ WF_vars(Parent) /\ WF_vars(Child)

-----------------------------------------------------------------------------
(* Neither process is left behind waiting for the other, whatever call fails
   in either of them: the one that ends closes the pipe the other waits at. *)
BothEnd == <>[](\A p \in Proc : pc[p] \in Over)

(* A time is printed only after both have done all rounds, and while they do
   them the parent is at most a round behind, never ahead: the time is that of
   two messages a round.  They are two switches only on one processor, which the
   code does not see to: line 69 pins the child once more, not the parent. *)
RoundsInStep ==
    /\ i["child"] - i["parent"] \in {0, 1}
    /\ pc["parent"] = "done" => pc["child"] = "done" /\ i["child"] = NUM_ITERATIONS
=============================================================================
