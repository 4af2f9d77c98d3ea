------------------------------- MODULE Wshell -------------------------------
(***************************************************************************)
(* assigned-project-processes/wshell.c: the shell, its children and the     *)
(* table of background jobs.  A step of the shell is a system call that     *)
(* depends on a child, fork or waitpid, together with what the code does up *)
(* to the next; children run, end and become zombies at any time between.   *)
(*                                                                          *)
(* A command line is known by its form.  What cd, pwd, echo, jobs and       *)
(* history do with their arguments is left out, and so are the history and  *)
(* activeJobs, which nothing reads.  fork fails when no process number is   *)
(* free.                                                                    *)
(***************************************************************************)
EXTENDS Pipe, Integers

CONSTANTS Pid,         \* the process numbers there are for children
          MaxJobs,     \* 255: places in the table, and numbers of jobs
          PipeSize,    \* what a pipe holds
          MaxOutput    \* bound: what the first command of a pipe writes

ASSUME ShellAssumption ==
    /\ Pid \subseteq Nat \ {0} /\ MaxJobs \in Nat \ {0}
    /\ PipeSize \in Nat \ {0} /\ MaxOutput \in Nat

NoPid == -1            \* what fork returns when it fails
Shell == 0

VARIABLES
    pc,          \* where the shell is
    call,        \* locals of the command under way
    proc,        \* the children
    job,         \* backRunning, backJobIds and backPids
    nextJobId,
    pipe,        \* of the pipe under way
    output       \* what its first command has still to write

vars == <<pc, call, proc, job, nextJobId, pipe, output>>

Place == 1 .. MaxJobs
(* The shell waits for a "foreground" child, a "writer" and a "reader"; a
   "background" one is in the table, a "loose" one is not, or no more.  How a
   child ended is kept if the shell looks at it.                            *)
Role  == {"background", "foreground", "writer", "reader", "loose"}
Free  == [state |-> "none"]
Child == {Free} \cup [state : {"starting", "running"}, role : Role]
                \cup [state : {"zombie"}, role : Role \ {"foreground"}]
                \cup [state : {"zombie"}, role : {"foreground"},
                      outcome : {"ok", "fail", "signal"}]
NoJob == [backJobId |-> 0, backPid |-> NoPid]     \* backRunning is false
Idle  == [first |-> NoPid, second |-> NoPid, op |-> "none", outcome |-> "none"]
CallState == [first : Pid \cup {NoPid}, second : Pid \cup {NoPid},
              op : {"none", "and", "or"},
              outcome : {"none", "ok", "fail", "signal", "builtin", "not run"}]
PipeState == [readers : SUBSET (Pid \cup {Shell}), writers : SUBSET (Pid \cup {Shell}),
              content : 0 .. PipeSize]
Close0 == [readers |-> {}, writers |-> {}, content |-> 0]

TypeOK ==
    /\ pc \in {"check", "read", "wait", "then", "pipe", "fork1", "fork2", "close",
               "wait1", "wait2", "exited"}
    /\ call \in CallState
    /\ proc \in [Pid -> Child]
    /\ job \in [Place -> {NoJob} \cup [backJobId : 1 .. MaxJobs,
                                       backPid : Pid \cup {NoPid}]]
    /\ nextJobId \in 0 .. MaxJobs
    /\ pipe \in PipeState
    /\ output \in 0 .. MaxOutput

Init ==
    /\ pc = "check" /\ call = Idle
    /\ proc = [p \in Pid |-> Free]
    /\ job = [k \in Place |-> NoJob]
    /\ nextJobId = 0
    /\ pipe = Close0 /\ output = 0

Unused  == {p \in Pid : proc[p].state = "none"}
Zombie  == {p \in Pid : proc[p].state = "zombie"}
Running == {k \in Place : job[k] # NoJob}

First(S) == CHOOSE k \in S : \A l \in S : k <= l

Forked(p, role) == proc' = [proc EXCEPT ![p] = [state |-> "running", role |-> role]]
Reaped(p)       == proc' = [proc EXCEPT ![p] = Free]

(***************************************************************************)
(* Background jobs.                                                         *)
(***************************************************************************)

(* waitpid(-1, WNOHANG), again and again: the first place with its number is
   given up, if there is one.                                               *)
checkBackgroundJobs(p) ==
    /\ pc = "check"
    /\ p \in Zombie
    /\ Reaped(p)
    /\ LET places == {k \in Running : job[k].backPid = p}
       IN  job' = IF places = {} THEN job
                  ELSE [job EXCEPT ![First(places)] = NoJob]
    /\ UNCHANGED <<pc, call, nextJobId, pipe, output>>

Prompt ==
    /\ pc = "check"
    /\ Zombie = {}
    /\ pc' = "read"
    /\ UNCHANGED <<call, proc, job, nextJobId, pipe, output>>

(* Slip: the numbers are not used again.                                    *)
NeverAgain         == nextJobId + 1
findAvailableJobId == IF nextJobId + 1 > MaxJobs THEN 1 ELSE nextJobId + 1

(* Slip: the place that has the job's number, taken or not.                 *)
NumberedPlace == findAvailableJobId
FreePlace     == First(Place \ Running)

(* The number is used up even if there is no place.                         *)
addBackgroundJob(pid) ==
    /\ nextJobId' = findAvailableJobId
    /\ job' = IF Running = Place THEN job
              ELSE [job EXCEPT ![FreePlace] =
                      [backJobId |-> nextJobId', backPid |-> pid]]

(* A line that ends in &; the child runs the command, a builtin one itself.
   When fork fails, what it returns is taken for a child's number.          *)
Background ==
    /\ pc = "read"
    /\ \/ \E p \in Unused :
            /\ Forked(p, IF Running = Place THEN "loose" ELSE "background")
            /\ addBackgroundJob(p)
       \/ Unused = {} /\ addBackgroundJob(NoPid) /\ UNCHANGED proc
    /\ pc' = "check"
    /\ UNCHANGED <<call, pipe, output>>

(* The builtin kill.  The place is free at once; the child ends when SIGTERM
   makes it, if it does, and is reaped like any other.  With -1 in the place
   every child gets the signal, and Stop is what it may do.                 *)
Kill(id) ==
    LET places == {k \in Running : job[k].backJobId = id}
        k      == First(places)
    IN  IF places = {} THEN UNCHANGED <<proc, job>>
        ELSE /\ job' = [job EXCEPT ![k] = NoJob]
             /\ proc' = IF job[k].backPid = NoPid THEN proc
                        ELSE [proc EXCEPT ![job[k].backPid].role = "loose"]

Builtin == (\E id \in 1 .. MaxJobs : Kill(id)) \/ UNCHANGED <<proc, job>>

(* A blank line, a builtin command, and a pipe that cannot be made.         *)
InShell ==
    /\ pc = "read"
    /\ Builtin
    /\ pc' = "check"
    /\ UNCHANGED <<call, nextJobId, pipe, output>>

(***************************************************************************)
(* Commands the shell waits for: command(newArr, false), and-or, and        *)
(* redirection, which waits likewise.                                       *)
(***************************************************************************)

(* The first or only command of a line: fork, unless it is builtin.  What
   command returns when fork fails is 0, as if it had run: && goes on and ||
   does not, against line 190, "Function returns ... 1 on failure".         *)
Start(op) ==
    \/ \E p \in Unused : /\ Forked(p, "foreground")
                         /\ call' = [Idle EXCEPT !.first = p, !.op = op]
                         /\ pc' = "wait"
                         /\ UNCHANGED job
    \/ /\ Unused = {} /\ UNCHANGED <<proc, job>>
       /\ IF op = "and" THEN pc' = "then" /\ call' = [Idle EXCEPT !.op = op,
                                                                   !.outcome = "not run"]
          ELSE pc' = "check" /\ call' = Idle

Foreground ==
    /\ pc = "read"
    /\ Start("none")
    /\ UNCHANGED <<nextJobId, pipe, output>>

handleAndOrCommands(op) ==
    /\ pc = "read"
    /\ \/ Start(op)
       \/ /\ Builtin
          /\ IF op = "and" THEN pc' = "then" /\ call' = [Idle EXCEPT !.op = op,
                                                                      !.outcome = "builtin"]
             ELSE pc' = "check" /\ UNCHANGED call
    /\ UNCHANGED <<nextJobId, pipe, output>>

(* Slip: a command that a signal ended has exit status 0.                   *)
ExitStatus(outcome)    == IF outcome = "fail" THEN 1 ELSE 0
CommandStatus(outcome) == IF outcome = "ok" THEN 0 ELSE 1

RunsSecond(op, status) == (op = "and" /\ status = 0) \/ (op = "or" /\ status # 0)

Waited(p) ==
    /\ pc = "wait"
    /\ p = call.first /\ p \in Zombie
    /\ Reaped(p)
    /\ IF RunsSecond(call.op, CommandStatus(proc[p].outcome))
       THEN pc' = "then" /\ call' = [call EXCEPT !.first = NoPid,
                                                 !.outcome = proc[p].outcome]
       ELSE pc' = "check" /\ call' = Idle
    /\ UNCHANGED <<job, nextJobId, pipe, output>>

Second ==
    /\ pc = "then"
    /\ \/ Start("none")
       \/ Builtin /\ pc' = "check" /\ call' = Idle
    /\ UNCHANGED <<nextJobId, pipe, output>>

(***************************************************************************)
(* executePipe.                                                             *)
(***************************************************************************)
OpenPipe ==
    /\ pc = "read"
    /\ pipe' = Opened(Shell)
    /\ \E n \in 0 .. MaxOutput : output' = n
    /\ pc' = "fork1"
    /\ UNCHANGED <<call, proc, job, nextJobId>>

Starting(p, role) ==
    /\ proc' = [proc EXCEPT ![p] = [state |-> "starting", role |-> role]]
    /\ pipe' = Inherited(pipe, Shell, p)

(* The shell returns and keeps both ends, which no command uses any more.   *)
ForkWriter ==
    /\ pc = "fork1"
    /\ \/ \E p \in Unused : /\ Starting(p, "writer")
                            /\ call' = [call EXCEPT !.first = p]
                            /\ pc' = "fork2"
                            /\ UNCHANGED output
       \/ /\ Unused = {}
          /\ pc' = "check" /\ pipe' = Close0 /\ output' = 0
          /\ UNCHANGED <<call, proc>>
    /\ UNCHANGED <<job, nextJobId>>

(* Here the first child is left to itself, with a pipe nobody reads and whose
   ends the shell never closes; it may write for ever.                      *)
ForkReader ==
    /\ pc = "fork2"
    /\ \/ \E p \in Unused : /\ Starting(p, "reader")
                            /\ call' = [call EXCEPT !.second = p]
                            /\ pc' = "close"
                            /\ UNCHANGED output
       \/ /\ Unused = {}
          /\ proc' = [proc EXCEPT ![call.first].role = "loose"]
          /\ call' = Idle
          /\ pc' = "check" /\ pipe' = Close0 /\ output' = 0
    /\ UNCHANGED <<job, nextJobId>>

(* Slip: the end for reading only is closed.                                *)
KeepWriteEnd(p) == CloseRead(pipe, p)
CloseEnds(p)    == CloseBoth(pipe, p)

ClosePipe ==
    /\ pc = "close"
    /\ pipe' = CloseEnds(Shell)
    /\ pc' = "wait1"
    /\ UNCHANGED <<call, proc, job, nextJobId, output>>

WaitWriter ==
    /\ pc = "wait1"
    /\ call.first \in Zombie
    /\ Reaped(call.first)
    /\ pc' = "wait2"
    /\ UNCHANGED <<call, job, nextJobId, pipe, output>>

WaitReader ==
    /\ pc = "wait2"
    /\ call.second \in Zombie
    /\ Reaped(call.second)
    /\ pc' = "check" /\ call' = Idle /\ pipe' = Close0 /\ output' = 0
    /\ UNCHANGED <<job, nextJobId>>

(* exit, or the end of the input.  The children go on.                      *)
Exit ==
    /\ pc = "read"
    /\ pc' = "exited"
    /\ UNCHANGED <<call, proc, job, nextJobId, pipe, output>>

(***************************************************************************)
(* The children.                                                            *)
(***************************************************************************)
Becomes(p, outcome) ==
    /\ proc' = [proc EXCEPT ![p] =
                  IF @.role = "foreground"
                  THEN [state |-> "zombie", role |-> @.role, outcome |-> outcome]
                  ELSE [state |-> "zombie", role |-> @.role]]
    /\ UNCHANGED <<pc, call, job, nextJobId, output>>

(* In the child: dup2, and close of what is not needed.                     *)
SetUp(p) ==
    /\ proc[p].state = "starting"
    /\ proc' = [proc EXCEPT ![p].state = "running"]
    /\ pipe' = IF proc[p].role = "writer" THEN CloseRead(pipe, p) ELSE CloseWrite(pipe, p)
    /\ UNCHANGED <<pc, call, job, nextJobId, output>>

Is(p, role) == proc[p].state = "running" /\ proc[p].role = role

Write(p) ==
    /\ Is(p, "writer") /\ output > 0
    /\ \/ /\ ~Broken(pipe) /\ pipe.content < PipeSize
          /\ pipe' = Put(pipe) /\ output' = output - 1
          /\ UNCHANGED <<pc, call, proc, job, nextJobId>>
       \/ Broken(pipe) /\ Becomes(p, "signal") /\ pipe' = CloseBoth(pipe, p)

Read(p) ==
    /\ Is(p, "reader") /\ HasInput(pipe)
    /\ pipe' = Taken(pipe)
    /\ UNCHANGED <<pc, call, proc, job, nextJobId, output>>

(* A command the shell waits for comes to its end: at some time; when it has
   written everything; when it has read everything.                         *)
Finish(p) ==
    /\ \/ Is(p, "foreground")
       \/ Is(p, "writer") /\ output = 0
       \/ Is(p, "reader") /\ EndOfFile(pipe)
    /\ \E outcome \in {"ok", "fail"} : Becomes(p, outcome)
    /\ pipe' = CloseBoth(pipe, p)

(* Or it ends before: exec fails, it does not read on, or a signal ends it. *)
Stop(p) ==
    /\ proc[p].state \in {"starting", "running"}
    /\ \E outcome \in {"fail", "signal"} : Becomes(p, outcome)
    /\ pipe' = CloseBoth(pipe, p)

-----------------------------------------------------------------------------
AtPrompt == Background \/ InShell \/ Foreground \/ OpenPipe \/ Exit
            \/ \E op \in {"and", "or"} : handleAndOrCommands(op)

ShellStep == \/ Prompt \/ Second
             \/ \E p \in Pid : checkBackgroundJobs(p) \/ Waited(p)
             \/ ForkWriter \/ ForkReader \/ ClosePipe \/ WaitWriter \/ WaitReader

ChildStep(p) == SetUp(p) \/ Write(p) \/ Read(p) \/ Finish(p)

Exited == pc = "exited" /\ UNCHANGED vars

Next == AtPrompt \/ ShellStep \/ (\E p \in Pid : ChildStep(p) \/ Stop(p)) \/ Exited

(* The shell and its children are processes that the system schedules; a
   foreground command ends at some time.  Nothing is said of the user, nor of
   background jobs.                                                         *)
Spec == Init /\ [][Next]_vars
             /\ WF_vars(ShellStep) /\ \A p \in Pid : WF_vars(ChildStep(p))

-----------------------------------------------------------------------------
Jobs  == {k \in Running : job[k].backPid # NoPid}
Known == {p \in Pid : proc[p].state # "none" /\ proc[p].role = "background"}

(* The table and the children agree: a job's number is that of one background
   child, running or not yet reaped, never of another the system has given the
   number since, so that kill hits the job it names; and every background child
   is in one place.  Places taken after fork failed are left aside. *)
JobTableExact ==
    /\ \A k \in Jobs : job[k].backPid \in Known
    /\ \A p \in Known : \E k \in Jobs : \A l \in Jobs : job[l].backPid = p <=> l = k

(* The command after && follows one that ran and did not fail, the command after
   || one that failed, if only because a signal ended it.  A first command that
   did not run because fork failed is left aside: command returns 0 for it (line
   232) and && goes on, although line 190 promises 1, with which || would. *)
SecondFollowsFirst ==
    pc = "then" /\ call.outcome # "not run" =>
        \/ call.op = "and" /\ call.outcome \in {"ok", "builtin"}
        \/ call.op = "or"  /\ call.outcome \in {"fail", "signal"}

(* The shell comes back to its prompt after every line, whoever of the children
   of a pipe ends first and whether or not they read and write everything: no
   end of a pipe stays open that the other side waits for. *)
PromptReturns == []<>(pc \in {"read", "exited"})
=============================================================================
