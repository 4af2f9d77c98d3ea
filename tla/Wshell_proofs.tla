--------------------------- MODULE Wshell_proofs ---------------------------
(***************************************************************************)
(* Proofs about Wshell, for any number of process numbers and places.       *)
(***************************************************************************)
EXTENDS Wshell, WellFoundedInduction, TLAPS

(* What the shell waits for, or will wait for, is there and was not started in
   the background. *)
Owed(p, role) == p \in Pid /\ proc[p].state # "none" /\ proc[p].role = role

CallInv ==
    /\ pc = "wait" => Owed(call.first, "foreground")
    /\ pc \in {"fork2", "close", "wait1"} => Owed(call.first, "writer")
    /\ pc \in {"close", "wait1", "wait2"} => Owed(call.second, "reader")

Inv == TypeOK /\ CallInv /\ JobTableExact /\ SecondFollowsFirst

-----------------------------------------------------------------------------
(* Constants, places, children and pipes.                                   *)

LEMMA PidFacts == \A p \in Pid : p \in Nat /\ p # NoPid /\ p # Shell
BY ShellAssumption DEF NoPid, Shell

LessThan == {ss \in Nat \X Nat : ss[1] < ss[2]}

LEMMA FirstIn ==
    ASSUME NEW S \in SUBSET Place, S # {}
    PROVE  First(S) \in S
<1>1. Place \subseteq Nat
  BY ShellAssumption DEF Place
<1>2. \E k \in S : \A l \in S : k <= l
  <2>1. IsWellFoundedOn(LessThan, Nat)
    BY NatLessThanWellFounded, Zenon DEF LessThan, OpToRel
  <2>2. \E x \in S : \A y \in S : ~(<<y, x>> \in LessThan)
    BY <1>1, <2>1, WFMin
  <2>3. \A x \in S, y \in S : <<y, x>> \in LessThan <=> y < x
    BY <1>1 DEF LessThan
  <2>4. \A x \in S, y \in S : ~(y < x) => x <= y
    BY <1>1
  <2> QED BY <2>2, <2>3, <2>4
<1> QED BY <1>2 DEF First

LEMMA ChildKinds ==
    ASSUME NEW c \in Child
    PROVE  /\ c.state \in {"none", "starting", "running", "zombie"}
           /\ c.state = "none" <=> c = Free
           /\ c.state # "none" => c.role \in Role
           /\ c.state \in {"starting", "running"}
                => c \in [state : {"starting", "running"}, role : Role]
           /\ c.state = "zombie" /\ c.role # "foreground"
                => c \in [state : {"zombie"}, role : Role \ {"foreground"}]
           /\ c.state = "zombie" /\ c.role = "foreground"
                => c.outcome \in {"ok", "fail", "signal"}
<1>1. CASE c = Free
  BY <1>1 DEF Free
<1>2. CASE c \in [state : {"starting", "running"}, role : Role]
  BY <1>2 DEF Free
<1>3. CASE c \in [state : {"zombie"}, role : Role \ {"foreground"}]
  BY <1>3 DEF Free
<1>4. CASE c \in [state : {"zombie"}, role : {"foreground"},
                  outcome : {"ok", "fail", "signal"}]
  BY <1>4 DEF Free, Role
<1> QED BY <1>1, <1>2, <1>3, <1>4 DEF Child

LEMMA PipeTypes ==
    ASSUME TypeOK, NEW p \in Pid \cup {Shell}
    PROVE  /\ CloseRead(pipe, p) \in PipeState /\ CloseWrite(pipe, p) \in PipeState
           /\ CloseBoth(pipe, p) \in PipeState
           /\ Opened(p) \in PipeState /\ Close0 \in PipeState
           /\ \A q \in Pid : Inherited(pipe, Shell, q) \in PipeState
           /\ pipe.content < PipeSize => Put(pipe) \in PipeState
           /\ HasInput(pipe) => Taken(pipe) \in PipeState
<1>1. PipeSize \in Nat /\ pipe \in PipeState
  BY ShellAssumption DEF TypeOK
<1>2. /\ CloseRead(pipe, p) \in PipeState /\ CloseWrite(pipe, p) \in PipeState
      /\ CloseBoth(pipe, p) \in PipeState
  BY <1>1 DEF CloseRead, CloseWrite, CloseBoth, PipeState
<1>3. Opened(p) \in PipeState /\ Close0 \in PipeState
  BY <1>1 DEF Opened, Close0, PipeState
<1>4. \A q \in Pid : Inherited(pipe, Shell, q) \in PipeState
  BY <1>1 DEF Inherited, PipeState
<1>5. pipe.content < PipeSize => Put(pipe) \in PipeState
  BY <1>1 DEF Put, PipeState
<1>6. HasInput(pipe) => Taken(pipe) \in PipeState
  BY <1>1 DEF Taken, HasInput, PipeState
<1> QED BY <1>2, <1>3, <1>4, <1>5, <1>6

LEMMA PipeOver == Close0 \in PipeState /\ 0 \in 0 .. MaxOutput
BY ShellAssumption DEF Close0, PipeState

LEMMA CallTypes ==
    ASSUME NEW p \in Pid \cup {NoPid}, NEW op \in {"none", "and", "or"},
           NEW o \in {"none", "ok", "fail", "signal", "builtin", "not run"}
    PROVE  /\ Idle \in CallState /\ [first |-> p, second |-> NoPid, op |-> op, outcome |-> o]
                                      \in CallState
           /\ \A c \in CallState : [c EXCEPT !.first = p] \in CallState
           /\ \A c \in CallState : [c EXCEPT !.second = p] \in CallState
BY DEF Idle, CallState

-----------------------------------------------------------------------------
(* What each operation does to the children.                                *)

LEMMA ForkFacts ==
    ASSUME TypeOK, NEW p \in Unused, NEW role \in Role, NEW state \in {"starting", "running"},
           proc' = [proc EXCEPT ![p] = [state |-> state, role |-> role]]
    PROVE  /\ proc' \in [Pid -> Child] /\ Owed(p, role)' /\ p \notin Known
           /\ Known' = IF role = "background" THEN Known \cup {p} ELSE Known
           /\ \A q, r : q # p /\ Owed(q, r) => Owed(q, r)'
           /\ \A q, r : Owed(q, r) => q # p
<1>1. proc \in [Pid -> Child] /\ p \in Pid /\ proc[p].state = "none"
  BY DEF TypeOK, Unused
<1>2. [state |-> state, role |-> role] \in Child
  BY DEF Child
<1>3. proc' \in [Pid -> Child]
  BY <1>1, <1>2
<1>4. \A q \in Pid : proc'[q] = IF q = p THEN [state |-> state, role |-> role] ELSE proc[q]
  BY <1>1
<1> QED BY <1>1, <1>3, <1>4 DEF Owed, Known

LEMMA ReapFacts ==
    ASSUME TypeOK, NEW p \in Pid, Reaped(p)
    PROVE  /\ proc' \in [Pid -> Child]
           /\ Known' = Known \ {p}
           /\ \A q, r : q # p /\ Owed(q, r) => Owed(q, r)'
<1>1. proc \in [Pid -> Child] /\ Free \in Child
  BY DEF TypeOK, Child
<1>2. \A q \in Pid : proc'[q] = IF q = p THEN Free ELSE proc[q]
  BY <1>1 DEF Reaped
<1> QED BY <1>1, <1>2 DEF Owed, Known, Reaped, Free

LEMMA LooseFacts ==
    ASSUME TypeOK, NEW p \in Pid, proc[p].state # "none", proc[p].role # "foreground",
           proc' = [proc EXCEPT ![p].role = "loose"]
    PROVE  /\ proc' \in [Pid -> Child]
           /\ Known' = Known \ {p}
           /\ \A q, r : q # p /\ Owed(q, r) => Owed(q, r)'
<1>1. proc \in [Pid -> Child]
  BY DEF TypeOK
<1> DEFINE c == [proc[p] EXCEPT !.role = "loose"]
<1>2. c \in Child /\ c.state # "none" /\ c.role = "loose"
  <2>1. CASE proc[p] \in [state : {"starting", "running"}, role : Role]
    BY <2>1 DEF Child, Role
  <2>2. CASE proc[p] \in [state : {"zombie"}, role : Role \ {"foreground"}]
    BY <2>2 DEF Child, Role
  <2> QED BY <1>1, <2>1, <2>2, ChildKinds
<1>3. \A q \in Pid : proc'[q] = IF q = p THEN c ELSE proc[q]
  BY <1>1
<1>4. proc' \in [Pid -> Child]
  BY <1>1, <1>2
<1> HIDE DEF c
<1> QED BY <1>2, <1>3, <1>4 DEF Owed, Known

(* A child that goes on, or ends, stays what it is to the shell.            *)
LEMMA SameRoleFacts ==
    ASSUME TypeOK, NEW p \in Pid, NEW c \in Child,
           proc' = [proc EXCEPT ![p] = c],
           proc[p].state # "none", c.state # "none", c.role = proc[p].role
    PROVE  /\ proc' \in [Pid -> Child]
           /\ Known' = Known
           /\ \A q, r : Owed(q, r) => Owed(q, r)'
<1>1. proc \in [Pid -> Child]
  BY DEF TypeOK
<1>2. \A q \in Pid : proc'[q] = IF q = p THEN c ELSE proc[q]
  BY <1>1
<1> QED BY <1>1, <1>2 DEF Owed, Known

-----------------------------------------------------------------------------
(* What each operation does to the table.                                   *)

LEMMA NextNumber == TypeOK => findAvailableJobId \in 1 .. MaxJobs
<1> SUFFICES ASSUME TypeOK PROVE findAvailableJobId \in 1 .. MaxJobs
  OBVIOUS
<1>1. MaxJobs \in Nat \ {0}
  BY ShellAssumption
<1>2. nextJobId \in 0 .. MaxJobs
  BY DEF TypeOK
<1> QED BY <1>1, <1>2 DEF findAvailableJobId

LEMMA KeepTable ==
    ASSUME JobTableExact, job' = job, Known' = Known
    PROVE  JobTableExact'
BY DEF JobTableExact, Jobs, Running

LEMMA DropFromTable ==
    ASSUME TypeOK, JobTableExact, NEW k \in Jobs,
           job' = [job EXCEPT ![k] = NoJob], Known' = Known \ {job[k].backPid}
    PROVE  JobTableExact'
<1>1. job \in [Place -> {NoJob} \cup [backJobId : 1 .. MaxJobs,
                                       backPid : Pid \cup {NoPid}]]
  BY DEF TypeOK
<1>2. k \in Place
  BY DEF Jobs, Running
<1>3. \A l \in Place : job'[l] = IF l = k THEN NoJob ELSE job[l]
  BY <1>1
<1>4. Jobs' = Jobs \ {k}
  BY <1>2, <1>3 DEF Jobs, Running
<1>5. \A l \in Jobs : l # k => job'[l].backPid = job[l].backPid
  BY <1>3 DEF Jobs, Running
<1>6. \A l \in Jobs : job[l].backPid = job[k].backPid <=> l = k
  BY DEF JobTableExact
<1>7. \A l \in Jobs' : job'[l].backPid \in Known'
  BY <1>4, <1>5, <1>6 DEF JobTableExact
<1>8. ASSUME NEW p \in Known'
      PROVE  \E m \in Jobs' : \A l \in Jobs' : job'[l].backPid = p <=> l = m
  <2>1. PICK m \in Jobs : \A l \in Jobs : job[l].backPid = p <=> l = m
    BY DEF JobTableExact
  <2>2. m # k
    BY <2>1
  <2> QED BY <1>4, <1>5, <2>1, <2>2
<1> QED BY <1>7, <1>8 DEF JobTableExact

(* A place that is not taken holds a number for a new child, or for none.   *)
LEMMA AddToTable ==
    ASSUME TypeOK, JobTableExact, NEW p \in Pid \cup {NoPid}, p \notin Known,
           addBackgroundJob(p), Running # Place,
           Known' = IF p \in Pid THEN Known \cup {p} ELSE Known
    PROVE  JobTableExact'
<1>1. job \in [Place -> {NoJob} \cup [backJobId : 1 .. MaxJobs,
                                       backPid : Pid \cup {NoPid}]]
  BY DEF TypeOK
<1>2. FreePlace \in Place \ Running
  BY FirstIn DEF FreePlace, Running
<1> DEFINE k == FreePlace
<1>3. job' = [job EXCEPT ![k] = [backJobId |-> nextJobId', backPid |-> p]]
  BY DEF addBackgroundJob
<1>4. \A l \in Place : job'[l] = IF l = k THEN [backJobId |-> nextJobId', backPid |-> p]
                                  ELSE job[l]
  BY <1>1, <1>3
<1>5. k \in Place /\ job[k] = NoJob
  BY <1>2 DEF Running
<1>6. nextJobId' \in 1 .. MaxJobs
  BY NextNumber DEF addBackgroundJob
<1> HIDE DEF k
<1>7. Running' = Running \cup {k}
  BY <1>4, <1>5, <1>6 DEF Running, NoJob
<1>8. \A l \in Jobs : l # k /\ job'[l].backPid = job[l].backPid
  BY <1>4, <1>5 DEF Jobs, Running
<1>9. job'[k].backPid = p
  BY <1>4, <1>5
<1>10. CASE p = NoPid
  <2>1. Jobs' = Jobs /\ Known' = Known
    BY <1>4, <1>5, <1>7, <1>9, <1>10, PidFacts DEF Jobs, Running
  <2>2. \A l \in Jobs' : job'[l].backPid \in Known'
    BY <1>8, <2>1 DEF JobTableExact
  <2>3. ASSUME NEW q \in Known'
        PROVE  \E m \in Jobs' : \A l \in Jobs' : job'[l].backPid = q <=> l = m
    BY <1>8, <2>1 DEF JobTableExact
  <2> QED BY <2>2, <2>3 DEF JobTableExact
<1>11. CASE p \in Pid
  <2>1. Jobs' = Jobs \cup {k} /\ Known' = Known \cup {p}
    BY <1>4, <1>5, <1>7, <1>9, <1>11, PidFacts DEF Jobs, Running
  <2>2. \A l \in Jobs' : job'[l].backPid \in Known'
    BY <1>8, <1>9, <2>1 DEF JobTableExact
  <2>3. ASSUME NEW q \in Known'
        PROVE  \E m \in Jobs' : \A l \in Jobs' : job'[l].backPid = q <=> l = m
    <3>1. CASE q = p
      <4>1. \A l \in Jobs' : job'[l].backPid = q <=> l = k
        BY <1>8, <1>9, <2>1, <3>1 DEF JobTableExact
      <4> QED BY <2>1, <4>1
    <3>2. CASE q # p
      <4>1. q \in Known
        BY <2>1, <3>2
      <4>2. PICK m \in Jobs : \A l \in Jobs : job[l].backPid = q <=> l = m
        BY <4>1 DEF JobTableExact
      <4> QED BY <1>8, <1>9, <2>1, <3>2, <4>2
    <3> QED BY <3>1, <3>2
  <2> QED BY <2>2, <2>3 DEF JobTableExact
<1> QED BY <1>10, <1>11

LEMMA TableType ==
    ASSUME TypeOK, NEW p \in Pid \cup {NoPid}, addBackgroundJob(p)
    PROVE  /\ nextJobId' \in 0 .. MaxJobs
           /\ job' \in [Place -> {NoJob} \cup [backJobId : 1 .. MaxJobs,
                                               backPid : Pid \cup {NoPid}]]
<1>1. nextJobId' \in 1 .. MaxJobs
  BY NextNumber DEF addBackgroundJob
<1>2. [backJobId |-> nextJobId', backPid |-> p]
         \in [backJobId : 1 .. MaxJobs, backPid : Pid \cup {NoPid}]
  BY <1>1
<1>3. nextJobId' \in 0 .. MaxJobs
  BY <1>1, ShellAssumption
<1> QED BY <1>2, <1>3 DEF addBackgroundJob, TypeOK

(* kill: the child, running or not reaped yet, is no longer known, and it is
   none that the shell waits for. *)
LEMMA KillFacts ==
    ASSUME Inv, NEW id, Kill(id)
    PROVE  /\ proc' \in [Pid -> Child]
           /\ job' \in [Place -> {NoJob} \cup [backJobId : 1 .. MaxJobs,
                                               backPid : Pid \cup {NoPid}]]
           /\ JobTableExact'
<1> DEFINE places == {k \in Running : job[k].backJobId = id}
<1>1. CASE places = {}
  <2>1. UNCHANGED <<proc, job>>
    BY <1>1 DEF Kill
  <2>2. JobTableExact'
    BY <2>1, KeepTable DEF Inv, Known
  <2> QED BY <2>1, <2>2 DEF Inv, TypeOK
<1>2. CASE places # {}
  <2> DEFINE k == First(places)
  <2>1. k \in places /\ places \subseteq Place
    BY <1>2, FirstIn DEF Running
  <2>2. /\ job' = [job EXCEPT ![k] = NoJob]
        /\ proc' = IF job[k].backPid = NoPid THEN proc
                   ELSE [proc EXCEPT ![job[k].backPid].role = "loose"]
    BY <1>2 DEF Kill
  <2> HIDE DEF k
  <2>3. job' \in [Place -> {NoJob} \cup [backJobId : 1 .. MaxJobs,
                                         backPid : Pid \cup {NoPid}]]
    BY <2>2 DEF Inv, TypeOK
  <2>4. CASE job[k].backPid = NoPid
    <3>1. Jobs' = Jobs /\ k \notin Jobs /\ Known' = Known /\ proc' = proc
      BY <2>1, <2>2, <2>4 DEF Jobs, Running, Known, NoJob, Inv, TypeOK
    <3>2. \A l \in Jobs : job'[l] = job[l]
      BY <2>2, <3>1 DEF Jobs, Running, Inv, TypeOK
    <3>3. \A l \in Jobs' : job'[l].backPid \in Known'
      BY <3>1, <3>2 DEF Inv, JobTableExact
    <3>4. ASSUME NEW q \in Known'
          PROVE  \E m \in Jobs' : \A l \in Jobs' : job'[l].backPid = q <=> l = m
      BY <3>1, <3>2 DEF Inv, JobTableExact
    <3>5. JobTableExact'
      BY <3>3, <3>4 DEF JobTableExact
    <3> QED BY <2>3, <3>1, <3>5 DEF Inv, TypeOK
  <2>5. CASE job[k].backPid # NoPid
    <3> DEFINE p == job[k].backPid
    <3>1. k \in Jobs /\ p \in Known
      BY <2>1, <2>5 DEF Jobs, Inv, JobTableExact
    <3>2. /\ p \in Pid /\ proc[p].state # "none" /\ proc[p].role # "foreground"
      BY <3>1 DEF Known
    <3>3. proc' = [proc EXCEPT ![p].role = "loose"]
      BY <2>2, <2>5
    <3> HIDE DEF p
    <3>4. proc' \in [Pid -> Child] /\ Known' = Known \ {p}
      BY <3>2, <3>3, LooseFacts DEF Inv
    <3>5. JobTableExact'
      BY <2>2, <3>1, <3>4, DropFromTable DEF Inv, p
    <3> QED BY <2>3, <3>4, <3>5
  <2> QED BY <2>4, <2>5
<1> QED BY <1>1, <1>2

LEMMA BuiltinFacts ==
    ASSUME Inv, Builtin
    PROVE  /\ proc' \in [Pid -> Child]
           /\ job' \in [Place -> {NoJob} \cup [backJobId : 1 .. MaxJobs,
                                               backPid : Pid \cup {NoPid}]]
           /\ JobTableExact'
<1>1. CASE \E id \in 1 .. MaxJobs : Kill(id)
  BY <1>1, KillFacts
<1>2. CASE UNCHANGED <<proc, job>>
  <2>1. JobTableExact'
    BY <1>2, KeepTable DEF Inv, Known
  <2> QED BY <1>2, <2>1 DEF Inv, TypeOK
<1> QED BY <1>1, <1>2 DEF Builtin

-----------------------------------------------------------------------------
(* Every step keeps the invariant.                                          *)

(* Between commands, and between the two of a line, there is nobody to wait for. *)
LEMMA NobodyAwaited ==
    ASSUME TypeOK', JobTableExact',
           \/ pc' \in {"check", "read", "exited", "fork1"}
           \/ /\ pc' = "then"
              /\ \/ call'.op = "and" /\ call'.outcome \in {"ok", "builtin", "not run"}
                 \/ call'.op = "or"  /\ call'.outcome \in {"fail", "signal"}
    PROVE  Inv'
<1>1. CASE pc' \in {"check", "read", "exited", "fork1"}
  BY <1>1 DEF Inv, CallInv, SecondFollowsFirst
<1>2. CASE /\ pc' = "then"
           /\ \/ call'.op = "and" /\ call'.outcome \in {"ok", "builtin", "not run"}
              \/ call'.op = "or"  /\ call'.outcome \in {"fail", "signal"}
  <2>1. CallInv'
    BY <1>2 DEF CallInv
  <2>2. SecondFollowsFirst'
    BY <1>2 DEF SecondFollowsFirst
  <2> QED BY <2>1, <2>2 DEF Inv
<1> QED BY <1>1, <1>2

LEMMA BackgroundStep == ASSUME Inv, Background PROVE Inv'
<1>1. PICK p \in Unused \cup {NoPid} :
        /\ addBackgroundJob(p)
        /\ p \in Unused => Forked(p, IF Running = Place THEN "loose" ELSE "background")
        /\ p = NoPid => UNCHANGED proc
  BY PidFacts DEF Background, Unused
<1>2. pc' = "check" /\ UNCHANGED <<call, pipe, output>>
  BY DEF Background
<1> DEFINE role == IF Running = Place THEN "loose" ELSE "background"
<1>3. /\ proc' \in [Pid -> Child] /\ p \notin Known
      /\ Known' = IF p \in Pid /\ Running # Place THEN Known \cup {p} ELSE Known
  <2>1. CASE p = NoPid
    BY <1>1, <2>1, PidFacts DEF Inv, TypeOK, Known
  <2>2. CASE p \in Unused
    <3>1. role \in Role /\ proc' = [proc EXCEPT ![p] = [state |-> "running", role |-> role]]
      BY <1>1, <2>2 DEF Role, Forked
    <3>2. p \in Pid
      BY <2>2 DEF Unused
    <3>3. /\ proc' \in [Pid -> Child] /\ p \notin Known
          /\ Known' = IF role = "background" THEN Known \cup {p} ELSE Known
      BY <2>2, <3>1, ForkFacts DEF Inv
    <3> QED BY <3>2, <3>3
  <2> QED BY <2>1, <2>2
<1>4. p \in Pid \cup {NoPid}
  BY DEF Unused
<1>5. JobTableExact'
  <2>1. CASE Running = Place
    <3>1. job' = job
      BY <1>1, <2>1 DEF addBackgroundJob
    <3> QED BY <1>3, <2>1, <3>1, KeepTable DEF Inv
  <2>2. CASE Running # Place
    <3>1. Known' = IF p \in Pid THEN Known \cup {p} ELSE Known
      BY <1>3, <2>2
    <3> QED BY <1>1, <1>3, <1>4, <2>2, <3>1, AddToTable DEF Inv
  <2> QED BY <2>1, <2>2
<1>6. TypeOK'
  <2>1. /\ nextJobId' \in 0 .. MaxJobs
        /\ job' \in [Place -> {NoJob} \cup [backJobId : 1 .. MaxJobs,
                                            backPid : Pid \cup {NoPid}]]
    BY <1>1, <1>4, TableType DEF Inv
  <2> QED BY <1>2, <1>3, <2>1 DEF Inv, TypeOK
<1> QED BY <1>2, <1>5, <1>6, NobodyAwaited

LEMMA InShellStep == ASSUME Inv, InShell PROVE Inv'
<1>1. Builtin /\ pc' = "check" /\ UNCHANGED <<call, nextJobId, pipe, output>>
  BY DEF InShell
<1>2. TypeOK' /\ JobTableExact'
  BY <1>1, BuiltinFacts DEF Inv, TypeOK
<1> QED BY <1>1, <1>2, NobodyAwaited

LEMMA StartStep ==
    ASSUME Inv, NEW op \in {"none", "and", "or"}, Start(op),
           UNCHANGED <<nextJobId, pipe, output>>
    PROVE  Inv'
<1>1. CASE \E p \in Unused : /\ Forked(p, "foreground")
                             /\ call' = [Idle EXCEPT !.first = p, !.op = op]
                             /\ pc' = "wait"
                             /\ UNCHANGED job
  <2>1. PICK p \in Unused : /\ Forked(p, "foreground")
                            /\ call' = [Idle EXCEPT !.first = p, !.op = op]
                            /\ pc' = "wait"
                            /\ UNCHANGED job
    BY <1>1
  <2>2. proc' = [proc EXCEPT ![p] = [state |-> "running", role |-> "foreground"]]
        /\ "foreground" \in Role
    BY <2>1 DEF Forked, Role
  <2>3. proc' \in [Pid -> Child] /\ Owed(p, "foreground")' /\ Known' = Known
    BY <2>2, ForkFacts DEF Inv
  <2>4. call' = [first |-> p, second |-> NoPid, op |-> op, outcome |-> "none"]
    BY <2>1 DEF Idle
  <2>5. TypeOK'
    <3>1. p \in Pid
      BY DEF Unused
    <3>2. call' \in CallState
      BY <2>4, <3>1, CallTypes
    <3> QED BY <2>1, <2>3, <3>2 DEF Inv, TypeOK
  <2>6. JobTableExact'
    BY <2>1, <2>3, KeepTable DEF Inv
  <2> QED BY <2>1, <2>3, <2>4, <2>5, <2>6 DEF Inv, CallInv, SecondFollowsFirst
<1>2. CASE /\ UNCHANGED <<proc, job>>
           /\ IF op = "and" THEN pc' = "then" /\ call' = [Idle EXCEPT !.op = op,
                                                                 !.outcome = "not run"]
              ELSE pc' = "check" /\ call' = Idle
  <2>1. \/ pc' = "check" /\ call' = Idle
        \/ /\ pc' = "then" /\ op = "and"
           /\ call' = [first |-> NoPid, second |-> NoPid, op |-> op, outcome |-> "not run"]
    BY <1>2 DEF Idle
  <2> DEFINE c == [first |-> NoPid, second |-> NoPid, op |-> op, outcome |-> "not run"]
  <2>2. c \in CallState /\ c.op = op /\ c.outcome = "not run"
    BY CallTypes
  <2> HIDE DEF c
  <2>3. TypeOK'
    <3>1. call' \in CallState
      BY <2>1, <2>2, CallTypes
    <3> QED BY <1>2, <2>1, <3>1 DEF Inv, TypeOK
  <2>4. JobTableExact'
    BY <1>2, KeepTable DEF Inv, Known
  <2>5. CASE pc' = "check"
    BY <2>3, <2>4, <2>5, NobodyAwaited
  <2>6. CASE pc' = "then" /\ op = "and" /\ call' = c
    <3>1. call'.op = "and" /\ call'.outcome = "not run"
      BY <2>2, <2>6
    <3> QED BY <2>3, <2>4, <2>6, <3>1, NobodyAwaited
  <2> QED BY <2>1, <2>5, <2>6 DEF c
<1> QED BY <1>1, <1>2 DEF Start

LEMMA ForegroundStep == ASSUME Inv, Foreground PROVE Inv'
BY StartStep DEF Foreground

LEMMA AndOrStep ==
    ASSUME Inv, NEW op \in {"and", "or"}, handleAndOrCommands(op)
    PROVE  Inv'
<1>1. CASE Start(op)
  BY <1>1, StartStep DEF handleAndOrCommands
<1>2. CASE /\ Builtin
           /\ IF op = "and" THEN pc' = "then" /\ call' = [Idle EXCEPT !.op = op,
                                                                   !.outcome = "builtin"]
              ELSE pc' = "check" /\ UNCHANGED call
  <2>1. \/ pc' = "check" /\ UNCHANGED call
        \/ /\ pc' = "then"
           /\ call' = [first |-> NoPid, second |-> NoPid, op |-> "and", outcome |-> "builtin"]
    BY <1>2 DEF Idle
  <2>2. UNCHANGED <<nextJobId, pipe, output>>
    BY DEF handleAndOrCommands
  <2>3. TypeOK' /\ JobTableExact'
    <3>1. call' \in CallState
      BY <2>1, CallTypes DEF Inv, TypeOK
    <3> QED BY <1>2, <2>1, <2>2, <3>1, BuiltinFacts DEF Inv, TypeOK
  <2>4. \/ pc' = "check"
        \/ pc' = "then" /\ call'.op = "and" /\ call'.outcome = "builtin"
    BY <2>1
  <2> QED BY <2>3, <2>4, NobodyAwaited
<1> QED BY <1>1, <1>2 DEF handleAndOrCommands

LEMMA SecondStep == ASSUME Inv, Second PROVE Inv'
<1>1. CASE Start("none")
  BY <1>1, StartStep DEF Second
<1>2. CASE Builtin /\ pc' = "check" /\ call' = Idle
  <2>1. UNCHANGED <<nextJobId, pipe, output>>
    BY DEF Second
  <2>2. TypeOK' /\ JobTableExact'
    <3>1. call' \in CallState
      BY <1>2, CallTypes
    <3> QED BY <1>2, <2>1, <3>1, BuiltinFacts DEF Inv, TypeOK
  <2> QED BY <1>2, <2>2, NobodyAwaited
<1> QED BY <1>1, <1>2 DEF Second

LEMMA PromptStep == ASSUME Inv, Prompt \/ Exit PROVE Inv'
<1>1. pc' \in {"read", "exited"} /\ UNCHANGED <<call, proc, job, nextJobId, pipe, output>>
  BY DEF Prompt, Exit
<1>2. TypeOK'
  BY <1>1 DEF Inv, TypeOK
<1>3. JobTableExact'
  BY <1>1, KeepTable DEF Inv, Known
<1> QED BY <1>1, <1>2, <1>3, NobodyAwaited

LEMMA OpenPipeStep == ASSUME Inv, OpenPipe PROVE Inv'
<1>1. pc' = "fork1" /\ pipe' = Opened(Shell) /\ output' \in 0 .. MaxOutput
      /\ UNCHANGED <<call, proc, job, nextJobId>>
  BY DEF OpenPipe
<1>2. TypeOK'
  BY <1>1, PipeTypes DEF Inv, TypeOK
<1>3. JobTableExact'
  BY <1>1, KeepTable DEF Inv, Known
<1> QED BY <1>1, <1>2, <1>3, NobodyAwaited

(* The child that is reaped is a job's, whose place is given up, or none's.  *)
LEMMA CheckStep ==
    ASSUME Inv, NEW p \in Pid, checkBackgroundJobs(p)
    PROVE  Inv'
<1> DEFINE places == {k \in Running : job[k].backPid = p}
<1>1. /\ pc = "check" /\ Reaped(p)
      /\ job' = IF places = {} THEN job ELSE [job EXCEPT ![First(places)] = NoJob]
      /\ UNCHANGED <<pc, call, nextJobId, pipe, output>>
  BY DEF checkBackgroundJobs
<1>2. proc' \in [Pid -> Child] /\ Known' = Known \ {p}
  BY <1>1, ReapFacts DEF Inv
<1>3. places = {k \in Jobs : job[k].backPid = p}
  BY PidFacts DEF Jobs
<1>4. CASE places = {}
  <2>1. p \notin Known
    BY <1>3, <1>4 DEF Inv, JobTableExact
  <2>2. job' = job /\ Known' = Known
    BY <1>1, <1>2, <1>4, <2>1
  <2>3. TypeOK'
    BY <1>1, <1>2, <2>2 DEF Inv, TypeOK
  <2> QED BY <1>1, <2>2, <2>3, KeepTable, NobodyAwaited DEF Inv
<1>5. CASE places # {}
  <2> DEFINE k == First(places)
  <2>1. k \in places
    BY <1>5, FirstIn DEF Running
  <2>2. k \in Jobs /\ job[k].backPid = p
    BY <1>3, <2>1
  <2>3. job' = [job EXCEPT ![k] = NoJob]
    BY <1>1, <1>5
  <2> HIDE DEF k
  <2>4. JobTableExact'
    BY <1>2, <2>2, <2>3, DropFromTable DEF Inv
  <2>5. TypeOK'
    BY <1>1, <1>2, <2>3 DEF Inv, TypeOK
  <2> QED BY <1>1, <2>4, <2>5, NobodyAwaited DEF Inv
<1> QED BY <1>4, <1>5

(* The command that has ended was the first of the line, or all of it.       *)
LEMMA WaitedStep ==
    ASSUME Inv, NEW p \in Pid, Waited(p)
    PROVE  Inv'
<1> DEFINE outcome == proc[p].outcome
<1>1. /\ pc = "wait" /\ p = call.first /\ proc[p].state = "zombie" /\ Reaped(p)
      /\ UNCHANGED <<job, nextJobId, pipe, output>>
  BY DEF Waited, Zombie
<1>2. proc[p].role = "foreground" /\ proc[p] \in Child
  BY <1>1 DEF Inv, CallInv, Owed, TypeOK
<1>3. outcome \in {"ok", "fail", "signal"}
  BY <1>1, <1>2, ChildKinds
<1>4. proc' \in [Pid -> Child] /\ Known' = Known
  BY <1>1, <1>2, ReapFacts DEF Inv, Known
<1>5. JobTableExact'
  BY <1>1, <1>4, KeepTable DEF Inv
<1>6. CASE RunsSecond(call.op, CommandStatus(outcome))
  <2>1. pc' = "then" /\ call' = [call EXCEPT !.first = NoPid, !.outcome = outcome]
    BY <1>6 DEF Waited
  <2>2. call \in CallState
    BY DEF Inv, TypeOK
  <2> HIDE DEF outcome
  <2>3. call' = [first |-> NoPid, second |-> call.second, op |-> call.op, outcome |-> outcome]
    BY <2>1, <2>2 DEF CallState
  <2>4. call' \in CallState
    BY <1>3, <2>2, <2>3 DEF CallState
  <2>5. TypeOK'
    BY <1>1, <1>4, <2>1, <2>4 DEF Inv, TypeOK
  <2>6. call'.op = call.op /\ call'.outcome = outcome
    BY <2>3
  <2>7. \/ call.op = "and" /\ outcome = "ok"
        \/ call.op = "or" /\ outcome \in {"fail", "signal"}
    BY <1>3, <1>6 DEF RunsSecond, CommandStatus
  <2> QED BY <1>5, <2>1, <2>5, <2>6, <2>7, NobodyAwaited
<1>7. CASE ~ RunsSecond(call.op, CommandStatus(outcome))
  <2>1. pc' = "check" /\ call' = Idle
    BY <1>7 DEF Waited
  <2>2. TypeOK'
    BY <1>1, <1>4, <2>1, CallTypes DEF Inv, TypeOK
  <2> QED BY <1>5, <2>1, <2>2, NobodyAwaited
<1> QED BY <1>6, <1>7

LEMMA ForkWriterStep == ASSUME Inv, ForkWriter PROVE Inv'
<1>1. UNCHANGED <<job, nextJobId>>
  BY DEF ForkWriter
<1>2. ASSUME NEW p \in Unused, Starting(p, "writer"), call' = [call EXCEPT !.first = p],
             pc' = "fork2", UNCHANGED output
      PROVE  Inv'
  <2>1. /\ proc' = [proc EXCEPT ![p] = [state |-> "starting", role |-> "writer"]]
        /\ "writer" \in Role /\ p \in Pid
    BY <1>2 DEF Starting, Role, Unused
  <2>2. proc' \in [Pid -> Child] /\ Owed(p, "writer")' /\ Known' = Known
    BY <2>1, ForkFacts DEF Inv
  <2>3. pipe' \in PipeState
    BY <1>2, <2>1, PipeTypes DEF Starting, Inv
  <2>4. call' \in CallState /\ call'.first = p
    BY <1>2, <2>1 DEF Inv, TypeOK, CallState
  <2>5. TypeOK'
    BY <1>1, <1>2, <2>2, <2>3, <2>4 DEF Inv, TypeOK
  <2>6. JobTableExact'
    BY <1>1, <2>2, KeepTable DEF Inv
  <2> QED BY <1>2, <2>2, <2>4, <2>5, <2>6 DEF Inv, CallInv, SecondFollowsFirst
<1>3. CASE /\ pc' = "check" /\ pipe' = Close0 /\ output' = 0
           /\ UNCHANGED <<call, proc>>
  <2>1. TypeOK'
    BY <1>1, <1>3, PipeOver DEF Inv, TypeOK
  <2>2. JobTableExact'
    BY <1>1, <1>3, KeepTable DEF Inv, Known
  <2> QED BY <1>3, <2>1, <2>2, NobodyAwaited
<1> QED BY <1>2, <1>3 DEF ForkWriter

LEMMA ForkReaderStep == ASSUME Inv, ForkReader PROVE Inv'
<1>1. pc = "fork2" /\ UNCHANGED <<job, nextJobId>>
  BY DEF ForkReader
<1>2. Owed(call.first, "writer")
  BY <1>1 DEF Inv, CallInv
<1>3. ASSUME NEW p \in Unused, Starting(p, "reader"), call' = [call EXCEPT !.second = p],
             pc' = "close", UNCHANGED output
      PROVE  Inv'
  <2>1. /\ proc' = [proc EXCEPT ![p] = [state |-> "starting", role |-> "reader"]]
        /\ "reader" \in Role /\ p \in Pid
    BY <1>3 DEF Starting, Role, Unused
  <2>2. /\ proc' \in [Pid -> Child] /\ Owed(p, "reader")' /\ Known' = Known
        /\ Owed(call.first, "writer")'
    <3>1. PICK q : q = call.first
      OBVIOUS
    <3>2. Owed(q, "writer") /\ q # p
      BY <1>2, <2>1, <3>1, ForkFacts DEF Inv
    <3>3. Owed(q, "writer")'
      BY <2>1, <3>2, ForkFacts DEF Inv
    <3>4. call'.first = q
      BY <1>3, <3>1 DEF Inv, TypeOK, CallState
    <3>5. Owed(call.first, "writer")'
      BY <3>3, <3>4 DEF Owed
    <3> QED BY <2>1, <3>5, ForkFacts DEF Inv
  <2>3. pipe' \in PipeState
    BY <1>3, <2>1, PipeTypes DEF Starting, Inv
  <2>4. call' \in CallState /\ call'.second = p
    BY <1>3, <2>1 DEF Inv, TypeOK, CallState
  <2>5. TypeOK'
    BY <1>1, <1>3, <2>2, <2>3, <2>4 DEF Inv, TypeOK
  <2>6. JobTableExact'
    BY <1>1, <2>2, KeepTable DEF Inv
  <2> QED BY <1>3, <2>2, <2>4, <2>5, <2>6 DEF Inv, CallInv, SecondFollowsFirst
<1>4. CASE /\ proc' = [proc EXCEPT ![call.first].role = "loose"]
           /\ call' = Idle
           /\ pc' = "check" /\ pipe' = Close0 /\ output' = 0
  <2>1. proc' \in [Pid -> Child] /\ Known' = Known
    BY <1>2, <1>4, LooseFacts DEF Inv, Owed, Known
  <2>2. TypeOK'
    BY <1>1, <1>4, <2>1, PipeOver, CallTypes DEF Inv, TypeOK
  <2>3. JobTableExact'
    BY <1>1, <2>1, KeepTable DEF Inv
  <2> QED BY <1>4, <2>2, <2>3, NobodyAwaited
<1> QED BY <1>3, <1>4 DEF ForkReader

LEMMA ClosePipeStep == ASSUME Inv, ClosePipe PROVE Inv'
<1>1. /\ pc = "close" /\ pc' = "wait1" /\ pipe' = CloseBoth(pipe, Shell)
      /\ UNCHANGED <<call, proc, job, nextJobId, output>>
  BY DEF ClosePipe, CloseEnds
<1>2. TypeOK'
  BY <1>1, PipeTypes DEF Inv, TypeOK
<1>3. JobTableExact'
  BY <1>1, KeepTable DEF Inv, Known
<1> QED BY <1>1, <1>2, <1>3 DEF Inv, CallInv, SecondFollowsFirst, Owed

LEMMA WaitWriterStep == ASSUME Inv, WaitWriter PROVE Inv'
<1>1. /\ pc = "wait1" /\ pc' = "wait2" /\ Reaped(call.first)
      /\ UNCHANGED <<call, job, nextJobId, pipe, output>>
  BY DEF WaitWriter
<1>2. Owed(call.first, "writer") /\ Owed(call.second, "reader")
  BY <1>1 DEF Inv, CallInv
<1>3. call.first \in Pid /\ call.first # call.second /\ call.first \notin Known
  BY <1>2 DEF Owed, Known
<1>4. /\ proc' \in [Pid -> Child] /\ Known' = Known /\ Owed(call.second, "reader")'
  <2>1. \A r : Owed(call.second, r) => proc'[call.second] = proc[call.second]
    BY <1>1, <1>3 DEF Inv, TypeOK, Reaped, Owed
  <2>2. Owed(call.second, "reader")'
    BY <1>1, <1>2, <2>1 DEF Owed
  <2> QED BY <1>1, <1>3, <2>2, ReapFacts DEF Inv
<1>5. TypeOK'
  BY <1>1, <1>4 DEF Inv, TypeOK
<1>6. JobTableExact'
  BY <1>1, <1>4, KeepTable DEF Inv
<1> QED BY <1>1, <1>4, <1>5, <1>6 DEF Inv, CallInv, SecondFollowsFirst

LEMMA WaitReaderStep == ASSUME Inv, WaitReader PROVE Inv'
<1>1. /\ pc = "wait2" /\ Reaped(call.second)
      /\ pc' = "check" /\ call' = Idle /\ pipe' = Close0 /\ output' = 0
      /\ UNCHANGED <<job, nextJobId>>
  BY DEF WaitReader
<1>2. Owed(call.second, "reader")
  BY <1>1 DEF Inv, CallInv
<1>3. proc' \in [Pid -> Child] /\ Known' = Known
  BY <1>1, <1>2, ReapFacts DEF Inv, Owed, Known
<1>4. TypeOK'
  BY <1>1, <1>3, PipeOver, CallTypes DEF Inv, TypeOK
<1>5. JobTableExact'
  BY <1>1, <1>3, KeepTable DEF Inv
<1> QED BY <1>1, <1>4, <1>5, NobodyAwaited

-----------------------------------------------------------------------------
(* The children.                                                            *)

(* Nothing but the state of a child that is there changes, and the pipe.    *)
LEMMA ChildStepKeeps ==
    ASSUME Inv, NEW p \in Pid, NEW c \in Child, proc' = [proc EXCEPT ![p] = c],
           proc[p].state # "none", c.state # "none", c.role = proc[p].role,
           pipe' \in PipeState, UNCHANGED <<pc, call, job, nextJobId, output>>
    PROVE  Inv'
<1>1. /\ proc' \in [Pid -> Child] /\ Known' = Known
      /\ \A q, r : Owed(q, r) => Owed(q, r)'
  BY SameRoleFacts DEF Inv
<1>2. TypeOK'
  BY <1>1 DEF Inv, TypeOK
<1>3. JobTableExact'
  BY <1>1, KeepTable DEF Inv
<1>4. PICK f, s : f = call.first /\ s = call.second
  OBVIOUS
<1>5. /\ pc' = "wait" => Owed(f, "foreground")'
      /\ pc' \in {"fork2", "close", "wait1"} => Owed(f, "writer")'
      /\ pc' \in {"close", "wait1", "wait2"} => Owed(s, "reader")'
  BY <1>1, <1>4 DEF Inv, CallInv
<1>6. CallInv'
  BY <1>4, <1>5 DEF CallInv, Owed
<1>7. SecondFollowsFirst'
  BY DEF Inv, SecondFollowsFirst
<1> QED BY <1>2, <1>3, <1>6, <1>7 DEF Inv

(* A child that ends. *)
LEMMA BecomesStep ==
    ASSUME Inv, NEW p \in Pid, proc[p].state # "none",
           NEW outcome \in {"ok", "fail", "signal"}, Becomes(p, outcome),
           pipe' = CloseBoth(pipe, p)
    PROVE  Inv'
<1> DEFINE c == IF proc[p].role = "foreground"
                THEN [state |-> "zombie", role |-> proc[p].role, outcome |-> outcome]
                ELSE [state |-> "zombie", role |-> proc[p].role]
<1>1. proc[p] \in Child /\ proc[p].role \in Role
  BY ChildKinds DEF Inv, TypeOK
<1>2. c \in Child /\ c.state = "zombie" /\ c.role = proc[p].role
  <2>1. CASE proc[p].role = "foreground"
    BY <2>1 DEF Child
  <2>2. CASE proc[p].role # "foreground"
    BY <1>1, <2>2 DEF Child
  <2> QED BY <2>1, <2>2
<1>3. proc' = [proc EXCEPT ![p] = c] /\ UNCHANGED <<pc, call, job, nextJobId, output>>
  BY DEF Becomes, Inv, TypeOK
<1>4. pipe' \in PipeState
  BY PipeTypes DEF Inv
<1> HIDE DEF c
<1> QED BY <1>2, <1>3, <1>4, ChildStepKeeps

LEMMA SetUpStep ==
    ASSUME Inv, NEW p \in Pid, SetUp(p)
    PROVE  Inv'
<1> DEFINE c == [state |-> "running", role |-> proc[p].role]
<1>1. proc[p].state = "starting" /\ UNCHANGED <<pc, call, job, nextJobId, output>>
      /\ proc' = [proc EXCEPT ![p].state = "running"]
  BY DEF SetUp
<1>2. proc[p] \in [state : {"starting", "running"}, role : Role]
  BY <1>1, ChildKinds DEF Inv, TypeOK
<1>3. c \in Child /\ c.state = "running" /\ c.role = proc[p].role
  BY <1>2 DEF Child
<1>4. [proc[p] EXCEPT !.state = "running"] = c
  BY <1>2
<1>5. proc' = [proc EXCEPT ![p] = c]
  BY <1>1, <1>4 DEF Inv, TypeOK
<1>6. pipe' \in PipeState
  BY PipeTypes DEF Inv, SetUp
<1> HIDE DEF c
<1> QED BY <1>1, <1>3, <1>5, <1>6, ChildStepKeeps

LEMMA WriteStep ==
    ASSUME Inv, NEW p \in Pid, Write(p)
    PROVE  Inv'
<1>1. CASE /\ ~Broken(pipe) /\ pipe.content < PipeSize
           /\ pipe' = Put(pipe) /\ output' = output - 1
           /\ UNCHANGED <<pc, call, proc, job, nextJobId>>
  <2>1. pipe' \in PipeState
    BY <1>1, PipeTypes DEF Inv
  <2>2. output' \in 0 .. MaxOutput
    BY <1>1, ShellAssumption DEF Write, Inv, TypeOK
  <2>3. TypeOK'
    BY <1>1, <2>1, <2>2 DEF Inv, TypeOK
  <2>4. JobTableExact'
    BY <1>1, KeepTable DEF Inv, Known
  <2> QED BY <1>1, <2>3, <2>4 DEF Inv, CallInv, SecondFollowsFirst, Owed
<1>2. CASE Broken(pipe) /\ Becomes(p, "signal") /\ pipe' = CloseBoth(pipe, p)
  BY <1>2, BecomesStep DEF Write, Is
<1> QED BY <1>1, <1>2 DEF Write

LEMMA ReadStep ==
    ASSUME Inv, NEW p \in Pid, Read(p)
    PROVE  Inv'
<1>1. HasInput(pipe) /\ pipe' = Taken(pipe)
      /\ UNCHANGED <<pc, call, proc, job, nextJobId, output>>
  BY DEF Read
<1>2. pipe' \in PipeState
  BY <1>1, PipeTypes DEF Inv
<1>3. TypeOK'
  BY <1>1, <1>2 DEF Inv, TypeOK
<1>4. JobTableExact'
  BY <1>1, KeepTable DEF Inv, Known
<1> QED BY <1>1, <1>3, <1>4 DEF Inv, CallInv, SecondFollowsFirst, Owed

LEMMA FinishStep ==
    ASSUME Inv, NEW p \in Pid, Finish(p) \/ Stop(p)
    PROVE  Inv'
<1>1. /\ proc[p].state # "none" /\ pipe' = CloseBoth(pipe, p)
      /\ \E outcome \in {"ok", "fail", "signal"} : Becomes(p, outcome)
  BY DEF Finish, Stop, Is
<1> QED BY <1>1, BecomesStep

-----------------------------------------------------------------------------
LEMMA InitInv == Init => Inv
<1> SUFFICES ASSUME Init PROVE Inv
  OBVIOUS
<1>1. TypeOK
  <2>1. Free \in Child /\ 0 \in 0 .. MaxJobs
    BY ShellAssumption DEF Child
  <2>2. NoPid \in Pid \cup {NoPid}
    OBVIOUS
  <2> QED BY <2>1, <2>2, PipeOver, CallTypes DEF Init, TypeOK
<1>2. JobTableExact
  BY DEF Init, JobTableExact, Jobs, Known, Running, Free
<1> QED BY <1>1, <1>2 DEF Init, Inv, CallInv, SecondFollowsFirst

LEMMA NextInv == Inv /\ [Next]_vars => Inv'
<1> SUFFICES ASSUME Inv, [Next]_vars PROVE Inv'
  OBVIOUS
<1>1. ASSUME AtPrompt PROVE Inv'
  BY <1>1, BackgroundStep, InShellStep, ForegroundStep, OpenPipeStep, PromptStep, AndOrStep
     DEF AtPrompt
<1>2. ASSUME ShellStep PROVE Inv'
  BY <1>2, PromptStep, SecondStep, CheckStep, WaitedStep, ForkWriterStep, ForkReaderStep,
     ClosePipeStep, WaitWriterStep, WaitReaderStep DEF ShellStep
<1>3. ASSUME NEW p \in Pid, ChildStep(p) \/ Stop(p) PROVE Inv'
  BY <1>3, SetUpStep, WriteStep, ReadStep, FinishStep DEF ChildStep
<1>4. ASSUME UNCHANGED vars PROVE Inv'
  <2>1. JobTableExact'
    BY <1>4, KeepTable DEF Inv, Known, vars
  <2>2. TypeOK'
    BY <1>4 DEF Inv, TypeOK, vars
  <2>3. CallInv' /\ SecondFollowsFirst'
    BY <1>4 DEF Inv, CallInv, SecondFollowsFirst, Owed, vars
  <2> QED BY <2>1, <2>2, <2>3 DEF Inv
<1> QED BY <1>1, <1>2, <1>3, <1>4 DEF Next, Exited

LEMMA Invariance == Spec => []Inv
BY InitInv, NextInv, PTL DEF Spec

(* The shell's variables stay what their declarations say: the numbers of jobs
   within 255, what a pipe holds within its size. *)
THEOREM TypeCorrect == Spec => []TypeOK
<1>1. Inv => TypeOK
  BY DEF Inv
<1> QED BY <1>1, Invariance, PTL

(* Whatever the order in which children end, are reaped and are killed, and
   however often the system uses a process number again, the table of jobs has
   each background child in one place and no number of another child: of kill
   and of checkBackgroundJobs, for any number of places and of processes. *)
THEOREM TableExact == Spec => []JobTableExact
<1>1. Inv => JobTableExact
  BY DEF Inv
<1> QED BY <1>1, Invariance, PTL

(* handleAndOrCommands: of a first command that has run, && waits for success
   and || for failure, a signal included.  It says nothing of a first command
   for which fork failed: there && goes on. *)
THEOREM SecondCorrect == Spec => []SecondFollowsFirst
<1>1. Inv => SecondFollowsFirst
  BY DEF Inv
<1> QED BY <1>1, Invariance, PTL
=============================================================================
