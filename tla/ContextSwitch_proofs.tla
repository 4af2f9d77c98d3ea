------------------------ MODULE ContextSwitch_proofs ------------------------
(***************************************************************************)
(* Proofs about ContextSwitch, for any number of rounds.                    *)
(***************************************************************************)
EXTENDS ContextSwitch, TLAPS

(* There is one byte, and it is with one of the two or in one of the pipes.
   Until the parent has sent it, and once a process has ended, it is nowhere the
   other could take it from. *)
Nowhere == p_2_c.content = 0 /\ c_2_p.content = 0 /\ pc["child"] # "write"

ByteInv ==
    /\ pc["parent"] \in {"pipe", "fork", "affinity", "close", "write"}
         => Nowhere /\ i["child"] = i["parent"]
    /\ pc["parent"] = "read" =>
         /\ p_2_c.content = 1 => c_2_p.content = 0 /\ pc["child"] # "write"
         /\ pc["child"] = "write" => c_2_p.content = 0
         /\ i["child"] = i["parent"] + c_2_p.content
    /\ pc["parent"] = "failed" => Nowhere \/ pc["child"] \in Over

(* How far each has come is known from where it is. *)
RoundInv ==
    /\ pc["parent"] \notin {"exit", "none"}
    /\ pc["parent"] \in {"wait", "done"} => i["parent"] = NUM_ITERATIONS
    /\ pc["parent"] = "done" => pc["child"] \in Over
    /\ IF pc["child"] \in {"exit", "done"} THEN i["child"] = NUM_ITERATIONS
       ELSE i["child"] < NUM_ITERATIONS

(* The child keeps its ends as long as it runs, and gets them from a parent that
   has both. *)
EndsInv ==
    /\ pc["parent"] \in {"pipe", "fork"} => pc["child"] = "none"
    /\ pc["parent"] = "fork" => /\ "parent" \in p_2_c.readers /\ "parent" \in p_2_c.writers
                                /\ "parent" \in c_2_p.readers /\ "parent" \in c_2_p.writers
    /\ pc["child"] \notin Over => "child" \in p_2_c.readers /\ "child" \in c_2_p.writers

Inv == TypeOK /\ RoundsInStep /\ ByteInv /\ RoundInv /\ EndsInv

-----------------------------------------------------------------------------
(* What the calls do to a pipe.                                             *)

LEMMA OpenFacts ==
    ASSUME NEW p \in Proc
    PROVE  /\ Opened(p) \in PipeState /\ Opened(p).content = 0
           /\ Opened(p).readers = {p} /\ Opened(p).writers = {p}
BY DEF Opened, PipeState

LEMMA InheritFacts ==
    ASSUME NEW q \in PipeState, "parent" \in q.readers, "parent" \in q.writers
    PROVE  LET r == Inherited(q, "parent", "child")
           IN  /\ r \in PipeState /\ r.content = q.content
               /\ "child" \in r.readers /\ "child" \in r.writers
BY DEF Inherited, PipeState, Proc

LEMMA CloseFacts ==
    ASSUME NEW q \in PipeState, NEW p \in Proc
    PROVE  /\ CloseRead(q, p) \in PipeState /\ CloseRead(q, p).content = q.content
           /\ CloseRead(q, p).readers = q.readers \ {p} /\ CloseRead(q, p).writers = q.writers
           /\ CloseWrite(q, p) \in PipeState /\ CloseWrite(q, p).content = q.content
           /\ CloseWrite(q, p).readers = q.readers
           /\ CloseWrite(q, p).writers = q.writers \ {p}
BY DEF CloseRead, CloseWrite, PipeState

LEMMA EndFacts ==
    ASSUME NEW q \in PipeState, NEW p \in Proc
    PROVE  /\ CloseBoth(q, p) \in PipeState /\ CloseBoth(q, p).content = q.content
           /\ CloseBoth(q, p).readers = q.readers \ {p}
           /\ CloseBoth(q, p).writers = q.writers \ {p}
BY CloseFacts DEF CloseBoth

LEMMA ByteFacts ==
    ASSUME NEW q \in PipeState
    PROVE  /\ q.content \in {0, 1}
           /\ q.content = 0 => /\ Put(q) \in PipeState /\ Put(q).content = 1
                               /\ Put(q).readers = q.readers /\ Put(q).writers = q.writers
           /\ HasInput(q) => /\ q.content = 1
                             /\ Taken(q) \in PipeState /\ Taken(q).content = 0
                             /\ Taken(q).readers = q.readers /\ Taken(q).writers = q.writers
BY DEF Put, Taken, HasInput, PipeState

LEMMA GotoFacts ==
    ASSUME TypeOK, NEW p \in Proc, NEW where, Goto(p, where)
    PROVE  \A q \in Proc : pc'[q] = IF q = p THEN where ELSE pc[q]
BY DEF TypeOK, Goto

-----------------------------------------------------------------------------
(* Every step keeps the invariant.                                          *)

LEMMA InitInv == Init => Inv
BY IterationsAssumption
   DEF Init, Inv, TypeOK, RoundsInStep, ByteInv, Nowhere, RoundInv, EndsInv, Proc, Over,
       PipeState

(* A process that ends does no harm to the other: the parent before it has sent
   the byte or when the child has ended; the child at any time. *)
LEMMA EndsStep ==
    ASSUME Inv, NEW p \in Proc, NEW how \in {"done", "failed"}, Ends(p, how),
           pc[p] \notin Over,
           p = "parent" /\ how = "failed" => Nowhere \/ pc["child"] \in Over,
           p = "parent" /\ how = "done" => pc["parent"] = "wait" /\ pc["child"] \in Over,
           p = "child"  => (how = "done" <=> pc["child"] = "exit")
    PROVE  Inv'
<1>1. /\ p_2_c' \in PipeState /\ p_2_c'.content = p_2_c.content
      /\ p_2_c'.readers = p_2_c.readers \ {p} /\ p_2_c'.writers = p_2_c.writers \ {p}
  BY EndFacts DEF Ends, Inv, TypeOK
<1>2. /\ c_2_p' \in PipeState /\ c_2_p'.content = c_2_p.content
      /\ c_2_p'.readers = c_2_p.readers \ {p} /\ c_2_p'.writers = c_2_p.writers \ {p}
  BY EndFacts DEF Ends, Inv, TypeOK
<1>3. \A q \in Proc : pc'[q] = IF q = p THEN how ELSE pc[q]
  BY GotoFacts DEF Ends, Inv
<1>4. i' = i
  BY DEF Ends
<1>5. TypeOK'
  BY <1>1, <1>2, <1>4 DEF Ends, Goto, Inv, TypeOK, Over
<1>6. CASE p = "parent"
  <2>1. pc'["parent"] = how /\ pc'["child"] = pc["child"]
    BY <1>3, <1>6 DEF Proc
  <2>2. RoundsInStep'
    BY <1>4, <1>6, <2>1 DEF Inv, RoundsInStep, RoundInv, Over, TypeOK, Proc
  <2>3. ByteInv'
    BY <1>1, <1>2, <1>6, <2>1 DEF ByteInv, Nowhere, Over
  <2>4. RoundInv'
    BY <1>4, <1>6, <2>1 DEF Inv, RoundInv
  <2>5. EndsInv'
    BY <1>1, <1>2, <1>6, <2>1 DEF Inv, EndsInv
  <2> QED BY <1>5, <2>2, <2>3, <2>4, <2>5 DEF Inv
<1>7. CASE p = "child"
  <2>1. pc'["child"] = how /\ pc'["parent"] = pc["parent"]
    BY <1>3, <1>7 DEF Proc
  <2>2. RoundsInStep'
    BY <1>4, <1>7, <2>1 DEF Inv, RoundsInStep, RoundInv, Over
  <2>3. ByteInv'
    BY <1>1, <1>2, <1>4, <2>1 DEF Inv, ByteInv, Nowhere, Over
  <2>4. RoundInv'
    BY <1>4, <1>7, <2>1 DEF Inv, RoundInv, Over
  <2>5. EndsInv'
    BY <1>1, <1>2, <1>7, <2>1 DEF Inv, EndsInv, Over
  <2> QED BY <1>5, <2>2, <2>3, <2>4, <2>5 DEF Inv
<1> QED BY <1>6, <1>7 DEF Proc

(* A call fails, and the process with it. *)
LEMMA FailStep ==
    ASSUME Inv, NEW p \in Proc, Ends(p, "failed"), pc[p] \notin Over, pc[p] # "exit",
           p = "parent" => Nowhere \/ pc["child"] \in Over
    PROVE  Inv'
<1>1. CASE p = "parent"
  <2>1. Ends("parent", "failed") /\ pc["parent"] \notin Over /\ "parent" \in Proc
    BY <1>1
  <2>2. Nowhere \/ pc["child"] \in Over
    BY <1>1
  <2> QED BY <2>1, <2>2, EndsStep
<1>2. CASE p = "child"
  <2>1. Ends("child", "failed") /\ pc["child"] \notin Over /\ "child" \in Proc
    BY <1>2
  <2>2. pc["child"] # "exit"
    BY <1>2
  <2> QED BY <2>1, <2>2, EndsStep DEF Nowhere
<1> QED BY <1>1, <1>2 DEF Proc

LEMMA pipeStep == ASSUME Inv, pipe PROVE Inv'
<1>1. pc["parent"] = "pipe"
  BY DEF pipe
<1>2. CASE /\ Goto("parent", "fork")
           /\ p_2_c' = Opened("parent") /\ c_2_p' = Opened("parent")
           /\ UNCHANGED i
  <2>1. pc'["parent"] = "fork" /\ pc'["child"] = pc["child"]
    BY <1>2, GotoFacts DEF Inv, Proc
  <2>2. TypeOK'
    BY <1>2, OpenFacts DEF Goto, Inv, TypeOK, Proc
  <2>3. pc["child"] = "none"
    BY <1>1 DEF Inv, EndsInv
  <2>4. /\ p_2_c'.content = 0 /\ c_2_p'.content = 0
        /\ "parent" \in p_2_c'.readers /\ "parent" \in p_2_c'.writers
        /\ "parent" \in c_2_p'.readers /\ "parent" \in c_2_p'.writers
    BY <1>2, OpenFacts DEF Proc
  <2>5. RoundsInStep' /\ RoundInv'
    BY <1>2, <2>1, <2>3 DEF Inv, RoundsInStep, RoundInv
  <2>6. ByteInv' /\ EndsInv'
    BY <1>1, <1>2, <2>1, <2>3, <2>4 DEF Inv, ByteInv, Nowhere, EndsInv, Over
  <2> QED BY <2>2, <2>5, <2>6 DEF Inv
<1>3. CASE Ends("parent", "failed")
  <2>1. Nowhere
    BY <1>1 DEF Inv, ByteInv
  <2>2. pc["parent"] \notin Over /\ pc["parent"] # "exit" /\ "parent" \in Proc
    BY <1>1 DEF Over, Proc
  <2> QED BY <1>3, <2>1, <2>2, FailStep
<1> QED BY <1>2, <1>3 DEF pipe

LEMMA forkStep == ASSUME Inv, fork PROVE Inv'
<1>1. pc["parent"] = "fork"
  BY DEF fork
<1>2. CASE /\ pc' = [p \in Proc |-> "affinity"]
           /\ p_2_c' = Inherited(p_2_c, "parent", "child")
           /\ c_2_p' = Inherited(c_2_p, "parent", "child")
           /\ UNCHANGED i
  <2>1. pc'["parent"] = "affinity" /\ pc'["child"] = "affinity"
    BY <1>2 DEF Proc
  <2>2. /\ p_2_c' \in PipeState /\ p_2_c'.content = p_2_c.content /\ "child" \in p_2_c'.readers
        /\ c_2_p' \in PipeState /\ c_2_p'.content = c_2_p.content /\ "child" \in c_2_p'.writers
    BY <1>1, <1>2, InheritFacts DEF Inv, TypeOK, EndsInv
  <2>3. TypeOK'
    BY <1>2, <2>2 DEF Inv, TypeOK
  <2>4. RoundsInStep' /\ RoundInv'
    BY <1>1, <1>2, <2>1 DEF Inv, EndsInv, RoundsInStep, RoundInv
  <2>5. ByteInv' /\ EndsInv'
    BY <1>1, <1>2, <2>1, <2>2 DEF Inv, ByteInv, Nowhere, EndsInv
  <2> QED BY <2>3, <2>4, <2>5 DEF Inv
<1>3. CASE Ends("parent", "failed")
  <2>1. Nowhere
    BY <1>1 DEF Inv, ByteInv
  <2>2. pc["parent"] \notin Over /\ pc["parent"] # "exit" /\ "parent" \in Proc
    BY <1>1 DEF Over, Proc
  <2> QED BY <1>3, <2>1, <2>2, FailStep
<1> QED BY <1>2, <1>3 DEF fork

(* Before they exchange anything, both go on or end. *)
LEMMA affinityStep == ASSUME Inv, NEW p \in Proc, sched_setaffinity(p) PROVE Inv'
<1>1. pc[p] = "affinity"
  BY DEF sched_setaffinity
<1>2. CASE Goto(p, "close") /\ UNCHANGED <<i, p_2_c, c_2_p>>
  <2>1. \A q \in Proc : pc'[q] = IF q = p THEN "close" ELSE pc[q]
    BY <1>2, GotoFacts DEF Inv
  <2>2. TypeOK'
    BY <1>2 DEF Goto, Inv, TypeOK
  <2>3. RoundsInStep' /\ RoundInv' /\ ByteInv' /\ EndsInv'
    BY <1>1, <1>2, <2>1 DEF Inv, RoundsInStep, RoundInv, ByteInv, Nowhere, EndsInv, Over, Proc
  <2> QED BY <2>2, <2>3 DEF Inv
<1>3. CASE Ends(p, "failed")
  <2>1. p = "parent" => Nowhere
    BY <1>1 DEF Inv, ByteInv
  <2>2. pc[p] \notin Over /\ pc[p] # "exit"
    BY <1>1 DEF Over
  <2> QED BY <1>1, <1>3, <2>1, <2>2, FailStep
<1> QED BY <1>2, <1>3 DEF sched_setaffinity

LEMMA closeStep == ASSUME Inv, NEW p \in Proc, close(p) PROVE Inv'
<1>1. pc[p] = "close" /\ ClosesUnused(p) /\ Goto(p, FirstCall(p)) /\ UNCHANGED i
  BY DEF close
<1>2. \A q \in Proc : pc'[q] = IF q = p THEN FirstCall(p) ELSE pc[q]
  BY <1>1, GotoFacts DEF Inv
<1>3. /\ p_2_c' \in PipeState /\ p_2_c'.content = p_2_c.content
      /\ c_2_p' \in PipeState /\ c_2_p'.content = c_2_p.content
      /\ "child" \in p_2_c.readers => "child" \in p_2_c'.readers
      /\ "child" \in c_2_p.writers => "child" \in c_2_p'.writers
  BY <1>1, CloseFacts DEF ClosesUnused, Inv, TypeOK, Proc
<1>4. TypeOK'
  BY <1>1, <1>3 DEF Goto, FirstCall, Inv, TypeOK
<1>5. RoundsInStep' /\ RoundInv'
  BY <1>1, <1>2 DEF Inv, RoundsInStep, RoundInv, FirstCall, Over, Proc
<1>6. ByteInv' /\ EndsInv'
  BY <1>1, <1>2, <1>3 DEF Inv, ByteInv, Nowhere, EndsInv, FirstCall, Over, Proc
<1> QED BY <1>4, <1>5, <1>6 DEF Inv

(* A round is over for p; the other stays where it is. *)
LEMMA RoundFacts ==
    ASSUME Inv, NEW p \in Proc, NextRound(p), i[p] < NUM_ITERATIONS
    PROVE  /\ i' \in [Proc -> 0 .. NUM_ITERATIONS]
           /\ i'[p] = i[p] + 1 /\ \A q \in Proc \ {p} : i'[q] = i[q] /\ pc'[q] = pc[q]
           /\ pc'[p] = IF i'[p] < NUM_ITERATIONS THEN FirstCall(p)
                       ELSE IF p = "child" THEN "exit" ELSE "wait"
           /\ pc' \in [Proc -> Over \cup {"pipe", "fork", "affinity", "close", "write",
                                           "read", "wait", "exit"}]
<1>1. NUM_ITERATIONS \in Nat /\ i \in [Proc -> 0 .. NUM_ITERATIONS]
  BY IterationsAssumption DEF Inv, TypeOK
<1>2. i' = [i EXCEPT ![p] = @ + 1]
      /\ Goto(p, IF MoreRounds(i'[p]) THEN FirstCall(p)
                 ELSE IF p = "child" THEN "exit" ELSE "wait")
  BY DEF NextRound
<1>3. i'[p] = i[p] + 1 /\ \A q \in Proc \ {p} : i'[q] = i[q]
  BY <1>1, <1>2
<1>4. i' \in [Proc -> 0 .. NUM_ITERATIONS]
  BY <1>1, <1>2
<1> QED BY <1>2, <1>3, <1>4, GotoFacts DEF Inv, TypeOK, Goto, MoreRounds, FirstCall

LEMMA writeStep == ASSUME Inv, NEW p \in Proc, write(p) PROVE Inv'
<1>1. pc[p] = "write"
  BY DEF write
<1>2. CASE p = "child" /\ c_2_p' = Put(c_2_p) /\ UNCHANGED p_2_c /\ NextRound(p)
  <2>1. pc["parent"] = "read"
    BY <1>1, <1>2, IterationsAssumption
       DEF Inv, ByteInv, Nowhere, RoundInv, RoundsInStep, TypeOK, Over, Proc
  <2>2. c_2_p.content = 0 /\ p_2_c.content = 0 /\ i["child"] = i["parent"]
    BY <1>1, <1>2, <2>1, ByteFacts DEF Inv, ByteInv, TypeOK, Proc
  <2>3. c_2_p' \in PipeState /\ c_2_p'.content = 1
        /\ c_2_p'.readers = c_2_p.readers /\ c_2_p'.writers = c_2_p.writers
    BY <1>2, <2>2, ByteFacts DEF Inv, TypeOK
  <2>4. i["child"] < NUM_ITERATIONS
    BY <1>1, <1>2 DEF Inv, RoundInv
  <2>5. /\ i' \in [Proc -> 0 .. NUM_ITERATIONS]
        /\ i'["child"] = i["child"] + 1 /\ i'["parent"] = i["parent"]
        /\ pc'["parent"] = pc["parent"]
        /\ pc'["child"] = IF i'["child"] < NUM_ITERATIONS THEN "read" ELSE "exit"
        /\ pc' \in [Proc -> Over \cup {"pipe", "fork", "affinity", "close", "write",
                                        "read", "wait", "exit"}]
    BY <1>2, <2>4, RoundFacts DEF Proc, FirstCall
  <2>6. TypeOK'
    BY <1>2, <2>3, <2>5 DEF Inv, TypeOK
  <2>7. NUM_ITERATIONS \in Nat /\ i["child"] \in Nat /\ i["parent"] \in Nat
    BY IterationsAssumption DEF Inv, TypeOK, Proc
  <2>8. RoundsInStep' /\ RoundInv'
    BY <1>2, <2>1, <2>2, <2>4, <2>5, <2>7 DEF RoundsInStep, RoundInv
  <2>9. ByteInv' /\ EndsInv'
    BY <1>1, <1>2, <2>1, <2>2, <2>3, <2>5, <2>7 DEF Inv, ByteInv, EndsInv, Over
  <2> QED BY <2>6, <2>8, <2>9 DEF Inv
<1>3. CASE p = "parent" /\ p_2_c' = Put(p_2_c) /\ UNCHANGED <<c_2_p, i>> /\ Goto(p, "read")
  <2>1. pc'["parent"] = "read" /\ pc'["child"] = pc["child"]
    BY <1>3, GotoFacts DEF Inv, Proc
  <2>2. Nowhere /\ i["child"] = i["parent"]
    BY <1>1, <1>3 DEF Inv, ByteInv
  <2>3. p_2_c' \in PipeState /\ p_2_c'.content = 1
        /\ p_2_c'.readers = p_2_c.readers /\ p_2_c'.writers = p_2_c.writers
    BY <1>3, <2>2, ByteFacts DEF Inv, TypeOK, Nowhere
  <2>4. TypeOK'
    BY <1>3, <2>3 DEF Goto, Inv, TypeOK
  <2>5. i["parent"] \in Nat
    BY IterationsAssumption DEF Inv, TypeOK, Proc
  <2>6. RoundsInStep' /\ RoundInv'
    BY <1>3, <2>1 DEF Inv, RoundsInStep, RoundInv
  <2>7. ByteInv' /\ EndsInv'
    BY <1>3, <2>1, <2>2, <2>3, <2>5 DEF Inv, ByteInv, Nowhere, EndsInv
  <2> QED BY <2>4, <2>6, <2>7 DEF Inv
<1>4. CASE Broken(Out(p)) /\ Ends(p, "failed")
  <2>1. p = "parent" => Nowhere
    BY <1>1 DEF Inv, ByteInv
  <2>2. pc[p] \notin Over /\ pc[p] # "exit"
    BY <1>1 DEF Over
  <2> QED BY <1>1, <1>4, <2>1, <2>2, FailStep
<1> QED BY <1>2, <1>3, <1>4 DEF write

LEMMA readStep == ASSUME Inv, NEW p \in Proc, read(p) PROVE Inv'
<1>1. pc[p] = "read"
  BY DEF read
<1>2. CASE /\ p = "child" /\ HasInput(p_2_c) /\ p_2_c' = Taken(p_2_c)
           /\ UNCHANGED <<c_2_p, i>> /\ Goto(p, "write")
  <2>1. pc'["child"] = "write" /\ pc'["parent"] = pc["parent"]
    BY <1>2, GotoFacts DEF Inv, Proc
  <2>2. /\ p_2_c.content = 1 /\ p_2_c' \in PipeState /\ p_2_c'.content = 0
        /\ p_2_c'.readers = p_2_c.readers /\ p_2_c'.writers = p_2_c.writers
    BY <1>2, ByteFacts DEF Inv, TypeOK
  <2>3. i["child"] < NUM_ITERATIONS
    BY <1>1, <1>2 DEF Inv, RoundInv
  <2>4. pc["parent"] = "read"
    BY <1>1, <1>2, <2>2, <2>3, IterationsAssumption
       DEF Inv, ByteInv, Nowhere, RoundInv, RoundsInStep, TypeOK, Over, Proc
  <2>5. TypeOK'
    BY <1>2, <2>2 DEF Goto, Inv, TypeOK
  <2>6. RoundsInStep' /\ RoundInv'
    BY <1>2, <2>1, <2>3, <2>4 DEF Inv, RoundsInStep, RoundInv
  <2>7. ByteInv' /\ EndsInv'
    BY <1>1, <1>2, <2>1, <2>2, <2>4 DEF Inv, ByteInv, EndsInv, Over
  <2> QED BY <2>5, <2>6, <2>7 DEF Inv
<1>3. CASE p = "parent" /\ HasInput(c_2_p) /\ c_2_p' = Taken(c_2_p) /\ UNCHANGED p_2_c
           /\ NextRound(p)
  <2>1. /\ c_2_p.content = 1 /\ c_2_p' \in PipeState /\ c_2_p'.content = 0
        /\ c_2_p'.readers = c_2_p.readers /\ c_2_p'.writers = c_2_p.writers
    BY <1>3, ByteFacts DEF Inv, TypeOK
  <2>2. NUM_ITERATIONS \in Nat /\ i["child"] \in 0 .. NUM_ITERATIONS
        /\ i["parent"] \in 0 .. NUM_ITERATIONS
    BY IterationsAssumption DEF Inv, TypeOK, Proc
  <2>3. /\ i["child"] = i["parent"] + 1 /\ p_2_c.content = 0 /\ pc["child"] # "write"
    BY <1>1, <1>3, <2>1, ByteFacts DEF Inv, ByteInv, TypeOK
  <2>4. i["parent"] < NUM_ITERATIONS
    BY <2>2, <2>3
  <2>5. /\ i' \in [Proc -> 0 .. NUM_ITERATIONS]
        /\ i'["parent"] = i["parent"] + 1 /\ i'["child"] = i["child"]
        /\ pc'["child"] = pc["child"]
        /\ pc'["parent"] = IF i'["parent"] < NUM_ITERATIONS THEN "write" ELSE "wait"
        /\ pc' \in [Proc -> Over \cup {"pipe", "fork", "affinity", "close", "write",
                                        "read", "wait", "exit"}]
    BY <1>3, <2>4, RoundFacts DEF Proc, FirstCall
  <2>6. TypeOK'
    BY <1>3, <2>1, <2>5 DEF Inv, TypeOK
  <2>7. RoundsInStep' /\ RoundInv'
    BY <1>3, <2>2, <2>3, <2>5 DEF Inv, RoundsInStep, RoundInv
  <2>8. ByteInv' /\ EndsInv'
    BY <1>1, <1>3, <2>1, <2>2, <2>3, <2>5 DEF Inv, ByteInv, Nowhere, EndsInv
  <2> QED BY <2>6, <2>7, <2>8 DEF Inv
<1>4. CASE EndOfFile(In(p)) /\ Ends(p, "failed")
  <2>1. p = "parent" => pc["child"] \in Over
    BY <1>4 DEF EndOfFile, In, Inv, EndsInv
  <2>2. pc[p] \notin Over /\ pc[p] # "exit"
    BY <1>1 DEF Over
  <2> QED BY <1>1, <1>4, <2>1, <2>2, FailStep
<1> QED BY <1>2, <1>3, <1>4 DEF read, In, Proc

LEMMA exitStep == ASSUME Inv, exit PROVE Inv'
BY EndsStep DEF exit, Proc, Over

LEMMA waitStep == ASSUME Inv, wait PROVE Inv'
BY EndsStep DEF wait, ChildOver, Proc, Over

LEMMA NextInv == Inv /\ [Next]_vars => Inv'
<1> SUFFICES ASSUME Inv, [Next]_vars PROVE Inv'
  OBVIOUS
<1>1. ASSUME Parent PROVE Inv'
  BY <1>1, pipeStep, forkStep, affinityStep, closeStep, writeStep, readStep, waitStep
     DEF Parent, Proc
<1>2. ASSUME Child PROVE Inv'
  BY <1>2, affinityStep, closeStep, writeStep, readStep, exitStep DEF Child, Proc
<1>3. CASE UNCHANGED vars
  BY <1>3 DEF vars, Inv, TypeOK, RoundsInStep, ByteInv, Nowhere, RoundInv, EndsInv
<1> QED BY <1>1, <1>2, <1>3 DEF Next

LEMMA Invariance == Spec => []Inv
BY InitInv, NextInv, PTL DEF Spec

(* The pipes never hold more than the one byte, for any number of rounds. *)
THEOREM TypeCorrect == Spec => []TypeOK
<1>1. Inv => TypeOK
  BY DEF Inv
<1> QED BY <1>1, Invariance, PTL

(* measure: whatever call fails and in whichever order the two are scheduled,
   the parent is never ahead and at most a round behind, and it prints a time
   only when both have done all rounds. *)
THEOREM InStep == Spec => []RoundsInStep
<1>1. Inv => RoundsInStep
  BY DEF Inv
<1> QED BY <1>1, Invariance, PTL
=============================================================================
