-------------------------------- MODULE Pipe --------------------------------
(***************************************************************************)
(* The kernel's pipe, as wshell.c and context_switch.c use it.  A pipe is   *)
(* known by who holds its ends, a process once however many descriptors it  *)
(* has, and by how much is in it.                                           *)
(***************************************************************************)
EXTENDS Naturals

(* pipe(): the caller holds both ends.                                      *)
Opened(p) == [readers |-> {p}, writers |-> {p}, content |-> 0]

(* fork(): the child holds what its parent holds at that time.              *)
Inherited(pipe, parent, child) ==
    [pipe EXCEPT !.readers = IF parent \in @ THEN @ \cup {child} ELSE @,
                 !.writers = IF parent \in @ THEN @ \cup {child} ELSE @]

CloseRead(pipe, p)  == [pipe EXCEPT !.readers = @ \ {p}]
CloseWrite(pipe, p) == [pipe EXCEPT !.writers = @ \ {p}]
CloseBoth(pipe, p)  == CloseRead(CloseWrite(pipe, p), p)

(* A read takes what is there; it returns 0 when nothing is and nobody can
   write any more, and blocks otherwise.                                    *)
HasInput(pipe)  == pipe.content > 0
EndOfFile(pipe) == pipe.content = 0 /\ pipe.writers = {}

(* A write nobody can read kills the writer with SIGPIPE.                   *)
Broken(pipe) == pipe.readers = {}

Put(pipe)   == [pipe EXCEPT !.content = @ + 1]
Taken(pipe) == [pipe EXCEPT !.content = @ - 1]
=============================================================================
