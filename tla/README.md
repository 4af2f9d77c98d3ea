# TLA+ models of the WPI operating systems projects

The repository holds five course projects in C and four small utilities. They
are separate programs: nothing is linked together. Each is a component here,
with a module of its own, and where two programs promise the same thing they
implement one abstract module.

## 1. Inventory

| Component | Source (under `src/`) | State | Operations |
|---|---|---|---|
| parallel zip | `assigned-project-concurrency/wpzip.c` | list of result nodes, semaphore `thread_s`, mutex `thread_count_m`, counter `threads_done` | cut files, spawn, encode, count, poll, merge, write |
| serial zip | `assigned-project-concurrency/wzip.c` | `count`, `current` | read, write a run |
| first parallel zip | `assigned-project-concurrency/wpzip_unoptimized.c` | results per file | spawn, join, merge |
| allocator | `assigned-project-memory/goatmalloc.c` | arena, list of headers, `statusno` | `init`, `destroy`, `walloc`, `wfree`, `wrealloc` |
| file system | `assigned-project-files/solution/goatfs.c` | disk; `i_bitmap`, `d_bitmap` and `Mounts` in memory | `format`, `mount`, `create`, `wremove`, `stat`, `wfsread`, `wfswrite` |
| disk emulator | `assigned-project-files/solution/disk.c` | an image file | `wread`, `wwrite` |
| job scheduler | `assigned-project-scheduling/scheduler.c` | job list, job queue, `next_to_run` mark, statistics | arrivals, three policies, removal |
| context switch | `assigned-project-scheduling/context_switch.c` | two pipes | ping-pong |
| shell | `assigned-project-processes/wshell.c` | background job table, history | builtins, and/or, pipe, redirection, background |
| utilities | `assigned_project_utilities/` | count and position within a record (`wunzip`) | zip, unzip, cat, grep |

How the parts interact, what is hard about each, and what makes it correct:

- **wpzip.** `main` and its threads share the semaphore, the mutex, the counter
  and the list. A thread writes its own node only, counts itself under the
  mutex and posts the semaphore; `main` polls the counter *without* the mutex
  and then reads every node. Hard: the order of all this, chunk boundaries,
  runs that span many chunks, empty files. Correct when the output is what the
  serial program would write and the program ends.
- **wzip.** Sequential; hard only where one file ends and the next begins.
- **goatmalloc.** Sequential, called by one client. Hard: long sequences of
  calls, block sizes near a header's, `wrealloc` in three guises, failing
  system calls. Correct when the list tiles the arena, free neighbours are
  merged, no block is given out twice or lost, and no client byte changes.
- **goatfs on disk.** The table of inodes is on the disk, the bitmaps are in
  memory and rebuilt at `mount`. Each call makes several block writes, and the
  process may end between two of them. Correct when files share no block and a
  call is all or nothing.
- **scheduler.** Sequential simulation; hard: a job arriving exactly when the
  running one is preempted or ends, and the mark that says whose turn it is.
- **wshell.** Children end at any time and are collected only at the prompt;
  the job table, its numbers and `activeJobs` must follow. Pipes close only
  when all holders have closed them.
- **context_switch.** Two processes that block on each other through pipes.

- **wpzip_unoptimized, wunzip.** A second parallel zip, which joins its threads
  file by file; and the program that undoes a zip. What one writes the other
  must read.

`PROJECT.json` lists every hazard at its line. Those whose note says so are not
covered by a property.

## 2. Modules

| Module | What it is |
|---|---|
| `RunLength` | runs, the encoder's fold and its inverse; shared by the zips |
| `RunLength_proofs` | lemmas about them and about the library's folds, for the proofs of the zips |
| `ZipStream` | abstract: a program writes, run by run, the encoding of its files |
| `Wpzip` | `wpzip.c`; implements `ZipStream` (`ZipSpec`) |
| `Wpzip_proofs` | theorems about `Wpzip`, with `RunLength_proofs` |
| `Wzip` | `wzip.c`; implements `ZipStream` (`StreamSpec`) |
| `WpzipJoin` | `wpzip_unoptimized.c`; implements `ZipStream` (`JoinSpec`) |
| `Wunzip` | `wunzip.c` |
| `ZipTools` | composes the three: a user zips with either and unzips (`RoundTrip`) |
| `ZipTools_proofs` | theorems about `Wzip`, `WpzipJoin` and `Wunzip` as composed there |
| `GoatMalloc` | `goatmalloc.c` and its client |
| `GoatMalloc_proofs` | theorems about `GoatMalloc` |
| `FileStore` | abstract: files that are created, grow and are removed |
| `GoatFS` | `goatfs.c` over `disk.c`; implements `FileStore` (`StoreSpec`) |
| `GoatFS_proofs` | theorems about `GoatFS` |
| `Dispatch` | abstract: one processor serves jobs by FIFO, SJF or in rounds |
| `Scheduler` | `scheduler.c`; implements `Dispatch` (`DispatchSpec`) |
| `Scheduler_proofs` | theorems about `Scheduler` |
| `Pipe` | the kernel's pipe, as the next two use it |
| `ContextSwitch` | `context_switch.c` |
| `ContextSwitch_proofs` | theorems about `ContextSwitch` |
| `Wshell` | `wshell.c`, its children and its job table |
| `Wshell_proofs` | theorems about `Wshell` |
| `MCWpzip`, `MCZipTools`, `MCGoatMalloc`, `MCGoatFS`, `MCScheduler` | values for TLC |

Some definitions come in pairs: beside an operator that models the code stands
one, marked *slip*, that gets it wrong as a plausible bug would. Nothing uses
the slips; put in place of the operator, they make a property fail.

### Wpzip

`mpc` is the place of the main thread, `wpc[w]` that of thread w. Thread w is
the w-th created and owns the w-th node, because `init_threadData_array` hands
nodes out in that order. A step of a thread is one byte (lines 104 to 119) or
one call on shared state: `Lock`, `LoadDone`, `StoreDone`, `Unlock`, `SemPost`;
`threads_done++` is two steps. A step of main is one file cut
(`OpenFile`), one `SemWait`, one `CreateThread`, one look at the counter, one
iteration of `merge` or of the loops of `write_results`. A read outside an
array (first byte of an empty file, last character of an empty node) is an
arbitrary value. `merge` frees a node it has absorbed; here it is unlinked.
`MaxThreadIds` is the room in `thread_ids`, 1000 in the code and unchecked
there; the model goes no further. Counts are unbounded, not 32 bits.
`OpenFile` fails where the code's `read` returns -1.

### Wzip

`unread` is what is left of the open stream. `fopen`, one character, the close
and the last write are steps. In the abstract module the last write happens
while the program is still running, hence the mapping of `status`.

### WpzipJoin, Wunzip and ZipTools

In `WpzipJoin` main opens a file, creates a thread per chunk (`Create`), joins
them in order and lets go of the file (`Release`); a thread's step is a byte.
All files are cut into the same number of chunks, worked out from the longest
one, so a short file has chunks without a byte. Their thread reads one all the
same, past its chunk, and leaves no run because its `start` has gone past `end`.
A missing file ends the process when a thread reads it, and so does the first
run of a thread if the longest file has one byte: the results then have room for
0 runs. `JoinSpec` maps that crash to a program that has written nothing yet.
`first_char`, `last_char` and their counts are set and never read, and left out.

`Wunzip` reads four digits and a character; a digit is a number below `Base`,
an int has four digits of that base, with its sign. In `ZipTools` the user picks
one of the two zip programs (`tool`), and when it has exited runs `wunzip` on
what it wrote, alone, twice, or with a file that is not there.

### Scheduler

An iteration of the loop of `handle_run` is a step: `Wait` if no job is in the
queue, `Run` otherwise. A job is its place in the file; `queue` holds the jobs
of the copies that the code links, `job` the fields of the copies, `next_to_run`
among them. `trace` is what the program prints, and what the statistics are
compared with. The sums in `float`, the averages and the parsing are left out.

`Dispatch` knows neither queue nor mark. Under round robin it keeps the set of
jobs served in this round; the copies in front of the mark are that set.

### Wshell

A step of the shell is a `fork` or a `waitpid` with what the code does up to
the next; a command line is known by its form (in the background, and/or, pipe,
builtin, other). Children take steps between any two of these: they run, end,
become zombies, and may be killed. A process number is free when no child has
it, and is used again; when none is free `fork` fails, and the model follows
each of the five places where it can. `role` says what the shell waits for: it is
ghost state, except that only children of a pipe use the pipe. `kill` takes a
number that a user types, in use or not.

### Pipe and ContextSwitch

A pipe is who holds which end and how much it holds; a writer nobody can read
is ended by SIGPIPE and a reader nobody can write sees the end of the file.
`ContextSwitch` has one action per system call, each with its failure.

### GoatMalloc

Addresses are offsets from `_arena_start`; `node` maps the address of each
header in the list to its fields, `mem` is every byte of the arena, and `held`
is the client's side: its pointers, how many bytes it asked for and what it
wrote. Every call is one action, as the code is sequential. The client obeys
the interface: it passes pointers it holds and stays within what it asked for.
`Clobbers` is how many bytes behind a header another must begin for its `size`
or `is_free` to fall on the first one's `fwd`: 7 to 23 with the real layout
(7 because writing `size` reaches one byte over; with that byte already zero the
write changes nothing, and the model calls it broken all the same). `broken`
tells after which call the process is lost; the list is not followed further.

### GoatFS

`super`, `inode` and `data` are the disk, `mounted` and the two bitmaps the
memory, and `op` the call under way with its locals. Every `wwrite` is a step;
what a call does between two writes goes with one of them. `Exit` ends the
process anywhere: a crash, an I/O error in `disk.c` (which calls `exit`), or a
normal end. Only the disk survives it. A block holds `BlockSize` cells, each a
byte of data or, in a block of pointers, a block number.

The real file system has 5 direct pointers and blocks of 4096 bytes or 1024
pointers; the instances have 2, 2 and 2. Nothing in the code depends on the
numbers but the loop bounds. Not modelled: bitmaps with bits set by whatever
malloc returns (they are zero when nothing was freed before, as in
`test_goatfs.c`), offsets behind a full block of pointers (`ReachAssumption`),
sizes beyond 32 bits, what calls do once the superblock is overwritten, writes
that go beyond the Size without beginning there.

The client either appends, as `test_goatfs.c` does, or, with `Overwrites`, writes
anywhere below the Size, which is all that `stat` tells it of a file. That need
not be where the file has blocks: `wfswrite` adds what it wrote to the Size even
when it wrote over what was there (513), and a `wremove` cut short has zeroed the
block of pointers and left the Size. So `goatfs_image` does reach states where an
overwrite has put its bytes into block 0; `LostBySizeAlone` says that nothing else
does: as long as every Size is covered by blocks, each write below it goes to the
block its offset names. The files on that disk have all their direct blocks. One
with fewer, its Size raised, would be written below the Size behind a free slot:
`wfswrite` takes a new block for it, the slot before stays free, and the next
`mount`, which stops at the first free slot (130), misses the block. The theorems
ask the same of the disk (`Whole`).

`StoreSpec` maps the valid inodes to the files, each with what `wfsread` of its
whole Size returns. The abstract module has no crash: a write whose process
ends halfway must map to nothing at all. It does allow a removal to be cut
short, after the file has been blanked, because that is what the code does.

## 3. Runs

| Run | Bounds | Shows |
|---|---|---|
| `wpzip_encode` | 3 permits, at most 5 threads; every pair of a file of 1 to 3 bytes and one of 1 or 2, up to renaming; one of 4 | nothing lost or reordered, whatever the interleaving: `ZipSpec` and the invariants behind it |
| `wpzip_stop` | 2 permits, 7 lists with empty and missing files | `Termination` |
| `zip_tools` | every pair of files of up to 3 characters or missing; files of 4 to 6, cut for 2 or 3 threads; bytes of 2 values | `StreamSpec`, `NothingLost`; `JoinSpec`, `ReadBeforeFree`; `RoundTrip` for both |
| `scheduler` | every file of 2, 3 and 4 jobs with arrivals up to 5, 4, 3 and lengths up to 3, 3, 2; slices 1, 2 and none; three policies | `DispatchSpec`, `RotationFair`, `StatsMatchTrace`; that it ends (`RunBounded`) |
| `context_switch` | 25 rounds | `BothEnd`, `RoundsInStep` |
| `wshell` | 3 process numbers, 2 places, a pipe of 1, writers of up to 2 | `JobTableExact`, `SecondFollowsFirst`, `PromptReturns` |
| `goatmalloc_calls` | arena of 12 bytes, headers of 2, requests of 0 to 5, failing init | the five list and data invariants, any number of calls |
| `goatmalloc_grow` | arenas of 12 and 16 bytes | *violation*: growing in place corrupts the list |
| `goatfs_append` | 2 inodes, 3 data blocks, appends of 1 and 3 bytes, files up to 4 | sharing, bitmaps, full disk and crashes: `StoreSpec` |
| `goatfs_image` | 7 data blocks, a file with an indirect block and one without, writes of 1 and 3 bytes below a Size of up to 8 | overwriting and removing through indirect pointers: `BitmapCovers`, `LostBySizeAlone` |
| `goatfs_unmarked` | the same disk | *violation*: the block of pointers is free after mount |
| `goatfs_superblock` | files up to 6 bytes | *violation*: the sixth block (here the third) goes to block 0 |

Why the bounds suffice. For wpzip five threads are more than the permits, so
threads wait for others; two neighbouring nodes can be absorbed in a row; a
chunk boundary falls inside a run, between runs and at a file's end; four bytes
for three threads leave a remainder. For the allocator an arena
of 12 bytes takes three headers and every size class: exact fit, one byte short
of a split, and a split; every neighbour pattern of `wfree` occurs. For the file
system three data blocks for two files of two blocks fill the disk in the
middle of a write; three-byte writes begin and end inside blocks. On the disk
made elsewhere a Size of 8 is as far as the direct pointers and the block of
pointers reach: overwriting raises a Size beyond what either file holds, a write
crosses from the direct blocks into the block of pointers, and every block 0
write of the code, with and without such a block, occurs. For the second
parallel zip, three threads have a first, an inner and a last chunk, and files
shorter than the number of threads have empty ones. Three or four jobs are
enough for one to arrive, one to end and two to wait around the mark in every
order. Three children are a pipe and a background job, or two background jobs
and a foreground one; with a fourth process `fork` fails; two places fill up, and
numbers wrap. Rounds of the context switch are all alike.

**Fairness.** `wpzip_stop` assumes weak fairness of main and of each thread.
They are kernel threads, which the system schedules sooner or later when they
can run. No fairness is needed for the mutex or the semaphore beyond this:
nobody competes with main for a permit, and each thread takes the mutex once.
That the poll is a step that changes nothing is why it is not a deadlock.
`context_switch` assumes it of the two processes. `wshell` assumes it of the
shell and of each child the shell waits for, which includes that a foreground
command ends when it has read or written everything; nothing is assumed of the
user, of background jobs, or of kill. The scheduler is one loop: `RunBounded`
bounds how often it can go round, which says more than that it ends.

**Deadlock** is checked in every passing run but one; the final states have a
step of their own that changes nothing (`Terminated`, `Dead`, `Over`, `Exited`).
`context_switch` stops when both processes have ended, and `BothEnd` says that
it stops nowhere else.

## 4. Proofs

The proofs hold for every value of the constants that the ASSUMEs allow. A
theorem that asks more names it as its hypothesis, an operator of the model
(`SoundDisks`, `HaveText`, `LinesHaveText` and the like), and TLC evaluates it
on the instances of section 3 (`DisksAreSound`, `TextsAreShort` in the MC
modules): the theorems are about at least what the runs are about. Each module
has the same layout: the inductive invariant, lemmas about the operators, a
lemma per action, the step, the theorems.

**Wpzip** (`Wpzip_proofs`). `TypeCorrect` is inductive by itself.
`SlicesPartition` is about the operator `Slice`. The safety properties follow
from `SafetyInv`, which `SafetyCorrect` proves inductive together with the types.
None of the three is inductive alone: `CounterExact` breaks unless the thread
between load and store is the only one there and has loaded the present value
(`MutexInv`); `AtMostNumThreads` needs to know where every permit is: free, with
an active thread, or with main about to create one (`PermitInv`); and
`MergeSeesAllResults` needs the counter and that threads are created in order
(`SpawnInv`), so that a full count means that all threads exist and are encoded
(`EncodedInv`).
That no text is lost (`MergeKeepsText`) adds three parts: the slices handed out
are, one after the other, the files opened so far (`CutInv`); what a thread has
stored is the encoding of what it has read of its slice, whatever the other
threads do (`EncodeInv`); and what hangs from the list expands to the text while
`merge` moves runs from node to node (`ListInv`; `MoveRun` is the lemma). That
the output is *the* encoding, run by run (`ParallelIsStream`, the refinement of
`ZipStream`), needs that neighbouring runs differ behind the place where `merge`
stands and that main writes them in order (`CodeInv`): a sequence of runs of
which no two neighbours agree is the encoding of what it expands to
(`CanonicalRle`). `MergeKeepsText` supposes that the first file of a command
line is not empty (`FirstHasText`), `ParallelIsStream` that none is (`HaveText`).
The code does not keep the two properties beyond: with an empty first file `merge`
reads before an array; any other empty file ends the output early (section 5).

**Wzip, WpzipJoin, Wunzip** (`ZipTools_proofs`), as composed in `ZipTools`; the
steps of one leave the others' variables alone. `SerialLosesNothing` follows from
`WzipInv`: what is left of the stream is the end of the file that is open
(`PlaceInv`), and the runs written with the one under way encode what was read
(`CodeInv`). `SerialIsStream` is the step simulation; it supposes a character
somewhere in the files (`LinesHaveText`), for of none the program writes a run
of none. `NoUseAfterFree` (`ReadBeforeFree`) needs that main holds the file from
the creation of its first thread to the join of the last, and that the threads
it has joined have ended (`JoinPlace`). `TypesCorrect` includes that `wunzip`
never takes a character for a digit (`InStep`): where it stands in the file,
modulo 5, tells which of the two comes next, across files and when zipped twice.

`JoinIsStream` (`JoinSpec`) rests on `JoinTextInv`. In whatever order the
threads run, the results of a file that is done are the encodings of its parts; a
thread at work has, with the run under way, the encoding of what it has read of
its part, and of a part without a byte it leaves nothing; the results of files to
come are empty; what main has written is the beginning of `Merged`. Two encodings
glued where they meet are the encoding of the two texts (`GlueEncodes`, again by
`CanonicalRle`), so `Merged` is the encoding of all files. No hypothesis about the
files is needed: with an empty one, or one shorter than the number of threads,
only what the last thread reads counts.

`ZippedAndUnzipped` (`RoundTrip`) joins the three programs. What either zip leaves
decodes to the text (`WzipText`, `JoinDone`). `UnzipText` then says where `wunzip`
is: what it has still to read is the rest of a run, after 0 to 4 bytes, and the
runs behind it (`Left`); `rep_count` is the count modulo the weight of the bytes
it has read (`Low`; `LowFacts` is a step of it); what it has written is every
earlier file's text and what the runs before decode to. It supposes that no
text is longer than an int of four bytes counts (`LinesShort`, which bounds every
run by `CountBound`); of a longer run `wunzip` would take the count for a
negative one.

**Run lengths** (`RunLength_proofs`). The encoder is the library's `FoldLeft`
and `FlattenSeq`. Induction theorems that take an operator are out of the
prover's reach, so what a fold computes for every sequence is shown by
the least counterexample: were there one, there would be a shortest, the fold
of all of it but its last element would be right, and one step of the fold is a
lemma.

**GoatMalloc** (`GoatMalloc_proofs`). One invariant carries all: the list is good
(it tiles the arena, links undo each other, and no header, not even that of an
empty block, reaches the end of the arena), no two free chunks are neighbours,
the client holds exactly the allocated chunks, and the bytes are typed. Lemmas
show what `MergeNext`, `Mark`, `Carve` and `Freed` do to a good list; the actions
compose them. Coalescing is not inductive alone: that `wfree` needs to look at no
more than one neighbour on either side rests on the list having been coalesced
before. `NothingDisturbed` (`DataIntact`) adds that a call writes only headers
of chunks that are there after it and, in `wrealloc`, the bytes of the block it
has just been given; tiling makes these disjoint from every other block.

**GoatFS** (`GoatFS_proofs`). For every number of inodes, pointers and blocks,
beginning with any disk that is `SoundImages`, as `format` and the calls leave
it. `DirectInv` is about direct pointers: the inode table is sound (a file's
pointers are set from the first on, all differ, those of two files differ, a
free inode has none), the bitmaps cover what the memory knows (`MemoryInv`), and
what each call has in its locals fits what is on the disk (`FormatInv`,
`RemoveInv`, `WriteInv`: were the inode written now, the table would be sound).
From it `NoSharing`, `BitmapExact` and `FreeClean`, crashes included. `ChainInv`
adds the blocks of pointers: they hold pointers, to blocks that are none
themselves, and no call writes one as a block of bytes; from it, under
`SoundDisks`, `TypeCorrect`, `Covered` and `LostToSize`. `LostToSize`
(`LostBySizeAlone`) is for a client that overwrites, at any offset below the Size.
Where `wfswrite` finds no pointer, the pointers before it are all that count for
what the file holds, so its Size, below which the offset is, is beyond that
(`BeyondBlocks`); and it stays so to the end of the write, which raises it
(`LostInv`). A client that appends needs no Size beyond the blocks to lose block
0: that is what `goatfs_superblock` shows. `SizesCovered` and `Refinement` (the step simulation
of `FileStore`) suppose `PlainDisks` and clients that append within the direct
pointers; `StoreInv` says of the call under way what the abstract store needs:
the bytes it has put are where `wfsread` will look for them but beyond the Size
that is on the disk, so a crash before the inode is written leaves no trace.

**Scheduler** (`Scheduler_proofs`). `Inv` says that the queue holds just the jobs
that are there and not finished, in the order of the file (`QueueInv`); that at
most one copy has the mark, and that under round robin the copies before it have
been served in this round (`MarkInv`); and how the fields of a copy follow from
its lines in the trace (`JobInv`, `StatsInv`). `StatsCorrect` and the step
simulation of `Dispatch` (`Refinement`) follow. `Fair` needs besides that whoever
waits since another job was served is ahead of that job in the rounds
(`TurnInv`), which the mark makes true even when jobs arrive or end in between.
`Bounded` (`RunBounded`) has two parts. The turns of a job times the slice, and
what it has left, are its length, and a job that has had a turn and is not
finished has something left (`SliceInv`): so it has had fewer turns than its
length takes. The clock stands at most at the last arrival plus all that ran
(`ClockInv`): it moves only with a job that runs or, when the queue is empty and a job
is still to come, by one.

**ContextSwitch** (`ContextSwitch_proofs`), for any `NUM_ITERATIONS`. Between the
two processes there is one byte, with one of them or in one of the pipes
(`ByteInv`); where each process is tells how many rounds it has done
(`RoundInv`); and the ends of the pipes are with whom a process that is ended
would leave waiting (`EndsInv`).

**Wshell** (`Wshell_proofs`). `TableExact` and `SecondCorrect` hold for any number
of process numbers and places. The invariant adds `CallInv`: what the shell
waits for is there and was started in the foreground or for a pipe. Without it
the shell might collect, while it waits, a child of the table and leave its
number there. The places that the code finds by going through the table are the
least of a set, which exists because the naturals are well ordered.
`JobTableExact` says "in one place" without counting, as a proof can use it.

**Only model-checked.** Liveness (`Termination`, `BothEnd`, `PromptReturns`) and
ENABLED are beyond the prover. Every invariant, action property and refinement
of the passing runs is a theorem, under the hypotheses named above.

## 5. Where the code departs from what it says

Three runs expect a violation; `PROJECT.json` quotes the line that each
contradicts. `wrealloc` corrupts the list when it grows a block by 7 to 23
bytes (`goatmalloc_grow`); `mount` forgets the block of indirect pointers
(`goatfs_unmarked`); the sixth block of a file overwrites the superblock
(`goatfs_superblock`).

There is more of the kind, without a run of its own; what concerns `pthread_create`,
`open` and processors is seen in the code, and outside the models:

- `wpzip` destroys its mutex (281) while the last thread may still hold it: the
  poll waits for the count, which a thread raises before it unlocks.
- An empty file silently ends `wpzip`'s output: `merge` (135) and `write_results`
  (160) stop at the first node without runs.
- `wpzip_unoptimized` crashes if its longest file has one byte (57, 270).
- `wfswrite` adds the bytes it wrote to the Size (513) also when it wrote over what
  was there, and a `wremove` that is cut short leaves the Size over a block of
  pointers it has zeroed. A write below such a Size, through a pointer that is 0,
  goes to block 0 (480-482); among the direct pointers it takes a block behind a
  free slot, which the next mount does not mark (130).
- `wpzip` (273) and `wpzip_unoptimized` ignore what `pthread_create` returns: when
  it fails the first polls for ever, the second joins a thread there is not.
- `wpzip_unoptimized` encodes whatever malloc returned for a file of at most 512
  bytes that `stat` finds and `open` does not (179-182, 195-196).
- `context_switch` (69) pins the child where it means the parent: on more than
  one processor a message is not a switch.
- `create` (238) returns an index within a block of inodes, a wrong number from
  the 129th file on.
- `shift_job_queue` finds no mark also when the job that had it has just ended
  alone, not only with a queue of one, as its comment (158) says; it does no harm.
- `findAvailableJobId` (166) gives out numbers that are in use once it wraps; `kill`
  then hits the job in the lower place.
- A failing `fork` is entered in the job table as process -1 (494), which `kill`
  takes for everybody; after a failing second `fork`, `executePipe` (333) leaves a
  pipe open in the shell for good and its first child alone.
- `command` (232) returns 0 when `fork` fails, where its comment (190) promises 1 on
  failure: of a line with a first command that was never run, `&&` goes on and
  `||` does not. `SecondFollowsFirst` and its theorem are about first commands that
  have run; the model has the other case (`Start`, outcome "not run").

## 6. Plan

Done: all programs of the inventory but those below, with one abstract
specification each for the zips, the scheduler and the file system; the proofs
of section 4, of every safety property and refinement. What could come next:

1. `SizesCovered` and the refinement of `FileStore` beyond direct pointers: the
   store would have to know that the code overwrites block 0 there.
2. A second block of inodes, for the number that `create` returns (section 5).
3. Output of `wpzip` after an empty file, as an abstract specification of its
   own beside `ZipStream`.

Not modelled: `wcat` and `wgrep`, the `wzip` of the utilities (the loop of `Wzip`
but for its sentinel, which writes nothing for empty input), the printing of
`debug` and of the scheduler's analysis, `wshell_Riley.c` (an earlier shell
without background jobs), the history of `wshell.c`, test scripts. They
transform input to output without state of their own, or, the shells' history,
keep state that nothing else depends on.
