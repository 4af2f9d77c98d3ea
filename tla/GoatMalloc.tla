----------------------------- MODULE GoatMalloc -----------------------------
(***************************************************************************)
(* assigned-project-memory/goatmalloc.c: a first-fit allocator over one     *)
(* mmap'ed arena.  The arena is a row of chunks, each a header and the      *)
(* bytes it manages; the headers form a doubly linked list.  Addresses are  *)
(* offsets from _arena_start.                                               *)
(*                                                                          *)
(* The client is part of the model: it hands back only pointers it got and  *)
(* has not given back, never passes one from an arena that is gone, and     *)
(* writes only the bytes it asked for.                                      *)
(***************************************************************************)
EXTENDS Integers

CONSTANTS HeaderSize,   \* sizeof(node_t), 32
          Clobbers,     \* how far behind another header one must begin for its
                        \* size and is_free to fall on the other's fwd, 7 .. 23
          PageSize,     \* getpagesize(), 4096
          IntMax,       \* the largest int; MAX_ARENA_SIZE is the same number
          InitSizes,    \* what clients ask init for
          Sizes,        \* what they ask walloc and wrealloc for
          Tag,          \* what they write into their memory
          Header, Junk  \* a byte of a header; a byte nobody relies on

ASSUME SizesAssumption ==
    /\ HeaderSize \in Nat \ {0}
    /\ Clobbers \subseteq 1 .. HeaderSize - 1
    /\ PageSize \in Nat /\ PageSize > HeaderSize
    /\ IntMax \in Nat
    /\ InitSizes \subseteq Nat /\ Sizes \subseteq Nat

NULL == -1
ERR_OUT_OF_MEMORY  == -1
ERR_BAD_ARGUMENTS  == -2
ERR_SYSCALL_FAILED == -3
ERR_UNINITIALIZED  == -5

VARIABLES
    arena,        \* _arena_start: "NULL", "mapped", or "MAP_FAILED"
    arena_size,   \* _arena_size
    statusno,
    node,         \* the headers in the list, by address
    mem,          \* the bytes of the arena
    held,         \* the client's pointers, by the address of their header:
                  \* how many bytes it has written there, and what
    broken        \* the call, if any, after which the process has broken or
                  \* goes on with a list that is no list

vars == <<arena, arena_size, statusno, node, mem, held, broken>>

Chunks == DOMAIN node
Chunk  == [size : Nat, is_free : BOOLEAN, fwd : Nat \cup {NULL}, bwd : Nat \cup {NULL}]
Empty  == [h \in {} |-> Junk]

TypeOK ==
    /\ arena \in {"NULL", "mapped", "MAP_FAILED"}
    /\ arena_size \in Nat
    /\ statusno \in Int
    /\ Chunks \subseteq Nat /\ node \in [Chunks -> Chunk]
    /\ DOMAIN mem \subseteq Nat /\ mem \in [DOMAIN mem -> Tag \cup {Header, Junk}]
    /\ DOMAIN held \subseteq Chunks
    /\ held \in [DOMAIN held -> [len : Nat, tag : Tag]]
    /\ broken \in {"no", "walloc", "wrealloc"}

Init ==
    /\ arena = "NULL"
    /\ arena_size = 0
    /\ statusno = 0
    /\ node = Empty /\ mem = Empty /\ held = Empty
    /\ broken = "no"

-----------------------------------------------------------------------------
(* The list operations, on a list N.                                        *)

End(N, h) == h + HeaderSize + N[h].size

(* The chunk after h moves to a new predecessor.                             *)
WithBwd(c, b) == [size |-> c.size, is_free |-> c.is_free, fwd |-> c.fwd, bwd |-> b]

(* Slips: a remainder with a header and no byte behind it is split off, too;
   the room for the header is forgotten. *)
SplitsTight(space, size) == space >= size + HeaderSize
SplitsHeaderless(space, size) == space >= size + 1
Splits(space, size) == space >= size + HeaderSize + 1

(* h swallows the chunk after it.  Slip: the chunk behind that one keeps
   pointing back at the header that is gone. *)
MergeNextOneWay(N, h) ==
    LET next == N[h].fwd
    IN  [g \in (DOMAIN N) \ {next} |->
            IF g = h THEN [size |-> N[h].size + HeaderSize + N[next].size,
                           is_free |-> N[h].is_free, fwd |-> N[next].fwd, bwd |-> N[h].bwd]
            ELSE N[g]]
MergeNext(N, h) ==
    LET next == N[h].fwd
    IN  [g \in (DOMAIN N) \ {next} |->
            IF g = h THEN [size |-> N[h].size + HeaderSize + N[next].size,
                           is_free |-> N[h].is_free, fwd |-> N[next].fwd, bwd |-> N[h].bwd]
            ELSE IF g = N[next].fwd THEN WithBwd(N[g], h) ELSE N[g]]

(* h becomes an allocated chunk of size bytes; what is left of it becomes a
   free chunk when it can hold a header and a byte. *)
Carve(N, h, size) ==
    IF Splits(N[h].size, size)
    THEN LET new == h + HeaderSize + size
         IN  [g \in (DOMAIN N) \cup {new} |->
                IF g = h THEN [size |-> size, is_free |-> FALSE, fwd |-> new, bwd |-> N[h].bwd]
                ELSE IF g = new THEN [size |-> N[h].size - size - HeaderSize, is_free |-> TRUE,
                                      fwd |-> N[h].fwd, bwd |-> h]
                ELSE IF g = N[h].fwd THEN WithBwd(N[g], new) ELSE N[g]]
    ELSE [N EXCEPT ![h] = [size |-> @.size, is_free |-> FALSE, fwd |-> @.fwd, bwd |-> @.bwd]]

IsFree(N, h) == h # NULL /\ N[h].is_free

Mark(N, h) ==
    [N EXCEPT ![h] = [size |-> @.size, is_free |-> TRUE, fwd |-> @.fwd, bwd |-> @.bwd]]

CoalesceNext(N, h) == IF IsFree(N, N[h].fwd) THEN MergeNext(N, h) ELSE N
NoCoalescePrev(N, h) == N    \* slip: only the next chunk is looked at
CoalescePrev(N, h) == IF IsFree(N, N[h].bwd) THEN MergeNext(N, N[h].bwd) ELSE N

(* wfree, for a pointer to the first byte behind the header h.               *)
Freed(N, h) == LET marked == Mark(N, h)
                   ahead  == CoalesceNext(marked, h)
               IN  CoalescePrev(ahead, h)

(* The range check of wfree turns down a pointer to the end of the arena.    *)
InArena(h) == h + HeaderSize < arena_size

(* First fit: the list is in address order.  Slip: any chunk may be taken,
   whether it is free or not. *)
FitsAny(N, size) == {h \in DOMAIN N : N[h].size >= size}
Fits(N, size)    == {h \in DOMAIN N : N[h].is_free /\ N[h].size >= size}
FirstFit(N, size, h) == h \in Fits(N, size) /\ \A g \in Fits(N, size) : h <= g

-----------------------------------------------------------------------------
(* Bytes.                                                                   *)

Bytes(from, len) == from .. from + len - 1

(* The bytes after a call that gives the client size bytes at h: the headers
   that are new in the list N are written; of the promised first bytes of the
   block, those that were carried over from src hold what they held there and
   the others anything; the client fills the rest; a block given up (gone) is
   nobody's. *)
Written(N, h, size, tag, src, carried, promised, gone) ==
    [b \in DOMAIN mem |->
        IF \E g \in DOMAIN N \ Chunks : b \in Bytes(g, HeaderSize) THEN Header
        ELSE IF b \in Bytes(h + HeaderSize, carried) THEN mem[b - h + src]
        ELSE IF b \in Bytes(h + HeaderSize, promised) THEN Junk
        ELSE IF b \in Bytes(h + HeaderSize, size) THEN tag
        ELSE IF gone # NULL /\ b \in Bytes(gone + HeaderSize, node[gone].size) THEN Junk
        ELSE mem[b]]

Hold(h, size, tag, gone) ==
    [g \in ((DOMAIN held) \ {gone}) \cup {h} |->
        IF g = h THEN [len |-> size, tag |-> tag] ELSE held[g]]

GiveUp(h) == [g \in (DOMAIN held) \ {h} |-> held[g]]

-----------------------------------------------------------------------------
(* init and destroy.                                                        *)

(* The conversion to int of a size_t.                                        *)
ToInt(n) == IF n > IntMax THEN n - 2 * (IntMax + 1) ELSE n

RoundToPage(size) == ((size + PageSize - 1) \div PageSize) * PageSize

InitBadSize(size) ==
    /\ size = 0 \/ size > IntMax
    /\ statusno' = ERR_BAD_ARGUMENTS
    /\ UNCHANGED <<arena, arena_size, node, mem, held, broken>>

(* /dev/zero does not open: the arena there was, if any, is still in use.    *)
InitOpenFails(size) ==
    /\ size \in 1 .. IntMax
    /\ statusno' = ERR_SYSCALL_FAILED
    /\ UNCHANGED <<arena, arena_size, node, mem, held, broken>>

(* mmap fails: the pointer is MAP_FAILED from now on, which is not NULL, and
   the arena there was is forgotten. *)
InitMmapFails(size) ==
    /\ size \in 1 .. IntMax
    /\ arena' = "MAP_FAILED"
    /\ statusno' = ERR_SYSCALL_FAILED
    /\ node' = Empty /\ mem' = Empty /\ held' = Empty
    /\ UNCHANGED <<arena_size, broken>>

(* A new arena is one free chunk.  An arena there was stays mapped, and no
   pointer into it is good any more. *)
InitOK(size) ==
    /\ size \in 1 .. IntMax
    /\ LET adjusted == RoundToPage(size)
       IN /\ arena_size' = adjusted
          /\ statusno' = ToInt(adjusted)
          /\ node' = [h \in {0} |-> [size |-> adjusted - HeaderSize, is_free |-> TRUE,
                                     fwd |-> NULL, bwd |-> NULL]]
          /\ mem' = [b \in 0 .. adjusted - 1 |-> IF b < HeaderSize THEN Header ELSE Junk]
    /\ arena' = "mapped"
    /\ held' = Empty
    /\ UNCHANGED broken

Destroy ==
    /\ IF arena = "mapped"
       THEN /\ arena' = "NULL" /\ arena_size' = 0 /\ statusno' = 0
            /\ node' = Empty /\ mem' = Empty /\ held' = Empty
       ELSE /\ statusno' = IF arena = "NULL" THEN ERR_UNINITIALIZED ELSE ERR_SYSCALL_FAILED
            /\ UNCHANGED <<arena, arena_size, node, mem, held>>
    /\ UNCHANGED broken

-----------------------------------------------------------------------------
(* walloc, wfree, wrealloc.                                                 *)

Walloc(size, tag) ==
    /\ arena = "mapped"
    /\ \E h \in Chunks :
         /\ FirstFit(node, size, h)
         /\ LET N == Carve(node, h, size)
            IN /\ node' = N
               /\ mem' = Written(N, h, size, tag, h, 0, 0, NULL)
               /\ held' = Hold(h, size, tag, NULL)
    /\ UNCHANGED <<arena, arena_size, statusno, broken>>

WallocFails(size) ==
    /\ \/ arena = "NULL" /\ statusno' = ERR_UNINITIALIZED
       \/ arena = "mapped" /\ Fits(node, size) = {} /\ statusno' = ERR_OUT_OF_MEMORY
    /\ UNCHANGED <<arena, arena_size, node, mem, held, broken>>

(* After a failed init the list is looked for at MAP_FAILED.                 *)
WallocCrashes(size) ==
    /\ arena = "MAP_FAILED"
    /\ broken' = "walloc"
    /\ UNCHANGED <<arena, arena_size, statusno, node, mem, held>>

Wfree(h) ==
    /\ h \in DOMAIN held
    /\ held' = GiveUp(h)
    /\ IF InArena(h)
       THEN /\ node' = Freed(node, h)
            /\ mem' = Written(node, h, 0, Junk, h, 0, 0, h)
       ELSE UNCHANGED <<node, mem>>
    /\ UNCHANGED <<arena, arena_size, statusno, broken>>

(* wrealloc can grow or shrink the chunk into the free one behind it.        *)
NextIsEnough(h, size) ==
    /\ IsFree(node, node[h].fwd)
    /\ node[h].size + HeaderSize + node[node[h].fwd].size >= size

(* The two chunks taken together, cut to size.                               *)
Extend(N, h, size) == Carve(MergeNext(N, h), h, size)

(* The header split off is written while fwd of the header it replaces is yet
   to be read, and the two can overlap: fwd is then read wrong. *)
Overlaps(h, size) ==
    /\ Splits(node[h].size + HeaderSize + node[node[h].fwd].size, size)
    /\ size - node[h].size \in Clobbers

Smaller(m, n) == IF m < n THEN m ELSE n

WreallocInPlace(h, size) ==
    /\ h \in DOMAIN held
    /\ size # 0
    /\ NextIsEnough(h, size) /\ ~Overlaps(h, size)
    /\ LET N    == Extend(node, h, size)
           kept == Smaller(held[h].len, size)
       IN /\ node' = N
          /\ mem' = Written(N, h, size, held[h].tag, h, kept, kept, NULL)
          /\ held' = Hold(h, size, held[h].tag, NULL)
    /\ UNCHANGED <<arena, arena_size, statusno, broken>>

(* The wrong fwd goes into the list, and bwd is written wherever it points.   *)
WreallocBreaks(h, size) ==
    /\ h \in DOMAIN held
    /\ size # 0
    /\ NextIsEnough(h, size) /\ Overlaps(h, size)
    /\ broken' = "wrealloc"
    /\ UNCHANGED <<arena, arena_size, statusno, node, mem, held>>

(* What memcpy carries over: what the old chunk and the new block both have
   room for.  Slip: only as many bytes as the block grows by. *)
CopyGrowth(h, size) == IF size > node[h].size THEN size - node[h].size ELSE 0
CopySize(h, size) == Smaller(node[h].size, size)

(* Otherwise the block moves, or stays as it is when nothing fits, be it
   larger or smaller than before. *)
WreallocMoves(h, size) ==
    /\ h \in DOMAIN held
    /\ size # 0
    /\ ~NextIsEnough(h, size)
    /\ \E to \in Chunks :
         /\ FirstFit(node, size, to)
         /\ LET N    == Carve(node, to, size)
                kept == Smaller(held[h].len, size)
            IN /\ node' = IF InArena(h) THEN Freed(N, h) ELSE N
               /\ mem' = Written(N, to, size, held[h].tag, h, Smaller(CopySize(h, size), kept),
                                 kept, h)
               /\ held' = Hold(to, size, held[h].tag, h)
    /\ UNCHANGED <<arena, arena_size, statusno, broken>>

WreallocFails(h, size) ==
    /\ h \in DOMAIN held
    /\ size # 0
    /\ ~NextIsEnough(h, size)
    /\ Fits(node, size) = {}
    /\ statusno' = ERR_OUT_OF_MEMORY
    /\ UNCHANGED <<arena, arena_size, node, mem, held, broken>>

(* wrealloc(ptr, 0) frees the block and allocates an empty one.              *)
WreallocZero(h, tag) ==
    /\ h \in DOMAIN held
    /\ LET free == IF InArena(h) THEN Freed(node, h) ELSE node
       IN \E to \in DOMAIN free :
            /\ FirstFit(free, 0, to)
            /\ LET N == Carve(free, to, 0)
               IN /\ node' = N
                  /\ mem' = Written(N, to, 0, tag, to, 0, 0, h)
                  /\ held' = Hold(to, 0, tag, h)
    /\ UNCHANGED <<arena, arena_size, statusno, broken>>

Call ==
    \/ \E size \in InitSizes : \/ InitBadSize(size) \/ InitOpenFails(size)
                              \/ InitMmapFails(size) \/ InitOK(size)
    \/ Destroy
    \/ \E size \in Sizes, tag \in Tag : Walloc(size, tag)
    \/ \E size \in Sizes : WallocFails(size) \/ WallocCrashes(size)
    \/ \E h \in DOMAIN held :
         \/ Wfree(h)
         \/ \E size \in Sizes : \/ WreallocInPlace(h, size) \/ WreallocBreaks(h, size)
                                \/ WreallocMoves(h, size) \/ WreallocFails(h, size)
         \/ WreallocZero(h, held[h].tag)

Dead == broken # "no" /\ UNCHANGED vars

Next == (broken = "no" /\ Call) \/ Dead

Spec == Init /\ [][Next]_vars

-----------------------------------------------------------------------------
(* Properties.                                                              *)

(* A list N that cuts an arena of top bytes into chunks: the first chunk
   begins it, each chunk ends where its fwd begins and the last one with the
   arena, bwd undoes fwd, and no header lies inside another chunk. *)
LinkedForward(N, top, h) ==
    IF N[h].fwd = NULL THEN End(N, h) = top
    ELSE N[h].fwd \in DOMAIN N /\ N[h].fwd = End(N, h) /\ N[N[h].fwd].bwd = h
LinkedBack(N, h) ==
    IF h = 0 THEN N[h].bwd = NULL
    ELSE N[h].bwd \in DOMAIN N /\ N[N[h].bwd].fwd = h
Tiles(N, top) ==
    /\ 0 \in DOMAIN N
    /\ \A h \in DOMAIN N : LinkedForward(N, top, h) /\ LinkedBack(N, h)
    /\ \A g, h \in DOMAIN N : g > h => g >= End(N, h)

(* The list and the row of chunks are the same thing: nothing of the arena is
   ever lost or given out twice. *)
Tiling == arena = "mapped" => Tiles(node, arena_size)

(* Freeing coalesces completely: no two free chunks are neighbours.          *)
Coalesced ==
    \A h \in Chunks : node[h].is_free => ~IsFree(node, node[h].fwd)

(* The allocated chunks are the blocks the client holds, each large enough for
   what the client keeps there: no block leaks, none is handed out twice. *)
HeldIsAllocated ==
    /\ \A h \in Chunks : node[h].is_free <=> h \notin DOMAIN held
    /\ \A h \in DOMAIN held : held[h].len <= node[h].size

(* No call disturbs what the client has written, wrealloc's copy included, and
   the client, writing only what it asked for, hits no header. *)
DataIntact ==
    /\ \A h \in DOMAIN held :
         \A b \in Bytes(h + HeaderSize, held[h].len) : mem[b] = held[h].tag
    /\ \A h \in Chunks : \A b \in Bytes(h, HeaderSize) : mem[b] = Header

(* wfree accepts every pointer that walloc gave out: the range check never
   turns down an empty block at the end of the arena. *)
NoBlockRefused == \A h \in DOMAIN held : InArena(h)

(* goatmalloc.c, lines 195 to 196: growing into the free chunk behind splits
   that one, adjusts the headers and the list and returns. *)
WreallocGrowsInPlace == broken # "wrealloc"
=============================================================================
