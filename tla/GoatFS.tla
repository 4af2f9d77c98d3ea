------------------------------- MODULE GoatFS -------------------------------
(***************************************************************************)
(* assigned-project-files/solution/goatfs.c on top of disk.c: a file system *)
(* on an array of blocks.  Block 0 is the superblock, InodeBlocks blocks of *)
(* inodes follow, the rest hold file data and blocks of pointers.  Which    *)
(* inodes and blocks are in use is kept in memory alone and worked out at   *)
(* mount.  Every write of a block is a step, and the process may end        *)
(* between any two.                                                         *)
(*                                                                          *)
(* One client calls, one call at a time.  As test_goatfs.c does, it writes  *)
(* a file from its end on; or, with Overwrites, over bytes that the file    *)
(* has, as far as it knows: below the Size that stat tells.                 *)
(***************************************************************************)
EXTENDS Naturals, Sequences

CONSTANTS Blocks,         \* _disk->Blocks
          InodesPerBlock, \* 128
          Pointers,       \* POINTERS_PER_INODE, 5
          BlockSize,      \* bytes in a block, and pointers in one: 4096 and 1024
          Tag,            \* what the client writes, over and over
          Images,         \* the disks the process may be started on
          Lengths,        \* how much it writes in a call
          MaxSize,        \* bound: no write takes a file's Size beyond it
          Overwrites      \* whether it writes over what is there

(* On a disk of one block mount's read of the inodes ends the process.      *)
ASSUME DiskAssumption ==
    /\ Blocks \in Nat \ {0, 1} /\ InodesPerBlock \in Nat \ {0}
    /\ Pointers \in Nat \ {0} /\ BlockSize \in Nat \ {0}
    /\ Tag \cap Nat = {}
    /\ Lengths \subseteq Nat \ {0} /\ MaxSize \in Nat
    /\ Overwrites \in BOOLEAN

(* Behind a full block of pointers the code reads past its buffer.           *)
ASSUME ReachAssumption == MaxSize <= BlockSize * (Pointers + BlockSize)

InodeBlocks == (Blocks + 9) \div 10            \* ceil(blocks * .1)
Inum        == 0 .. InodeBlocks * InodesPerBlock - 1
DataBlock   == InodeBlocks + 1 .. Blocks - 1
Slot        == 0 .. Pointers - 1
Cells       == 0 .. BlockSize - 1

Inode   == [valid : BOOLEAN, size : 0 .. MaxSize,
            direct : [Slot -> {0} \cup DataBlock], indirect : {0} \cup DataBlock]
Block   == [Cells -> Tag \cup {0} \cup DataBlock]
Zeroes  == [c \in Cells |-> 0]
NoInode == [valid |-> FALSE, size |-> 0, direct |-> [k \in Slot |-> 0], indirect |-> 0]

VARIABLES
    super,      \* block 0: "blank", "valid", or "data" once a file's bytes are there
    inode,      \* the inodes in blocks 1 .. InodeBlocks
    data,       \* the blocks after them
    mounted,    \* _disk->Mounts # 0
    i_bitmap,   \* the inodes whose bit is set
    d_bitmap,   \* the data blocks whose bit is set
    op          \* the call under way and its locals

vars   == <<super, inode, data, mounted, i_bitmap, d_bitmap, op>>
disk   == <<super, inode, data>>
memory == <<mounted, i_bitmap, d_bitmap>>

Idle      == [call |-> "none"]
Format_   == [call : {"format"}, next : 1 .. Blocks - 1]
Remove_   == [call : {"remove"}, inum : Inum, node : Inode, todo : Seq(DataBlock)]
Write_    == [call : {"write"}, inum : Inum, node : Inode, tag : Tag,
              pos : Nat, left : Nat, written : Nat, chain : Block, buffer : Block]

TypeOK ==
    /\ super \in {"blank", "valid", "data"}
    /\ inode \in [Inum -> Inode]
    /\ data \in [DataBlock -> Block]
    /\ mounted \in BOOLEAN
    /\ i_bitmap \subseteq Inum /\ d_bitmap \subseteq DataBlock
    /\ op \in {Idle} \cup Format_ \cup Remove_ \cup Write_

Init ==
    /\ \E image \in Images :
         super = image.super /\ inode = image.inode /\ data = image.data
    /\ mounted = FALSE /\ i_bitmap = {} /\ d_bitmap = {}
    /\ op = Idle

Lowest(S)     == CHOOSE n \in S : \A m \in S : n <= m
Leading(f, n) == Lowest({k \in 0 .. n : k = n \/ f[k] = 0})   \* entries before a zero
Entries(f, n) == [k \in 1 .. Leading(f, n) |-> f[k - 1]]
Members(s)    == {s[k] : k \in DOMAIN s}

(***************************************************************************)
(* mount and format.                                                        *)
(***************************************************************************)

(* Slips: the blocks a block of pointers names are not marked; the last direct
   one is not; a pointer that is 0 is taken for a block.                     *)
DirectOnly(node) == Members(Entries(node.direct, Pointers))
AllButLast(node) == Members(Entries(node.direct, Pointers - 1))
AnyDirect(node)  == {node.direct[k] : k \in Slot}

(* The block of pointers is read, not marked.                                *)
Populate(node) ==
    Members(Entries(node.direct, Pointers))
    \cup IF node.indirect # 0 /\ Leading(node.direct, Pointers) = Pointers
         THEN Members(Entries(data[node.indirect], BlockSize))
         ELSE {}

(* The bitmaps are not cleared when they are allocated: here they are zero,
   as memory is that malloc has not handed out before.                       *)
Mount ==
    /\ op = Idle /\ ~mounted
    /\ super = "valid"
    /\ mounted' = TRUE
    /\ i_bitmap' = {i \in Inum : inode[i].valid}
    /\ d_bitmap' = UNION {Populate(inode[i]) : i \in {i \in Inum : inode[i].valid}}
    /\ UNCHANGED <<disk, op>>

Format ==
    /\ op = Idle /\ ~mounted
    /\ super' = "valid"
    /\ op' = [call |-> "format", next |-> 1]
    /\ UNCHANGED <<inode, data, memory>>

FormatNext ==
    /\ op.call = "format"
    /\ IF op.next \in DataBlock
       THEN data' = [data EXCEPT ![op.next] = Zeroes] /\ UNCHANGED inode
       ELSE /\ inode' = [i \in Inum |-> IF i \div InodesPerBlock = op.next - 1
                                        THEN NoInode ELSE inode[i]]
            /\ UNCHANGED data
    /\ op' = IF op.next = Blocks - 1 THEN Idle ELSE [op EXCEPT !.next = @ + 1]
    /\ UNCHANGED <<super, memory>>

(***************************************************************************)
(* create and wremove.  Nothing a call does is modelled once the superblock *)
(* it reads holds a file's bytes.                                           *)
(***************************************************************************)

Ready == op = Idle /\ mounted /\ super = "valid"

(* What create returns is not its number but its index in its block.        *)
FreeInode == Lowest(Inum \ i_bitmap)

(* The pointers the inode had stay as they are.                              *)
Created(node) == [node EXCEPT !.valid = TRUE, !.size = 0, !.indirect = 0]

Create ==
    /\ Ready
    /\ i_bitmap # Inum
    /\ inode' = [inode EXCEPT ![FreeInode] = Created(@)]
    /\ i_bitmap' = i_bitmap \cup {FreeInode}
    /\ UNCHANGED <<super, data, mounted, d_bitmap, op>>

(* Slip: the blocks are zeroed, the pointers to them stay.                   *)
KeepDirect(node) == node.direct

DropDirect(node) ==
    [k \in Slot |-> IF k < Leading(node.direct, Pointers) THEN 0 ELSE node.direct[k]]

StartRemove(i) ==
    /\ Ready
    /\ inode[i].valid
    /\ op' = [call |-> "remove", inum |-> i,
              node |-> [inode[i] EXCEPT !.direct = DropDirect(inode[i])],
              todo |-> Entries(inode[i].direct, Pointers)]
    /\ UNCHANGED <<disk, memory>>

(* A block is filled with zeroes; its bit in d_bitmap stays set.             *)
RemoveBlock ==
    /\ op.call = "remove" /\ op.todo # <<>>
    /\ data' = [data EXCEPT ![Head(op.todo)] = Zeroes]
    /\ op' = [op EXCEPT !.todo = Tail(@)]
    /\ UNCHANGED <<super, inode, memory>>

RemoveIndirect ==
    /\ op.call = "remove" /\ op.todo = <<>> /\ op.node.indirect # 0
    /\ op' = [op EXCEPT !.todo = Append(Entries(data[op.node.indirect], BlockSize),
                                        op.node.indirect),
                        !.node.indirect = 0]
    /\ UNCHANGED <<disk, memory>>

(* Slip: the bit stays set.                                                  *)
KeepBit(i)  == i_bitmap
ClearBit(i) == i_bitmap \ {i}

RemoveEnd ==
    /\ op.call = "remove" /\ op.todo = <<>> /\ op.node.indirect = 0
    /\ inode' = [inode EXCEPT ![op.inum] = [op.node EXCEPT !.valid = FALSE, !.size = 0]]
    /\ i_bitmap' = ClearBit(op.inum)
    /\ op' = Idle
    /\ UNCHANGED <<super, data, mounted, d_bitmap>>

(***************************************************************************)
(* wfswrite, a block at a time, and wfsread.                                *)
(***************************************************************************)

(* The bytes a file's blocks hold.                                           *)
Held(node) == BlockSize * (Leading(node.direct, Pointers)
                           + IF node.indirect = 0 THEN 0
                             ELSE Leading(data[node.indirect], BlockSize))

(* What the client knows of a file is its Size, be there blocks or not.      *)
Offsets(i, len) ==
    IF Overwrites THEN {off \in 0 .. MaxSize : off + len <= inode[i].size}
                  ELSE {inode[i].size}

Write(i, len, tag) ==
    /\ Ready
    /\ i \in i_bitmap
    /\ inode[i].size + len <= MaxSize
    /\ \E off \in Offsets(i, len) :
         op' = [call |-> "write", inum |-> i, node |-> inode[i], tag |-> tag,
                pos |-> off, left |-> len, written |-> 0,
                chain |-> Zeroes, buffer |-> Zeroes]
    /\ UNCHANGED <<disk, memory>>

Writing    == op.call = "write" /\ op.left > 0
BlockNo    == op.pos \div BlockSize
cur_offset == op.pos % BlockSize
ToWrite    == IF op.left + cur_offset > BlockSize THEN BlockSize - cur_offset ELSE op.left

(* memcpy into the buffer the block is written from.                         *)
Overlay(block) ==
    [c \in Cells |-> IF c \in cur_offset .. cur_offset + ToWrite - 1
                     THEN op.tag ELSE block[c]]

Advanced(block) == [op EXCEPT !.pos = @ + ToWrite, !.left = @ - ToWrite,
                              !.written = @ + ToWrite, !.buffer = block]

(* Slip: the block is not marked.                                            *)
Unmarked(b)       == d_bitmap
update_dbitmap(b) == d_bitmap \cup {b}

FreeBlocks == DataBlock \ d_bitmap

(* Slip: the buffer is not filled from the block first.                      *)
Afresh(b)   == Overlay(Zeroes)
Refilled(b) == Overlay(data[b])

WriteTo(b) ==
    /\ data' = [data EXCEPT ![b] = Refilled(b)]
    /\ op' = [Advanced(Refilled(b)) EXCEPT !.node.direct[BlockNo] = b]
    /\ UNCHANGED <<super, inode, mounted, i_bitmap>>

WriteDirect ==
    /\ Writing /\ BlockNo < Pointers
    /\ op.node.direct[BlockNo] # 0
    /\ WriteTo(op.node.direct[BlockNo])
    /\ UNCHANGED d_bitmap

WriteNew ==
    /\ Writing /\ BlockNo < Pointers
    /\ op.node.direct[BlockNo] = 0 /\ FreeBlocks # {}
    /\ WriteTo(Lowest(FreeBlocks))
    /\ d_bitmap' = update_dbitmap(Lowest(FreeBlocks))

(* No block is free: the call fails, and the blocks it took stay marked.     *)
WriteFull ==
    /\ Writing /\ BlockNo < Pointers
    /\ op.node.direct[BlockNo] = 0 /\ FreeBlocks = {}
    /\ op' = Idle
    /\ UNCHANGED <<disk, memory>>

(* Slip: the pointer after the one the offset calls for.                     *)
NextPointer(chain)      == chain[BlockNo - Pointers + 1]
indirect_pointer(chain) == chain[BlockNo - Pointers]

(* Where the file has no block of pointers, or that has no pointer, the
   pointer is 0; and what is written is the buffer, whatever it held.        *)
WriteIndirect ==
    /\ Writing /\ BlockNo >= Pointers
    /\ LET chain == IF op.chain[0] = 0 /\ op.node.indirect # 0
                    THEN data[op.node.indirect] ELSE op.chain
           b     == indirect_pointer(chain)
           block == Overlay(op.buffer)
       IN  /\ \/ b = 0 /\ super' = "data" /\ UNCHANGED data
              \/ b \in DataBlock /\ data' = [data EXCEPT ![b] = block] /\ UNCHANGED super
           /\ op' = [Advanced(block) EXCEPT !.chain = chain]
    /\ UNCHANGED <<inode, memory>>

(* Slip: the offset is counted in.                                           *)
SizeTwice(node) == op.pos + op.written
SizeAdded(node) == node.size + op.written

WriteEnd ==
    /\ op.call = "write" /\ op.left = 0
    /\ inode' = [inode EXCEPT ![op.inum] = [op.node EXCEPT !.size = SizeAdded(op.node)]]
    /\ op' = Idle
    /\ UNCHANGED <<super, data, memory>>

(* What wfsread(i, Size, 0) returns.                                         *)
BlockOf(node, k) == IF k < Pointers THEN node.direct[k]
                                    ELSE data[node.indirect][k - Pointers]
wfsread(i) ==
    [n \in 1 .. inode[i].size |->
        LET b == BlockOf(inode[i], (n - 1) \div BlockSize)
        IN  IF b \in DataBlock THEN data[b][(n - 1) % BlockSize] ELSE 0]

(***************************************************************************)
(* The process ends, whatever it was doing, and another one starts.         *)
(***************************************************************************)
Exit ==
    /\ mounted \/ op # Idle
    /\ mounted' = FALSE /\ i_bitmap' = {} /\ d_bitmap' = {}
    /\ op' = Idle
    /\ UNCHANGED disk

Next ==
    \/ Mount \/ Format \/ FormatNext
    \/ Create
    \/ \E i \in Inum : StartRemove(i)
    \/ RemoveBlock \/ RemoveIndirect \/ RemoveEnd
    \/ \E i \in Inum, len \in Lengths, tag \in Tag : Write(i, len, tag)
    \/ WriteDirect \/ WriteNew \/ WriteFull \/ WriteIndirect \/ WriteEnd
    \/ Exit

Spec == Init /\ [][Next]_vars

-----------------------------------------------------------------------------
(***************************************************************************)
(* The disks the theorems are about: what format leaves, and what another   *)
(* file system of this layout may have written.                             *)
(***************************************************************************)

(* The pointers that are set come first.                                     *)
NoHoles(f) == \A k, l \in Slot : k < l /\ f[l] # 0 => f[k] # 0

(* The first n bytes are in the direct blocks, or these are all in use.      *)
Fits(f, n) == \A k \in Slot : f[k] = 0 => n <= BlockSize * k

Full(f) == \A k \in Slot : f[k] # 0

(* Only a file that has all its direct blocks has a block of pointers.  With a
   client that overwrites the others are empty: it raises the Size of a file and
   goes on writing below, and would leave holes. *)
Whole(node) ==
    /\ NoHoles(node.direct)
    /\ node.indirect # 0 => Full(node.direct)
    /\ IF Overwrites THEN node.size = 0 \/ Full(node.direct)
                     ELSE Fits(node.direct, node.size)

Clean(node) == \A k \in Slot : node.direct[k] = 0

(* The blocks of one inode are not those of another, nor twice its own.      *)
Distinct(f)  == \A k, l \in Slot : k # l => f[k] # f[l] \/ f[k] = 0
Disjoint(f, g) == \A k, l \in Slot : f[k] # g[l] \/ f[k] = 0

Sound(table) ==
    /\ table \in [Inum -> Inode]
    /\ \A i \in Inum : IF table[i].valid THEN Whole(table[i]) ELSE Clean(table[i])
    /\ \A i \in Inum : Distinct(table[i].direct)
    /\ \A i, j \in Inum : i # j => Disjoint(table[i].direct, table[j].direct)

SoundImages ==
    \A image \in Images : image.super \in {"blank", "valid"} /\ Sound(image.inode)

(* A block of pointers holds pointers, to blocks that are none themselves,   *)
(* and is not among a file's direct blocks.                                  *)
SoundChains(table, blocks) ==
    /\ blocks \in [DataBlock -> Block]
    /\ Overwrites \/ \A i \in Inum : table[i].indirect = 0
    /\ \A i, j \in Inum : table[i].indirect # 0 =>
         /\ \A c \in Cells : /\ blocks[table[i].indirect][c] \in {0} \cup DataBlock
                            /\ \/ blocks[table[i].indirect][c] = 0
                               \/ blocks[table[i].indirect][c] # table[j].indirect
         /\ \A k \in Slot : table[j].direct[k] # table[i].indirect

SoundDisks ==
    SoundImages /\ \A image \in Images : SoundChains(image.inode, image.data)

(* Of files' bytes, and of the blocks in no file, only what a client writes or
   format leaves. *)
PlainDisks ==
    \A image \in Images : \A n \in DataBlock, c \in Cells : image.data[n][c] \in Tag \cup {0}

-----------------------------------------------------------------------------
Valid        == {i \in Inum : inode[i].valid}
Direct(node) == {node.direct[k] : k \in Slot} \ {0}
Chain(node)  == IF node.indirect = 0 THEN {}
                ELSE Members(Entries(data[node.indirect], BlockSize))

(* A block belongs to one file, at one place in it: what find_free_dblock
   picks is in no file, although a crash forgets the bitmap, a failed write
   leaves its blocks marked and create takes over the pointers of an inode
   removed before. *)
NoSharedBlocks ==
    /\ \A i, j \in Valid : i # j => Direct(inode[i]) \cap Direct(inode[j]) = {}
    /\ \A i \in Valid : \A k, l \in Slot :
         k # l => inode[i].direct[k] # inode[i].direct[l] \/ inode[i].direct[k] = 0

(* While the disk is mounted the block bitmap covers every block of a file's
   bytes: those that populate_d_bitmap found and those given out since, the
   ones of a write that has not reached the inode table included. *)
BitmapCovers ==
    mounted => /\ \A i \in Valid : Direct(inode[i]) \cup Chain(inode[i]) \subseteq d_bitmap
               /\ op.call = "write" => Direct(op.node) \subseteq d_bitmap

(* While the disk is mounted an inode's bit is set if and only if the inode on
   the disk is valid: wfswrite and stat go by the one, wremove by the other. *)
InodeBitmapExact == mounted => i_bitmap = Valid

(* An inode that is free points to no block: create leaves the pointers it
   finds (goatfs.c, line 217), and would hand them to the new file. *)
FreeInodesClean == \A i \in Inum \ Valid : Direct(inode[i]) = {}

(* Every byte below a file's Size is in a block of the file, whichever write
   was cut short by a crash or a full disk. *)
SizeCovered == \A i \in Valid : inode[i].size <= Held(inode[i])

(* For a client that appends, the files are what a store of files promises: a
   write adds all it was given or, when it fails or the process ends, nothing,
   and no call changes another file. *)
Store == INSTANCE FileStore WITH Zero  <- 0,
                                 files <- [i \in Valid |-> wfsread(i)],
                                 removing <- IF op.call = "remove" THEN {op.inum} ELSE {}
StoreSpec == Store!Spec

(* goatfs.c, line 126: "for each block pointer, mark it as taken in the
   d_bitmap".  The pointer to the block of pointers is one. *)
UsedBlocksMarked ==
    mounted => \A i \in Valid : inode[i].indirect # 0 => inode[i].indirect \in d_bitmap

(* README.txt, 8.5: a write that needs a block takes a free one.  Block 0 never
   is free. *)
SuperblockKept == super # "data"

(* A client that writes below a file's Size loses the superblock only to a Size
   that is beyond the blocks: raised by an overwrite (goatfs.c, line 513), or
   left standing over a block of pointers that a wremove cut short has zeroed.
   Whoever stays within the blocks is led to the pointer of its block. *)
LostBySizeAlone ==
    super = "data" => \E i \in Valid : inode[i].size > Held(inode[i])
=============================================================================
