---------------------------- MODULE GoatFS_proofs ----------------------------
(***************************************************************************)
(* Proofs about GoatFS, for a disk of any number of blocks of any size and  *)
(* inodes of any number of pointers, started on any disks that are sound.   *)
(***************************************************************************)
EXTENDS GoatFS, WellFoundedInduction, TLAPS

(***************************************************************************)
(* The invariant for the direct blocks.  It says nothing of the blocks of   *)
(* pointers and holds whatever they contain.                                *)
(***************************************************************************)

Marked(table) == \A i \in Inum, k \in Slot :
                    table[i].direct[k] # 0 => table[i].direct[k] \in d_bitmap

(* The table as it will be when the write under way ends, but for the Size.  *)
Pending == [inode EXCEPT ![op.inum] = op.node]

MemoryInv ==
    /\ mounted \in BOOLEAN
    /\ mounted => i_bitmap = Valid /\ Marked(inode)

FormatInv == op.call = "format" => op \in Format_ /\ ~mounted

RemoveInv ==
    op.call = "remove" =>
       /\ mounted
       /\ op = [call |-> "remove", inum |-> op.inum, node |-> op.node, todo |-> op.todo]
       /\ op.inum \in Inum /\ op.node \in Inode
       /\ Clean(op.node)

(* The locals of a write, one by one.                                        *)
WriteCall(i, n, t, p, l, w, c, b) ==
    [call |-> "write", inum |-> i, node |-> n, tag |-> t, pos |-> p, left |-> l,
     written |-> w, chain |-> c, buffer |-> b]

(* A client that appends is at the end of what is there.  One that overwrites
   stays below the Size, in a file that has all its direct blocks.           *)
WriteInv ==
    op.call = "write" =>
       /\ mounted
       /\ op = WriteCall(op.inum, op.node, op.tag, op.pos, op.left, op.written,
                         op.chain, op.buffer)
       /\ op.inum \in Inum /\ op.node \in Inode
       /\ op.pos \in Nat /\ op.left \in Nat /\ op.written \in Nat
       /\ op.node.size + op.written + op.left <= MaxSize
       /\ inode[op.inum].valid /\ op.node.valid
       /\ Sound(Pending) /\ Marked(Pending)
       /\ IF Overwrites THEN Full(op.node.direct) /\ op.pos + op.left <= op.node.size
          ELSE Fits(op.node.direct, op.pos) /\ op.pos = op.node.size + op.written

CallInv == op = Idle \/ op.call \in {"format", "remove", "write"}

DirectInv ==
    Sound(inode) /\ MemoryInv /\ CallInv /\ FormatInv /\ RemoveInv /\ WriteInv
-----------------------------------------------------------------------------
(* The operators.                                                           *)

LEMMA SizeFacts ==
    /\ InodeBlocks \in Nat /\ Inum \subseteq Nat /\ DataBlock \subseteq Nat /\ 0 \notin DataBlock
    /\ Slot \subseteq Nat /\ 0 \in Slot
    /\ \A k \in Slot : k < Pointers
    /\ \A k \in Nat : k < Pointers => k \in Slot
    /\ MaxSize \in Nat /\ Pointers \in Nat \ {0} /\ BlockSize \in Nat \ {0}
<1>1. InodeBlocks \in Nat
  BY DiskAssumption DEF InodeBlocks
<1> QED BY <1>1, DiskAssumption DEF Inum, DataBlock, Slot

LessThan == {ss \in Nat \X Nat : ss[1] < ss[2]}

LEMMA LowestFacts ==
    ASSUME NEW S \in SUBSET Nat, S # {}
    PROVE  Lowest(S) \in S /\ \A m \in S : Lowest(S) <= m
<1>1. \E x \in S : \A y \in S : x <= y
  <2>1. IsWellFoundedOn(LessThan, Nat)
    BY NatLessThanWellFounded, Zenon DEF LessThan, OpToRel
  <2>2. \E x \in S : \A y \in S : ~(<<y, x>> \in LessThan)
    BY <2>1, WFMin
  <2>3. \A x \in S, y \in S : <<y, x>> \in LessThan <=> y < x
    BY DEF LessThan
  <2>4. \A x \in S, y \in S : ~(y < x) => x <= y
    OBVIOUS
  <2> QED BY <2>2, <2>3, <2>4
<1> QED BY <1>1, Zenon DEF Lowest

LEMMA LeadingFacts ==
    ASSUME NEW f, NEW n \in Nat
    PROVE  /\ Leading(f, n) \in 0 .. n
           /\ Leading(f, n) = n \/ f[Leading(f, n)] = 0
           /\ \A k \in 0 .. n : k < Leading(f, n) => f[k] # 0
<1> DEFINE S == {k \in 0 .. n : k = n \/ f[k] = 0}
<1>1. S \in SUBSET Nat /\ n \in S
  OBVIOUS
<1>2. Lowest(S) \in S /\ \A m \in S : Lowest(S) <= m
  BY <1>1, LowestFacts
<1>3. Leading(f, n) = Lowest(S)
  BY DEF Leading
<1> HIDE DEF S
<1>4. \A k \in 0 .. n : k < Lowest(S) => k \notin S
  <2> TAKE k \in 0 .. n
  <2>1. Lowest(S) \in Nat
    BY <1>1, <1>2
  <2> QED BY <1>2, <2>1
<1> QED BY <1>2, <1>3, <1>4 DEF S

LEMMA EntriesFacts ==
    ASSUME NEW f, NEW n \in Nat
    PROVE  /\ DOMAIN Entries(f, n) = 1 .. Leading(f, n)
           /\ \A k \in 1 .. Leading(f, n) : Entries(f, n)[k] = f[k - 1]
           /\ Members(Entries(f, n)) = {f[k] : k \in 0 .. Leading(f, n) - 1}
<1>1. Leading(f, n) \in Nat
  BY LeadingFacts
<1>2. /\ DOMAIN Entries(f, n) = 1 .. Leading(f, n)
      /\ \A k \in 1 .. Leading(f, n) : Entries(f, n)[k] = f[k - 1]
  BY DEF Entries
<1> DEFINE l == Leading(f, n)
<1> HIDE DEF l
<1>3. \A k \in 0 .. l - 1 : k + 1 \in 1 .. l /\ (k + 1) - 1 = k
  BY <1>1 DEF l
<1>4. \A k \in 1 .. l : k - 1 \in 0 .. l - 1
  BY <1>1 DEF l
<1>5. Members(Entries(f, n)) = {f[k - 1] : k \in 1 .. l}
  BY <1>2 DEF Members, l
<1>6. {f[k - 1] : k \in 1 .. l} = {f[k] : k \in 0 .. l - 1}
  BY <1>3, <1>4
<1> QED BY <1>2, <1>5, <1>6 DEF l

(* Without a hole, what mount reads of the direct blocks is all of them.     *)
LEMMA DirectEntries ==
    ASSUME NEW f, NoHoles(f), NEW k \in Slot, f[k] # 0
    PROVE  k < Leading(f, Pointers) /\ f[k] \in Members(Entries(f, Pointers))
<1> DEFINE l == Leading(f, Pointers)
<1>1. l \in 0 .. Pointers /\ (l = Pointers \/ f[l] = 0)
  BY LeadingFacts, SizeFacts
<1>2. Members(Entries(f, Pointers)) = {f[j] : j \in 0 .. l - 1}
  BY EntriesFacts, SizeFacts
<1> HIDE DEF l
<1>3. k \in Nat /\ k < Pointers /\ Pointers \in Nat
  BY SizeFacts
<1>4. k < l
  <2> SUFFICES ASSUME l <= k PROVE FALSE
    BY <1>1, <1>3
  <2>1. l # Pointers /\ l \in Slot
    BY <1>1, <1>3, SizeFacts
  <2> QED BY <1>1, <1>3, <2>1 DEF NoHoles
<1>5. k \in 0 .. l - 1
  BY <1>1, <1>3, <1>4
<1> QED BY <1>2, <1>4, <1>5 DEF l

LEMMA DropFacts ==
    ASSUME NEW node \in Inode, NoHoles(node.direct)
    PROVE  DropDirect(node) = [k \in Slot |-> 0]
<1>1. \A k \in Slot : node.direct[k] # 0 => k < Leading(node.direct, Pointers)
  BY DirectEntries
<1> QED BY <1>1 DEF DropDirect

LEMMA NodeFacts ==
    ASSUME NEW node \in Inode
    PROVE  /\ node = [valid |-> node.valid, size |-> node.size, direct |-> node.direct,
                      indirect |-> node.indirect]
           /\ node.valid \in BOOLEAN /\ node.size \in Nat /\ node.size <= MaxSize
           /\ node.direct \in [Slot -> {0} \cup DataBlock]
           /\ node.indirect \in {0} \cup DataBlock
BY SizeFacts DEF Inode

(* A sound table is still sound when one inode in it is replaced by another
   that is whole, or clean, and shares no block.                             *)
LEMMA Replaced ==
    ASSUME NEW table, Sound(table), NEW i \in Inum, NEW node \in Inode,
           IF node.valid THEN Whole(node) ELSE Clean(node),
           Distinct(node.direct),
           \A j \in Inum \ {i} : \A k, l \in Slot :
              node.direct[k] # 0 => node.direct[k] # table[j].direct[l]
    PROVE  Sound([table EXCEPT ![i] = node])
<1> DEFINE t == [table EXCEPT ![i] = node]
<1>1. t \in [Inum -> Inode] /\ t[i] = node /\ \A j \in Inum \ {i} : t[j] = table[j]
  BY DEF Sound
<1> HIDE DEF t
<1>2. \A j \in Inum : IF t[j].valid THEN Whole(t[j]) ELSE Clean(t[j])
  BY <1>1 DEF Sound
<1>3. \A j \in Inum : Distinct(t[j].direct)
  BY <1>1 DEF Sound
<1>4. ASSUME NEW j \in Inum, NEW m \in Inum, j # m PROVE Disjoint(t[j].direct, t[m].direct)
  <2>1. CASE j # i /\ m # i
    BY <1>1, <1>4, <2>1 DEF Sound
  <2>2. CASE j = i
    BY <1>1, <1>4, <2>2 DEF Disjoint
  <2>3. CASE m = i
    BY <1>1, <1>4, <2>3 DEF Disjoint
  <2> QED BY <2>1, <2>2, <2>3
<1> QED BY <1>1, <1>2, <1>3, <1>4 DEF Sound, t
LEMMA Quotient ==
    ASSUME NEW a \in Nat, NEW d \in Nat \ {0}
    PROVE  a \div d \in Nat /\ a % d \in 0 .. d - 1 /\ a = d * (a \div d) + (a % d)
<1>1. a \div d \in Nat
  OBVIOUS
<1>2. a % d \in 0 .. d - 1
  OBVIOUS
<1>3. a = d * (a \div d) + (a % d)
  OBVIOUS
<1> QED BY <1>1, <1>2, <1>3

LEMMA Product ==
    ASSUME NEW a \in Nat, NEW b \in Nat, NEW d \in Nat \ {0}
    PROVE  d * a \in Nat /\ (a <= b => d * a <= d * b) /\ (a < b => d * a + d <= d * b)
           /\ d * (a + b) = d * a + d * b
OBVIOUS

(* A write stays in its block.                                               *)
LEMMA OffsetFacts ==
    ASSUME op.pos \in Nat, op.left \in Nat, op.left > 0
    PROVE  /\ BlockNo \in Nat /\ BlockSize * BlockNo \in Nat
           /\ ToWrite \in Nat /\ 0 < ToWrite /\ ToWrite <= op.left
           /\ BlockSize * BlockNo <= op.pos
           /\ op.pos + ToWrite <= BlockSize * BlockNo + BlockSize
<1> DEFINE q == op.pos \div BlockSize
           r == op.pos % BlockSize
<1>1. q \in Nat /\ r \in 0 .. BlockSize - 1 /\ op.pos = BlockSize * q + r
  BY Quotient, SizeFacts
<1>2. BlockSize * q \in Nat
  BY <1>1, Product, SizeFacts
<1>3. ToWrite = IF op.left + r > BlockSize THEN BlockSize - r ELSE op.left
  BY DEF ToWrite, cur_offset
<1> HIDE DEF q, r
<1> DEFINE w == BlockSize * q
<1> HIDE DEF w
<1>4. /\ ToWrite \in Nat /\ 0 < ToWrite /\ ToWrite <= op.left
      /\ w <= op.pos /\ op.pos + ToWrite <= w + BlockSize
  BY <1>1, <1>2, <1>3, SizeFacts DEF w
<1> QED BY <1>1, <1>2, <1>4 DEF BlockNo, q, w

-----------------------------------------------------------------------------
(* Every step keeps the invariant for the direct blocks.                    *)

LEMMA DirectInit == ASSUME SoundImages, Init PROVE DirectInv
<1>1. Sound(inode)
  BY DEF SoundImages, Init
<1>2. op = Idle /\ MemoryInv
  BY DEF Init, MemoryInv
<1> QED BY <1>1, <1>2 DEF DirectInv, CallInv, FormatInv, RemoveInv, WriteInv, Idle

(* A step that ends a call, or is none, need only look at the table and the
   bitmaps. *)
LEMMA Ended ==
    ASSUME op' = Idle, Sound(inode)', MemoryInv'
    PROVE  DirectInv'
BY DEF DirectInv, CallInv, FormatInv, RemoveInv, WriteInv, Idle

LEMMA DirectMount == ASSUME DirectInv, Mount PROVE DirectInv'
<1>1. op' = Idle /\ inode' = inode /\ mounted' = TRUE /\ i_bitmap' = Valid
  BY DEF Mount, Valid, disk
<1>2. Sound(inode)'
  BY <1>1 DEF DirectInv
<1>3. ASSUME NEW i \in Inum, NEW k \in Slot, inode[i].direct[k] # 0
      PROVE  inode[i].direct[k] \in d_bitmap'
  <2>1. inode[i].valid /\ NoHoles(inode[i].direct)
    BY <1>3 DEF DirectInv, Sound, Clean, Whole
  <2>2. inode[i].direct[k] \in Populate(inode[i])
    BY <1>3, <2>1, DirectEntries DEF Populate
  <2> QED BY <2>1, <2>2 DEF Mount
<1>4. MemoryInv'
  BY <1>1, <1>3 DEF MemoryInv, Marked, Valid
<1> QED BY <1>1, <1>2, <1>4, Ended

LEMMA DirectFormat == ASSUME DirectInv, Format PROVE DirectInv'
<1>1. op' = [call |-> "format", next |-> 1] /\ inode' = inode /\ ~mounted /\ mounted' = mounted
  BY DEF Format, memory
<1>2. op' \in Format_
  BY <1>1, DiskAssumption DEF Format_
<1> QED BY <1>1, <1>2 DEF DirectInv, MemoryInv, CallInv, FormatInv, RemoveInv, WriteInv

LEMMA NoInodeFacts == NoInode \in Inode /\ ~NoInode.valid /\ NoInode.direct = [k \in Slot |-> 0]
BY SizeFacts DEF NoInode, Inode

(* Whichever inodes are wiped.                                               *)
LEMMA Wiped ==
    ASSUME NEW table, Sound(table), NEW t, t \in [Inum -> Inode],
           \A i \in Inum : t[i] = NoInode \/ t[i] = table[i]
    PROVE  Sound(t)
<1>1. \A i \in Inum : IF t[i].valid THEN Whole(t[i]) ELSE Clean(t[i])
  BY NoInodeFacts DEF Sound, Clean
<1>2. \A i \in Inum : Distinct(t[i].direct)
  BY NoInodeFacts DEF Sound, Distinct
<1>3. ASSUME NEW i \in Inum, NEW j \in Inum, i # j PROVE Disjoint(t[i].direct, t[j].direct)
  <2>1. CASE t[i] = NoInode
    BY <2>1, NoInodeFacts DEF Disjoint
  <2>2. CASE t[i] = table[i] /\ t[j] = table[j]
    BY <1>3, <2>2 DEF Sound
  <2>3. CASE t[i] = table[i] /\ t[j] = NoInode
    BY <2>3, NoInodeFacts DEF Disjoint
  <2> QED BY <2>1, <2>2, <2>3
<1> QED BY <1>1, <1>2, <1>3 DEF Sound

LEMMA DirectFormatNext == ASSUME DirectInv, FormatNext PROVE DirectInv'
<1>1. op \in Format_ /\ ~mounted /\ mounted' = mounted
  BY DEF FormatNext, DirectInv, FormatInv, memory
<1>2. inode' \in [Inum -> Inode] /\ \A i \in Inum : inode'[i] = NoInode \/ inode'[i] = inode[i]
  BY NoInodeFacts DEF FormatNext, DirectInv, Sound
<1>3. Sound(inode')
  BY <1>2, Wiped DEF DirectInv
<1>4. op' = Idle \/ (op'.call = "format" /\ op' \in Format_)
  <2>1. op.next \in 1 .. Blocks - 1 /\ op = [call |-> "format", next |-> op.next]
    BY <1>1 DEF Format_
  <2>2. CASE op.next = Blocks - 1
    <3>1. op' = Idle
      BY <2>2, Zenon DEF FormatNext
    <3> QED BY <3>1
  <2>3. CASE op.next # Blocks - 1
    <3>1. op' = [call |-> "format", next |-> op.next + 1]
      BY <2>1, <2>3 DEF FormatNext
    <3>2. op.next + 1 \in 1 .. Blocks - 1
      BY <2>1, <2>3, DiskAssumption
    <3> QED BY <3>1, <3>2 DEF Format_
  <2> QED BY <2>2, <2>3
<1>5. MemoryInv'
  BY <1>1 DEF DirectInv, MemoryInv
<1>6. CASE op' = Idle
  BY <1>3, <1>5, <1>6, Ended
<1>7. CASE op'.call = "format" /\ op' \in Format_
  BY <1>1, <1>3, <1>5, <1>7 DEF DirectInv, CallInv, FormatInv, RemoveInv, WriteInv
<1> QED BY <1>4, <1>6, <1>7
LEMMA WithValid ==
    ASSUME NEW node \in Inode, NEW v \in BOOLEAN
    PROVE  LET n == [node EXCEPT !.valid = v]
           IN  /\ n \in Inode /\ n.valid = v /\ n.size = node.size
               /\ n.direct = node.direct /\ n.indirect = node.indirect
BY DEF Inode

LEMMA WithSize ==
    ASSUME NEW node \in Inode, NEW z \in 0 .. MaxSize
    PROVE  LET n == [node EXCEPT !.size = z]
           IN  /\ n \in Inode /\ n.valid = node.valid /\ n.size = z
               /\ n.direct = node.direct /\ n.indirect = node.indirect
BY DEF Inode

LEMMA WithDirect ==
    ASSUME NEW node \in Inode, NEW f \in [Slot -> {0} \cup DataBlock]
    PROVE  LET n == [node EXCEPT !.direct = f]
           IN  /\ n \in Inode /\ n.valid = node.valid /\ n.size = node.size
               /\ n.direct = f /\ n.indirect = node.indirect
BY DEF Inode

LEMMA WithoutIndirect ==
    ASSUME NEW node \in Inode
    PROVE  LET n == [node EXCEPT !.indirect = 0]
           IN  /\ n \in Inode /\ n.valid = node.valid /\ n.size = node.size
               /\ n.direct = node.direct /\ n.indirect = 0
BY DEF Inode

LEMMA CreatedFacts ==
    ASSUME NEW node \in Inode
    PROVE  /\ Created(node) \in Inode /\ Created(node).valid /\ Created(node).size = 0
           /\ Created(node).direct = node.direct /\ Created(node).indirect = 0
<1> DEFINE a == [node EXCEPT !.valid = TRUE]
           b == [a EXCEPT !.size = 0]
           c == [b EXCEPT !.indirect = 0]
<1>1. Created(node) = c
  BY Zenon DEF Created
<1>2. /\ a \in Inode /\ a.valid = TRUE
      /\ a.direct = node.direct /\ a.indirect = node.indirect
  BY WithValid
<1> HIDE DEF a
<1>3. 0 \in 0 .. MaxSize
  BY SizeFacts
<1>4. b \in Inode /\ b.valid = TRUE /\ b.size = 0 /\ b.direct = node.direct
  BY <1>2, <1>3, WithSize
<1> HIDE DEF b
<1>5. c \in Inode /\ c.valid = TRUE /\ c.size = 0 /\ c.direct = node.direct /\ c.indirect = 0
  BY <1>4, WithoutIndirect
<1> HIDE DEF c
<1> QED BY <1>1, <1>5

(* The inode create takes is not valid, so points to nothing.                *)
LEMMA FreeInodeFacts ==
    ASSUME DirectInv, mounted, i_bitmap # Inum
    PROVE  FreeInode \in Inum /\ ~inode[FreeInode].valid /\ Clean(inode[FreeInode])
<1>1. i_bitmap = Valid
  BY DEF DirectInv, MemoryInv
<1>2. Inum \ i_bitmap # {}
  BY <1>1 DEF Valid
<1>3. Inum \ i_bitmap \in SUBSET Nat
  BY SizeFacts
<1>4. FreeInode \in Inum \ i_bitmap
  BY <1>2, <1>3, LowestFacts DEF FreeInode
<1> QED BY <1>1, <1>4 DEF Valid, DirectInv, Sound

LEMMA DirectCreate == ASSUME DirectInv, Create PROVE DirectInv'
<1>1. /\ op = Idle /\ op' = op /\ mounted /\ mounted' = mounted /\ d_bitmap' = d_bitmap
      /\ i_bitmap # Inum
  BY DEF Create, Ready
<1> PICK f : f = FreeInode
  OBVIOUS
<1> DEFINE node == Created(inode[f])
<1>2. f \in Inum /\ ~inode[f].valid /\ Clean(inode[f])
  BY <1>1, FreeInodeFacts
<1>3. inode \in [Inum -> Inode] /\ Sound(inode)
  BY DEF DirectInv, Sound
<1>4. /\ node \in Inode /\ node.valid /\ node.size = 0
      /\ node.direct = inode[f].direct /\ node.indirect = 0
  BY <1>2, <1>3, CreatedFacts
<1>5. inode' = [inode EXCEPT ![f] = node] /\ i_bitmap' = i_bitmap \cup {f}
  BY DEF Create
<1> HIDE DEF node
<1>6. \A k \in Slot : node.direct[k] = 0
  BY <1>2, <1>4 DEF Clean
<1>7. Whole(node) /\ Distinct(node.direct)
  <2>1. \A k \in Slot : 0 <= BlockSize * k
    BY SizeFacts, Product
  <2>2. NoHoles(node.direct) /\ Distinct(node.direct)
    BY <1>6 DEF NoHoles, Distinct
  <2>3. Fits(node.direct, node.size)
    BY <1>4, <2>1 DEF Fits
  <2> QED BY <1>4, <2>2, <2>3 DEF Whole
<1>8. Sound(inode')
  BY <1>2, <1>3, <1>4, <1>5, <1>6, <1>7, Replaced
<1>9. Valid' = Valid \cup {f}
  BY <1>2, <1>3, <1>4, <1>5 DEF Valid
<1>10. Marked(inode)'
  BY <1>1, <1>2, <1>3, <1>5, <1>6 DEF DirectInv, MemoryInv, Marked
<1>11. MemoryInv'
  BY <1>1, <1>5, <1>9, <1>10 DEF DirectInv, MemoryInv
<1> QED BY <1>1, <1>8, <1>11, Ended

(* A call under way that has not changed the table or the bitmaps.           *)
LEMMA Unchanged ==
    ASSUME DirectInv, UNCHANGED <<inode, memory>>
    PROVE  Sound(inode)' /\ MemoryInv' /\ Valid' = Valid
BY DEF DirectInv, MemoryInv, Marked, memory, Valid

LEMMA DirectRemove == ASSUME DirectInv, NEW i \in Inum, StartRemove(i) PROVE DirectInv'
<1> DEFINE node == [inode[i] EXCEPT !.direct = DropDirect(inode[i])]
           todo == Entries(inode[i].direct, Pointers)
<1>1. mounted /\ inode[i].valid /\ UNCHANGED <<inode, memory>>
      /\ op' = [call |-> "remove", inum |-> i, node |-> node, todo |-> todo]
  BY DEF StartRemove, Ready, disk
<1>2. inode[i] \in Inode /\ NoHoles(inode[i].direct)
  BY <1>1 DEF DirectInv, Sound, Whole
<1>3. node \in Inode /\ Clean(node)
  <2>1. [k \in Slot |-> 0] \in [Slot -> {0} \cup DataBlock]
    OBVIOUS
  <2> QED BY <1>2, <2>1, DropFacts, WithDirect DEF Clean
<1> HIDE DEF node, todo
<1>4. RemoveInv'
  BY <1>1, <1>3 DEF RemoveInv, memory
<1> QED BY <1>1, <1>4, Unchanged DEF DirectInv, CallInv, FormatInv, WriteInv

(* Only the list of blocks to blank changes.                                 *)
LEMMA RemoveOn ==
    ASSUME DirectInv, op.call = "remove", UNCHANGED <<inode, memory>>,
           NEW todo, NEW node \in Inode, Clean(node),
           op' = [call |-> "remove", inum |-> op.inum, node |-> node, todo |-> todo]
    PROVE  DirectInv'
<1>1. RemoveInv'
  BY DEF DirectInv, RemoveInv, memory
<1> QED BY <1>1, Unchanged DEF DirectInv, CallInv, FormatInv, WriteInv

LEMMA RemovingFacts ==
    ASSUME DirectInv, op.call = "remove"
    PROVE  /\ mounted /\ op.inum \in Inum /\ op.node \in Inode /\ Clean(op.node)
           /\ op = [call |-> "remove", inum |-> op.inum, node |-> op.node, todo |-> op.todo]
BY DEF DirectInv, RemoveInv

LEMMA DirectRemoveBlock == ASSUME DirectInv, RemoveBlock PROVE DirectInv'
<1>1. op.call = "remove" /\ UNCHANGED <<inode, memory>> /\ op' = [op EXCEPT !.todo = Tail(op.todo)]
  BY DEF RemoveBlock
<1>2. op' = [call |-> "remove", inum |-> op.inum, node |-> op.node, todo |-> Tail(op.todo)]
  BY <1>1, RemovingFacts
<1> QED BY <1>1, <1>2, RemovingFacts, RemoveOn

LEMMA DirectRemoveIndirect == ASSUME DirectInv, RemoveIndirect PROVE DirectInv'
<1> DEFINE todo == Append(Entries(data[op.node.indirect], BlockSize), op.node.indirect)
           node == [op.node EXCEPT !.indirect = 0]
<1>1. /\ op.call = "remove" /\ UNCHANGED <<inode, memory>>
      /\ op' = [op EXCEPT !.todo = todo, !.node.indirect = 0]
  BY DEF RemoveIndirect, disk
<1>2. /\ mounted /\ op.inum \in Inum /\ op.node \in Inode /\ Clean(op.node)
      /\ op = [call |-> "remove", inum |-> op.inum, node |-> op.node, todo |-> op.todo]
  BY <1>1, RemovingFacts
<1> HIDE DEF todo
<1>3. op' = [call |-> "remove", inum |-> op.inum, node |-> node, todo |-> todo]
  BY <1>1, <1>2
<1>4. node \in Inode /\ Clean(node)
  BY <1>2, WithoutIndirect DEF Clean
<1> HIDE DEF node
<1> QED BY <1>1, <1>3, <1>4, RemoveOn

LEMMA DirectRemoveEnd == ASSUME DirectInv, RemoveEnd PROVE DirectInv'
<1> PICK i : i = op.inum
  OBVIOUS
<1> DEFINE node == [op.node EXCEPT !.valid = FALSE, !.size = 0]
<1>1. /\ op.call = "remove" /\ op' = Idle /\ inode' = [inode EXCEPT ![i] = node]
      /\ i_bitmap' = i_bitmap \ {i} /\ mounted' = mounted /\ d_bitmap' = d_bitmap
  BY DEF RemoveEnd, ClearBit
<1>2. /\ mounted /\ i \in Inum /\ op.node \in Inode /\ Clean(op.node)
  BY <1>1, RemovingFacts
<1>3. node \in Inode /\ Clean(node) /\ ~node.valid
  <2> DEFINE a == [op.node EXCEPT !.valid = FALSE]
  <2>1. node = [a EXCEPT !.size = 0]
    BY Zenon
  <2>2. a \in Inode /\ a.valid = FALSE /\ a.direct = op.node.direct
    BY <1>2, WithValid
  <2> HIDE DEF a, node
  <2>3. 0 \in 0 .. MaxSize
    BY SizeFacts
  <2>4. node \in Inode /\ node.valid = FALSE /\ node.direct = op.node.direct
    BY <2>1, <2>2, <2>3, WithSize
  <2> QED BY <1>2, <2>4 DEF Clean
<1> HIDE DEF node
<1>4. Distinct(node.direct) /\ \A k \in Slot : node.direct[k] = 0
  BY <1>3 DEF Clean, Distinct
<1>5. inode \in [Inum -> Inode] /\ Sound(inode)
  BY DEF DirectInv, Sound
<1>6. Sound(inode')
  BY <1>1, <1>2, <1>3, <1>4, <1>5, Replaced
<1>7. Valid' = Valid \ {i}
  BY <1>1, <1>2, <1>3, <1>5 DEF Valid
<1>8. MemoryInv'
  BY <1>1, <1>2, <1>4, <1>5, <1>7 DEF DirectInv, MemoryInv, Marked
<1> QED BY <1>1, <1>6, <1>8, Ended

LEMMA DirectWrite ==
    ASSUME DirectInv, NEW i \in Inum, NEW len \in Lengths, NEW tag \in Tag, Write(i, len, tag)
    PROVE  DirectInv'
<1>1. /\ mounted /\ i \in i_bitmap /\ inode[i].size + len <= MaxSize
      /\ UNCHANGED <<inode, memory>>
  BY DEF Write, Ready, disk
<1>2. PICK off \in Offsets(i, len) :
         op' = [call |-> "write", inum |-> i, node |-> inode[i], tag |-> tag,
                pos |-> off, left |-> len, written |-> 0,
                chain |-> Zeroes, buffer |-> Zeroes]
  BY DEF Write
<1>3. inode[i].valid /\ inode[i] \in Inode /\ Whole(inode[i])
  BY <1>1 DEF DirectInv, MemoryInv, Valid, Sound
<1>4. len \in Nat /\ inode[i].size \in Nat
  BY <1>3, DiskAssumption, NodeFacts
<1>5. Pending' = inode
  BY <1>1, <1>2 DEF Pending, DirectInv, Sound
<1>6. Marked(inode)
  BY <1>1 DEF DirectInv, MemoryInv
<1>7. off \in Nat
  BY <1>4, SizeFacts DEF Offsets
<1>8. IF Overwrites THEN Full(inode[i].direct) /\ off + len <= inode[i].size
      ELSE Fits(inode[i].direct, off) /\ off = inode[i].size
  <2>1. CASE ~Overwrites
    BY <1>3, <2>1 DEF Offsets, Whole
  <2>2. CASE Overwrites
    <3>1. off + len <= inode[i].size
      BY <2>2 DEF Offsets
    <3>2. len > 0
      BY DiskAssumption
    <3>3. inode[i].size # 0
      BY <1>4, <1>7, <3>1, <3>2
    <3> QED BY <1>3, <2>2, <3>1, <3>3 DEF Whole
  <2> QED BY <2>1, <2>2
<1>9. WriteInv'
  <2>1. Sound(Pending)' /\ Marked(Pending)'
    BY <1>1, <1>5, <1>6 DEF DirectInv, Marked, memory
  <2>2. inode[i].size + 0 + len <= MaxSize /\ off = inode[i].size => off = inode[i].size + 0
    BY <1>1, <1>4
  <2> QED BY <1>1, <1>2, <1>3, <1>4, <1>7, <1>8, <2>1, <2>2 DEF WriteInv, WriteCall, memory
<1>10. op'.call = "write"
  BY <1>2
<1> QED BY <1>1, <1>9, <1>10, Unchanged DEF DirectInv, CallInv, FormatInv, RemoveInv

(* What is known while a write is under way.                                 *)
LEMMA WritingFacts ==
    ASSUME DirectInv, op.call = "write"
    PROVE  /\ mounted /\ op.inum \in Inum /\ op.node \in Inode /\ op.node.valid
           /\ op = WriteCall(op.inum, op.node, op.tag, op.pos, op.left, op.written,
                             op.chain, op.buffer)
           /\ op.pos \in Nat /\ op.left \in Nat /\ op.written \in Nat
           /\ op.node.size \in Nat /\ op.node.size + op.written + op.left <= MaxSize
           /\ inode \in [Inum -> Inode] /\ inode[op.inum].valid
           /\ Sound(Pending) /\ Pending[op.inum] = op.node
           /\ \A j \in Inum \ {op.inum} : Pending[j] = inode[j]
           /\ Whole(op.node) /\ Distinct(op.node.direct)
<1>1. /\ mounted /\ op.inum \in Inum /\ op.node \in Inode /\ op.node.valid
      /\ op = WriteCall(op.inum, op.node, op.tag, op.pos, op.left, op.written,
                        op.chain, op.buffer)
      /\ op.pos \in Nat /\ op.left \in Nat /\ op.written \in Nat
      /\ op.node.size + op.written + op.left <= MaxSize
      /\ inode[op.inum].valid /\ Sound(Pending)
  BY DEF DirectInv, WriteInv
<1>2. inode \in [Inum -> Inode]
  BY DEF DirectInv, Sound
<1>3. Pending[op.inum] = op.node /\ \A j \in Inum \ {op.inum} : Pending[j] = inode[j]
  BY <1>1, <1>2 DEF Pending
<1>4. Whole(op.node) /\ Distinct(op.node.direct)
  BY <1>1, <1>3 DEF Sound
<1> QED BY <1>1, <1>2, <1>3, <1>4, NodeFacts

WithNode(r, z) == [r EXCEPT !.node = z]
WithPos(r, z) == [r EXCEPT !.pos = z]
WithLeft(r, z) == [r EXCEPT !.left = z]
WithWritten(r, z) == [r EXCEPT !.written = z]
WithChain(r, z) == [r EXCEPT !.chain = z]
WithBuffer(r, z) == [r EXCEPT !.buffer = z]

LEMMA WriteCallFields ==
    ASSUME NEW i, NEW n, NEW t, NEW p, NEW l, NEW w, NEW c, NEW b, NEW z
    PROVE  /\ WithNode(WriteCall(i, n, t, p, l, w, c, b), z) = WriteCall(i, z, t, p, l, w, c, b)
           /\ WithPos(WriteCall(i, n, t, p, l, w, c, b), z) = WriteCall(i, n, t, z, l, w, c, b)
           /\ WithLeft(WriteCall(i, n, t, p, l, w, c, b), z) = WriteCall(i, n, t, p, z, w, c, b)
           /\ WithWritten(WriteCall(i, n, t, p, l, w, c, b), z) = WriteCall(i, n, t, p, l, z, c, b)
           /\ WithChain(WriteCall(i, n, t, p, l, w, c, b), z) = WriteCall(i, n, t, p, l, w, z, b)
           /\ WithBuffer(WriteCall(i, n, t, p, l, w, c, b), z) = WriteCall(i, n, t, p, l, w, c, z)
<1> DEFINE R == [call : {"write"}, inum : {i}, node : {n}, tag : {t}, pos : {p}, left : {l},
                 written : {w}, chain : {c}, buffer : {b}]
<1> PICK r \in R : r = WriteCall(i, n, t, p, l, w, c, b)
  BY DEF WriteCall
<1>1. WithNode(r, z) = WriteCall(i, z, t, p, l, w, c, b)
  BY DEF WithNode, WriteCall
<1>2. WithPos(r, z) = WriteCall(i, n, t, z, l, w, c, b)
  BY DEF WithPos, WriteCall
<1>3. WithLeft(r, z) = WriteCall(i, n, t, p, z, w, c, b)
  BY DEF WithLeft, WriteCall
<1>4. WithWritten(r, z) = WriteCall(i, n, t, p, l, z, c, b)
  BY DEF WithWritten, WriteCall
<1>5. WithChain(r, z) = WriteCall(i, n, t, p, l, w, z, b)
  BY DEF WithChain, WriteCall
<1>6. WithBuffer(r, z) = WriteCall(i, n, t, p, l, w, c, z)
  BY DEF WithBuffer, WriteCall
<1> QED BY <1>1, <1>2, <1>3, <1>4, <1>5, <1>6

LEMMA Advance ==
    ASSUME DirectInv, op.call = "write", NEW block
    PROVE  Advanced(block) =
              WriteCall(op.inum, op.node, op.tag, op.pos + ToWrite, op.left - ToWrite,
                        op.written + ToWrite, op.chain, block)
<1>1. op = WriteCall(op.inum, op.node, op.tag, op.pos, op.left, op.written, op.chain, op.buffer)
  BY WritingFacts
<1>2. Advanced(block) = WithBuffer(WithWritten(WithLeft(WithPos(op, op.pos + ToWrite),
                                   op.left - ToWrite), op.written + ToWrite), block)
  BY Zenon DEF Advanced, WithPos, WithLeft, WithWritten, WithBuffer
<1> QED BY <1>1, <1>2, WriteCallFields
LEMMA WriteToFacts ==
    ASSUME DirectInv, Writing, NEW b \in DataBlock, WriteTo(b), BlockNo \in Slot
    PROVE  /\ op' = WriteCall(op.inum, [op.node EXCEPT !.direct = [@ EXCEPT ![BlockNo] = b]],
                              op.tag, op.pos + ToWrite, op.left - ToWrite,
                              op.written + ToWrite, op.chain, Refilled(b))
           /\ inode' = inode /\ mounted' = mounted /\ i_bitmap' = i_bitmap
<1> DEFINE a == Advanced(Refilled(b))
<1>1. a = WriteCall(op.inum, op.node, op.tag, op.pos + ToWrite, op.left - ToWrite,
                    op.written + ToWrite, op.chain, Refilled(b))
  BY Advance DEF Writing
<1>2. op' = [a EXCEPT !.node.direct[BlockNo] = b]
  BY DEF WriteTo
<1> HIDE DEF a
<1>3. op' = WithNode(a, [a.node EXCEPT !.direct = [@ EXCEPT ![BlockNo] = b]])
  BY <1>2 DEF WithNode
<1>4. a.node = op.node
  BY <1>1 DEF WriteCall
<1>5. op' = WithNode(a, [op.node EXCEPT !.direct = [@ EXCEPT ![BlockNo] = b]])
  BY <1>3, <1>4
<1> QED BY <1>1, <1>5, WriteCallFields DEF WriteTo

(* A write that goes on: the inode table stays as it is.                     *)
LEMMA WriteOn ==
    ASSUME DirectInv, op.call = "write", inode' = inode, mounted' = mounted,
           i_bitmap' = i_bitmap, d_bitmap \subseteq d_bitmap',
           NEW node \in Inode, node.valid, node.size = op.node.size,
           NEW pos \in Nat, NEW left \in Nat, NEW written \in Nat, NEW chain, NEW buffer,
           op' = WriteCall(op.inum, node, op.tag, pos, left, written, chain, buffer),
           node.size + written + left <= MaxSize,
           Sound([inode EXCEPT ![op.inum] = node]),
           \A k \in Slot : node.direct[k] # 0 => node.direct[k] \in d_bitmap',
           IF Overwrites THEN Full(node.direct) /\ pos + left <= node.size
           ELSE Fits(node.direct, pos) /\ pos = node.size + written
    PROVE  DirectInv'
<1>1. /\ op'.call = "write" /\ op'.inum = op.inum /\ op'.node = node /\ op'.tag = op.tag
      /\ op'.pos = pos /\ op'.left = left /\ op'.written = written
      /\ op'.chain = chain /\ op'.buffer = buffer
  BY DEF WriteCall
<1>2. Pending' = [inode EXCEPT ![op.inum] = node]
  BY <1>1 DEF Pending
<1>3. mounted /\ op.inum \in Inum /\ inode[op.inum].valid /\ inode \in [Inum -> Inode]
  BY WritingFacts
<1>4. Marked(inode)'
  BY <1>3 DEF DirectInv, MemoryInv, Marked
<1>5. Marked(Pending)'
  BY <1>2, <1>3, <1>4 DEF Marked
<1>6. Sound(inode)' /\ MemoryInv'
  BY <1>4 DEF DirectInv, MemoryInv, Valid
<1>7. op' = WriteCall(op'.inum, op'.node, op'.tag, op'.pos, op'.left, op'.written,
                      op'.chain, op'.buffer)
  BY <1>1
<1>8. Sound(Pending)'
  BY <1>2
<1>9. WriteInv'
  BY <1>1, <1>3, <1>5, <1>7, <1>8 DEF WriteInv
<1> QED BY <1>1, <1>6, <1>9 DEF DirectInv, CallInv, FormatInv, RemoveInv
(* The node a block is written for, and the bytes of it.                     *)
LEMMA NewDirect ==
    ASSUME NEW node \in Inode, NEW k \in Slot, NEW b \in DataBlock
    PROVE  LET n == [node EXCEPT !.direct = [@ EXCEPT ![k] = b]]
           IN  /\ n \in Inode /\ n.valid = node.valid /\ n.size = node.size
               /\ n.indirect = node.indirect
               /\ n.direct = [node.direct EXCEPT ![k] = b]
<1>1. [node.direct EXCEPT ![k] = b] \in [Slot -> {0} \cup DataBlock]
  BY NodeFacts
<1> QED BY <1>1, WithDirect

LEMMA DirectWriteDirect == ASSUME DirectInv, WriteDirect PROVE DirectInv'
<1> PICK b : b = op.node.direct[BlockNo]
  OBVIOUS
<1> PICK k : k = BlockNo
  OBVIOUS
<1>1. op.call = "write" /\ op.left > 0 /\ k < Pointers /\ b # 0 /\ d_bitmap' = d_bitmap
  BY DEF WriteDirect, Writing
<1>2. /\ op.inum \in Inum /\ op.node \in Inode /\ op.node.valid
      /\ op.pos \in Nat /\ op.left \in Nat /\ op.written \in Nat /\ op.node.size \in Nat
      /\ op.node.size + op.written + op.left <= MaxSize
      /\ Sound(Pending) /\ Whole(op.node) /\ mounted
  BY <1>1, WritingFacts
<1>3. k \in Slot /\ ToWrite \in Nat /\ ToWrite <= op.left /\ BlockSize * k \in Nat
      /\ op.pos + ToWrite <= BlockSize * k + BlockSize
  BY <1>1, <1>2, OffsetFacts, SizeFacts
<1>4. b \in DataBlock /\ [op.node.direct EXCEPT ![k] = b] = op.node.direct
  BY <1>1, <1>2, <1>3, NodeFacts
<1> DEFINE node == [op.node EXCEPT !.direct = [@ EXCEPT ![k] = b]]
<1>5. /\ op' = WriteCall(op.inum, node, op.tag, op.pos + ToWrite, op.left - ToWrite,
                         op.written + ToWrite, op.chain, Refilled(b))
      /\ inode' = inode /\ mounted' = mounted /\ i_bitmap' = i_bitmap
  BY <1>1, <1>3, <1>4, WriteToFacts DEF WriteDirect, Writing
<1>6. node = op.node
  <2>1. /\ node \in Inode /\ node.valid = op.node.valid /\ node.size = op.node.size
        /\ node.indirect = op.node.indirect /\ node.direct = op.node.direct
    <3>1. b \in DataBlock
      BY <1>4
    <3>2. /\ node \in Inode /\ node.valid /\ node.size = op.node.size
          /\ node.indirect = op.node.indirect
          /\ node.direct = [op.node.direct EXCEPT ![k] = b]
      BY <1>2, <1>3, <3>1, NewDirect
    <3> HIDE DEF node
    <3>3. node.valid = TRUE /\ op.node.valid = TRUE
      BY <1>2, <3>2, NodeFacts
    <3> QED BY <1>4, <3>2, <3>3
  <2> HIDE DEF node
  <2>2. node = [valid |-> node.valid, size |-> node.size, direct |-> node.direct,
                indirect |-> node.indirect]
    BY <2>1, NodeFacts
  <2>3. op.node = [valid |-> op.node.valid, size |-> op.node.size,
                   direct |-> op.node.direct, indirect |-> op.node.indirect]
    BY <1>2, NodeFacts
  <2> QED BY <2>1, <2>2, <2>3
<1> HIDE DEF node
<1>7. Sound([inode EXCEPT ![op.inum] = node])
  BY <1>2, <1>6 DEF Pending
<1>8. \A l \in Slot : node.direct[l] # 0 => node.direct[l] \in d_bitmap'
  BY <1>1, <1>2, <1>6, WritingFacts DEF DirectInv, WriteInv, Marked
<1>9. IF Overwrites THEN Full(op.node.direct) /\ op.pos + op.left <= op.node.size
      ELSE Fits(op.node.direct, op.pos) /\ op.pos = op.node.size + op.written
  BY <1>1 DEF DirectInv, WriteInv
<1>10. Fits(node.direct, op.pos + ToWrite)
  <2> SUFFICES ASSUME NEW l \in Slot, node.direct[l] = 0 PROVE op.pos + ToWrite <= BlockSize * l
    BY DEF Fits
  <2>1. k < l
    BY <1>1, <1>2, <1>3, <1>6, SizeFacts DEF Whole, NoHoles
  <2>2. BlockSize * k + BlockSize <= BlockSize * l /\ BlockSize * l \in Nat
    BY <1>3, <2>1, Product, SizeFacts
  <2> QED BY <1>2, <1>3, <2>2, SizeFacts
<1>11. /\ op.pos + ToWrite \in Nat /\ op.left - ToWrite \in Nat /\ op.written + ToWrite \in Nat
       /\ (op.pos + ToWrite) + (op.left - ToWrite) = op.pos + op.left
       /\ op.node.size + (op.written + ToWrite) + (op.left - ToWrite) <= MaxSize
       /\ op.pos = op.node.size + op.written
            => op.pos + ToWrite = op.node.size + (op.written + ToWrite)
  BY <1>2, <1>3
<1>12. IF Overwrites THEN /\ Full(node.direct)
                          /\ (op.pos + ToWrite) + (op.left - ToWrite) <= node.size
       ELSE /\ Fits(node.direct, op.pos + ToWrite)
            /\ op.pos + ToWrite = node.size + (op.written + ToWrite)
  BY <1>6, <1>9, <1>10, <1>11
<1>13. /\ node \in Inode /\ node.valid /\ node.size = op.node.size
       /\ node.size + (op.written + ToWrite) + (op.left - ToWrite) <= MaxSize
  BY <1>2, <1>6, <1>11
<1>14. d_bitmap \subseteq d_bitmap'
  BY <1>1
<1> QED BY <1>1, <1>5, <1>7, <1>8, <1>11, <1>12, <1>13, <1>14, WriteOn

(* The block that a write takes is in no file, nor in the one it grows.      *)
LEMMA NewBlockFacts ==
    ASSUME DirectInv, Writing, FreeBlocks # {}
    PROVE  /\ Lowest(FreeBlocks) \in DataBlock /\ Lowest(FreeBlocks) # 0
           /\ \A i \in Inum, k \in Slot : Pending[i].direct[k] # Lowest(FreeBlocks)
<1>1. Lowest(FreeBlocks) \in FreeBlocks
  BY SizeFacts, LowestFacts DEF FreeBlocks
<1>2. Lowest(FreeBlocks) \in DataBlock /\ Lowest(FreeBlocks) \notin d_bitmap
  BY <1>1 DEF FreeBlocks
<1>3. Marked(Pending)
  BY DEF DirectInv, WriteInv, Writing
<1> QED BY <1>2, <1>3, SizeFacts DEF Marked

(* Only a client that appends takes a block.                                 *)
LEMMA NewAppends ==
    ASSUME DirectInv, WriteNew
    PROVE  ~Overwrites /\ BlockNo \in Slot
<1> PICK k : k = BlockNo
  OBVIOUS
<1>1. op.call = "write" /\ op.left > 0 /\ k < Pointers /\ op.node.direct[k] = 0
  BY DEF WriteNew, Writing
<1>2. op.pos \in Nat /\ op.left \in Nat
  BY <1>1, WritingFacts
<1>3. k \in Slot
  BY <1>1, <1>2, OffsetFacts, SizeFacts
<1>4. Overwrites => op.node.direct[k] # 0
  BY <1>1, <1>3 DEF DirectInv, WriteInv, Full
<1> QED BY <1>1, <1>3, <1>4

LEMMA DirectWriteNew == ASSUME DirectInv, WriteNew PROVE DirectInv'
<1> PICK b : b = Lowest(FreeBlocks)
  OBVIOUS
<1> PICK k : k = BlockNo
  OBVIOUS
<1>1. /\ Writing /\ op.call = "write" /\ op.left > 0 /\ k < Pointers
      /\ op.node.direct[k] = 0 /\ FreeBlocks # {} /\ d_bitmap' = d_bitmap \cup {b}
  BY DEF WriteNew, Writing, update_dbitmap
<1>2. /\ op.inum \in Inum /\ op.node \in Inode /\ op.node.valid
      /\ op.pos \in Nat /\ op.left \in Nat /\ op.written \in Nat /\ op.node.size \in Nat
      /\ op.node.size + op.written + op.left <= MaxSize
      /\ inode \in [Inum -> Inode] /\ Sound(Pending) /\ Pending[op.inum] = op.node
      /\ \A j \in Inum \ {op.inum} : Pending[j] = inode[j]
      /\ Whole(op.node) /\ Distinct(op.node.direct)
  BY <1>1, WritingFacts
<1>3. k \in Slot /\ ToWrite \in Nat /\ ToWrite <= op.left /\ BlockSize * k \in Nat
      /\ BlockSize * k <= op.pos /\ op.pos + ToWrite <= BlockSize * k + BlockSize
  BY <1>1, <1>2, OffsetFacts, SizeFacts
<1>4. /\ b \in DataBlock /\ b # 0
      /\ \A i \in Inum, l \in Slot : Pending[i].direct[l] # b
  BY <1>1, NewBlockFacts
<1> DEFINE node == [op.node EXCEPT !.direct = [@ EXCEPT ![k] = b]]
<1>5. /\ op' = WriteCall(op.inum, node, op.tag, op.pos + ToWrite, op.left - ToWrite,
                         op.written + ToWrite, op.chain, Refilled(b))
      /\ inode' = inode /\ mounted' = mounted /\ i_bitmap' = i_bitmap
  BY <1>1, <1>3, <1>4, WriteToFacts DEF WriteNew
<1>6. /\ node \in Inode /\ node.valid /\ node.size = op.node.size
      /\ node.indirect = op.node.indirect /\ node.direct = [op.node.direct EXCEPT ![k] = b]
  BY <1>2, <1>3, <1>4, NewDirect
<1> HIDE DEF node
<1>7. node.direct[k] = b /\ \A l \in Slot \ {k} : node.direct[l] = op.node.direct[l]
  BY <1>2, <1>3, <1>6, NodeFacts
<1>9. ~Overwrites
  BY NewAppends
<1>8. /\ op.node.indirect = 0 /\ Fits(op.node.direct, op.pos)
      /\ op.pos = op.node.size + op.written
  BY <1>1, <1>2, <1>3, <1>9 DEF DirectInv, WriteInv, Whole, Full
<1>10. \A l \in Slot : l < k => op.node.direct[l] # 0
  <2> SUFFICES ASSUME NEW l \in Slot, l < k, op.node.direct[l] = 0 PROVE FALSE
    OBVIOUS
  <2>1. op.pos <= BlockSize * l
    BY <1>8, <1>9 DEF Fits
  <2>2. BlockSize * l + BlockSize <= BlockSize * k /\ BlockSize * l \in Nat
    BY <1>3, Product, SizeFacts
  <2> QED BY <1>2, <1>3, <2>1, <2>2, SizeFacts
<1>11. NoHoles(node.direct)
  BY <1>2, <1>3, <1>4, <1>7, <1>10, SizeFacts DEF Whole, NoHoles
<1>12. Fits(node.direct, op.pos + ToWrite) /\ Fits(node.direct, node.size)
  <2> SUFFICES ASSUME NEW l \in Slot, node.direct[l] = 0
               PROVE  op.pos + ToWrite <= BlockSize * l /\ node.size <= BlockSize * l
    BY DEF Fits
  <2>1. k < l
    <3>1. l # k /\ op.node.direct[l] = 0
      BY <1>4, <1>7
    <3>2. ~(l < k)
      BY <1>10, <3>1
    <3> QED BY <1>3, <3>1, <3>2, SizeFacts
  <2>2. BlockSize * k + BlockSize <= BlockSize * l /\ BlockSize * l \in Nat
    BY <1>3, <2>1, Product, SizeFacts
  <2> QED BY <1>2, <1>3, <1>6, <1>8, <1>9, <2>2, SizeFacts
<1>13. Whole(node)
  BY <1>6, <1>8, <1>9, <1>11, <1>12 DEF Whole
<1>14. Distinct(node.direct)
  BY <1>2, <1>3, <1>4, <1>7 DEF Distinct
<1>15. \A j \in Inum \ {op.inum} : \A l, m \in Slot :
         node.direct[l] # 0 => node.direct[l] # Pending[j].direct[m]
  BY <1>2, <1>3, <1>4, <1>7 DEF Sound, Disjoint
<1>16. Sound([Pending EXCEPT ![op.inum] = node])
  BY <1>2, <1>6, <1>13, <1>14, <1>15, Replaced
<1>17. [Pending EXCEPT ![op.inum] = node] = [inode EXCEPT ![op.inum] = node]
  BY <1>2 DEF Pending
<1>18. \A l \in Slot : node.direct[l] # 0 => node.direct[l] \in d_bitmap'
  BY <1>1, <1>2, <1>3, <1>7 DEF DirectInv, WriteInv, Marked
<1>19. /\ op.pos + ToWrite \in Nat /\ op.left - ToWrite \in Nat /\ op.written + ToWrite \in Nat
       /\ node.size + (op.written + ToWrite) + (op.left - ToWrite) <= MaxSize
       /\ op.pos + ToWrite = node.size + (op.written + ToWrite)
  BY <1>2, <1>3, <1>6, <1>8, <1>9
<1>20. IF Overwrites THEN /\ Full(node.direct)
                          /\ (op.pos + ToWrite) + (op.left - ToWrite) <= node.size
       ELSE /\ Fits(node.direct, op.pos + ToWrite)
            /\ op.pos + ToWrite = node.size + (op.written + ToWrite)
  BY <1>9, <1>12, <1>19
<1>21. d_bitmap \subseteq d_bitmap'
  BY <1>1
<1> QED BY <1>1, <1>5, <1>6, <1>16, <1>17, <1>18, <1>19, <1>20, <1>21, WriteOn
LEMMA DirectWriteFull == ASSUME DirectInv, WriteFull PROVE DirectInv'
<1>1. op' = Idle /\ UNCHANGED <<inode, memory>>
  BY DEF WriteFull, disk
<1> QED BY <1>1, Unchanged, Ended

(* A write beyond the direct blocks is one to a file that has them all.      *)
LEMMA DirectWriteIndirect == ASSUME DirectInv, WriteIndirect PROVE DirectInv'
<1>1. op.call = "write" /\ op.left > 0 /\ BlockNo >= Pointers /\ UNCHANGED <<inode, memory>>
  BY DEF WriteIndirect, Writing
<1>2. PICK chain, block : op' = [Advanced(block) EXCEPT !.chain = chain]
  BY Zenon DEF WriteIndirect
<1>3. op' = WriteCall(op.inum, op.node, op.tag, op.pos + ToWrite, op.left - ToWrite,
                      op.written + ToWrite, chain, block)
  <2>1. op' = WithChain(Advanced(block), chain)
    BY <1>2, Zenon DEF WithChain
  <2> QED BY <1>1, <2>1, Advance, WriteCallFields
<1>4. /\ op.inum \in Inum /\ op.node \in Inode /\ op.node.valid
      /\ op.pos \in Nat /\ op.left \in Nat /\ op.written \in Nat /\ op.node.size \in Nat
      /\ op.node.size + op.written + op.left <= MaxSize /\ Sound(Pending)
  BY <1>1, WritingFacts
<1>5. /\ ToWrite \in Nat /\ ToWrite <= op.left /\ BlockNo \in Nat
      /\ BlockSize * BlockNo \in Nat /\ BlockSize * BlockNo <= op.pos
  BY <1>1, <1>4, OffsetFacts
<1>6. IF Overwrites THEN Full(op.node.direct) /\ op.pos + op.left <= op.node.size
      ELSE Fits(op.node.direct, op.pos) /\ op.pos = op.node.size + op.written
  BY <1>1 DEF DirectInv, WriteInv
<1>7. \A k \in Slot : op.node.direct[k] # 0
  <2> SUFFICES ASSUME NEW k \in Slot, op.node.direct[k] = 0 PROVE FALSE
    OBVIOUS
  <2>1. op.pos <= BlockSize * k
    BY <1>6 DEF Full, Fits
  <2>2. k \in Nat /\ k < BlockNo
    BY <1>1, <1>5, SizeFacts
  <2>3. BlockSize * k + BlockSize <= BlockSize * BlockNo /\ BlockSize * k \in Nat
    BY <1>5, <2>2, Product, SizeFacts
  <2> QED BY <1>4, <1>5, <2>1, <2>3, SizeFacts
<1>8. Full(op.node.direct) /\ \A n : Fits(op.node.direct, n)
  BY <1>7 DEF Full, Fits
<1>9. \A k \in Slot : op.node.direct[k] # 0 => op.node.direct[k] \in d_bitmap'
  BY <1>1, <1>4, WritingFacts DEF DirectInv, WriteInv, Marked, memory
<1>10. /\ op.pos + ToWrite \in Nat /\ op.left - ToWrite \in Nat /\ op.written + ToWrite \in Nat
       /\ op.node.size + (op.written + ToWrite) + (op.left - ToWrite) <= MaxSize
       /\ op.pos = op.node.size + op.written
            => op.pos + ToWrite = op.node.size + (op.written + ToWrite)
  BY <1>4, <1>5
<1>11. IF Overwrites THEN /\ Full(op.node.direct)
                          /\ (op.pos + ToWrite) + (op.left - ToWrite) <= op.node.size
       ELSE /\ Fits(op.node.direct, op.pos + ToWrite)
            /\ op.pos + ToWrite = op.node.size + (op.written + ToWrite)
  <2>1. (op.pos + ToWrite) + (op.left - ToWrite) = op.pos + op.left
    BY <1>4, <1>5
  <2> QED BY <1>6, <1>8, <1>10, <2>1
<1>12. /\ inode' = inode /\ mounted' = mounted /\ i_bitmap' = i_bitmap
       /\ d_bitmap \subseteq d_bitmap' /\ Sound([inode EXCEPT ![op.inum] = op.node])
  BY <1>1, <1>4 DEF memory, Pending
<1> QED BY <1>1, <1>3, <1>4, <1>9, <1>10, <1>11, <1>12, WriteOn

LEMMA DirectWriteEnd == ASSUME DirectInv, WriteEnd PROVE DirectInv'
<1> PICK i : i = op.inum
  OBVIOUS
<1> DEFINE z    == op.node.size + op.written
           node == [op.node EXCEPT !.size = z]
<1>1. /\ op.call = "write" /\ op.left = 0 /\ op' = Idle /\ inode' = [inode EXCEPT ![i] = node]
      /\ mounted' = mounted /\ i_bitmap' = i_bitmap /\ d_bitmap' = d_bitmap
  BY DEF WriteEnd, SizeAdded, memory
<1>2. /\ i \in Inum /\ op.node \in Inode /\ op.node.valid
      /\ op.pos \in Nat /\ op.left \in Nat /\ op.written \in Nat /\ op.node.size \in Nat
      /\ op.node.size + op.written + op.left <= MaxSize
      /\ inode \in [Inum -> Inode] /\ inode[i].valid
      /\ Sound(Pending) /\ Pending[i] = op.node
      /\ \A j \in Inum \ {i} : Pending[j] = inode[j]
      /\ Whole(op.node) /\ Distinct(op.node.direct)
  BY <1>1, WritingFacts
<1>3. z \in 0 .. MaxSize
  BY <1>1, <1>2, SizeFacts
<1>4. IF Overwrites THEN Full(op.node.direct) ELSE Fits(op.node.direct, z)
  BY <1>1 DEF DirectInv, WriteInv
<1> HIDE DEF z
<1>5. /\ node \in Inode /\ node.valid /\ node.direct = op.node.direct
      /\ node.size = z /\ node.indirect = op.node.indirect
  BY <1>2, <1>3, WithSize
<1> HIDE DEF node
<1>6. Whole(node) /\ Distinct(node.direct)
  BY <1>2, <1>4, <1>5 DEF Whole
<1>7. \A j \in Inum \ {i} : \A k, l \in Slot :
        node.direct[k] # 0 => node.direct[k] # Pending[j].direct[l]
  BY <1>2, <1>5 DEF Sound, Disjoint
<1>8. Sound([Pending EXCEPT ![i] = node])
  BY <1>2, <1>5, <1>6, <1>7, Replaced
<1>9. inode' = [Pending EXCEPT ![i] = node]
  BY <1>1, <1>2 DEF Pending
<1>10. Valid' = Valid
  BY <1>1, <1>2, <1>5 DEF Valid
<1>11. Marked(Pending)
  BY <1>1 DEF DirectInv, WriteInv
<1>12. /\ inode'[i].direct = Pending[i].direct
       /\ \A j \in Inum \ {i} : inode'[j].direct = Pending[j].direct
  BY <1>1, <1>2, <1>5
<1>13. Marked(inode)'
  BY <1>1, <1>11, <1>12 DEF Marked
<1>14. MemoryInv'
  BY <1>1, <1>10, <1>13 DEF DirectInv, MemoryInv
<1>15. Sound(inode)'
  BY <1>8, <1>9
<1> QED BY <1>1, <1>14, <1>15, Ended

LEMMA DirectExit == ASSUME DirectInv, Exit PROVE DirectInv'
<1>1. op' = Idle /\ inode' = inode /\ mounted' = FALSE
  BY DEF Exit, disk
<1>2. Sound(inode)' /\ MemoryInv'
  BY <1>1 DEF DirectInv, MemoryInv
<1> QED BY <1>1, <1>2, Ended

LEMMA DirectNext == DirectInv /\ [Next]_vars => DirectInv'
<1> SUFFICES ASSUME DirectInv, [Next]_vars PROVE DirectInv'
  OBVIOUS
<1>1. ASSUME NEW i \in Inum, StartRemove(i) PROVE DirectInv'
  BY <1>1, DirectRemove
<1>2. ASSUME NEW i \in Inum, NEW len \in Lengths, NEW tag \in Tag, Write(i, len, tag)
      PROVE  DirectInv'
  BY <1>2, DirectWrite
<1>3. CASE UNCHANGED vars
  BY <1>3 DEF vars, DirectInv, MemoryInv, Marked, Valid, CallInv, FormatInv, RemoveInv,
              WriteInv, Pending
<1> QED BY <1>1, <1>2, <1>3, DirectMount, DirectFormat, DirectFormatNext, DirectCreate,
           DirectRemoveBlock, DirectRemoveIndirect, DirectRemoveEnd, DirectWriteDirect,
           DirectWriteNew, DirectWriteFull, DirectWriteIndirect, DirectWriteEnd, DirectExit
        DEF Next

LEMMA DirectInvariance == ASSUME SoundImages PROVE Spec => []DirectInv
<1>1. Init => DirectInv
  BY DirectInit
<1> QED BY <1>1, DirectNext, PTL DEF Spec

(* find_free_dblock never hands out a block a file has: no two files share a
   direct block and none has one twice, after any crash, failed write or
   remove, and whatever the blocks of pointers hold. *)
THEOREM NoSharing == ASSUME SoundImages PROVE Spec => []NoSharedBlocks
<1>1. ASSUME DirectInv PROVE NoSharedBlocks
  <2>1. ASSUME NEW i \in Valid, NEW j \in Valid, i # j
        PROVE  Direct(inode[i]) \cap Direct(inode[j]) = {}
    <3>1. Disjoint(inode[i].direct, inode[j].direct)
      BY <1>1, <2>1 DEF DirectInv, Sound, Valid
    <3> QED BY <3>1 DEF Disjoint, Direct
  <2>2. ASSUME NEW i \in Valid, NEW k \in Slot, NEW l \in Slot, k # l
        PROVE  inode[i].direct[k] # inode[i].direct[l] \/ inode[i].direct[k] = 0
    <3>1. Distinct(inode[i].direct)
      BY <1>1, <2>2 DEF DirectInv, Sound, Valid
    <3> QED BY <2>2, <3>1 DEF Distinct
  <2> QED BY <2>1, <2>2 DEF NoSharedBlocks
<1> QED BY <1>1, DirectInvariance, PTL

(* What mount works out of the inode table and create and wremove keep up is
   right between any two steps: a bit is set just when the inode is valid. *)
THEOREM BitmapExact == ASSUME SoundImages PROVE Spec => []InodeBitmapExact
<1>1. DirectInv => InodeBitmapExact
  BY DEF DirectInv, MemoryInv, InodeBitmapExact
<1> QED BY <1>1, DirectInvariance, PTL

(* create finds no pointer in the inode it takes: wremove has set to 0 all that
   the file had, since the ones that are set come first. *)
THEOREM FreeClean == ASSUME SoundImages PROVE Spec => []FreeInodesClean
<1>1. DirectInv => FreeInodesClean
  BY DEF DirectInv, Sound, Clean, FreeInodesClean, Valid, Direct
<1> QED BY <1>1, DirectInvariance, PTL
-----------------------------------------------------------------------------
(***************************************************************************)
(* The blocks of pointers.  mount does not mark them, so they are safe only *)
(* where nothing is given out: on disks this program made, which have none, *)
(* or for a client that never makes a file longer.                          *)
(***************************************************************************)

RemoveTypes ==
    op.call = "remove" =>
       /\ op.todo \in Seq(DataBlock)
       /\ op.node.indirect \in {0, inode[op.inum].indirect}

(* The Size is not raised before the end; the blocks of a client that overwrites
   stay what they are; and what has been read for pointers is the file's block of
   them, if it has one. *)
WriteTypes ==
    op.call = "write" =>
       /\ op.tag \in Tag /\ op.chain \in Block /\ op.buffer \in Block
       /\ op.node.indirect = inode[op.inum].indirect
       /\ op.node.size = inode[op.inum].size
       /\ \/ op.chain = Zeroes
          \/ op.node.indirect # 0 /\ op.chain = data[op.node.indirect]
       /\ Overwrites => op.node.direct = inode[op.inum].direct

MemoryTypes ==
    /\ i_bitmap \subseteq Inum /\ d_bitmap \subseteq DataBlock
    /\ mounted => \A i \in Valid : Chain(inode[i]) \subseteq d_bitmap

ChainInv ==
    /\ super \in {"blank", "valid", "data"}
    /\ SoundChains(inode, data)
    /\ MemoryTypes /\ RemoveTypes /\ WriteTypes

LEMMA BlockFacts ==
    /\ Zeroes \in Block /\ \A c \in Cells : Zeroes[c] = 0
    /\ Cells \subseteq Nat /\ \A n \in Nat : n < BlockSize => n \in Cells
    /\ op.tag \in Tag => \A block \in Block : Overlay(block) \in Block
BY SizeFacts DEF Zeroes, Block, Cells, Overlay

(* What a block of pointers is read for.                                     *)
LEMMA PointerFacts ==
    ASSUME NEW f, NEW p \in Members(Entries(f, BlockSize))
    PROVE  \E c \in Cells : p = f[c] /\ p # 0
<1> DEFINE l == Leading(f, BlockSize)
<1>1. l \in 0 .. BlockSize /\ \A k \in 0 .. BlockSize : k < l => f[k] # 0
  BY LeadingFacts, SizeFacts
<1>2. p \in {f[k] : k \in 0 .. l - 1}
  BY EntriesFacts, SizeFacts
<1> HIDE DEF l
<1> PICK k \in 0 .. l - 1 : p = f[k]
  BY <1>2
<1> QED BY <1>1, SizeFacts DEF Cells

LEMMA NoPointers == Members(Entries(Zeroes, BlockSize)) = {}
BY PointerFacts, BlockFacts

LEMMA PointerSeq ==
    ASSUME NEW f, NEW n \in Nat, \A k \in 0 .. n : k < n => f[k] \in {0} \cup DataBlock
    PROVE  Entries(f, n) \in Seq(DataBlock) /\ Members(Entries(f, n)) \subseteq DataBlock
<1> DEFINE l == Leading(f, n)
<1>1. l \in 0 .. n /\ \A k \in 0 .. n : k < l => f[k] # 0
  BY LeadingFacts
<1>2. Entries(f, n) = [k \in 1 .. l |-> f[k - 1]] /\ Members(Entries(f, n)) = {f[k] : k \in 0 .. l - 1}
  BY EntriesFacts DEF Entries
<1> HIDE DEF l
<1>3. \A k \in 0 .. l - 1 : f[k] \in DataBlock
  BY <1>1
<1>4. \A k \in 1 .. l : k - 1 \in 0 .. l - 1
  BY <1>1
<1>5. [k \in 1 .. l |-> f[k - 1]] \in [1 .. l -> DataBlock]
  BY <1>3, <1>4
<1> QED BY <1>1, <1>2, <1>3, <1>5

LEMMA DirectSeq ==
    ASSUME NEW node \in Inode
    PROVE  /\ Entries(node.direct, Pointers) \in Seq(DataBlock)
           /\ Members(Entries(node.direct, Pointers)) \subseteq DataBlock
<1>1. \A k \in 0 .. Pointers : k < Pointers => node.direct[k] \in {0} \cup DataBlock
  BY NodeFacts, SizeFacts
<1> QED BY <1>1, PointerSeq, SizeFacts

LEMMA ChainSeq ==
    ASSUME NEW table, NEW blocks, SoundChains(table, blocks), NEW i \in Inum,
           table[i].indirect # 0
    PROVE  LET s == Entries(blocks[table[i].indirect], BlockSize)
           IN  s \in Seq(DataBlock) /\ Members(s) \subseteq DataBlock
<1> DEFINE f == blocks[table[i].indirect]
<1>1. \A c \in Cells : f[c] \in {0} \cup DataBlock
  BY DEF SoundChains
<1> HIDE DEF f
<1>2. \A k \in 0 .. BlockSize : k < BlockSize => f[k] \in {0} \cup DataBlock
  BY <1>1, BlockFacts
<1>3. Entries(f, BlockSize) \in Seq(DataBlock) /\ Members(Entries(f, BlockSize)) \subseteq DataBlock
  BY <1>2, PointerSeq, SizeFacts
<1> QED BY <1>3 DEF f

LEMMA Blanked ==
    ASSUME NEW table, table \in [Inum -> Inode], NEW blocks, SoundChains(table, blocks), NEW b
    PROVE  SoundChains(table, [blocks EXCEPT ![b] = Zeroes])
<1> DEFINE d == [blocks EXCEPT ![b] = Zeroes]
<1>1. d \in [DataBlock -> Block] /\ \A n \in DataBlock : d[n] = Zeroes \/ d[n] = blocks[n]
  BY BlockFacts DEF SoundChains
<1> HIDE DEF d
<1>2. \A i \in Inum : table[i].indirect # 0 => table[i].indirect \in DataBlock
  BY NodeFacts
<1> QED BY <1>1, <1>2, BlockFacts DEF SoundChains, d

LEMMA Overwritten ==
    ASSUME NEW table, table \in [Inum -> Inode], NEW blocks, SoundChains(table, blocks),
           NEW b \in DataBlock, NEW block \in Block, \A i \in Inum : table[i].indirect # b
    PROVE  SoundChains(table, [blocks EXCEPT ![b] = block])
<1> DEFINE d == [blocks EXCEPT ![b] = block]
<1>1. d \in [DataBlock -> Block] /\ \A n \in DataBlock : n # b => d[n] = blocks[n]
  BY DEF SoundChains
<1> HIDE DEF d
<1>2. \A i \in Inum : table[i].indirect # 0 => d[table[i].indirect] = blocks[table[i].indirect]
  BY <1>1, NodeFacts
<1> QED BY <1>1, <1>2 DEF SoundChains, d

LEMMA Repointed ==
    ASSUME NEW table, NEW t, NEW blocks, SoundChains(table, blocks),
           \A i \in Inum : t[i].indirect \in {0, table[i].indirect},
           Overwrites => \A i \in Inum, k \in Slot : t[i].direct[k] \in {0, table[i].direct[k]}
    PROVE  SoundChains(t, blocks)
<1>1. blocks \in [DataBlock -> Block] /\ (Overwrites \/ \A i \in Inum : t[i].indirect = 0)
  BY DEF SoundChains
<1>2. ASSUME NEW i \in Inum, NEW j \in Inum, t[i].indirect # 0
      PROVE  /\ t[i].indirect = table[i].indirect /\ t[j].indirect \in {0, table[j].indirect}
             /\ \A k \in Slot : t[j].direct[k] \in {0, table[j].direct[k]}
  BY <1>1, <1>2
<1>3. ASSUME NEW i \in Inum, NEW j \in Inum, t[i].indirect # 0
      PROVE  /\ \A c \in Cells : /\ blocks[t[i].indirect][c] \in {0} \cup DataBlock
                               /\ \/ blocks[t[i].indirect][c] = 0
                                  \/ blocks[t[i].indirect][c] # t[j].indirect
             /\ \A k \in Slot : t[j].direct[k] # t[i].indirect
  BY <1>2, <1>3 DEF SoundChains
<1> QED BY <1>1, <1>3 DEF SoundChains
-----------------------------------------------------------------------------
(* Every step keeps the invariant for the blocks of pointers.               *)

LEMMA ChainInit == ASSUME SoundDisks, Init PROVE ChainInv
<1>1. SoundChains(inode, data) /\ super \in {"blank", "valid", "data"}
  BY DEF SoundDisks, SoundImages, Init
<1>2. op.call = "none" /\ MemoryTypes
  BY DEF Init, Idle, MemoryTypes
<1> QED BY <1>1, <1>2 DEF ChainInv, RemoveTypes, WriteTypes

LEMMA ChainEnded ==
    ASSUME op' = Idle, super' \in {"blank", "valid", "data"}, SoundChains(inode', data'),
           MemoryTypes'
    PROVE  ChainInv'
BY DEF ChainInv, RemoveTypes, WriteTypes, Idle

LEMMA TableFacts ==
    ASSUME DirectInv
    PROVE  inode \in [Inum -> Inode] /\ \A i \in Inum : inode[i] \in Inode
BY DEF DirectInv, Sound

LEMMA ChainMount == ASSUME DirectInv, ChainInv, Mount PROVE ChainInv'
<1>1. /\ op' = Idle /\ inode' = inode /\ data' = data /\ super' = super /\ i_bitmap' = Valid
      /\ d_bitmap' = UNION {Populate(inode[i]) : i \in Valid}
  BY DEF Mount, Valid, disk
<1>2. ASSUME NEW i \in Valid
      PROVE  Populate(inode[i]) \subseteq DataBlock /\ Chain(inode[i]) \subseteq Populate(inode[i])
  <2>1. i \in Inum /\ inode[i].valid /\ inode[i] \in Inode /\ Whole(inode[i])
    BY TableFacts DEF Valid, DirectInv, Sound
  <2>2. Members(Entries(inode[i].direct, Pointers)) \subseteq DataBlock
    BY <2>1, DirectSeq
  <2>3. CASE inode[i].indirect = 0
    BY <2>2, <2>3 DEF Populate, Chain
  <2>4. CASE inode[i].indirect # 0
    <3>1. Members(Entries(data[inode[i].indirect], BlockSize)) \subseteq DataBlock
      BY <2>1, <2>4, ChainSeq DEF ChainInv
    <3>2. Leading(inode[i].direct, Pointers) = Pointers
      <4>1. \A k \in Slot : inode[i].direct[k] # 0
        BY <2>1, <2>4 DEF Whole, Full
      <4>2. /\ Leading(inode[i].direct, Pointers) \in 0 .. Pointers
            /\ \/ Leading(inode[i].direct, Pointers) = Pointers
               \/ inode[i].direct[Leading(inode[i].direct, Pointers)] = 0
        BY LeadingFacts, SizeFacts
      <4> QED BY <4>1, <4>2, SizeFacts
    <3> QED BY <2>2, <2>4, <3>1, <3>2 DEF Populate, Chain
  <2> QED BY <2>3, <2>4
<1>3. MemoryTypes'
  <2>1. d_bitmap' \subseteq DataBlock /\ \A i \in Valid : Chain(inode[i]) \subseteq d_bitmap'
    BY <1>1, <1>2
  <2>2. Valid' = Valid /\ \A i \in Valid : Chain(inode[i])' = Chain(inode[i])
    BY <1>1 DEF Valid, Chain
  <2> QED BY <1>1, <2>1, <2>2 DEF MemoryTypes, Valid
<1> QED BY <1>1, <1>3, ChainEnded DEF ChainInv

LEMMA ChainFormat == ASSUME DirectInv, ChainInv, Format PROVE ChainInv'
<1>1. /\ op'.call = "format" /\ super' = "valid" /\ UNCHANGED <<inode, data, memory>>
      /\ ~mounted
  BY DEF Format
<1> QED BY <1>1 DEF ChainInv, MemoryTypes, RemoveTypes, WriteTypes, memory

LEMMA ChainFormatNext == ASSUME DirectInv, ChainInv, FormatNext PROVE ChainInv'
<1>1. op \in Format_ /\ ~mounted /\ UNCHANGED <<super, memory>>
  BY DEF FormatNext, DirectInv, FormatInv
<1>2. op'.call \in {"none", "format"}
  <2>1. op = [call |-> "format", next |-> op.next]
    BY <1>1 DEF Format_
  <2>2. CASE op.next = Blocks - 1
    <3>1. op' = Idle
      BY <2>2, Zenon DEF FormatNext
    <3> QED BY <3>1 DEF Idle
  <2>3. CASE op.next # Blocks - 1
    <3>1. op' = [call |-> "format", next |-> op.next + 1]
      BY <2>1, <2>3 DEF FormatNext
    <3> QED BY <3>1
  <2> QED BY <2>2, <2>3
<1>3. SoundChains(inode, data) /\ inode \in [Inum -> Inode]
  BY TableFacts DEF ChainInv
<1>4. SoundChains(inode', data')
  <2>1. CASE op.next \in DataBlock
    <3>1. data' = [data EXCEPT ![op.next] = Zeroes] /\ inode' = inode
      BY <2>1 DEF FormatNext
    <3> QED BY <1>3, <3>1, Blanked
  <2>2. CASE op.next \notin DataBlock
    <3>1. data' = data /\ \A i \in Inum : inode'[i] = NoInode \/ inode'[i] = inode[i]
      BY <2>2 DEF FormatNext
    <3>2. /\ \A i \in Inum : inode'[i].indirect \in {0, inode[i].indirect}
          /\ \A i \in Inum, k \in Slot : inode'[i].direct[k] \in {0, inode[i].direct[k]}
      BY <3>1 DEF NoInode
    <3> QED BY <1>3, <3>1, <3>2, Repointed
  <2> QED BY <2>1, <2>2
<1> QED BY <1>1, <1>2, <1>4 DEF ChainInv, MemoryTypes, RemoveTypes, WriteTypes, memory

LEMMA ChainCreate == ASSUME DirectInv, ChainInv, Create PROVE ChainInv'
<1>1. /\ op' = Idle /\ mounted /\ UNCHANGED <<super, data, mounted, d_bitmap>>
      /\ i_bitmap # Inum
  BY DEF Create, Ready
<1> PICK f : f = FreeInode
  OBVIOUS
<1> DEFINE node == Created(inode[f])
<1>2. f \in Inum /\ ~inode[f].valid /\ Clean(inode[f])
  BY <1>1, FreeInodeFacts
<1>3. inode \in [Inum -> Inode]
  BY TableFacts
<1>4. node.direct = inode[f].direct /\ node.indirect = 0
  BY <1>2, <1>3, CreatedFacts
<1>5. inode' = [inode EXCEPT ![f] = node] /\ i_bitmap' = i_bitmap \cup {f}
  BY DEF Create
<1> HIDE DEF node
<1>6. inode'[f] = node /\ \A i \in Inum \ {f} : inode'[i] = inode[i]
  BY <1>2, <1>3, <1>5
<1>7. SoundChains(inode', data')
  <2>1. \A i \in Inum : inode'[i].indirect \in {0, inode[i].indirect}
    BY <1>4, <1>6
  <2>2. \A i \in Inum, k \in Slot : inode'[i].direct[k] \in {0, inode[i].direct[k]}
    BY <1>4, <1>6
  <2> QED BY <1>1, <2>1, <2>2, Repointed DEF ChainInv
<1>8. MemoryTypes'
  <2>1. ASSUME NEW i \in Valid' PROVE Chain(inode[i])' \subseteq d_bitmap
    <3>1. CASE i = f
      BY <1>4, <1>6, <3>1 DEF Chain
    <3>2. CASE i # f
      <4>1. i \in Inum /\ i \in Valid /\ inode'[i] = inode[i]
        BY <1>6, <3>2 DEF Valid
      <4>2. Chain(inode[i])' = Chain(inode[i])
        BY <1>1, <4>1 DEF Chain
      <4> QED BY <1>1, <4>1, <4>2 DEF ChainInv, MemoryTypes
    <3> QED BY <3>1, <3>2
  <2> QED BY <1>1, <1>2, <1>5, <2>1 DEF ChainInv, MemoryTypes
<1> QED BY <1>1, <1>7, <1>8, ChainEnded DEF ChainInv
(* What a file's block of pointers names can only become less.               *)
LEMMA MemoryKept ==
    ASSUME DirectInv, ChainInv, inode' = inode, mounted' = mounted, i_bitmap' = i_bitmap,
           d_bitmap \subseteq d_bitmap', d_bitmap' \subseteq DataBlock,
           \A i \in Inum : inode[i].indirect # 0 =>
              data'[inode[i].indirect] \in {Zeroes, data[inode[i].indirect]}
    PROVE  MemoryTypes'
<1>1. ASSUME NEW i \in Inum PROVE Chain(inode[i])' \subseteq Chain(inode[i])
  <2>1. CASE inode[i].indirect = 0
    BY <2>1 DEF Chain
  <2>2. CASE inode[i].indirect # 0 /\ data'[inode[i].indirect] = data[inode[i].indirect]
    BY <2>2 DEF Chain
  <2>3. CASE inode[i].indirect # 0 /\ data'[inode[i].indirect] = Zeroes
    BY <2>3, NoPointers DEF Chain
  <2> QED BY <2>1, <2>2, <2>3
<1> QED BY <1>1 DEF ChainInv, MemoryTypes, Valid

LEMMA ChainRemove ==
    ASSUME DirectInv, ChainInv, NEW i \in Inum, StartRemove(i) PROVE ChainInv'
<1> DEFINE node == [inode[i] EXCEPT !.direct = DropDirect(inode[i])]
           todo == Entries(inode[i].direct, Pointers)
<1>1. /\ mounted /\ inode[i].valid /\ UNCHANGED <<super, inode, data, memory>>
      /\ op' = [call |-> "remove", inum |-> i, node |-> node, todo |-> todo]
  BY DEF StartRemove, Ready, disk
<1>2. inode[i] \in Inode /\ NoHoles(inode[i].direct)
  BY <1>1 DEF DirectInv, Sound, Whole
<1>3. node.indirect = inode[i].indirect
  <2>1. [k \in Slot |-> 0] \in [Slot -> {0} \cup DataBlock]
    OBVIOUS
  <2> QED BY <1>2, <2>1, DropFacts, WithDirect
<1>4. todo \in Seq(DataBlock)
  BY <1>2, DirectSeq
<1> HIDE DEF node, todo
<1>5. RemoveTypes' /\ WriteTypes'
  BY <1>1, <1>3, <1>4 DEF RemoveTypes, WriteTypes
<1>6. SoundChains(inode, data)' /\ super' \in {"blank", "valid", "data"}
  BY <1>1 DEF ChainInv
<1>7. MemoryTypes'
  BY <1>1 DEF ChainInv, MemoryTypes, Valid, Chain, memory
<1> QED BY <1>5, <1>6, <1>7 DEF ChainInv

LEMMA ChainRemoveBlock == ASSUME DirectInv, ChainInv, RemoveBlock PROVE ChainInv'
<1> PICK b : b = Head(op.todo)
  OBVIOUS
<1>1. /\ op.call = "remove" /\ op.todo # <<>> /\ data' = [data EXCEPT ![b] = Zeroes]
      /\ UNCHANGED <<super, inode, memory>> /\ op' = [op EXCEPT !.todo = Tail(op.todo)]
  BY DEF RemoveBlock
<1>2. /\ op = [call |-> "remove", inum |-> op.inum, node |-> op.node, todo |-> op.todo]
      /\ op.todo \in Seq(DataBlock) /\ op.node.indirect \in {0, inode[op.inum].indirect}
  BY <1>1, RemovingFacts DEF ChainInv, RemoveTypes
<1>3. op' = [call |-> "remove", inum |-> op.inum, node |-> op.node, todo |-> Tail(op.todo)]
  BY <1>1, <1>2
<1>4. Tail(op.todo) \in Seq(DataBlock)
  BY <1>1, <1>2
<1>5. inode \in [Inum -> Inode] /\ SoundChains(inode, data)
  BY TableFacts DEF ChainInv
<1>6. SoundChains(inode, data)'
  BY <1>1, <1>5, Blanked
<1>7. RemoveTypes' /\ WriteTypes'
  BY <1>1, <1>2, <1>3, <1>4 DEF RemoveTypes, WriteTypes
<1>8. \A i \in Inum : inode[i].indirect # 0 =>
         data'[inode[i].indirect] \in {Zeroes, data[inode[i].indirect]}
  BY <1>1, <1>5, NodeFacts DEF SoundChains
<1>9. MemoryTypes'
  BY <1>1, <1>8, MemoryKept DEF memory, ChainInv, MemoryTypes
<1> QED BY <1>1, <1>6, <1>7, <1>9 DEF ChainInv

LEMMA ChainRemoveIndirect == ASSUME DirectInv, ChainInv, RemoveIndirect PROVE ChainInv'
<1> PICK b : b = op.node.indirect
  OBVIOUS
<1> DEFINE s    == Entries(data[b], BlockSize)
           node == [op.node EXCEPT !.indirect = 0]
<1>1. /\ op.call = "remove" /\ b # 0 /\ UNCHANGED <<super, inode, data, memory>>
      /\ op' = [op EXCEPT !.todo = Append(s, b), !.node.indirect = 0]
  BY DEF RemoveIndirect, disk
<1>2. /\ op.inum \in Inum /\ op.node \in Inode
      /\ op = [call |-> "remove", inum |-> op.inum, node |-> op.node, todo |-> op.todo]
      /\ b = inode[op.inum].indirect /\ b \in DataBlock
  BY <1>1, RemovingFacts, NodeFacts DEF ChainInv, RemoveTypes
<1>3. s \in Seq(DataBlock)
  BY <1>1, <1>2, ChainSeq DEF ChainInv
<1> HIDE DEF s
<1>4. op' = [call |-> "remove", inum |-> op.inum, node |-> node, todo |-> Append(s, b)]
  BY <1>1, <1>2
<1>5. node.indirect = 0
  BY <1>2, WithoutIndirect
<1> HIDE DEF node
<1>6. Append(s, b) \in Seq(DataBlock)
  BY <1>2, <1>3
<1>7. RemoveTypes' /\ WriteTypes'
  <2>1. op'.call = "remove" /\ op'.todo = Append(s, b) /\ op'.node = node
    BY <1>4
  <2> QED BY <1>5, <1>6, <2>1 DEF RemoveTypes, WriteTypes
<1>8. SoundChains(inode, data)' /\ super' \in {"blank", "valid", "data"}
  BY <1>1 DEF ChainInv
<1>9. MemoryTypes'
  BY <1>1 DEF ChainInv, MemoryTypes, Valid, Chain, memory
<1> QED BY <1>7, <1>8, <1>9 DEF ChainInv

LEMMA ChainRemoveEnd == ASSUME DirectInv, ChainInv, RemoveEnd PROVE ChainInv'
<1> PICK i : i = op.inum
  OBVIOUS
<1> DEFINE a    == [op.node EXCEPT !.valid = FALSE]
           node == [a EXCEPT !.size = 0]
<1>1. /\ op.call = "remove" /\ op.node.indirect = 0 /\ op' = Idle
      /\ i_bitmap' = i_bitmap \ {i} /\ UNCHANGED <<super, data, mounted, d_bitmap>>
  BY DEF RemoveEnd, ClearBit
<1>2. inode' = [inode EXCEPT ![i] = node]
  BY Zenon DEF RemoveEnd
<1>3. i \in Inum /\ op.node \in Inode /\ Clean(op.node) /\ inode \in [Inum -> Inode]
  BY <1>1, RemovingFacts, TableFacts
<1>4. a \in Inode /\ a.valid = FALSE /\ a.direct = op.node.direct /\ a.indirect = 0
  BY <1>1, <1>3, WithValid
<1> HIDE DEF a
<1>5. 0 \in 0 .. MaxSize
  BY SizeFacts
<1>6. node \in Inode /\ node.valid = FALSE /\ node.direct = op.node.direct /\ node.indirect = 0
  BY <1>4, <1>5, WithSize
<1> HIDE DEF node
<1>7. inode'[i] = node /\ \A j \in Inum \ {i} : inode'[j] = inode[j]
  BY <1>2, <1>3
<1>8. SoundChains(inode', data')
  <2>1. \A j \in Inum : inode'[j].indirect \in {0, inode[j].indirect}
    BY <1>6, <1>7
  <2>2. \A j \in Inum, k \in Slot : inode'[j].direct[k] \in {0, inode[j].direct[k]}
    BY <1>3, <1>6, <1>7 DEF Clean
  <2> QED BY <1>1, <2>1, <2>2, Repointed DEF ChainInv
<1>9. MemoryTypes'
  <2>1. ASSUME NEW j \in Valid' PROVE Chain(inode[j])' \subseteq d_bitmap \/ ~mounted
    <3>1. j \in Valid /\ inode'[j] = inode[j]
      BY <1>6, <1>7 DEF Valid
    <3>2. Chain(inode[j])' = Chain(inode[j])
      BY <1>1, <3>1 DEF Chain
    <3> QED BY <3>1, <3>2 DEF ChainInv, MemoryTypes
  <2> QED BY <1>1, <2>1 DEF ChainInv, MemoryTypes
<1> QED BY <1>1, <1>8, <1>9, ChainEnded DEF ChainInv
LEMMA ChainWrite ==
    ASSUME DirectInv, ChainInv, NEW i \in Inum, NEW len \in Lengths, NEW tag \in Tag,
           Write(i, len, tag)
    PROVE  ChainInv'
<1>1. UNCHANGED <<super, inode, data, memory>>
  BY DEF Write, disk
<1>2. PICK off \in Offsets(i, len) :
         op' = [call |-> "write", inum |-> i, node |-> inode[i], tag |-> tag,
                pos |-> off, left |-> len, written |-> 0,
                chain |-> Zeroes, buffer |-> Zeroes]
  BY DEF Write
<1>5. /\ op'.call = "write" /\ op'.tag = tag /\ op'.chain = Zeroes /\ op'.buffer = Zeroes
      /\ op'.inum = i /\ op'.node = inode[i]
  BY <1>2
<1>7. RemoveTypes' /\ WriteTypes'
  BY <1>1, <1>5, BlockFacts DEF RemoveTypes, WriteTypes
<1>8. SoundChains(inode, data)' /\ super' \in {"blank", "valid", "data"}
  BY <1>1 DEF ChainInv
<1>9. MemoryTypes'
  BY <1>1 DEF ChainInv, MemoryTypes, Valid, Chain, memory
<1> QED BY <1>7, <1>8, <1>9 DEF ChainInv

(* What the blocks of pointers hold stays.                                   *)
ChainsKept == \A i \in Inum : inode[i].indirect # 0 =>
                 data'[inode[i].indirect] = data[inode[i].indirect]

(* A write that goes on, in whichever block.                                 *)
LEMMA ChainWriteOn ==
    ASSUME DirectInv, ChainInv, op.call = "write",
           super' \in {"blank", "valid", "data"}, SoundChains(inode, data'),
           inode' = inode, mounted' = mounted, i_bitmap' = i_bitmap,
           d_bitmap \subseteq d_bitmap', d_bitmap' \subseteq DataBlock, ChainsKept,
           NEW node, NEW pos, NEW left, NEW written, NEW chain \in Block, NEW buffer \in Block,
           op' = WriteCall(op.inum, node, op.tag, pos, left, written, chain, buffer),
           node.indirect = op.node.indirect, node.size = op.node.size,
           chain = Zeroes \/ (node.indirect # 0 /\ chain = data[node.indirect]),
           Overwrites => node.direct = op.node.direct
    PROVE  ChainInv'
<1>1. MemoryTypes'
  BY MemoryKept DEF ChainsKept
<1>2. /\ op.inum \in Inum /\ op.node.indirect = inode[op.inum].indirect /\ op.tag \in Tag
      /\ op.node.size = inode[op.inum].size
  BY WritingFacts DEF ChainInv, WriteTypes
<1>3. /\ op'.call = "write" /\ op'.inum = op.inum /\ op'.node = node /\ op'.tag = op.tag
      /\ op'.pos = pos /\ op'.left = left /\ op'.chain = chain /\ op'.buffer = buffer
  BY DEF WriteCall
<1>4. Overwrites => op.node.direct = inode[op.inum].direct
  BY DEF ChainInv, WriteTypes
<1>5. node.indirect # 0 => data'[node.indirect] = data[node.indirect]
  BY <1>2 DEF ChainsKept
<1>6. RemoveTypes' /\ WriteTypes'
  BY <1>2, <1>3, <1>4, <1>5 DEF RemoveTypes, WriteTypes
<1> QED BY <1>1, <1>6 DEF ChainInv

(* No block that a write goes to is a block of pointers.                     *)
LEMMA ChainsSpared ==
    ASSUME DirectInv, ChainInv, NEW b \in DataBlock, NEW block \in Block,
           data' = [data EXCEPT ![b] = block], \A i \in Inum : inode[i].indirect # b
    PROVE  SoundChains(inode, data') /\ ChainsKept
<1>1. inode \in [Inum -> Inode] /\ SoundChains(inode, data)
  BY TableFacts DEF ChainInv
<1>2. SoundChains(inode, data')
  BY <1>1, Overwritten
<1> QED BY <1>1, <1>2, NodeFacts DEF SoundChains, ChainsKept

LEMMA ChainWriteDirect == ASSUME DirectInv, ChainInv, WriteDirect PROVE ChainInv' /\ ChainsKept
<1> PICK b : b = op.node.direct[BlockNo]
  OBVIOUS
<1> PICK k : k = BlockNo
  OBVIOUS
<1>1. /\ Writing /\ op.call = "write" /\ op.left > 0 /\ k < Pointers /\ b # 0
      /\ WriteTo(b) /\ d_bitmap' = d_bitmap
  BY DEF WriteDirect, Writing
<1>2. /\ op.inum \in Inum /\ op.node \in Inode /\ op.pos \in Nat /\ op.left \in Nat
      /\ op.written \in Nat
  BY <1>1, WritingFacts
<1>3. k \in Slot /\ ToWrite \in Nat /\ ToWrite <= op.left
  BY <1>1, <1>2, OffsetFacts, SizeFacts
<1>4. b \in DataBlock /\ [op.node.direct EXCEPT ![k] = b] = op.node.direct
  BY <1>1, <1>2, <1>3, NodeFacts
<1> DEFINE node == [op.node EXCEPT !.direct = [@ EXCEPT ![k] = b]]
<1>5. /\ op' = WriteCall(op.inum, node, op.tag, op.pos + ToWrite, op.left - ToWrite,
                         op.written + ToWrite, op.chain, Refilled(b))
      /\ inode' = inode /\ mounted' = mounted /\ i_bitmap' = i_bitmap
  BY <1>1, <1>3, <1>4, WriteToFacts
<1>6. /\ node.indirect = op.node.indirect /\ node.direct = op.node.direct
      /\ node.size = op.node.size
  <2>1. b \in DataBlock
    BY <1>4
  <2>2. /\ node.indirect = op.node.indirect /\ node.direct = [op.node.direct EXCEPT ![k] = b]
        /\ node.size = op.node.size
    BY <1>2, <1>3, <2>1, NewDirect
  <2> HIDE DEF node
  <2> QED BY <1>4, <2>2
<1> HIDE DEF node
<1>7. /\ op.tag \in Tag /\ op.chain \in Block
      /\ op.chain = Zeroes \/ (op.node.indirect # 0 /\ op.chain = data[op.node.indirect])
      /\ Overwrites => op.node.direct = inode[op.inum].direct
      /\ SoundChains(inode, data) /\ super \in {"blank", "valid", "data"}
      /\ d_bitmap \subseteq DataBlock
  BY <1>1 DEF ChainInv, WriteTypes, MemoryTypes
<1>8. Refilled(b) \in Block
  BY <1>4, <1>7, BlockFacts DEF SoundChains, Refilled
<1>9. data' = [data EXCEPT ![b] = Refilled(b)] /\ super' = super
  BY <1>1 DEF WriteTo
<1>10. \A i \in Inum : inode[i].indirect # b
  BY <1>1, <1>2, <1>3, <1>7 DEF SoundChains
<1>11. SoundChains(inode, data') /\ ChainsKept
  BY <1>4, <1>8, <1>9, <1>10, ChainsSpared
<1> QED BY <1>1, <1>5, <1>6, <1>7, <1>8, <1>9, <1>11, ChainWriteOn

LEMMA ChainWriteNew == ASSUME DirectInv, ChainInv, WriteNew PROVE ChainInv' /\ ChainsKept
<1> PICK b : b = Lowest(FreeBlocks)
  OBVIOUS
<1> PICK k : k = BlockNo
  OBVIOUS
<1>1. /\ Writing /\ op.call = "write" /\ WriteTo(b) /\ d_bitmap' = d_bitmap \cup {b}
      /\ b \in DataBlock /\ ~Overwrites /\ k \in Slot
  BY NewBlockFacts, NewAppends DEF WriteNew, Writing, update_dbitmap
<1>2. op.node \in Inode
  BY <1>1, WritingFacts
<1> DEFINE node == [op.node EXCEPT !.direct = [@ EXCEPT ![k] = b]]
<1>3. /\ op' = WriteCall(op.inum, node, op.tag, op.pos + ToWrite, op.left - ToWrite,
                         op.written + ToWrite, op.chain, Refilled(b))
      /\ inode' = inode /\ mounted' = mounted /\ i_bitmap' = i_bitmap
  BY <1>1, WriteToFacts
<1>4. node.indirect = op.node.indirect /\ node.size = op.node.size
  BY <1>1, <1>2, NewDirect
<1> HIDE DEF node
<1>5. /\ op.tag \in Tag /\ op.chain \in Block
      /\ op.chain = Zeroes \/ (op.node.indirect # 0 /\ op.chain = data[op.node.indirect])
      /\ SoundChains(inode, data) /\ super \in {"blank", "valid", "data"}
      /\ d_bitmap \subseteq DataBlock
  BY <1>1 DEF ChainInv, WriteTypes, MemoryTypes
<1>6. Refilled(b) \in Block
  BY <1>1, <1>5, BlockFacts DEF SoundChains, Refilled
<1>7. data' = [data EXCEPT ![b] = Refilled(b)] /\ super' = super
  BY <1>1 DEF WriteTo
<1>8. \A i \in Inum : inode[i].indirect # b
  BY <1>1, <1>5, SizeFacts DEF SoundChains
<1>9. SoundChains(inode, data') /\ ChainsKept
  BY <1>1, <1>6, <1>7, <1>8, ChainsSpared
<1>10. d_bitmap \subseteq d_bitmap' /\ d_bitmap' \subseteq DataBlock
  BY <1>1, <1>5
<1> QED BY <1>1, <1>3, <1>4, <1>5, <1>6, <1>7, <1>9, <1>10, ChainWriteOn

LEMMA ChainWriteFull == ASSUME DirectInv, ChainInv, WriteFull PROVE ChainInv'
<1>1. op' = Idle /\ UNCHANGED <<super, inode, data, memory>>
  BY DEF WriteFull, disk
<1> QED BY <1>1, ChainEnded DEF ChainInv, MemoryTypes, Valid, Chain, memory
(* The pointer a write looks for is in the file's block of pointers, or is 0.  *)
LEMMA ChainLook ==
    ASSUME DirectInv, ChainInv, WriteIndirect,
           NEW chain, chain = IF op.chain[0] = 0 /\ op.node.indirect # 0
                              THEN data[op.node.indirect] ELSE op.chain
    PROVE  /\ BlockNo - Pointers \in Cells
           /\ IF op.node.indirect = 0 THEN chain = Zeroes
              ELSE chain = data[op.node.indirect]
<1> PICK k : k = BlockNo
  OBVIOUS
<1>1. op.call = "write" /\ op.left > 0 /\ k >= Pointers
  BY DEF WriteIndirect, Writing
<1>2. /\ op.pos \in Nat /\ op.left \in Nat /\ op.written \in Nat /\ op.node.size \in Nat
      /\ op.node.size + op.written + op.left <= MaxSize
      /\ k \in Nat /\ BlockSize * k \in Nat /\ BlockSize * k <= op.pos
  BY <1>1, WritingFacts, OffsetFacts
<1>3. op.pos + op.left <= MaxSize
  <2>1. op.pos + op.left <= op.node.size \/ op.pos = op.node.size + op.written
    BY <1>1 DEF DirectInv, WriteInv
  <2> QED BY <1>2, <2>1, SizeFacts
<1>4. k < Pointers + BlockSize
  <2> SUFFICES ASSUME Pointers + BlockSize <= k PROVE FALSE
    BY <1>2, SizeFacts
  <2> DEFINE r == Pointers + BlockSize
  <2>1. r \in Nat /\ MaxSize <= BlockSize * r
    BY SizeFacts, ReachAssumption
  <2> HIDE DEF r
  <2>2. BlockSize * r <= BlockSize * k /\ BlockSize * r \in Nat
    BY <1>2, <2>1, Product, SizeFacts DEF r
  <2> QED BY <1>1, <1>2, <1>3, <2>1, <2>2, SizeFacts
<1>5. k - Pointers \in Cells
  BY <1>1, <1>2, <1>4, SizeFacts, BlockFacts
<1>6. op.chain = Zeroes \/ (op.node.indirect # 0 /\ op.chain = data[op.node.indirect])
  BY <1>1 DEF ChainInv, WriteTypes
<1>7. Zeroes[0] = 0
  BY SizeFacts, BlockFacts
<1> QED BY <1>5, <1>6, <1>7

LEMMA ChainWriteIndirect ==
    ASSUME DirectInv, ChainInv, WriteIndirect
    PROVE  ChainInv' /\ ChainsKept
<1> DEFINE chain == IF op.chain[0] = 0 /\ op.node.indirect # 0
                    THEN data[op.node.indirect] ELSE op.chain
           b     == chain[BlockNo - Pointers]
           block == Overlay(op.buffer)
<1>1. /\ op.call = "write" /\ op.left > 0 /\ BlockNo >= Pointers /\ UNCHANGED <<inode, memory>>
      /\ \/ b = 0 /\ super' = "data" /\ UNCHANGED data
         \/ b \in DataBlock /\ data' = [data EXCEPT ![b] = block] /\ UNCHANGED super
  BY DEF WriteIndirect, Writing, indirect_pointer
<1>2. op' = [Advanced(block) EXCEPT !.chain = chain]
  BY Zenon DEF WriteIndirect, indirect_pointer
<1>3. /\ BlockNo - Pointers \in Cells
      /\ IF op.node.indirect = 0 THEN chain = Zeroes ELSE chain = data[op.node.indirect]
  BY ChainLook
<1>4. /\ op.pos \in Nat /\ op.left \in Nat /\ op.inum \in Inum /\ op.node \in Inode
      /\ op.node.indirect \in {0} \cup DataBlock
  BY <1>1, WritingFacts, NodeFacts
<1>5. /\ op.tag \in Tag /\ op.buffer \in Block
      /\ op.node.indirect = inode[op.inum].indirect
      /\ SoundChains(inode, data) /\ super \in {"blank", "valid", "data"}
      /\ d_bitmap \subseteq DataBlock
  BY <1>1 DEF ChainInv, WriteTypes, MemoryTypes
<1>6. /\ chain \in Block
      /\ chain = Zeroes \/ (op.node.indirect # 0 /\ chain = data[op.node.indirect])
  BY <1>3, <1>4, <1>5, BlockFacts DEF SoundChains
<1>7. block \in Block
  BY <1>5, BlockFacts
<1> HIDE DEF chain, block
<1>8. op' = WriteCall(op.inum, op.node, op.tag, op.pos + ToWrite, op.left - ToWrite,
                      op.written + ToWrite, chain, block)
  <2>1. op' = WithChain(Advanced(block), chain)
    BY <1>2, Zenon DEF WithChain
  <2> QED BY <1>1, <2>1, Advance, WriteCallFields
<1>9. /\ mounted' = mounted /\ i_bitmap' = i_bitmap /\ d_bitmap' = d_bitmap /\ inode' = inode
      /\ d_bitmap \subseteq d_bitmap' /\ d_bitmap' \subseteq DataBlock
  BY <1>1, <1>5 DEF memory
<1>10. SoundChains(inode, data') /\ ChainsKept /\ super' \in {"blank", "valid", "data"}
  <2>1. CASE b = 0 /\ super' = "data" /\ UNCHANGED data
    BY <1>5, <2>1 DEF ChainsKept
  <2>2. CASE b \in DataBlock /\ data' = [data EXCEPT ![b] = block] /\ UNCHANGED super
    <3>1. b # 0 /\ op.node.indirect # 0 /\ chain = data[inode[op.inum].indirect]
      BY <1>3, <1>5, <2>2, SizeFacts, BlockFacts
    <3>2. \A i \in Inum : inode[i].indirect # b
      BY <1>3, <1>4, <1>5, <3>1 DEF SoundChains
    <3> HIDE DEF b
    <3> QED BY <1>5, <1>7, <2>2, <3>2, ChainsSpared
  <2> QED BY <1>1, <2>1, <2>2
<1> QED BY <1>1, <1>6, <1>7, <1>8, <1>9, <1>10, ChainWriteOn

LEMMA ChainWriteEnd == ASSUME DirectInv, ChainInv, WriteEnd PROVE ChainInv'
<1> PICK i : i = op.inum
  OBVIOUS
<1> DEFINE z    == op.node.size + op.written
           node == [op.node EXCEPT !.size = z]
<1>1. /\ op.call = "write" /\ op.left = 0 /\ op' = Idle /\ inode' = [inode EXCEPT ![i] = node]
      /\ UNCHANGED <<super, data, memory>>
  BY DEF WriteEnd, SizeAdded
<1>2. /\ i \in Inum /\ op.node \in Inode /\ op.node.valid /\ op.written \in Nat
      /\ op.node.size \in Nat /\ op.left \in Nat
      /\ op.node.size + op.written + op.left <= MaxSize
      /\ inode \in [Inum -> Inode] /\ inode[i].valid
  BY <1>1, WritingFacts
<1>3. z \in 0 .. MaxSize
  BY <1>1, <1>2, SizeFacts
<1> HIDE DEF z
<1>4. node.valid /\ node.direct = op.node.direct /\ node.indirect = op.node.indirect
  BY <1>2, <1>3, WithSize
<1> HIDE DEF node
<1>5. /\ op.node.indirect = inode[i].indirect
      /\ Overwrites => op.node.direct = inode[i].direct
  BY <1>1 DEF ChainInv, WriteTypes
<1>6. inode'[i] = node /\ \A j \in Inum \ {i} : inode'[j] = inode[j]
  BY <1>1, <1>2
<1>7. SoundChains(inode', data')
  <2>1. \A j \in Inum : inode'[j].indirect = inode[j].indirect
    BY <1>4, <1>5, <1>6
  <2>2. Overwrites => \A j \in Inum, k \in Slot : inode'[j].direct[k] = inode[j].direct[k]
    BY <1>4, <1>5, <1>6
  <2>3. \A j \in Inum : inode'[j].indirect \in {0, inode[j].indirect}
    BY <2>1
  <2>4. Overwrites => \A j \in Inum, k \in Slot :
                         inode'[j].direct[k] \in {0, inode[j].direct[k]}
    BY <2>2
  <2>5. SoundChains(inode, data) /\ data' = data
    BY <1>1 DEF ChainInv
  <2> QED BY <2>3, <2>4, <2>5, Repointed
<1>8. MemoryTypes'
  <2>1. \A j \in Inum : Chain(inode[j])' = Chain(inode[j])
    BY <1>1, <1>4, <1>5, <1>6 DEF Chain
  <2>2. Valid' = Valid
    BY <1>2, <1>4, <1>6 DEF Valid
  <2> QED BY <1>1, <2>1, <2>2 DEF ChainInv, MemoryTypes, Valid, memory
<1> QED BY <1>1, <1>7, <1>8, ChainEnded DEF ChainInv

LEMMA ChainExit == ASSUME DirectInv, ChainInv, Exit PROVE ChainInv'
<1>1. /\ op' = Idle /\ UNCHANGED <<super, inode, data>> /\ mounted' = FALSE
      /\ i_bitmap' = {} /\ d_bitmap' = {}
  BY DEF Exit, disk
<1>2. MemoryTypes'
  BY <1>1 DEF MemoryTypes
<1> QED BY <1>1, <1>2, ChainEnded DEF ChainInv

LEMMA ChainNext == DirectInv /\ ChainInv /\ [Next]_vars => ChainInv'
<1> SUFFICES ASSUME DirectInv, ChainInv, [Next]_vars PROVE ChainInv'
  OBVIOUS
<1>1. ASSUME NEW i \in Inum, StartRemove(i) PROVE ChainInv'
  BY <1>1, ChainRemove
<1>2. ASSUME NEW i \in Inum, NEW len \in Lengths, NEW tag \in Tag, Write(i, len, tag)
      PROVE  ChainInv'
  BY <1>2, ChainWrite
<1>3. CASE UNCHANGED vars
  BY <1>3 DEF vars, ChainInv, MemoryTypes, Valid, Chain, RemoveTypes, WriteTypes
<1> QED BY <1>1, <1>2, <1>3, ChainMount, ChainFormat, ChainFormatNext, ChainCreate,
           ChainRemoveBlock, ChainRemoveIndirect, ChainRemoveEnd, ChainWriteDirect,
           ChainWriteNew, ChainWriteFull, ChainWriteIndirect, ChainWriteEnd, ChainExit
        DEF Next

LEMMA ChainInvariance == ASSUME SoundDisks PROVE Spec => [](DirectInv /\ ChainInv)
<1>1. Init => DirectInv /\ ChainInv
  BY DirectInit, ChainInit DEF SoundDisks
<1>2. DirectInv /\ ChainInv /\ [Next]_vars => (DirectInv /\ ChainInv)'
  BY DirectNext, ChainNext
<1> QED BY <1>1, <1>2, PTL DEF Spec

(* Every variable, and every local of the call under way, has its type.  So a
   block's number read from an inode or a block of pointers is 0 or that of a
   data block, as long as no file's bytes land in a block of pointers. *)
THEOREM TypeCorrect == ASSUME SoundDisks PROVE Spec => []TypeOK
<1>1. ASSUME DirectInv, ChainInv PROVE op \in {Idle} \cup Format_ \cup Remove_ \cup Write_
  <2>1. CASE op.call = "format"
    BY <1>1, <2>1 DEF DirectInv, FormatInv
  <2>2. CASE op.call = "remove"
    <3>1. /\ op.inum \in Inum /\ op.node \in Inode /\ op.todo \in Seq(DataBlock)
          /\ op = [call |-> "remove", inum |-> op.inum, node |-> op.node, todo |-> op.todo]
      BY <1>1, <2>2, RemovingFacts DEF ChainInv, RemoveTypes
    <3> QED BY <3>1 DEF Remove_
  <2>3. CASE op.call = "write"
    <3>1. /\ op.inum \in Inum /\ op.node \in Inode /\ op.tag \in Tag
          /\ op.pos \in Nat /\ op.left \in Nat /\ op.written \in Nat
          /\ op.chain \in Block /\ op.buffer \in Block
          /\ op = WriteCall(op.inum, op.node, op.tag, op.pos, op.left, op.written,
                            op.chain, op.buffer)
      BY <1>1, <2>3, WritingFacts DEF ChainInv, WriteTypes
    <3> QED BY <3>1 DEF Write_, WriteCall
  <2> QED BY <1>1, <2>1, <2>2, <2>3 DEF DirectInv, CallInv
<1>2. DirectInv /\ ChainInv => TypeOK
  BY <1>1, TableFacts DEF DirectInv, MemoryInv, ChainInv, MemoryTypes, SoundChains, TypeOK
<1> QED BY <1>2, ChainInvariance, PTL

(* A block of a file, named in its inode or in its block of pointers, is marked
   as soon as the disk is mounted, and what a write takes is marked before the
   inode table says so: find_free_dblock cannot pick it. *)
THEOREM Covered == ASSUME SoundDisks PROVE Spec => []BitmapCovers
<1>1. ASSUME DirectInv, ChainInv PROVE BitmapCovers
  <2> SUFFICES ASSUME mounted
               PROVE  /\ \A i \in Valid : Direct(inode[i]) \cup Chain(inode[i]) \subseteq d_bitmap
                      /\ op.call = "write" => Direct(op.node) \subseteq d_bitmap
    BY DEF BitmapCovers
  <2>1. ASSUME NEW i \in Valid PROVE Direct(inode[i]) \cup Chain(inode[i]) \subseteq d_bitmap
    BY <1>1 DEF DirectInv, MemoryInv, Marked, ChainInv, MemoryTypes, Direct, Valid
  <2>2. ASSUME op.call = "write" PROVE Direct(op.node) \subseteq d_bitmap
    BY <1>1, <2>2, WritingFacts DEF DirectInv, WriteInv, Marked, Direct
  <2> QED BY <2>1, <2>2
<1> QED BY <1>1, ChainInvariance, PTL

(* Where a write finds no pointer, the file's Size is beyond its blocks.     *)
LEMMA BeyondBlocks ==
    ASSUME DirectInv, ChainInv, Overwrites, WriteIndirect, super' # super
    PROVE  op.inum \in Valid /\ inode[op.inum].size > Held(inode[op.inum])
<1> DEFINE chain == IF op.chain[0] = 0 /\ op.node.indirect # 0
                    THEN data[op.node.indirect] ELSE op.chain
<1> PICK k : k = BlockNo
  OBVIOUS
<1> PICK node : node = inode[op.inum]
  OBVIOUS
<1>1. op.call = "write" /\ op.left > 0 /\ k >= Pointers /\ chain[k - Pointers] = 0
  BY DEF WriteIndirect, Writing, indirect_pointer
<1>2. /\ k - Pointers \in Cells
      /\ IF op.node.indirect = 0 THEN chain = Zeroes ELSE chain = data[op.node.indirect]
  BY ChainLook
<1> HIDE DEF chain
<1>3. /\ op.pos \in Nat /\ op.left \in Nat /\ op.inum \in Valid /\ node.size \in Nat
      /\ op.pos + op.left <= op.node.size
      /\ k \in Nat /\ BlockSize * k \in Nat /\ BlockSize * k <= op.pos
  BY <1>1, WritingFacts, OffsetFacts, NodeFacts DEF Valid, DirectInv, WriteInv
<1>4. op.node.size = node.size /\ op.node.indirect = node.indirect
  BY <1>1 DEF ChainInv, WriteTypes
<1> DEFINE m == Leading(node.direct, Pointers)
           l == IF node.indirect = 0 THEN 0 ELSE Leading(data[node.indirect], BlockSize)
<1>5. m \in Nat /\ m <= Pointers
  BY LeadingFacts, SizeFacts
<1>6. l \in Nat /\ l <= k - Pointers
  <2>1. CASE node.indirect = 0
    BY <1>1, <1>3, <2>1, SizeFacts
  <2>2. CASE node.indirect # 0
    <3>1. data[node.indirect][k - Pointers] = 0
      BY <1>1, <1>2, <1>4, <2>2
    <3>2. /\ Leading(data[node.indirect], BlockSize) \in 0 .. BlockSize
          /\ \A c \in 0 .. BlockSize :
                c < Leading(data[node.indirect], BlockSize) => data[node.indirect][c] # 0
      BY LeadingFacts, SizeFacts
    <3>3. k - Pointers \in 0 .. BlockSize
      BY <1>2, SizeFacts DEF Cells
    <3> QED BY <2>2, <3>1, <3>2, <3>3, SizeFacts
  <2> QED BY <2>1, <2>2
<1>7. Held(node) = BlockSize * (m + l)
  BY DEF Held
<1> HIDE DEF m, l
<1>8. m + l \in Nat /\ m + l <= k
  BY <1>3, <1>5, <1>6, SizeFacts
<1>9. BlockSize * (m + l) <= BlockSize * k /\ BlockSize * (m + l) \in Nat
  BY <1>3, <1>8, Product, SizeFacts
<1> QED BY <1>1, <1>3, <1>4, <1>7, <1>9

(* Once the superblock is lost no call begins; the write under way goes on.  *)
LostInv == super = "data" => /\ op = Idle \/ op.call = "write"
                             /\ LostBySizeAlone

LEMMA LostStays ==
    ASSUME LostInv, super' = super, op' = Idle \/ op'.call = "write",
           \A i \in Valid :
              /\ i \in Valid'
              /\ inode[i].size > Held(inode[i]) => inode'[i].size > Held(inode[i])'
    PROVE  LostInv'
<1> SUFFICES ASSUME super = "data"
             PROVE  \E i \in Valid' : inode'[i].size > Held(inode[i])'
  BY DEF LostInv, LostBySizeAlone
<1>1. PICK i \in Valid : inode[i].size > Held(inode[i])
  BY DEF LostInv, LostBySizeAlone
<1>2. i \in Valid' /\ inode'[i].size > Held(inode[i])'
  BY <1>1
<1> QED BY <1>2

LEMMA SameHeld ==
    ASSUME inode' = inode, ChainsKept
    PROVE  Valid' = Valid /\ \A i \in Inum : Held(inode[i])' = Held(inode[i])
BY DEF ChainsKept, Valid, Held

(* A write that goes on.                                                     *)
LEMMA LostWriting ==
    ASSUME DirectInv, ChainInv, Overwrites, LostInv, WriteDirect \/ WriteNew \/ WriteIndirect
    PROVE  LostInv'
<1>1. ChainsKept /\ inode' = inode /\ op'.call = "write"
  <2>1. CASE WriteDirect
    <3> PICK b : b = op.node.direct[BlockNo]
      OBVIOUS
    <3>1. Writing /\ BlockNo < Pointers /\ b # 0 /\ WriteTo(b)
      BY <2>1 DEF WriteDirect
    <3>2. BlockNo \in Slot /\ b \in DataBlock
      BY <3>1, WritingFacts, OffsetFacts, SizeFacts, NodeFacts DEF Writing
    <3> QED BY <2>1, <3>1, <3>2, WriteToFacts, ChainWriteDirect DEF WriteCall
  <2>2. CASE WriteNew
    BY <2>2, NewAppends
  <2>3. CASE WriteIndirect
    <3>1. PICK chain, block : op' = [Advanced(block) EXCEPT !.chain = chain]
      BY <2>3, Zenon DEF WriteIndirect
    <3>2. op.call = "write" /\ inode' = inode
      BY <2>3 DEF WriteIndirect, Writing
    <3>3. op' = WithChain(Advanced(block), chain)
      BY <3>1, Zenon DEF WithChain
    <3>4. op'.call = "write"
      <4>1. PICK p, l, w : Advanced(block) =
                              WriteCall(op.inum, op.node, op.tag, p, l, w, op.chain, block)
        BY <3>2, Advance
      <4>2. op' = WriteCall(op.inum, op.node, op.tag, p, l, w, chain, block)
        BY <3>3, <4>1, WriteCallFields
      <4> QED BY <4>2 DEF WriteCall
    <3> QED BY <2>3, <3>2, <3>4, ChainWriteIndirect
  <2> QED BY <2>1, <2>2, <2>3
<1>2. Valid' = Valid /\ \A i \in Inum : Held(inode[i])' = Held(inode[i])
  BY <1>1, SameHeld
<1>3. CASE super' = super
  BY <1>1, <1>2, <1>3, LostStays DEF Valid
<1>4. CASE super' # super
  <2>1. WriteIndirect
    BY <1>4 DEF WriteDirect, WriteNew, WriteTo
  <2>2. op.inum \in Valid /\ inode[op.inum].size > Held(inode[op.inum])
    BY <1>4, <2>1, BeyondBlocks
  <2>3. PICK i : i = op.inum
    OBVIOUS
  <2>4. i \in Valid' /\ inode'[i].size > Held(inode[i])'
    BY <1>1, <1>2, <2>2, <2>3 DEF Valid
  <2> QED BY <1>1, <2>4 DEF LostInv, LostBySizeAlone
<1> QED BY <1>3, <1>4

(* Its end raises the Size once more.                                        *)
LEMMA LostWriteEnd ==
    ASSUME DirectInv, ChainInv, Overwrites, LostInv, WriteEnd
    PROVE  LostInv'
<1> PICK i : i = op.inum
  OBVIOUS
<1> DEFINE z    == op.node.size + op.written
           node == [op.node EXCEPT !.size = z]
<1>1. /\ op.call = "write" /\ op.left = 0 /\ op' = Idle /\ inode' = [inode EXCEPT ![i] = node]
      /\ UNCHANGED <<super, data>>
  BY DEF WriteEnd, SizeAdded
<1>2. /\ i \in Inum /\ op.node \in Inode /\ op.node.valid /\ op.written \in Nat
      /\ op.node.size \in Nat /\ op.left \in Nat
      /\ op.node.size + op.written + op.left <= MaxSize
      /\ inode \in [Inum -> Inode] /\ inode[i].valid
  BY <1>1, WritingFacts
<1>3. z \in 0 .. MaxSize /\ op.node.size <= z
  BY <1>1, <1>2, SizeFacts
<1> HIDE DEF z
<1>4. /\ node.valid /\ node.direct = op.node.direct /\ node.indirect = op.node.indirect
      /\ node.size = z
  BY <1>2, <1>3, WithSize
<1> HIDE DEF node
<1>5. /\ op.node.indirect = inode[i].indirect /\ op.node.direct = inode[i].direct
      /\ op.node.size = inode[i].size
  BY <1>1 DEF ChainInv, WriteTypes
<1>6. inode'[i] = node /\ \A j \in Inum \ {i} : inode'[j] = inode[j]
  BY <1>1, <1>2
<1>7. \A j \in Inum : Held(inode[j])' = Held(inode[j])
  BY <1>1, <1>4, <1>5, <1>6 DEF Held
<1>8. ASSUME NEW j \in Valid
      PROVE  j \in Valid' /\ (inode[j].size > Held(inode[j]) =>
                                inode'[j].size > Held(inode[j])')
  <2>1. CASE j # i
    BY <1>6, <1>7, <1>8, <2>1 DEF Valid
  <2>2. CASE j = i
    <3>1. i \in Valid' /\ inode'[i].size = z
      BY <1>2, <1>4, <1>6 DEF Valid
    <3>2. Held(inode[i]) \in Nat
      <4>1. Leading(inode[i].direct, Pointers) \in Nat
        BY LeadingFacts, SizeFacts
      <4>2. Leading(data[inode[i].indirect], BlockSize) \in Nat
        BY LeadingFacts, SizeFacts
      <4> QED BY <4>1, <4>2, SizeFacts, Product DEF Held
    <3>3. inode[i].size > Held(inode[i]) => z > Held(inode[i])
      BY <1>2, <1>3, <1>5, <3>2
    <3>4. Held(inode[i])' = Held(inode[i])
      BY <1>2, <1>7
    <3> QED BY <2>2, <3>1, <3>3, <3>4
  <2> QED BY <2>1, <2>2
<1> QED BY <1>1, <1>8, LostStays

LEMMA LostNext ==
    ASSUME DirectInv, ChainInv, Overwrites, LostInv, [Next]_vars
    PROVE  LostInv'
<1>1. CASE WriteDirect \/ WriteNew \/ WriteIndirect
  BY <1>1, LostWriting
<1>2. CASE WriteEnd
  BY <1>2, LostWriteEnd
<1>3. CASE WriteFull \/ Exit
  <2>1. op' = Idle /\ UNCHANGED <<super, inode, data>>
    BY <1>3 DEF WriteFull, Exit, disk
  <2> QED BY <2>1, SameHeld, LostStays DEF ChainsKept, Valid
<1>4. CASE Format
  BY <1>4 DEF Format, LostInv
<1>5. CASE UNCHANGED vars
  BY <1>5 DEF vars, LostInv, LostBySizeAlone, Valid, Held
<1>6. super # "data" /\ super' = super => LostInv'
  BY DEF LostInv
<1>7. ASSUME NEW i \in Inum, StartRemove(i) PROVE LostInv'
  BY <1>6, <1>7 DEF StartRemove, Ready, disk
<1>8. ASSUME NEW i \in Inum, NEW len \in Lengths, NEW tag \in Tag, Write(i, len, tag)
      PROVE  LostInv'
  BY <1>6, <1>8 DEF Write, Ready, disk
<1>9. CASE Mount \/ Create
  BY <1>6, <1>9 DEF Mount, Create, Ready, disk
<1>10. CASE FormatNext \/ RemoveBlock \/ RemoveIndirect \/ RemoveEnd
  <2>1. op.call \in {"format", "remove"} /\ super' = super
    BY <1>10 DEF FormatNext, RemoveBlock, RemoveIndirect, RemoveEnd, disk
  <2> QED BY <1>6, <2>1 DEF LostInv, Idle
<1> QED BY <1>1, <1>2, <1>3, <1>4, <1>5, <1>7, <1>8, <1>9, <1>10 DEF Next

(* wfswrite goes by the offset and knows nothing of the Size.  For a client that
   writes only below what stat tells it, whatever the disk, the order of its
   calls and where the process ends: block 0 is written only when there is a file
   whose Size is beyond its blocks. *)
THEOREM LostToSize ==
    ASSUME SoundDisks, Overwrites
    PROVE  Spec => []LostBySizeAlone
<1>1. Init => LostInv
  BY DEF SoundDisks, SoundImages, Init, LostInv
<1>2. LostInv => LostBySizeAlone
  BY DEF LostInv, LostBySizeAlone
<1>3. DirectInv /\ ChainInv /\ LostInv /\ [Next]_vars => LostInv'
  BY LostNext
<1> QED BY <1>1, <1>2, <1>3, ChainInvariance, PTL DEF Spec

(* For a client that appends to files the direct blocks hold, no Size goes
   beyond the blocks of the file: wfswrite writes the inode last, with the
   blocks it took and the bytes it wrote. *)
THEOREM SizesCovered ==
    ASSUME SoundDisks, ~Overwrites, MaxSize <= BlockSize * Pointers
    PROVE  Spec => []SizeCovered
<1>1. ASSUME DirectInv, ChainInv, NEW i \in Valid PROVE inode[i].size <= Held(inode[i])
  <2> DEFINE l == Leading(inode[i].direct, Pointers)
  <2>1. /\ inode[i] \in Inode /\ Whole(inode[i]) /\ inode[i].indirect = 0
        /\ inode[i].size <= MaxSize
    BY <1>1, TableFacts, NodeFacts DEF DirectInv, Sound, Valid, ChainInv, SoundChains
  <2>2. l \in 0 .. Pointers /\ (l = Pointers \/ inode[i].direct[l] = 0)
    BY LeadingFacts, SizeFacts
  <2>3. Held(inode[i]) = BlockSize * (l + 0)
    BY <2>1 DEF Held
  <2> HIDE DEF l
  <2>4. l + 0 = l /\ BlockSize * l \in Nat
    BY <2>2, Product, SizeFacts
  <2>5. CASE l = Pointers
    BY <2>1, <2>3, <2>4, <2>5, NodeFacts, SizeFacts
  <2>6. CASE l # Pointers
    <3>1. l \in Slot /\ inode[i].direct[l] = 0
      BY <2>2, <2>6, SizeFacts
    <3> QED BY <2>1, <2>3, <2>4, <3>1 DEF Whole, Fits
  <2> QED BY <2>5, <2>6
<1>2. DirectInv /\ ChainInv => SizeCovered
  BY <1>1 DEF SizeCovered
<1> QED BY <1>2, ChainInvariance, PTL

(***************************************************************************)
(* The store of files, for a client that appends to files the direct blocks *)
(* hold, on disks that have no others.                                      *)
(***************************************************************************)
Appending == ~Overwrites /\ MaxSize <= BlockSize * Pointers

(* Byte number p of a file with these pointers, and its first n bytes.       *)
Byte(f, p) == data[f[p \div BlockSize]][p % BlockSize]
Text(f, n) == [m \in 1 .. n |-> Byte(f, m - 1)]

Files    == [i \in Valid |-> Text(inode[i].direct, inode[i].size)]
Stored   == [i \in Valid |-> wfsread(i)]
Removing == IF op.call = "remove" THEN {op.inum} ELSE {}

(* format blanks a data block only when no inode is left.                    *)
FormatStore ==
    op.call = "format" =>
       \A i \in Inum : i \div InodesPerBlock < op.next - 1 => ~inode[i].valid

(* A removal blanks blocks of its own file, which is there to the end.       *)
RemoveStore ==
    op.call = "remove" =>
       /\ inode[op.inum].valid
       /\ \A m \in DOMAIN op.todo : \E k \in Slot : op.todo[m] = inode[op.inum].direct[k]

(* What a write has added so far is behind what the file has, in its copy of
   the inode alone. *)
WriteStore ==
    op.call = "write" =>
       /\ op.node.size = inode[op.inum].size
       /\ op.written + op.left \in Lengths
       /\ \A k \in Slot : inode[op.inum].direct[k] # 0
                            => op.node.direct[k] = inode[op.inum].direct[k]
       /\ \A p \in Nat : op.node.size <= p /\ p < op.pos => Byte(op.node.direct, p) = op.tag

StoreInv == FormatStore /\ RemoveStore /\ WriteStore
-----------------------------------------------------------------------------
LEMMA WithinBlock ==
    ASSUME NEW p \in Nat, NEW k \in Nat, BlockSize * k <= p, p < BlockSize * k + BlockSize
    PROVE  p \div BlockSize = k /\ p % BlockSize = p - BlockSize * k
<1> DEFINE q == p \div BlockSize
           r == p % BlockSize
<1>1. q \in Nat /\ r \in 0 .. BlockSize - 1 /\ p = BlockSize * q + r
  BY Quotient, SizeFacts
<1> HIDE DEF q, r
<1>2. BlockSize * q \in Nat /\ BlockSize * k \in Nat
  BY <1>1, Product, SizeFacts
<1>3. ~(q < k)
  <2> SUFFICES ASSUME q < k PROVE FALSE
    OBVIOUS
  <2>1. BlockSize * q + BlockSize <= BlockSize * k
    BY <1>1, Product, SizeFacts
  <2> QED BY <1>1, <1>2, <2>1, SizeFacts
<1>4. ~(k < q)
  <2> SUFFICES ASSUME k < q PROVE FALSE
    OBVIOUS
  <2>1. BlockSize * k + BlockSize <= BlockSize * q
    BY <1>1, Product, SizeFacts
  <2> QED BY <1>1, <1>2, <2>1, SizeFacts
<1>5. q = k
  BY <1>1, <1>3, <1>4
<1>6. r = p - BlockSize * k
  BY <1>1, <1>2, <1>5
<1> QED BY <1>5, <1>6 DEF q, r

LEMMA SameSeq ==
    ASSUME NEW S, NEW s \in Seq(S), NEW t \in Seq(S), Len(s) = Len(t),
           \A k \in 1 .. Len(s) : s[k] = t[k]
    PROVE  s = t
OBVIOUS

(* A file of m bytes, and what becomes of it when n more are added.          *)
IsText(f, m)          == f = [k \in 1 .. m |-> f[k]]
Added(f, n, tag)      == f \o [k \in 1 .. n |-> tag]
Adds(g, f, m, n, tag) == \A k \in 1 .. m + n : g[k] = IF k <= m THEN f[k] ELSE tag

LEMMA AddedFacts ==
    ASSUME NEW m \in Nat, NEW n \in Nat, NEW f, NEW g, NEW tag,
           IsText(f, m), IsText(g, m + n), Adds(g, f, m, n, tag)
    PROVE  g = Added(f, n, tag)
<1> PICK t : t = [k \in 1 .. n |-> tag]
  OBVIOUS
<1> PICK S : S = {g[k] : k \in 1 .. m + n} \cup {f[k] : k \in 1 .. m} \cup {tag}
  OBVIOUS
<1>0. ASSUME NEW l \in Nat, NEW h, NEW H, IsText(h, l), \A k \in 1 .. l : h[k] \in H
      PROVE  h \in Seq(H) /\ Len(h) = l
  <2>1. [k \in 1 .. l |-> h[k]] \in Seq(H) /\ Len([k \in 1 .. l |-> h[k]]) = l
    BY <1>0
  <2> QED BY <1>0, <2>1, Zenon DEF IsText
<1>1. /\ f \in Seq(S) /\ Len(f) = m /\ g \in Seq(S) /\ Len(g) = m + n
      /\ t \in Seq(S) /\ Len(t) = n
  <2>4. (\A k \in 1 .. m : f[k] \in S) /\ (\A k \in 1 .. m + n : g[k] \in S) /\ m + n \in Nat
    OBVIOUS
  <2>1. f \in Seq(S) /\ Len(f) = m
    BY <1>0, <2>4, Zenon
  <2>2. g \in Seq(S) /\ Len(g) = m + n
    BY <1>0, <2>4, Zenon
  <2>3. t \in Seq(S) /\ Len(t) = n
    OBVIOUS
  <2> QED BY <2>1, <2>2, <2>3
<1>2. \A k \in 1 .. Len(g) : g[k] = IF k <= Len(f) THEN f[k] ELSE t[k - Len(f)]
  BY <1>1 DEF Adds
<1>3. /\ f \in Seq(S) /\ t \in Seq(S) /\ g \in Seq(S) /\ Len(g) = Len(f) + Len(t)
  BY <1>1
<1>4. g = f \o t
  <2>1. f \o t \in Seq(S) /\ Len(f \o t) = Len(g)
    BY <1>3
  <2>2. \A k \in 1 .. Len(g) : (f \o t)[k] = g[k]
    BY <1>2, <1>3
  <2> QED BY <1>3, <2>1, <2>2, SameSeq
<1> QED BY <1>4 DEF Added

(* Where a byte is.                                                          *)
LEMMA PlaceFacts ==
    ASSUME NEW p \in Nat
    PROVE  /\ p \div BlockSize \in Nat /\ p % BlockSize \in Cells
           /\ BlockSize * (p \div BlockSize) \in Nat
           /\ p = BlockSize * (p \div BlockSize) + (p % BlockSize)
           /\ BlockSize * (p \div BlockSize) <= p
           /\ p < BlockSize * (p \div BlockSize) + BlockSize
<1> DEFINE q == p \div BlockSize
           r == p % BlockSize
<1>1. q \in Nat /\ r \in 0 .. BlockSize - 1 /\ p = BlockSize * q + r
  BY Quotient, SizeFacts
<1> HIDE DEF q, r
<1>2. BlockSize * q \in Nat
  BY <1>1, Product, SizeFacts
<1>3. BlockSize * q <= p /\ p < BlockSize * q + BlockSize
  BY <1>1, <1>2, SizeFacts
<1> QED BY <1>1, <1>2, <1>3 DEF q, r, Cells

LEMMA PlaceInDirect ==
    ASSUME NEW p \in Nat, NEW n \in Nat, p < n, n <= BlockSize * Pointers
    PROVE  p \div BlockSize \in Slot
<1> PICK q : q = p \div BlockSize
  OBVIOUS
<1>1. q \in Nat /\ BlockSize * q \in Nat /\ BlockSize * q <= p
  BY PlaceFacts
<1>2. q < Pointers
  <2> SUFFICES ASSUME Pointers <= q PROVE FALSE
    BY <1>1, SizeFacts
  <2>1. BlockSize * Pointers <= BlockSize * q /\ BlockSize * Pointers \in Nat
    BY <1>1, Product, SizeFacts
  <2> QED BY <1>1, <2>1
<1> QED BY <1>1, <1>2, SizeFacts

(* Two bytes of one block are as far apart in it as they are in the file.    *)
LEMMA SameBlock ==
    ASSUME NEW p \in Nat, NEW q \in Nat, p \div BlockSize = q \div BlockSize
    PROVE  /\ p < q => p % BlockSize < q % BlockSize
           /\ q <= p => (p % BlockSize) = (q % BlockSize) + (p - q)
<1> DEFINE w == BlockSize * (q \div BlockSize)
<1>1. w \in Nat /\ p = w + (p % BlockSize) /\ q = w + (q % BlockSize)
  BY PlaceFacts
<1>2. p % BlockSize \in Nat /\ q % BlockSize \in Nat
  BY PlaceFacts, SizeFacts DEF Cells
<1> HIDE DEF w
<1> QED BY <1>1, <1>2

(* A byte below what fits is in a block.                                     *)
LEMMA FitsFacts ==
    ASSUME NEW f, NEW n \in Nat, Fits(f, n), NEW p \in Nat, p < n, p \div BlockSize \in Slot
    PROVE  f[p \div BlockSize] # 0
<1> PICK q : q = p \div BlockSize
  OBVIOUS
<1>1. q \in Slot /\ BlockSize * q \in Nat /\ BlockSize * q <= p
  BY PlaceFacts
<1>2. f[q] = 0 => n <= BlockSize * q
  BY <1>1 DEF Fits
<1> QED BY <1>1, <1>2

LEMMA FileFacts ==
    ASSUME Appending, DirectInv, ChainInv, NEW i \in Valid
    PROVE  /\ i \in Inum /\ inode[i] \in Inode /\ inode[i].valid /\ inode[i].indirect = 0
           /\ inode[i].size \in Nat /\ inode[i].size <= BlockSize * Pointers
           /\ inode[i].direct \in [Slot -> {0} \cup DataBlock]
           /\ \A p \in Nat : p < inode[i].size =>
                /\ p \div BlockSize \in Slot /\ p % BlockSize \in Cells
                /\ inode[i].direct[p \div BlockSize] \in DataBlock
<1>1. /\ i \in Inum /\ inode[i] \in Inode /\ inode[i].valid /\ Whole(inode[i])
  BY TableFacts DEF DirectInv, Sound, Valid
<1>2. inode[i].indirect = 0
  BY <1>1 DEF Appending, ChainInv, SoundChains
<1>3. /\ inode[i].size \in Nat /\ inode[i].size <= MaxSize
      /\ inode[i].direct \in [Slot -> {0} \cup DataBlock]
  BY <1>1, NodeFacts
<1>4. inode[i].size <= BlockSize * Pointers
  <2>1. BlockSize * Pointers \in Nat
    BY Product, SizeFacts
  <2> QED BY <1>3, <2>1, SizeFacts DEF Appending
<1>5. ASSUME NEW p \in Nat, p < inode[i].size
      PROVE  /\ p \div BlockSize \in Slot /\ p % BlockSize \in Cells
             /\ inode[i].direct[p \div BlockSize] \in DataBlock
  <2>1. p \div BlockSize \in Slot
    BY <1>3, <1>4, <1>5, PlaceInDirect
  <2>2. Fits(inode[i].direct, inode[i].size)
    BY <1>1 DEF Whole, Appending
  <2>3. inode[i].direct[p \div BlockSize] # 0
    BY <1>3, <1>5, <2>1, <2>2, FitsFacts
  <2> QED BY <1>3, <2>1, <2>3, PlaceFacts
<1> QED BY <1>1, <1>2, <1>3, <1>4, <1>5

(* wfsread finds all of a file in its direct blocks.                         *)
LEMMA ReadFacts == ASSUME Appending PROVE DirectInv /\ ChainInv => Stored = Files
<1> SUFFICES ASSUME DirectInv, ChainInv, NEW i \in Valid
             PROVE  wfsread(i) = Text(inode[i].direct, inode[i].size)
  BY DEF Stored, Files
<1>1. /\ inode[i].size \in Nat
      /\ \A p \in Nat : p < inode[i].size =>
           /\ p \div BlockSize \in Slot /\ p % BlockSize \in Cells
           /\ inode[i].direct[p \div BlockSize] \in DataBlock
  BY FileFacts
<1>2. ASSUME NEW n \in 1 .. inode[i].size
      PROVE  LET b == BlockOf(inode[i], (n - 1) \div BlockSize)
             IN  (IF b \in DataBlock THEN data[b][(n - 1) % BlockSize] ELSE 0)
                   = Byte(inode[i].direct, n - 1)
  <2>1. n - 1 \in Nat /\ n - 1 < inode[i].size
    BY <1>1
  <2> PICK q : q = (n - 1) \div BlockSize
    OBVIOUS
  <2>2. q \in Slot /\ inode[i].direct[q] \in DataBlock
    BY <1>1, <2>1
  <2>3. BlockOf(inode[i], q) = inode[i].direct[q]
    BY <2>2, SizeFacts DEF BlockOf
  <2> QED BY <2>2, <2>3 DEF Byte
<1> QED BY <1>2 DEF wfsread, Text

-----------------------------------------------------------------------------
(* What each step does to the files.                                        *)

LEMMA FilesKept ==
    ASSUME Appending, DirectInv, ChainInv, inode' = inode,
           \A i \in Valid : \A p \in Nat : p < inode[i].size =>
              data'[inode[i].direct[p \div BlockSize]][p % BlockSize]
                = Byte(inode[i].direct, p)
    PROVE  Files' = Files
<1>1. Valid' = Valid
  BY DEF Valid
<1>2. ASSUME NEW i \in Valid
      PROVE  Text(inode[i].direct, inode[i].size)' = Text(inode[i].direct, inode[i].size)
  <2>1. inode[i].size \in Nat
    BY FileFacts
  <2>2. ASSUME NEW m \in 1 .. inode[i].size
        PROVE  Byte(inode[i].direct, m - 1)' = Byte(inode[i].direct, m - 1)
    <3>1. m - 1 \in Nat /\ m - 1 < inode[i].size
      BY <2>1
    <3> QED BY <3>1 DEF Byte
  <2> QED BY <2>2 DEF Text
<1> QED BY <1>1, <1>2 DEF Files

LEMMA DiskKept == ASSUME UNCHANGED <<inode, data>> PROVE Files' = Files
BY DEF Files, Valid, Text, Byte

(* The table changes, not the blocks: what becomes of a file is told by its
   inode. *)
LEMMA StoreInit == ASSUME Init PROVE StoreInv
BY DEF Init, Idle, StoreInv, FormatStore, RemoveStore, WriteStore

LEMMA StoreEnded == ASSUME op' = Idle PROVE StoreInv'
BY DEF StoreInv, FormatStore, RemoveStore, WriteStore, Idle

LEMMA StoreFormat ==
    ASSUME DirectInv, Format
    PROVE  StoreInv' /\ Files' = Files /\ Removing' = Removing
<1>1. /\ op = Idle /\ op' = [call |-> "format", next |-> 1] /\ UNCHANGED <<inode, data>>
  BY DEF Format
<1>2. ASSUME NEW i \in Inum PROVE ~(i \div InodesPerBlock < 1 - 1)
  <2>1. i \in Nat
    BY SizeFacts
  <2>2. i \div InodesPerBlock \in Nat
    BY <2>1, Quotient, DiskAssumption
  <2> QED BY <2>2
<1>3. StoreInv'
  BY <1>1, <1>2 DEF StoreInv, FormatStore, RemoveStore, WriteStore
<1> QED BY <1>1, <1>3, DiskKept DEF Removing, Idle

LEMMA InodeBlockFacts ==
    ASSUME NEW i \in Inum
    PROVE  i \div InodesPerBlock \in Nat /\ i \div InodesPerBlock < InodeBlocks
<1> PICK q : q = i \div InodesPerBlock
  OBVIOUS
<1>1. /\ i \in Nat /\ InodeBlocks \in Nat /\ InodesPerBlock \in Nat \ {0}
      /\ i < InodeBlocks * InodesPerBlock
  BY SizeFacts, DiskAssumption DEF Inum
<1>2. q \in Nat /\ i % InodesPerBlock \in 0 .. InodesPerBlock - 1
      /\ i = InodesPerBlock * q + (i % InodesPerBlock)
  BY <1>1, Quotient
<1>3. InodesPerBlock * q \in Nat
  BY <1>1, <1>2, Product
<1>4. InodesPerBlock * q <= i
  BY <1>1, <1>2, <1>3
<1>5. InodeBlocks * InodesPerBlock = InodesPerBlock * InodeBlocks
  BY <1>1
<1>6. q < InodeBlocks
  <2> SUFFICES ASSUME InodeBlocks <= q PROVE FALSE
    BY <1>1, <1>2
  <2>1. InodesPerBlock * InodeBlocks <= InodesPerBlock * q
        /\ InodesPerBlock * InodeBlocks \in Nat
    BY <1>1, <1>2, Product
  <2> QED BY <1>1, <1>3, <1>4, <1>5, <2>1
<1> QED BY <1>2, <1>6

(* The inodes format wipes are files that are gone; the blocks it blanks are
   in none. *)
LEMMA StoreFormatNext ==
    ASSUME Appending, DirectInv, ChainInv, FormatStore, FormatNext
    PROVE  /\ StoreInv' /\ Removing = {} /\ Removing' = {} /\ Valid' \subseteq Valid
           /\ Files' = [i \in Valid' |-> Files[i]]
<1> PICK n : n = op.next
  OBVIOUS
<1>1. /\ op.call = "format" /\ n \in 1 .. Blocks - 1 /\ op = [call |-> "format", next |-> n]
      /\ \A i \in Inum : i \div InodesPerBlock < n - 1 => ~inode[i].valid
  BY DEF FormatNext, DirectInv, FormatInv, Format_, FormatStore
<1>2. inode \in [Inum -> Inode]
  BY TableFacts
<1>3. op' = Idle \/ op' = [call |-> "format", next |-> n + 1]
  <2>1. CASE n = Blocks - 1
    BY <2>1, Zenon DEF FormatNext
  <2>2. CASE n # Blocks - 1
    <3>1. op' = [op EXCEPT !.next = n + 1]
      BY <2>2 DEF FormatNext
    <3> QED BY <1>1, <3>1
  <2> QED BY <2>1, <2>2
<1>4. Removing = {} /\ Removing' = {}
  BY <1>1, <1>3 DEF Removing, Idle
<1>5. /\ \A i \in Inum : inode'[i].valid => inode[i].valid /\ inode'[i] = inode[i]
      /\ \A i \in Inum : i \div InodesPerBlock < n => ~inode'[i].valid
      /\ Files' = [i \in Valid' |-> Files[i]]
  <2>1. CASE n \in DataBlock
    <3>1. inode' = inode
      BY <2>1 DEF FormatNext
    <3>2. \A i \in Inum : ~inode[i].valid
      <4> SUFFICES ASSUME NEW i \in Inum PROVE ~inode[i].valid
        OBVIOUS
      <4>1. i \div InodesPerBlock < InodeBlocks /\ i \div InodesPerBlock \in Nat
        BY InodeBlockFacts
      <4>2. n \in Nat /\ InodeBlocks + 1 <= n /\ InodeBlocks \in Nat
        BY <1>1, <2>1, SizeFacts DEF DataBlock
      <4>3. i \div InodesPerBlock < n - 1
        BY <4>1, <4>2
      <4> QED BY <1>1, <4>3
    <3>3. Valid = {} /\ Valid' = {}
      BY <3>1, <3>2 DEF Valid
    <3>4. Files' = [i \in Valid' |-> Files[i]]
      BY <3>3 DEF Files
    <3> QED BY <3>1, <3>2, <3>4
  <2>2. CASE n \notin DataBlock
    <3>1. /\ data' = data
          /\ inode' = [i \in Inum |-> IF i \div InodesPerBlock = n - 1 THEN NoInode ELSE inode[i]]
      BY <2>2 DEF FormatNext
    <3>2. \A i \in Inum : inode'[i].valid => inode[i].valid /\ inode'[i] = inode[i]
      BY <3>1, NoInodeFacts
    <3>3. ASSUME NEW i \in Inum, i \div InodesPerBlock < n PROVE ~inode'[i].valid
      <4>1. i \div InodesPerBlock \in Nat
        BY InodeBlockFacts
      <4>2. i \div InodesPerBlock < n - 1 \/ i \div InodesPerBlock = n - 1
        BY <1>1, <3>3, <4>1
      <4>3. CASE i \div InodesPerBlock < n - 1
        BY <1>1, <3>2, <4>3
      <4>4. CASE i \div InodesPerBlock = n - 1
        BY <3>1, <4>4, NoInodeFacts
      <4> QED BY <4>2, <4>3, <4>4
    <3>4. ASSUME NEW i \in Valid'
          PROVE  /\ i \in Valid
                 /\ Text(inode[i].direct, inode[i].size)'
                      = Text(inode[i].direct, inode[i].size)
      <4>1. i \in Inum /\ inode'[i] = inode[i] /\ inode[i].valid
        BY <3>2 DEF Valid
      <4> QED BY <3>1, <4>1 DEF Valid, Text, Byte
    <3> QED BY <3>2, <3>3, <3>4 DEF Files
  <2> QED BY <2>1, <2>2
<1>6. Valid' \subseteq Valid
  BY <1>5 DEF Valid
<1>7. StoreInv'
  <2>1. CASE op' = Idle
    BY <2>1, StoreEnded
  <2>2. CASE op' = [call |-> "format", next |-> n + 1]
    <3>1. (n + 1) - 1 = n
      BY <1>1
    <3> QED BY <1>5, <2>2, <3>1 DEF StoreInv, FormatStore, RemoveStore, WriteStore
  <2> QED BY <1>3, <2>1, <2>2
<1> QED BY <1>4, <1>5, <1>6, <1>7

LEMMA StoreCreate ==
    ASSUME Appending, DirectInv, Create, NEW f, f = FreeInode
    PROVE  /\ StoreInv' /\ Removing = {} /\ Removing' = {} /\ f \in Inum \ Valid
           /\ Files' = [i \in Valid \cup {f} |-> IF i = f THEN <<>> ELSE Files[i]]
<1>1. /\ op = Idle /\ op' = Idle /\ mounted /\ i_bitmap # Inum /\ data' = data
      /\ inode' = [inode EXCEPT ![f] = Created(inode[f])]
  BY DEF Create, Ready
<1>2. f \in Inum /\ ~inode[f].valid /\ inode \in [Inum -> Inode]
  BY <1>1, FreeInodeFacts, TableFacts
<1>3. inode'[f] = Created(inode[f]) /\ \A i \in Inum \ {f} : inode'[i] = inode[i]
  BY <1>1, <1>2
<1>4. inode'[f].valid /\ inode'[f].size = 0
  BY <1>2, <1>3, CreatedFacts
<1>5. Valid' = Valid \cup {f} /\ f \notin Valid
  BY <1>2, <1>3, <1>4 DEF Valid
<1>6. Text(inode[f].direct, inode[f].size)' = <<>>
  BY <1>4 DEF Text
<1>7. ASSUME NEW i \in Valid
      PROVE  i # f /\ Text(inode[i].direct, inode[i].size)' = Text(inode[i].direct, inode[i].size)
  <2>1. i # f /\ inode'[i] = inode[i]
    BY <1>3, <1>5 DEF Valid
  <2> QED BY <1>1, <2>1 DEF Text, Byte
<1>8. Files' = [i \in Valid \cup {f} |-> IF i = f THEN <<>> ELSE Files[i]]
  BY <1>5, <1>6, <1>7 DEF Files
<1> QED BY <1>1, <1>2, <1>5, <1>8, StoreEnded DEF Removing, Idle

LEMMA StoreRemove ==
    ASSUME Appending, DirectInv, ChainInv, NEW i \in Inum, StartRemove(i)
    PROVE  StoreInv' /\ Removing = {} /\ Removing' = {i} /\ i \in Valid /\ Files' = Files
<1> DEFINE node == [inode[i] EXCEPT !.direct = DropDirect(inode[i])]
           todo == Entries(inode[i].direct, Pointers)
<1>1. /\ op = Idle /\ inode[i].valid /\ UNCHANGED <<inode, data>>
      /\ op' = [call |-> "remove", inum |-> i, node |-> node, todo |-> todo]
  BY DEF StartRemove, Ready, disk
<1> HIDE DEF node
<1>2. ASSUME NEW m \in DOMAIN todo PROVE \E k \in Slot : todo[m] = inode[i].direct[k]
  <2>1. /\ DOMAIN todo = 1 .. Leading(inode[i].direct, Pointers)
        /\ \A k \in 1 .. Leading(inode[i].direct, Pointers) : todo[k] = inode[i].direct[k - 1]
    BY EntriesFacts, SizeFacts
  <2>2. Leading(inode[i].direct, Pointers) \in 0 .. Pointers
    BY LeadingFacts, SizeFacts
  <2> HIDE DEF todo
  <2>3. m \in Nat /\ m - 1 \in Nat /\ m - 1 < Pointers /\ todo[m] = inode[i].direct[m - 1]
    BY <2>1, <2>2, SizeFacts
  <2> QED BY <2>3, SizeFacts
<1> HIDE DEF todo
<1>3. RemoveStore'
  BY <1>1, <1>2 DEF RemoveStore
<1>4. StoreInv'
  BY <1>1, <1>3 DEF StoreInv, FormatStore, WriteStore
<1> QED BY <1>1, <1>4, DiskKept DEF Removing, Idle, Valid

(* A block that a removal blanks is a stretch of its file, or behind its end. *)
LEMMA StoreRemoveBlock ==
    ASSUME Appending, DirectInv, ChainInv, StoreInv, RemoveBlock, NEW i, i = op.inum
    PROVE  /\ StoreInv' /\ Removing = {i} /\ Removing' = {i} /\ i \in Valid
           /\ \/ Files' = Files
              \/ \E from, to \in DOMAIN Files[i] :
                   Files' = [j \in Valid \cup {i} |->
                               IF j = i
                               THEN [n \in DOMAIN Files[i] |->
                                       IF n \in from .. to THEN 0 ELSE Files[i][n]]
                               ELSE Files[j]]
<1> PICK b : b = Head(op.todo)
  OBVIOUS
<1> DEFINE f == inode[i].direct
           size == inode[i].size
<1>1. /\ op.call = "remove" /\ op.todo # <<>> /\ data' = [data EXCEPT ![b] = Zeroes]
      /\ UNCHANGED <<super, inode, memory>> /\ op' = [op EXCEPT !.todo = Tail(op.todo)]
  BY DEF RemoveBlock
<1>2. /\ op = [call |-> "remove", inum |-> i, node |-> op.node, todo |-> op.todo]
      /\ i \in Inum /\ op.todo \in Seq(DataBlock)
  BY <1>1, RemovingFacts DEF ChainInv, RemoveTypes
<1>3. op' = [call |-> "remove", inum |-> i, node |-> op.node, todo |-> Tail(op.todo)]
  BY <1>1, <1>2
<1>4. /\ inode[i].valid
      /\ \A m \in DOMAIN op.todo : \E k \in Slot : op.todo[m] = f[k]
  BY <1>1 DEF StoreInv, RemoveStore
<1>5. i \in Valid /\ Valid' = Valid
  BY <1>1, <1>2, <1>4 DEF Valid
<1>6. Removing = {i} /\ Removing' = {i}
  BY <1>1, <1>3 DEF Removing
<1>7. ASSUME NEW m \in DOMAIN Tail(op.todo) PROVE \E k \in Slot : Tail(op.todo)[m] = f[k]
  <2>1. m + 1 \in DOMAIN op.todo /\ Tail(op.todo)[m] = op.todo[m + 1]
    BY <1>1, <1>2
  <2> QED BY <1>4, <2>1
<1>8. StoreInv'
  BY <1>1, <1>3, <1>4, <1>7 DEF StoreInv, RemoveStore, FormatStore, WriteStore
<1>9. PICK k \in Slot : b = f[k]
  <2>1. 1 \in DOMAIN op.todo /\ b = op.todo[1]
    BY <1>1, <1>2
  <2> QED BY <1>4, <2>1
<1>10. b \in DataBlock
  BY <1>1, <1>2
<1>11. data \in [DataBlock -> Block]
  BY DEF ChainInv, SoundChains
<1>12. data'[b] = Zeroes /\ \A n \in DataBlock \ {b} : data'[n] = data[n]
  BY <1>1, <1>10, <1>11
<1>13. ASSUME NEW j \in Valid, j # i, NEW p \in Nat, p < inode[j].size
       PROVE  data'[inode[j].direct[p \div BlockSize]][p % BlockSize]
                = Byte(inode[j].direct, p)
  <2> PICK q : q = p \div BlockSize
    OBVIOUS
  <2>1. q \in Slot /\ inode[j].direct[q] \in DataBlock /\ j \in Inum
    BY <1>13, FileFacts
  <2>2. inode[j].direct[q] # b
    BY <1>2, <1>9, <1>13, <2>1, SizeFacts DEF DirectInv, Sound, Disjoint
  <2> QED BY <1>12, <2>1, <2>2 DEF Byte
<1>14. /\ size \in Nat
       /\ \A p \in Nat : p < size => /\ p \div BlockSize \in Slot /\ p % BlockSize \in Cells
                                     /\ f[p \div BlockSize] \in DataBlock
  BY <1>5, FileFacts
<1>15. ASSUME NEW p \in Nat, p < size
       PROVE  data'[f[p \div BlockSize]][p % BlockSize]
                = IF p \div BlockSize = k THEN 0 ELSE Byte(f, p)
  <2> PICK q : q = p \div BlockSize
    OBVIOUS
  <2>1. q \in Slot /\ f[q] \in DataBlock /\ p % BlockSize \in Cells
    BY <1>14, <1>15
  <2>2. CASE q = k
    BY <1>9, <1>12, <2>1, <2>2, BlockFacts
  <2>3. CASE q # k
    <3>1. f[q] # b
      BY <1>2, <1>9, <2>1, <2>3, SizeFacts DEF DirectInv, Sound, Distinct
    <3> QED BY <1>12, <2>1, <2>3, <3>1 DEF Byte
  <2> QED BY <2>2, <2>3
<1>16. k \in Nat /\ BlockSize * k \in Nat /\ BlockSize \in Nat \ {0}
  BY <1>9, Product, SizeFacts
<1>17. ASSUME NEW p \in Nat
       PROVE  p \div BlockSize = k <=> BlockSize * k <= p /\ p < BlockSize * k + BlockSize
  BY <1>16, PlaceFacts, WithinBlock
<1>18. inode' = inode
  BY <1>1
<1> HIDE DEF f, size
<1>19. CASE size <= BlockSize * k
  <2>1. ASSUME NEW p \in Nat, p < size PROVE p \div BlockSize # k
    BY <1>14, <1>16, <1>17, <1>19, <2>1
  <2>2. \A j \in Valid : \A p \in Nat : p < inode[j].size =>
           data'[inode[j].direct[p \div BlockSize]][p % BlockSize] = Byte(inode[j].direct, p)
    BY <1>13, <1>15, <2>1 DEF f, size
  <2> QED BY <1>5, <1>6, <1>8, <1>18, <2>2, FilesKept
<1>20. CASE BlockSize * k < size
  <2> DEFINE from == BlockSize * k + 1
             to   == IF size <= BlockSize * k + BlockSize THEN size ELSE BlockSize * k + BlockSize
  <2>1. Files[i] = Text(f, size) /\ DOMAIN Files[i] = 1 .. size
    BY <1>5 DEF Files, Text, f, size
  <2>2. from \in 1 .. size /\ to \in 1 .. size
    BY <1>14, <1>16, <1>20
  <2>3. ASSUME NEW n \in 1 .. size
        PROVE  data'[f[(n - 1) \div BlockSize]][(n - 1) % BlockSize]
                 = IF n \in from .. to THEN 0 ELSE Files[i][n]
    <3>1. n - 1 \in Nat /\ n - 1 < size
      BY <1>14
    <3>2. (n - 1) \div BlockSize = k <=> n \in from .. to
      <4>1. (n - 1) \div BlockSize = k
              <=> BlockSize * k <= n - 1 /\ n - 1 < BlockSize * k + BlockSize
        BY <1>17, <3>1
      <4>2. BlockSize * k <= n - 1 /\ n - 1 < BlockSize * k + BlockSize <=> n \in from .. to
        BY <1>14, <1>16, <3>1
      <4> QED BY <4>1, <4>2
    <3>3. Files[i][n] = Byte(f, n - 1)
      BY <2>1 DEF Text
    <3> QED BY <1>15, <3>1, <3>2, <3>3
  <2> HIDE DEF from, to
  <2>4. Text(inode[i].direct, inode[i].size)'
          = [n \in DOMAIN Files[i] |-> IF n \in from .. to THEN 0 ELSE Files[i][n]]
    <3>1. Text(inode[i].direct, inode[i].size)'
            = [n \in 1 .. size |-> data'[f[(n - 1) \div BlockSize]][(n - 1) % BlockSize]]
      BY <1>18 DEF Text, Byte, f, size
    <3> QED BY <2>1, <2>3, <3>1
  <2>5. ASSUME NEW j \in Valid, j # i
        PROVE  Text(inode[j].direct, inode[j].size)' = Files[j]
    <3>1. inode[j].size \in Nat
      BY FileFacts
    <3>2. ASSUME NEW n \in 1 .. inode[j].size
          PROVE  data'[inode[j].direct[(n - 1) \div BlockSize]][(n - 1) % BlockSize]
                   = Byte(inode[j].direct, n - 1)
      <4>1. n - 1 \in Nat /\ n - 1 < inode[j].size
        BY <3>1
      <4> QED BY <1>13, <2>5, <4>1
    <3>3. Text(inode[j].direct, inode[j].size)' = Text(inode[j].direct, inode[j].size)
      BY <1>18, <3>2 DEF Text, Byte
    <3> QED BY <3>3 DEF Files
  <2>6. Files' = [j \in Valid \cup {i} |->
                    IF j = i THEN [n \in DOMAIN Files[i] |->
                                     IF n \in from .. to THEN 0 ELSE Files[i][n]]
                             ELSE Files[j]]
    <3>1. Files' = [j \in Valid' |-> Text(inode[j].direct, inode[j].size)']
      BY DEF Files
    <3>2. Valid' = Valid \cup {i}
      BY <1>5
    <3> QED BY <2>4, <2>5, <3>1, <3>2
  <2>7. from \in DOMAIN Files[i] /\ to \in DOMAIN Files[i]
    BY <2>1, <2>2
  <2> QED BY <1>5, <1>6, <1>8, <2>6, <2>7
<1>21. size <= BlockSize * k \/ BlockSize * k < size
  BY <1>14, <1>16
<1> QED BY <1>19, <1>20, <1>21, Zenon

LEMMA StoreRemoveEnd ==
    ASSUME Appending, DirectInv, ChainInv, StoreInv, RemoveEnd, NEW i, i = op.inum
    PROVE  /\ StoreInv' /\ Removing = {i} /\ Removing' = {} /\ i \in Valid
           /\ Files' = [j \in Valid \ {i} |-> Files[j]]
<1> DEFINE a    == [op.node EXCEPT !.valid = FALSE]
           node == [a EXCEPT !.size = 0]
<1>1. op.call = "remove" /\ op' = Idle /\ data' = data
  BY DEF RemoveEnd
<1>2. inode' = [inode EXCEPT ![i] = node]
  BY Zenon DEF RemoveEnd
<1>3. i \in Inum /\ op.node \in Inode /\ inode \in [Inum -> Inode]
  BY <1>1, RemovingFacts, TableFacts
<1>4. inode[i].valid
  BY <1>1 DEF StoreInv, RemoveStore
<1>5. a \in Inode /\ a.valid = FALSE
  BY <1>3, WithValid
<1> HIDE DEF a
<1>6. 0 \in 0 .. MaxSize
  BY SizeFacts
<1>7. node.valid = FALSE
  BY <1>5, <1>6, WithSize
<1> HIDE DEF node
<1>8. inode'[i] = node /\ \A j \in Inum \ {i} : inode'[j] = inode[j]
  BY <1>2, <1>3
<1>9. Valid' = Valid \ {i} /\ i \in Valid
  BY <1>3, <1>4, <1>7, <1>8 DEF Valid
<1>10. ASSUME NEW j \in Valid \ {i}
       PROVE  Text(inode[j].direct, inode[j].size)' = Text(inode[j].direct, inode[j].size)
  <2>1. inode'[j] = inode[j]
    BY <1>8 DEF Valid
  <2> QED BY <1>1, <2>1 DEF Text, Byte
<1>11. Files' = [j \in Valid \ {i} |-> Files[j]]
  BY <1>9, <1>10 DEF Files
<1> QED BY <1>1, <1>9, <1>11, StoreEnded DEF Removing, Idle

(* Such a file has no block of pointers to remove.                           *)
LEMMA NoRemoveIndirect ==
    ASSUME Appending, DirectInv, ChainInv, RemoveIndirect PROVE FALSE
<1>1. op.call = "remove" /\ op.node.indirect # 0 /\ op.inum \in Inum
  BY RemovingFacts DEF RemoveIndirect
<1>2. op.node.indirect \in {0, inode[op.inum].indirect}
  BY <1>1 DEF ChainInv, RemoveTypes
<1> QED BY <1>1, <1>2 DEF Appending, ChainInv, SoundChains

LEMMA StoreWrite ==
    ASSUME Appending, DirectInv, NEW i \in Inum, NEW len \in Lengths, NEW tag \in Tag,
           Write(i, len, tag)
    PROVE  StoreInv' /\ Removing = {} /\ Removing' = {} /\ Files' = Files
<1>1. op = Idle /\ i \in i_bitmap /\ mounted /\ UNCHANGED <<inode, data>>
  BY DEF Write, Ready, disk
<1>2. PICK off \in Offsets(i, len) :
         op' = [call |-> "write", inum |-> i, node |-> inode[i], tag |-> tag,
                pos |-> off, left |-> len, written |-> 0,
                chain |-> Zeroes, buffer |-> Zeroes]
  BY DEF Write
<1>3. off = inode[i].size /\ off \in Nat
  BY TableFacts, NodeFacts DEF Offsets, Appending
<1>4. 0 + len \in Lengths
  BY DiskAssumption
<1>5. \A p \in Nat : ~(inode[i].size <= p /\ p < off)
  BY <1>3
<1>6. WriteStore'
  BY <1>1, <1>2, <1>4, <1>5 DEF WriteStore
<1>7. StoreInv'
  BY <1>2, <1>6 DEF StoreInv, FormatStore, RemoveStore
<1> QED BY <1>1, <1>2, <1>7, DiskKept DEF Removing, Idle

(* The bytes a call adds go behind the file's end, in a block that is its own
   or was nobody's: no file is changed yet. *)
LEMMA StoreWriteTo ==
    ASSUME Appending, DirectInv, ChainInv, StoreInv, Writing,
           NEW b \in DataBlock, NEW k, k = BlockNo, k \in Slot, WriteTo(b),
           op.node.direct[k] \in {0, b},
           \A l \in Slot : op.node.direct[l] = b => l = k,
           \A j \in Inum \ {op.inum}, l \in Slot : inode[j].direct[l] # b
    PROVE  StoreInv' /\ Removing = {} /\ Removing' = {} /\ Files' = Files
<1> PICK i : i = op.inum
  OBVIOUS
<1> PICK tag : tag = op.tag
  OBVIOUS
<1> PICK pos : pos = op.pos
  OBVIOUS
<1> PICK new : new = ToWrite
  OBVIOUS
<1> DEFINE f    == op.node.direct
           g    == [op.node.direct EXCEPT ![k] = b]
           node == [op.node EXCEPT !.direct = [@ EXCEPT ![k] = b]]
<1>1. op.call = "write" /\ op.left > 0
  BY DEF Writing
<1>2. /\ i \in Inum /\ op.node \in Inode /\ pos \in Nat /\ op.left \in Nat /\ op.written \in Nat
      /\ inode \in [Inum -> Inode] /\ inode[i].valid /\ Whole(op.node)
  BY <1>1, WritingFacts
<1>3. new \in Nat /\ new <= op.left /\ pos + new <= BlockSize * k + BlockSize
      /\ BlockSize * k \in Nat /\ BlockSize * k <= pos
  BY <1>1, <1>2, OffsetFacts
<1>4. /\ op' = WriteCall(i, node, tag, pos + new, op.left - new, op.written + new,
                         op.chain, Refilled(b))
      /\ inode' = inode
  BY WriteToFacts
<1>5. /\ node.size = op.node.size /\ node.direct = g
  BY <1>2, NewDirect
<1> HIDE DEF node
<1>6. g[k] = b /\ \A l \in Slot \ {k} : g[l] = f[l] /\ g[l] # b
  BY <1>2, NodeFacts
<1>7. /\ op'.call = "write" /\ op'.inum = i /\ op'.node = node /\ op'.tag = tag
      /\ op'.pos = pos + new /\ op'.left = op.left - new /\ op'.written = op.written + new
  BY <1>4 DEF WriteCall
<1>8. /\ data \in [DataBlock -> Block]
      /\ data' = [data EXCEPT ![b] = Refilled(b)]
  BY DEF ChainInv, SoundChains, WriteTo
<1>9. data'[b] = Refilled(b) /\ \A n \in DataBlock \ {b} : data'[n] = data[n]
  BY <1>8
<1>10. /\ op.node.size = inode[i].size /\ op.written + op.left \in Lengths
       /\ \A l \in Slot : inode[i].direct[l] # 0 => f[l] = inode[i].direct[l]
       /\ \A p \in Nat : op.node.size <= p /\ p < pos => Byte(f, p) = tag
  BY <1>1 DEF StoreInv, WriteStore
<1>11. Fits(f, pos) /\ pos = op.node.size + op.written
  BY <1>1 DEF DirectInv, WriteInv, Appending
<1>12. f \in [Slot -> {0} \cup DataBlock] /\ op.node.size \in Nat
  BY <1>2, NodeFacts
<1>13. pos + new <= BlockSize * Pointers
  <2>1. /\ op.node.size + op.written + op.left <= MaxSize /\ BlockSize * Pointers \in Nat
    BY <1>1, WritingFacts, Product, SizeFacts
  <2> QED BY <1>2, <1>3, <1>11, <1>12, <2>1, SizeFacts DEF Appending
<1>14. ASSUME NEW c \in Cells
       PROVE  Refilled(b)[c] = IF c \in pos % BlockSize .. (pos % BlockSize) + new - 1
                               THEN tag ELSE data[b][c]
  BY DEF Refilled, Overlay, cur_offset
(* What is below the old end of the write stays as it was.                   *)
<1>15. ASSUME NEW p \in Nat, p < pos
       PROVE  /\ p \div BlockSize \in Slot /\ f[p \div BlockSize] # 0
              /\ data'[f[p \div BlockSize]][p % BlockSize] = Byte(f, p)
              /\ g[p \div BlockSize] = f[p \div BlockSize]
  <2> PICK q : q = p \div BlockSize
    OBVIOUS
  <2>1. pos <= BlockSize * Pointers
    <3>1. BlockSize * Pointers \in Nat
      BY Product, SizeFacts
    <3> QED BY <1>2, <1>3, <1>13, <3>1
  <2>2. q \in Slot
    BY <1>2, <1>15, <2>1, PlaceInDirect
  <2>3. f[q] # 0 /\ f[q] \in DataBlock
    BY <1>2, <1>11, <1>12, <1>15, <2>2, FitsFacts
  <2>4. CASE q # k
    <3>1. f[q] # b /\ g[q] = f[q]
      BY <1>6, <2>2, <2>4
    <3> QED BY <1>9, <2>2, <2>3, <3>1 DEF Byte
  <2>5. CASE q = k
    <3>1. f[q] = b /\ g[q] = b
      BY <1>6, <2>3, <2>5
    <3>2. p % BlockSize \in Cells /\ pos % BlockSize \in Cells
      BY <1>2, PlaceFacts
    <3>3. p % BlockSize < pos % BlockSize
      <4>1. p \div BlockSize = pos \div BlockSize
        BY <2>5 DEF BlockNo
      <4> QED BY <1>2, <1>15, <4>1, SameBlock
    <3>4. Refilled(b)[p % BlockSize] = data[b][p % BlockSize]
      BY <1>14, <3>2, <3>3, SizeFacts DEF Cells
    <3> QED BY <1>9, <2>2, <2>3, <3>1, <3>4 DEF Byte
  <2> QED BY <2>2, <2>3, <2>4, <2>5
<1>16. ASSUME NEW p \in Nat, pos <= p, p < pos + new
       PROVE  data'[g[p \div BlockSize]][p % BlockSize] = tag
  <2>1. BlockSize * k <= p /\ p < BlockSize * k + BlockSize
    BY <1>2, <1>3, <1>16, SizeFacts
  <2>2. p \div BlockSize = k /\ k \in Nat
    BY <2>1, SizeFacts, WithinBlock
  <2>3. p % BlockSize \in Cells /\ pos % BlockSize \in Cells
    BY <1>2, PlaceFacts
  <2>4. (p % BlockSize) = (pos % BlockSize) + (p - pos)
    <3>1. p \div BlockSize = pos \div BlockSize
      BY <2>2 DEF BlockNo
    <3> QED BY <1>2, <1>16, <3>1, SameBlock
  <2>5. p % BlockSize \in pos % BlockSize .. (pos % BlockSize) + new - 1
    BY <1>2, <1>3, <1>16, <2>3, <2>4, SizeFacts DEF Cells
  <2>6. Refilled(b)[p % BlockSize] = tag
    BY <1>14, <2>3, <2>5
  <2> QED BY <1>6, <1>9, <2>2, <2>6
<1>17. ASSUME NEW p \in Nat, op.node.size <= p, p < pos + new
       PROVE  data'[g[p \div BlockSize]][p % BlockSize] = tag
  <2>1. CASE p < pos
    BY <1>10, <1>15, <1>17, <2>1
  <2>2. CASE pos <= p
    BY <1>16, <1>17, <2>2
  <2> QED BY <1>2, <2>1, <2>2
<1>18. ASSUME NEW l \in Slot, inode[i].direct[l] # 0
       PROVE  g[l] = inode[i].direct[l]
  <2>1. f[l] = inode[i].direct[l]
    BY <1>10, <1>18
  <2> QED BY <1>6, <1>18, <2>1
<1>19. (op.written + new) + (op.left - new) = op.written + op.left
  BY <1>2, <1>3
<1>20. WriteStore'
  <2>1. \A p \in Nat : op'.node.size <= p /\ p < op'.pos
           => data'[op'.node.direct[p \div BlockSize]][p % BlockSize] = op'.tag
    BY <1>5, <1>7, <1>17
  <2>2. op'.written + op'.left \in Lengths
    BY <1>7, <1>10, <1>19
  <2>3. op'.node.size = inode'[op'.inum].size
    BY <1>4, <1>5, <1>7, <1>10
  <2>4. \A l \in Slot : inode'[op'.inum].direct[l] # 0
                          => op'.node.direct[l] = inode'[op'.inum].direct[l]
    <3>1. op'.node.direct = g /\ inode'[op'.inum] = inode[i]
      BY <1>4, <1>5, <1>7
    <3> HIDE DEF f, g
    <3> QED BY <1>18, <3>1
  <2>5. \A p \in Nat : op'.node.size <= p /\ p < op'.pos
           => Byte(op.node.direct, p)' = op'.tag
    BY <2>1 DEF Byte
  <2> HIDE DEF f, g
  <2> QED BY <2>2, <2>3, <2>4, <2>5, Zenon DEF WriteStore
<1>21. StoreInv'
  BY <1>7, <1>20 DEF StoreInv, FormatStore, RemoveStore
<1>22. ASSUME NEW j \in Valid, NEW p \in Nat, p < inode[j].size
       PROVE  data'[inode[j].direct[p \div BlockSize]][p % BlockSize]
                = Byte(inode[j].direct, p)
  <2> PICK q : q = p \div BlockSize
    OBVIOUS
  <2>1. q \in Slot /\ inode[j].direct[q] \in DataBlock /\ j \in Inum
    BY <1>22, FileFacts
  <2>2. CASE j # i
    <3>1. inode[j].direct[q] # b
      BY <2>1, <2>2
    <3> QED BY <1>9, <2>1, <3>1 DEF Byte
  <2>3. CASE j = i
    <3>1. inode[i].direct[q] = f[q]
      BY <1>10, <2>1, <2>3, SizeFacts
    <3>2. p < pos
      BY <1>2, <1>10, <1>11, <1>12, <1>22, <2>3
    <3> QED BY <1>15, <2>3, <3>1, <3>2 DEF Byte
  <2> QED BY <2>2, <2>3
<1>23. Files' = Files
  BY <1>4, <1>22, FilesKept
<1> QED BY <1>1, <1>7, <1>21, <1>23 DEF Removing

LEMMA StoreWriteDirect ==
    ASSUME Appending, DirectInv, ChainInv, StoreInv, WriteDirect
    PROVE  StoreInv' /\ Removing = {} /\ Removing' = {} /\ Files' = Files
<1> PICK k : k = BlockNo
  OBVIOUS
<1> PICK b : b = op.node.direct[k]
  OBVIOUS
<1>1. Writing /\ op.call = "write" /\ op.left > 0 /\ k < Pointers /\ b # 0 /\ WriteTo(b)
  BY DEF WriteDirect, Writing
<1>2. /\ op.inum \in Inum /\ op.node \in Inode /\ op.pos \in Nat /\ op.left \in Nat
      /\ Sound(Pending) /\ Pending[op.inum] = op.node
      /\ \A j \in Inum \ {op.inum} : Pending[j] = inode[j]
      /\ Distinct(op.node.direct)
  BY <1>1, WritingFacts
<1>3. k \in Slot
  BY <1>1, <1>2, OffsetFacts, SizeFacts
<1>4. b \in DataBlock
  BY <1>1, <1>2, <1>3, NodeFacts
<1>5. \A l \in Slot : op.node.direct[l] = b => l = k
  BY <1>1, <1>2, <1>3 DEF Distinct
<1>6. \A j \in Inum \ {op.inum}, l \in Slot : inode[j].direct[l] # b
  BY <1>1, <1>2, <1>3 DEF Sound, Disjoint
<1>7. op.node.direct[k] \in {0, b}
  OBVIOUS
<1> QED BY <1>1, <1>3, <1>4, <1>5, <1>6, <1>7, StoreWriteTo

LEMMA StoreWriteNew ==
    ASSUME Appending, DirectInv, ChainInv, StoreInv, WriteNew
    PROVE  StoreInv' /\ Removing = {} /\ Removing' = {} /\ Files' = Files
<1> PICK k : k = BlockNo
  OBVIOUS
<1> PICK b : b = Lowest(FreeBlocks)
  OBVIOUS
<1>1. /\ Writing /\ op.call = "write" /\ op.node.direct[k] = 0 /\ FreeBlocks # {}
      /\ WriteTo(b) /\ k \in Slot
  BY NewAppends DEF WriteNew, Writing
<1>2. /\ b \in DataBlock /\ \A i \in Inum, l \in Slot : Pending[i].direct[l] # b
  BY <1>1, NewBlockFacts
<1>3. /\ op.inum \in Inum /\ Pending[op.inum] = op.node
      /\ \A j \in Inum \ {op.inum} : Pending[j] = inode[j]
  BY <1>1, WritingFacts
<1>4. \A l \in Slot : op.node.direct[l] = b => l = k
  BY <1>2, <1>3
<1>5. \A j \in Inum \ {op.inum}, l \in Slot : inode[j].direct[l] # b
  BY <1>2, <1>3
<1>6. op.node.direct[k] \in {0, b}
  BY <1>1
<1> QED BY <1>1, <1>2, <1>4, <1>5, <1>6, StoreWriteTo

(* Such a client does not get beyond the direct blocks.                      *)
LEMMA NoWriteIndirect ==
    ASSUME Appending, DirectInv, ChainInv, WriteIndirect PROVE FALSE
<1> PICK k : k = BlockNo
  OBVIOUS
<1>1. op.call = "write" /\ op.left > 0 /\ k >= Pointers
  BY DEF WriteIndirect, Writing
<1>2. /\ op.pos \in Nat /\ op.left \in Nat /\ op.written \in Nat /\ op.node.size \in Nat
      /\ op.node.size + op.written + op.left <= MaxSize
      /\ k \in Nat /\ BlockSize * k \in Nat /\ BlockSize * k <= op.pos
  BY <1>1, WritingFacts, OffsetFacts
<1>3. op.pos = op.node.size + op.written
  BY <1>1 DEF DirectInv, WriteInv, Appending
<1>4. BlockSize * Pointers <= BlockSize * k /\ BlockSize * Pointers \in Nat
  BY <1>1, <1>2, Product, SizeFacts
<1> QED BY <1>1, <1>2, <1>3, <1>4, SizeFacts DEF Appending

Grew(i) ==
    \E len \in Lengths, tag \in Tag :
      Files' = [j \in Valid \cup {i} |->
                  IF j = i THEN Added(Files[i], len, tag) ELSE Files[j]]

(* Not until the inode is written does a file have the bytes of a call, and
   then all of them. *)
LEMMA StoreWriteEnd ==
    ASSUME Appending, DirectInv, ChainInv, StoreInv, WriteEnd, NEW i, i = op.inum
    PROVE  /\ StoreInv' /\ Removing = {} /\ Removing' = {} /\ i \in Valid
           /\ Grew(i)
<1> PICK tag : tag = op.tag
  OBVIOUS
<1> PICK len : len = op.written
  OBVIOUS
<1> PICK g : g = op.node.direct
  OBVIOUS
<1> PICK size : size = inode[i].size
  OBVIOUS
<1> DEFINE f    == inode[i].direct
           node == [op.node EXCEPT !.size = op.node.size + len]
<1>1. /\ op.call = "write" /\ op.left = 0 /\ op' = Idle /\ inode' = [inode EXCEPT ![i] = node]
      /\ data' = data
  BY DEF WriteEnd, SizeAdded
<1>2. /\ i \in Inum /\ op.node \in Inode /\ op.node.valid /\ op.written \in Nat
      /\ op.node.size \in Nat /\ op.pos \in Nat
      /\ op.node.size + op.written + op.left <= MaxSize
      /\ inode \in [Inum -> Inode] /\ inode[i].valid
  BY <1>1, WritingFacts
<1>3. /\ op.node.size = size /\ op.written + op.left \in Lengths
      /\ \A l \in Slot : f[l] # 0 => g[l] = f[l]
      /\ \A p \in Nat : size <= p /\ p < op.pos => Byte(g, p) = tag
  BY <1>1 DEF StoreInv, WriteStore
<1>4. len \in Lengths /\ len \in Nat
  <2>1. op.written + op.left = len
    BY <1>1, <1>2
  <2> QED BY <1>2, <1>3, <2>1
<1>5. op.pos = size + len
  BY <1>1, <1>3 DEF DirectInv, WriteInv, Appending
<1>6. tag \in Tag
  BY <1>1 DEF ChainInv, WriteTypes
<1>7. size + len \in 0 .. MaxSize /\ size \in Nat
  BY <1>1, <1>2, <1>3, SizeFacts
<1>8. node.valid /\ node.size = size + len /\ node.direct = g
  BY <1>2, <1>3, <1>7, WithSize
<1> HIDE DEF node
<1>9. inode'[i] = node /\ \A j \in Inum \ {i} : inode'[j] = inode[j]
  BY <1>1, <1>2
<1>10. Valid' = Valid /\ i \in Valid
  BY <1>2, <1>8, <1>9 DEF Valid
<1>11. ASSUME NEW p \in Nat, p < size PROVE Byte(g, p) = Byte(f, p)
  <2> PICK q : q = p \div BlockSize
    OBVIOUS
  <2>1. q \in Slot /\ f[q] \in DataBlock
    BY <1>10, <1>11, FileFacts
  <2>2. g[q] = f[q]
    BY <1>3, <2>1, SizeFacts
  <2> QED BY <2>2 DEF Byte
<1>12. Files[i] = [n \in 1 .. size |-> Byte(f, n - 1)]
  BY <1>10 DEF Files, Text
<1>13. Text(inode[i].direct, inode[i].size)' = [n \in 1 .. size + len |-> Byte(g, n - 1)]
  BY <1>1, <1>8, <1>9 DEF Text, Byte
<1> HIDE DEF f
<1>14. [n \in 1 .. size + len |-> Byte(g, n - 1)] = Added(Files[i], len, tag)
  <2>1. ASSUME NEW n \in 1 .. size + len
        PROVE  Byte(g, n - 1) = IF n <= size THEN Byte(f, n - 1) ELSE tag
    <3>1. n - 1 \in Nat /\ (n <= size => n - 1 < size)
          /\ (~(n <= size) => size <= n - 1 /\ n - 1 < size + len)
      BY <1>4, <1>7
    <3> QED BY <1>3, <1>5, <1>11, <3>1
  <2>2. \A n \in 1 .. size : Files[i][n] = Byte(f, n - 1)
    BY <1>12
  <2>3. ASSUME NEW n \in 1 .. size + len
        PROVE  Byte(g, n - 1) = IF n <= size THEN Files[i][n] ELSE tag
    BY <1>4, <1>7, <2>1, <2>2
  <2> PICK old : old = Files[i]
    OBVIOUS
  <2> PICK new : new = [n \in 1 .. size + len |-> Byte(g, n - 1)]
    OBVIOUS
  <2>4. IsText(old, size) /\ IsText(new, size + len)
    BY <1>12 DEF IsText
  <2>5. Adds(new, old, size, len, tag)
    BY <2>3 DEF Adds
  <2>6. new = Added(old, len, tag)
    BY <1>4, <1>7, <2>4, <2>5, AddedFacts
  <2> QED BY <2>6
<1>15. ASSUME NEW j \in Valid, j # i
       PROVE  Text(inode[j].direct, inode[j].size)' = Files[j]
  <2>1. inode'[j] = inode[j]
    BY <1>9, <1>15 DEF Valid
  <2>2. Text(inode[j].direct, inode[j].size)' = Text(inode[j].direct, inode[j].size)
    BY <1>1, <2>1 DEF Text, Byte
  <2> QED BY <2>2 DEF Files
<1>16. Files' = [j \in Valid \cup {i} |->
                   IF j = i THEN Added(Files[i], len, tag) ELSE Files[j]]
  <2>1. Files' = [j \in Valid' |-> Text(inode[j].direct, inode[j].size)']
    BY DEF Files
  <2>2. Valid' = Valid \cup {i}
    BY <1>10
  <2>3. Text(inode[i].direct, inode[i].size)' = Added(Files[i], len, tag)
    BY <1>13, <1>14
  <2> QED BY <1>15, <2>1, <2>2, <2>3
<1>17. Removing = {} /\ Removing' = {}
  BY <1>1 DEF Removing, Idle
<1>18. Grew(i)
  BY <1>4, <1>6, <1>16 DEF Grew
<1> QED BY <1>1, <1>10, <1>17, <1>18, StoreEnded

LEMMA StoreExit ==
    ASSUME Exit
    PROVE  StoreInv' /\ Removing' = {} /\ Files' = Files
<1>1. op' = Idle /\ UNCHANGED <<inode, data>>
  BY DEF Exit, disk
<1> QED BY <1>1, StoreEnded, DiskKept DEF Removing, Idle

LEMMA StoreStays ==
    ASSUME Mount \/ WriteFull
    PROVE  StoreInv' /\ Removing = {} /\ Removing' = {} /\ Files' = Files
<1>1. op' = Idle /\ UNCHANGED <<inode, data>> /\ op.call # "remove"
  BY DEF Mount, WriteFull, Writing, disk, Idle
<1> QED BY <1>1, StoreEnded, DiskKept DEF Removing, Idle

-----------------------------------------------------------------------------
(* The steps of the store.                                                   *)

LEMMA StoreInitial ==
    ASSUME Appending, SoundDisks, PlainDisks
    PROVE  Init /\ DirectInv /\ ChainInv => Store!Init
<1> SUFFICES ASSUME Init, DirectInv, ChainInv PROVE Store!Init
  OBVIOUS
<1>1. Stored = Files
  BY ReadFacts
<1>2. Stored = [i \in Valid |-> wfsread(i)] /\ DOMAIN Files = Valid /\ Valid \subseteq Inum
  BY DEF Stored, Files, Valid
<1>3. \A n \in DataBlock, c \in Cells : data[n][c] \in Tag \cup {0}
  BY DEF Init, PlainDisks
<1>4. ASSUME NEW i \in Valid PROVE Files[i] \in Seq(Tag \cup {0})
  <2>1. /\ inode[i].size \in Nat
        /\ \A p \in Nat : p < inode[i].size =>
             /\ p \div BlockSize \in Slot /\ p % BlockSize \in Cells
             /\ inode[i].direct[p \div BlockSize] \in DataBlock
    BY FileFacts
  <2>2. ASSUME NEW m \in 1 .. inode[i].size PROVE Byte(inode[i].direct, m - 1) \in Tag \cup {0}
    <3>1. m - 1 \in Nat /\ m - 1 < inode[i].size
      BY <2>1
    <3> QED BY <1>3, <2>1, <3>1 DEF Byte
  <2>3. Text(inode[i].direct, inode[i].size) \in Seq(Tag \cup {0})
    BY <2>1, <2>2 DEF Text
  <2> QED BY <2>3 DEF Files
<1>5. op.call # "remove"
  BY DEF Init, Idle
<1> QED BY <1>1, <1>2, <1>4, <1>5 DEF Store!Init, Store!There

LEMMA StoreStep ==
    ASSUME Appending
    PROVE  /\ DirectInv /\ ChainInv /\ StoreInv /\ [Next]_vars
           /\ Stored = Files /\ (Stored = Files)'
           => StoreInv' /\ [Store!Next]_<<Stored, Removing>>
<1> SUFFICES ASSUME DirectInv, ChainInv, StoreInv, [Next]_vars,
                    Stored = Files, Stored' = Files'
             PROVE  StoreInv' /\ [Store!Next]_<<Stored, Removing>>
  OBVIOUS
<1> DEFINE Steps == [Store!Next]_<<Stored, Removing>>
<1>1. DOMAIN Stored = Valid
  BY DEF Stored
<1>2. ASSUME Files' = Files, Removing' = Removing PROVE Steps
  BY <1>2
<1>3. ASSUME NEW i \in Inum,
             Store!Create(i) \/ Store!Grow(i) \/ Store!StartRemove(i) \/ Store!Blank(i)
               \/ Store!Remove(i)
      PROVE  Steps
  BY <1>3 DEF Store!Next
<1>4. CASE Mount \/ WriteFull
  BY <1>2, <1>4, StoreStays
<1>5. CASE Format
  BY <1>2, <1>5, StoreFormat
<1>6. CASE FormatNext
  <2>1. /\ StoreInv' /\ Removing = {} /\ Removing' = {} /\ Valid' \subseteq Valid
        /\ Files' = [i \in Valid' |-> Files[i]]
    BY <1>6, StoreFormatNext DEF StoreInv
  <2>2. PICK there : there = Valid'
    OBVIOUS
  <2>3. Valid \ (Valid \ there) = there /\ Valid \ there \in SUBSET Valid
    BY <2>1, <2>2
  <2>4. Stored' = [i \in DOMAIN Stored \ (Valid \ there) |-> Stored[i]]
    BY <1>1, <2>1, <2>2, <2>3
  <2>5. Store!Wipe
    BY <1>1, <2>1, <2>3, <2>4 DEF Store!Wipe, Store!Without, Store!There, Stored, Removing
  <2> QED BY <2>1, <2>5 DEF Store!Next
<1>7. CASE Create
  <2> PICK f : f = FreeInode
    OBVIOUS
  <2>1. /\ StoreInv' /\ Removing = {} /\ Removing' = {} /\ f \in Inum \ Valid
        /\ Files' = [i \in Valid \cup {f} |-> IF i = f THEN <<>> ELSE Files[i]]
    BY <1>7, StoreCreate
  <2>2. Store!Create(f)
    BY <1>1, <2>1 DEF Store!Create, Store!With, Store!There, Stored, Removing
  <2> QED BY <1>3, <2>1, <2>2
<1>8. ASSUME NEW i \in Inum, StartRemove(i) PROVE StoreInv' /\ Steps
  <2>1. StoreInv' /\ Removing = {} /\ Removing' = {i} /\ i \in Valid /\ Files' = Files
    BY <1>8, StoreRemove
  <2>2. Store!StartRemove(i)
    BY <1>1, <2>1 DEF Store!StartRemove, Store!There, Stored, Removing
  <2> QED BY <1>3, <2>1, <2>2
<1>9. CASE RemoveBlock
  <2> PICK i : i = op.inum
    OBVIOUS
  <2>1. /\ StoreInv' /\ Removing = {i} /\ Removing' = {i} /\ i \in Valid
        /\ \/ Files' = Files
           \/ \E from, to \in DOMAIN Files[i] :
                Files' = [j \in Valid \cup {i} |->
                            IF j = i
                            THEN [n \in DOMAIN Files[i] |->
                                    IF n \in from .. to THEN 0 ELSE Files[i][n]]
                            ELSE Files[j]]
    BY <1>9, StoreRemoveBlock
  <2>2. ASSUME NEW from \in DOMAIN Files[i], NEW to \in DOMAIN Files[i],
               Files' = [j \in Valid \cup {i} |->
                           IF j = i
                           THEN [n \in DOMAIN Files[i] |->
                                   IF n \in from .. to THEN 0 ELSE Files[i][n]]
                           ELSE Files[j]]
        PROVE  Store!Blank(i)
    <3> DEFINE blanked == [n \in DOMAIN Files[i] |->
                             IF n \in from .. to THEN 0 ELSE Files[i][n]]
    <3>1. Store!With(i, blanked)
            = [j \in DOMAIN Stored \cup {i} |-> IF j = i THEN blanked ELSE Stored[j]]
      BY DEF Store!With, Store!There, Stored
    <3>2. Stored' = Store!With(i, blanked)
      BY <1>1, <2>2, <3>1
    <3>3. from \in DOMAIN Stored[i] /\ to \in DOMAIN Stored[i] /\ Removing' = Removing
          /\ i \in Removing
      BY <2>1, <2>2
    <3>4. blanked = [n \in DOMAIN Stored[i] |->
                       IF n \in from .. to THEN 0 ELSE Stored[i][n]]
      OBVIOUS
    <3> HIDE DEF blanked
    <3>5. \E x, y \in DOMAIN Stored[i] :
             Stored' = Store!With(i, [n \in DOMAIN Stored[i] |->
                                        IF n \in x .. y THEN 0 ELSE Stored[i][n]])
      BY <3>2, <3>3, <3>4
    <3> QED BY <3>3, <3>5, Zenon DEF Store!Blank, Stored, Removing
  <2>3. i \in Inum
    BY <2>1 DEF Valid
  <2> QED BY <1>2, <1>3, <2>1, <2>2, <2>3
<1>10. CASE RemoveIndirect
  BY <1>10, NoRemoveIndirect
<1>11. CASE RemoveEnd
  <2> PICK i : i = op.inum
    OBVIOUS
  <2>1. /\ StoreInv' /\ Removing = {i} /\ Removing' = {} /\ i \in Valid
        /\ Files' = [j \in Valid \ {i} |-> Files[j]]
    BY <1>11, StoreRemoveEnd
  <2>2. Store!Remove(i)
    BY <1>1, <2>1 DEF Store!Remove, Store!Without, Store!There, Stored, Removing
  <2>3. i \in Inum
    BY <2>1 DEF Valid
  <2> QED BY <1>3, <2>1, <2>2, <2>3
<1>12. ASSUME NEW i \in Inum, NEW len \in Lengths, NEW tag \in Tag, Write(i, len, tag)
       PROVE  StoreInv' /\ Steps
  BY <1>2, <1>12, StoreWrite
<1>13. CASE WriteDirect
  BY <1>2, <1>13, StoreWriteDirect
<1>14. CASE WriteNew
  BY <1>2, <1>14, StoreWriteNew
<1>15. CASE WriteIndirect
  BY <1>15, NoWriteIndirect
<1>16. CASE WriteEnd
  <2> PICK i : i = op.inum
    OBVIOUS
  <2>1. StoreInv' /\ Removing = {} /\ Removing' = {} /\ i \in Valid /\ Grew(i)
    BY <1>16, StoreWriteEnd
  <2>2. PICK len \in Lengths, tag \in Tag :
          Files' = [j \in Valid \cup {i} |->
                      IF j = i THEN Added(Files[i], len, tag) ELSE Files[j]]
    BY <2>1 DEF Grew
  <2>4. Store!Grow(i)
    <3> DEFINE grown == Added(Files[i], len, tag)
    <3>1. Store!With(i, grown)
            = [j \in DOMAIN Stored \cup {i} |-> IF j = i THEN grown ELSE Stored[j]]
      BY DEF Store!With, Store!There, Stored
    <3>2. Stored' = Store!With(i, grown)
      BY <1>1, <2>2, <3>1
    <3>3. grown = Stored[i] \o [n \in 1 .. len |-> tag]
      BY DEF Added
    <3> HIDE DEF grown
    <3>4. Stored' = Store!With(i, Stored[i] \o [n \in 1 .. len |-> tag])
      BY <3>2, <3>3
    <3>5. i \in DOMAIN Stored /\ Removing = {} /\ Removing' = Removing
      BY <1>1, <2>1
    <3> QED BY <3>4, <3>5, Zenon DEF Store!Grow, Store!There, Stored, Removing
  <2>3. i \in Inum
    BY <2>1 DEF Valid
  <2> QED BY <1>3, <2>1, <2>3, <2>4
<1>17. CASE Exit
  <2>1. StoreInv' /\ Removing' = {} /\ Files' = Files
    BY <1>17, StoreExit
  <2>2. CASE Removing = {}
    BY <1>2, <2>1, <2>2
  <2>3. CASE Removing # {}
    <3>1. Store!CutShort
      BY <2>1, <2>3 DEF Store!CutShort, Stored, Removing
    <3> QED BY <2>1, <3>1 DEF Store!Next
  <2> QED BY <2>1, <2>2, <2>3
<1>18. CASE UNCHANGED vars
  <2>1. UNCHANGED <<inode, data>> /\ op' = op
    BY <1>18 DEF vars
  <2>2. Files' = Files /\ Removing' = Removing
    BY <2>1, DiskKept DEF Removing
  <2>3. StoreInv'
    BY <2>1 DEF StoreInv, FormatStore, RemoveStore, WriteStore, Byte
  <2> QED BY <1>2, <2>2, <2>3
<1> QED BY <1>4, <1>5, <1>6, <1>7, <1>8, <1>9, <1>10, <1>11, <1>12, <1>13, <1>14, <1>15,
           <1>16, <1>17, <1>18
        DEF Next

(* A file system on blocks, with bitmaps that a crash forgets, writes that go
   block by block and failures half way, is a store of whole files, for any
   number and size of blocks, inodes and pointers: what a call appends is there
   when the inode is written, all of it, or never, and no other file changes. *)
THEOREM Refinement ==
    ASSUME SoundDisks, PlainDisks, ~Overwrites, MaxSize <= BlockSize * Pointers
    PROVE  Spec => StoreSpec
<1>1. Appending
  BY DEF Appending
<1>2. DirectInv /\ ChainInv => Stored = Files
  BY <1>1, ReadFacts
<1>3. Init => StoreInv
  BY StoreInit
<1>4. Init /\ DirectInv /\ ChainInv => Store!Init
  BY <1>1, StoreInitial
<1>5. /\ DirectInv /\ ChainInv /\ StoreInv /\ [Next]_vars
      /\ Stored = Files /\ (Stored = Files)'
      => StoreInv' /\ [Store!Next]_<<Stored, Removing>>
  BY <1>1, StoreStep
<1>6. Spec => Store!Init /\ [][Store!Next]_<<Stored, Removing>>
  BY <1>2, <1>3, <1>4, <1>5, ChainInvariance, PTL DEF Spec
<1>7. StoreSpec <=> Store!Init /\ [][Store!Next]_<<Stored, Removing>>
  BY DEF StoreSpec, Store!Spec, Stored, Removing
<1> QED BY <1>6, <1>7, PTL
=============================================================================
