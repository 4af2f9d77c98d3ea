------------------------------ MODULE MCGoatFS ------------------------------
(***************************************************************************)
(* Instances of GoatFS: inodes of two pointers, blocks of two bytes.        *)
(***************************************************************************)
EXTENDS GoatFS, TLC

CONSTANTS x, y

Symmetry == Permutations(Tag)

BlankDisk == [super |-> "blank",
              inode |-> [i \in Inum |-> NoInode],
              data  |-> [n \in DataBlock |-> Zeroes]]

(* A disk made elsewhere, as data/image.20 is: file 0 has its first blocks, a
   block of pointers and what that points to; file 1 has its first blocks.  A
   file with fewer would be given a new block once overwriting has raised its
   Size, and the block of pointers is one that mount takes for free.         *)
First == InodeBlocks + 1
MadeElsewhere ==
    [super |-> "valid",
     inode |-> [i \in Inum |->
        CASE i = 0 -> [valid |-> TRUE, size |-> 5,
                       direct |-> [k \in Slot |-> First + k], indirect |-> First + 2]
          [] i = 1 -> [valid |-> TRUE, size |-> 3,
                       direct |-> [k \in Slot |-> First + 4 + k], indirect |-> 0]
          [] OTHER -> NoInode],
     data  |-> [n \in DataBlock |->
        CASE n = First + 2 -> [c \in Cells |-> IF c = 0 THEN First + 3 ELSE 0]
          [] n \in First .. First + 5 -> [c \in Cells |-> y]
          [] OTHER -> Zeroes]]

BlankDisks == {BlankDisk}
MadeDisks  == {MadeElsewhere}

(* What the theorems of GoatFS_proofs suppose of the disks.                  *)
ASSUME DisksAreSound ==
    /\ SoundImages
    /\ Overwrites \/ Images = {BlankDisk} => SoundDisks
    /\ Images = {BlankDisk} => PlainDisks
=============================================================================
