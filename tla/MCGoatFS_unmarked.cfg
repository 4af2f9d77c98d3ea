SPECIFICATION Spec
CONSTANT Blocks = 8
CONSTANT InodesPerBlock = 2
CONSTANT Pointers = 2
CONSTANT BlockSize = 2
CONSTANT Tag = {x, y}
CONSTANT Images <- MadeDisks
CONSTANT Lengths = {1, 3}
CONSTANT MaxSize = 5
CONSTANT Overwrites = FALSE
CONSTANT x = x
CONSTANT y = y
INVARIANT UsedBlocksMarked
