SPECIFICATION Spec
CONSTANT Blocks = 5
CONSTANT InodesPerBlock = 2
CONSTANT Pointers = 2
CONSTANT BlockSize = 2
CONSTANT Tag = {x, y}
CONSTANT Images <- BlankDisks
CONSTANT Lengths = {1, 3}
CONSTANT MaxSize = 6
CONSTANT Overwrites = FALSE
CONSTANT x = x
CONSTANT y = y
INVARIANT SuperblockKept
