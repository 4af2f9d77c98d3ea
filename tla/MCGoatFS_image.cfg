SPECIFICATION Spec
CONSTANT Blocks = 8
CONSTANT InodesPerBlock = 2
CONSTANT Pointers = 2
CONSTANT BlockSize = 2
CONSTANT Tag = {y}
CONSTANT Images <- MadeDisks
CONSTANT Lengths = {1, 3}
CONSTANT MaxSize = 8
CONSTANT Overwrites = TRUE
CONSTANT x = x
CONSTANT y = y
INVARIANTS BitmapCovers LostBySizeAlone
