CONSTANTS
    x = x
    y = y
    Header = Header
    Junk = Junk
    Tag = {x, y}
    HeaderSize = 2
    Clobbers = {1}
    PageSize = 4
    IntMax = 15
    InitSizes = {10, 15}
    Sizes = {1, 2}
SPECIFICATION Spec
INVARIANT WreallocGrowsInPlace
