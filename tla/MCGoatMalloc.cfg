CONSTANTS
    x = x
    y = y
    Header = Header
    Junk = Junk
    Tag = {x, y}
    HeaderSize = 2
    Clobbers = {1}
    PageSize = 4
    IntMax = 15
    InitSizes = {0, 10, 16}
    Sizes = {0, 1, 2, 3, 5}
SYMMETRY Symmetry
SPECIFICATION Spec
INVARIANTS TypeOK Tiling Coalesced HeldIsAllocated DataIntact NoBlockRefused
