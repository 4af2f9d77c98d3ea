CONSTANTS
    a = a
    b = b
    Char = {a, b}
    Missing = Missing
    FileLists <- Lists
    NumThreads = 3
    MinChunk = 2
    Base = 2
SPECIFICATION ToolsSpec
INVARIANTS TypesOK NothingLost RoundTrip ReadBeforeFree
PROPERTIES StreamSpec JoinSpec
