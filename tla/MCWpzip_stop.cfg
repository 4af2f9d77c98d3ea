CONSTANTS
    a = a
    b = b
    Char = {a, b}
    Missing = Missing
    FileLists <- AllLists
    NumThreads = 2
    Threshold = 1
    MaxThreadIds = 4
SPECIFICATION FairSpec
PROPERTIES Termination
