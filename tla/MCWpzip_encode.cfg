CONSTANTS
    a = a
    b = b
    Char = {a, b}
    Missing = Missing
    FileLists <- ReadableLists
    NumThreads = 3
    Threshold = 1
    MaxThreadIds = 5
SPECIFICATION Spec
INVARIANTS TypeOK AtMostNumThreads CounterExact MergeSeesAllResults ListTextPreserved
PROPERTY ZipSpec
