CONSTANTS
    Workloads <- SmallWorkloads
    Timeslices = {0, 1, 2}
SPECIFICATION Spec
INVARIANTS TypeOK StatsMatchTrace RotationFair RunBounded
PROPERTY DispatchSpec
