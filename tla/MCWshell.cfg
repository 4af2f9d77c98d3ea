CONSTANTS
    Pid = {1, 2, 3}
    MaxJobs = 2
    PipeSize = 1
    MaxOutput = 2
SPECIFICATION Spec
INVARIANTS TypeOK JobTableExact SecondFollowsFirst
PROPERTY PromptReturns
