\* A caller that withdraws the staged record before it rewrites its slot.
CONSTANTS
    r1 = r1
    r2 = r2
    Ids = {r1, r2}
SPECIFICATION FairSpec
INVARIANTS
    TypeOK
    StagedIsWritten
    ActivatingResolved
PROPERTIES
    ConfirmedIsAccounted
    LiveCandidateNotForgotten
    SwitchedNotUnaccounted
    ActivationEnds
