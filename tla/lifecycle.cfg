\* One device with two slots, from the factory through cuts and failures of every
\* flash command and every commit of the record; one image goes bad or is misread.
CONSTANTS
    r1 = r1
    Ids = {r1}
    SlotCount = 2
    SeqMax = 5
    MaxFaults = 1
SPECIFICATION SystemFairSpec
INVARIANTS
    SystemInv
PROPERTIES
    OnlyVerifiedRuns
    ConfirmedIsAccounted
    LiveCandidateNotForgotten
    ActivationEnds
