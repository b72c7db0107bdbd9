\* Power cuts and failures in every flash command; no image goes bad by itself.
\* Every behaviour is one of TrialUpdate.
CONSTANTS
    SlotCount = 3
    SeqMax = 6
    MaxFaults = 0
SPECIFICATION Spec
INVARIANTS
    LastConfirmedKept
    DistinctSeqs
PROPERTIES
    ImplementsTrialUpdate
    TrustedImageVetted
