\* As fallback, and up to two faults: an image that goes bad while the device is
\* off, or a check that fails on a good one. With the inductive invariant of the
\* proofs and with liveness.
CONSTANTS
    SlotCount = 2
    SeqMax = 5
    MaxFaults = 2
SPECIFICATION FairSpec
INVARIANTS
    EarnedTrust
    OneCandidate
    IInv
PROPERTIES
    BootCompletes
    RollbackCompletes
    NoNeedlessHalt
    OneTrial
