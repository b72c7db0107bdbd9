\* The last sequence number, u32::MAX in the code.
CONSTANTS
    SlotCount = 2
    SeqMax = 5
    MaxFaults = 0
SPECIFICATION Spec
INVARIANTS
    ActivatedEntryAccepted
