\* Every header and segment header around the bounds, a read that fails or a
\* byte that is flipped. A call that has returned does nothing more.
CONSTANTS
    U32 = 253
    Ranges <- MCRanges
    SRAM_ALIAS_OFFSET = 64
    MMU_PAGE = 4
    Partitions <- MCPartitions
    Headers <- MCHeaders
    SegmentHeaders <- MCSegmentHeaders
    BufLen = 6
    Damages <- MCDamages
SPECIFICATION Spec
CHECK_DEADLOCK FALSE
INVARIANTS
    OffsetsExact
    BootloaderUntouched
    AcceptedIsWhole
    RefusedForCause
    DamageCaught
    IntactAccepted
PROPERTIES
    Terminates
