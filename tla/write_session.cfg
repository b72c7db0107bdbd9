\* Every request, resumption, disconnection, storage answer and restart.
CONSTANTS
    Total = 3
SPECIFICATION Spec
INVARIANTS
    TypeOK
    Accounting
    HashedIsStored
    CommittedIsStored
    StreamIntact
PROPERTIES
    WatermarkForward
