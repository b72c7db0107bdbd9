\* What the documentation says of a resumption, on the sessions the code allows.
CONSTANTS
    Total = 3
SPECIFICATION Spec
INVARIANTS
    ContinueKeepsStream
