\* What is documented of AwaitConfirmation, when the running target is unknown.
CONSTANTS
    r1 = r1
    r2 = r2
    Ids = {r1, r2}
SPECIFICATION Spec
INVARIANTS
    AwaitedIsOurs
