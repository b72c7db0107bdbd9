\* What is documented of trust, when an image goes bad.
CONSTANTS
    SlotCount = 2
    SeqMax = 5
    MaxFaults = 1
SPECIFICATION Spec
PROPERTIES
    TrustedImageVetted
