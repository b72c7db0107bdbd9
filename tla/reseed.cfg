\* What is documented of the first boot, when an image goes bad.
CONSTANTS
    SlotCount = 2
    SeqMax = 5
    MaxFaults = 1
SPECIFICATION Spec
PROPERTIES
    NeverReseeds
