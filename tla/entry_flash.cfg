CONSTANTS
    SlotCount = 2
    SeqMax = 7
    Width = 3
    Word <- BinaryWord
    Seqs = {1, 2, 3, 7}
SPECIFICATION Spec
INVARIANT
    FlashInv
PROPERTIES
    CommandReadsAs
    CutReadsAs
    NeverForged
