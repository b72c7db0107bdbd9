--------------------------- MODULE MCImageValidate ---------------------------
(***************************************************************************)
(* The image validator on a small address range.  As on the chips the      *)
(* library is for, flash-mapped regions may be adjacent, IRAM and DRAM are *)
(* two views of the same memory, and the bootloader's window lies in it.   *)
(* Loads and lengths are those on either side of every bound.              *)
(***************************************************************************)
EXTENDS ImageValidate

MCRange(start, end) == [start |-> start, end |-> end]
MCRanges == [drom |-> MCRange(8, 24), irom |-> MCRange(24, 40), dram |-> MCRange(96, 112),
             iram |-> MCRange(160, 176), rtc |-> MCRange(200, 208),
             boot_window |-> MCRange(102, 108)]

\* A partition in which two segments, a checksum and a hash just fit or not, one
\* shorter than a header, one past the end of the address range.
MCPartitions == {[offset |-> 108, size |-> 96], [offset |-> 108, size |-> 20],
                 [offset |-> 200, size |-> 60]}

MCHeader(count, entry, hash) ==
    [magic |-> TRUE, count |-> count, entry |-> entry, chip |-> TRUE, hash |-> hash]
MCHeaders ==
    {MCHeader(count, entry, hash) :
        count \in 1 .. 2, entry \in {20, 31, 32, 163}, hash \in BOOLEAN}
    \cup {MCHeader(0, 28, TRUE), MCHeader(17, 28, TRUE),
          [MCHeader(1, 28, TRUE) EXCEPT !.magic = FALSE],
          [MCHeader(1, 28, TRUE) EXCEPT !.chip = FALSE]}

MCSegmentHeaders ==
    [load : {0, 7, 20, 28, 98, 107, 108, 162, 172, 204, 250}, len : {0, 1, 4, 7, 24, 251}]

\* The bytes that may be flipped: of headers, data at the ends of chunks, padding
\* and trailer.
MCDamages == {108, 132, 140, 145, 146, 163, 171, 172, 203}
===============================================================================
