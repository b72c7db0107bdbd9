---------------------------- MODULE ImageValidate ----------------------------
(***************************************************************************)
(* One call of validate (src/src/boot/image.rs), read by read: the header, *)
(* the walk over the segment table, then, as far as verify asks for it,    *)
(* the checksum and the hash, in chunks of a buffer.                       *)
(*                                                                         *)
(* A read returns any header or segment header of the constants, and any   *)
(* read may fail.  A data byte is its address: the model keeps which bytes *)
(* went into the checksum and the hash, and whether one was damaged after  *)
(* those were computed.  Additions the code does not check wrap, as they   *)
(* do in a release build.                                                  *)
(***************************************************************************)
EXTENDS Integers, Sequences, FiniteSetsExt

CONSTANTS
    U32,                \* the number of values of a u32
    Ranges,             \* the address ranges of the MemoryMap: [start, end], end excluded
    SRAM_ALIAS_OFFSET,  \* from an IRAM address to its data-bus alias
    MMU_PAGE,
    Partitions,         \* the partitions that are validated: [offset, size]
    Headers,            \* what a header may read as: [magic, count, entry, chip, hash]
    SegmentHeaders,     \* what a segment header may read as: [load, len]
    BufLen,             \* bytes read at a time
    Damages             \* addresses whose byte may have been flipped

HEADER_LEN == 24
SEGMENT_HEADER_LEN == 8
HASH_LEN == 32
MAX_SEGMENTS == 16

FlashMapped == {"drom", "irom"}
Sram == {"iram", "dram"}
Regions == FlashMapped \cup Sram \cup {"rtc"}

\* The regions are disjoint, IRAM has its alias below it, and the bootloader,
\* which is running, is somewhere.
ASSUME MapAssumption ==
    /\ Ranges \in [Regions \cup {"boot_window"} -> [start : 0 .. U32 - 1, end : 0 .. U32 - 1]]
    /\ \A r, q \in Regions :
         r # q => Ranges[r].end <= Ranges[q].start \/ Ranges[q].end <= Ranges[r].start
    /\ Ranges["boot_window"].start < Ranges["boot_window"].end
    /\ SRAM_ALIAS_OFFSET \in 0 .. Ranges["iram"].start
    /\ MMU_PAGE \in Nat \ {0}

\* What is read is u32 wide; a partition that does not end past the address range
\* leaves room behind it for a trailer that does not fit into it.
ASSUME ReadAssumption ==
    /\ U32 \in Nat
    /\ SegmentHeaders \subseteq [load : 0 .. U32 - 1, len : 0 .. U32 - 1]
    /\ Headers \subseteq [magic : BOOLEAN, count : 0 .. 255, entry : 0 .. U32 - 1,
                          chip : BOOLEAN, hash : BOOLEAN]
    /\ Partitions \subseteq [offset : 0 .. U32 - 1, size : 0 .. U32 - 1]
    /\ \A p \in Partitions : \/ p.offset + p.size >= U32
                             \/ p.offset + p.size + 16 + HASH_LEN < U32
    /\ BufLen \in Nat \ {0} /\ Damages \subseteq 0 .. U32 - 1

VARIABLES
    part,       \* the partition
    verify,     \* how much is read
    pc,         \* "call", "header", "table", "checksum", "sum", "hash" or "done"
    header,     \* the header read
    segments,   \* the segment table so far: [load, len, data_offset]
    cursor,     \* where the next segment header is
    entryOK,    \* an executable segment holds the entry point
    summed,     \* the data bytes XORed into the checksum
    done,       \* how many bytes of each segment that is
    hashed,     \* the bytes fed to the hasher
    verdict     \* what validate returned, "none" before

\* History variables: the segment judged last, the byte damaged if any.
VARIABLES judged, damaged

table == <<header, segments, cursor, entryOK, judged>>
data == <<summed, done, hashed, damaged>>
vars == <<part, verify, pc, table, data, verdict>>

NoHeader == [magic |-> FALSE, count |-> 0, entry |-> 0, chip |-> FALSE, hash |-> FALSE]
Segment(load, len, data_offset) == [load |-> load, len |-> len, data_offset |-> data_offset]
NoSegment == Segment(0, 0, 0)
Verdicts == {"none", "ok", "Read", "BadMagic", "BadSegmentCount", "BadChip",
             "SegmentOutsidePartition", "BadLoadRange", "Misaligned", "OverlapsBootloader",
             "BadEntry", "Truncated", "BadChecksum", "HashMissing", "BadHash"}

Init ==
    /\ part \in Partitions
    /\ verify \in {"Structure", "Checksum", "Full"}
    /\ pc = "call"
    /\ header = NoHeader /\ segments = << >> /\ cursor = 0 /\ entryOK = FALSE
    /\ summed = {} /\ done = << >> /\ hashed = << >>
    /\ verdict = "none"
    /\ judged = NoSegment /\ damaged = {}

Return(v) == pc' = "done" /\ verdict' = v

\* Unchecked u32 addition.
Add(a, b) == IF a + b < U32 THEN a + b ELSE a + b - U32

PartEnd == part.offset + part.size
Within(range, addr) == range.start <= addr /\ addr < range.end

-------------------------------------------------------------------------------
(***************************************************************************)
(* The header.                                                             *)
(***************************************************************************)
Call ==
    /\ pc = "call"
    /\ IF PartEnd >= U32 THEN Return("Truncated") ELSE pc' = "header" /\ UNCHANGED verdict
    /\ UNCHANGED <<part, verify, table, data>>

HeaderVerdict(h) ==
    IF ~h.magic THEN "BadMagic"
    ELSE IF h.count = 0 \/ h.count > MAX_SEGMENTS THEN "BadSegmentCount"
    ELSE IF ~h.chip THEN "BadChip"
    ELSE "ok"

ReadHeader(h) ==
    /\ pc = "header"
    /\ header' = h
    /\ cursor' = Add(part.offset, HEADER_LEN)
    /\ IF HeaderVerdict(h) = "ok" THEN pc' = "table" /\ UNCHANGED verdict
       ELSE Return(HeaderVerdict(h))
    /\ UNCHANGED <<part, verify, segments, entryOK, judged, data>>

-------------------------------------------------------------------------------
(***************************************************************************)
(* The segment table.                                                      *)
(***************************************************************************)

\* Empty segments and padding, whose load address is 0, are loaded nowhere.
Loaded(seg) == seg.len > 0 /\ seg.load # 0

Home(seg) == {r \in Regions : Within(Ranges[r], seg.load)}

\* In data-bus terms, where the bootloader's window is.
RamTarget(seg) ==
    IF Within(Ranges["iram"], seg.load) THEN seg.load - SRAM_ALIAS_OFFSET ELSE seg.load

\* Mutants: a segment in IRAM is compared under its IRAM address; one that ends
\* where the window begins is refused.
OverlapsUnaliased(seg) ==
    /\ seg.load < Ranges["boot_window"].end
    /\ Add(seg.load, seg.len) > Ranges["boot_window"].start
OverlapsTouching(seg) ==
    /\ RamTarget(seg) < Ranges["boot_window"].end
    /\ Add(RamTarget(seg), seg.len) >= Ranges["boot_window"].start

Overlaps(seg) ==
    /\ RamTarget(seg) < Ranges["boot_window"].end
    /\ Add(RamTarget(seg), seg.len) > Ranges["boot_window"].start

\* Of the checked addition nothing is left but its result: past the end of the
\* address range is past the end of every region.
CheckSegment(seg) ==
    IF \A r \in Home(seg) : seg.load + seg.len > Ranges[r].end THEN "BadLoadRange"
    ELSE IF Home(seg) \subseteq FlashMapped
         THEN IF seg.load % MMU_PAGE = seg.data_offset % MMU_PAGE THEN "ok" ELSE "Misaligned"
    ELSE IF Home(seg) \subseteq Sram /\ Overlaps(seg) THEN "OverlapsBootloader"
    ELSE "ok"

\* Mutant: the end of a segment is computed as the other offsets are.
DataEndWrapping(seg) == Add(seg.data_offset, seg.len)

\* A checked addition, too: past the end of the address range is past the end of
\* the partition.
DataEnd(seg) == seg.data_offset + seg.len

SegmentVerdict(seg) ==
    IF DataEnd(seg) > PartEnd THEN "SegmentOutsidePartition"
    ELSE IF Loaded(seg) THEN CheckSegment(seg)
    ELSE "ok"

\* Mutant: one past the end of a segment is in it.
HoldsEntryInclusive(seg) ==
    /\ Loaded(seg)
    /\ Home(seg) \cap {"irom", "iram"} # {}
    /\ seg.load <= header.entry /\ header.entry <= seg.load + seg.len

HoldsEntry(seg) ==
    /\ Loaded(seg)
    /\ Home(seg) \cap {"irom", "iram"} # {}
    /\ seg.load <= header.entry /\ header.entry < seg.load + seg.len

ReadSegment(raw) ==
    /\ pc = "table"
    /\ Len(segments) < header.count
    /\ judged' = Segment(raw.load, raw.len, Add(cursor, SEGMENT_HEADER_LEN))
    /\ IF SegmentVerdict(judged') = "ok"
       THEN /\ segments' = Append(segments, judged')
            /\ cursor' = DataEnd(judged')
            /\ entryOK' = (entryOK \/ HoldsEntry(judged'))
            /\ UNCHANGED <<pc, verdict>>
       ELSE /\ Return(SegmentVerdict(judged'))
            /\ UNCHANGED <<segments, cursor, entryOK>>
    /\ UNCHANGED <<part, verify, header, data>>

\* The checksum is the last byte of a block of 16, the hash is behind it.
ChecksumAt ==
    LET rel == cursor - part.offset
    IN  Add(Add(part.offset, rel), 15 - (rel % 16))
End == Add(Add(ChecksumAt, 1), IF header.hash THEN HASH_LEN ELSE 0)

CloseTable ==
    /\ pc = "table"
    /\ Len(segments) = header.count
    /\ IF ~entryOK THEN Return("BadEntry")
       ELSE IF End > PartEnd THEN Return("Truncated")
       ELSE IF verify = "Structure" THEN Return("ok")
       ELSE pc' = "checksum" /\ UNCHANGED verdict
    /\ UNCHANGED <<part, verify, table, data>>

-------------------------------------------------------------------------------
(***************************************************************************)
(* The checksum.                                                           *)
(***************************************************************************)
Chunk(from, n) == from .. from + n - 1
DataBytes == UNION {Chunk(segments[i].data_offset, segments[i].len) : i \in DOMAIN segments}

\* From here on the content matters: which byte of the image is not what it was
\* when checksum and hash were computed.
ReadChecksum(d) ==
    /\ pc = "checksum"
    /\ damaged' = d
    /\ done' = [i \in DOMAIN segments |-> 0]
    /\ pc' = "sum"
    /\ UNCHANGED <<part, verify, table, summed, hashed, verdict>>

Unsummed == {i \in DOMAIN segments : done[i] < segments[i].len}

\* XOR: a byte that is added twice is not in the sum.
Xor(sum, bytes) == (sum \ bytes) \cup (bytes \ sum)

\* Mutant: a whole buffer is summed at the end of a segment, too.
SumChunkWhole ==
    /\ pc = "sum"
    /\ \E i \in Unsummed :
         /\ \A j \in Unsummed : i <= j
         /\ summed' = Xor(summed, Chunk(segments[i].data_offset + done[i], BufLen))
         /\ done' = [done EXCEPT ![i] = @ + BufLen]
    /\ UNCHANGED <<part, verify, pc, table, hashed, damaged, verdict>>

SumChunk ==
    /\ pc = "sum"
    /\ \E i \in Unsummed :
         /\ \A j \in Unsummed : i <= j
         /\ LET n == Min({segments[i].len - done[i], BufLen})
            IN  /\ summed' = Xor(summed, Chunk(segments[i].data_offset + done[i], n))
                /\ done' = [done EXCEPT ![i] = @ + n]
    /\ UNCHANGED <<part, verify, pc, table, hashed, damaged, verdict>>

\* The byte that was read is the XOR of the data as it was.
ChecksumMatches == summed = DataBytes /\ damaged \cap (DataBytes \cup {ChecksumAt}) = {}

\* Mutant: an image without a hash is as good as verified.
SumVerdictNoHash ==
    /\ pc = "sum"
    /\ Unsummed = {}
    /\ IF ~ChecksumMatches THEN Return("BadChecksum")
       ELSE IF verify = "Checksum" \/ ~header.hash THEN Return("ok")
       ELSE pc' = "hash" /\ UNCHANGED verdict
    /\ UNCHANGED <<part, verify, table, data>>

SumVerdict ==
    /\ pc = "sum"
    /\ Unsummed = {}
    /\ IF ~ChecksumMatches THEN Return("BadChecksum")
       ELSE IF verify = "Checksum" THEN Return("ok")
       ELSE IF ~header.hash THEN Return("HashMissing")
       ELSE pc' = "hash" /\ UNCHANGED verdict
    /\ UNCHANGED <<part, verify, table, data>>

-------------------------------------------------------------------------------
(***************************************************************************)
(* The hash, over everything up to and with the checksum.                  *)
(***************************************************************************)
At == part.offset + Len(hashed)

\* Mutant: a chunk that is not a whole buffer is not read.
HashChunkWhole ==
    /\ pc = "hash"
    /\ At < ChecksumAt + 1
    /\ hashed' = IF ChecksumAt + 1 - At < BufLen THEN hashed
                 ELSE hashed \o [k \in 1 .. BufLen |-> At + k - 1]
    /\ UNCHANGED <<part, verify, pc, table, summed, done, damaged, verdict>>

HashChunk ==
    /\ pc = "hash"
    /\ At < ChecksumAt + 1
    /\ LET n == Min({ChecksumAt + 1 - At, BufLen})
       IN  hashed' = hashed \o [k \in 1 .. n |-> At + k - 1]
    /\ UNCHANGED <<part, verify, pc, table, summed, done, damaged, verdict>>

\* The hash that was read is that of the image as it was.
HashMatches ==
    /\ hashed = [k \in 1 .. ChecksumAt + 1 - part.offset |-> part.offset + k - 1]
    /\ damaged = {}

ReadHash ==
    /\ pc = "hash"
    /\ At >= ChecksumAt + 1
    /\ Return(IF HashMatches THEN "ok" ELSE "BadHash")
    /\ UNCHANGED <<part, verify, table, data>>

-------------------------------------------------------------------------------
\* Where the next thing is a read, it may fail.
Reading ==
    \/ pc \in {"header", "checksum", "hash"}
    \/ pc = "table" /\ Len(segments) < header.count
    \/ pc = "sum" /\ Unsummed # {}

ReadFails ==
    /\ Reading
    /\ Return("Read")
    /\ UNCHANGED <<part, verify, table, data>>

Step ==
    \/ Call
    \/ \E h \in Headers : ReadHeader(h)
    \/ \E raw \in SegmentHeaders : ReadSegment(raw)
    \/ CloseTable
    \/ \E d \in {{}} \cup {{a} : a \in Damages \cap (part.offset .. End - 1)} : ReadChecksum(d)
    \/ SumChunk
    \/ SumVerdict
    \/ HashChunk
    \/ ReadHash

Next == Step \/ ReadFails

\* A call runs until it returns; a read that does not fail returns, too.
Spec == Init /\ [][Next]_vars /\ WF_vars(Step)

-------------------------------------------------------------------------------
TypeOK ==
    /\ part \in Partitions
    /\ verify \in {"Structure", "Checksum", "Full"}
    /\ pc \in {"call", "header", "table", "checksum", "sum", "hash", "done"}
    /\ header \in Headers \cup {NoHeader}
    /\ segments \in Seq([load : 0 .. U32 - 1, len : 0 .. U32 - 1, data_offset : 0 .. U32 - 1])
    /\ cursor \in 0 .. U32 - 1
    /\ entryOK \in BOOLEAN
    /\ verdict \in Verdicts
    /\ verdict = "none" <=> pc # "done"

\* Every offset is the one the format of an image gives, in numbers that do not
\* wrap: the segments one behind the other, each behind its header, the first
\* behind that of the image; then padding up to the last byte of a block of 16,
\* which is the checksum, and the hash. Of the additions of image.rs:162-196 only
\* line 170 is checked; a wrap in any other would show here as a difference.
OffsetsExact ==
    /\ \A i \in DOMAIN segments :
         segments[i].data_offset =
             SEGMENT_HEADER_LEN + IF i = 1 THEN part.offset + HEADER_LEN
                                  ELSE segments[i - 1].data_offset + segments[i - 1].len
    /\ pc \in {"table", "checksum", "sum", "hash"} =>
         cursor = IF segments = << >> THEN part.offset + HEADER_LEN
                  ELSE LET last == segments[Len(segments)] IN last.data_offset + last.len
    /\ pc \in {"checksum", "sum", "hash"} \/ verdict = "ok" =>
         /\ ChecksumAt \in cursor .. cursor + 15
         /\ (ChecksumAt + 1 - part.offset) % 16 = 0
         /\ End = ChecksumAt + 1 + IF header.hash THEN HASH_LEN ELSE 0

\* What a segment that is loaded must satisfy, address by address: one region
\* holds all of it, what is mapped has its page offset, and what is copied to
\* SRAM, by either bus, leaves the window of the running bootloader alone.
Addresses(seg) == seg.load .. seg.load + seg.len - 1
BusAddress(r, a) == IF r = "iram" THEN a - SRAM_ALIAS_OFFSET ELSE a

LoadsSafely(seg) ==
    \E r \in Regions :
        /\ \A a \in Addresses(seg) : Within(Ranges[r], a)
        /\ r \in FlashMapped => seg.load % MMU_PAGE = seg.data_offset % MMU_PAGE
        /\ r \in Sram => \A a \in Addresses(seg) : ~Within(Ranges["boot_window"], BusAddress(r, a))

\* "A bad image must never be able to overwrite the bootloader that is loading
\* it" (image.rs:8): every segment the walk accepts loads safely.
BootloaderUntouched ==
    \A i \in DOMAIN segments : Loaded(segments[i]) => LoadsSafely(segments[i])

\* "... or make it jump into the void": the entry point of an image that is
\* accepted is code that is loaded, its segments are in the partition one behind
\* the other, and a whole trailer is behind them.
EntryIsCode ==
    \E i \in DOMAIN segments, r \in {"irom", "iram"} :
        /\ Loaded(segments[i])
        /\ header.entry \in Addresses(segments[i])
        /\ \A a \in Addresses(segments[i]) : Within(Ranges[r], a)

DataInOrder ==
    /\ Len(segments) = header.count
    /\ \A i \in DOMAIN segments :
         /\ part.offset + HEADER_LEN + SEGMENT_HEADER_LEN <= segments[i].data_offset
         /\ segments[i].data_offset + segments[i].len <= ChecksumAt
    /\ \A i, j \in DOMAIN segments :
         i < j => segments[i].data_offset + segments[i].len + SEGMENT_HEADER_LEN
                    <= segments[j].data_offset

TrailerFits ==
    /\ (ChecksumAt + 1 - part.offset) % 16 = 0
    /\ ChecksumAt + 1 + (IF header.hash THEN HASH_LEN ELSE 0) <= PartEnd

AcceptedIsWhole == verdict = "ok" => EntryIsCode /\ DataInOrder /\ TrailerFits

\* A segment table is refused for no other reason than one that is there: the
\* bounds of segments, regions, window and partition are exact. An entry point is
\* refused only where no code is loaded, an end only where the one place for the
\* checksum leaves a trailer that does not fit.
RefusedForCause ==
    /\ verdict = "SegmentOutsidePartition" =>
         judged.data_offset + judged.len > PartEnd
    /\ verdict \in {"BadLoadRange", "Misaligned", "OverlapsBootloader"} =>
         Loaded(judged) /\ ~LoadsSafely(judged)
    /\ verdict = "BadEntry" => ~EntryIsCode
    /\ verdict = "Truncated" =>
         \/ PartEnd >= U32
         \/ \A c \in cursor .. cursor + 15 :
              (c + 1 - part.offset) % 16 = 0 =>
                  c + 1 + (IF header.hash THEN HASH_LEN ELSE 0) > PartEnd

\* A flipped byte is caught where the level of verification promises it
\* (image.rs:55-62): in data or checksum by Checksum, anywhere by Full.
DamageCaught ==
    verdict = "ok" =>
        /\ verify # "Structure" => damaged \cap (DataBytes \cup {ChecksumAt}) = {}
        /\ verify = "Full" => damaged = {}

\* An image without a flipped byte is not refused for its checksum or its hash:
\* the chunks cover every byte once, whatever the length of a segment.
IntactAccepted ==
    verdict \in {"BadChecksum", "BadHash"} => damaged # {}

\* validate returns, whatever the flash holds.
Terminates == <>(pc = "done")
===============================================================================
