------------------------- MODULE ImageValidateProofs --------------------------
(***************************************************************************)
(* Theorems about the image validator, for every memory map, partition,    *)
(* header, segment header and size of the read buffer.                     *)
(***************************************************************************)
EXTENDS ImageValidate, SequenceTheorems, FiniteSetTheorems, TLAPS

-------------------------------------------------------------------------------
(***************************************************************************)
(* The inductive invariant.                                                *)
(***************************************************************************)
Ends(i) == segments[i].data_offset + segments[i].len

\* The segments follow each other, header by header, and the cursor them.
Layout ==
    /\ segments = << >> => cursor \in {0, part.offset + HEADER_LEN}
    /\ segments # << >> => cursor = Ends(Len(segments))
    /\ \A i \in DOMAIN segments :
         /\ segments[i].data_offset =
                SEGMENT_HEADER_LEN + IF i = 1 THEN part.offset + HEADER_LEN ELSE Ends(i - 1)
         /\ part.offset + HEADER_LEN + SEGMENT_HEADER_LEN <= segments[i].data_offset
         /\ Ends(i) <= cursor
         /\ Ends(i) <= PartEnd
    /\ \A i, j \in DOMAIN segments :
         i < j => Ends(i) + SEGMENT_HEADER_LEN <= segments[j].data_offset

\* What is known at each point of the call.
Progress ==
    /\ pc \in {"call", "header"} => segments = << >> /\ ~entryOK
    /\ pc \notin {"call", "done"} => PartEnd < U32
    /\ pc \in {"table", "checksum", "sum", "hash"} =>
         /\ header.count \in 1 .. MAX_SEGMENTS
         /\ Len(segments) <= header.count
         /\ segments = << >> => cursor = part.offset + HEADER_LEN
    /\ pc \in {"checksum", "sum", "hash"} \/ verdict = "ok" =>
         /\ PartEnd < U32
         /\ header.count \in 1 .. MAX_SEGMENTS
         /\ Len(segments) = header.count
         /\ entryOK
         /\ End <= PartEnd
    /\ verify = "Structure" => pc \notin {"checksum", "sum", "hash"}

EntryFound == entryOK <=> \E i \in DOMAIN segments : HoldsEntry(segments[i])

TableInv == TypeOK /\ Layout /\ Progress /\ EntryFound /\ BootloaderUntouched
-------------------------------------------------------------------------------
(***************************************************************************)
(* Arithmetic and the memory map.                                          *)
(***************************************************************************)
SegType == [load : 0 .. U32 - 1, len : 0 .. U32 - 1, data_offset : 0 .. U32 - 1]

\* Bounds of the partition and of what is read.
LEMMA PartType ==
    ASSUME TypeOK
    PROVE  /\ part.offset \in Nat /\ part.size \in Nat
           /\ part.offset < U32
           /\ PartEnd = part.offset + part.size
           /\ PartEnd < U32 => PartEnd + 48 < U32
           /\ U32 \in Nat
  <1>1. part \in [offset : 0 .. U32 - 1, size : 0 .. U32 - 1] /\ U32 \in Nat
    BY ReadAssumption DEF TypeOK
  <1>2. part.offset + part.size >= U32 \/ part.offset + part.size + 16 + HASH_LEN < U32
    BY ReadAssumption DEF TypeOK
  <1> QED BY <1>1, <1>2 DEF PartEnd, HASH_LEN

\* A region a load address lies in is the only one.
LEMMA OneHome ==
    ASSUME NEW seg \in SegType, NEW r \in Home(seg)
    PROVE  /\ Home(seg) = {r}
           /\ \A q \in Regions, a \in Nat :
                Within(Ranges[r], a) /\ Within(Ranges[q], a) => q = r
           /\ Ranges[r].start \in Nat /\ Ranges[r].end \in Nat
           /\ Ranges[r].start <= seg.load /\ seg.load < Ranges[r].end
           /\ Ranges[r].end < U32
  <1>1. r \in Regions /\ \A q \in Regions : /\ Ranges[q].start \in 0 .. U32 - 1
                                            /\ Ranges[q].end \in 0 .. U32 - 1
    BY MapAssumption DEF Home
  <1>2. seg.load \in Nat
    BY DEF SegType
  <1>3. \A q \in Regions, a \in Nat : Within(Ranges[r], a) /\ Within(Ranges[q], a) => q = r
    BY <1>1, MapAssumption DEF Within
  <1>4. Within(Ranges[r], seg.load)
    BY DEF Home
  <1>5. Home(seg) = {r}
    BY <1>2, <1>3, <1>4 DEF Home
  <1> QED BY <1>1, <1>3, <1>4, <1>5, ReadAssumption DEF Within

\* check_segment decides exactly whether a segment loads safely.
LEMMA CheckSegmentSound ==
    ASSUME NEW seg \in SegType, Loaded(seg), CheckSegment(seg) = "ok"
    PROVE  LoadsSafely(seg)
  <1>0. seg.load \in Nat /\ seg.len \in Nat /\ seg.len > 0
    BY DEF SegType, Loaded
  <1>1. PICK r \in Home(seg) : ~(seg.load + seg.len > Ranges[r].end)
    BY DEF CheckSegment
  <1>2. /\ Home(seg) = {r} /\ r \in Regions
        /\ Ranges[r].start \in Nat /\ Ranges[r].end \in Nat
        /\ Ranges[r].start <= seg.load /\ Ranges[r].end < U32
    BY OneHome DEF Home
  <1>3. seg.load + seg.len <= Ranges[r].end
    BY <1>0, <1>1, <1>2
  <1>4. \A a \in Addresses(seg) : Within(Ranges[r], a)
    BY <1>0, <1>2, <1>3 DEF Addresses, Within
  <1>5. r \in FlashMapped => seg.load % MMU_PAGE = seg.data_offset % MMU_PAGE
    BY <1>1, <1>2 DEF CheckSegment
  <1>6. ASSUME r \in Sram, NEW a \in Addresses(seg)
        PROVE  ~Within(Ranges["boot_window"], BusAddress(r, a))
    <2>1. ~Overlaps(seg)
      BY <1>1, <1>2, <1>6 DEF CheckSegment, FlashMapped, Sram
    <2>2. /\ Ranges["boot_window"].start \in Nat /\ Ranges["boot_window"].end \in Nat
          /\ SRAM_ALIAS_OFFSET \in Nat /\ SRAM_ALIAS_OFFSET <= Ranges["iram"].start
      BY MapAssumption DEF Regions, Sram, FlashMapped
    <2>3. CASE r = "iram"
      <3>1. RamTarget(seg) = seg.load - SRAM_ALIAS_OFFSET /\ BusAddress(r, a) = a - SRAM_ALIAS_OFFSET
        BY <1>2, <2>3 DEF RamTarget, BusAddress, Home
      <3>2. Add(RamTarget(seg), seg.len) = seg.load - SRAM_ALIAS_OFFSET + seg.len
        BY <1>0, <1>2, <1>3, <2>2, <3>1, ReadAssumption DEF Add
      <3> QED BY <1>0, <1>6, <2>1, <2>2, <3>1, <3>2 DEF Overlaps, Within, Addresses
    <2>4. CASE r # "iram"
      <3>1. RamTarget(seg) = seg.load /\ BusAddress(r, a) = a
        BY <1>2, <2>4 DEF RamTarget, BusAddress, Home, Regions, Sram
      <3>2. Add(RamTarget(seg), seg.len) = seg.load + seg.len
        BY <1>0, <1>2, <1>3, <3>1, ReadAssumption DEF Add
      <3> QED BY <1>0, <1>6, <2>1, <2>2, <3>1, <3>2 DEF Overlaps, Within, Addresses
    <2> QED BY <2>3, <2>4
  <1> QED BY <1>2, <1>4, <1>5, <1>6 DEF LoadsSafely
LEMMA CheckSegmentExact ==
    ASSUME NEW seg \in SegType, Loaded(seg), CheckSegment(seg) # "ok"
    PROVE  ~LoadsSafely(seg)
  <1> SUFFICES ASSUME NEW r \in Regions,
                      \A a \in Addresses(seg) : Within(Ranges[r], a),
                      r \in FlashMapped => seg.load % MMU_PAGE = seg.data_offset % MMU_PAGE,
                      r \in Sram => \A a \in Addresses(seg) :
                                       ~Within(Ranges["boot_window"], BusAddress(r, a))
               PROVE  FALSE
    BY DEF LoadsSafely
  <1>0. seg.load \in Nat /\ seg.len \in Nat /\ seg.len > 0
    BY DEF SegType, Loaded
  <1>1. seg.load \in Addresses(seg) /\ seg.load + seg.len - 1 \in Addresses(seg)
    BY <1>0 DEF Addresses
  <1>2. r \in Home(seg)
    BY <1>1 DEF Home
  <1>3. /\ Home(seg) = {r}
        /\ Ranges[r].start \in Nat /\ Ranges[r].end \in Nat
        /\ Ranges[r].start <= seg.load /\ Ranges[r].end < U32
    BY <1>2, OneHome
  <1>4. seg.load + seg.len <= Ranges[r].end
    BY <1>0, <1>1, <1>3 DEF Within
  <1>5. ~(\A q \in Home(seg) : seg.load + seg.len > Ranges[q].end)
    BY <1>0, <1>2, <1>3, <1>4
  <1>6. CASE r \in Sram /\ Overlaps(seg)
    <2>2. /\ Ranges["boot_window"].start \in Nat /\ Ranges["boot_window"].end \in Nat
          /\ Ranges["boot_window"].start < Ranges["boot_window"].end
          /\ SRAM_ALIAS_OFFSET \in Nat /\ SRAM_ALIAS_OFFSET <= Ranges["iram"].start
      BY MapAssumption DEF Regions, Sram, FlashMapped
    <2> DEFINE off == IF r = "iram" THEN SRAM_ALIAS_OFFSET ELSE 0
               t == seg.load - off
               w == Ranges["boot_window"].start
               x == IF t < w THEN w ELSE t
    <2>3. off \in Nat /\ off <= seg.load /\ RamTarget(seg) = t
      BY <1>0, <1>2, <1>3, <2>2 DEF RamTarget, Home, Regions, Sram
    <2>4. \A a \in Addresses(seg) : BusAddress(r, a) = a - off
      BY <1>0 DEF BusAddress, Addresses
    <2>5. Add(t, seg.len) = t + seg.len
      BY <1>0, <1>3, <1>4, <2>3, ReadAssumption DEF Add
    <2>6. t < Ranges["boot_window"].end /\ t + seg.len > w
      BY <1>6, <2>3, <2>5 DEF Overlaps
    <2> HIDE DEF off
    <2>7. /\ x \in Int /\ x < Ranges["boot_window"].end /\ w <= x
          /\ x + off \in Addresses(seg)
      BY <1>0, <2>2, <2>3, <2>6 DEF Addresses
    <2>8. BusAddress(r, x + off) = x
      BY <2>3, <2>4, <2>7
    <2>9. ~Within(Ranges["boot_window"], x)
      BY <1>6, <2>7, <2>8
    <2> QED BY <2>7, <2>9 DEF Within
  <1>7. CASE ~(r \in Sram /\ Overlaps(seg))
    BY <1>3, <1>5, <1>7 DEF CheckSegment
  <1> QED BY <1>6, <1>7

LEMMA SegmentsType ==
    ASSUME TypeOK
    PROVE  /\ segments \in Seq(SegType) /\ Len(segments) \in Nat
           /\ DOMAIN segments = 1 .. Len(segments)
           /\ segments # << >> => Len(segments) >= 1
           /\ \A i \in DOMAIN segments :
                /\ segments[i] \in SegType
                /\ segments[i].load \in Nat /\ segments[i].len \in Nat
                /\ segments[i].data_offset \in Nat
                /\ Ends(i) \in Nat
  <1>1. segments \in Seq(SegType)
    BY DEF TypeOK, SegType
  <1>2. /\ Len(segments) \in Nat /\ DOMAIN segments = 1 .. Len(segments)
        /\ \A i \in DOMAIN segments : segments[i] \in SegType
    BY <1>1, ElementOfSeq, LenProperties
  <1>3. segments # << >> => Len(segments) >= 1
    BY <1>1, <1>2, EmptySeq
  <1> QED BY <1>1, <1>2, <1>3 DEF SegType, Ends

\* The cursor is a header behind the partition's start at least, and leaves room for
\* a segment header below the end of the address range.
LEMMA CursorBound ==
    ASSUME TypeOK, Layout, Progress, pc \in {"table", "checksum", "sum", "hash"} \/ verdict = "ok"
    PROVE  /\ cursor \in Nat /\ part.offset + HEADER_LEN <= cursor
           /\ cursor <= PartEnd \/ cursor = part.offset + HEADER_LEN
           /\ Add(cursor, SEGMENT_HEADER_LEN) = cursor + SEGMENT_HEADER_LEN
           /\ cursor + SEGMENT_HEADER_LEN < U32
  <1>0. /\ part.offset \in Nat /\ part.size \in Nat /\ PartEnd = part.offset + part.size
        /\ PartEnd + 48 < U32 /\ U32 \in Nat
    BY PartType DEF Progress
  <1>1. cursor \in Nat
    BY <1>0 DEF TypeOK
  <1>2. CASE segments = << >>
    <2>1. cursor = part.offset + HEADER_LEN
      BY <1>2 DEF Progress, MAX_SEGMENTS
    <2> QED BY <1>0, <1>1, <2>1 DEF HEADER_LEN, SEGMENT_HEADER_LEN, Add
  <1>3. CASE segments # << >>
    <2>1. Len(segments) \in DOMAIN segments /\ 1 \in DOMAIN segments
      BY <1>3, SegmentsType
    <2>2. cursor <= PartEnd
      BY <1>3, <2>1 DEF Layout
    <2>3. /\ segments[1].data_offset = SEGMENT_HEADER_LEN + (part.offset + HEADER_LEN)
          /\ Ends(1) <= cursor
      BY <2>1 DEF Layout
    <2>4. segments[1].data_offset \in Nat /\ segments[1].len \in Nat
      BY <2>1, SegmentsType
    <2> QED BY <1>0, <1>1, <2>2, <2>3, <2>4 DEF HEADER_LEN, SEGMENT_HEADER_LEN, Add, Ends
  <1> QED BY <1>2, <1>3

LEMMA Block16 ==
    ASSUME NEW o \in Nat, NEW r \in Nat
    PROVE  /\ r % 16 \in 0 .. 15
           /\ ((o + r) + (15 - (r % 16)) + 1 - o) % 16 = 0
  <1> DEFINE m == r % 16
  <1>1. m \in 0 .. 15 /\ (r - m + 16) % 16 = 0
    OBVIOUS
  <1>2. \A n \in Int : (o + r) + (15 - n) + 1 - o = r - n + 16
    OBVIOUS
  <1>3. m \in Int
    BY <1>1
  <1> HIDE DEF m
  <1>4. (o + r) + (15 - m) + 1 - o = r - m + 16
    BY <1>2, <1>3
  <1>5. ((o + r) + (15 - m) + 1 - o) % 16 = 0
    BY <1>1, <1>4
  <1> QED BY <1>1, <1>5 DEF m

LEMMA TrailerFacts ==
    ASSUME TypeOK, Layout, Progress, segments # << >>,
           pc \in {"table", "checksum", "sum", "hash"} \/ verdict = "ok"
    PROVE  /\ ChecksumAt \in Nat
           /\ cursor <= ChecksumAt /\ ChecksumAt <= cursor + 15
           /\ (ChecksumAt + 1 - part.offset) % 16 = 0
           /\ End = ChecksumAt + 1 + (IF header.hash THEN HASH_LEN ELSE 0)
  <1>0. /\ part.offset \in Nat /\ part.size \in Nat /\ PartEnd = part.offset + part.size
        /\ PartEnd + 48 < U32 /\ U32 \in Nat
    BY PartType DEF Progress
  <1>1. cursor \in Nat /\ part.offset + 24 <= cursor /\ cursor <= PartEnd
    <2>1. Len(segments) \in DOMAIN segments
      BY SegmentsType
    <2>2. cursor <= PartEnd
      BY <2>1 DEF Layout
    <2> QED BY <2>2, CursorBound DEF HEADER_LEN
  <1>2. PICK r \in Nat : r = cursor - part.offset /\ cursor = part.offset + r
    BY <1>0, <1>1
  <1>3. Add(part.offset, cursor - part.offset) = cursor
    BY <1>0, <1>1 DEF Add
  <1>4. ChecksumAt = Add(cursor, 15 - (r % 16))
    BY <1>2, <1>3 DEF ChecksumAt
  <1>5. r % 16 \in 0 .. 15
    BY Block16, <1>0
  <1>6. ChecksumAt = cursor + (15 - (r % 16))
    BY <1>0, <1>1, <1>4, <1>5 DEF Add
  <1>7. ChecksumAt \in Nat /\ cursor <= ChecksumAt /\ ChecksumAt <= cursor + 15
    BY <1>1, <1>5, <1>6
  <1>8. (ChecksumAt + 1 - part.offset) % 16 = 0
    BY <1>0, <1>2, <1>6, Block16
  <1>9. End = ChecksumAt + 1 + (IF header.hash THEN HASH_LEN ELSE 0)
    BY <1>0, <1>1, <1>7 DEF End, Add, HASH_LEN
  <1> QED BY <1>7, <1>8, <1>9
-------------------------------------------------------------------------------
(***************************************************************************)
(* The table.                                                              *)
(***************************************************************************)
LEMMA TableInit == Init => TableInv
  <1> SUFFICES ASSUME Init PROVE TableInv
    OBVIOUS
  <1>1. TypeOK
    <2>1. 0 \in 0 .. U32 - 1
      BY ReadAssumption, MapAssumption DEF Regions, FlashMapped, Sram
    <2> QED BY <2>1, EmptySeq DEF Init, TypeOK, Verdicts
  <1>2. Layout /\ Progress /\ EntryFound /\ BootloaderUntouched
    BY DEF Init, Layout, Progress, EntryFound, BootloaderUntouched
  <1> QED BY <1>1, <1>2 DEF TableInv

\* What is said of the table alone stays true while the table does.
LEMMA TableKept ==
    ASSUME TableInv, UNCHANGED <<part, verify, table>>, TypeOK', Progress'
    PROVE  TableInv'
  BY DEF TableInv, table, Layout, EntryFound, BootloaderUntouched, Ends, PartEnd, HoldsEntry

LEMMA VerdictsListed ==
    /\ \A h : HeaderVerdict(h) \in Verdicts \ {"none"}
    /\ \A seg : SegmentVerdict(seg) \in Verdicts \ {"none"}
  BY DEF HeaderVerdict, SegmentVerdict, CheckSegment, Verdicts

\* A segment that passes is one more in line, and loads safely.
LEMMA TableSegment ==
    ASSUME TableInv, NEW raw \in SegmentHeaders, ReadSegment(raw)
    PROVE  /\ TableInv'
           /\ judged' \in SegType /\ judged'.len = raw.len
           /\ judged'.data_offset = cursor + SEGMENT_HEADER_LEN
  <1>0. /\ pc = "table" /\ raw.load \in 0 .. U32 - 1 /\ raw.len \in 0 .. U32 - 1
        /\ TypeOK /\ Layout /\ Progress /\ EntryFound /\ BootloaderUntouched
        /\ UNCHANGED <<part, verify, header>>
    BY ReadAssumption DEF ReadSegment, TableInv
  <1>1. /\ part.offset \in Nat /\ PartEnd \in Nat /\ PartEnd < U32 /\ U32 \in Nat
        /\ part.offset + HEADER_LEN \in Nat
    BY <1>0, PartType DEF Progress, HEADER_LEN
  <1>2. /\ cursor \in Nat /\ part.offset + HEADER_LEN <= cursor
        /\ Add(cursor, SEGMENT_HEADER_LEN) = cursor + SEGMENT_HEADER_LEN
        /\ cursor + SEGMENT_HEADER_LEN < U32
    BY <1>0, CursorBound
  <1> DEFINE new == judged'
  <1>3. /\ new = Segment(raw.load, raw.len, cursor + SEGMENT_HEADER_LEN)
        /\ new.load = raw.load /\ new.len = raw.len
        /\ new.data_offset = cursor + SEGMENT_HEADER_LEN
        /\ new \in SegType
    BY <1>0, <1>1, <1>2 DEF ReadSegment, Segment, SegType, SEGMENT_HEADER_LEN
  <1>4. CASE SegmentVerdict(new) # "ok"
    <2>1. /\ UNCHANGED <<part, verify, header, segments, cursor, entryOK>>
          /\ pc' = "done" /\ verdict' = SegmentVerdict(new)
      BY <1>0, <1>4 DEF ReadSegment, Return
    <2>2. TypeOK' /\ Progress'
      BY <1>0, <1>4, <2>1, VerdictsListed DEF TypeOK, Progress
    <2> HIDE DEF new
    <2> QED BY <1>0, <1>3, <2>1, <2>2
            DEF TableInv, Layout, EntryFound, BootloaderUntouched, Ends, PartEnd, HoldsEntry, new
  <1>5. CASE SegmentVerdict(new) = "ok"
    <2>1. /\ segments' = Append(segments, new)
          /\ cursor' = new.data_offset + raw.len
          /\ entryOK' = (entryOK \/ HoldsEntry(new))
          /\ UNCHANGED <<pc, verdict>>
      BY <1>3, <1>5 DEF ReadSegment, DataEnd
    <2> HIDE DEF new
    <2>2. cursor' <= PartEnd /\ cursor' \in Nat /\ cursor <= new.data_offset
          /\ new.data_offset <= cursor'
      BY <1>0, <1>1, <1>2, <1>3, <1>5, <2>1 DEF SegmentVerdict, DataEnd, SEGMENT_HEADER_LEN
    <2>3. /\ segments \in Seq(SegType) /\ Len(segments) \in Nat
          /\ DOMAIN segments = 1 .. Len(segments)
      BY <1>0, SegmentsType
    <2>4. /\ segments' \in Seq(SegType)
          /\ Len(segments') = Len(segments) + 1
          /\ DOMAIN segments' = 1 .. Len(segments) + 1
          /\ \A i \in DOMAIN segments : segments'[i] = segments[i]
          /\ segments'[Len(segments) + 1] = new
          /\ segments' # << >>
      BY <1>3, <2>1, <2>3, AppendProperties
    <2>5. TypeOK'
      BY <1>0, <1>1, <2>1, <2>2, <2>4 DEF TypeOK, SegType
    <2>6. Len(segments) < header.count
      BY DEF ReadSegment
    <2>7. Progress'
      <3>1. verdict = "none" /\ verdict' = "none" /\ pc' = "table"
        BY <1>0, <2>1 DEF TypeOK
      <3>2. header.count \in 1 .. MAX_SEGMENTS
        BY <1>0 DEF Progress
      <3>3. Len(segments') <= header.count
        <4>1. header.count \in Nat
          BY <3>2 DEF MAX_SEGMENTS
        <4>2. Len(segments) \in Nat /\ Len(segments') = Len(segments) + 1
          BY <2>3, <2>4
        <4> QED BY <2>6, <4>1, <4>2
      <3> QED BY <1>0, <1>1, <2>4, <3>1, <3>2, <3>3 DEF Progress, PartEnd
    <2> PICK n \in Nat : n = Len(segments)
      BY <2>3
    <2>8. Layout'
      <3>1. \A i \in DOMAIN segments : Ends(i)' = Ends(i)
        BY <2>4 DEF Ends
      <3>2. Ends(n + 1)' = cursor' /\ Len(segments') = n + 1
        BY <1>3, <2>1, <2>4 DEF Ends
      <3>3. PartEnd' = PartEnd
        BY <1>0 DEF PartEnd
      <3>4. /\ segments = << >> => cursor = part.offset + HEADER_LEN
            /\ segments # << >> => cursor = Ends(Len(segments))
        BY <1>0 DEF Progress, Layout
      <3>5. segments = << >> <=> Len(segments) = 0
        BY <2>3, EmptySeq
      <3>6. \A i \in DOMAIN segments : Ends(i) <= cursor /\ Ends(i) <= PartEnd /\ Ends(i) \in Nat
        BY <1>0, SegmentsType DEF Layout
      <3>7. ASSUME NEW i \in DOMAIN segments'
            PROVE  /\ segments'[i].data_offset =
                        SEGMENT_HEADER_LEN + IF i = 1 THEN part.offset + HEADER_LEN ELSE Ends(i - 1)'
                   /\ part.offset + HEADER_LEN + SEGMENT_HEADER_LEN <= segments'[i].data_offset
                   /\ Ends(i)' <= cursor'
                   /\ Ends(i)' <= PartEnd
        <4>1. CASE i \in DOMAIN segments
          <5>1. segments[i].data_offset =
                  SEGMENT_HEADER_LEN + IF i = 1 THEN part.offset + HEADER_LEN ELSE Ends(i - 1)
            BY <1>0, <4>1 DEF Layout
          <5>0. part.offset + HEADER_LEN + SEGMENT_HEADER_LEN <= segments[i].data_offset
            BY <1>0, <4>1 DEF Layout
          <5>2. i # 1 => i - 1 \in DOMAIN segments
            BY <2>3, <4>1
          <5>3. segments'[i] = segments[i] /\ Ends(i)' = Ends(i)
            BY <2>4, <3>1, <4>1
          <5>4. Ends(i) <= cursor /\ Ends(i) <= PartEnd /\ Ends(i) \in Nat
            BY <3>6, <4>1
          <5>5. Ends(i)' <= cursor'
            BY <1>2, <1>3, <2>2, <5>3, <5>4 DEF SEGMENT_HEADER_LEN
          <5> QED BY <3>1, <5>0, <5>1, <5>2, <5>3, <5>4, <5>5
        <4>2. CASE i = n + 1
          <5>1. i = 1 <=> segments = << >>
            BY <2>3, <3>5, <4>2
          <5>2. i # 1 => i - 1 \in DOMAIN segments /\ i - 1 = Len(segments)
            BY <2>3, <4>2
          <5>3. cursor = IF i = 1 THEN part.offset + HEADER_LEN ELSE Ends(i - 1)'
            BY <3>1, <3>4, <5>1, <5>2
          <5>4. segments'[i].data_offset = SEGMENT_HEADER_LEN + cursor
            BY <1>2, <1>3, <2>4, <4>2 DEF SEGMENT_HEADER_LEN
          <5>5. part.offset + HEADER_LEN + SEGMENT_HEADER_LEN <= segments'[i].data_offset
            BY <1>1, <1>2, <5>4 DEF SEGMENT_HEADER_LEN, HEADER_LEN
          <5> QED BY <2>2, <3>2, <4>2, <5>3, <5>4, <5>5
        <4> QED BY <2>3, <2>4, <4>1, <4>2
      <3>8. ASSUME NEW i \in DOMAIN segments', NEW j \in DOMAIN segments', i < j
            PROVE  Ends(i)' + SEGMENT_HEADER_LEN <= segments'[j].data_offset
        <4>1. i \in DOMAIN segments
          BY <2>3, <2>4, <3>8
        <4>2. CASE j \in DOMAIN segments
          BY <1>0, <2>4, <3>1, <3>8, <4>1, <4>2 DEF Layout
        <4>3. CASE j = n + 1
          <5>1. Ends(i)' <= cursor /\ Ends(i)' \in Nat
            BY <3>1, <3>6, <4>1
          <5>2. segments'[j].data_offset \in Nat /\ cursor <= segments'[j].data_offset
            BY <1>2, <1>3, <2>2, <2>4, <4>3 DEF SEGMENT_HEADER_LEN
          <5> QED BY <1>2, <1>3, <2>4, <4>3, <5>1, <5>2 DEF SEGMENT_HEADER_LEN
        <4> QED BY <2>3, <2>4, <4>2, <4>3
      <3> QED BY <1>0, <2>4, <3>2, <3>3, <3>7, <3>8 DEF Layout
    <2>9. EntryFound'
      <3>1. DOMAIN segments' = DOMAIN segments \cup {n + 1} /\ segments'[n + 1] = new
        BY <2>3, <2>4
      <3>2. entryOK' <=> HoldsEntry(new) \/ \E i \in DOMAIN segments : HoldsEntry(segments[i])
        BY <1>0, <2>1 DEF EntryFound, TypeOK
      <3>3. entryOK' <=> \E i \in DOMAIN segments' : HoldsEntry(segments'[i])
        BY <2>4, <3>1, <3>2
      <3> QED BY <1>0, <3>3 DEF EntryFound, HoldsEntry, Home, Loaded
    <2>10. BootloaderUntouched'
      <3>1. Loaded(new) => CheckSegment(new) = "ok"
        BY <1>5 DEF SegmentVerdict
      <3>2. Loaded(new) => LoadsSafely(new)
        BY <1>3, <3>1, CheckSegmentSound
      <3> QED BY <1>0, <2>3, <2>4, <3>2 DEF BootloaderUntouched
    <2> QED BY <1>3, <2>5, <2>7, <2>8, <2>9, <2>10 DEF TableInv, new
  <1> QED BY <1>4, <1>5

\* What is computed from the table is as stable as the table.
LEMMA TableOnly ==
    ASSUME UNCHANGED <<part, verify, table>>
    PROVE  /\ PartEnd' = PartEnd /\ ChecksumAt' = ChecksumAt /\ End' = End
           /\ DataBytes' = DataBytes
           /\ UNCHANGED <<part, verify, header, segments, cursor, entryOK, judged>>
  BY DEF table, PartEnd, ChecksumAt, End, Add, DataBytes

LEMMA TableStep == TableInv /\ [Next]_vars => TableInv'
  <1> SUFFICES ASSUME TableInv, [Next]_vars PROVE TableInv'
    OBVIOUS
  <1>0. TypeOK /\ Progress /\ Layout
    BY DEF TableInv
  <1>1. CASE Call
    <2>1. UNCHANGED <<part, verify, table>> /\ pc = "call" /\ verdict = "none"
      BY <1>0, <1>1 DEF Call, TypeOK
    <2>2. \/ PartEnd >= U32 /\ pc' = "done" /\ verdict' = "Truncated"
          \/ ~(PartEnd >= U32) /\ pc' = "header" /\ verdict' = verdict
      BY <1>1 DEF Call, Return
    <2>3. PartEnd \in Int /\ U32 \in Int
      BY <1>0, PartType
    <2>4. TypeOK' /\ Progress'
      BY <1>0, <2>1, <2>2, <2>3, TableOnly DEF TypeOK, Progress, Verdicts
    <2> QED BY <2>1, <2>4, TableKept
  <1>2. ASSUME NEW h \in Headers, ReadHeader(h) PROVE TableInv'
    <2>1. /\ UNCHANGED <<part, verify, segments, entryOK>>
          /\ pc = "header" /\ verdict = "none" /\ segments = << >> /\ ~entryOK
          /\ header' = h /\ cursor' = Add(part.offset, HEADER_LEN) /\ PartEnd < U32
      BY <1>0, <1>2 DEF ReadHeader, TypeOK, Progress
    <2>2. cursor' = part.offset + HEADER_LEN /\ cursor' \in 0 .. U32 - 1
      <3>1. /\ part.offset \in Nat /\ part.size \in Nat /\ PartEnd = part.offset + part.size
            /\ PartEnd + 48 < U32 /\ U32 \in Nat
        BY <1>0, <2>1, PartType
      <3> QED BY <2>1, <3>1 DEF Add, HEADER_LEN
    <2>3. h.count \in 0 .. 255
      BY ReadAssumption
    <2>4. \/ pc' = "table" /\ verdict' = verdict /\ h.count \in 1 .. MAX_SEGMENTS
          \/ pc' = "done" /\ verdict' = HeaderVerdict(h) /\ HeaderVerdict(h) # "ok"
      <3>1. HeaderVerdict(h) = "ok" => h.count \in 1 .. MAX_SEGMENTS
        BY <2>3 DEF HeaderVerdict, MAX_SEGMENTS
      <3> QED BY <1>2, <3>1 DEF ReadHeader, Return
    <2>5. TypeOK'
      BY <1>0, <2>1, <2>2, <2>4, VerdictsListed DEF TypeOK
    <2>6. PartEnd' = PartEnd /\ Len(segments') = 0 /\ DOMAIN segments' = {}
      BY <2>1 DEF PartEnd
    <2>7. Progress'
      BY <2>1, <2>2, <2>4, <2>6 DEF Progress, MAX_SEGMENTS
    <2>8. Layout' /\ EntryFound' /\ BootloaderUntouched'
      BY <2>1, <2>2, <2>6 DEF Layout, EntryFound, BootloaderUntouched
    <2> QED BY <2>5, <2>7, <2>8 DEF TableInv
  <1>3. ASSUME NEW raw \in SegmentHeaders, ReadSegment(raw) PROVE TableInv'
    BY <1>3, TableSegment
  <1>4. CASE CloseTable
    <2>1. /\ UNCHANGED <<part, verify, table>> /\ pc = "table" /\ verdict = "none"
          /\ Len(segments) = header.count
      BY <1>0, <1>4 DEF CloseTable, TypeOK
    <2>2. PartEnd < U32 /\ header.count \in 1 .. MAX_SEGMENTS
      BY <1>0, <2>1 DEF Progress
    <2>3. End \in Int /\ PartEnd \in Int
      <3>1. segments # << >>
        BY <2>1, <2>2 DEF MAX_SEGMENTS
      <3>2. ChecksumAt \in Nat /\ End = ChecksumAt + 1 + (IF header.hash THEN HASH_LEN ELSE 0)
        BY <1>0, <2>1, <3>1, TrailerFacts
      <3>3. End \in Int
        BY <3>2 DEF HASH_LEN
      <3> QED BY <1>0, <3>3, PartType
    <2>4. \/ pc' = "done" /\ verdict' \in {"BadEntry", "Truncated"}
          \/ /\ entryOK /\ End <= PartEnd
             /\ \/ pc' = "done" /\ verdict' = "ok"
                \/ verify # "Structure" /\ pc' = "checksum" /\ verdict' = verdict
      BY <1>4, <2>3 DEF CloseTable, Return
    <2>5. TypeOK'
      BY <1>0, <2>1, <2>4, TableOnly DEF TypeOK, Verdicts
    <2>6. Progress'
      <3>1. segments = << >> => cursor = part.offset + HEADER_LEN
        BY <1>0, <2>1 DEF Progress
      <3> QED BY <2>1, <2>2, <2>4, <3>1, TableOnly DEF Progress, MAX_SEGMENTS
    <2> QED BY <2>1, <2>5, <2>6, TableKept
  <1>5. ASSUME ReadFails \/ SumVerdict \/ ReadHash \/ SumChunk \/ HashChunk
               \/ (\E d : ReadChecksum(d)) \/ UNCHANGED vars
        PROVE  TableInv'
    <2>1. UNCHANGED <<part, verify, table>>
      BY <1>5 DEF ReadFails, SumVerdict, ReadHash, SumChunk, HashChunk, ReadChecksum, vars
    <2>2. \/ pc' = pc /\ verdict' = verdict
          \/ pc # "done" /\ pc' = "done" /\ verdict' \in {"Read", "BadChecksum", "HashMissing", "BadHash"}
          \/ pc \in {"sum", "hash"} /\ pc' = "done" /\ verdict' = "ok"
          \/ pc \in {"checksum", "sum"} /\ pc' \in {"sum", "hash"} /\ verdict' = verdict
      BY <1>5 DEF ReadFails, Reading, SumVerdict, ReadHash, SumChunk, HashChunk,
                  ReadChecksum, Return, vars
    <2>3. verdict = "none" <=> pc # "done"
      BY <1>0 DEF TypeOK
    <2>4. TypeOK'
      BY <1>0, <2>1, <2>2, <2>3, TableOnly DEF TypeOK, Verdicts
    <2>5. Progress'
      BY <1>0, <2>1, <2>2, <2>3, TableOnly DEF Progress
    <2> QED BY <2>1, <2>4, <2>5, TableKept
  <1> QED BY <1>1, <1>2, <1>3, <1>4, <1>5 DEF Next, Step

LEMMA TableAlways == Spec => []TableInv
  BY TableInit, TableStep, PTL DEF Spec

-------------------------------------------------------------------------------
(***************************************************************************)
(* The theorems about the table.                                           *)
(***************************************************************************)
\* Whatever is read, the variables keep their types, and the call has returned
\* exactly when it has a verdict. That the offsets are also the right ones, and not
\* wrapped ones of the same type, is OffsetsAreExact.
THEOREM TypeCorrect == Spec => []TypeOK
  BY TableAlways, PTL DEF TableInv

LEMMA Exact == TableInv => OffsetsExact
  <1> SUFFICES ASSUME TableInv PROVE OffsetsExact
    OBVIOUS
  <1>0. TypeOK /\ Layout /\ Progress
    BY DEF TableInv
  <1>1. \A i \in DOMAIN segments :
          segments[i].data_offset =
              SEGMENT_HEADER_LEN + IF i = 1 THEN part.offset + HEADER_LEN
                                   ELSE segments[i - 1].data_offset + segments[i - 1].len
    BY <1>0 DEF Layout, Ends
  <1>2. ASSUME pc \in {"table", "checksum", "sum", "hash"}
        PROVE  cursor = IF segments = << >> THEN part.offset + HEADER_LEN
                        ELSE segments[Len(segments)].data_offset + segments[Len(segments)].len
    BY <1>0, <1>2 DEF Layout, Progress, Ends
  <1>3. ASSUME pc \in {"checksum", "sum", "hash"} \/ verdict = "ok"
        PROVE  /\ ChecksumAt \in cursor .. cursor + 15
               /\ (ChecksumAt + 1 - part.offset) % 16 = 0
               /\ End = ChecksumAt + 1 + IF header.hash THEN HASH_LEN ELSE 0
    <2>1. segments # << >>
      BY <1>0, <1>3 DEF Progress, MAX_SEGMENTS
    <2>2. /\ ChecksumAt \in Nat /\ cursor \in Nat
          /\ cursor <= ChecksumAt /\ ChecksumAt <= cursor + 15
          /\ (ChecksumAt + 1 - part.offset) % 16 = 0
          /\ End = ChecksumAt + 1 + IF header.hash THEN HASH_LEN ELSE 0
      BY <1>0, <1>3, <2>1, TrailerFacts, CursorBound
    <2> QED BY <2>2
  <1> QED BY <1>1, <1>2, <1>3 DEF OffsetsExact

\* Every offset the walk and the checks behind it use is the one the format gives
\* in numbers that do not wrap, for every partition that ReadAssumption admits.
THEOREM OffsetsAreExact == Spec => []OffsetsExact
  BY TableAlways, Exact, PTL

\* No segment the walk over the table accepts touches, by either bus, the window
\* of the running bootloader.
THEOREM BootloaderSafe == Spec => []BootloaderUntouched
  BY TableAlways, PTL DEF TableInv

LEMMA Whole == TableInv => AcceptedIsWhole
  <1> SUFFICES ASSUME TableInv, verdict = "ok" PROVE EntryIsCode /\ DataInOrder /\ TrailerFits
    BY DEF AcceptedIsWhole
  <1>0. /\ TypeOK /\ Layout /\ Progress /\ EntryFound /\ BootloaderUntouched
        /\ header.count \in 1 .. MAX_SEGMENTS /\ Len(segments) = header.count
        /\ entryOK /\ End <= PartEnd
    BY DEF TableInv, Progress
  <1>1. segments # << >>
    BY <1>0 DEF MAX_SEGMENTS
  <1>2. EntryIsCode
    <2>1. PICK i \in DOMAIN segments : HoldsEntry(segments[i])
      BY <1>0 DEF EntryFound
    <2> DEFINE seg == segments[i]
    <2>2. seg \in SegType /\ seg.load \in Nat /\ seg.len \in Nat
      BY <1>0, SegmentsType
    <2> HIDE DEF seg
    <2>3. /\ Loaded(seg) /\ Home(seg) \cap {"irom", "iram"} # {}
          /\ seg.load <= header.entry /\ header.entry < seg.load + seg.len
      BY <2>1 DEF HoldsEntry, seg
    <2>4. PICK r \in Regions : \A a \in Addresses(seg) : Within(Ranges[r], a)
      BY <1>0, <2>3 DEF BootloaderUntouched, LoadsSafely, seg
    <2>5. seg.load \in Addresses(seg)
      BY <2>2, <2>3 DEF Addresses, Loaded
    <2>6. r \in {"irom", "iram"}
      BY <2>2, <2>3, <2>4, <2>5, OneHome DEF Home
    <2>7. header.entry \in Int
      BY <1>0, ReadAssumption DEF TypeOK, NoHeader
    <2>8. header.entry \in Addresses(seg)
      BY <2>2, <2>3, <2>7 DEF Addresses
    <2> QED BY <2>3, <2>4, <2>6, <2>8 DEF EntryIsCode, seg
  <1>3. /\ ChecksumAt \in Nat /\ cursor <= ChecksumAt /\ cursor \in Nat
        /\ (ChecksumAt + 1 - part.offset) % 16 = 0
        /\ End = ChecksumAt + 1 + (IF header.hash THEN HASH_LEN ELSE 0)
    BY <1>0, <1>1, TrailerFacts, CursorBound
  <1>4. DataInOrder
    <2>1. \A i \in DOMAIN segments :
            /\ part.offset + HEADER_LEN + SEGMENT_HEADER_LEN <= segments[i].data_offset
            /\ Ends(i) \in Nat /\ Ends(i) <= cursor
      BY <1>0, SegmentsType DEF Layout
    <2>2. \A i \in DOMAIN segments : Ends(i) <= ChecksumAt
      BY <1>3, <2>1
    <2>3. \A i, j \in DOMAIN segments :
            i < j => Ends(i) + SEGMENT_HEADER_LEN <= segments[j].data_offset
      BY <1>0 DEF Layout
    <2> QED BY <1>0, <2>1, <2>2, <2>3 DEF DataInOrder, Ends
  <1>5. TrailerFits
    BY <1>0, <1>3 DEF TrailerFits
  <1> QED BY <1>2, <1>4, <1>5

\* A call that has returned does nothing more.
LEMMA Returned ==
    ASSUME TypeOK, [Next]_vars, verdict # "none"
    PROVE  UNCHANGED vars
  BY DEF TypeOK, Next, Step, Call, ReadHeader, ReadSegment, CloseTable, ReadChecksum, SumChunk,
         SumVerdict, HashChunk, ReadHash, ReadFails, Reading

\* Code at the entry point, found address by address, is what the walk looks for.
LEMMA CodeIsFound ==
    ASSUME TypeOK, EntryIsCode
    PROVE  \E i \in DOMAIN segments : HoldsEntry(segments[i])
  <1>1. PICK i \in DOMAIN segments, r \in {"irom", "iram"} :
             /\ Loaded(segments[i])
             /\ header.entry \in Addresses(segments[i])
             /\ \A a \in Addresses(segments[i]) : Within(Ranges[r], a)
    BY DEF EntryIsCode
  <1>2. /\ segments[i].load \in Nat /\ segments[i].len \in Nat /\ segments[i].len > 0
    BY <1>1, SegmentsType DEF Loaded
  <1>3. /\ segments[i].load \in Addresses(segments[i])
        /\ segments[i].load <= header.entry
        /\ header.entry < segments[i].load + segments[i].len
    BY <1>1, <1>2 DEF Addresses
  <1>4. r \in Home(segments[i])
    BY <1>1, <1>3 DEF Home, Regions, FlashMapped, Sram
  <1> QED BY <1>1, <1>3, <1>4 DEF HoldsEntry

\* Of 16 addresses in a row one is the last of its block.
LEMMA OneBlockEnd ==
    ASSUME NEW from \in Int, NEW start \in Int,
           NEW a \in from .. from + 15, NEW b \in from .. from + 15,
           (a + 1 - start) % 16 = 0, (b + 1 - start) % 16 = 0
    PROVE  a = b
  <1> DEFINE x == a + 1 - start
             y == b + 1 - start
  <1>1. x \in Int /\ y \in Int /\ x - y \in -15 .. 15
    OBVIOUS
  <1>2. x % 16 = 0 /\ y % 16 = 0
    OBVIOUS
  <1> HIDE DEF x, y
  <1>3. x = y
    BY <1>1, <1>2
  <1> QED BY <1>3 DEF x, y

LEMMA RefusedStep == TableInv /\ RefusedForCause /\ [Next]_vars => RefusedForCause'
  <1> SUFFICES ASSUME TableInv, RefusedForCause, [Next]_vars PROVE RefusedForCause'
    OBVIOUS
  <1>0. TypeOK /\ Layout /\ Progress /\ EntryFound
    BY DEF TableInv
  <1>1. CASE verdict # "none"
    <2>1. UNCHANGED vars
      BY <1>0, <1>1, Returned
    <2> QED BY <2>1 DEF vars, table, RefusedForCause, PartEnd, EntryIsCode
  <1>2. CASE Call
    <2>1. verdict' \in {"none", "Truncated"} /\ (verdict' = "Truncated" => PartEnd >= U32)
          /\ UNCHANGED part
      BY <1>0, <1>2 DEF Call, Return, TypeOK
    <2> QED BY <2>1 DEF RefusedForCause, PartEnd
  <1>3. ASSUME NEW h \in Headers, ReadHeader(h) PROVE RefusedForCause'
    <2>1. verdict' \in {"none", "BadMagic", "BadSegmentCount", "BadChip"}
      BY <1>0, <1>3 DEF ReadHeader, Return, TypeOK, HeaderVerdict
    <2> QED BY <2>1 DEF RefusedForCause
  <1>4. ASSUME NEW raw \in SegmentHeaders, ReadSegment(raw) PROVE RefusedForCause'
    <2> DEFINE new == judged'
    <2>1. new \in SegType
      BY <1>4, TableSegment
    <2> HIDE DEF new
    <2>2. UNCHANGED part /\ (verdict' = SegmentVerdict(new) \/ verdict' = "none")
      BY <1>0, <1>4 DEF ReadSegment, Return, TypeOK, new
    <2>3. verdict' = "SegmentOutsidePartition" => new.data_offset + new.len > PartEnd
      BY <2>2 DEF SegmentVerdict, CheckSegment, DataEnd
    <2>4. verdict' \in {"BadLoadRange", "Misaligned", "OverlapsBootloader"} =>
            Loaded(new) /\ CheckSegment(new) # "ok"
      BY <2>2 DEF SegmentVerdict, CheckSegment
    <2>5. verdict' \in {"BadLoadRange", "Misaligned", "OverlapsBootloader"} =>
            Loaded(new) /\ ~LoadsSafely(new)
      BY <2>1, <2>4, CheckSegmentExact
    <2>6. verdict' \notin {"BadEntry", "Truncated"}
      BY <2>2 DEF SegmentVerdict, CheckSegment
    <2> QED BY <2>2, <2>3, <2>5, <2>6 DEF RefusedForCause, PartEnd, new
  <1>5. CASE CloseTable
    <2>1. /\ UNCHANGED <<part, verify, table>> /\ pc = "table" /\ verdict = "none"
          /\ verdict' \in {"none", "BadEntry", "Truncated", "ok"}
          /\ verdict' = "BadEntry" => ~entryOK
          /\ verdict' = "Truncated" => entryOK /\ End > PartEnd
      BY <1>0, <1>5 DEF CloseTable, Return, TypeOK
    <2>2. ASSUME verdict' = "BadEntry"
          PROVE  ~EntryIsCode
      BY <1>0, <2>1, <2>2, CodeIsFound DEF EntryFound
    <2>3. ASSUME verdict' = "Truncated",
                 NEW c \in cursor .. cursor + 15, (c + 1 - part.offset) % 16 = 0
          PROVE  c + 1 + (IF header.hash THEN HASH_LEN ELSE 0) > PartEnd
      <3>1. segments # << >>
        BY <1>0, <2>1, <2>3 DEF EntryFound
      <3>2. /\ ChecksumAt \in Nat /\ cursor <= ChecksumAt /\ ChecksumAt <= cursor + 15
            /\ (ChecksumAt + 1 - part.offset) % 16 = 0
            /\ End = ChecksumAt + 1 + (IF header.hash THEN HASH_LEN ELSE 0)
        BY <1>0, <2>1, <3>1, TrailerFacts
      <3>3. cursor \in Nat /\ part.offset \in Nat
        BY <1>0, <2>1, CursorBound, PartType
      <3>4. c = ChecksumAt
        BY <2>3, <3>2, <3>3, OneBlockEnd
      <3> QED BY <2>1, <2>3, <3>2, <3>4
    <2>4. EntryIsCode' <=> EntryIsCode
      BY <2>1, TableOnly DEF EntryIsCode, Loaded, Addresses
    <2> QED BY <2>1, <2>2, <2>3, <2>4, TableOnly DEF RefusedForCause
  <1>6. CASE ReadFails \/ SumVerdict \/ ReadHash \/ SumChunk \/ HashChunk
               \/ (\E d : ReadChecksum(d)) \/ UNCHANGED vars
    <2>1. \/ verdict' \in {"Read", "BadChecksum", "HashMissing", "BadHash", "ok"}
          \/ verdict' = verdict
      BY <1>6 DEF ReadFails, SumVerdict, ReadHash, SumChunk, HashChunk, ReadChecksum, Return, vars
    <2> QED BY <1>1, <2>1 DEF RefusedForCause
  <1> QED BY <1>2, <1>3, <1>4, <1>5, <1>6 DEF Next, Step

\* An image that is accepted has its entry point in a loaded segment of code, its
\* segments one behind the other in the partition, and a whole trailer.
THEOREM AcceptedWhole == Spec => []AcceptedIsWhole
  BY TableAlways, Whole, PTL

\* A segment table is refused only for a fault that it has.
THEOREM RefusalsCaused == Spec => []RefusedForCause
  <1>1. Init => RefusedForCause
    BY DEF Init, RefusedForCause
  <1> QED BY <1>1, TableAlways, RefusedStep, PTL DEF Spec

-------------------------------------------------------------------------------
(***************************************************************************)
(* The data.                                                               *)
(***************************************************************************)
\* The first n bytes from an address, in order.
Consecutive(s, from) ==
    s \in Seq(Nat) /\ \A k \in 1 .. Len(s) : s[k] = from + k - 1

\* What is summed and hashed is what the chunks so far cover.
Covered ==
    /\ pc \in {"call", "header", "table", "checksum"} =>
         summed = {} /\ hashed = << >> /\ damaged = {}
    /\ pc = "sum" =>
         /\ done \in [DOMAIN segments -> Nat]
         /\ \A i \in DOMAIN segments : done[i] <= segments[i].len
         /\ summed = UNION {Chunk(segments[i].data_offset, done[i]) : i \in DOMAIN segments}
         /\ hashed = << >>
    /\ pc = "hash" =>
         /\ ChecksumMatches
         /\ Consecutive(hashed, part.offset)
         /\ Len(hashed) <= ChecksumAt + 1 - part.offset

DataInv == Covered /\ IntactAccepted /\ DamageCaught

LEMMA MinOfTwo ==
    ASSUME NEW a \in Int, NEW b \in Int
    PROVE  Min({a, b}) = IF a <= b THEN a ELSE b
  <1>1. \E x \in {a, b} : \A y \in {a, b} : x <= y
    OBVIOUS
  <1>2. /\ Min({a, b}) \in {a, b}
        /\ \A y \in {a, b} : Min({a, b}) <= y
    BY <1>1 DEF Min
  <1> QED BY <1>2

\* The next n bytes behind the first m are not in what is summed, and make it the
\* first m + n.
LEMMA NextChunk ==
    ASSUME NEW from \in Nat, NEW m \in Nat, NEW n \in Nat
    PROVE  /\ Chunk(from, m) \cap Chunk(from + m, n) = {}
           /\ Chunk(from, m + n) = Chunk(from, m) \cup Chunk(from + m, n)
  BY DEF Chunk

LEMMA SumChunkCovers ==
    ASSUME TableInv, Covered, SumChunk
    PROVE  /\ Covered'
           /\ \E new : new # {} /\ new \cap summed = {} /\ summed' = summed \cup new
  <1>0. /\ pc = "sum" /\ TypeOK /\ Layout
        /\ UNCHANGED <<part, verify, pc, table, hashed, damaged, verdict>>
        /\ done \in [DOMAIN segments -> Nat]
        /\ \A i \in DOMAIN segments : done[i] <= segments[i].len
        /\ summed = UNION {Chunk(segments[i].data_offset, done[i]) : i \in DOMAIN segments}
        /\ hashed = << >>
    BY DEF SumChunk, Covered, TableInv
  <1>1. PICK i \in Unsummed :
            LET n == Min({segments[i].len - done[i], BufLen})
            IN  /\ summed' = Xor(summed, Chunk(segments[i].data_offset + done[i], n))
                /\ done' = [done EXCEPT ![i] = @ + n]
    BY DEF SumChunk
  <1> DEFINE n == Min({segments[i].len - done[i], BufLen})
             new == Chunk(segments[i].data_offset + done[i], n)
  <1>2. i \in DOMAIN segments /\ done[i] < segments[i].len /\ segments' = segments
    BY <1>0 DEF Unsummed, table
  <1>3. \A j \in DOMAIN segments :
            segments[j].data_offset \in Nat /\ segments[j].len \in Nat /\ done[j] \in Nat
    BY <1>0, SegmentsType
  <1>4. n \in Nat \ {0} /\ done[i] + n <= segments[i].len
    BY <1>2, <1>3, MinOfTwo, ReadAssumption
  <1>5. /\ done' = [done EXCEPT ![i] = @ + n]
        /\ summed' = Xor(summed, new)
    BY <1>1
  <1> HIDE DEF n
  <1>6. \A j \in DOMAIN segments : Chunk(segments[j].data_offset, done[j]) \cap new = {}
    <2> SUFFICES ASSUME NEW j \in DOMAIN segments
                 PROVE  Chunk(segments[j].data_offset, done[j]) \cap new = {}
      OBVIOUS
    <2>1. CASE j = i
      BY <1>2, <1>3, <1>4, <2>1, NextChunk
    <2>2. CASE j # i
      <3>1. \/ j < i /\ Ends(j) + SEGMENT_HEADER_LEN <= segments[i].data_offset
            \/ i < j /\ Ends(i) + SEGMENT_HEADER_LEN <= segments[j].data_offset
        <4>1. i \in Int /\ j \in Int
          BY <1>0, <1>2, SegmentsType
        <4> QED BY <1>0, <1>2, <2>2, <4>1 DEF Layout
      <3>2. done[j] <= segments[j].len
        BY <1>0
      <3> QED BY <1>2, <1>3, <1>4, <3>1, <3>2 DEF Ends, Chunk, SEGMENT_HEADER_LEN
    <2> QED BY <2>1, <2>2
  <1>7. summed' = summed \cup new /\ new \cap summed = {}
    <2>1. summed \cap new = {}
      BY <1>0, <1>6
    <2> QED BY <1>5, <2>1 DEF Xor
  <1>8. /\ done' \in [DOMAIN segments -> Nat]
        /\ done'[i] = done[i] + n
        /\ \A j \in DOMAIN segments \ {i} : done'[j] = done[j]
    BY <1>0, <1>2, <1>3, <1>4, <1>5
  <1>9. Chunk(segments[i].data_offset, done'[i]) = Chunk(segments[i].data_offset, done[i]) \cup new
    <2>1. PICK f \in Nat, m \in Nat : f = segments[i].data_offset /\ m = done[i]
      BY <1>2, <1>3
    <2>2. Chunk(f, m + n) = Chunk(f, m) \cup Chunk(f + m, n)
      BY <1>4, NextChunk
    <2> QED BY <1>8, <2>1, <2>2
  <1>10. summed' = UNION {Chunk(segments[j].data_offset, done'[j]) : j \in DOMAIN segments}
    <2> DEFINE Old(j) == Chunk(segments[j].data_offset, done[j])
               New(j) == Chunk(segments[j].data_offset, done'[j])
    <2>1. \A j \in DOMAIN segments : New(j) = IF j = i THEN Old(j) \cup new ELSE Old(j)
      BY <1>8, <1>9
    <2>2. summed = UNION {Old(j) : j \in DOMAIN segments}
      BY <1>0
    <2> HIDE DEF Old, New, new
    <2>3. \A a : a \in summed' <=> \E j \in DOMAIN segments : a \in New(j)
      BY <1>2, <1>7, <2>1, <2>2
    <2>4. summed' = UNION {New(j) : j \in DOMAIN segments}
      BY <2>3
    <2> QED BY <2>4 DEF New
  <1>11. \A j \in DOMAIN segments : done'[j] <= segments[j].len
    BY <1>0, <1>4, <1>8
  <1>12. new # {}
    <2>1. segments[i].data_offset + done[i] \in new
      BY <1>2, <1>3, <1>4 DEF Chunk
    <2> QED BY <2>1
  <1>13. Covered'
    BY <1>0, <1>2, <1>8, <1>10, <1>11 DEF Covered
  <1> QED BY <1>7, <1>12, <1>13

LEMMA HashChunkCovers ==
    ASSUME TableInv, Covered, HashChunk
    PROVE  Covered' /\ Len(hashed') > Len(hashed)
  <1>0. /\ pc = "hash" /\ TypeOK /\ Progress /\ Layout
        /\ UNCHANGED <<part, verify, pc, table, summed, done, damaged, verdict>>
        /\ ChecksumMatches /\ Consecutive(hashed, part.offset)
        /\ part.offset + Len(hashed) < ChecksumAt + 1
    BY DEF HashChunk, At, Covered, TableInv
  <1> DEFINE n == Min({ChecksumAt + 1 - At, BufLen})
             new == [k \in 1 .. n |-> At + k - 1]
  <1>1. part.offset \in Nat /\ ChecksumAt \in Nat /\ Len(hashed) \in Nat /\ hashed \in Seq(Nat)
    <2>1. segments # << >>
      BY <1>0 DEF Progress, MAX_SEGMENTS
    <2>2. ChecksumAt \in Nat
      BY <1>0, <2>1, TrailerFacts
    <2> QED BY <1>0, <2>2, PartType, LenProperties DEF Consecutive
  <1>2. At = part.offset + Len(hashed) /\ At \in Nat
    BY <1>1 DEF At
  <1>3. n \in Nat \ {0} /\ At + n <= ChecksumAt + 1
    <2>1. BufLen \in Int /\ BufLen > 0
      BY ReadAssumption
    <2>2. ChecksumAt + 1 - At \in Int /\ ChecksumAt + 1 - At > 0
      BY <1>0, <1>1, <1>2
    <2>3. n = IF ChecksumAt + 1 - At <= BufLen THEN ChecksumAt + 1 - At ELSE BufLen
      BY <2>1, <2>2, MinOfTwo
    <2> HIDE DEF n
    <2> DEFINE left == ChecksumAt + 1 - At
    <2>4. left \in Int /\ left > 0 /\ n = (IF left <= BufLen THEN left ELSE BufLen)
      BY <2>2, <2>3
    <2>5. n \in Nat \ {0} /\ n <= left
      <3> HIDE DEF left
      <3>1. CASE left <= BufLen
        BY <2>4, <3>1
      <3>2. CASE ~(left <= BufLen)
        BY <2>1, <2>4, <3>2
      <3> QED BY <3>1, <3>2
    <2>6. ChecksumAt \in Nat /\ At \in Nat
      BY <1>1, <1>2
    <2> HIDE DEF new
    <2> QED BY <2>5, <2>6
  <1>4. hashed' = hashed \o new
    BY DEF HashChunk
  <1> HIDE DEF n
  <1>5. /\ new \in Seq(Nat) /\ Len(new) = n
        /\ \A k \in 1 .. n : new[k] = At + k - 1
    BY <1>2, <1>3
  <1> HIDE DEF new
  <1>6. /\ hashed' \in Seq(Nat) /\ Len(hashed') = Len(hashed) + n
        /\ \A k \in 1 .. Len(hashed) + n :
             hashed'[k] = IF k <= Len(hashed) THEN hashed[k] ELSE new[k - Len(hashed)]
    BY <1>1, <1>4, <1>5, ConcatProperties
  <1>7. \A k \in 1 .. Len(hashed') : hashed'[k] = part.offset + k - 1
    <2> SUFFICES ASSUME NEW k \in 1 .. Len(hashed) + n
                 PROVE  hashed'[k] = part.offset + k - 1
      BY <1>6
    <2>1. CASE k <= Len(hashed)
      <3>1. k \in 1 .. Len(hashed)
        BY <1>1, <1>3, <2>1
      <3>2. hashed[k] = part.offset + k - 1
        BY <1>0, <3>1 DEF Consecutive
      <3> QED BY <1>6, <2>1, <3>2
    <2>2. CASE ~(k <= Len(hashed))
      <3>1. k - Len(hashed) \in 1 .. n
        BY <1>1, <1>3, <2>2
      <3>2. hashed'[k] = At + (k - Len(hashed)) - 1
        BY <1>5, <1>6, <2>2, <3>1
      <3> QED BY <1>1, <1>2, <1>3, <3>2
    <2> QED BY <2>1, <2>2
  <1>8. /\ ChecksumAt' = ChecksumAt /\ ChecksumMatches'
        /\ part' = part /\ pc' = pc
    BY <1>0, TableOnly DEF ChecksumMatches
  <1>9. Covered'
    <2>1. Consecutive(hashed', part'.offset)
      BY <1>6, <1>7, <1>8 DEF Consecutive
    <2>2. Len(hashed') <= ChecksumAt' + 1 - part'.offset
      <3> DEFINE l == Len(hashed)
                 o == part.offset
                 end == ChecksumAt
      <3>1. l \in Nat /\ o \in Nat /\ end \in Nat
        BY <1>1
      <3>2. n \in Nat /\ o + l + n <= end + 1
        BY <1>2, <1>3
      <3> HIDE DEF l, o, end
      <3>3. l + n <= end + 1 - o
        BY <3>1, <3>2
      <3> QED BY <1>6, <1>8, <3>3 DEF l, o, end
    <2> QED BY <1>0, <1>8, <2>1, <2>2 DEF Covered
  <1> QED BY <1>1, <1>3, <1>6, <1>9

LEMMA DataStep == TableInv /\ DataInv /\ [Next]_vars => DataInv'
  <1> SUFFICES ASSUME TableInv, DataInv, [Next]_vars PROVE DataInv'
    OBVIOUS
  <1>0. TypeOK /\ Progress /\ Layout /\ Covered /\ IntactAccepted /\ DamageCaught
    BY DEF TableInv, DataInv
  <1>1. CASE UNCHANGED vars
    BY <1>0, <1>1 DEF vars, table, data, DataInv, Covered, ChecksumMatches, DataBytes, ChecksumAt,
                      Add, IntactAccepted, DamageCaught
  <1>2. CASE Call \/ (\E h \in Headers : ReadHeader(h)) \/ (\E raw \in SegmentHeaders : ReadSegment(raw))
    <2>1. /\ pc \in {"call", "header", "table"} /\ pc' \in {"header", "table", "done"}
          /\ UNCHANGED data /\ verdict = "none"
          /\ verdict' \notin {"ok", "BadChecksum", "BadHash"}
      BY <1>0, <1>2 DEF Call, ReadHeader, ReadSegment, Return, TypeOK, HeaderVerdict,
                        SegmentVerdict, CheckSegment
    <2> QED BY <1>0, <2>1 DEF DataInv, Covered, IntactAccepted, DamageCaught, data
  <1>3. CASE CloseTable
    <2>1. /\ pc = "table" /\ pc' \in {"checksum", "done"} /\ UNCHANGED <<data, verify>>
          /\ verdict' \notin {"BadChecksum", "BadHash"}
          /\ verdict' = "ok" => verify = "Structure"
      BY <1>0, <1>3 DEF CloseTable, Return, TypeOK
    <2> QED BY <1>0, <2>1 DEF DataInv, Covered, IntactAccepted, DamageCaught, data
  <1>4. ASSUME NEW d, ReadChecksum(d) PROVE DataInv'
    <2>1. /\ pc = "checksum" /\ pc' = "sum" /\ verdict' = "none" /\ segments' = segments
          /\ done' = [i \in DOMAIN segments |-> 0] /\ summed' = {} /\ hashed' = << >>
      BY <1>0, <1>4 DEF ReadChecksum, TypeOK, Covered, table
    <2>2. \A i \in DOMAIN segments : 0 <= segments[i].len /\ segments[i].data_offset \in Nat
      BY <1>0, SegmentsType
    <2>3. \A i \in DOMAIN segments : Chunk(segments[i].data_offset, 0) = {}
      BY <2>2 DEF Chunk
    <2>4. summed' = UNION {Chunk(segments[i].data_offset, done'[i]) : i \in DOMAIN segments}
      BY <2>1, <2>3
    <2> QED BY <2>1, <2>2, <2>4 DEF DataInv, Covered, IntactAccepted, DamageCaught
  <1>5. CASE SumChunk
    <2>1. verdict' = "none"
      BY <1>0, <1>5 DEF SumChunk, TypeOK
    <2> QED BY <1>0, <1>5, <2>1, SumChunkCovers DEF DataInv, IntactAccepted, DamageCaught
  <1>6. CASE SumVerdict
    <2>1. /\ pc = "sum" /\ verdict = "none" /\ UNCHANGED <<part, verify, table, data>>
          /\ \/ verdict' = "BadChecksum" /\ ~ChecksumMatches /\ pc' = "done"
             \/ verdict' = "ok" /\ verify = "Checksum" /\ ChecksumMatches /\ pc' = "done"
             \/ verdict' = "HashMissing" /\ pc' = "done"
             \/ verdict' = "none" /\ ChecksumMatches /\ pc' = "hash"
      BY <1>0, <1>6 DEF SumVerdict, Return, TypeOK
    <2>2. summed = DataBytes
      <3>1. \A i \in DOMAIN segments : done[i] = segments[i].len
        <4>1. \A i \in DOMAIN segments : ~(done[i] < segments[i].len)
          BY <1>6 DEF SumVerdict, Unsummed
        <4>2. \A i \in DOMAIN segments : done[i] <= segments[i].len /\ done[i] \in Nat
          BY <1>0, <2>1 DEF Covered
        <4> QED BY <1>0, <4>1, <4>2, SegmentsType
      <3> QED BY <1>0, <2>1, <3>1 DEF Covered, DataBytes
    <2>3. ~ChecksumMatches => damaged # {}
      BY <2>2 DEF ChecksumMatches
    <2>4. ChecksumMatches' <=> ChecksumMatches
      BY <2>1, TableOnly DEF ChecksumMatches, data
    <2>5. DamageCaught' /\ IntactAccepted'
      BY <2>1, <2>3, <2>4 DEF DamageCaught, IntactAccepted, ChecksumMatches, data
    <2>6. Covered'
      <3>1. hashed' = << >>
        BY <1>0, <2>1 DEF Covered, data
      <3>2. pc' = "hash" => Len(hashed') <= ChecksumAt' + 1 - part'.offset
        <4>1. segments # << >>
          BY <1>0, <2>1 DEF Progress, MAX_SEGMENTS
        <4>2. /\ ChecksumAt \in Nat /\ cursor <= ChecksumAt /\ part.offset \in Nat
              /\ cursor \in Nat /\ part.offset + HEADER_LEN <= cursor
          BY <1>0, <2>1, <4>1, TrailerFacts, CursorBound, PartType
        <4> QED BY <2>1, <3>1, <4>2, TableOnly DEF HEADER_LEN
      <3>3. Consecutive(<< >>, part.offset)'
        BY EmptySeq DEF Consecutive
      <3> QED BY <2>1, <2>4, <3>1, <3>2, <3>3 DEF Covered
    <2> QED BY <2>5, <2>6 DEF DataInv
  <1>7. CASE HashChunk
    <2>1. verdict' = "none"
      BY <1>0, <1>7 DEF HashChunk, TypeOK
    <2> QED BY <1>0, <1>7, <2>1, HashChunkCovers DEF DataInv, IntactAccepted, DamageCaught
  <1>8. CASE ReadHash
    <2>1. /\ pc = "hash" /\ pc' = "done" /\ UNCHANGED <<part, verify, table, data>>
          /\ verdict' = IF HashMatches THEN "ok" ELSE "BadHash"
          /\ ~(part.offset + Len(hashed) < ChecksumAt + 1)
      <3>1. At \in Int /\ ChecksumAt \in Int
        <4>1. segments # << >>
          BY <1>0, <1>8 DEF ReadHash, Progress, MAX_SEGMENTS
        <4>2. ChecksumAt \in Nat /\ part.offset \in Nat
          BY <1>0, <1>8, <4>1, TrailerFacts, PartType DEF ReadHash
        <4>3. Len(hashed) \in Nat
          BY <1>0, <1>8, LenProperties DEF ReadHash, Covered, Consecutive
        <4> QED BY <4>2, <4>3 DEF At
      <3> QED BY <1>8, <3>1 DEF ReadHash, Return, At
    <2>2. damaged = {} => HashMatches
      <3>1. hashed \in Seq(Nat) /\ Len(hashed) \in Nat
            /\ \A k \in 1 .. Len(hashed) : hashed[k] = part.offset + k - 1
        BY <1>0, <2>1, LenProperties DEF Covered, Consecutive
      <3>2. Len(hashed) = ChecksumAt + 1 - part.offset
        <4>1. segments # << >>
          BY <1>0, <2>1 DEF Progress, MAX_SEGMENTS
        <4>2. ChecksumAt \in Nat /\ part.offset \in Nat
          BY <1>0, <2>1, <4>1, TrailerFacts, PartType
        <4>3. Len(hashed) <= ChecksumAt + 1 - part.offset
          BY <1>0, <2>1 DEF Covered
        <4> QED BY <2>1, <3>1, <4>2, <4>3
      <3>3. hashed = [k \in 1 .. Len(hashed) |-> part.offset + k - 1]
        BY <3>1
      <3> QED BY <3>2, <3>3 DEF HashMatches
    <2>3. HashMatches => damaged = {}
      BY DEF HashMatches
    <2> QED BY <2>1, <2>2, <2>3 DEF DataInv, Covered, IntactAccepted, DamageCaught, data
  <1>9. CASE ReadFails
    <2>1. pc' = "done" /\ verdict' = "Read"
      BY <1>9 DEF ReadFails, Return
    <2> QED BY <2>1 DEF DataInv, Covered, IntactAccepted, DamageCaught
  <1> QED BY <1>1, <1>2, <1>3, <1>4, <1>5, <1>6, <1>7, <1>8, <1>9 DEF Next, Step

LEMMA DataAlways == Spec => []DataInv
  <1>1. Init => DataInv
    BY DEF Init, DataInv, Covered, IntactAccepted, DamageCaught
  <1> QED BY <1>1, TableAlways, DataStep, PTL DEF Spec

\* A flipped byte of data or checksum is caught by Checksum, any by Full.
THEOREM DamageIsCaught == Spec => []DamageCaught
  BY DataAlways, PTL DEF DataInv

\* An image without a flipped byte passes: no byte is summed twice, none is left out
\* of sum or hash, wherever the chunks begin and end.
THEOREM IntactIsAccepted == Spec => []IntactAccepted
  BY DataAlways, PTL DEF DataInv

-------------------------------------------------------------------------------
(***************************************************************************)
(* Progress.                                                               *)
(***************************************************************************)
Stage(p) ==
    CASE p = "call" -> 6 [] p = "header" -> 5 [] p = "table" -> 4 [] p = "checksum" -> 3
      [] p = "sum" -> 2 [] p = "hash" -> 1 [] p = "done" -> 0

\* What this stage has still to go through: segment headers, data bytes that are
\* not in the sum, addresses that are not in the hash.
Left ==
    IF pc = "table" THEN Len(segments) + 1 .. header.count
    ELSE IF pc = "sum" THEN DataBytes \ summed
    ELSE IF pc = "hash" THEN At .. ChecksumAt
    ELSE {}

\* A step ends a stage, or leaves less of it.
Ahead ==
    \/ Stage(pc') < Stage(pc)
    \/ pc' = pc /\ Left' \subseteq Left /\ Left' # Left

LEMMA LeftBounded == TableInv /\ DataInv => Left \subseteq 0 .. U32 + MAX_SEGMENTS
  <1> SUFFICES ASSUME TableInv, DataInv PROVE Left \subseteq 0 .. U32 + MAX_SEGMENTS
    OBVIOUS
  <1>0. TypeOK /\ Layout /\ Progress /\ Covered /\ U32 \in Nat
    BY PartType DEF TableInv, DataInv
  <1>1. CASE pc = "table"
    <2>1. header.count \in 1 .. 16 /\ Len(segments) \in Nat
      BY <1>0, <1>1, SegmentsType DEF Progress, MAX_SEGMENTS
    <2> QED BY <1>0, <1>1, <2>1 DEF Left, MAX_SEGMENTS
  <1>2. CASE pc = "sum"
    <2>1. PartEnd \in Nat /\ PartEnd < U32
      BY <1>0, <1>2, PartType DEF Progress
    <2> SUFFICES ASSUME NEW i \in DOMAIN segments,
                        NEW a \in Chunk(segments[i].data_offset, segments[i].len)
                 PROVE  a \in 0 .. U32 + MAX_SEGMENTS
      BY <1>2 DEF Left, DataBytes
    <2>2. segments[i].data_offset \in Nat /\ segments[i].len \in Nat
      BY <1>0, SegmentsType
    <2>3. segments[i].data_offset + segments[i].len <= PartEnd
      BY <1>0 DEF Layout, Ends
    <2> QED BY <1>0, <2>1, <2>2, <2>3 DEF Chunk, MAX_SEGMENTS
  <1>3. CASE pc = "hash"
    <2>1. segments # << >> /\ PartEnd \in Nat /\ PartEnd < U32 /\ End <= PartEnd
      <3>1. PartEnd < U32 /\ End <= PartEnd /\ Len(segments) = header.count /\ header.count > 0
        BY <1>0, <1>3 DEF Progress, MAX_SEGMENTS
      <3>2. PartEnd \in Nat
        BY <1>0, PartType
      <3>3. segments # << >>
        BY <3>1
      <3> QED BY <3>1, <3>2, <3>3
    <2>2. ChecksumAt \in Nat /\ End >= ChecksumAt + 1
      <3>1. ChecksumAt \in Nat /\ End = ChecksumAt + 1 + (IF header.hash THEN HASH_LEN ELSE 0)
        BY <1>0, <1>3, <2>1, TrailerFacts
      <3> QED BY <3>1 DEF HASH_LEN
    <2>3. End \in Int
      <3>1. ChecksumAt \in Nat /\ End = ChecksumAt + 1 + (IF header.hash THEN HASH_LEN ELSE 0)
        BY <1>0, <1>3, <2>1, TrailerFacts
      <3> QED BY <3>1 DEF HASH_LEN
    <2>4. At \in Nat
      BY <1>0, <1>3, PartType, LenProperties DEF At, Covered, Consecutive
    <2> QED BY <1>0, <1>3, <2>1, <2>2, <2>3, <2>4 DEF Left, MAX_SEGMENTS
  <1> QED BY <1>1, <1>2, <1>3 DEF Left

LEMMA Forward ==
    ASSUME TableInv, DataInv, TableInv', DataInv', Next
    PROVE  Ahead
  <1> USE DEF Ahead
  <1>0. TypeOK /\ Progress /\ Layout /\ Covered
    BY DEF TableInv, DataInv
  <1>1. CASE \/ Call \/ (\E h \in Headers : ReadHeader(h)) \/ CloseTable \/ ReadFails
             \/ (\E d : ReadChecksum(d)) \/ SumVerdict \/ ReadHash
    <2>1. \/ pc = "call" /\ pc' \in {"header", "done"}
          \/ pc = "header" /\ pc' \in {"table", "done"}
          \/ pc = "table" /\ pc' \in {"checksum", "done"}
          \/ pc = "checksum" /\ pc' = "sum"
          \/ pc = "sum" /\ pc' \in {"hash", "done"}
          \/ pc = "hash" /\ pc' = "done"
          \/ pc \in {"header", "table", "checksum", "sum", "hash"} /\ pc' = "done"
      BY <1>1 DEF Call, ReadHeader, CloseTable, ReadFails, Reading, ReadChecksum, SumVerdict,
                  ReadHash, Return
    <2> QED BY <2>1 DEF Stage
  <1>2. ASSUME NEW raw \in SegmentHeaders, ReadSegment(raw)
        PROVE  Ahead
    <2>1. \/ pc = "table" /\ pc' = "done"
          \/ /\ pc = "table" /\ pc' = "table" /\ header' = header
             /\ Len(segments) < header.count /\ segments' = Append(segments, judged')
      BY <1>2 DEF ReadSegment, Return
    <2>2. CASE pc = "table" /\ pc' = "done"
      BY <2>2 DEF Stage
    <2>3. CASE /\ pc = "table" /\ pc' = "table" /\ header' = header
               /\ Len(segments) < header.count /\ segments' = Append(segments, judged')
      <3>1. Len(segments) \in Nat /\ header.count \in Nat /\ Len(segments') = Len(segments) + 1
        <4>1. judged' \in SegType /\ segments \in Seq(SegType) /\ header.count \in 1 .. 16
          BY <1>0, <1>2, <2>3, TableSegment, SegmentsType DEF Progress, MAX_SEGMENTS
        <4> QED BY <2>3, <4>1, AppendProperties, LenProperties
      <3>2. Left = Len(segments) + 1 .. header.count /\ Left' = Len(segments) + 2 .. header.count
        BY <2>3, <3>1 DEF Left
      <3>3. Len(segments) + 1 \in Left /\ Len(segments) + 1 \notin Left' /\ Left' \subseteq Left
        BY <2>3, <3>1, <3>2
      <3> QED BY <2>3, <3>3
    <2> QED BY <2>1, <2>2, <2>3
  <1>3. CASE SumChunk
    <2>1. pc = "sum" /\ pc' = "sum" /\ DataBytes' = DataBytes
      BY <1>3, TableOnly DEF SumChunk
    <2>2. PICK new : new # {} /\ new \cap summed = {} /\ summed' = summed \cup new
      BY <1>0, <1>3, SumChunkCovers
    <2>3. summed' \subseteq DataBytes
      <3> SUFFICES ASSUME NEW a \in summed' PROVE a \in DataBytes'
        BY <2>1
      <3>1. /\ \A i \in (DOMAIN segments)' : done'[i] <= segments'[i].len /\ done'[i] \in Nat
            /\ summed' = UNION {Chunk(segments'[i].data_offset, done'[i]) : i \in (DOMAIN segments)'}
        BY <2>1 DEF DataInv, Covered
      <3>2. PICK i \in (DOMAIN segments)' : a \in Chunk(segments'[i].data_offset, done'[i])
        BY <3>1
      <3>3. segments'[i].data_offset \in Nat /\ segments'[i].len \in Nat
        <4>1. i \in DOMAIN segments /\ segments' = segments
          BY <1>3 DEF SumChunk, table
        <4> QED BY <1>0, <4>1, SegmentsType
      <3>4. a \in Chunk(segments'[i].data_offset, segments'[i].len)
        BY <3>1, <3>2, <3>3 DEF Chunk
      <3> QED BY <3>4 DEF DataBytes
    <2>4. Left = DataBytes \ summed /\ Left' = DataBytes \ summed'
      BY <2>1 DEF Left
    <2> QED BY <2>1, <2>2, <2>3, <2>4
  <1>4. CASE HashChunk
    <2>1. pc = "hash" /\ pc' = "hash" /\ ChecksumAt' = ChecksumAt /\ part' = part
          /\ At < ChecksumAt + 1
      BY <1>4, TableOnly DEF HashChunk
    <2>2. Len(hashed') > Len(hashed) /\ Len(hashed) \in Nat /\ Len(hashed') \in Nat
      BY <1>0, <1>4, <2>1, HashChunkCovers, LenProperties DEF Covered, Consecutive, DataInv
    <2>3. part.offset \in Nat /\ ChecksumAt \in Nat
      <3>1. segments # << >>
        BY <1>0, <2>1 DEF Progress, MAX_SEGMENTS
      <3> QED BY <1>0, <2>1, <3>1, PartType, TrailerFacts
    <2>4. At = part.offset + Len(hashed) /\ At' = part.offset + Len(hashed')
      BY <2>1 DEF At
    <2>5. Left = At .. ChecksumAt /\ Left' = At' .. ChecksumAt
      BY <2>1 DEF Left
    <2>6. At \in Left /\ At \notin Left' /\ Left' \subseteq Left
      BY <2>1, <2>2, <2>3, <2>4, <2>5
    <2> QED BY <2>1, <2>6
  <1> QED BY <1>1, <1>2, <1>3, <1>4 DEF Next, Step

\* No step of a call goes back or in circles: it ends a stage or leaves strictly less
\* of a stage that was finite, so that no flash content, segment length or buffer
\* size makes validate run for ever.
THEOREM NoIdleStep ==
    /\ Spec => []IsFiniteSet(Left)
    /\ Spec => [][Ahead]_vars
  <1>1. TableInv /\ DataInv => IsFiniteSet(Left)
    <2>1. IsFiniteSet(0 .. U32 + MAX_SEGMENTS)
      BY FS_Interval, ReadAssumption DEF MAX_SEGMENTS
    <2> QED BY <2>1, LeftBounded, FS_Subset
  <1>2. TableInv /\ DataInv /\ (TableInv /\ DataInv)' /\ [Next]_vars => [Ahead]_vars
    BY Forward
  <1>3. Spec => []IsFiniteSet(Left)
    BY <1>1, TableAlways, DataAlways, PTL
  <1>4. Spec => [][Ahead]_vars
    BY <1>2, TableAlways, DataAlways, PTL DEF Spec
  <1> QED BY <1>3, <1>4
===============================================================================
