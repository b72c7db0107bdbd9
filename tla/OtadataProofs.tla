---------------------------- MODULE OtadataProofs -----------------------------
(***************************************************************************)
(* Lemmas about the operators of Otadata: what the selections, the plan    *)
(* and the updates return, for any number of slots and any SeqMax.         *)
(***************************************************************************)
EXTENDS Otadata, SequenceTheorems, WellFoundedInduction, TLAPS

Otas == [Sectors -> Cells]

-------------------------------------------------------------------------------
\* A sequence number selects a slot.
LEMMA SlotOfType ==
    ASSUME NEW q \in Nat \ {0}
    PROVE  SlotOf(q) \in Slots
  BY OtadataAssumption, SMT DEF SlotOf, Slots

\* There are two sectors, and each is the other's other.
LEMMA OtherSector ==
    ASSUME NEW s \in Sectors
    PROVE  /\ Other(s) \in Sectors
           /\ Other(s) # s
           /\ \A t \in Sectors : t # s => t = Other(s)
  BY DEF Sectors, Other

\* What is known of the sequence number of a cell, and of its state.
LEMMA CellFacts ==
    ASSUME NEW c \in Cells
    PROVE  /\ c.seq \in Nat /\ c.seq < SeqMax
           /\ IsEntry(c) => c.seq \in 1 .. SeqMax - 1
           /\ \A st \in EntryStates : c.state = st => IsEntry(c) /\ c = Entry(c.seq, st)
           /\ c = Blank \/ c = Corrupt \/ (IsEntry(c) /\ c.seq \in 1 .. SeqMax - 1)
  <1>1. CASE c \in [seq : 1 .. SeqMax - 1, state : EntryStates]
    BY <1>1, OtadataAssumption DEF IsEntry, Entry
  <1>2. CASE c \in {Blank, Corrupt}
    BY <1>2, OtadataAssumption DEF Blank, Corrupt, IsEntry, Entry, EntryStates
  <1> QED BY <1>1, <1>2 DEF Cells

\* An entry reads back as itself or as Corrupt.
LEMMA DecodeFacts ==
    ASSUME NEW e \in Entries
    PROVE  /\ Decode(e) \in Cells
           /\ Decode(e) = e \/ Decode(e) = Corrupt
  BY OtadataAssumption DEF Decode, Entries, Cells, Entry

\* Blank and Corrupt are not entries of any state.
LEMMA NoEntry ==
    ASSUME NEW c \in {Blank, Corrupt}
    PROVE  /\ c \in Cells
           /\ ~Valid(c) /\ ~Pending(c) /\ ~Unproven(c) /\ ~Candidate(c) /\ ~IsEntry(c)
           /\ \A q : c # Entry(q, "valid")
  BY DEF Blank, Corrupt, Entry, Cells, Valid, Pending, Unproven, Candidate, IsEntry, EntryStates

\* Highest picks a member of the set, and none has a higher sequence number.
LEMMA HighestFacts ==
    ASSUME NEW ota \in Otas, NEW S \in SUBSET Sectors, S # {}
    PROVE  /\ Highest(ota, S) \in S
           /\ \A s \in S : ota[s].seq <= ota[Highest(ota, S)].seq
  <1>1. \A s \in Sectors : ota[s].seq \in Nat
    BY CellFacts DEF Otas
  <1>2. S = {0} \/ S = {1} \/ S = {0, 1}
    BY DEF Sectors
  <1> QED BY <1>1, <1>2 DEF Highest, Sectors

-------------------------------------------------------------------------------
(***************************************************************************)
(* plan_boot.                                                              *)
(***************************************************************************)

\* What a sector may be marked as.
LEMMA MarkFacts ==
    ASSUME NEW ota \in Otas, NEW good, NEW s \in Sectors
    PROVE  /\ Mark(ota, good, s) \in {"keep", "aborted", "invalid", "pending"}
           /\ Mark(ota, good, s) # "keep" => IsEntry(ota[s])
           /\ Pending(ota[s]) => Mark(ota, good, s) = "aborted"
           /\ Mark(ota, good, s) = "pending" =>
                Bootable(ota, good) # {} /\ s = Chosen(ota, good) /\ Unproven(ota[s])
           /\ Valid(ota[s]) /\ s \in Bootable(ota, good) => Mark(ota, good, s) = "keep"
  BY DEF Mark, Bootable, Candidates, Candidate, Valid, Pending, Unproven, IsEntry, EntryStates

MarkOf(ota, good, s) == Write(s, ota[s].seq, Mark(ota, good, s))

\* The updates of a plan are exactly the marks that are not "keep", each once.
LEMMA MarkWritesFacts ==
    ASSUME NEW ota \in Otas, NEW good
    PROVE  /\ MarkWrites(ota, good) \in Seq(Writes)
           /\ \A i \in DOMAIN MarkWrites(ota, good) :
                \E s \in Sectors : /\ Mark(ota, good, s) # "keep"
                                   /\ MarkWrites(ota, good)[i] = MarkOf(ota, good, s)
           /\ \A s \in Sectors : Mark(ota, good, s) # "keep" =>
                \E i \in DOMAIN MarkWrites(ota, good) :
                    MarkWrites(ota, good)[i].sector = s
           /\ \A i, j \in DOMAIN MarkWrites(ota, good) :
                MarkWrites(ota, good)[i].sector = MarkWrites(ota, good)[j].sector => i = j
  <1> DEFINE f == FirstMarked(ota)
             g == Other(f)
             Up(s) == IF Mark(ota, good, s) = "keep" THEN << >> ELSE << MarkOf(ota, good, s) >>
  <1>1. f \in Sectors /\ g \in Sectors /\ f # g /\ \A s \in Sectors : s = f \/ s = g
    BY DEF FirstMarked, Highest, Sectors, Other
  <1>2. MarkWrites(ota, good) = Up(f) \o Up(g)
    BY DEF MarkWrites, MarkOf
  <1>3. \A s \in Sectors : Mark(ota, good, s) # "keep" =>
            MarkOf(ota, good, s) \in Writes /\ MarkOf(ota, good, s).sector = s
    <2> SUFFICES ASSUME NEW s \in Sectors, Mark(ota, good, s) # "keep"
                 PROVE  MarkOf(ota, good, s) \in Writes /\ MarkOf(ota, good, s).sector = s
      OBVIOUS
    <2>1. ota[s] \in Cells
      BY DEF Otas
    <2>2. ota[s].seq \in 1 .. SeqMax /\ Mark(ota, good, s) \in EntryStates
      BY <2>1, MarkFacts, CellFacts, OtadataAssumption DEF EntryStates
    <2> QED BY <2>2 DEF MarkOf, Write, Writes, Entry, Entries
  <1> HIDE DEF f, g
  <1>4. CASE Mark(ota, good, f) = "keep" /\ Mark(ota, good, g) = "keep"
    <2>1. MarkWrites(ota, good) = << >>
      BY <1>2, <1>4
    <2> QED BY <1>1, <1>4, <2>1
  <1>5. CASE Mark(ota, good, f) # "keep" /\ Mark(ota, good, g) = "keep"
    <2>1. MarkWrites(ota, good) = << MarkOf(ota, good, f) >>
      BY <1>2, <1>5
    <2> QED BY <1>1, <1>3, <1>5, <2>1
  <1>6. CASE Mark(ota, good, f) = "keep" /\ Mark(ota, good, g) # "keep"
    <2>1. MarkWrites(ota, good) = << MarkOf(ota, good, g) >>
      BY <1>2, <1>6
    <2> QED BY <1>1, <1>3, <1>6, <2>1
  <1>7. CASE Mark(ota, good, f) # "keep" /\ Mark(ota, good, g) # "keep"
    <2> DEFINE a == << MarkOf(ota, good, f) >>
               b == << MarkOf(ota, good, g) >>
    <2>1. a \in Seq(Writes) /\ b \in Seq(Writes)
      BY <1>1, <1>3, <1>7
    <2>2. MarkWrites(ota, good) = a \o b
      BY <1>2, <1>7
    <2>3. Len(a) = 1 /\ Len(b) = 1 /\ a[1] = MarkOf(ota, good, f) /\ b[1] = MarkOf(ota, good, g)
      OBVIOUS
    <2> HIDE DEF a, b
    <2>4. /\ MarkWrites(ota, good) \in Seq(Writes)
          /\ DOMAIN MarkWrites(ota, good) = 1 .. 2
          /\ MarkWrites(ota, good)[1] = MarkOf(ota, good, f)
          /\ MarkWrites(ota, good)[2] = MarkOf(ota, good, g)
      BY <2>1, <2>2, <2>3, ConcatProperties, LenProperties
    <2> QED BY <1>1, <1>3, <1>7, <2>4
  <1> QED BY <1>4, <1>5, <1>6, <1>7

\* A sector that is marked has its update in the queue.
LEMMA MarkedUpdated ==
    ASSUME NEW ota \in Otas, NEW good, NEW s \in Sectors, Mark(ota, good, s) # "keep"
    PROVE  \E i \in DOMAIN MarkWrites(ota, good) : MarkWrites(ota, good)[i].sector = s
  BY MarkWritesFacts

\* The first element of a concatenation.
LEMMA HeadOfConcat ==
    ASSUME NEW S, NEW x \in S, NEW t \in Seq(S)
    PROVE  << x >> \o t # << >> /\ Head(<< x >> \o t) = x
  <1> DEFINE u == << x >>
  <1>1. u \in Seq(S) /\ Len(u) = 1 /\ u[1] = x
    OBVIOUS
  <1> HIDE DEF u
  <1>2. Len(t) \in Nat
    OBVIOUS
  <1>3. u \o t \in Seq(S) /\ Len(u \o t) = 1 + Len(t) /\ (u \o t)[1] = x
    <2>1. /\ u \o t \in Seq(S)
          /\ Len(u \o t) = Len(u) + Len(t)
          /\ \A i \in 1 .. Len(u) + Len(t) :
               (u \o t)[i] = IF i <= Len(u) THEN u[i] ELSE t[i - Len(u)]
      BY <1>1, ConcatProperties
    <2> QED BY <1>1, <1>2, <2>1
  <1>4. u \o t # << >>
    BY <1>2, <1>3, EmptySeq
  <1> QED BY <1>3, <1>4, HeadTailProperties DEF u

\* FirstMarked names the sector of the first update, if that sector is marked.
LEMMA MarkWritesFirst ==
    ASSUME NEW ota \in Otas, NEW good, Mark(ota, good, FirstMarked(ota)) # "keep"
    PROVE  /\ MarkWrites(ota, good) # << >>
           /\ Head(MarkWrites(ota, good)).sector = FirstMarked(ota)
  <1> DEFINE f == FirstMarked(ota)
             g == Other(f)
             rest == IF Mark(ota, good, g) = "keep" THEN << >> ELSE << MarkOf(ota, good, g) >>
             both == {MarkOf(ota, good, f), MarkOf(ota, good, g)}
  <1>1. MarkWrites(ota, good) = << MarkOf(ota, good, f) >> \o rest
    BY DEF MarkWrites, MarkOf
  <1>2. MarkOf(ota, good, f).sector = f
    BY DEF MarkOf, Write
  <1>3. rest \in Seq(both) /\ MarkOf(ota, good, f) \in both
    <2>1. << >> \in Seq(both) /\ << MarkOf(ota, good, g) >> \in Seq(both)
      BY EmptySeq
    <2> QED BY <2>1
  <1> HIDE DEF f, g, rest, both
  <1> QED BY <1>1, <1>2, <1>3, HeadOfConcat DEF f

\* A device on its first boot has nothing bootable and nothing to mark.
LEMMA FirstBootFacts ==
    ASSUME NEW ota \in Otas, NEW good, FirstBoot(ota)
    PROVE  /\ Bootable(ota, good) = {}
           /\ \A s \in Sectors : ~IsEntry(ota[s])
  BY NoEntry DEF FirstBoot, Bootable, Candidates

\* The chosen candidate is an accepted entry that selects a good slot, and the
\* highest of those that do.
LEMMA ChosenFacts ==
    ASSUME NEW ota \in Otas, NEW good, Bootable(ota, good) # {}
    PROVE  /\ Chosen(ota, good) \in Bootable(ota, good)
           /\ Chosen(ota, good) \in Sectors
           /\ Candidate(ota[Chosen(ota, good)])
           /\ ota[Chosen(ota, good)].seq \in 1 .. SeqMax - 1
           /\ SlotOf(ota[Chosen(ota, good)].seq) \in good
           /\ \A s \in Bootable(ota, good) : ota[s].seq <= ota[Chosen(ota, good)].seq
  <1>1. Bootable(ota, good) \in SUBSET Sectors
    BY DEF Bootable, Candidates
  <1>2. /\ Chosen(ota, good) \in Bootable(ota, good)
        /\ \A s \in Bootable(ota, good) : ota[s].seq <= ota[Chosen(ota, good)].seq
    BY <1>1, HighestFacts DEF Chosen
  <1>3. /\ Chosen(ota, good) \in Sectors
        /\ Candidate(ota[Chosen(ota, good)])
        /\ SlotOf(ota[Chosen(ota, good)].seq) \in good
        /\ ota[Chosen(ota, good)] \in Cells
    BY <1>2 DEF Bootable, Candidates, Otas
  <1>4. ota[Chosen(ota, good)].seq \in 1 .. SeqMax - 1
    BY <1>3, CellFacts DEF Candidate, Valid, Unproven, IsEntry, EntryStates
  <1> QED BY <1>2, <1>3, <1>4

\* An unconfirmed entry above a Valid one is the first that is rewritten; if it is
\* to be started, the Valid one is left alone.
LEMMA TrialMarked ==
    ASSUME NEW ota \in Otas, NEW good, NEW s \in Sectors, Unproven(ota[s]) \/ Pending(ota[s]),
           Valid(ota[Other(s)]), ota[Other(s)].seq < ota[s].seq
    PROVE  /\ FirstMarked(ota) = s
           /\ Mark(ota, good, s) # "keep"
           /\ Mark(ota, good, s) = "pending" => Mark(ota, good, Other(s)) = "keep"
  <1> DEFINE o == Other(s)
  <1>1. /\ (s = 0 /\ o = 1) \/ (s = 1 /\ o = 0)
        /\ \A t \in Sectors : t = s \/ t = o
    BY DEF Sectors, Other
  <1>2. ota[s].seq \in Nat /\ ota[o].seq \in Nat
    BY <1>1, CellFacts DEF Otas, Sectors
  <1>3. \A S \in SUBSET Sectors : s \in S => Highest(ota, S) = s
    BY <1>1, <1>2 DEF Highest, Sectors
  <1> HIDE DEF o
  <1>4. ~Pending(ota[o]) /\ ~Unproven(ota[o]) /\ Candidate(ota[o])
    BY DEF o, Valid, Pending, Unproven, Candidate
  <1>5. CASE Pending(ota[s])
    <2>1. FirstMarked(ota) = s
      BY <1>1, <1>4, <1>5 DEF FirstMarked
    <2> QED BY <1>5, <2>1, MarkFacts
  <1>6. CASE Unproven(ota[s])
    <2>1. ~Pending(ota[s]) /\ s \in Candidates(ota)
      BY <1>6 DEF Pending, Unproven, Candidates, Candidate
    <2>2. FirstMarked(ota) = s
      BY <1>1, <1>3, <1>4, <2>1 DEF FirstMarked, Candidates
    <2>3. CASE s \in Bootable(ota, good)
      <3>1. Chosen(ota, good) = s
        BY <1>3, <2>3 DEF Chosen, Bootable, Candidates
      <3>2. Mark(ota, good, s) = "pending"
        BY <1>6, <2>1, <2>3, <3>1 DEF Mark
      <3>3. Highest(ota, {o, s}) # o
        <4>1. {o, s} \in SUBSET Sectors /\ s \in {o, s}
          BY <1>1 DEF Sectors
        <4>2. Highest(ota, {o, s}) = s
          BY <1>3, <4>1
        <4> QED BY <1>1, <4>2
      <3>4. Mark(ota, good, o) = "keep"
        BY <1>4, <2>3, <3>1, <3>3 DEF Mark
      <3> QED BY <2>2, <3>2, <3>4 DEF o
    <2>4. CASE s \notin Bootable(ota, good)
      <3>1. Bootable(ota, good) = {} \/ Chosen(ota, good) \in Sectors
        BY ChosenFacts
      <3>2. Bootable(ota, good) = {} \/ Highest(ota, {s, Chosen(ota, good)}) = s
        BY <1>3, <3>1
      <3>3. Mark(ota, good, s) = "invalid"
        BY <2>1, <2>4, <3>2 DEF Mark
      <3> QED BY <2>2, <3>3
    <2> QED BY <2>3, <2>4
  <1> QED BY <1>5, <1>6

\* The three outcomes of plan_boot: a candidate, the first-boot seed, a halt.
LEMMA PlanCases ==
    ASSUME NEW ota \in Otas, NEW good
    PROVE  \/ /\ Bootable(ota, good) # {}
              /\ PlanBoot(ota, good).boot =
                   BootSlot(Chosen(ota, good), ota[Chosen(ota, good)].seq)
              /\ PlanBoot(ota, good).writes = MarkWrites(ota, good)
           \/ /\ FirstBoot(ota)
              /\ 0 \in good
              /\ PlanBoot(ota, good).boot = BootSlot(0, 1)
              /\ PlanBoot(ota, good).writes = << Write(0, 1, "valid") >>
           \/ /\ Bootable(ota, good) = {}
              /\ \E why \in HaltKinds : PlanBoot(ota, good).boot = BootHalt(why)
              /\ \/ PlanBoot(ota, good).writes = MarkWrites(ota, good)
                 \/ FirstBoot(ota) /\ PlanBoot(ota, good).writes = << >>
  <1>1. CASE Bootable(ota, good) # {}
    <2>1. ~FirstBoot(ota)
      BY <1>1, FirstBootFacts
    <2> QED BY <1>1, <2>1 DEF PlanBoot
  <1>2. CASE FirstBoot(ota)
    BY <1>2, FirstBootFacts DEF PlanBoot, HaltKinds
  <1>3. CASE Bootable(ota, good) = {} /\ ~FirstBoot(ota)
    BY <1>3 DEF PlanBoot, HaltKinds
  <1> QED BY <1>1, <1>2, <1>3

\* Short sequences, put together.
LEMMA Tuples ==
    ASSUME NEW x, NEW y
    PROVE  /\ << >> \o << >> = << >>
           /\ << x >> \o << >> = << x >>
           /\ << >> \o << x >> = << x >>
           /\ << x >> \o << y >> = << x, y >>
           /\ Append(<< >>, x) = << x >>
           /\ Append(<< x >>, y) = << x, y >>
  <1> DEFINE S == {x, y}
  <1>1. << >> \in Seq(S) /\ << x >> \in Seq(S) /\ << y >> \in Seq(S) /\ << x, y >> \in Seq(S)
    OBVIOUS
  <1>2. << >> \o << >> = << >> /\ << x >> \o << >> = << x >> /\ << >> \o << x >> = << x >>
    BY <1>1, ConcatEmptySeq
  <1>3. << x >> \o << y >> = << x, y >>
    <2> DEFINE both == << x >> \o << y >>
               pair == << x, y >>
    <2>1. Len(<< x >>) = 1 /\ Len(<< y >>) = 1 /\ << x >>[1] = x /\ << y >>[1] = y
      OBVIOUS
    <2>2. both \in Seq(S) /\ Len(both) = 2 /\ both[1] = x /\ both[2] = y
      BY <1>1, <2>1, ConcatProperties
    <2>3. pair \in Seq(S) /\ Len(pair) = 2 /\ pair[1] = x /\ pair[2] = y
      BY <1>1
    <2> HIDE DEF both, pair, S
    <2>4. \A i \in 1 .. Len(both) : both[i] = pair[i]
      BY <2>2, <2>3
    <2>5. both = pair
      BY <2>2, <2>3, <2>4, SeqEqual
    <2> QED BY <2>5 DEF both, pair
  <1>4. Append(<< >>, x) = << x >>
    BY <1>1
  <1>5. Append(<< x >>, y) = << x, y >>
    BY <1>1, <1>3, AppendIsConcat
  <1> QED BY <1>2, <1>3, <1>4, <1>5

\* A turn of the loop on a plan that is not decided, and on one that is.
LEMMA LookFacts ==
    ASSUME NEW ota, NEW good, NEW s, NEW writes
    PROVE  LET undecided == [boot |-> Undecided, writes |-> writes]
               plan == LookAt(ota, good, s, undecided)
           IN  /\ ~Candidate(ota[s]) => plan = undecided
               /\ Candidate(ota[s]) /\ SlotOf(ota[s].seq) \notin good =>
                    plan = [boot |-> Undecided,
                            writes |-> Append(writes, Write(s, ota[s].seq, "invalid"))]
               /\ Candidate(ota[s]) /\ SlotOf(ota[s].seq) \in good =>
                    plan = [boot |-> BootSlot(s, ota[s].seq),
                            writes |-> IF Unproven(ota[s])
                                       THEN Append(writes, Write(s, ota[s].seq, "pending"))
                                       ELSE writes]
  BY DEF LookAt

LEMMA DecidedStays ==
    ASSUME NEW ota, NEW good, NEW s, NEW plan, plan.boot # Undecided
    PROVE  LookAt(ota, good, s, plan) = plan
  BY DEF LookAt

\* The first candidate is that with the highest sequence number; a second one
\* comes after it.
LEMMA CandidateOrder ==
    ASSUME NEW ota \in Otas, NEW f, f = Highest(ota, Candidates(ota))
    PROVE  /\ f \in Sectors /\ Other(f) \in Sectors /\ Other(Other(f)) = f /\ Other(f) # f
           /\ Sectors = {f, Other(f)}
           /\ ~Candidate(ota[f]) => ~Candidate(ota[Other(f)])
           /\ Candidate(ota[Other(f)]) => Highest(ota, {f, Other(f)}) = f
           /\ \A s \in Sectors : Highest(ota, {s}) = s
  <1>1. f \in Sectors /\ Other(f) \in Sectors /\ Other(Other(f)) = f /\ Other(f) # f
        /\ Sectors = {f, Other(f)}
    BY DEF Highest, Sectors, Other
  <1>2. ~Candidate(ota[f]) => ~Candidate(ota[Other(f)])
    <2> SUFFICES ASSUME Candidates(ota) # {} PROVE f \in Candidates(ota)
      BY <1>1 DEF Candidates
    <2> QED BY HighestFacts DEF Candidates
  <1>3. Candidate(ota[Other(f)]) => Highest(ota, {f, Other(f)}) = f
    BY <1>1, <1>2 DEF Candidates
  <1>4. \A s \in Sectors : Highest(ota, {s}) = s
    BY DEF Highest, Sectors
  <1> QED BY <1>1, <1>2, <1>3, <1>4

\* PlanBoot, which says of both sectors at once what plan_boot makes of them, is
\* what its loop over the candidates computes.
THEOREM PlanIsTheLoop ==
    ASSUME NEW ota \in Otas, NEW good
    PROVE  PlanBoot(ota, good) = PlanLoop(ota, good)
  <1> DEFINE f == Highest(ota, Candidates(ota))
             g == Other(f)
             early == Abort(ota, 0) \o Abort(ota, 1)
             aborted == [boot |-> Undecided, writes |-> early]
             once == LookAt(ota, good, f, aborted)
             plan == LookAt(ota, good, g, once)
             B == Bootable(ota, good)
             W(s, st) == Write(s, ota[s].seq, st)
             Update(s) == IF Mark(ota, good, s) = "keep" THEN << >>
                          ELSE << W(s, Mark(ota, good, s)) >>
             loop == PlanLoop(ota, good)
             writes == MarkWrites(ota, good)
  <1>1. /\ f \in Sectors /\ g \in Sectors /\ Other(g) = f /\ g # f /\ Sectors = {f, g}
        /\ ~Candidate(ota[f]) => ~Candidate(ota[g])
        /\ Candidate(ota[g]) => Highest(ota, {f, g}) = f
        /\ \A s \in Sectors : Highest(ota, {s}) = s
    BY CandidateOrder
  <1>2. loop = IF plan.boot # Undecided THEN plan
               ELSE IF ~FirstBoot(ota)
               THEN [boot |-> BootHalt("NoUsableEntry"), writes |-> plan.writes]
               ELSE IF 0 \in good
               THEN [boot |-> BootSlot(0, 1), writes |-> Append(plan.writes, Write(0, 1, "valid"))]
               ELSE [boot |-> BootHalt("NoImage"), writes |-> plan.writes]
    BY DEF PlanLoop
  <1>3. \A s, q : BootSlot(s, q) # Undecided
    BY DEF BootSlot, Undecided, BootHalt
  <1>4. \A s \in Sectors : /\ s \in B <=> Candidate(ota[s]) /\ SlotOf(ota[s].seq) \in good
                           /\ Candidate(ota[s]) => ~Pending(ota[s]) /\ IsEntry(ota[s])
                           /\ Pending(ota[s]) => IsEntry(ota[s])
    BY DEF Bootable, Candidates, Candidate, Valid, Unproven, Pending, IsEntry, EntryStates
  <1>5. (\E s \in Sectors : IsEntry(ota[s])) => ~FirstBoot(ota)
    BY FirstBootFacts
  <1>6. /\ writes = Update(FirstMarked(ota)) \o Update(Other(FirstMarked(ota)))
        /\ \A s : Update(s) = IF Mark(ota, good, s) = "keep" THEN << >>
                              ELSE << W(s, Mark(ota, good, s)) >>
    BY DEF MarkWrites
  <1>7. ASSUME NEW s \in Sectors
        PROVE  /\ Pending(ota[s]) => Mark(ota, good, s) = "aborted"
               /\ ~Pending(ota[s]) /\ ~Candidate(ota[s]) => Mark(ota, good, s) = "keep"
    BY <1>4, <1>7 DEF Mark, Candidates
  <1>8. ASSUME f \in B
        PROVE  /\ Chosen(ota, good) = f
               /\ Mark(ota, good, f) = IF Unproven(ota[f]) THEN "pending" ELSE "keep"
               /\ Candidate(ota[g]) => Mark(ota, good, g) = "keep"
    <2>1. B = {f} \/ (B = {f, g} /\ Candidate(ota[g]))
      BY <1>1, <1>4, <1>8 DEF Bootable, Candidates
    <2>2. Chosen(ota, good) = f
      BY <1>1, <2>1 DEF Chosen
    <2>3. {g, f} = {f, g} /\ ~Pending(ota[f]) /\ (Candidate(ota[g]) => ~Pending(ota[g]))
      BY <1>1, <1>4, <1>8
    <2> QED BY <1>1, <1>8, <2>2, <2>3 DEF Mark
  <1>9. ASSUME Candidate(ota[f]), f \notin B
        PROVE  /\ B = {} \/ (B = {g} /\ Chosen(ota, good) = g /\ Candidate(ota[g]))
               /\ Mark(ota, good, f) = "invalid"
               /\ g \in B => Mark(ota, good, g) = IF Unproven(ota[g]) THEN "pending" ELSE "keep"
               /\ Candidate(ota[g]) /\ g \notin B => Mark(ota, good, g) = "invalid"
    <2>1. B = {} \/ (B = {g} /\ Candidate(ota[g]))
      BY <1>1, <1>4, <1>9 DEF Bootable, Candidates
    <2>2. B = {g} => Chosen(ota, good) = g
      BY <1>1 DEF Chosen
    <2>3. ~Pending(ota[f]) /\ (Candidate(ota[g]) => ~Pending(ota[g]))
      BY <1>1, <1>4, <1>9
    <2>4. f \in Candidates(ota) /\ (Candidate(ota[g]) <=> g \in Candidates(ota))
      BY <1>1, <1>9 DEF Candidates
    <2> QED BY <1>1, <1>9, <2>1, <2>2, <2>3, <2>4 DEF Mark
  <1>10. Candidate(ota[f]) => FirstMarked(ota) = IF Pending(ota[g]) THEN g ELSE f
    BY <1>1, <1>4 DEF FirstMarked, Sectors
  <1>11. ~Candidate(ota[f]) =>
            /\ B = {}
            /\ FirstMarked(ota) = IF Pending(ota[0]) THEN 0 ELSE IF Pending(ota[1]) THEN 1 ELSE 0
    <2> SUFFICES ASSUME ~Candidate(ota[f]) PROVE Candidates(ota) = {}
      BY DEF FirstMarked, Highest, Bootable
    <2> QED BY <1>1 DEF Candidates
  <1>12. \A x, y : /\ << >> \o << >> = << >> /\ << x >> \o << >> = << x >>
                   /\ << >> \o << x >> = << x >> /\ << x >> \o << y >> = << x, y >>
                   /\ Append(<< >>, x) = << x >> /\ Append(<< x >>, y) = << x, y >>
    BY Tuples
  <1>13. \A s \in Sectors : Abort(ota, s) = IF Pending(ota[s]) THEN << W(s, "aborted") >> ELSE << >>
    BY DEF Abort
  <1>14. Candidate(ota[f]) =>
            early = IF Pending(ota[g]) THEN << W(g, "aborted") >> ELSE << >>
    BY <1>1, <1>4, <1>12, <1>13 DEF Sectors
  <1>15. /\ aborted = [boot |-> Undecided, writes |-> early]
         /\ once = LookAt(ota, good, f, aborted)
         /\ plan = LookAt(ota, good, g, once)
    OBVIOUS
  <1>16. \A s \in Sectors : \A ws :
            LookAt(ota, good, s, [boot |-> Undecided, writes |-> ws]) =
              IF ~Candidate(ota[s]) THEN [boot |-> Undecided, writes |-> ws]
              ELSE IF s \notin B
                   THEN [boot |-> Undecided, writes |-> Append(ws, W(s, "invalid"))]
              ELSE [boot |-> BootSlot(s, ota[s].seq),
                    writes |-> IF Unproven(ota[s]) THEN Append(ws, W(s, "pending")) ELSE ws]
    BY <1>4, LookFacts
  <1>17. PlanBoot(ota, good) =
            IF B # {}
            THEN [boot |-> BootSlot(Chosen(ota, good), ota[Chosen(ota, good)].seq),
                  writes |-> writes]
            ELSE IF ~FirstBoot(ota) THEN [boot |-> BootHalt("NoUsableEntry"), writes |-> writes]
            ELSE IF 0 \in good
            THEN [boot |-> BootSlot(0, 1), writes |-> << Write(0, 1, "valid") >>]
            ELSE [boot |-> BootHalt("NoImage"), writes |-> << >>]
    BY FirstBootFacts DEF PlanBoot
  <1>18. early = Abort(ota, 0) \o Abort(ota, 1)
    OBVIOUS
  <1> HIDE DEF f, g, early, aborted, once, plan, B, W, Update, loop, writes
  <1>19. CASE ~Candidate(ota[f])
    <2>1. plan = aborted
      BY <1>1, <1>15, <1>19, <1>16
    <2>2. writes = early
      <3>1. \A s \in Sectors : Mark(ota, good, s) = IF Pending(ota[s]) THEN "aborted" ELSE "keep"
        BY <1>1, <1>7, <1>19
      <3>2. 0 \in Sectors /\ 1 \in Sectors /\ Other(0) = 1 /\ Other(1) = 0
        BY DEF Sectors, Other
      <3> QED BY <1>6, <1>11, <1>12, <1>13, <1>19, <1>18, <3>1, <3>2
    <2>3. loop = IF ~FirstBoot(ota)
                 THEN [boot |-> BootHalt("NoUsableEntry"), writes |-> writes]
                 ELSE IF 0 \in good
                 THEN [boot |-> BootSlot(0, 1), writes |-> Append(writes, Write(0, 1, "valid"))]
                 ELSE [boot |-> BootHalt("NoImage"), writes |-> writes]
      <3>1. plan.boot = Undecided /\ plan.writes = writes
        BY <1>15, <2>1, <2>2
      <3> QED BY <1>2, <3>1
    <2>4. FirstBoot(ota) => writes = << >>
      BY <1>4, <1>5, <1>12, <1>13, <1>18, <2>2 DEF Sectors
    <2>5. FirstBoot(ota) => Append(writes, Write(0, 1, "valid")) = << Write(0, 1, "valid") >>
      BY <1>12, <2>4
    <2> QED BY <1>11, <1>19, <1>17, <2>3, <2>4, <2>5 DEF loop
  <1>20. CASE Candidate(ota[f]) /\ f \in B
    <2>1. once = [boot |-> BootSlot(f, ota[f].seq),
                  writes |-> IF Unproven(ota[f]) THEN Append(early, W(f, "pending")) ELSE early]
      BY <1>1, <1>15, <1>20, <1>16
    <2>2. plan = once
      BY <1>3, <1>15, <2>1, DecidedStays
    <2>3. loop = once
      BY <1>2, <1>3, <2>1, <2>2
    <2>4. writes = once.writes
      <3>1. CASE Pending(ota[g])
        <4>1. Mark(ota, good, g) = "aborted"
          BY <1>1, <1>7, <3>1
        <4>2. /\ Update(f) = IF Unproven(ota[f]) THEN << W(f, "pending") >> ELSE << >>
              /\ Update(g) = << W(g, "aborted") >>
          BY <1>6, <1>8, <1>20, <4>1
        <4>3. writes = Update(g) \o Update(f)
          BY <1>1, <1>6, <1>10, <1>20, <3>1
        <4>4. early = << W(g, "aborted") >>
          BY <1>14, <1>20, <3>1
        <4> QED BY <1>12, <2>1, <4>2, <4>3, <4>4
      <3>2. CASE ~Pending(ota[g])
        <4>1. Mark(ota, good, g) = "keep"
          BY <1>1, <1>7, <1>8, <1>20, <3>2
        <4>2. /\ Update(f) = IF Unproven(ota[f]) THEN << W(f, "pending") >> ELSE << >>
              /\ Update(g) = << >>
          BY <1>6, <1>8, <1>20, <4>1
        <4>3. writes = Update(f) \o Update(g)
          BY <1>6, <1>10, <1>20, <3>2 DEF g
        <4>4. early = << >>
          BY <1>14, <1>20, <3>2
        <4> QED BY <1>12, <2>1, <4>2, <4>3, <4>4
      <3> QED BY <3>1, <3>2
    <2>5. PlanBoot(ota, good) = [boot |-> BootSlot(f, ota[f].seq), writes |-> writes]
      BY <1>8, <1>20, <1>17
    <2> QED BY <2>1, <2>3, <2>4, <2>5 DEF loop
  <1>21. CASE Candidate(ota[f]) /\ f \notin B
    <2> DEFINE marked == Append(early, W(f, "invalid"))
    <2>1. once = [boot |-> Undecided, writes |-> marked]
      BY <1>1, <1>15, <1>21, <1>16
    <2>2. marked = IF Pending(ota[g]) THEN << W(g, "aborted"), W(f, "invalid") >>
                   ELSE << W(f, "invalid") >>
      BY <1>12, <1>14, <1>21
    <2> HIDE DEF marked
    <2>3. CASE ~Candidate(ota[g])
      <3>1. plan = once
        BY <1>1, <1>15, <1>16, <2>1, <2>3
      <3>2. writes = marked
        <4>1. CASE Pending(ota[g])
          <5>1. Mark(ota, good, g) = "aborted"
            BY <1>1, <1>7, <4>1
          <5>2. Update(f) = << W(f, "invalid") >> /\ Update(g) = << W(g, "aborted") >>
            BY <1>6, <1>9, <1>21, <5>1
          <5>3. writes = Update(g) \o Update(f)
            BY <1>1, <1>6, <1>10, <1>21, <4>1
          <5> QED BY <1>12, <2>2, <4>1, <5>2, <5>3
        <4>2. CASE ~Pending(ota[g])
          <5>1. Mark(ota, good, g) = "keep"
            BY <1>1, <1>7, <2>3, <4>2
          <5>2. Update(f) = << W(f, "invalid") >> /\ Update(g) = << >>
            BY <1>6, <1>9, <1>21, <5>1
          <5>3. writes = Update(f) \o Update(g)
            BY <1>6, <1>10, <1>21, <4>2 DEF g
          <5> QED BY <1>12, <2>2, <4>2, <5>2, <5>3
        <4> QED BY <4>1, <4>2
      <3>3. loop = [boot |-> BootHalt("NoUsableEntry"), writes |-> writes]
        BY <1>1, <1>2, <1>4, <1>5, <1>21, <2>1, <3>1, <3>2
      <3>4. B = {} /\ ~FirstBoot(ota)
        BY <1>1, <1>4, <1>5, <1>9, <1>21, <2>3
      <3> QED BY <1>17, <3>3, <3>4 DEF loop
    <2>4. CASE Candidate(ota[g]) /\ g \notin B
      <3>1. plan = [boot |-> Undecided, writes |-> Append(marked, W(g, "invalid"))]
        BY <1>1, <1>15, <1>16, <2>1, <2>4
      <3>2. writes = << W(f, "invalid"), W(g, "invalid") >>
        <4>1. Update(f) = << W(f, "invalid") >> /\ Update(g) = << W(g, "invalid") >>
          BY <1>6, <1>9, <1>21, <2>4
        <4>2. writes = Update(f) \o Update(g)
          BY <1>1, <1>4, <1>6, <1>10, <1>21, <2>4 DEF g
        <4> QED BY <1>12, <4>1, <4>2
      <3>3. Append(marked, W(g, "invalid")) = << W(f, "invalid"), W(g, "invalid") >>
        BY <1>1, <1>4, <1>12, <2>2, <2>4
      <3>4. loop = [boot |-> BootHalt("NoUsableEntry"), writes |-> writes]
        BY <1>1, <1>2, <1>4, <1>5, <1>21, <3>1, <3>2, <3>3
      <3>5. B = {} /\ ~FirstBoot(ota)
        BY <1>1, <1>4, <1>5, <1>9, <1>21, <2>4
      <3> QED BY <1>17, <3>4, <3>5 DEF loop
    <2>5. CASE Candidate(ota[g]) /\ g \in B
      <3>1. plan = [boot |-> BootSlot(g, ota[g].seq),
                    writes |-> IF Unproven(ota[g]) THEN Append(marked, W(g, "pending"))
                               ELSE marked]
        BY <1>1, <1>15, <1>16, <2>1, <2>5
      <3>2. writes = IF Unproven(ota[g]) THEN << W(f, "invalid"), W(g, "pending") >>
                     ELSE << W(f, "invalid") >>
        <4>1. /\ Update(f) = << W(f, "invalid") >>
              /\ Update(g) = IF Unproven(ota[g]) THEN << W(g, "pending") >> ELSE << >>
          BY <1>6, <1>9, <1>21, <2>5
        <4>2. writes = Update(f) \o Update(g)
          BY <1>1, <1>4, <1>6, <1>10, <1>21, <2>5 DEF g
        <4> QED BY <1>12, <4>1, <4>2
      <3>3. Append(marked, W(g, "pending")) = << W(f, "invalid"), W(g, "pending") >>
            /\ marked = << W(f, "invalid") >>
        BY <1>1, <1>4, <1>12, <2>2, <2>5
      <3>4. loop = [boot |-> BootSlot(g, ota[g].seq), writes |-> writes]
        BY <1>2, <1>3, <3>1, <3>2, <3>3
      <3>5. B # {} /\ Chosen(ota, good) = g
        BY <1>9, <1>21, <2>5
      <3> QED BY <1>17, <3>4, <3>5 DEF loop
    <2> QED BY <2>3, <2>4, <2>5 DEF loop
  <1> QED BY <1>19, <1>20, <1>21

-------------------------------------------------------------------------------
(***************************************************************************)
(* activate, confirm, reject.                                              *)
(***************************************************************************)

\* A set of naturals that is not empty has a least element.
LEMMA LeastNatural ==
    ASSUME NEW S, S \subseteq Nat, S # {}
    PROVE  \E q \in S : \A p \in S : q <= p
  <1>1. PICK q \in S : \A p \in S : ~(<<p, q>> \in OpToRel(<, Nat))
    BY NatLessThanWellFounded, WFMin
  <1>2. \A p \in S : ~(p < q)
    BY <1>1 DEF OpToRel
  <1> QED BY <1>2

\* Division with remainder: every number has a quotient and a remainder, and a
\* remainder is the one `%` gives.
LEMMA Remainder ==
    ASSUME NEW n \in Nat \ {0}, NEW q \in Nat, NEW r \in 0 .. n - 1
    PROVE  (n * q + r) % n = r
  BY SMTT(30)

LEMMA Division ==
    ASSUME NEW n \in Nat \ {0}, NEW a \in Nat
    PROVE  \E q \in Nat : \E r \in 0 .. n - 1 : a = n * q + r
  <1> DEFINE Divided(b) == \E q \in Nat : \E r \in 0 .. n - 1 : b = n * q + r
             S == {b \in Nat : ~Divided(b)}
  <1>1. \A b \in Nat : b < n => Divided(b)
    <2> SUFFICES ASSUME NEW b \in Nat, b < n PROVE Divided(b)
      OBVIOUS
    <2>1. b = n * 0 + b /\ b \in 0 .. n - 1
      OBVIOUS
    <2> QED BY <2>1
  <1>2. \A b \in Nat : b >= n /\ Divided(b - n) => Divided(b)
    <2> SUFFICES ASSUME NEW b \in Nat, b >= n, Divided(b - n) PROVE Divided(b)
      OBVIOUS
    <2>1. PICK q \in Nat, r \in 0 .. n - 1 : b - n = n * q + r
      OBVIOUS
    <2>2. b = n * (q + 1) + r /\ q + 1 \in Nat
      BY <2>1
    <2> QED BY <2>2
  <1>3. S \subseteq Nat /\ \A b \in Nat : b \in S <=> ~Divided(b)
    OBVIOUS
  <1> HIDE DEF Divided, S
  <1>4. S = {}
    <2> SUFFICES ASSUME S # {} PROVE FALSE
      OBVIOUS
    <2>1. PICK b \in S : \A c \in S : b <= c
      BY <1>3, LeastNatural
    <2>2. b \in Nat /\ ~Divided(b) /\ b >= n
      BY <1>1, <1>3, <2>1
    <2>3. b - n \in Nat /\ b - n < b
      BY <2>2
    <2>4. b - n \notin S
      BY <2>1, <2>2, <2>3
    <2> QED BY <1>2, <1>3, <2>2, <2>3, <2>4
  <1>5. Divided(a)
    BY <1>3, <1>4
  <1> QED BY <1>5 DEF Divided

\* From any number on, one of the next SlotCount sequence numbers selects a given slot.
LEMMA NextOfSlot ==
    ASSUME NEW m \in Nat, NEW target \in Slots
    PROVE  \E q \in m + 1 .. m + SlotCount : SlotOf(q) = target
  <1>1. SlotCount \in Nat \ {0} /\ target \in 0 .. SlotCount - 1
    BY OtadataAssumption DEF Slots
  <1>2. PICK d \in Nat, r \in 0 .. SlotCount - 1 : m = SlotCount * d + r
    BY <1>1, Division
  <1>3. CASE target >= r
    <2> DEFINE q == SlotCount * d + target + 1
    <2>1. q \in m + 1 .. m + SlotCount
      BY <1>1, <1>2, <1>3
    <2>2. (q - 1) = SlotCount * d + target
      BY <1>1
    <2>3. SlotOf(q) = target
      BY <1>1, <2>2, Remainder DEF SlotOf
    <2> QED BY <2>1, <2>3
  <1>4. CASE target < r
    <2> DEFINE q == SlotCount * (d + 1) + target + 1
    <2>1. q \in m + 1 .. m + SlotCount
      <3>1. q = SlotCount * d + SlotCount + target + 1
        BY <1>1
      <3> QED BY <1>1, <1>2, <1>4, <3>1
    <2>2. (q - 1) = SlotCount * (d + 1) + target /\ d + 1 \in Nat
      BY <1>1
    <2>3. SlotOf(q) = target
      BY <1>1, <2>2, Remainder DEF SlotOf
    <2> QED BY <2>1, <2>3
  <1> QED BY <1>1, <1>2, <1>3, <1>4

\* activate finds a sequence number for target above every entry present.
LEMMA ActivateSeqFacts ==
    ASSUME NEW ota \in Otas, NEW target, ActivateResult(ota, target) = "ok"
    PROVE  /\ ActivateSeq(ota, target) \in 1 .. SeqMax
           /\ \A s \in Sectors : ActivateSeq(ota, target) > ota[s].seq
           /\ SlotOf(ActivateSeq(ota, target)) = target
  <1>1. NextSeqs(ota, target) # {} /\ NextSeqs(ota, target) \subseteq Nat
    BY DEF ActivateResult, NextSeqs
  <1>2. ActivateSeq(ota, target) \in NextSeqs(ota, target)
    BY <1>1, LeastNatural DEF ActivateSeq
  <1> QED BY <1>2 DEF NextSeqs, Sectors

\* Its entry goes to the sector that does not hold the last Valid entry.
LEMMA ActivateWriteFacts ==
    ASSUME NEW ota \in Otas, NEW target, ActivateResult(ota, target) = "ok"
    PROVE  /\ ActivateWrite(ota, target) \in Writes
           /\ ActivateWrite(ota, target).sector = Other(Protected(ota))
           /\ ActivateWrite(ota, target).entry = Entry(ActivateSeq(ota, target), "new")
           /\ Protected(ota) \in ValidSectors(ota)
           /\ \A s \in ValidSectors(ota) : ota[s].seq <= ota[Protected(ota)].seq
  <1>1. ValidSectors(ota) # {} /\ ValidSectors(ota) \in SUBSET Sectors
    BY DEF ActivateResult, ValidSectors
  <1>2. /\ Protected(ota) \in ValidSectors(ota)
        /\ \A s \in ValidSectors(ota) : ota[s].seq <= ota[Protected(ota)].seq
    BY <1>1, HighestFacts DEF Protected
  <1>3. Other(Protected(ota)) \in Sectors
    BY <1>1, <1>2, OtherSector
  <1> QED BY <1>2, <1>3, ActivateSeqFacts DEF ActivateWrite, Write, Writes, Entry, Entries, EntryStates

\* confirm and reject rewrite a Pending entry under its own sequence number.
LEMMA VerdictWriteFacts ==
    ASSUME NEW ota \in Otas, PendingSectors(ota) # {}
    PROVE  /\ PendingSector(ota) \in Sectors
           /\ Pending(ota[PendingSector(ota)])
           /\ ConfirmWrite(ota) \in Writes
           /\ ConfirmWrite(ota).sector = PendingSector(ota)
           /\ ConfirmWrite(ota).entry = Entry(ota[PendingSector(ota)].seq, "valid")
           /\ RejectWrite(ota) \in Writes
           /\ RejectWrite(ota).sector = PendingSector(ota)
           /\ RejectWrite(ota).entry = Entry(ota[PendingSector(ota)].seq, "invalid")
  <1>1. PendingSector(ota) \in PendingSectors(ota)
    BY HighestFacts DEF PendingSector, PendingSectors
  <1>2. /\ PendingSector(ota) \in Sectors
        /\ Pending(ota[PendingSector(ota)])
        /\ ota[PendingSector(ota)] \in Cells
    BY <1>1 DEF PendingSectors, Otas
  <1>3. ota[PendingSector(ota)].seq \in 1 .. SeqMax
    BY <1>2, CellFacts, OtadataAssumption DEF Pending, EntryStates, IsEntry
  <1> QED BY <1>2, <1>3 DEF ConfirmWrite, RejectWrite, Write, Writes, Entry, Entries, EntryStates

\* Any slot can be activated from a Valid base, and the search of activate looks at
\* no more than SlotCount sequence numbers, until the range itself is nearly spent.
THEOREM ActivateFinds ==
    ASSUME NEW ota \in Otas, NEW target \in Slots, ValidSectors(ota) # {},
           \A s \in Sectors : ota[s].seq + SlotCount <= SeqMax
    PROVE  /\ ActivateResult(ota, target) = "ok"
           /\ \E s \in Sectors : ActivateSeq(ota, target) <= ota[s].seq + SlotCount
  <1>1. ota[0].seq \in Nat /\ ota[1].seq \in Nat
    BY CellFacts DEF Otas, Sectors
  <1>2. PICK m \in Nat : /\ m = ota[0].seq \/ m = ota[1].seq
                         /\ m >= ota[0].seq /\ m >= ota[1].seq
    BY <1>1
  <1>3. PICK q \in m + 1 .. m + SlotCount : SlotOf(q) = target
    BY NextOfSlot
  <1>4. m + SlotCount <= SeqMax /\ SlotCount \in Nat /\ SeqMax \in Nat
    BY <1>2, OtadataAssumption DEF Sectors
  <1>5. q \in NextSeqs(ota, target)
    BY <1>1, <1>2, <1>3, <1>4 DEF NextSeqs
  <1>6. ActivateSeq(ota, target) \in Nat /\ ActivateSeq(ota, target) <= q
    <2>1. NextSeqs(ota, target) # {} /\ NextSeqs(ota, target) \subseteq Nat
      BY <1>5 DEF NextSeqs
    <2>2. /\ ActivateSeq(ota, target) \in NextSeqs(ota, target)
          /\ \A p \in NextSeqs(ota, target) : ActivateSeq(ota, target) <= p
      BY <2>1, LeastNatural DEF ActivateSeq
    <2> QED BY <1>5, <2>1, <2>2
  <1>7. ActivateResult(ota, target) = "ok"
    BY <1>5 DEF ActivateResult
  <1>8. ActivateSeq(ota, target) <= m + SlotCount
    BY <1>3, <1>4, <1>6
  <1> QED BY <1>2, <1>7, <1>8 DEF Sectors

\* A slot the device does not have is never activated: the search goes through the
\* rest of the range and ends in SequenceExhausted.
THEOREM ActivateRefuses ==
    ASSUME NEW ota \in Otas, NEW target, target \notin Slots
    PROVE  ActivateResult(ota, target) \in {"NoValidBase", "SequenceExhausted"}
  <1>1. \A q \in 1 .. SeqMax : SlotOf(q) \in Slots
    BY SlotOfType, OtadataAssumption
  <1>2. NextSeqs(ota, target) = {}
    BY <1>1 DEF NextSeqs
  <1> QED BY <1>2 DEF ActivateResult
===============================================================================
