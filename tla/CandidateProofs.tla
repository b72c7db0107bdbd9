--------------------------- MODULE CandidateProofs ----------------------------
(***************************************************************************)
(* What is proved of the boot chain's candidate, for any number of slots,  *)
(* any SeqMax and any number of faults: there is one at most, it runs once *)
(* at most, and it never takes a place that is not its own.  And, as long  *)
(* as no image goes bad or is misread, that the boot chain implements      *)
(* TrialUpdate: each of its steps maps to a step of the abstract update or *)
(* to a stutter.                                                           *)
(***************************************************************************)
EXTENDS BootChainProofs, BootChainRefinement

USE DEF Otas

-------------------------------------------------------------------------------
(***************************************************************************)
(* Flash commands.                                                         *)
(***************************************************************************)

\* An update still to make keeps the others apart and leaves the fallback of
\* every candidate alone, whatever its command leaves behind.
LEMMA CandidateChanged ==
    ASSUME TypeOK, CandidateInv, queue # << >>, Changed, tried' = tried,
           queue' \in Seq(Writes),
           \A i \in DOMAIN queue' : \E j \in DOMAIN queue : queue'[i] = queue[j]
    PROVE  SeqsApart' /\ CandidateBacked' /\ CandidateFirst' /\ NewUntried'
  <1> DEFINE h == Head(queue)
  <1>1. 1 \in DOMAIN queue /\ h = queue[1] /\ h.sector \in Sectors
    BY QueueType
  <1>2. \A s \in Sectors :
          \/ s # h.sector /\ flash'[s] = flash[s]
          \/ s = h.sector /\ flash'[s] \in {Blank, Corrupt}
          \/ s = h.sector /\ flash'[s] = h.entry
    BY ChangedFacts
  <1>3. \A c \in {Blank, Corrupt} : ~IsEntry(c) /\ ~InTrial(c) /\ ~Unproven(c)
    BY NoEntry DEF InTrial
  <1>4. \A s \in Sectors : s # h.sector => ~InTrial(flash[s])
    BY DEF CandidateInv, CandidateFirst
  <1> HIDE DEF h
  <1>5. SeqsApart'
    <2>1. DistinctSeqs'
      BY <1>1, <1>2, <1>3 DEF CandidateInv, SeqsApart, DistinctSeqs, Sectors
    <2>2. ASSUME NEW i \in DOMAIN queue', NEW s \in Sectors,
                 IsEntry(flash'[s]), s # queue'[i].sector
          PROVE  flash'[s].seq # queue'[i].entry.seq
      <3>1. PICK j \in DOMAIN queue : queue'[i] = queue[j]
        OBVIOUS
      <3> QED BY <1>1, <1>2, <1>3, <2>2, <3>1 DEF CandidateInv, SeqsApart
    <2>3. \A i, j \in DOMAIN queue' :
            queue'[i].sector # queue'[j].sector => queue'[i].entry.seq # queue'[j].entry.seq
      BY DEF CandidateInv, SeqsApart
    <2> QED BY <2>1, <2>2, <2>3 DEF SeqsApart, IsEntry
  <1>6. \A s \in Sectors : InTrial(flash'[s]) =>
          /\ s = h.sector
          /\ flash'[s] = h.entry
          /\ h.entry.state \in {"new", "pending"}
    BY <1>2, <1>3, <1>4 DEF InTrial, Unproven, Pending
  <1>7. ASSUME NEW i \in DOMAIN queue, queue[i].entry.state \in {"new", "pending"}
        PROVE  /\ h.sector = queue[i].sector
               /\ Valid(flash'[Other(h.sector)])
               /\ flash'[Other(h.sector)].seq < queue[i].entry.seq
    <2>1. h.sector = queue[i].sector /\ Backed(queue[i].sector, queue[i].entry.seq)
      BY <1>1, <1>7 DEF CandidateInv, CandidateBacked
    <2>2. Other(h.sector) \in Sectors /\ Other(h.sector) # h.sector
      BY <1>1, OtherSector
    <2> QED BY <1>2, <2>1, <2>2 DEF Backed
  <1>8. CandidateBacked'
    <2>1. \A s \in Sectors : InTrial(flash'[s]) =>
            Valid(flash'[Other(s)]) /\ flash'[Other(s)].seq < flash'[s].seq
      BY <1>1, <1>6, <1>7
    <2>2. ASSUME NEW i \in DOMAIN queue', queue'[i].entry.state \in {"new", "pending"}
          PROVE  /\ Valid(flash'[Other(queue'[i].sector)])
                 /\ flash'[Other(queue'[i].sector)].seq < queue'[i].entry.seq
                 /\ \A j \in DOMAIN queue' : queue'[j].sector = queue'[i].sector
      <3>1. PICK k \in DOMAIN queue : queue'[i] = queue[k]
        OBVIOUS
      <3>2. \A j \in DOMAIN queue : queue[j].sector = queue[k].sector
        BY <2>2, <3>1 DEF CandidateInv, CandidateBacked
      <3> QED BY <1>7, <2>2, <3>1, <3>2
    <2> QED BY <2>1, <2>2 DEF CandidateBacked, Backed, InTrial, Valid, Unproven, Pending
  <1>9. CandidateFirst'
    <2> SUFFICES ASSUME NEW s \in Sectors, InTrial(flash'[s]), queue' # << >>
                 PROVE  Head(queue').sector = s
      BY DEF CandidateFirst, InTrial, Unproven, Pending
    <2>1. Head(queue') = queue'[1] /\ 1 \in DOMAIN queue'
      <3>1. Head(queue') = queue'[1] /\ Len(queue') \in Nat \ {0}
        BY HeadTailProperties, EmptySeq
      <3> QED BY <3>1, LenProperties
    <2>2. PICK j \in DOMAIN queue : Head(queue') = queue[j]
      BY <2>1
    <2>3. h.entry.state \in {"new", "pending"} /\ s = h.sector
      BY <1>6
    <2>4. queue[j].sector = queue[1].sector
      BY <1>1, <2>3 DEF CandidateInv, CandidateBacked
    <2> QED BY <1>1, <2>2, <2>3, <2>4
  <1>10. NewUntried'
    <2>1. \A s \in Sectors : Unproven(flash'[s]) => flash'[s].seq \notin tried
      BY <1>1, <1>2, <1>3 DEF CandidateInv, NewUntried, Unproven
    <2>2. \A i \in DOMAIN queue' :
            queue'[i].entry.state = "new" => queue'[i].entry.seq \notin tried
      BY DEF CandidateInv, NewUntried
    <2> QED BY <2>1, <2>2 DEF NewUntried, Unproven
  <1> QED BY <1>5, <1>8, <1>9, <1>10

\* The seed's commit word makes the seed readable.
LEMMA SeedReads == AfterCommand(2, Write(0, 1, "valid")) = Entry(1, "valid")
  <1>1. Write(0, 1, "valid").entry = Entry(1, "valid") /\ Entry(1, "valid").seq = 1
    BY DEF Write, Entry
  <1>2. Decode(Entry(1, "valid")) = Entry(1, "valid")
    BY <1>1, OtadataAssumption DEF Decode
  <1> QED BY <1>1, <1>2 DEF AfterCommand

\* A command of the bootloader does not change what it is about to start.
LEMMA BootPlanCommand ==
    ASSUME TypeOK, CandidateInv, FlashCommand, phase = "boot"
    PROVE  BootPlan'
  <1> DEFINE h == Head(queue)
  <1>1. /\ queue # << >>
        /\ Changed
        /\ \A i \in DOMAIN queue' : \E j \in DOMAIN queue : queue'[i] = queue[j]
        /\ Len(queue) = 1 => queue' = << >> \/ (queue' = queue /\ step # 2)
    BY FlashCommandFacts
  <1>2. 1 \in DOMAIN queue /\ h = queue[1] /\ h.sector \in Sectors
    BY <1>1, QueueType
  <1>3. \A s \in Sectors :
          \/ s # h.sector /\ flash'[s] = flash[s]
          \/ s = h.sector /\ flash'[s] \in {Blank, Corrupt}
          \/ s = h.sector /\ flash'[s] = h.entry
    BY <1>1, ChangedFacts
  <1>4. \A c \in {Blank, Corrupt} : ~IsEntry(c) /\ ~Unproven(c)
    BY NoEntry
  <1>5. UNCHANGED <<boot, tried, phase>>
    BY DEF FlashCommand
  <1> HIDE DEF h
  <1>6. h.entry.state # "new"
    BY <1>2 DEF CandidateInv, BootPlan
  <1>7. \A s \in Sectors : ~Unproven(flash'[s])
    <2>1. \A s \in Sectors : s # h.sector => ~Unproven(flash[s])
      BY <1>1 DEF CandidateInv, CandidateFirst, InTrial, h
    <2>2. ~Unproven(h.entry)
      BY <1>6 DEF Unproven
    <2> QED BY <1>3, <1>4, <2>1, <2>2
  <1>8. \A i \in DOMAIN queue' : queue'[i].entry.state # "new"
    BY <1>1 DEF CandidateInv, BootPlan
  <1>9. ASSUME boot.kind = "slot"
        PROVE  /\ IsEntry(flash'[boot.sector]) => flash'[boot.sector].seq = boot.seq
               /\ \A i \in DOMAIN queue' :
                    queue'[i].sector = boot.sector => queue'[i].entry.seq = boot.seq
               /\ \/ boot.seq \notin tried
                  \/ /\ Valid(flash'[boot.sector])
                     /\ \A i \in DOMAIN queue' : queue'[i].sector # boot.sector
                  \/ boot.sector = 0 /\ queue' = << Write(0, 1, "valid") >>
    <2>1. boot.sector \in Sectors
      BY <1>9 DEF TypeOK, Boots, NoBoot, BootHalt, HaltKinds
    <2>2. \A i \in DOMAIN queue :
            queue[i].sector = boot.sector => queue[i].entry.seq = boot.seq
      BY <1>9 DEF CandidateInv, BootPlan
    <2>3. IsEntry(flash'[boot.sector]) => flash'[boot.sector].seq = boot.seq
      BY <1>2, <1>3, <1>4, <1>9, <2>1, <2>2 DEF CandidateInv, BootPlan
    <2>4. CASE boot.seq \notin tried
      BY <1>1, <2>2, <2>3, <2>4
    <2>5. CASE /\ Valid(flash[boot.sector])
               /\ \A i \in DOMAIN queue : queue[i].sector # boot.sector
      <3>1. flash'[boot.sector] = flash[boot.sector]
        BY <1>2, <1>3, <2>1, <2>5
      <3> QED BY <1>1, <2>2, <2>3, <2>5, <3>1
    <2>6. CASE boot.sector = 0 /\ queue = << Write(0, 1, "valid") >>
      <3>1. Len(queue) = 1 /\ h = Write(0, 1, "valid") /\ h.sector = 0
        BY <2>6 DEF h, Write
      <3>2. CASE step # 2
        <4>1. queue' = queue
          BY <3>2 DEF FlashCommand
        <4> QED BY <2>2, <2>3, <2>6, <4>1
      <3>3. CASE step = 2
        <4>1. queue' = << >>
          BY <1>1, <3>1, <3>3
        <4>2. flash'[0] = AfterCommand(2, h)
          BY <3>1, <3>3 DEF FlashCommand, Reads, TypeOK, Sectors, h
        <4>3. Valid(flash'[0])
          BY <3>1, <4>2, SeedReads DEF Valid, Entry
        <4> QED BY <2>3, <2>6, <4>1, <4>3
      <3> QED BY <3>2, <3>3
    <2> QED BY <1>9, <2>4, <2>5, <2>6 DEF CandidateInv, BootPlan
  <1> QED BY <1>5, <1>7, <1>8, <1>9 DEF BootPlan, Unproven, IsEntry, Valid

-------------------------------------------------------------------------------
(***************************************************************************)
(* The plan.                                                               *)
(***************************************************************************)

\* Marks keep the sequence numbers of their sectors; a candidate is marked before
\* its fallback, and when it is to be started its fallback is not marked at all.
LEMMA CandidateMarks ==
    ASSUME TypeOK, CandidateInv, NEW good, flash' = flash, tried' = tried,
           queue' = MarkWrites(flash, good)
    PROVE  /\ SeqsApart' /\ CandidateBacked' /\ CandidateFirst' /\ NewUntried'
           /\ \A s \in Sectors : Unproven(flash[s]) => queue' # << >>
           /\ \A i \in DOMAIN queue' : queue'[i].entry.state # "new"
           /\ \A i \in DOMAIN queue' : \E s \in Sectors :
                /\ queue'[i].sector = s
                /\ queue'[i].entry.seq = flash[s].seq
                /\ Mark(flash, good, s) # "keep"
  <1>1. flash \in Otas
    BY DEF TypeOK
  <1>2. \A i \in DOMAIN queue' : \E s \in Sectors :
          /\ queue'[i].sector = s
          /\ queue'[i].entry.seq = flash[s].seq
          /\ queue'[i].entry.state = Mark(flash, good, s)
          /\ Mark(flash, good, s) \in {"aborted", "invalid", "pending"}
          /\ IsEntry(flash[s])
    BY <1>1, MarkWritesFacts, MarkFacts DEF MarkOf, Write, Entry
  <1>3. ASSUME NEW s \in Sectors, InTrial(flash[s])
        PROVE  /\ queue' # << >>
               /\ Head(queue').sector = s
               /\ Mark(flash, good, s) = "pending" => Mark(flash, good, Other(s)) = "keep"
    <2>1. Valid(flash[Other(s)]) /\ flash[Other(s)].seq < flash[s].seq
      BY <1>3 DEF CandidateInv, CandidateBacked, Backed
    <2>2. /\ FirstMarked(flash) = s
          /\ Mark(flash, good, s) # "keep"
          /\ Mark(flash, good, s) = "pending" => Mark(flash, good, Other(s)) = "keep"
      BY <1>1, <1>3, <2>1, TrialMarked DEF InTrial
    <2> QED BY <1>1, <2>2, MarkWritesFirst
  <1>4. SeqsApart'
    <2>1. \A s, t \in Sectors : IsEntry(flash[s]) /\ IsEntry(flash[t]) /\ s # t =>
            flash[s].seq # flash[t].seq
      BY DEF CandidateInv, SeqsApart, DistinctSeqs, Sectors
    <2>2. DistinctSeqs'
      BY DEF CandidateInv, SeqsApart, DistinctSeqs
    <2> QED BY <1>2, <2>1, <2>2 DEF SeqsApart
  <1>5. CandidateFirst'
    BY <1>3 DEF CandidateFirst
  <1>6. CandidateBacked'
    <2>1. ASSUME NEW i \in DOMAIN queue', queue'[i].entry.state \in {"new", "pending"}
          PROVE  /\ Backed(queue'[i].sector, queue'[i].entry.seq)
                 /\ \A j \in DOMAIN queue' : queue'[j].sector = queue'[i].sector
      <3>1. PICK s \in Sectors : /\ queue'[i].sector = s
                                 /\ queue'[i].entry.seq = flash[s].seq
                                 /\ Mark(flash, good, s) = "pending"
        BY <1>2, <2>1
      <3>2. InTrial(flash[s])
        BY <1>1, <3>1, MarkFacts DEF InTrial
      <3>3. Backed(s, flash[s].seq)
        BY <3>2 DEF CandidateInv, CandidateBacked
      <3>4. ASSUME NEW j \in DOMAIN queue' PROVE queue'[j].sector = s
        <4>1. PICK t \in Sectors : /\ queue'[j].sector = t
                                   /\ Mark(flash, good, t) # "keep"
          BY <1>2
        <4>2. t # Other(s)
          BY <1>3, <3>1, <3>2, <4>1
        <4> QED BY <4>1, <4>2, OtherSector
      <3> QED BY <3>1, <3>3, <3>4
    <2> QED BY <2>1 DEF CandidateBacked, Backed, CandidateInv
  <1>7. NewUntried'
    BY <1>2 DEF NewUntried, CandidateInv
  <1>8. \A s \in Sectors : Unproven(flash[s]) => queue' # << >>
    BY <1>3 DEF InTrial
  <1> QED BY <1>2, <1>4, <1>5, <1>6, <1>7, <1>8

\* A plan without marks: nothing is in the sectors, at most the seed in the queue.
LEMMA CandidateFirstBoot ==
    ASSUME TypeOK, FirstBoot(flash), flash' = flash, tried' = tried,
           queue' = << Write(0, 1, "valid") >> \/ queue' = << >>
    PROVE  /\ SeqsApart' /\ CandidateBacked' /\ CandidateFirst' /\ NewUntried'
           /\ \A s \in Sectors : ~Unproven(flash[s]) /\ ~IsEntry(flash[s])
           /\ \A i \in DOMAIN queue' :
                queue'[i].entry.state = "valid" /\ queue'[i].entry.seq = 1
  <1>1. \A s \in Sectors : /\ ~Unproven(flash[s]) /\ ~IsEntry(flash[s])
                           /\ ~InTrial(flash[s])
    BY NoEntry DEF FirstBoot, InTrial
  <1>2. \A i \in DOMAIN queue' : /\ queue'[i].entry.state = "valid"
                                 /\ queue'[i].entry.seq = 1
                                 /\ queue'[i].sector = 0
    BY DEF Write, Entry
  <1>3. SeqsApart'
    BY <1>1, <1>2 DEF SeqsApart, DistinctSeqs, Sectors
  <1>4. CandidateBacked' /\ CandidateFirst' /\ NewUntried'
    BY <1>1, <1>2 DEF CandidateBacked, CandidateFirst, NewUntried
  <1> QED BY <1>1, <1>2, <1>3, <1>4

LEMMA CandidatePowerOn ==
    ASSUME TypeOK, CandidateInv, NEW good \in SUBSET images, PowerOn(good)
    PROVE  CandidateInv'
  <1> DEFINE c == Chosen(flash, good)
             ws == MarkWrites(flash, good)
  <1>1. /\ flash \in Otas
        /\ UNCHANGED <<flash, tried>>
        /\ phase' = "boot"
        /\ queue' = PlanBoot(flash, good).writes
        /\ boot' = PlanBoot(flash, good).boot
    BY DEF TypeOK, PowerOn, history
  <1>2. NothingRunsOff'
    BY <1>1 DEF NothingRunsOff
  <1>3. CASE /\ Bootable(flash, good) # {}
             /\ PlanBoot(flash, good).boot = BootSlot(c, flash[c].seq)
             /\ PlanBoot(flash, good).writes = ws
    <2>1. /\ SeqsApart' /\ CandidateBacked' /\ CandidateFirst' /\ NewUntried'
          /\ \A s \in Sectors : Unproven(flash[s]) => queue' # << >>
          /\ \A i \in DOMAIN queue' : queue'[i].entry.state # "new"
          /\ \A i \in DOMAIN queue' : \E s \in Sectors :
               /\ queue'[i].sector = s
               /\ queue'[i].entry.seq = flash[s].seq
               /\ Mark(flash, good, s) # "keep"
      BY <1>1, <1>3, CandidateMarks
    <2>2. boot'.seq = flash[c].seq /\ boot'.sector = c
      BY <1>1, <1>3 DEF BootSlot
    <2>3. /\ c \in Sectors
          /\ c \in Bootable(flash, good)
          /\ Candidate(flash[c])
      BY <1>1, <1>3, ChosenFacts
    <2>4. CASE Unproven(flash[c])
      <3>1. boot'.seq \notin tried
        BY <2>2, <2>3, <2>4 DEF CandidateInv, NewUntried
      <3> HIDE DEF c, ws
      <3>2. BootPlan'
        BY <1>1, <2>1, <2>2, <3>1 DEF BootPlan
      <3> QED BY <1>2, <2>1, <3>2 DEF CandidateInv
    <2>5. CASE Valid(flash[c])
      <3>1. Mark(flash, good, c) = "keep"
        BY <1>1, <2>3, <2>5, MarkFacts
      <3> HIDE DEF c, ws
      <3>2. BootPlan'
        BY <1>1, <2>1, <2>2, <2>5, <3>1 DEF BootPlan
      <3> QED BY <1>2, <2>1, <3>2 DEF CandidateInv
    <2> QED BY <2>3, <2>4, <2>5 DEF Candidate
  <1>4. CASE /\ FirstBoot(flash)
             /\ PlanBoot(flash, good).boot = BootSlot(0, 1)
             /\ PlanBoot(flash, good).writes = << Write(0, 1, "valid") >>
    <2>1. /\ boot'.seq = 1 /\ boot'.sector = 0
          /\ queue' = << Write(0, 1, "valid") >>
      BY <1>1, <1>4 DEF BootSlot
    <2>2. /\ SeqsApart' /\ CandidateBacked' /\ CandidateFirst' /\ NewUntried'
          /\ \A s \in Sectors : ~Unproven(flash[s]) /\ ~IsEntry(flash[s])
          /\ \A i \in DOMAIN queue' :
               queue'[i].entry.state = "valid" /\ queue'[i].entry.seq = 1
      BY <1>1, <1>4, <2>1, CandidateFirstBoot
    <2>3. BootPlan'
      BY <1>1, <2>1, <2>2 DEF BootPlan, Sectors
    <2> QED BY <1>2, <2>2, <2>3 DEF CandidateInv
  <1>5. CASE /\ \E why \in HaltKinds : PlanBoot(flash, good).boot = BootHalt(why)
             /\ PlanBoot(flash, good).writes = ws
    <2>1. boot'.kind # "slot"
      BY <1>1, <1>5 DEF BootHalt, HaltKinds
    <2>2. /\ SeqsApart' /\ CandidateBacked' /\ CandidateFirst' /\ NewUntried'
          /\ \A s \in Sectors : Unproven(flash[s]) => queue' # << >>
          /\ \A i \in DOMAIN queue' : queue'[i].entry.state # "new"
      BY <1>1, <1>5, CandidateMarks
    <2>3. BootPlan'
      BY <1>1, <2>1, <2>2 DEF BootPlan
    <2> QED BY <1>2, <2>2, <2>3 DEF CandidateInv
  <1>6. CASE /\ \E why \in HaltKinds : PlanBoot(flash, good).boot = BootHalt(why)
             /\ FirstBoot(flash)
             /\ PlanBoot(flash, good).writes = << >>
    <2>1. boot'.kind # "slot"
      BY <1>1, <1>6 DEF BootHalt, HaltKinds
    <2>2. /\ SeqsApart' /\ CandidateBacked' /\ CandidateFirst' /\ NewUntried'
          /\ \A s \in Sectors : ~Unproven(flash[s])
          /\ \A i \in DOMAIN queue' : queue'[i].entry.state = "valid"
      BY <1>1, <1>6, CandidateFirstBoot
    <2>3. BootPlan'
      BY <1>1, <2>1, <2>2 DEF BootPlan
    <2> QED BY <1>2, <2>2, <2>3 DEF CandidateInv
  <1> HIDE DEF c, ws
  <1> QED BY <1>1, <1>3, <1>4, <1>5, <1>6, PlanCases DEF c, ws

-------------------------------------------------------------------------------
(***************************************************************************)
(* The application, and the induction.                                     *)
(***************************************************************************)

\* An update of the application: for the one sector a candidate may be in.
LEMMA CandidateUpdate ==
    ASSUME TypeOK, CandidateInv, Idle, NEW w \in Writes, queue' = << w >>,
           UNCHANGED <<flash, phase, boot>>, tried' \subseteq tried,
           \A s \in Sectors : InTrial(flash[s]) => s = w.sector,
           \A s \in Sectors : IsEntry(flash[s]) /\ s # w.sector => flash[s].seq # w.entry.seq,
           w.entry.state # "pending",
           w.entry.state = "new" =>
               Backed(w.sector, w.entry.seq) /\ w.entry.seq \notin tried'
    PROVE  CandidateInv'
  <1>1. DOMAIN queue' = {1} /\ queue'[1] = w /\ Head(queue') = w
    BY OneUpdate
  <1>2. phase' = "app"
    BY DEF Idle
  <1>3. SeqsApart'
    BY <1>1 DEF CandidateInv, SeqsApart, DistinctSeqs
  <1>4. CandidateBacked'
    BY <1>1 DEF CandidateInv, CandidateBacked, Backed
  <1>5. CandidateFirst'
    BY <1>1 DEF CandidateFirst
  <1>6. NewUntried'
    BY <1>1 DEF CandidateInv, NewUntried
  <1>7. BootPlan' /\ NothingRunsOff'
    BY <1>2 DEF BootPlan, NothingRunsOff
  <1> QED BY <1>3, <1>4, <1>5, <1>6, <1>7 DEF CandidateInv

\* confirm and reject: the Pending entry is the only one in trial.
LEMMA CandidateVerdict ==
    ASSUME TypeOK, CandidateInv, Idle, PendingSectors(flash) # {},
           NEW w \in Writes, queue' = << w >>,
           w.sector = PendingSector(flash),
           w.entry.seq = flash[PendingSector(flash)].seq,
           w.entry.state \in {"valid", "invalid"},
           UNCHANGED <<flash, phase, boot, tried>>
    PROVE  CandidateInv'
  <1> DEFINE p == PendingSector(flash)
  <1>1. p \in Sectors /\ Pending(flash[p]) /\ flash \in Otas
    BY VerdictWriteFacts DEF TypeOK
  <1> HIDE DEF p
  <1>2. IsEntry(flash[p]) /\ InTrial(flash[p])
    BY <1>1 DEF Pending, IsEntry, EntryStates, InTrial
  <1>3. \A s \in Sectors : InTrial(flash[s]) => s = p
    <2>1. Valid(flash[Other(p)])
      BY <1>1, <1>2 DEF CandidateInv, CandidateBacked, Backed
    <2>2. ~InTrial(flash[Other(p)])
      BY <2>1 DEF Valid, InTrial, Unproven, Pending
    <2> QED BY <1>1, <2>2, OtherSector
  <1>4. \A s \in Sectors : IsEntry(flash[s]) /\ s # p => flash[s].seq # flash[p].seq
    BY <1>1, <1>2 DEF CandidateInv, SeqsApart, DistinctSeqs, Sectors
  <1> QED BY <1>3, <1>4, CandidateUpdate DEF p

LEMMA CandidateInit == Init => CandidateInv
  <1> SUFFICES ASSUME Init PROVE CandidateInv
    OBVIOUS
  <1>1. \A s \in Sectors : ~Unproven(flash[s]) /\ ~IsEntry(flash[s]) /\ ~InTrial(flash[s])
    BY NoEntry DEF Init, InTrial
  <1>2. SeqsApart /\ CandidateBacked /\ CandidateFirst /\ NewUntried
    BY <1>1 DEF Init, SeqsApart, DistinctSeqs, Sectors, CandidateBacked, CandidateFirst,
                NewUntried
  <1>3. BootPlan /\ NothingRunsOff
    BY DEF Init, BootPlan, NothingRunsOff
  <1> QED BY <1>2, <1>3 DEF CandidateInv

LEMMA CandidateStep == TypeOK /\ TrustInv /\ CandidateInv /\ [Next]_vars => CandidateInv'
  <1> SUFFICES ASSUME TypeOK, TrustInv, CandidateInv, [Next]_vars PROVE CandidateInv'
    OBVIOUS
  <1>a. flash \in Otas
    BY DEF TypeOK
  <1> DEFINE Parts == SeqsApart /\ CandidateBacked /\ CandidateFirst /\ NewUntried
  <1>b. ASSUME UNCHANGED <<flash, queue, tried>> PROVE Parts'
    BY <1>b DEF CandidateInv, SeqsApart, DistinctSeqs, CandidateBacked, Backed, CandidateFirst,
                NewUntried
  <1>1. CASE Boot
    BY <1>1, CandidatePowerOn DEF Boot
  <1>2. CASE FlashCommand
    <2>1. /\ queue # << >>
          /\ Changed
          /\ queue' \in Seq(Writes)
          /\ \A i \in DOMAIN queue' : \E j \in DOMAIN queue : queue'[i] = queue[j]
          /\ UNCHANGED <<tried, phase, boot>>
      BY <1>2, FlashCommandFacts DEF FlashCommand
    <2>2. Parts'
      BY <2>1, CandidateChanged
    <2>3. BootPlan'
      BY <1>2, <2>1, BootPlanCommand DEF BootPlan
    <2> QED BY <2>1, <2>2, <2>3 DEF CandidateInv, NothingRunsOff
  <1>3. CASE Launch
    <2>1. /\ queue = << >> /\ phase = "boot" /\ phase' \in {"app", "halt"}
          /\ UNCHANGED <<flash, queue>>
      BY <1>3 DEF Launch
    <2>2. \A s \in Sectors : ~Unproven(flash[s])
      BY <2>1 DEF CandidateInv, BootPlan
    <2>3. NewUntried'
      BY <2>1, <2>2 DEF NewUntried
    <2>4. SeqsApart' /\ CandidateBacked' /\ CandidateFirst'
      BY <2>1 DEF CandidateInv, SeqsApart, DistinctSeqs, CandidateBacked, Backed, CandidateFirst
    <2> QED BY <2>1, <2>3, <2>4 DEF CandidateInv, BootPlan, NothingRunsOff
  <1>4. CASE \E slot \in Slots : Stage(slot)
    <2>1. phase' = "app" /\ UNCHANGED <<flash, queue, tried>>
      BY <1>4 DEF Stage, Idle
    <2> QED BY <1>b, <2>1 DEF CandidateInv, BootPlan, NothingRunsOff
  <1>5. CASE \E target \in Slots : Activate(target)
    <2>1. PICK target \in Slots : Activate(target)
      BY <1>5
    <2> DEFINE q == ActivateSeq(flash, target)
               w == ActivateWrite(flash, target)
               p == Protected(flash)
    <2>2. /\ ActivateResult(flash, target) = "ok"
          /\ Idle
          /\ queue' = << w >>
          /\ tried' = tried \ {q}
          /\ UNCHANGED <<flash, phase, boot>>
      BY <2>1 DEF Activate
    <2>3. /\ w \in Writes
          /\ w.sector = Other(p)
          /\ w.entry = Entry(q, "new")
          /\ p \in ValidSectors(flash)
      BY <1>a, <2>2, ActivateWriteFacts
    <2>4. q \in Nat /\ \A s \in Sectors : q > flash[s].seq
      BY <1>a, <2>2, ActivateSeqFacts
    <2>5. \A s \in Sectors : flash[s].seq \in Nat
      BY <1>a, CellFacts
    <2> HIDE DEF q, w, p
    <2>6. p \in Sectors /\ Valid(flash[p]) /\ ~InTrial(flash[p])
      BY <2>3 DEF ValidSectors, Valid, InTrial, Unproven, Pending
    <2>7. w.entry.seq = q /\ w.entry.state = "new" /\ Other(w.sector) = p
      BY <2>3, <2>6 DEF Entry, Other, Sectors
    <2>8. Backed(w.sector, q)
      BY <2>4, <2>6, <2>7 DEF Backed
    <2>9. \A s \in Sectors : InTrial(flash[s]) => s = w.sector
      BY <2>3, <2>6, OtherSector
    <2>10. \A s \in Sectors : flash[s].seq # q
      BY <2>4, <2>5
    <2> QED BY <2>2, <2>3, <2>7, <2>8, <2>9, <2>10, CandidateUpdate
  <1>6. CASE Confirm
    <2>1. PendingSectors(flash) # {}
      BY <1>6 DEF Confirm
    <2>2. /\ ConfirmWrite(flash) \in Writes
          /\ ConfirmWrite(flash).sector = PendingSector(flash)
          /\ ConfirmWrite(flash).entry = Entry(flash[PendingSector(flash)].seq, "valid")
      BY <1>a, <2>1, VerdictWriteFacts
    <2>3. /\ ConfirmWrite(flash).entry.seq = flash[PendingSector(flash)].seq
          /\ ConfirmWrite(flash).entry.state = "valid"
      BY <2>2 DEF Entry
    <2> QED BY <1>6, <2>1, <2>2, <2>3, CandidateVerdict DEF Confirm
  <1>7. CASE Reject
    <2>1. PendingSectors(flash) # {}
      BY <1>7 DEF Reject
    <2>2. /\ RejectWrite(flash) \in Writes
          /\ RejectWrite(flash).sector = PendingSector(flash)
          /\ RejectWrite(flash).entry = Entry(flash[PendingSector(flash)].seq, "invalid")
      BY <1>a, <2>1, VerdictWriteFacts
    <2>3. /\ RejectWrite(flash).entry.seq = flash[PendingSector(flash)].seq
          /\ RejectWrite(flash).entry.state = "invalid"
      BY <2>2 DEF Entry
    <2> QED BY <1>7, <2>1, <2>2, <2>3, CandidateVerdict DEF Reject, history
  <1>8. CASE WriteFails \/ PowerCut
    <2>1. /\ Interrupted
          /\ tried' = tried
          /\ \/ phase = "app" /\ phase' = "app"
             \/ phase' = "off" /\ boot' = NoBoot
      BY <1>8 DEF WriteFails, PowerCut
    <2>2. BootPlan' /\ NothingRunsOff'
      BY <2>1 DEF BootPlan, NothingRunsOff
    <2>3. /\ queue' = << >>
          /\ queue' \in Seq(Writes)
          /\ UNCHANGED flash \/ (queue # << >> /\ Changed)
      BY <2>1, InterruptedFacts, EmptySeq
    <2>4. CASE UNCHANGED flash
      BY <2>1, <2>2, <2>3, <2>4 DEF CandidateInv, SeqsApart, DistinctSeqs, CandidateBacked, Backed,
                                CandidateFirst, NewUntried
    <2>5. CASE queue # << >> /\ Changed
      <3>1. \A i \in DOMAIN queue' : \E j \in DOMAIN queue : queue'[i] = queue[j]
        BY <2>3
      <3>2. Parts'
        BY <2>1, <2>3, <2>5, <3>1, CandidateChanged
      <3> QED BY <2>2, <3>2 DEF CandidateInv
    <2> QED BY <2>3, <2>4, <2>5
  <1>9. CASE Reset
    <2>1. phase' = "off" /\ boot' = NoBoot /\ UNCHANGED <<flash, queue, tried>>
      BY <1>9 DEF Reset, history
    <2> QED BY <1>b, <2>1 DEF CandidateInv, BootPlan, NothingRunsOff
  <1>10. CASE \E slot \in Slots : Rot(slot)
    <2>1. phase = "off" /\ UNCHANGED <<phase, boot, flash, queue, tried>>
      BY <1>10 DEF Rot, history
    <2> QED BY <1>b, <2>1 DEF CandidateInv, BootPlan, NothingRunsOff
  <1>11. CASE UNCHANGED vars
    <2>1. UNCHANGED <<phase, boot, flash, queue, tried>>
      BY <1>11 DEF vars
    <2> QED BY <1>b, <2>1 DEF CandidateInv, BootPlan, NothingRunsOff
  <1> QED BY <1>1, <1>2, <1>3, <1>4, <1>5, <1>6, <1>7, <1>8, <1>9, <1>10, <1>11 DEF Next

-------------------------------------------------------------------------------
(***************************************************************************)
(* The updates, for the refinement of TrialUpdate.                         *)
(***************************************************************************)

\* No command of the application makes an entry Pending.
LEMMA AppPending ==
    ASSUME TypeOK, TrustInv, phase = "app", UNCHANGED flash \/ (queue # << >> /\ Changed),
           NEW s \in Sectors, Pending(flash'[s])
    PROVE  flash'[s] = flash[s]
  <1>1. ASSUME queue # << >>, flash'[s] = Head(queue).entry PROVE FALSE
    <2>1. 1 \in DOMAIN queue /\ Head(queue) = queue[1]
      BY <1>1, QueueType
    <2> QED BY <1>1, <2>1 DEF TrustInv, PendingWrites, Pending
  <1> QED BY <1>1, ChangedFacts, NoEntry

LEMMA UpdateCommand ==
    ASSUME TypeOK, TrustInv, UpdateInv, FlashCommand
    PROVE  UpdateInv'
  <1> DEFINE h == Head(queue)
  <1>1. /\ queue # << >>
        /\ Changed
        /\ \A i \in DOMAIN queue' : \E j \in DOMAIN queue : queue'[i] = queue[j]
        /\ Len(queue) = 1 => queue' = << >> \/ (queue' = queue /\ step # 2)
        /\ UNCHANGED <<phase, tried, faults>>
    BY FlashCommandFacts DEF FlashCommand
  <1>2. /\ 1 \in DOMAIN queue
        /\ h = queue[1]
        /\ h.sector \in Sectors
        /\ \A i \in DOMAIN Tail(queue) :
             i \in Nat /\ i >= 1 /\ i + 1 \in DOMAIN queue /\ Tail(queue)[i] = queue[i + 1]
    BY <1>1, QueueType
  <1>3. flash' = [flash EXCEPT ![h.sector] = AfterCommand(step, h)] /\ step \in 0 .. 2
    BY DEF FlashCommand, Reads, TypeOK
  <1>4. flash'[h.sector] = AfterCommand(step, h)
    BY <1>2, <1>3 DEF TypeOK
  <1>5. \A s \in Sectors : s # h.sector => flash'[s] = flash[s]
    BY <1>2, <1>3 DEF TypeOK
  <1>6. \A i \in DOMAIN queue : queue[i].sector \in Sectors
    <2>1. \A i \in DOMAIN queue : queue[i] \in Writes
      BY DEF TypeOK
    <2> QED BY <2>1 DEF Writes
  <1>7. CASE step # 2
    <2>1. queue' = queue /\ lastValid' = lastValid
      BY <1>7 DEF FlashCommand, Reads
    <2>2. ~IsEntry(flash'[h.sector])
      BY <1>3, <1>4, <1>7, NoEntry DEF AfterCommand
    <2> HIDE DEF h
    <2>3. UpdatesApart'
      BY <2>1, <2>2 DEF UpdateInv, UpdatesApart, IsEntry, h
    <2>4. RewritesInPlace'
      <3> SUFFICES ASSUME NEW i \in DOMAIN queue, IsEntry(flash'[queue[i].sector])
                   PROVE  flash'[queue[i].sector] = flash[queue[i].sector]
        BY <2>1 DEF UpdateInv, RewritesInPlace, IsEntry, Unproven, Pending
      <3> QED BY <1>5, <1>6, <2>2
    <2>5. \A s \in Sectors : phase' = "app" /\ Pending(flash'[s]) => flash'[s].seq \in tried'
      BY <1>1, AppPending DEF UpdateInv, TrialRan
    <2>6. TrialRan'
      BY <1>1, <2>1, <2>5 DEF UpdateInv, TrialRan, Pending
    <2> QED BY <2>3, <2>4, <2>6 DEF UpdateInv
  <1>8. CASE step = 2
    <2>1. queue' = Tail(queue) /\ step' = 0
      BY <1>8 DEF FlashCommand
    <2> HIDE DEF h
    <2>2. UpdatesApart'
      <3> SUFFICES ASSUME NEW i \in DOMAIN queue', NEW j \in DOMAIN queue',
                          queue'[i].sector = queue'[j].sector
                   PROVE  i = j
        BY <2>1 DEF UpdatesApart
      <3>1. i + 1 = j + 1
        BY <1>2, <2>1 DEF UpdateInv, UpdatesApart
      <3> QED BY <1>2, <2>1, <3>1
    <2>3. RewritesInPlace'
      <3> SUFFICES ASSUME NEW i \in DOMAIN queue'
                   PROVE  /\ i + 1 \in DOMAIN queue
                          /\ queue'[i] = queue[i + 1]
                          /\ flash'[queue[i + 1].sector] = flash[queue[i + 1].sector]
        BY DEF UpdateInv, RewritesInPlace, IsEntry, Unproven, Pending
      <3>1. i + 1 \in DOMAIN queue /\ queue'[i] = queue[i + 1] /\ i + 1 # 1
        BY <1>2, <2>1
      <3>2. queue[i + 1].sector # h.sector
        BY <1>2, <3>1 DEF UpdateInv, UpdatesApart
      <3> QED BY <1>5, <1>6, <3>1, <3>2
    <2>4. \A s \in Sectors : phase' = "app" /\ Pending(flash'[s]) => flash'[s].seq \in tried'
      BY <1>1, AppPending DEF UpdateInv, TrialRan
    <2>5. \A i \in DOMAIN queue' : queue'[i].entry.state # "valid"
      BY <1>1, <1>8 DEF TrustInv, ValidWrites
    <2>6. TrialRan'
      BY <2>4, <2>5 DEF TrialRan, Pending
    <2> QED BY <2>2, <2>3, <2>6 DEF UpdateInv
  <1> QED BY <1>7, <1>8

LEMMA UpdatePowerOn ==
    ASSUME TypeOK, TrustInv, FallbackInv, NEW good \in SUBSET images, PowerOn(good)
    PROVE  UpdateInv'
  <1>1. /\ flash \in Otas
        /\ UNCHANGED <<flash, step, lastValid>>
        /\ step = 0
        /\ phase' = "boot"
        /\ queue' = PlanBoot(flash, good).writes
        /\ faults' = 0 => faults = 0
    <2>1. step = 0
      BY DEF TrustInv, QueueOK, PowerOn
    <2>2. faults' = 0 => faults = 0
      BY DEF PowerOn, TypeOK
    <2> QED BY <2>1, <2>2 DEF TypeOK, PowerOn, history
  <1>2. CASE PlanBoot(flash, good).writes = MarkWrites(flash, good)
    <2>1. /\ \A i \in DOMAIN queue' : \E s \in Sectors :
               /\ queue'[i].sector = s
               /\ queue'[i].entry.seq = flash[s].seq
               /\ queue'[i].entry.state = Mark(flash, good, s)
               /\ queue'[i].entry.state \in {"aborted", "invalid", "pending"}
               /\ Mark(flash, good, s) = "pending" => Unproven(flash[s])
          /\ \A i, j \in DOMAIN queue' : queue'[i].sector = queue'[j].sector => i = j
      BY <1>1, <1>2, MarkWritesFacts, MarkFacts DEF MarkOf, Write, Entry
    <2>2. UpdatesApart'
      BY <1>1, <2>1 DEF UpdatesApart
    <2>3. RewritesInPlace'
      BY <1>1, <2>1 DEF RewritesInPlace
    <2>4. TrialRan'
      BY <1>1, <2>1 DEF TrialRan
    <2> QED BY <2>2, <2>3, <2>4 DEF UpdateInv
  <1>3. CASE /\ FirstBoot(flash)
             /\ PlanBoot(flash, good).writes \in {<< >>, << Write(0, 1, "valid") >>}
    <2>1. /\ \A i \in DOMAIN queue' : /\ i = 1
                                      /\ queue'[i].sector = 0
                                      /\ queue'[i].entry.seq = 1
      BY <1>1, <1>3 DEF Write, Entry
    <2>2. \A s \in Sectors : ~IsEntry(flash[s])
      BY <1>3, NoEntry DEF FirstBoot
    <2>3. faults = 0 => lastValid = 0
      <3>1. ASSUME faults = 0, lastValid # 0 PROVE FALSE
        <4>1. PICK s \in Sectors : flash[s] = Entry(lastValid, "valid")
          BY <3>1 DEF FallbackInv, FallbackUntouched
        <4> QED BY <2>2, <4>1 DEF Entry, IsEntry, EntryStates
      <3> QED BY <3>1
    <2>4. UpdatesApart' /\ RewritesInPlace'
      BY <1>1, <2>1, <2>2 DEF UpdatesApart, RewritesInPlace, Sectors
    <2>5. TrialRan'
      BY <1>1, <2>1, <2>3 DEF TrialRan
    <2> QED BY <2>4, <2>5 DEF UpdateInv
  <1> QED BY <1>1, <1>2, <1>3, PlanCases

\* An update of the application is alone; what it makes Valid is Pending and ran.
LEMMA UpdateUpdate ==
    ASSUME TypeOK, TrustInv, UpdateInv, Idle, NEW w \in Writes, queue' = << w >>,
           UNCHANGED <<flash, phase, step, faults, lastValid>>,
           \A s \in Sectors : flash[s].seq \in tried => flash[s].seq \in tried',
           w.entry.state # "pending",
           w.entry.state = "valid" => /\ Pending(flash[w.sector])
                                      /\ flash[w.sector].seq = w.entry.seq
                                      /\ faults = 0 => lastValid # 0
    PROVE  UpdateInv'
  <1>1. DOMAIN queue' = {1} /\ queue'[1] = w /\ w.sector \in Sectors
    BY OneUpdate DEF Writes
  <1>2. step = 0 /\ phase = "app"
    BY DEF Idle, TrustInv, QueueOK
  <1>3. \A s \in Sectors : Pending(flash[s]) => flash[s].seq \in tried'
    BY <1>2 DEF UpdateInv, TrialRan
  <1>4. UpdatesApart' /\ RewritesInPlace'
    BY <1>1, <1>2 DEF UpdatesApart, RewritesInPlace
  <1>5. TrialRan'
    BY <1>1, <1>3 DEF TrialRan
  <1> QED BY <1>4, <1>5 DEF UpdateInv

LEMMA UpdateInit == Init => UpdateInv
  <1> SUFFICES ASSUME Init PROVE UpdateInv
    OBVIOUS
  <1>1. UpdatesApart /\ RewritesInPlace
    BY DEF Init, UpdatesApart, RewritesInPlace
  <1>2. TrialRan
    BY DEF Init, TrialRan
  <1> QED BY <1>1, <1>2 DEF UpdateInv

LEMMA UpdateInvStep ==
    TypeOK /\ TrustInv /\ FallbackInv /\ CandidateInv /\ UpdateInv /\ [Next]_vars => UpdateInv'
  <1> SUFFICES ASSUME TypeOK, TrustInv, FallbackInv, CandidateInv, UpdateInv, [Next]_vars
               PROVE  UpdateInv'
    OBVIOUS
  <1>a. flash \in Otas /\ faults \in Nat
    BY DEF TypeOK
  <1>b. faults = 0 /\ (\E s \in Sectors : IsEntry(flash[s])) => lastValid # 0
    BY NoEntry DEF FallbackInv, FallbackBootable, FirstBoot
  <1>c. ASSUME UNCHANGED <<flash, queue, step, tried, lastValid>>, phase' = phase \/ phase' = "off",
               faults' = faults \/ faults' # 0
        PROVE  UpdateInv'
    <2>1. UpdatesApart' /\ RewritesInPlace'
      BY <1>c DEF UpdateInv, UpdatesApart, RewritesInPlace
    <2>2. TrialRan'
      BY <1>c DEF UpdateInv, TrialRan
    <2> QED BY <2>1, <2>2 DEF UpdateInv
  <1>1. CASE Boot
    BY <1>1, UpdatePowerOn DEF Boot
  <1>2. CASE FlashCommand
    BY <1>2, UpdateCommand
  <1>3. CASE Launch
    <2>1. /\ phase = "boot" /\ queue = << >>
          /\ UNCHANGED <<flash, queue, step>>
          /\ boot.kind = "slot" /\ ~Valid(flash[boot.sector]) => tried' = tried \cup {boot.seq}
      BY <1>3 DEF Launch
    <2>2. ASSUME NEW s \in Sectors, Pending(flash[s])
          PROVE  flash[s].seq \in tried'
      <3>1. boot.kind = "slot" /\ flash[s].seq = boot.seq
        BY <2>1, <2>2 DEF TrustInv, PendingIsRun
      <3>2. boot.sector \in Sectors
        BY <3>1 DEF TypeOK, Boots, NoBoot, BootHalt, HaltKinds
      <3>3. ~Valid(flash[boot.sector])
        <4> SUFFICES ASSUME Valid(flash[boot.sector]) PROVE FALSE
          OBVIOUS
        <4>1. IsEntry(flash[boot.sector]) /\ IsEntry(flash[s]) /\ s # boot.sector
          BY <2>2 DEF Valid, Pending, IsEntry, EntryStates
        <4>2. flash[boot.sector].seq = boot.seq
          BY <2>1, <3>1, <4>1 DEF CandidateInv, BootPlan
        <4> QED BY <3>1, <3>2, <4>1, <4>2 DEF CandidateInv, SeqsApart, DistinctSeqs, Sectors
      <3> QED BY <2>1, <3>1, <3>3
    <2>3. UpdatesApart' /\ RewritesInPlace'
      BY <2>1 DEF UpdateInv, UpdatesApart, RewritesInPlace
    <2>4. TrialRan'
      BY <2>1, <2>2 DEF TrialRan
    <2> QED BY <2>3, <2>4 DEF UpdateInv
  <1>4. CASE \E slot \in Slots : Stage(slot)
    BY <1>4, <1>c DEF Stage
  <1>5. CASE \E target \in Slots : Activate(target)
    <2>1. PICK target \in Slots : Activate(target)
      BY <1>5
    <2>2. ActivateResult(flash, target) = "ok"
      BY <2>1 DEF Activate
    <2>3. /\ ActivateWrite(flash, target) \in Writes
          /\ ActivateWrite(flash, target).entry = Entry(ActivateSeq(flash, target), "new")
      BY <1>a, <2>2, ActivateWriteFacts
    <2>4. ActivateWrite(flash, target).entry.state = "new"
      BY <2>3 DEF Entry
    <2>5. \A s \in Sectors : flash[s].seq # ActivateSeq(flash, target)
      BY <1>a, <2>2, ActivateSeqFacts, CellFacts
    <2> QED BY <2>1, <2>3, <2>4, <2>5, UpdateUpdate DEF Activate
  <1>6. CASE Confirm
    <2>1. PendingSectors(flash) # {}
      BY <1>6 DEF Confirm
    <2>2. /\ ConfirmWrite(flash) \in Writes
          /\ PendingSector(flash) \in Sectors
          /\ Pending(flash[PendingSector(flash)])
          /\ ConfirmWrite(flash).sector = PendingSector(flash)
          /\ ConfirmWrite(flash).entry = Entry(flash[PendingSector(flash)].seq, "valid")
      BY <1>a, <2>1, VerdictWriteFacts
    <2>3. /\ ConfirmWrite(flash).entry.seq = flash[PendingSector(flash)].seq
          /\ ConfirmWrite(flash).entry.state = "valid"
      BY <2>2 DEF Entry
    <2>4. faults = 0 => lastValid # 0
      BY <1>b, <2>2 DEF Pending, IsEntry, EntryStates
    <2> QED BY <1>6, <2>2, <2>3, <2>4, UpdateUpdate DEF Confirm
  <1>7. CASE Reject
    <2>1. PendingSectors(flash) # {}
      BY <1>7 DEF Reject
    <2>2. /\ RejectWrite(flash) \in Writes
          /\ RejectWrite(flash).entry = Entry(flash[PendingSector(flash)].seq, "invalid")
      BY <1>a, <2>1, VerdictWriteFacts
    <2>3. RejectWrite(flash).entry.state = "invalid"
      BY <2>2 DEF Entry
    <2> QED BY <1>7, <2>2, <2>3, UpdateUpdate DEF Reject, history
  <1>8. CASE WriteFails \/ PowerCut
    <2>1. /\ Interrupted
          /\ tried' = tried
          /\ phase = "app" \/ phase' = "off"
      BY <1>8 DEF WriteFails, PowerCut
    <2>2. /\ queue' = << >> /\ step' = 0
          /\ UNCHANGED flash \/ (queue # << >> /\ Changed)
      BY <2>1, InterruptedFacts
    <2>3. \A s \in Sectors : phase' = "app" /\ Pending(flash'[s]) => flash'[s].seq \in tried'
      BY <2>1, <2>2, AppPending DEF UpdateInv, TrialRan
    <2>4. UpdatesApart' /\ RewritesInPlace'
      BY <2>2 DEF UpdatesApart, RewritesInPlace
    <2>5. TrialRan'
      BY <2>2, <2>3 DEF TrialRan, Pending
    <2> QED BY <2>4, <2>5 DEF UpdateInv
  <1>9. CASE Reset
    BY <1>9, <1>c DEF Reset, history
  <1>10. CASE \E slot \in Slots : Rot(slot)
    BY <1>10, <1>a, <1>c DEF Rot, history
  <1>11. CASE UNCHANGED vars
    BY <1>11, <1>c DEF vars
  <1> QED BY <1>1, <1>2, <1>3, <1>4, <1>5, <1>6, <1>7, <1>8, <1>9, <1>10, <1>11 DEF Next

-------------------------------------------------------------------------------
(***************************************************************************)
(* The theorems.                                                           *)
(***************************************************************************)

\* The whole of the inductive invariant, which every reachable state satisfies:
\* what it says of updates and runs is what the theorems here and in
\* BootChainProofs rest on.
THEOREM InvariantHolds == Spec => []IInv
  <1>1. Init => IInv
    BY TypeInit, TrustInit, FallbackInit, CandidateInit, UpdateInit DEF IInv
  <1>2. IInv /\ [Next]_vars => IInv'
    BY TypeStep, TrustStep, FallbackStep, CandidateStep, UpdateInvStep DEF IInv
  <1> QED BY <1>1, <1>2, PTL DEF Spec

\* There is never more than one unconfirmed entry, and never one without a Valid
\* entry in the other sector: through any cuts, failures and faults.
THEOREM OneAtATime == Spec => []OneCandidate
  <1>1. IInv => OneCandidate
    BY DEF IInv, CandidateInv, CandidateBacked, Backed, OneCandidate, InTrial
  <1> QED BY <1>1, InvariantHolds, PTL

\* Two accepted entries never have the same sequence number: no choice of
\* plan_boot, activate, confirm or reject is ever decided by sector order.
THEOREM NoTies == Spec => []DistinctSeqs
  <1>1. IInv => DistinctSeqs
    BY DEF IInv, CandidateInv, SeqsApart
  <1> QED BY <1>1, InvariantHolds, PTL

\* Only Launch goes from the bootloader to an application.
LEMMA OnlyLaunch ==
    ASSUME TypeOK, [Next]_vars, Launching
    PROVE  Launch
  BY DEF Launching, Next, Boot, PowerOn, FlashCommand, Stage, Activate, Idle, Confirm, Reject,
         WriteFails, PowerCut, Reset, Rot, vars

\* However often the power fails around its marking, a candidate is started at
\* most once before it is confirmed.
THEOREM TriedOnce == Spec => OneTrial
  <1>1. IInv /\ [Next]_vars =>
            (Launching /\ ~Valid(flash[boot.sector]) => boot.seq \notin tried)
    <2> SUFFICES ASSUME IInv, [Next]_vars, Launching, ~Valid(flash[boot.sector])
                 PROVE  boot.seq \notin tried
      OBVIOUS
    <2>1. Launch
      BY OnlyLaunch DEF IInv
    <2>2. phase = "boot" /\ queue = << >> /\ boot.kind = "slot"
      BY <2>1 DEF Launch, Launching
    <2> QED BY <2>2 DEF IInv, CandidateInv, BootPlan
  <1> QED BY <1>1, InvariantHolds, PTL DEF Spec, OneTrial

\* As long as no image goes bad or is misread, what is started as trusted, on the
\* strength of a Valid entry, was confirmed or is the factory's.
THEOREM VettedIsTrusted == ASSUME MaxFaults = 0 PROVE Spec => TrustedImageVetted
  <1>1. IInv /\ [Next]_vars =>
            (Launching /\ Valid(flash[boot.sector]) => boot.slot \in vetted)
    <2> SUFFICES ASSUME IInv, [Next]_vars, Launching, Valid(flash[boot.sector])
                 PROVE  boot.slot \in vetted
      OBVIOUS
    <2>1. Launch /\ TypeOK
      BY OnlyLaunch DEF IInv
    <2>2. phase = "boot" /\ boot.kind = "slot" /\ boot.sector \in Sectors
      BY <2>1 DEF Launch, Launching, TypeOK, Boots, NoBoot, BootHalt, HaltKinds
    <2>3. flash[boot.sector] \in Cells /\ faults = 0
      BY <2>1, <2>2 DEF TypeOK
    <2>4. IsEntry(flash[boot.sector]) /\ flash[boot.sector] = Entry(flash[boot.sector].seq, "valid")
      BY <2>3, CellFacts DEF Valid, EntryStates
    <2>5. flash[boot.sector] = Entry(boot.seq, "valid")
      BY <2>2, <2>4 DEF IInv, CandidateInv, BootPlan
    <2>6. Fallback
      BY <2>3 DEF IInv, FallbackInv, Fallback
    <2>7. boot.seq = lastValid /\ boot.slot = SlotOf(boot.seq)
      BY <2>2, <2>5, <2>6 DEF Fallback, RunningBootable
    <2>8. SlotOf(lastValid) \in vetted
      BY <2>1, <2>2, <2>4, <2>6, FallbackThere
    <2> QED BY <2>7, <2>8
  <1> QED BY <1>1, InvariantHolds, PTL DEF Spec, TrustedImageVetted

\* Without a misread the bootloader halts only when no Valid entry selects a
\* bootable image and there is nothing to seed.
THEOREM HaltsForCause == Spec => NoNeedlessHalt
  <1> DEFINE Cause == /\ \A s \in ValidSectors(flash) : SlotOf(flash[s].seq) \notin images
                      /\ FirstBoot(flash) => 0 \notin images
  <1>1. IInv /\ [Next]_vars =>
            (phase = "off" /\ boot'.kind \in HaltKinds /\ faults' = faults => Cause)
    <2> SUFFICES ASSUME IInv, [Next]_vars, phase = "off", boot'.kind \in HaltKinds,
                        faults' = faults
                 PROVE  Cause
      OBVIOUS
    <2>1. boot.kind \notin HaltKinds /\ queue = << >> /\ flash \in Otas
      BY DEF IInv, CandidateInv, NothingRunsOff, NoBoot, BootHalt, HaltKinds, TrustInv, QueueOK,
             TypeOK
    <2>2. Boot
      BY <2>1 DEF Next, FlashCommand, Launch, Stage, Activate, Idle, Confirm, Reject,
                  WriteFails, PowerCut, Reset, Rot, vars
    <2>3. PICK good \in SUBSET images : PowerOn(good)
      BY <2>2 DEF Boot
    <2>4. good = images
      <3>1. faults \in Nat
        BY DEF IInv, TypeOK
      <3> QED BY <2>3, <3>1 DEF PowerOn
    <2>5. PlanBoot(flash, images).boot.kind \in HaltKinds
      BY <2>3, <2>4 DEF PowerOn
    <2>6. Bootable(flash, images) = {}
      <3> SUFFICES ASSUME Bootable(flash, images) # {} PROVE FALSE
        OBVIOUS
      <3>1. ~FirstBoot(flash)
        BY <2>1, FirstBootFacts
      <3>2. PlanBoot(flash, images).boot =
              BootSlot(Chosen(flash, images), flash[Chosen(flash, images)].seq)
        BY <2>1, <3>1, PlanCases
      <3>3. PlanBoot(flash, images).boot.kind = "slot"
        BY <3>2 DEF BootSlot
      <3> QED BY <2>5, <3>3 DEF HaltKinds
    <2>7. FirstBoot(flash) => 0 \notin images
      BY <2>5, <2>6 DEF PlanBoot, BootSlot, HaltKinds
    <2>8. \A s \in ValidSectors(flash) : SlotOf(flash[s].seq) \notin images
      BY <2>6 DEF Bootable, Candidates, Candidate, ValidSectors
    <2> QED BY <2>7, <2>8
  <1> QED BY <1>1, InvariantHolds, PTL DEF Spec, NoNeedlessHalt

\* A boot that finds an unconfirmed image decides for the one last confirmed, as long
\* as no image went bad and none is misread: the safety of RollbackCompletes.  What
\* it then starts is under that very entry, which no update of this boot touches.
THEOREM PendingRollsBack ==
    Spec => [][phase = "off" /\ phase' = "boot" /\ faults' = 0
                 /\ (\E s \in Sectors : Pending(flash[s]))
                 => /\ boot'.kind = "slot"
                    /\ boot'.seq = lastValid
                    /\ flash[boot'.sector] = Entry(lastValid, "valid")
                    /\ \A i \in DOMAIN queue' : queue'[i].sector # boot'.sector]_vars
  <1> DEFINE RollsBack == /\ boot'.kind = "slot"
                          /\ boot'.seq = lastValid
                          /\ flash[boot'.sector] = Entry(lastValid, "valid")
                          /\ \A i \in DOMAIN queue' : queue'[i].sector # boot'.sector
  <1>1. ASSUME IInv, [Next]_vars, phase = "off", phase' = "boot", faults' = 0,
               NEW s \in Sectors, Pending(flash[s])
        PROVE  RollsBack
    <2>1. /\ TypeOK /\ flash \in Otas /\ queue = << >>
          /\ SeqMax \in Nat /\ faults \in Nat /\ flash[s] \in Cells
      BY <1>1, OtadataAssumption DEF IInv, TypeOK, Otas, TrustInv, QueueOK
    <2>2. PICK good \in SUBSET images : PowerOn(good)
      <3>1. Boot
        BY <1>1, <2>1 DEF Next, FlashCommand, Launch, Stage, Activate, Idle, Confirm, Reject,
                          WriteFails, PowerCut, Reset, Rot, vars
      <3> QED BY <3>1 DEF Boot
    <2>3. good = images /\ faults = 0
      BY <1>1, <2>1, <2>2 DEF PowerOn
    <2>4. Fallback
      BY <1>1, <2>3 DEF IInv, FallbackInv, Fallback
    <2>5. lastValid # 0 /\ ~Valid(flash[s]) /\ ~Candidate(flash[s])
      <3>1. ~FirstBoot(flash)
        BY <1>1, <2>1, FirstBootFacts DEF Pending, IsEntry, EntryStates
      <3> QED BY <1>1, <2>4, <3>1 DEF Fallback, FallbackBootable, Pending, Valid, Candidate, Unproven
    <2>6. PICK t \in Sectors : flash[t] = Entry(lastValid, "valid")
      BY <2>4, <2>5 DEF Fallback, FallbackUntouched
    <2>7. Valid(flash[t]) /\ Candidate(flash[t]) /\ flash[t].seq = lastValid
      BY <2>6 DEF Valid, Candidate, Entry
    <2>8. SlotOf(lastValid) \in images
      BY <2>4, <2>5 DEF Fallback, FallbackBootable
    <2>9. Sectors = {s, t} /\ s # t
      BY <1>1, <2>5, <2>7 DEF Sectors
    <2>10. Bootable(flash, images) = {t}
      BY <2>5, <2>7, <2>8, <2>9 DEF Bootable, Candidates
    <2>11. Chosen(flash, images) = t
      BY <2>10 DEF Chosen, Highest, Sectors
    <2>12. PlanBoot(flash, images).boot = BootSlot(t, lastValid)
           /\ PlanBoot(flash, images).writes = MarkWrites(flash, images)
      <3>1. Bootable(flash, images) # {} /\ ~FirstBoot(flash)
        BY <2>1, <2>10, FirstBootFacts
      <3> QED BY <2>1, <2>7, <2>11, <3>1, PlanCases
    <2>13. Mark(flash, images, t) = "keep"
      BY <2>7, <2>10, <2>11 DEF Mark, Pending, Valid, Unproven
    <2>14. \A i \in DOMAIN MarkWrites(flash, images) : MarkWrites(flash, images)[i].sector # t
      BY <2>1, <2>13, MarkWritesFacts DEF Sectors
    <2> QED BY <2>2, <2>3, <2>6, <2>12, <2>14 DEF PowerOn, BootSlot
  <1>2. IInv /\ [Next]_vars =>
          (phase = "off" /\ phase' = "boot" /\ faults' = 0
             /\ (\E s \in Sectors : Pending(flash[s])) => RollsBack)
    BY <1>1
  <1> QED BY <1>2, InvariantHolds, PTL DEF Spec

\* The flash commands left to this boot.
Work == 3 * Len(queue) - step

\* A boot makes no more than six flash commands, and each leaves one less to make:
\* the bootloader ends, whatever the sectors hold (the safety of BootCompletes).
THEOREM BootBounded ==
    /\ Spec => [](Work \in 0 .. 6 /\ (queue # << >> => Work > 0))
    /\ Spec => [][phase = "boot" /\ phase' = "boot" => Work' = Work - 1]_vars
  <1>1. IInv => Len(queue) \in 0 .. 2 /\ step \in 0 .. 2 /\ (queue = << >> <=> Len(queue) = 0)
    <2> SUFFICES ASSUME IInv
                 PROVE  Len(queue) \in 0 .. 2 /\ step \in 0 .. 2 /\ (queue = << >> <=> Len(queue) = 0)
      OBVIOUS
    <2>1. queue \in Seq(Writes) /\ step \in 0 .. 2
      BY DEF IInv, TypeOK
    <2>2. \A i \in 1 .. Len(queue) : queue[i].sector \in {0, 1}
      <3> TAKE i \in 1 .. Len(queue)
      <3>1. queue[i] \in Writes
        BY <2>1
      <3> QED BY <3>1 DEF Writes, Sectors
    <2>3. \A i, j \in 1 .. Len(queue) : queue[i].sector = queue[j].sector => i = j
      BY <2>1 DEF IInv, UpdateInv, UpdatesApart
    <2>4. ASSUME Len(queue) > 2 PROVE FALSE
      <3>1. 1 \in 1 .. Len(queue) /\ 2 \in 1 .. Len(queue) /\ 3 \in 1 .. Len(queue)
        BY <2>1, <2>4
      <3> QED BY <2>2, <2>3, <3>1
    <2>5. Len(queue) \in 0 .. 2
      <3> DEFINE n == Len(queue)
      <3>1. n \in Nat /\ ~(n > 2)
        BY <2>1, <2>4
      <3> HIDE DEF n
      <3>2. n \in 0 .. 2
        BY <3>1
      <3> QED BY <3>2 DEF n
    <2>6. queue = << >> <=> Len(queue) = 0
      BY <2>1, EmptySeq
    <2> QED BY <2>1, <2>5, <2>6
  <1>2. IInv => Work \in 0 .. 6 /\ (queue # << >> => Work > 0)
    <2> SUFFICES ASSUME IInv PROVE Work \in 0 .. 6 /\ (queue # << >> => Work > 0)
      OBVIOUS
    <2>1. queue = << >> => step = 0
      BY DEF IInv, TrustInv, QueueOK
    <2>2. Len(queue) \in 0 .. 2 /\ step \in 0 .. 2 /\ (queue = << >> <=> Len(queue) = 0)
      BY <1>1
    <2> DEFINE n == Len(queue)
    <2>3. n \in 0 .. 2 /\ step \in 0 .. 2 /\ (n = 0 => step = 0) /\ Work = 3 * n - step
      BY <2>1, <2>2 DEF Work
    <2> HIDE DEF n
    <2>4. Work \in 0 .. 6
      BY <2>3
    <2>5. n # 0 => Work > 0
      BY <2>3
    <2> QED BY <2>2, <2>4, <2>5 DEF n
  <1>3. ASSUME IInv, Next, phase = "boot", phase' = "boot"
        PROVE  Work' = Work - 1
    <2>1. FlashCommand
      BY <1>3 DEF Next, Boot, PowerOn, Launch, Stage, Activate, Idle, Confirm, Reject,
                  WriteFails, PowerCut, Reset, Rot
    <2>2. /\ queue # << >> /\ queue \in Seq(Writes) /\ step \in 0 .. 2
          /\ step' = (step + 1) % 3
          /\ queue' = IF step = 2 THEN Tail(queue) ELSE queue
      BY <1>3, <2>1 DEF FlashCommand, IInv, TypeOK
    <2>3. Len(Tail(queue)) = Len(queue) - 1 /\ Len(queue) \in Nat
      BY <2>2, HeadTailProperties
    <2>4. step' = IF step = 2 THEN 0 ELSE step + 1
      BY <2>2
    <2> QED BY <2>2, <2>3, <2>4 DEF Work
  <1>4. IInv /\ [Next]_vars => [phase = "boot" /\ phase' = "boot" => Work' = Work - 1]_vars
    BY <1>3
  <1>5. Spec => [](Work \in 0 .. 6 /\ (queue # << >> => Work > 0))
    BY <1>2, InvariantHolds, PTL
  <1>6. Spec => [][phase = "boot" /\ phase' = "boot" => Work' = Work - 1]_vars
    BY <1>4, InvariantHolds, PTL DEF Spec
  <1> QED BY <1>5, <1>6

-------------------------------------------------------------------------------
(***************************************************************************)
(* The candidate the abstract update sees, in each kind of state.          *)
(***************************************************************************)
Fate(seq) == IF seq \in tried THEN "ran" ELSE "marked"

NoneInFlight == \A s \in Sectors : ~InTrial(flash[s])

\* In a sector; in the update in progress; nowhere.
Mapped ==
    /\ \A s \in Sectors :
         InTrial(flash[s]) =>
             /\ CandidateSeq = flash[s].seq
             /\ CandidateTrial = IF Unproven(flash[s]) THEN "offered" ELSE Fate(flash[s].seq)
    /\ NoneInFlight /\ Rewriting =>
         /\ CandidateSeq = Head(queue).entry.seq
         /\ CandidateTrial = IF Head(queue).entry.state = "pending" THEN "offered"
                             ELSE Fate(Head(queue).entry.seq)
    /\ NoneInFlight /\ ~Rewriting => CandidateSeq = 0 /\ CandidateTrial = "none"

LEMMA MapFacts == IInv => Mapped
  <1> SUFFICES ASSUME IInv PROVE Mapped
    OBVIOUS
  <1>1. TypeOK /\ CandidateInv
    BY DEF IInv
  <1>2. InFlight = {s \in Sectors : InTrial(flash[s])}
    BY DEF InFlight, InTrial
  <1>3. ASSUME NEW s \in Sectors, InTrial(flash[s])
        PROVE  /\ CandidateSeq = flash[s].seq
               /\ CandidateTrial = IF Unproven(flash[s]) THEN "offered" ELSE Fate(flash[s].seq)
    <2>1. Valid(flash[Other(s)])
      BY <1>1, <1>3 DEF CandidateInv, CandidateBacked, Backed
    <2>2. ~InTrial(flash[Other(s)])
      BY <2>1 DEF Valid, InTrial, Unproven, Pending
    <2>3. InFlight = {s}
      BY <1>2, <1>3, <2>2, OtherSector
    <2>4. flash \in Otas
      BY <1>1 DEF TypeOK
    <2>5. Highest(flash, InFlight) = s
      BY <2>3, <2>4, HighestFacts
    <2>6. CandidateSeq = flash[s].seq
      BY <2>3, <2>5 DEF CandidateSeq
    <2>7. flash[s].seq # 0
      <3>1. IsEntry(flash[s]) /\ flash[s] \in Cells
        BY <1>3, <2>4 DEF InTrial, Unproven, Pending, IsEntry, EntryStates
      <3> QED BY <3>1, CellFacts
    <2>8. (\E t \in InFlight : Unproven(flash[t])) <=> Unproven(flash[s])
      BY <2>3
    <2> QED BY <2>3, <2>6, <2>7, <2>8 DEF CandidateTrial, Fate
  <1>4. ASSUME NoneInFlight, Rewriting
        PROVE  /\ CandidateSeq = Head(queue).entry.seq
               /\ CandidateTrial = IF Head(queue).entry.state = "pending" THEN "offered"
                                   ELSE Fate(Head(queue).entry.seq)
    <2>1. InFlight = {}
      BY <1>2, <1>4 DEF NoneInFlight
    <2>2. CandidateSeq = Head(queue).entry.seq
      BY <1>4, <2>1 DEF CandidateSeq
    <2>3. Head(queue) \in Writes
      BY <1>1, <1>4, QueueType DEF Rewriting
    <2>4. Head(queue).entry.seq # 0
      BY <2>3 DEF Writes, Entries
    <2> QED BY <2>1, <2>2, <2>4 DEF CandidateTrial, Fate
  <1>5. ASSUME NoneInFlight, ~Rewriting
        PROVE  CandidateSeq = 0 /\ CandidateTrial = "none"
    <2>1. InFlight = {}
      BY <1>2, <1>5 DEF NoneInFlight
    <2> QED BY <1>5, <2>1 DEF CandidateSeq, CandidateTrial
  <1> QED BY <1>3, <1>4, <1>5 DEF Mapped

\* A step of the abstract update, or none.
Maps == Trial!TrialNext \/ UNCHANGED <<lastValid, CandidateSeq, CandidateTrial>>

-------------------------------------------------------------------------------
(***************************************************************************)
(* Steps that leave the flash alone.                                       *)
(***************************************************************************)
LEMMA QuietStep ==
    ASSUME Mapped, Mapped', UNCHANGED <<flash, lastValid>>,
           \A s \in Sectors : InTrial(flash[s]) => (flash[s].seq \in tried' <=> flash[s].seq \in tried),
           NoneInFlight => ~Rewriting /\ ~Rewriting'
    PROVE  UNCHANGED <<CandidateSeq, CandidateTrial>>
  <1>1. ASSUME NEW s \in Sectors, InTrial(flash[s])
        PROVE  UNCHANGED <<CandidateSeq, CandidateTrial>>
    BY <1>1 DEF Mapped, Fate, InTrial, Unproven, Pending
  <1>2. CASE NoneInFlight
    <2>1. NoneInFlight'
      BY <1>2 DEF NoneInFlight, InTrial, Unproven, Pending
    <2> QED BY <1>2, <2>1 DEF Mapped
  <1> QED BY <1>1, <1>2 DEF NoneInFlight

\* The bootloader's plan offers nothing of its own.
LEMMA BootMaps ==
    ASSUME IInv, faults = 0, Mapped, Mapped', NEW good \in SUBSET images, PowerOn(good)
    PROVE  UNCHANGED <<lastValid, CandidateSeq, CandidateTrial>>
  <1>1. /\ TypeOK
        /\ flash \in Otas
        /\ queue = << >>
        /\ UNCHANGED <<flash, lastValid, tried>>
        /\ queue' = PlanBoot(flash, good).writes
    BY DEF IInv, TypeOK, TrustInv, QueueOK, PowerOn, history
  <1>2. ~Rewriting
    BY <1>1 DEF Rewriting
  <1>3. ASSUME NoneInFlight, Rewriting' PROVE FALSE
    <2>1. /\ queue' # << >>
          /\ Head(queue').entry.state \in {"pending", "valid"}
          /\ lastValid # 0
      BY <1>1, <1>3 DEF Rewriting
    <2>2. ~FirstBoot(flash)
      <3>1. PICK s \in Sectors : flash[s] = Entry(lastValid, "valid")
        BY <2>1 DEF IInv, FallbackInv, FallbackUntouched
      <3>2. IsEntry(flash[s])
        BY <3>1 DEF Entry, IsEntry, EntryStates
      <3> QED BY <1>1, <3>2, FirstBootFacts
    <2>3. queue' = MarkWrites(flash, good)
      BY <1>1, <2>2, PlanCases
    <2>4. Head(queue') = queue'[1] /\ 1 \in DOMAIN queue'
      <3>1. queue' \in Seq(Writes)
        BY <1>1, <2>3, MarkWritesFacts
      <3>2. Head(queue') = queue'[1] /\ Len(queue') \in Nat \ {0}
        BY <2>1, <3>1, HeadTailProperties, EmptySeq
      <3> QED BY <3>1, <3>2, LenProperties
    <2>5. PICK s \in Sectors : Head(queue').entry.state = Mark(flash, good, s)
      BY <1>1, <2>3, <2>4, MarkWritesFacts DEF MarkOf, Write, Entry
    <2>6. Unproven(flash[s])
      BY <1>1, <2>1, <2>5, MarkFacts
    <2> QED BY <1>3, <2>6 DEF NoneInFlight, InTrial
  <1> QED BY <1>1, <1>2, <1>3, QuietStep

\* activate, confirm and reject begin an update: nothing has changed yet.
LEMMA UpdateMaps ==
    ASSUME Mapped, Mapped', Idle, NEW w, queue' = << w >>, UNCHANGED <<flash, lastValid>>,
           \A s \in Sectors : flash[s].seq \in tried' <=> flash[s].seq \in tried,
           w.entry.state = "new" \/ ~NoneInFlight
    PROVE  UNCHANGED <<lastValid, CandidateSeq, CandidateTrial>>
  <1>1. ~Rewriting
    BY DEF Idle, Rewriting
  <1>2. NoneInFlight => ~Rewriting'
    BY DEF Rewriting
  <1> QED BY <1>1, <1>2, QuietStep

\* The launch of a candidate is its trial.
LEMMA LaunchMaps ==
    ASSUME IInv, IInv', Mapped, Mapped', Launch
    PROVE  Maps
  <1>1. /\ phase = "boot" /\ queue = << >>
        /\ UNCHANGED <<flash, queue, lastValid>>
        /\ tried \subseteq tried'
    BY DEF Launch
  <1>2. ~Rewriting /\ ~Rewriting'
    BY <1>1 DEF Rewriting
  <1>3. CASE NoneInFlight
    BY <1>1, <1>2, <1>3, QuietStep DEF NoneInFlight, Maps
  <1>4. ASSUME NEW s \in Sectors, InTrial(flash[s])
        PROVE  Maps
    <2>1. ~Unproven(flash[s]) /\ Pending(flash[s])
      BY <1>1, <1>4 DEF IInv, CandidateInv, BootPlan, InTrial
    <2>2. boot.kind = "slot"
      BY <1>1, <2>1 DEF IInv, TrustInv, PendingIsRun
    <2>3. phase' = "app"
      BY <2>2 DEF Launch
    <2>4. flash[s].seq \in tried'
      BY <1>1, <2>1, <2>3 DEF IInv, UpdateInv, TrialRan, Pending
    <2>5. CandidateSeq = flash[s].seq /\ CandidateTrial = Fate(flash[s].seq)
      BY <1>4, <2>1 DEF Mapped
    <2>6. CandidateSeq' = flash[s].seq /\ CandidateTrial' = "ran"
      BY <1>1, <1>4, <2>1, <2>4 DEF Mapped, Fate, InTrial, Unproven, Pending
    <2>7. CASE CandidateTrial = "marked"
      BY <1>1, <2>5, <2>6, <2>7 DEF Maps, Trial!TrialNext, Trial!Try
    <2>8. CASE CandidateTrial = "ran"
      BY <1>1, <2>5, <2>6, <2>8 DEF Maps
    <2> QED BY <2>5, <2>7, <2>8 DEF Fate
  <1> QED BY <1>3, <1>4 DEF NoneInFlight

-------------------------------------------------------------------------------
(***************************************************************************)
(* Flash commands, whole and cut.                                          *)
(***************************************************************************)

\* How the queue goes on: the update is still in progress, done, or dropped.
GoesOn ==
    \/ queue' = queue /\ step # 2
    \/ queue' = Tail(queue) /\ step = 2
    \/ queue' = << >>

\* Only an update still in progress rewrites a candidate.
LEMMA RewritingGoesOn ==
    ASSUME IInv, queue # << >>, GoesOn, Rewriting'
    PROVE  /\ queue' = queue /\ step # 2
           /\ Head(queue).entry.state \in {"pending", "valid"}
  <1>1. /\ TypeOK
        /\ queue' # << >>
        /\ Head(queue').entry.state \in {"pending", "valid"}
    BY DEF Rewriting, IInv
  <1>2. ASSUME queue' = Tail(queue) PROVE FALSE
    <2>1. /\ Len(queue) \in Nat
          /\ 1 \in DOMAIN queue
          /\ queue' \in Seq(Writes)
          /\ \A i \in DOMAIN queue' : i + 1 \in DOMAIN queue /\ queue'[i] = queue[i + 1]
          /\ DOMAIN queue = 1 .. Len(queue)
      BY <1>1, <1>2, QueueType
    <2>2. Head(queue') = queue'[1] /\ 1 \in DOMAIN queue'
      <3>1. Head(queue') = queue'[1] /\ Len(queue') \in Nat \ {0}
        BY <1>1, <2>1, HeadTailProperties, EmptySeq
      <3> QED BY <2>1, <3>1, LenProperties
    <2>3. 2 \in DOMAIN queue /\ queue[2].entry.state \in {"pending", "valid"}
      BY <1>1, <2>1, <2>2
    <2>4. Len(queue) # 1
      BY <2>1, <2>3
    <2>5. queue[2].sector = queue[1].sector
      BY <2>1, <2>3, <2>4 DEF IInv, TrustInv, ValidWrites, CandidateInv, CandidateBacked
    <2>6. 2 = 1
      BY <2>1, <2>3, <2>5 DEF IInv, UpdateInv, UpdatesApart
    <2> QED BY <2>6
  <1> QED BY <1>1, <1>2 DEF GoesOn

\* What the abstract update sees of an update in progress to Pending or Valid:
\* its own entry, whether its sector has been erased yet or not.
LEMMA RewritingSeen ==
    ASSUME IInv, Mapped, queue # << >>, lastValid # 0,
           Head(queue).entry.state \in {"pending", "valid"}
    PROVE  /\ CandidateSeq = Head(queue).entry.seq
           /\ CandidateTrial = IF Head(queue).entry.state = "pending" THEN "offered"
                               ELSE Fate(Head(queue).entry.seq)
  <1> DEFINE h == Head(queue)
  <1>1. 1 \in DOMAIN queue /\ h = queue[1] /\ h.sector \in Sectors
    BY QueueType DEF IInv
  <1>2. CASE InTrial(flash[h.sector])
    <2>1. IsEntry(flash[h.sector])
      BY <1>2 DEF InTrial, Unproven, Pending, IsEntry, EntryStates
    <2>2. /\ flash[h.sector].seq = h.entry.seq
          /\ h.entry.state = "pending" => Unproven(flash[h.sector])
          /\ h.entry.state = "valid" => Pending(flash[h.sector])
      BY <1>1, <2>1 DEF IInv, UpdateInv, RewritesInPlace
    <2> HIDE DEF h
    <2>3. h.entry.state = "pending" <=> Unproven(flash[h.sector])
      BY <2>2 DEF Unproven, Pending, h
    <2> QED BY <1>1, <1>2, <2>2, <2>3 DEF Mapped, h
  <1>3. CASE ~InTrial(flash[h.sector])
    <2>1. NoneInFlight
      BY <1>3 DEF NoneInFlight, IInv, CandidateInv, CandidateFirst
    <2>2. Rewriting
      BY DEF Rewriting
    <2> QED BY <2>1, <2>2 DEF Mapped
  <1> QED BY <1>2, <1>3

LEMMA CommandMaps ==
    ASSUME IInv, IInv', Mapped, Mapped', faults = 0, queue # << >>, GoesOn, Changed,
           tried' = tried
    PROVE  Maps
  <1> DEFINE h == Head(queue)
  <1>1. /\ 1 \in DOMAIN queue /\ h = queue[1] /\ h.sector \in Sectors /\ h.entry \in Entries
        /\ TypeOK
    BY QueueType DEF IInv, Writes
  <1>2. PICK c \in Cells :
          /\ flash' = [flash EXCEPT ![h.sector] = c]
          /\ \/ c \in {Blank, Corrupt} /\ lastValid' = lastValid
             \/ /\ step = 2
                /\ c = h.entry
                /\ lastValid' = IF Valid(c) THEN c.seq ELSE lastValid
    BY DEF Changed
  <1>3. /\ flash'[h.sector] = c
        /\ \A s \in Sectors : s # h.sector => flash'[s] = flash[s]
    BY <1>1, <1>2 DEF TypeOK
  <1>4. \A s \in Sectors : InTrial(flash[s]) => s = h.sector
    BY DEF IInv, CandidateInv, CandidateFirst
  <1>5. step # 0 => NoneInFlight
    <2>1. step # 0 => ~IsEntry(flash[h.sector])
      BY DEF IInv, UpdateInv, UpdatesApart
    <2> QED BY <1>4, <2>1 DEF NoneInFlight, InTrial, Unproven, Pending, IsEntry, EntryStates
  <1>6. lastValid = 0 => h.entry.state = "valid"
    BY <1>1 DEF IInv, FallbackInv, FallbackBootable
  <1> HIDE DEF h
  <1>7. CASE ~InTrial(c)
    <2>1. NoneInFlight'
      BY <1>3, <1>4, <1>7 DEF NoneInFlight, InTrial, Unproven, Pending
    <2>2. CASE Rewriting'
      <3>1. /\ queue' = queue /\ step # 2
            /\ h.entry.state \in {"pending", "valid"}
        BY <2>2, RewritingGoesOn DEF h
      <3>2. lastValid' = lastValid /\ lastValid # 0
        BY <1>2, <2>2, <3>1 DEF Rewriting
      <3>3. /\ CandidateSeq = h.entry.seq
            /\ CandidateTrial = IF h.entry.state = "pending" THEN "offered" ELSE Fate(h.entry.seq)
        BY <3>1, <3>2, RewritingSeen DEF h
      <3>4. /\ CandidateSeq' = h.entry.seq
            /\ CandidateTrial' = IF h.entry.state = "pending" THEN "offered" ELSE Fate(h.entry.seq)
        BY <2>1, <2>2, <3>1 DEF Mapped, Fate, h
      <3> QED BY <3>2, <3>3, <3>4 DEF Maps
    <2>3. CASE ~Rewriting' /\ lastValid' = lastValid
      <3>1. CandidateSeq' = 0 /\ CandidateTrial' = "none"
        BY <2>1, <2>3 DEF Mapped
      <3>2. CASE CandidateTrial # "none"
        BY <2>3, <3>1, <3>2 DEF Maps, Trial!TrialNext, Trial!GiveUp
      <3>3. CASE CandidateTrial = "none"
        <4>1. CandidateSeq = 0
          BY <3>3 DEF Mapped, Fate, NoneInFlight
        <4> QED BY <2>3, <3>1, <3>3, <4>1 DEF Maps
      <3> QED BY <3>2, <3>3
    <2>4. CASE lastValid' # lastValid
      <3>1. step = 2 /\ c = h.entry /\ Valid(c) /\ lastValid' = h.entry.seq
        BY <1>2, <2>4
      <3>2. h.entry.state = "valid"
        BY <3>1 DEF Valid
      <3>3. ~Rewriting'
        BY <3>1, RewritingGoesOn
      <3>4. CandidateSeq' = 0 /\ CandidateTrial' = "none"
        BY <2>1, <3>3 DEF Mapped
      <3>5. CASE lastValid = 0
        <4>1. CandidateSeq = 0 /\ CandidateTrial = "none"
          BY <1>5, <3>1, <3>5 DEF Mapped, Rewriting
        <4>2. h.entry.seq = 1
          BY <1>1, <3>2, <3>5 DEF IInv, UpdateInv, TrialRan
        <4> QED BY <3>1, <3>4, <3>5, <4>1, <4>2 DEF Maps, Trial!TrialNext, Trial!Provision
      <3>6. CASE lastValid # 0
        <4>1. CandidateSeq = h.entry.seq /\ CandidateTrial = Fate(h.entry.seq)
          BY <3>2, <3>6, RewritingSeen DEF h
        <4>2. h.entry.seq \in tried
          BY <1>1, <3>2, <3>6 DEF IInv, UpdateInv, TrialRan
        <4> QED BY <3>1, <3>4, <4>1, <4>2 DEF Fate, Maps, Trial!TrialNext, Trial!Promote
      <3> QED BY <3>5, <3>6
    <2> QED BY <2>2, <2>3, <2>4
  <1>8. CASE InTrial(c)
    <2>1. step = 2 /\ c = h.entry /\ lastValid' = lastValid /\ NoneInFlight
      BY <1>2, <1>5, <1>8, NoEntry DEF InTrial, Valid, Unproven, Pending
    <2>2. lastValid # 0
      BY <1>6, <1>8, <2>1 DEF InTrial, Unproven, Pending
    <2>3. /\ CandidateSeq' = h.entry.seq
          /\ CandidateTrial' = IF Unproven(h.entry) THEN "offered" ELSE Fate(h.entry.seq)
      BY <1>1, <1>3, <1>8, <2>1 DEF Mapped, Fate, InTrial, Unproven, Pending
    <2>4. CASE Unproven(c)
      <3>1. CandidateSeq = 0
        BY <2>1, <2>4 DEF Mapped, Rewriting, Unproven, h
      <3>2. h.entry.seq > lastValid
        BY <1>1, <2>1, <2>4 DEF IInv, FallbackInv, FallbackOrder, Unproven
      <3>3. h.entry.seq \in 1 .. SeqMax - 1
        BY <2>1, <2>4, CellFacts DEF Unproven, IsEntry, EntryStates
      <3>4. Trial!Offer(h.entry.seq)
        BY <2>1, <2>2, <2>3, <2>4, <3>1, <3>2 DEF Trial!Offer
      <3> QED BY <3>3, <3>4 DEF Maps, Trial!TrialNext
    <2>5. CASE Pending(c)
      <3>1. h.entry.state = "pending"
        BY <2>1, <2>5 DEF Pending
      <3>2. CandidateSeq = h.entry.seq /\ CandidateTrial = "offered"
        BY <2>2, <3>1, RewritingSeen DEF h
      <3>3. phase = "boot" /\ boot.kind = "slot" /\ h.entry.seq = boot.seq
        BY <1>1, <3>1 DEF IInv, TrustInv, PendingWrites
      <3>4. boot.sector \in Sectors
        BY <1>1, <3>3 DEF TypeOK, Boots, NoBoot, BootHalt, HaltKinds
      <3>5. boot.seq \notin tried
        <4>1. CASE /\ Valid(flash[boot.sector])
                   /\ \A i \in DOMAIN queue : queue[i].sector # boot.sector
          <5>1. IsEntry(flash[boot.sector]) /\ boot.sector # h.sector
            BY <1>1, <4>1 DEF Valid, IsEntry, EntryStates
          <5>2. flash[boot.sector].seq = boot.seq
            BY <3>3, <5>1 DEF IInv, CandidateInv, BootPlan
          <5>3. flash[boot.sector].seq # h.entry.seq
            BY <1>1, <3>4, <5>1 DEF IInv, CandidateInv, SeqsApart
          <5> QED BY <3>3, <5>2, <5>3
        <4>2. CASE queue = << Write(0, 1, "valid") >>
          BY <3>1, <4>2 DEF h, Write, Entry
        <4> QED BY <3>3, <4>1, <4>2 DEF IInv, CandidateInv, BootPlan
      <3>6. CandidateTrial' = "marked"
        BY <2>3, <3>1, <3>3, <3>5 DEF Fate, Unproven
      <3> QED BY <2>1, <2>3, <3>2, <3>6 DEF Maps, Trial!TrialNext, Trial!Announce
    <2> QED BY <1>8, <2>4, <2>5 DEF InTrial
  <1> QED BY <1>7, <1>8

\* A cut before anything of the sector changed, or with nothing to cut.
LEMMA DropMaps ==
    ASSUME Mapped, Mapped', UNCHANGED <<flash, lastValid, tried>>, queue' = << >>
    PROVE  Maps
  <1>1. ~Rewriting'
    BY DEF Rewriting
  <1>2. ASSUME NEW s \in Sectors, InTrial(flash[s])
        PROVE  Maps
    BY <1>2 DEF Mapped, Fate, InTrial, Unproven, Pending, Maps
  <1>3. CASE NoneInFlight
    <2>1. NoneInFlight'
      BY <1>3 DEF NoneInFlight, InTrial, Unproven, Pending
    <2>2. CandidateSeq' = 0 /\ CandidateTrial' = "none"
      BY <1>1, <2>1 DEF Mapped
    <2>3. CASE CandidateTrial # "none"
      BY <2>2, <2>3 DEF Maps, Trial!TrialNext, Trial!GiveUp
    <2>4. CASE CandidateTrial = "none"
      <3>1. CandidateSeq = 0
        BY <1>3, <2>4 DEF Mapped, Fate
      <3> QED BY <2>2, <2>4, <3>1 DEF Maps
    <2> QED BY <2>3, <2>4
  <1> QED BY <1>2, <1>3 DEF NoneInFlight

-------------------------------------------------------------------------------
(***************************************************************************)
(* Every step, and the refinement.                                         *)
(***************************************************************************)
LEMMA StepMaps ==
    ASSUME IInv, IInv', Mapped, Mapped', faults = 0, [Next]_vars
    PROVE  Maps
  <1>a. flash \in Otas
    BY DEF IInv, TypeOK
  <1>1. CASE Boot
    BY <1>1, BootMaps DEF Boot, Maps
  <1>2. CASE FlashCommand
    <2>1. queue # << >> /\ Changed /\ tried' = tried /\ GoesOn
      BY <1>2, FlashCommandFacts DEF FlashCommand, GoesOn, IInv
    <2> QED BY <2>1, CommandMaps
  <1>3. CASE Launch
    BY <1>3, LaunchMaps
  <1>4. CASE (\E slot \in Slots : Stage(slot)) \/ Reset
    <2>1. queue = << >> /\ queue' = << >> /\ UNCHANGED <<flash, lastValid, tried>>
      BY <1>4 DEF Stage, Reset, Idle, history
    <2> QED BY <2>1, DropMaps
  <1>5. CASE \E target \in Slots : Activate(target)
    <2>1. PICK target \in Slots : Activate(target)
      BY <1>5
    <2>2. /\ Idle
          /\ ActivateResult(flash, target) = "ok"
          /\ queue' = << ActivateWrite(flash, target) >>
          /\ tried' = tried \ {ActivateSeq(flash, target)}
          /\ UNCHANGED <<flash, lastValid>>
      BY <2>1 DEF Activate
    <2>3. ActivateWrite(flash, target).entry = Entry(ActivateSeq(flash, target), "new")
      BY <1>a, <2>2, ActivateWriteFacts
    <2>4. ActivateWrite(flash, target).entry.state = "new"
      BY <2>3 DEF Entry
    <2>5. \A s \in Sectors : flash[s].seq # ActivateSeq(flash, target)
      BY <1>a, <2>2, ActivateSeqFacts, CellFacts
    <2> QED BY <2>2, <2>4, <2>5, UpdateMaps DEF Maps
  <1>6. CASE Confirm \/ Reject
    <2>1. /\ Idle
          /\ PendingSectors(flash) # {}
          /\ \E w : queue' = << w >>
          /\ UNCHANGED <<flash, lastValid, tried>>
      BY <1>6 DEF Confirm, Reject, history
    <2>2. ~NoneInFlight
      BY <2>1 DEF NoneInFlight, InTrial, PendingSectors
    <2> QED BY <2>1, <2>2, UpdateMaps DEF Maps
  <1>7. CASE WriteFails \/ PowerCut
    <2>1. Interrupted /\ tried' = tried /\ TypeOK
      BY <1>7 DEF WriteFails, PowerCut, IInv
    <2>2. queue' = << >>
      BY <2>1, InterruptedFacts
    <2>3. CASE UNCHANGED <<flash, lastValid>>
      BY <2>1, <2>2, <2>3, DropMaps
    <2>4. CASE queue # << >> /\ Changed
      BY <2>1, <2>2, <2>4, CommandMaps DEF GoesOn
    <2> QED BY <2>1, <2>3, <2>4, InterruptedFacts
  <1>8. CASE (\E slot \in Slots : Rot(slot)) \/ UNCHANGED vars
    <2>1. UNCHANGED <<flash, queue, lastValid, tried>>
      BY <1>8 DEF Rot, history, vars
    <2>2. Rewriting' <=> Rewriting
      BY <2>1 DEF Rewriting
    <2>3. NoneInFlight' <=> NoneInFlight
      BY <2>1 DEF NoneInFlight, InTrial, Unproven, Pending
    <2>4. CASE NoneInFlight
      BY <2>1, <2>2, <2>3, <2>4 DEF Mapped, Fate, Maps
    <2>5. CASE ~NoneInFlight
      BY <2>1, <2>5, QuietStep DEF Maps
    <2> QED BY <2>4, <2>5
  <1> QED BY <1>1, <1>2, <1>3, <1>4, <1>5, <1>6, <1>7, <1>8 DEF Next

\* The boot chain, with power cuts and failures in every flash command of every
\* update, implements the abstract trial update: a candidate is tried once at
\* most and only one that was tried takes over, and what is interrupted costs
\* the candidate and never the base.
THEOREM BootChainImplements == ASSUME MaxFaults = 0 PROVE Spec => ImplementsTrialUpdate
  <1>1. Init => Trial!TrialInit
    <2> SUFFICES ASSUME Init PROVE Trial!TrialInit
      OBVIOUS
    <2>1. IInv
      BY TypeInit, TrustInit, FallbackInit, CandidateInit, UpdateInit DEF IInv
    <2>2. NoneInFlight
      BY NoEntry DEF Init, NoneInFlight, InTrial
    <2>3. ~Rewriting /\ lastValid = 0
      BY DEF Init, Rewriting
    <2>4. CandidateSeq = 0 /\ CandidateTrial = "none"
      BY <2>1, <2>2, <2>3, MapFacts DEF Mapped
    <2> QED BY <2>3, <2>4 DEF Trial!TrialInit
  <1>2. IInv /\ Mapped /\ (IInv /\ Mapped)' /\ [Next]_vars => [Trial!TrialNext]_(Trial!trialVars)
    <2> SUFFICES ASSUME IInv, Mapped, IInv', Mapped', [Next]_vars
                 PROVE  [Trial!TrialNext]_(Trial!trialVars)
      OBVIOUS
    <2>1. faults = 0
      BY DEF IInv, TypeOK
    <2>2. Maps
      BY <2>1, StepMaps
    <2> QED BY <2>2 DEF Maps, Trial!trialVars
  <1>3. Spec => []IInv
    BY InvariantHolds
  <1>4. IInv => Mapped
    BY MapFacts
  <1> QED BY <1>1, <1>2, <1>3, <1>4, PTL DEF Spec, ImplementsTrialUpdate, Trial!TrialSpec
===============================================================================
