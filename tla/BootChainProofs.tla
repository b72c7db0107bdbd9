--------------------------- MODULE BootChainProofs ----------------------------
(***************************************************************************)
(* What is proved of the boot chain, for any number of slots, any SeqMax   *)
(* and any number of faults: its type invariant; that no entry is trusted  *)
(* that was not earned; and that the fallback survives.  What is proved of *)
(* the candidate is in CandidateProofs.tla.                                *)
(***************************************************************************)
EXTENDS BootChainInvariant, OtadataProofs

USE DEF Otas

-------------------------------------------------------------------------------
(***************************************************************************)
(* Flash commands, whole and cut.                                          *)
(***************************************************************************)

\* Whatever a command leaves in the sector is a cell; an accepted entry only if
\* it was there before or is the one being committed.
LEMMA CommandFacts ==
    ASSUME NEW w \in Writes, NEW k \in 0 .. 2
    PROVE  /\ AfterCommand(k, w) \in Cells
           /\ \/ AfterCommand(k, w) \in {Blank, Corrupt}
              \/ k = 2 /\ AfterCommand(k, w) = w.entry
  <1>1. w.entry \in Entries
    BY DEF Writes
  <1>2. /\ Decode(w.entry) \in Cells
        /\ Decode(w.entry) = w.entry \/ Decode(w.entry) = Corrupt
    BY <1>1, DecodeFacts
  <1>3. Blank \in Cells /\ Corrupt \in Cells
    BY DEF Cells
  <1> QED BY <1>2, <1>3 DEF AfterCommand

LEMMA CutFacts ==
    ASSUME NEW w \in Writes, NEW k \in 0 .. 2, NEW c \in Cells, NEW d \in AfterCut(k, w, c)
    PROVE  /\ d \in Cells
           /\ \/ d \in {Blank, Corrupt}
              \/ k = 0 /\ d = c
              \/ k = 2 /\ d = w.entry
  <1>1. w.entry \in Entries
    BY DEF Writes
  <1>2. /\ Decode(w.entry) \in Cells
        /\ Decode(w.entry) = w.entry \/ Decode(w.entry) = Corrupt
    BY <1>1, DecodeFacts
  <1>3. Blank \in Cells /\ Corrupt \in Cells
    BY DEF Cells
  <1> QED BY <1>2, <1>3 DEF AfterCut

\* Reading a cell from a sector keeps the types.
LEMMA ReadsType ==
    ASSUME TypeOK, NEW w \in Writes, NEW k \in 0 .. 2, NEW c \in Cells, Reads(k, w, c)
    PROVE  /\ flash' \in [Sectors -> Cells]
           /\ lastValid' \in 0 .. SeqMax - 1
  <1>1. w.sector \in Sectors
    BY DEF Writes
  <1>2. flash' \in [Sectors -> Cells]
    BY <1>1 DEF Reads, TypeOK
  <1>3. Valid(c) => c.seq \in 0 .. SeqMax - 1
    BY CellFacts DEF Valid, IsEntry, EntryStates
  <1>4. lastValid' \in 0 .. SeqMax - 1
    BY <1>3 DEF Reads, TypeOK
  <1> QED BY <1>2, <1>4

\* The first update of the queue, and the rest.
LEMMA QueueType ==
    ASSUME TypeOK, queue # << >>
    PROVE  /\ Head(queue) \in Writes
           /\ Head(queue) = queue[1]
           /\ Head(queue).sector \in Sectors
           /\ flash[Head(queue).sector] \in Cells
           /\ Tail(queue) \in Seq(Writes)
           /\ DOMAIN queue = 1 .. Len(queue)
           /\ Len(queue) \in Nat \ {0}
           /\ DOMAIN Tail(queue) = 1 .. Len(queue) - 1
           /\ \A i \in DOMAIN Tail(queue) : i + 1 \in DOMAIN queue /\ Tail(queue)[i] = queue[i + 1]
  <1>1. queue \in Seq(Writes)
    BY DEF TypeOK
  <1>2. /\ Head(queue) \in Writes
        /\ Tail(queue) \in Seq(Writes)
        /\ Head(queue) = queue[1]
        /\ Len(queue) \in Nat \ {0}
        /\ Len(Tail(queue)) = Len(queue) - 1
        /\ \A i \in 1 .. Len(Tail(queue)) : Tail(queue)[i] = queue[i + 1]
    BY <1>1, HeadTailProperties, EmptySeq
  <1>3. DOMAIN queue = 1 .. Len(queue) /\ DOMAIN Tail(queue) = 1 .. Len(Tail(queue))
    BY <1>1, <1>2, LenProperties
  <1>4. Head(queue).sector \in Sectors /\ flash[Head(queue).sector] \in Cells
    BY <1>2 DEF Writes, TypeOK
  <1> QED BY <1>2, <1>3, <1>4

\* A queue of one update.
LEMMA OneUpdate ==
    ASSUME NEW w \in Writes, queue' = << w >>
    PROVE  /\ queue' \in Seq(Writes)
           /\ queue' # << >>
           /\ Len(queue') = 1
           /\ DOMAIN queue' = {1}
           /\ queue'[1] = w
  OBVIOUS

\* What a whole or a cut command does to the flash: the sector of the first
\* update reads as no entry, or as the entry whose commit word it programmed.
Changed ==
    \E c \in Cells :
        /\ flash' = [flash EXCEPT ![Head(queue).sector] = c]
        /\ \/ c \in {Blank, Corrupt} /\ lastValid' = lastValid
           \/ /\ step = 2
              /\ c = Head(queue).entry
              /\ lastValid' = IF Valid(c) THEN c.seq ELSE lastValid

LEMMA ReadsChanged ==
    ASSUME TypeOK, queue # << >>, NEW c \in Cells, Reads(step, Head(queue), c),
           c \in {Blank, Corrupt} \/ (step = 2 /\ c = Head(queue).entry)
    PROVE  Changed
  BY NoEntry DEF Reads, Changed

LEMMA FlashCommandFacts ==
    ASSUME TypeOK, FlashCommand
    PROVE  /\ queue # << >>
           /\ Changed
           /\ step' \in 0 .. 2
           /\ queue' \in Seq(Writes)
           /\ queue' = << >> => step' = 0
           /\ \A i \in DOMAIN queue' : \E j \in DOMAIN queue : queue'[i] = queue[j]
           /\ \A j \in DOMAIN queue :
                 queue[j] = Head(queue) \/ \E i \in DOMAIN queue' : queue'[i] = queue[j]
           /\ Len(queue) = 1 => queue' = << >> \/ (queue' = queue /\ step # 2)
  <1>1. queue # << >> /\ step \in 0 .. 2 /\ queue \in Seq(Writes)
    BY DEF FlashCommand, TypeOK
  <1>2. Head(queue) \in Writes
    BY <1>1, QueueType
  <1>3. Changed
    BY <1>1, <1>2, CommandFacts, ReadsChanged DEF FlashCommand
  <1>4. CASE step = 2
    <2>1. queue' = Tail(queue) /\ step' = 0
      BY <1>4 DEF FlashCommand
    <2>2. \A j \in DOMAIN queue :
            j = 1 \/ (j - 1 \in DOMAIN Tail(queue) /\ Tail(queue)[j - 1] = queue[j])
      BY <1>1, QueueType
    <2>3. Len(queue) = 1 => Tail(queue) = << >>
      BY <1>1, QueueType, LenProperties, EmptySeq
    <2>4. \A i \in DOMAIN queue' : \E j \in DOMAIN queue : queue'[i] = queue[j]
      BY <1>1, <2>1, QueueType
    <2>5. \A j \in DOMAIN queue :
            queue[j] = Head(queue) \/ \E i \in DOMAIN queue' : queue'[i] = queue[j]
      BY <1>1, <2>1, <2>2, QueueType
    <2>6. queue' \in Seq(Writes)
      BY <1>1, <2>1, QueueType
    <2> QED BY <1>1, <1>3, <2>1, <2>3, <2>4, <2>5, <2>6
  <1>5. CASE step # 2
    <2>1. queue' = queue /\ step' = step + 1
      BY <1>1, <1>5, SMT DEF FlashCommand
    <2> QED BY <1>1, <1>3, <1>5, <2>1
  <1> QED BY <1>4, <1>5

LEMMA InterruptedFacts ==
    ASSUME TypeOK, Interrupted
    PROVE  /\ queue' = << >>
           /\ step' = 0
           /\ \/ UNCHANGED <<flash, lastValid>>
              \/ queue # << >> /\ Changed
  <1>1. CASE queue = << >>
    BY <1>1 DEF Interrupted
  <1>2. CASE queue # << >>
    <2>1. PICK c \in AfterCut(step, Head(queue), flash[Head(queue).sector]) :
            Reads(step, Head(queue), c)
      BY <1>2 DEF Interrupted
    <2>2. /\ c \in Cells
          /\ \/ c \in {Blank, Corrupt}
             \/ step = 0 /\ c = flash[Head(queue).sector]
             \/ step = 2 /\ c = Head(queue).entry
      BY <1>2, <2>1, QueueType, CutFacts DEF TypeOK
    <2>3. CASE step = 0 /\ c = flash[Head(queue).sector]
      BY <2>1, <2>3 DEF Reads, TypeOK, Interrupted
    <2>4. CASE c \in {Blank, Corrupt} \/ (step = 2 /\ c = Head(queue).entry)
      BY <1>2, <2>1, <2>2, <2>4, ReadsChanged DEF Interrupted
    <2> QED BY <2>2, <2>3, <2>4
  <1> QED BY <1>1, <1>2

LEMMA ChangedType ==
    ASSUME TypeOK, queue # << >>, Changed
    PROVE  flash' \in [Sectors -> Cells] /\ lastValid' \in 0 .. SeqMax - 1
  <1>1. PICK c \in Cells :
          /\ flash' = [flash EXCEPT ![Head(queue).sector] = c]
          /\ lastValid' = lastValid \/ (Valid(c) /\ lastValid' = c.seq)
    BY DEF Changed
  <1>2. flash' \in [Sectors -> Cells]
    BY <1>1, QueueType DEF TypeOK
  <1>3. Valid(c) => c.seq \in 0 .. SeqMax - 1
    BY CellFacts DEF Valid, IsEntry, EntryStates
  <1> QED BY <1>1, <1>2, <1>3 DEF TypeOK

-------------------------------------------------------------------------------
(***************************************************************************)
(* Types.                                                                  *)
(***************************************************************************)

\* What a plan returns is a boot and a queue of updates.
LEMMA PlanType ==
    ASSUME TypeOK, NEW good \in SUBSET images
    PROVE  /\ PlanBoot(flash, good).boot \in Boots
           /\ PlanBoot(flash, good).writes \in Seq(Writes)
  <1>1. flash \in [Sectors -> Cells] /\ good \in SUBSET Slots
    BY DEF TypeOK
  <1>2. CASE /\ Bootable(flash, good) # {}
             /\ PlanBoot(flash, good).boot =
                  BootSlot(Chosen(flash, good), flash[Chosen(flash, good)].seq)
             /\ PlanBoot(flash, good).writes = MarkWrites(flash, good)
    <2>1. /\ Chosen(flash, good) \in Sectors
          /\ flash[Chosen(flash, good)].seq \in 1 .. SeqMax - 1
          /\ SlotOf(flash[Chosen(flash, good)].seq) \in Slots
      BY <1>1, <1>2, ChosenFacts
    <2> QED BY <1>1, <1>2, <2>1, MarkWritesFacts DEF BootSlot, Boots
  <1>3. CASE /\ PlanBoot(flash, good).boot = BootSlot(0, 1)
             /\ PlanBoot(flash, good).writes = << Write(0, 1, "valid") >>
    <2>1. SlotOf(1) \in Slots
      BY SlotOfType
    <2>2. PlanBoot(flash, good).boot \in Boots
      BY <1>3, <2>1, OtadataAssumption DEF BootSlot, Boots, Sectors
    <2>3. Write(0, 1, "valid") \in Writes
      BY OtadataAssumption DEF Write, Writes, Entry, Entries, EntryStates, Sectors
    <2> QED BY <1>3, <2>2, <2>3
  <1>4. CASE /\ \E why \in HaltKinds : PlanBoot(flash, good).boot = BootHalt(why)
             /\ \/ PlanBoot(flash, good).writes = MarkWrites(flash, good)
                \/ PlanBoot(flash, good).writes = << >>
    <2>1. PlanBoot(flash, good).boot \in Boots
      BY <1>4 DEF Boots
    <2>2. << >> \in Seq(Writes)
      BY EmptySeq
    <2>3. MarkWrites(flash, good) \in Seq(Writes)
      BY <1>1, MarkWritesFacts
    <2> QED BY <1>4, <2>1, <2>2, <2>3
  <1> QED BY <1>1, <1>2, <1>3, <1>4, PlanCases

LEMMA TypeInit == Init => TypeOK
  <1> SUFFICES ASSUME Init PROVE TypeOK
    OBVIOUS
  <1>1. flash \in [Sectors -> Cells]
    BY DEF Init, Cells
  <1>2. boot \in Boots
    BY DEF Init, NoBoot, Boots
  <1>3. queue \in Seq(Writes)
    BY EmptySeq DEF Init
  <1>4. vetted \in SUBSET Slots
    BY OtadataAssumption DEF Init, Slots
  <1> QED BY <1>1, <1>2, <1>3, <1>4, OtadataAssumption, BootChainAssumption DEF Init, TypeOK

LEMMA TypeStep == TypeOK /\ [Next]_vars => TypeOK'
  <1> SUFFICES ASSUME TypeOK, [Next]_vars PROVE TypeOK'
    OBVIOUS
  <1>1. CASE Boot
    <2>1. PICK good \in SUBSET images : PowerOn(good)
      BY <1>1 DEF Boot
    <2>2. faults' \in 0 .. MaxFaults
      BY <2>1, BootChainAssumption DEF PowerOn, TypeOK
    <2> QED BY <2>1, <2>2, PlanType DEF PowerOn, TypeOK, history
  <1>2. CASE FlashCommand
    <2>1. /\ flash' \in [Sectors -> Cells]
          /\ lastValid' \in 0 .. SeqMax - 1
          /\ step' \in 0 .. 2
          /\ queue' \in Seq(Writes)
      BY <1>2, FlashCommandFacts, ChangedType
    <2> QED BY <1>2, <2>1 DEF FlashCommand, TypeOK
  <1>3. CASE Launch
    <2>1. boot.kind = "slot" => boot.seq \in 1 .. SeqMax
      BY OtadataAssumption DEF TypeOK, Boots, NoBoot, BootHalt, HaltKinds
    <2>2. tried' \in SUBSET (1 .. SeqMax)
      BY <1>3, <2>1 DEF Launch, TypeOK
    <2> QED BY <1>3, <2>2 DEF Launch, TypeOK
  <1>4. CASE \E slot \in Slots : Stage(slot)
    BY <1>4 DEF Stage, Idle, TypeOK
  <1>5. CASE \E target \in Slots : Activate(target)
    <2>1. PICK target \in Slots : Activate(target)
      BY <1>5
    <2>2. queue' \in Seq(Writes)
      BY <2>1, ActivateWriteFacts, OneUpdate DEF Activate, TypeOK
    <2> QED BY <2>1, <2>2 DEF Activate, Idle, TypeOK
  <1>6. CASE Confirm
    <2>1. queue' \in Seq(Writes)
      BY <1>6, VerdictWriteFacts, OneUpdate DEF Confirm, TypeOK
    <2>2. boot.slot \in Slots /\ boot.seq \in 1 .. SeqMax
      BY <1>6, OtadataAssumption DEF Confirm, Idle, TypeOK, Boots, NoBoot, BootHalt, HaltKinds
    <2> QED BY <1>6, <2>1, <2>2 DEF Confirm, Idle, TypeOK
  <1>7. CASE Reject
    <2>1. queue' \in Seq(Writes)
      BY <1>7, VerdictWriteFacts, OneUpdate DEF Reject, TypeOK
    <2> QED BY <1>7, <2>1 DEF Reject, Idle, TypeOK, history
  <1>8. CASE WriteFails
    <2>1. flash' \in [Sectors -> Cells] /\ lastValid' \in 0 .. SeqMax - 1
      BY <1>8, InterruptedFacts, ChangedType DEF WriteFails, TypeOK
    <2>2. queue' \in Seq(Writes) /\ step' \in 0 .. 2
      BY <1>8, InterruptedFacts, EmptySeq DEF WriteFails
    <2> QED BY <1>8, <2>1, <2>2 DEF WriteFails, TypeOK
  <1>9. CASE PowerCut
    <2>1. flash' \in [Sectors -> Cells] /\ lastValid' \in 0 .. SeqMax - 1
      BY <1>9, InterruptedFacts, ChangedType DEF PowerCut, TypeOK
    <2>2. queue' \in Seq(Writes) /\ step' \in 0 .. 2
      BY <1>9, InterruptedFacts, EmptySeq DEF PowerCut
    <2>3. boot' \in Boots
      BY <1>9 DEF PowerCut, Boots
    <2> QED BY <1>9, <2>1, <2>2, <2>3 DEF PowerCut, TypeOK
  <1>10. CASE Reset
    <2>1. boot' \in Boots
      BY <1>10 DEF Reset, Boots
    <2> QED BY <1>10, <2>1 DEF Reset, Idle, TypeOK, history
  <1>11. CASE \E slot \in Slots : Rot(slot)
    BY <1>11, BootChainAssumption DEF Rot, TypeOK, history
  <1>12. CASE UNCHANGED vars
    BY <1>12 DEF vars, TypeOK
  <1> QED BY <1>1, <1>2, <1>3, <1>4, <1>5, <1>6, <1>7, <1>8, <1>9, <1>10, <1>11, <1>12 DEF Next

\* Every state of the boot chain is well-formed: sectors hold cells that decode
\* can return, updates are complete entries, only real slots are started.
THEOREM TypeCorrect == Spec => []TypeOK
  BY TypeInit, TypeStep, PTL DEF Spec

-------------------------------------------------------------------------------
(***************************************************************************)
(* Trust.                                                                  *)
(***************************************************************************)

\* Of the two sectors only that of the first update reads differently.
LEMMA ChangedFacts ==
    ASSUME TypeOK, queue # << >>, Changed
    PROVE  \A s \in Sectors :
             \/ s # Head(queue).sector /\ flash'[s] = flash[s]
             \/ s = Head(queue).sector /\ flash'[s] \in {Blank, Corrupt}
             \/ s = Head(queue).sector /\ step = 2 /\ flash'[s] = Head(queue).entry
  BY QueueType DEF Changed, TypeOK

\* So an entry that reads Valid was Valid, or is the Valid one just committed.
LEMMA EarnedTrustChanged ==
    ASSUME TypeOK, ValidWrites, EarnedTrust, proven' = proven,
           UNCHANGED flash \/ (queue # << >> /\ Changed)
    PROVE  EarnedTrust'
  <1> SUFFICES ASSUME NEW s \in Sectors, Valid(flash'[s])
               PROVE  flash'[s].seq \in proven'
    BY DEF EarnedTrust, Valid
  <1>1. CASE flash'[s] = flash[s]
    BY <1>1 DEF EarnedTrust
  <1>2. CASE queue # << >> /\ flash'[s] = Head(queue).entry
    <2>1. 1 \in DOMAIN queue /\ Head(queue) = queue[1]
      BY <1>2, QueueType
    <2> QED BY <1>2, <2>1 DEF ValidWrites, Valid
  <1>3. CASE flash'[s] \in {Blank, Corrupt}
    BY <1>3, NoEntry
  <1> QED BY <1>1, <1>2, <1>3, ChangedFacts

\* An application's update leaves no Pending entry but the running image's.
LEMMA PendingIsRunChanged ==
    ASSUME TypeOK, PendingIsRun, PendingWrites, phase = "app", phase' = "app", boot' = boot,
           UNCHANGED flash \/ (queue # << >> /\ Changed)
    PROVE  PendingIsRun'
  <1> SUFFICES ASSUME NEW s \in Sectors, Pending(flash'[s])
               PROVE  flash'[s].seq = boot'.seq
    BY DEF PendingIsRun, Pending
  <1>1. CASE flash'[s] = flash[s]
    BY <1>1 DEF PendingIsRun
  <1>2. CASE queue # << >> /\ flash'[s] = Head(queue).entry
    <2>1. 1 \in DOMAIN queue /\ Head(queue) = queue[1]
      BY <1>2, QueueType
    <2> QED BY <1>2, <2>1 DEF PendingWrites, Pending
  <1>3. CASE flash'[s] \in {Blank, Corrupt}
    BY <1>3, NoEntry
  <1> QED BY <1>1, <1>2, <1>3, ChangedFacts

LEMMA TrustInit == Init => TrustInv
  <1> SUFFICES ASSUME Init PROVE TrustInv
    OBVIOUS
  <1>1. \A s \in Sectors : flash[s] \in {Blank, Corrupt}
    BY DEF Init
  <1>2. EarnedTrust /\ PendingIsRun
    BY <1>1, NoEntry DEF EarnedTrust, PendingIsRun
  <1>3. PendingWrites /\ ValidWrites /\ QueueOK
    BY DEF Init, PendingWrites, ValidWrites, QueueOK
  <1> QED BY <1>2, <1>3 DEF Init, TrustInv

\* The plan's updates: every Pending entry is rewritten, the one marked Pending
\* is that of the boot, and nothing is made Valid but the seed.
LEMMA TrustPowerOn ==
    ASSUME TypeOK, TrustInv, NEW good \in SUBSET images, PowerOn(good)
    PROVE  TrustInv'
  <1> DEFINE c == Chosen(flash, good)
             ws == MarkWrites(flash, good)
  <1>1. flash \in Otas /\ flash' = flash /\ phase' = "boot" /\ proven' = proven
    BY DEF TypeOK, PowerOn, history
  <1>2. QueueOK' /\ (1 \in proven)' /\ EarnedTrust'
    BY <1>1 DEF PowerOn, TrustInv, QueueOK, EarnedTrust
  <1>3. ASSUME queue' = ws,
               \A s \in Sectors : Mark(flash, good, s) = "pending" =>
                   boot'.kind = "slot" /\ boot'.seq = flash[s].seq
        PROVE  PendingIsRun' /\ PendingWrites' /\ ValidWrites'
    <2>1. \A i \in DOMAIN ws : \E s \in Sectors :
            /\ Mark(flash, good, s) \in {"aborted", "invalid", "pending"}
            /\ ws[i].entry.state = Mark(flash, good, s)
            /\ ws[i].entry.seq = flash[s].seq
      BY <1>1, MarkWritesFacts, MarkFacts DEF MarkOf, Write, Entry
    <2>2. \A s \in Sectors : Pending(flash[s]) =>
            \E i \in DOMAIN ws : ws[i].sector = s
      <3>1. \A s \in Sectors : Pending(flash[s]) => Mark(flash, good, s) # "keep"
        BY <1>1, MarkFacts
      <3>2. \A s \in Sectors : Mark(flash, good, s) # "keep" =>
              \E i \in DOMAIN MarkWrites(flash, good) : MarkWrites(flash, good)[i].sector = s
        BY <1>1, MarkedUpdated
      <3> QED BY <3>1, <3>2
    <2> HIDE DEF ws
    <2> QED BY <1>1, <1>3, <2>1, <2>2 DEF PendingIsRun, PendingWrites, ValidWrites
  <1>4. CASE /\ Bootable(flash, good) # {}
             /\ PlanBoot(flash, good).boot = BootSlot(c, flash[c].seq)
             /\ PlanBoot(flash, good).writes = ws
    <2>1. boot'.kind = "slot" /\ boot'.seq = flash[c].seq /\ queue' = ws
      BY <1>4 DEF PowerOn, BootSlot
    <2>2. \A s \in Sectors : Mark(flash, good, s) = "pending" => s = c
      BY <1>1, MarkFacts
    <2> HIDE DEF c, ws
    <2> QED BY <1>2, <1>3, <2>1, <2>2 DEF TrustInv
  <1>5. CASE /\ FirstBoot(flash)
             /\ PlanBoot(flash, good).boot = BootSlot(0, 1)
             /\ PlanBoot(flash, good).writes = << Write(0, 1, "valid") >>
    <2>1. /\ boot'.kind = "slot" /\ boot'.seq = 1
          /\ queue' = << Write(0, 1, "valid") >>
      BY <1>5 DEF PowerOn, BootSlot
    <2>2. \A i \in DOMAIN queue' : /\ queue'[i].entry.state = "valid"
                                   /\ queue'[i].entry.seq = 1
                                   /\ Len(queue') = 1
      BY <2>1 DEF Write, Entry
    <2>3. \A s \in Sectors : ~Pending(flash[s])
      BY <1>5, NoEntry DEF FirstBoot
    <2>4. 1 \in proven
      BY DEF TrustInv
    <2> QED BY <1>1, <1>2, <2>1, <2>2, <2>3, <2>4
            DEF TrustInv, PendingIsRun, PendingWrites, ValidWrites
  <1>6. CASE /\ Bootable(flash, good) = {}
             /\ PlanBoot(flash, good).writes = ws
    <2>1. \A s \in Sectors : Mark(flash, good, s) # "pending"
      BY <1>1, <1>6, MarkFacts
    <2>2. queue' = ws
      BY <1>6 DEF PowerOn
    <2> HIDE DEF ws
    <2> QED BY <1>2, <1>3, <2>1, <2>2 DEF TrustInv
  <1>7. CASE FirstBoot(flash) /\ PlanBoot(flash, good).writes = << >>
    <2>1. queue' = << >>
      BY <1>7 DEF PowerOn
    <2>2. \A s \in Sectors : ~Pending(flash[s])
      BY <1>7, NoEntry DEF FirstBoot
    <2> QED BY <1>1, <1>2, <2>1, <2>2 DEF TrustInv, PendingIsRun, PendingWrites, ValidWrites
  <1> HIDE DEF c, ws
  <1> QED BY <1>1, <1>4, <1>5, <1>6, <1>7, PlanCases DEF c, ws

\* An update of the application, begun with none in progress.
LEMMA TrustUpdate ==
    ASSUME TypeOK, TrustInv, Idle, NEW w \in Writes, queue' = << w >>,
           UNCHANGED <<flash, phase, boot>>,
           w.entry.state \in {"new", "valid", "invalid"},
           w.entry.state = "valid" => w.entry.seq = boot.seq /\ boot.seq \in proven',
           \A s \in Sectors : Valid(flash[s]) => flash[s].seq \in proven',
           1 \in proven'
    PROVE  TrustInv'
  <1>1. queue' # << >> /\ Len(queue') = 1 /\ DOMAIN queue' = {1} /\ queue'[1] = w
    BY OneUpdate
  <1>2. phase = "app" /\ boot.kind = "slot"
    BY DEF Idle, TypeOK
  <1>3. QueueOK' /\ PendingWrites' /\ ValidWrites'
    BY <1>1, <1>2 DEF QueueOK, PendingWrites, ValidWrites
  <1>4. PendingIsRun'
    BY <1>2 DEF TrustInv, PendingIsRun
  <1> QED BY <1>3, <1>4 DEF TrustInv, EarnedTrust

LEMMA TrustStep == TypeOK /\ TrustInv /\ [Next]_vars => TrustInv'
  <1> SUFFICES ASSUME TypeOK, TrustInv, [Next]_vars PROVE TrustInv'
    OBVIOUS
  <1> USE DEF TrustInv
  <1>a. flash \in Otas
    BY DEF TypeOK
  <1>1. CASE Boot
    BY <1>1, TrustPowerOn DEF Boot
  <1>2. CASE FlashCommand
    <2>1. phase \in {"boot", "app"} /\ queue # << >>
      BY <1>2 DEF FlashCommand, QueueOK, TypeOK
    <2>2. UNCHANGED <<phase, boot, proven>>
      BY <1>2 DEF FlashCommand
    <2>3. QueueOK'
      BY <1>2, <2>1, <2>2, FlashCommandFacts DEF QueueOK
    <2>4. EarnedTrust'
      BY <1>2, <2>1, <2>2, FlashCommandFacts, EarnedTrustChanged
    <2>5. \A i \in DOMAIN queue' : \E j \in DOMAIN queue : queue'[i] = queue[j]
      BY <1>2, FlashCommandFacts
    <2>6. PendingWrites'
      BY <2>2, <2>5 DEF PendingWrites
    <2>7. ValidWrites'
      <3> SUFFICES ASSUME NEW i \in DOMAIN queue', queue'[i].entry.state = "valid"
                   PROVE  /\ Len(queue') = 1
                          /\ queue'[i].entry.seq \in proven'
                          /\ boot'.kind = "slot" /\ queue'[i].entry.seq = boot'.seq
        BY DEF ValidWrites
      <3>1. PICK j \in DOMAIN queue : queue'[i] = queue[j]
        BY <2>5
      <3>2. Len(queue) = 1 /\ queue' # << >>
        BY <3>1 DEF ValidWrites
      <3> QED BY <1>2, <2>2, <3>1, <3>2, FlashCommandFacts DEF ValidWrites
    <2>8. PendingIsRun'
      <3>1. CASE phase = "app"
        BY <1>2, <2>1, <2>2, <3>1, FlashCommandFacts, PendingIsRunChanged
      <3>2. CASE phase = "boot"
        <4> SUFFICES ASSUME NEW s \in Sectors, Pending(flash'[s])
                     PROVE  \/ boot.kind = "slot" /\ flash'[s].seq = boot.seq
                            \/ \E i \in DOMAIN queue' : queue'[i].sector = s
          BY <2>2, <3>2 DEF PendingIsRun
        <4>1. CASE s # Head(queue).sector /\ flash'[s] = flash[s]
          <5>1. CASE \E j \in DOMAIN queue : queue[j].sector = s
            <6>1. PICK j \in DOMAIN queue : queue[j].sector = s
              BY <5>1
            <6>2. queue[j] # Head(queue)
              BY <4>1, <6>1
            <6> QED BY <1>2, <6>1, <6>2, FlashCommandFacts
          <5>2. CASE boot.kind = "slot" /\ flash[s].seq = boot.seq
            BY <4>1, <5>2
          <5> QED BY <3>2, <4>1, <5>1, <5>2 DEF PendingIsRun
        <4>2. CASE flash'[s] = Head(queue).entry
          <5>1. 1 \in DOMAIN queue /\ Head(queue) = queue[1]
            BY <2>1, QueueType
          <5> QED BY <4>2, <5>1 DEF PendingWrites, Pending
        <4>3. CASE flash'[s] \in {Blank, Corrupt}
          BY <4>3, NoEntry
        <4> QED BY <1>2, <4>1, <4>2, <4>3, FlashCommandFacts, ChangedFacts
      <3> QED BY <2>1, <3>1, <3>2
    <2> QED BY <2>2, <2>3, <2>4, <2>6, <2>7, <2>8
  <1>3. CASE Launch
    <2>1. PendingIsRun'
      BY <1>3 DEF Launch, PendingIsRun
    <2>2. QueueOK' /\ PendingWrites' /\ ValidWrites' /\ EarnedTrust'
      BY <1>3 DEF Launch, QueueOK, PendingWrites, ValidWrites, EarnedTrust
    <2> QED BY <1>3, <2>1, <2>2 DEF Launch
  <1>4. CASE \E slot \in Slots : Stage(slot)
    BY <1>4 DEF Stage, QueueOK, PendingIsRun, PendingWrites, ValidWrites, EarnedTrust
  <1>5. CASE \E target \in Slots : Activate(target)
    <2>1. PICK target \in Slots : Activate(target)
      BY <1>5
    <2>2. ActivateResult(flash, target) = "ok"
      BY <2>1 DEF Activate
    <2> DEFINE q == ActivateSeq(flash, target)
    <2>3. \A s \in Sectors : Valid(flash[s]) => flash[s].seq \in proven'
      <3>1. \A s \in Sectors : flash[s].seq # q
        BY <1>a, <2>2, ActivateSeqFacts, CellFacts
      <3> QED BY <2>1, <3>1 DEF EarnedTrust, Activate
    <2>4. 1 \in proven'
      <3>1. PICK s \in Sectors : Valid(flash[s])
        BY <2>2 DEF ActivateResult, ValidSectors
      <3>2. flash[s].seq \in 1 .. SeqMax - 1
        BY <1>a, <3>1, CellFacts DEF Valid, IsEntry, EntryStates
      <3>3. q # 1
        BY <1>a, <2>2, <3>2, ActivateSeqFacts, OtadataAssumption
      <3> QED BY <2>1, <3>3 DEF Activate
    <2>5. ActivateWrite(flash, target) \in Writes
      BY <1>a, <2>2, ActivateWriteFacts
    <2>6. ActivateWrite(flash, target).entry = Entry(q, "new")
      BY <1>a, <2>2, ActivateWriteFacts
    <2>7. ActivateWrite(flash, target).entry.state = "new"
      BY <2>6 DEF Entry
    <2> QED BY <2>1, <2>3, <2>4, <2>5, <2>7, TrustUpdate DEF Activate
  <1>6. CASE Confirm
    <2> DEFINE w == ConfirmWrite(flash)
    <2>1. PendingSectors(flash) # {} /\ phase = "app"
      BY <1>6 DEF Confirm, Idle
    <2>2. /\ w \in Writes
          /\ PendingSector(flash) \in Sectors
          /\ Pending(flash[PendingSector(flash)])
          /\ w.entry = Entry(flash[PendingSector(flash)].seq, "valid")
      BY <1>a, <2>1, VerdictWriteFacts
    <2>3. w.entry.state = "valid" /\ w.entry.seq = boot.seq
      BY <2>1, <2>2 DEF PendingIsRun, Entry
    <2> HIDE DEF w
    <2> QED BY <1>6, <2>2, <2>3, TrustUpdate DEF Confirm, EarnedTrust, w
  <1>7. CASE Reject
    <2>1. PendingSectors(flash) # {}
      BY <1>7 DEF Reject
    <2>2. /\ RejectWrite(flash) \in Writes
          /\ RejectWrite(flash).entry = Entry(flash[PendingSector(flash)].seq, "invalid")
      BY <1>a, <2>1, VerdictWriteFacts
    <2>3. RejectWrite(flash).entry.state = "invalid"
      BY <2>2 DEF Entry
    <2> QED BY <1>7, <2>2, <2>3, TrustUpdate DEF Reject, EarnedTrust, history
  <1>8. CASE WriteFails
    <2>1. /\ phase = "app"
          /\ UNCHANGED <<phase, boot, proven>>
          /\ queue' = << >> /\ step' = 0
          /\ UNCHANGED flash \/ (queue # << >> /\ Changed)
      BY <1>8, InterruptedFacts DEF WriteFails
    <2>2. EarnedTrust' /\ PendingIsRun'
      BY <2>1, EarnedTrustChanged, PendingIsRunChanged
    <2> QED BY <2>1, <2>2 DEF QueueOK, PendingWrites, ValidWrites
  <1>9. CASE PowerCut
    <2>1. /\ phase' = "off" /\ proven' = proven
          /\ queue' = << >> /\ step' = 0
          /\ UNCHANGED flash \/ (queue # << >> /\ Changed)
      BY <1>9, InterruptedFacts DEF PowerCut
    <2>2. EarnedTrust'
      BY <2>1, EarnedTrustChanged
    <2> QED BY <2>1, <2>2 DEF QueueOK, PendingIsRun, PendingWrites, ValidWrites
  <1>10. CASE Reset
    BY <1>10 DEF Reset, Idle, history, QueueOK, PendingIsRun, PendingWrites, ValidWrites, EarnedTrust
  <1>11. CASE \E slot \in Slots : Rot(slot)
    BY <1>11 DEF Rot, history, QueueOK, PendingIsRun, PendingWrites, ValidWrites, EarnedTrust
  <1>12. CASE UNCHANGED vars
    BY <1>12 DEF vars, QueueOK, PendingIsRun, PendingWrites, ValidWrites, EarnedTrust
  <1> QED BY <1>1, <1>2, <1>3, <1>4, <1>5, <1>6, <1>7, <1>8, <1>9, <1>10, <1>11, <1>12 DEF Next

\* No entry ever reads Valid but the first-boot seed and those of images that
\* passed their self-check under that very entry: for any number of slots, of
\* power cuts at any command, and of images going bad.
THEOREM TrustIsEarned == Spec => []EarnedTrust
  <1>1. Init => TypeOK /\ TrustInv
    BY TypeInit, TrustInit
  <1>2. TypeOK /\ TrustInv /\ [Next]_vars => (TypeOK /\ TrustInv)'
    BY TypeStep, TrustStep
  <1>3. TypeOK /\ TrustInv => EarnedTrust
    BY DEF TrustInv
  <1> QED BY <1>1, <1>2, <1>3, PTL DEF Spec

-------------------------------------------------------------------------------
(***************************************************************************)
(* The fallback.                                                           *)
(***************************************************************************)

\* The invariant without its condition: what holds while faults = 0.
Fallback == FallbackUntouched /\ FallbackBootable /\ FallbackOrder /\ RunningBootable

LEMMA FallbackInit == Init => FallbackInv
  <1> SUFFICES ASSUME Init PROVE FallbackInv
    OBVIOUS
  <1>1. \A s \in Sectors : flash[s] \in {Blank, Corrupt}
    BY DEF Init
  <1>2. FallbackUntouched /\ FallbackBootable /\ RunningBootable
    BY <1>1 DEF Init, FallbackUntouched, FallbackBootable, RunningBootable, FirstBoot
  <1>3. FallbackOrder
    BY <1>1, NoEntry DEF Init, FallbackOrder
  <1> QED BY <1>2, <1>3 DEF FallbackInv

\* A sector with an entry, whatever its state, means an entry was committed as
\* Valid before, and that entry is there.
LEMMA FallbackThere ==
    ASSUME TypeOK, Fallback, NEW t \in Sectors, IsEntry(flash[t])
    PROVE  /\ lastValid \in 1 .. SeqMax - 1
           /\ SlotOf(lastValid) \in images \cap vetted
           /\ \E s \in Sectors : /\ flash[s] = Entry(lastValid, "valid")
                                 /\ Valid(flash[s])
                                 /\ flash[s].seq = lastValid
                                 /\ \A i \in DOMAIN queue : queue[i].sector # s
  <1>1. lastValid # 0
    BY NoEntry DEF Fallback, FallbackBootable, FirstBoot
  <1>2. \E s \in Sectors : /\ flash[s] = Entry(lastValid, "valid")
                           /\ \A i \in DOMAIN queue : queue[i].sector # s
    BY <1>1 DEF Fallback, FallbackUntouched
  <1> QED BY <1>1, <1>2, OtadataAssumption DEF Fallback, FallbackBootable, TypeOK, Valid, Entry

\* The plan leaves the sector of the fallback alone, and starts the fallback or a
\* candidate above it.
LEMMA FallbackPowerOn ==
    ASSUME TypeOK, Fallback, PowerOn(images)
    PROVE  Fallback'
  <1> DEFINE c == Chosen(flash, images)
             ws == MarkWrites(flash, images)
  <1>1. /\ flash \in Otas
        /\ UNCHANGED <<flash, images, lastValid, vetted>>
        /\ phase' = "boot"
        /\ queue' = PlanBoot(flash, images).writes
        /\ boot' = PlanBoot(flash, images).boot
    BY DEF TypeOK, PowerOn, history
  <1>2. \A i \in DOMAIN ws : \E s \in Sectors :
          /\ Mark(flash, images, s) \in {"aborted", "invalid", "pending"}
          /\ ws[i].entry.state = Mark(flash, images, s)
          /\ ws[i].entry.seq = flash[s].seq
          /\ ws[i].sector = s
    BY <1>1, MarkWritesFacts, MarkFacts DEF MarkOf, Write, Entry
  <1>3. CASE FirstBoot(flash)
    <2>1. \A s \in Sectors : flash[s] \in {Blank, Corrupt} /\ ~IsEntry(flash[s])
      BY <1>3, NoEntry DEF FirstBoot
    <2>2. lastValid = 0 /\ 0 \in vetted
      <3>1. lastValid = 0
        BY <2>1, NoEntry DEF Fallback, FallbackUntouched
      <3> QED BY <3>1 DEF Fallback, FallbackBootable
    <2>3. CASE /\ 0 \in images
               /\ PlanBoot(flash, images).boot = BootSlot(0, 1)
               /\ PlanBoot(flash, images).writes = << Write(0, 1, "valid") >>
      <3>1. SlotOf(1) = 0
        BY OtadataAssumption, SMT DEF SlotOf
      <3>2. /\ boot'.seq = 1 /\ boot'.slot = 0 /\ boot'.sector = 0
            /\ queue' = << Write(0, 1, "valid") >>
        BY <1>1, <2>3, <3>1 DEF BootSlot
      <3>3. \A i \in DOMAIN queue' :
              queue'[i].entry.state = "valid" /\ queue'[i].entry.seq = 1
        BY <3>2 DEF Write, Entry
      <3>4. FallbackUntouched' /\ FallbackBootable'
        BY <1>1, <1>3, <2>2, <3>3 DEF FallbackUntouched, FallbackBootable
      <3>5. FallbackOrder'
        BY <1>1, <2>1, <2>2, <3>3, NoEntry DEF FallbackOrder
      <3>6. flash'[0] # Entry(1, "valid")
        BY <1>1, <2>1, NoEntry DEF Sectors
      <3>7. RunningBootable'
        BY <1>1, <2>2, <2>3, <3>1, <3>2, <3>6 DEF RunningBootable
      <3> QED BY <3>4, <3>5, <3>7 DEF Fallback
    <2>4. CASE /\ \E why \in HaltKinds : PlanBoot(flash, images).boot = BootHalt(why)
               /\ \/ PlanBoot(flash, images).writes = ws
                  \/ PlanBoot(flash, images).writes = << >>
      <3>1. DOMAIN ws = {}
        <4>1. \A s \in Sectors : Mark(flash, images, s) = "keep"
          BY <1>1, <2>1, MarkFacts
        <4> HIDE DEF ws
        <4> QED BY <1>2, <4>1
      <3>2. \A i \in DOMAIN queue' : FALSE
        BY <1>1, <2>4, <3>1
      <3>3. boot'.kind # "slot"
        BY <1>1, <2>4 DEF BootHalt, HaltKinds
      <3>4. FallbackUntouched' /\ FallbackBootable' /\ RunningBootable'
        BY <1>1, <1>3, <2>2, <3>2, <3>3 DEF FallbackUntouched, FallbackBootable, RunningBootable
      <3>5. FallbackOrder'
        BY <1>1, <2>1, <3>2, NoEntry DEF FallbackOrder
      <3> QED BY <3>4, <3>5 DEF Fallback
    <2>5. Bootable(flash, images) = {}
      BY <1>1, <1>3, FirstBootFacts
    <2> HIDE DEF c, ws
    <2> QED BY <1>1, <2>3, <2>4, <2>5, PlanCases DEF c, ws
  <1>4. CASE ~FirstBoot(flash)
    <2>1. PICK t \in Sectors : IsEntry(flash[t])
      BY <1>1, <1>4, CellFacts DEF FirstBoot
    <2>2. PICK s \in Sectors : /\ flash[s] = Entry(lastValid, "valid")
                               /\ Valid(flash[s])
                               /\ flash[s].seq = lastValid
      BY <2>1, FallbackThere
    <2>3. lastValid \in 1 .. SeqMax - 1 /\ SlotOf(lastValid) \in images \cap vetted
      BY <2>1, FallbackThere
    <2>4. s \in Bootable(flash, images)
      BY <2>2, <2>3 DEF Bootable, Candidates, Candidate
    <2>5. boot' = BootSlot(c, flash[c].seq) /\ queue' = ws
      BY <1>1, <1>4, <2>4, PlanCases
    <2>6. Mark(flash, images, s) = "keep"
      BY <1>1, <2>2, <2>4, MarkFacts
    <2>7. /\ c \in Sectors
          /\ flash[c].seq \in 1 .. SeqMax - 1
          /\ SlotOf(flash[c].seq) \in images
          /\ lastValid <= flash[c].seq
      BY <1>1, <2>2, <2>4, ChosenFacts
    <2>8. \A x \in Sectors : Mark(flash, images, x) = "pending" => flash[x].seq > lastValid
      BY <1>1, MarkFacts DEF Fallback, FallbackOrder
    <2>9. /\ boot'.slot = SlotOf(flash[c].seq)
          /\ boot'.seq = flash[c].seq
          /\ boot'.sector = c
      BY <2>5 DEF BootSlot
    <2>10. \A i \in DOMAIN queue' :
             /\ queue'[i].sector # s
             /\ queue'[i].entry.state \in {"aborted", "invalid", "pending"}
             /\ queue'[i].entry.state = "pending" => queue'[i].entry.seq > lastValid
      <3> HIDE DEF ws
      <3> QED BY <1>2, <2>5, <2>6, <2>8
    <2> HIDE DEF c, ws
    <2>11. FallbackUntouched' /\ FallbackBootable'
      BY <1>1, <2>2, <2>3, <2>10 DEF Fallback, FallbackUntouched, FallbackBootable
    <2>12. FallbackOrder'
      BY <1>1, <2>10 DEF Fallback, FallbackOrder
    <2>13. flash[c] = Entry(flash[c].seq, "valid") => flash[c].seq = lastValid
      <3>1. flash[c] = Entry(flash[c].seq, "valid") => Valid(flash[c])
        BY DEF Valid, Entry
      <3> QED BY <2>3, <2>7, <3>1 DEF Fallback, FallbackOrder
    <2>14. RunningBootable'
      BY <1>1, <2>7, <2>9, <2>10, <2>13 DEF RunningBootable
    <2> QED BY <2>11, <2>12, <2>14 DEF Fallback
  <1> QED BY <1>3, <1>4

\* A flash command, whole or cut, of the bootloader or the application: a new
\* Valid entry takes over as the fallback the moment it is committed.
LEMMA FallbackChanged ==
    ASSUME TypeOK, TrustInv, Fallback, queue # << >>, Changed,
           UNCHANGED <<images, vetted>>,
           UNCHANGED <<phase, boot>> \/ phase' = "off",
           \A i \in DOMAIN queue' : \E j \in DOMAIN queue : queue'[i] = queue[j],
           step = 2 /\ Len(queue) = 1 => queue' = << >>
    PROVE  Fallback'
  <1> DEFINE h == Head(queue)
  <1>1. /\ h \in Writes
        /\ h.sector \in Sectors
        /\ 1 \in DOMAIN queue
        /\ h = queue[1]
        /\ h.entry \in Entries
    BY QueueType DEF Writes
  <1>2. PICK c \in Cells :
          /\ flash' = [flash EXCEPT ![h.sector] = c]
          /\ \/ c \in {Blank, Corrupt} /\ lastValid' = lastValid
             \/ /\ step = 2
                /\ c = h.entry
                /\ lastValid' = IF Valid(c) THEN c.seq ELSE lastValid
    BY DEF Changed
  <1>3. /\ flash'[h.sector] = c
        /\ \A s \in Sectors : s # h.sector => flash'[s] = flash[s]
    BY <1>1, <1>2 DEF TypeOK
  <1>4. lastValid \in Nat
    BY DEF TypeOK
  <1> HIDE DEF h
  <1>5. CASE ~Valid(c)
    <2>1. lastValid' = lastValid
      BY <1>2, <1>5
    <2>2. c \in {Blank, Corrupt} \/ c = h.entry
      BY <1>2
    <2>3. FallbackUntouched'
      BY <1>1, <1>3, <2>1 DEF Fallback, FallbackUntouched
    <2>4. FallbackBootable'
      <3>1. CASE lastValid # 0
        BY <2>1, <3>1 DEF Fallback, FallbackBootable
      <3>2. CASE lastValid = 0
        <4>1. h.entry.state = "valid"
          BY <1>1, <3>2 DEF Fallback, FallbackBootable
        <4>2. c \in {Blank, Corrupt}
          BY <1>5, <2>2, <4>1 DEF Valid
        <4>3. FirstBoot(flash)'
          BY <1>3, <3>2, <4>2 DEF Fallback, FallbackBootable, FirstBoot
        <4> QED BY <2>1, <3>2, <4>3 DEF Fallback, FallbackBootable
      <3> QED BY <3>1, <3>2
    <2>5. FallbackOrder'
      <3>1. Unproven(c) \/ Pending(c) => c.seq > lastValid
        <4>1. CASE c \in {Blank, Corrupt}
          BY <4>1, NoEntry
        <4>2. CASE c = h.entry
          BY <1>1, <4>2 DEF Fallback, FallbackOrder, Unproven, Pending
        <4> QED BY <2>2, <4>1, <4>2
      <3>2. ASSUME NEW s \in Sectors
            PROVE  /\ Valid(flash'[s]) => flash'[s].seq <= lastValid
                   /\ Unproven(flash'[s]) \/ Pending(flash'[s]) => flash'[s].seq > lastValid
        BY <1>3, <1>5, <3>1 DEF Fallback, FallbackOrder
      <3>3. \A i \in DOMAIN queue' :
              queue'[i].entry.state \in {"new", "pending", "valid"} =>
                  queue'[i].entry.seq > lastValid
        BY DEF Fallback, FallbackOrder
      <3> QED BY <2>1, <3>2, <3>3 DEF FallbackOrder, Valid, Unproven, Pending
    <2>6. RunningBootable'
      <3>1. CASE phase' = "off"
        BY <3>1 DEF RunningBootable
      <3>2. CASE UNCHANGED <<phase, boot>>
        <4> SUFFICES ASSUME phase \in {"boot", "app"}, boot.kind = "slot"
                     PROVE  /\ boot.slot = SlotOf(boot.seq)
                            /\ boot.slot \in images
                            /\ flash'[boot.sector] = Entry(boot.seq, "valid") =>
                                 boot.seq = lastValid
                            /\ \A i \in DOMAIN queue' :
                                 queue'[i].entry.state = "valid" => boot.slot \in vetted
          BY <2>1, <3>2 DEF RunningBootable
        <4>1. boot.sector \in Sectors
          BY DEF TypeOK, Boots, NoBoot, BootHalt, HaltKinds
        <4>2. c # Entry(boot.seq, "valid")
          BY <1>5 DEF Valid, Entry
        <4> QED BY <1>3, <4>1, <4>2 DEF Fallback, RunningBootable
      <3> QED BY <3>1, <3>2
    <2> QED BY <2>3, <2>4, <2>5, <2>6 DEF Fallback
  <1>6. CASE Valid(c)
    <2>1. step = 2 /\ c = h.entry /\ lastValid' = c.seq
      BY <1>2, <1>6, NoEntry
    <2>2. h.entry.state = "valid"
      BY <1>6, <2>1 DEF Valid
    <2>3. /\ Len(queue) = 1
          /\ boot.kind = "slot"
          /\ c.seq = boot.seq
      BY <1>1, <2>1, <2>2 DEF TrustInv, ValidWrites
    <2>4. queue' = << >>
      BY <2>1, <2>3
    <2>5. phase \in {"boot", "app"}
      BY DEF TrustInv, QueueOK, TypeOK
    <2>6. /\ boot.slot = SlotOf(c.seq)
          /\ boot.slot \in images
          /\ boot.slot \in vetted
      BY <1>1, <2>2, <2>3, <2>5 DEF Fallback, RunningBootable
    <2>7. c.seq > lastValid /\ c.seq \in Nat
      BY <1>1, <2>1, <2>2, CellFacts DEF Fallback, FallbackOrder
    <2>8. c = Entry(c.seq, "valid")
      BY <1>6, CellFacts DEF Valid, EntryStates
    <2>9. \A s \in Sectors : s # h.sector => ~Unproven(flash[s]) /\ ~Pending(flash[s])
      <3>1. CASE lastValid = 0
        <4>1. FirstBoot(flash)
          BY <3>1 DEF Fallback, FallbackBootable
        <4> QED BY <4>1, NoEntry DEF FirstBoot
      <3>2. CASE lastValid # 0
        <4>1. PICK s \in Sectors : /\ flash[s] = Entry(lastValid, "valid")
                                   /\ s # h.sector
          BY <1>1, <3>2 DEF Fallback, FallbackUntouched
        <4>2. \A t \in Sectors : t # h.sector => t = s
          BY <1>1, <4>1 DEF Sectors
        <4> QED BY <4>1, <4>2 DEF Entry, Unproven, Pending
      <3> QED BY <3>1, <3>2
    <2>10. FallbackUntouched'
      BY <1>1, <1>3, <2>1, <2>4, <2>8 DEF FallbackUntouched
    <2>11. FallbackBootable'
      BY <1>4, <2>1, <2>6, <2>7 DEF FallbackBootable
    <2>12. FallbackOrder'
      <3>1. ASSUME NEW s \in Sectors
            PROVE  /\ Valid(flash'[s]) => flash'[s].seq <= lastValid'
                   /\ ~Unproven(flash'[s]) /\ ~Pending(flash'[s])
        <4>1. CASE s = h.sector
          BY <1>3, <1>6, <2>1, <2>7, <4>1 DEF Valid, Unproven, Pending
        <4>2. CASE s # h.sector
          <5>1. flash'[s] = flash[s] /\ flash[s].seq \in Nat
            BY <1>3, <4>2, CellFacts DEF TypeOK
          <5>2. Valid(flash[s]) => flash[s].seq <= lastValid
            BY DEF Fallback, FallbackOrder
          <5> QED BY <1>4, <2>1, <2>7, <2>9, <4>2, <5>1, <5>2
        <4> QED BY <4>1, <4>2
      <3> QED BY <2>4, <3>1 DEF FallbackOrder, Valid, Unproven, Pending
    <2>13. RunningBootable'
      BY <2>1, <2>3, <2>4, <2>5, <2>6 DEF RunningBootable
    <2> QED BY <2>10, <2>11, <2>12, <2>13 DEF Fallback
  <1> QED BY <1>5, <1>6

\* activate writes over the sector that does not hold the fallback.
LEMMA FallbackActivate ==
    ASSUME TypeOK, Fallback, NEW target \in Slots, Activate(target)
    PROVE  Fallback'
  <1> DEFINE w == ActivateWrite(flash, target)
             q == ActivateSeq(flash, target)
             p == Protected(flash)
  <1>1. /\ flash \in Otas
        /\ ActivateResult(flash, target) = "ok"
        /\ queue' = << w >>
        /\ UNCHANGED <<flash, images, phase, boot, lastValid, vetted>>
    BY DEF Activate, TypeOK
  <1>2. /\ w \in Writes
        /\ w.sector = Other(p)
        /\ w.entry = Entry(q, "new")
        /\ p \in ValidSectors(flash)
        /\ \A s \in ValidSectors(flash) : flash[s].seq <= flash[p].seq
    BY <1>1, ActivateWriteFacts
  <1>3. q > flash[p].seq /\ q \in Nat
    BY <1>1, <1>2, ActivateSeqFacts DEF ValidSectors
  <1> HIDE DEF w, q, p
  <1>4. p \in Sectors /\ Valid(flash[p])
    BY <1>2 DEF ValidSectors
  <1>5. IsEntry(flash[p]) /\ flash[p] = Entry(flash[p].seq, "valid") /\ flash[p].seq \in Nat
    BY <1>1, <1>4, CellFacts DEF Valid, EntryStates
  <1>6. PICK s \in Sectors : Valid(flash[s]) /\ flash[s].seq = lastValid
    BY <1>4, <1>5, FallbackThere
  <1>7. lastValid \in 1 .. SeqMax - 1
    BY <1>4, <1>5, FallbackThere
  <1>8. flash[p].seq = lastValid
    <2>1. lastValid <= flash[p].seq
      BY <1>2, <1>6 DEF ValidSectors
    <2>2. flash[p].seq <= lastValid
      BY <1>4 DEF Fallback, FallbackOrder
    <2> QED BY <1>5, <1>7, <2>1, <2>2
  <1>9. w.sector # p
    BY <1>2, <1>4, OtherSector
  <1>10. \A i \in DOMAIN queue' : queue'[i] = w
    BY <1>1
  <1>11. w.entry.state = "new" /\ w.entry.seq > lastValid
    BY <1>2, <1>3, <1>8 DEF Entry
  <1>12. FallbackUntouched'
    BY <1>1, <1>4, <1>5, <1>8, <1>9, <1>10 DEF FallbackUntouched
  <1>13. FallbackBootable'
    BY <1>1, <1>7 DEF Fallback, FallbackBootable
  <1>14. FallbackOrder'
    BY <1>1, <1>10, <1>11 DEF Fallback, FallbackOrder
  <1>15. RunningBootable'
    BY <1>1, <1>10, <1>11 DEF Fallback, RunningBootable
  <1> QED BY <1>12, <1>13, <1>14, <1>15 DEF Fallback

\* confirm and reject rewrite the Pending entry, which is not the fallback's.
LEMMA FallbackVerdict ==
    ASSUME TypeOK, Fallback, PendingSectors(flash) # {}, NEW w \in Writes,
           w.sector = PendingSector(flash),
           w.entry.seq = flash[PendingSector(flash)].seq,
           queue' = << w >>,
           UNCHANGED <<flash, images, phase, boot, lastValid>>,
           vetted \subseteq vetted',
           w.entry.state = "invalid" \/ (w.entry.state = "valid" /\ boot.slot \in vetted')
    PROVE  Fallback'
  <1> DEFINE p == PendingSector(flash)
  <1>1. p \in Sectors /\ Pending(flash[p]) /\ flash \in Otas
    BY VerdictWriteFacts DEF TypeOK
  <1> HIDE DEF p
  <1>2. IsEntry(flash[p])
    BY <1>1, CellFacts DEF Pending, EntryStates
  <1>3. PICK s \in Sectors : /\ flash[s] = Entry(lastValid, "valid")
                             /\ Valid(flash[s])
                             /\ flash[s].seq = lastValid
    BY <1>1, <1>2, FallbackThere
  <1>4. s # w.sector
    BY <1>1, <1>3 DEF Valid, Pending, p
  <1>5. w.entry.seq > lastValid
    BY <1>1 DEF Fallback, FallbackOrder, p
  <1>6. \A i \in DOMAIN queue' : queue'[i] = w
    OBVIOUS
  <1>7. lastValid \in 1 .. SeqMax - 1
    BY <1>1, <1>2, FallbackThere
  <1>8. FallbackUntouched'
    BY <1>3, <1>4, <1>6 DEF FallbackUntouched
  <1>9. FallbackBootable'
    BY <1>7 DEF Fallback, FallbackBootable
  <1>10. FallbackOrder'
    BY <1>5, <1>6 DEF Fallback, FallbackOrder
  <1>11. RunningBootable'
    BY <1>6 DEF Fallback, RunningBootable
  <1> QED BY <1>8, <1>9, <1>10, <1>11 DEF Fallback

LEMMA FallbackStep == TypeOK /\ TrustInv /\ FallbackInv /\ [Next]_vars => FallbackInv'
  <1> SUFFICES ASSUME TypeOK, TrustInv, FallbackInv, [Next]_vars, faults' = 0
               PROVE  Fallback'
    BY DEF FallbackInv, Fallback
  <1>0. CASE \E slot \in Slots : Rot(slot)
    <2>1. faults' = faults + 1 /\ faults \in Nat
      BY <1>0 DEF Rot, TypeOK
    <2> QED BY <2>1
  <1>a. CASE Fallback
    <2> USE <1>a
    <2>1. CASE Boot
      <3>1. PICK good \in SUBSET images : PowerOn(good)
        BY <2>1 DEF Boot
      <3>2. CASE good = images
        BY <3>1, <3>2, FallbackPowerOn
      <3>3. CASE good # images
        <4>1. faults' = faults + 1 /\ faults \in Nat
          BY <3>1, <3>3 DEF PowerOn, TypeOK
        <4> QED BY <4>1
      <3> QED BY <3>2, <3>3
    <2>2. CASE FlashCommand
      <3>1. UNCHANGED <<images, vetted, phase, boot>>
        BY <2>2 DEF FlashCommand
      <3>2. /\ queue # << >>
            /\ Changed
            /\ \A i \in DOMAIN queue' : \E j \in DOMAIN queue : queue'[i] = queue[j]
            /\ step = 2 /\ Len(queue) = 1 => queue' = << >>
        BY <2>2, FlashCommandFacts
      <3> QED BY <3>1, <3>2, FallbackChanged
    <2>3. CASE Launch
      <3>1. /\ phase = "boot"
            /\ UNCHANGED <<flash, images, boot, queue, lastValid, vetted>>
        BY <2>3 DEF Launch
      <3> QED BY <3>1 DEF Fallback, FallbackUntouched, FallbackBootable, FallbackOrder,
                          RunningBootable
    <2>4. CASE \E slot \in Slots : Stage(slot)
      <3>1. PICK slot \in Slots : Stage(slot)
        BY <2>4
      <3>2. /\ phase = "app" /\ boot.kind = "slot" /\ boot.sector \in Sectors
            /\ queue = << >>
            /\ slot # boot.slot
            /\ flash[boot.sector] = Entry(boot.seq, "valid")
            /\ images \ {slot} \subseteq images'
            /\ vetted' = vetted \ {slot}
            /\ UNCHANGED <<flash, phase, boot, queue, lastValid>>
        BY <3>1 DEF Stage, Idle, TypeOK, Boots, NoBoot, BootHalt, HaltKinds
      <3>3. /\ boot.seq = lastValid
            /\ boot.slot = SlotOf(lastValid)
            /\ boot.slot \in images
        BY <3>2 DEF Fallback, RunningBootable
      <3>4. lastValid # 0
        <4>1. Valid(flash[boot.sector])
          BY <3>2 DEF Valid, Entry
        <4>2. ~FirstBoot(flash)
          BY <3>2, <4>1, NoEntry DEF FirstBoot
        <4> QED BY <4>2 DEF Fallback, FallbackBootable
      <3>5. FallbackUntouched' /\ FallbackOrder'
        BY <3>2 DEF Fallback, FallbackUntouched, FallbackOrder
      <3>6. FallbackBootable'
        BY <3>2, <3>3, <3>4 DEF Fallback, FallbackBootable
      <3>7. RunningBootable'
        BY <3>2, <3>3 DEF RunningBootable
      <3> QED BY <3>5, <3>6, <3>7 DEF Fallback
    <2>5. CASE \E target \in Slots : Activate(target)
      BY <2>5, FallbackActivate
    <2>6. CASE Confirm
      <3>1. /\ PendingSectors(flash) # {}
            /\ queue' = << ConfirmWrite(flash) >>
            /\ UNCHANGED <<flash, images, phase, boot, lastValid>>
            /\ vetted \subseteq vetted' /\ boot.slot \in vetted'
        BY <2>6 DEF Confirm
      <3>2. /\ ConfirmWrite(flash) \in Writes
            /\ ConfirmWrite(flash).sector = PendingSector(flash)
            /\ ConfirmWrite(flash).entry = Entry(flash[PendingSector(flash)].seq, "valid")
        BY <3>1, VerdictWriteFacts DEF TypeOK
      <3>3. /\ ConfirmWrite(flash).entry.seq = flash[PendingSector(flash)].seq
            /\ ConfirmWrite(flash).entry.state = "valid"
        BY <3>2 DEF Entry
      <3> QED BY <3>1, <3>2, <3>3, FallbackVerdict
    <2>7. CASE Reject
      <3>1. /\ PendingSectors(flash) # {}
            /\ queue' = << RejectWrite(flash) >>
            /\ UNCHANGED <<flash, images, phase, boot, lastValid, vetted>>
        BY <2>7 DEF Reject, history
      <3>2. /\ RejectWrite(flash) \in Writes
            /\ RejectWrite(flash).sector = PendingSector(flash)
            /\ RejectWrite(flash).entry = Entry(flash[PendingSector(flash)].seq, "invalid")
        BY <3>1, VerdictWriteFacts DEF TypeOK
      <3>3. /\ RejectWrite(flash).entry.seq = flash[PendingSector(flash)].seq
            /\ RejectWrite(flash).entry.state = "invalid"
        BY <3>2 DEF Entry
      <3> QED BY <3>1, <3>2, <3>3, FallbackVerdict
    <2>8. CASE WriteFails \/ PowerCut
      <3>1. /\ Interrupted
            /\ UNCHANGED <<images, vetted>>
            /\ UNCHANGED <<phase, boot>> \/ phase' = "off"
        BY <2>8 DEF WriteFails, PowerCut
      <3>2. queue' = << >>
        BY <3>1, InterruptedFacts
      <3>3. CASE UNCHANGED <<flash, lastValid>>
        BY <3>1, <3>2, <3>3 DEF Fallback, FallbackUntouched, FallbackBootable, FallbackOrder,
                                RunningBootable
      <3>4. CASE queue # << >> /\ Changed
        BY <3>1, <3>2, <3>4, FallbackChanged
      <3> QED BY <3>1, <3>3, <3>4, InterruptedFacts
    <2>9. CASE Reset
      BY <2>9 DEF Reset, history, Fallback, FallbackUntouched, FallbackBootable,
                  FallbackOrder, RunningBootable
    <2>10. CASE UNCHANGED vars
      BY <2>10 DEF vars, Fallback, FallbackUntouched, FallbackBootable, FallbackOrder,
                   RunningBootable
    <2> QED BY <1>0, <2>1, <2>2, <2>3, <2>4, <2>5, <2>6, <2>7, <2>8, <2>9, <2>10 DEF Next
  <1>b. CASE faults # 0
    <2>1. faults \in Nat /\ faults' \in {faults, faults + 1}
      BY DEF TypeOK, Next, Boot, PowerOn, FlashCommand, Launch, Stage, Activate, Confirm, Reject,
             WriteFails, PowerCut, Reset, Rot, vars
    <2> QED BY <1>b, <2>1
  <1> QED BY <1>a, <1>b DEF FallbackInv, Fallback

\* The image last confirmed stays selectable: for any number of slots and of
\* power cuts and failed writes at any flash command, its entry is intact and
\* its image bootable, as long as no image goes bad or is misread.
THEOREM FallbackKept == Spec => []LastConfirmedKept
  <1>1. Init => TypeOK /\ TrustInv /\ FallbackInv
    BY TypeInit, TrustInit, FallbackInit
  <1>2. TypeOK /\ TrustInv /\ FallbackInv /\ [Next]_vars => (TypeOK /\ TrustInv /\ FallbackInv)'
    BY TypeStep, TrustStep, FallbackStep
  <1>3. TypeOK /\ TrustInv /\ FallbackInv => LastConfirmedKept
    BY DEF FallbackInv, FallbackUntouched, FallbackBootable, LastConfirmedKept
  <1> QED BY <1>1, <1>2, <1>3, PTL DEF Spec
===============================================================================
