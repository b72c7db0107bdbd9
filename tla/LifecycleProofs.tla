--------------------------- MODULE LifecycleProofs ----------------------------
(***************************************************************************)
(* What is proved of the whole device, for any transactions, any number of *)
(* slots, any SeqMax and any number of faults: it is a boot chain, so that *)
(* everything proved of one holds of it, and its record, its contents and  *)
(* its otadata agree on what may run and what may be trusted.              *)
(***************************************************************************)
EXTENDS LifecycleInvariant, CandidateProofs

-------------------------------------------------------------------------------
(***************************************************************************)
(* The device is a boot chain.                                             *)
(***************************************************************************)

\* The slots that run and that are written are the device's.
LEMMA SpareType ==
    ASSUME TypeOK, phase = "app"
    PROVE  boot.slot \in Slots /\ Spare \in Slots
  <1>1. boot.slot \in Slots
    BY BootChainAssumption DEF TypeOK, Boots, NoBoot, BootHalt, HaltKinds
  <1> QED BY <1>1, OtadataAssumption, SMT DEF Spare, Slots

\* Every step of the device is a step of the chain, or none.
LEMMA ChainStep ==
    ASSUME TypeOK, SystemTypeOK, [SystemNext]_system
    PROVE  [Next]_vars
  <1>1. CASE Bootloader \/ Start
    BY <1>1 DEF Bootloader, Start, Next
  <1>2. CASE OnBoot \/ Carry \/ NothingPending \/ Clear \/ Withdraw \/ AbandonWrite
    BY <1>2 DEF OnBoot, Carry, NothingPending, Clear, Withdraw, AbandonWrite
  <1>3. CASE (\E expected \in Ids : RecordIntent(expected)) \/ SwitchRefused \/ Revert
    BY <1>3 DEF RecordIntent, SwitchRefused, Revert
  <1>4. CASE SelfCheckPasses \/ RejectCandidate
    BY <1>4 DEF SelfCheckPasses, RejectCandidate, Next
  <1>5. CASE StartWrite \/ \E id \in Ids : FinishWrite(id)
    <2>1. Stage(Spare)
      BY <1>5 DEF StartWrite, FinishWrite
    <2> QED BY <2>1, SpareType DEF Stage, Idle, Next
  <1>6. CASE Switch
    <2>1. PICK target \in record.artifacts : Activate(target)
      BY <1>6 DEF Switch
    <2>2. record.artifacts \subseteq Slots
      BY DEF SystemTypeOK, RecordsNaming, NoRecord, Record
    <2> QED BY <2>1, <2>2 DEF Next
  <1>7. CASE UpdateStep \/ UpdateFails \/ Restart \/ Cut \/ Decay
    BY <1>7 DEF UpdateStep, UpdateFails, Restart, Cut, Decay, Next
  <1>8. CASE UNCHANGED system
    BY <1>8 DEF system
  <1> QED BY <1>1, <1>2, <1>3, <1>4, <1>5, <1>6, <1>7, <1>8 DEF SystemNext

-------------------------------------------------------------------------------
(***************************************************************************)
(* Types.                                                                  *)
(***************************************************************************)
LEMMA SystemTypeInit == SystemInit => SystemTypeOK
  <1> SUFFICES ASSUME SystemInit PROVE SystemTypeOK
    OBVIOUS
  <1>1. TypeOK
    BY TypeInit DEF SystemInit
  <1> QED BY <1>1 DEF SystemInit, Init, SystemTypeOK, Tasks

\* What a commit leaves: the record it was asked for, or the one before.
LEMMA CommitType ==
    ASSUME SystemTypeOK, NEW r \in RecordsNaming(Slots) \cup {NoRecord}, Commit(r)
    PROVE  /\ record' \in RecordsNaming(Slots) \cup {NoRecord}
           /\ uncommitted' \in BOOLEAN
  BY DEF Commit, SystemTypeOK

\* What is known of a record that is not the empty one.
LEMMA RecordFacts ==
    ASSUME SystemTypeOK
    PROVE  /\ record.state \in {"Staged", "Activating", "none"}
           /\ record.artifacts \subseteq Slots
           /\ record.artifacts # {} => record.id \in Ids
           /\ record.state # "none" =>
                \A st \in States : [record EXCEPT !.state = st] \in RecordsNaming(Slots)
  BY DEF SystemTypeOK, RecordsNaming, States, NoRecord, Record

\* An update is in progress only while its caller waits for it, or in the bootloader.
LEMMA TaskFacts ==
    ASSUME SystemTypeOK, task \notin {"none", "switching", "confirming", "rejecting"}
    PROVE  phase = "app" /\ queue = << >>
  BY DEF SystemTypeOK

\* The steps of the caller alone.
LEMMA CallerTypeStep ==
    ASSUME SystemTypeOK, RecordIsOfRunning, TypeOK', UNCHANGED vars,
           \/ OnBoot \/ Carry \/ NothingPending \/ Clear \/ Withdraw \/ AbandonWrite
           \/ (\E expected \in Ids : RecordIntent(expected)) \/ SwitchRefused \/ Revert
    PROVE  SystemTypeOK'
  <1> USE DEF SystemTypeOK, Tasks
  <1>1. UNCHANGED <<phase, queue, boot, flash>>
    BY DEF vars
  <1>2. CASE OnBoot
    <2>1. PICK same \in Sameness :
            /\ task' = Reconcile(record.state, Outcome, same)
            /\ blind' = (same = "unknown")
      BY <1>2 DEF OnBoot
    <2>2. Reconcile(record.state, Outcome, same) \in Actions
      BY DEF Reconcile, Unconfirmed, Settled, Actions
    <2>3. \A a \in Actions : a # "none"
      BY DEF Actions
    <2> QED BY <1>1, <1>2, <2>1, <2>2, <2>3, TaskFacts DEF OnBoot
  <1>3. CASE Carry \/ NothingPending \/ AbandonWrite \/ SwitchRefused
    BY <1>1, <1>3, TaskFacts DEF Carry, NothingPending, AbandonWrite, SwitchRefused, Actions, Idle
  <1>4. CASE Clear \/ Withdraw
    <2>1. Commit(NoRecord)
      BY <1>4 DEF Clear, Withdraw
    <2>2. UNCHANGED <<contents, blind>> /\ task' \in {"idle"}
      BY <1>4 DEF Clear, Withdraw
    <2>3. task \notin {"none", "switching", "confirming", "rejecting"}
      BY <1>4 DEF Clear, Withdraw
    <2> QED BY <1>1, <2>1, <2>2, <2>3, CommitType, TaskFacts
  <1>5. CASE \E expected \in Ids : RecordIntent(expected)
    <2>1. PICK expected \in Ids : RecordIntent(expected)
      BY <1>5
    <2>2. record.state = "Staged" /\ task = "idle"
      BY <2>1 DEF RecordIntent, Intent
    <2>3. [record EXCEPT !.state = "Activating"] \in RecordsNaming(Slots)
      BY <2>2, RecordFacts DEF States
    <2>4. /\ record' \in RecordsNaming(Slots) \cup {NoRecord}
          /\ uncommitted' \in BOOLEAN
          /\ task' \in {"idle", "switching"}
          /\ UNCHANGED <<contents, blind>>
      BY <2>1, <2>2, <2>3 DEF RecordIntent
    <2> QED BY <1>1, <2>2, <2>4, TaskFacts
  <1>6. CASE Revert
    <2>1. task = "reverting" /\ Commit([record EXCEPT !.state = "Staged"])
      BY <1>6 DEF Revert
    <2>2. record.state = "Activating"
      BY <2>1 DEF RecordIsOfRunning
    <2>3. [record EXCEPT !.state = "Staged"] \in RecordsNaming(Slots)
      BY <2>2, RecordFacts DEF States
    <2>4. UNCHANGED <<contents, blind>> /\ task' = "idle"
      BY <1>6 DEF Revert
    <2> QED BY <1>1, <2>1, <2>3, <2>4, CommitType, TaskFacts
  <1> QED BY <1>2, <1>3, <1>4, <1>5, <1>6

\* The steps of the boot chain, and what the caller makes of them.
LEMMA ChainTypeStep ==
    ASSUME SystemTypeOK, TypeOK',
           \/ Bootloader \/ Start \/ SelfCheckPasses \/ RejectCandidate \/ StartWrite
           \/ (\E id \in Ids : FinishWrite(id)) \/ Switch
           \/ UpdateStep \/ UpdateFails \/ Restart \/ Cut \/ Decay
    PROVE  SystemTypeOK'
  <1> USE DEF SystemTypeOK, Tasks
  <1>1. CASE Bootloader
    <2>1. phase # "app" /\ phase' # "app" /\ UNCHANGED <<record, contents, task, blind, uncommitted>>
      BY <1>1 DEF Bootloader, Boot, PowerOn, FlashCommand, engine
    <2> QED BY <2>1
  <1>2. CASE Start
    BY <1>2 DEF Start, Launch
  <1>3. CASE SelfCheckPasses \/ RejectCandidate
    BY <1>3 DEF SelfCheckPasses, RejectCandidate, Confirm, Reject, Idle, Actions
  <1>4. CASE StartWrite \/ \E id \in Ids : FinishWrite(id)
    <2>1. Idle /\ UNCHANGED <<phase, queue>>
      BY <1>4 DEF StartWrite, FinishWrite, Stage
    <2>2. Spare \in Slots
      BY <2>1, SpareType DEF Idle
    <2>3. CASE StartWrite
      BY <2>1, <2>2, <2>3 DEF StartWrite, Idle
    <2>4. CASE \E id \in Ids : FinishWrite(id)
      <3>1. PICK id \in Ids : FinishWrite(id)
        BY <2>4
      <3>2. Record(id, "Staged", {Spare}) \in RecordsNaming(Slots)
        BY <2>2 DEF Record, RecordsNaming, States
      <3>3. Commit(Record(id, "Staged", {Spare}))
        BY <3>1 DEF FinishWrite
      <3>4. /\ record' \in RecordsNaming(Slots) \cup {NoRecord}
            /\ uncommitted' \in BOOLEAN
        BY <3>2, <3>3, CommitType
      <3> QED BY <2>1, <2>2, <3>1, <3>4 DEF FinishWrite, Idle
    <2> QED BY <1>4, <2>3, <2>4
  <1>5. CASE Switch
    BY <1>5 DEF Switch, Activate, Idle, engine
  <1>6. CASE UpdateStep
    <2>1. queue # << >> /\ phase' = "app" /\ phase = "app" /\ UNCHANGED <<record, contents, blind, uncommitted>>
      BY <1>6 DEF UpdateStep, FlashCommand
    <2>2. CASE queue' # << >>
      BY <1>6, <2>1, <2>2 DEF UpdateStep
    <2>3. CASE queue' = << >>
      BY <1>6, <2>1, <2>3 DEF UpdateStep
    <2> QED BY <2>2, <2>3
  <1>7. CASE UpdateFails
    <2>1. /\ phase = "app" /\ phase' = "app" /\ queue # << >> /\ queue' = << >>
          /\ UNCHANGED <<record, contents, blind, uncommitted>>
      BY <1>7 DEF UpdateFails, WriteFails, Interrupted
    <2>2. task \in {"switching", "confirming", "rejecting"}
      BY <2>1
    <2>3. task' \in {"reverting", "AwaitConfirmation", "RollbackUnaccounted"}
      BY <1>7, <2>2 DEF UpdateFails
    <2> QED BY <2>1, <2>3 DEF Actions
  <1>8. CASE Restart \/ Cut
    BY <1>8 DEF Restart, Cut, Reset, PowerCut
  <1>9. CASE Decay
    BY <1>9 DEF Decay, Rot, engine
  <1> QED BY <1>1, <1>2, <1>3, <1>4, <1>5, <1>6, <1>7, <1>8, <1>9

LEMMA SystemTypeStep ==
    ASSUME SystemTypeOK, RecordIsOfRunning, [SystemNext]_system
    PROVE  SystemTypeOK'
  <1>1. TypeOK'
    BY ChainStep, TypeStep DEF SystemTypeOK
  <1>2. CASE UNCHANGED vars /\ SystemNext
             /\ (\/ OnBoot \/ Carry \/ NothingPending \/ Clear \/ Withdraw \/ AbandonWrite
                 \/ (\E expected \in Ids : RecordIntent(expected)) \/ SwitchRefused \/ Revert)
    BY <1>1, <1>2, CallerTypeStep
  <1>3. CASE \/ Bootloader \/ Start \/ SelfCheckPasses \/ RejectCandidate \/ StartWrite
             \/ (\E id \in Ids : FinishWrite(id)) \/ Switch
             \/ UpdateStep \/ UpdateFails \/ Restart \/ Cut \/ Decay
    BY <1>1, <1>3, ChainTypeStep
  <1>4. CASE UNCHANGED system
    BY <1>1, <1>4 DEF SystemTypeOK, system, vars, engine
  <1>5. ASSUME \/ OnBoot \/ Carry \/ NothingPending \/ Clear \/ Withdraw \/ AbandonWrite
               \/ (\E expected \in Ids : RecordIntent(expected)) \/ SwitchRefused \/ Revert
        PROVE  UNCHANGED vars
    BY <1>5 DEF OnBoot, Carry, NothingPending, Clear, Withdraw, AbandonWrite, RecordIntent,
                SwitchRefused, Revert
  <1> QED BY <1>2, <1>3, <1>4, <1>5 DEF SystemNext

-------------------------------------------------------------------------------
(***************************************************************************)
(* What the bootloader starts.                                             *)
(***************************************************************************)
LEMMA StartsPowerOn ==
    ASSUME TypeOK, NEW good \in SUBSET images, PowerOn(good)
    PROVE  StartsItsEntry'
  <1> DEFINE c == Chosen(flash, good)
  <1>1. /\ flash \in Otas
        /\ flash' = flash
        /\ boot' = PlanBoot(flash, good).boot
        /\ queue' = PlanBoot(flash, good).writes
    BY DEF PowerOn, TypeOK, Otas
  <1>2. CASE /\ Bootable(flash, good) # {}
             /\ PlanBoot(flash, good).boot = BootSlot(c, flash[c].seq)
             /\ PlanBoot(flash, good).writes = MarkWrites(flash, good)
    <2>1. /\ c \in Bootable(flash, good)
          /\ c \in Sectors
          /\ Candidate(flash[c])
          /\ flash[c] \in Cells
      BY <1>1, <1>2, ChosenFacts DEF Otas
    <2>2. boot'.slot = SlotOf(boot'.seq) /\ boot'.sector = c /\ boot'.seq = flash[c].seq
      BY <1>1, <1>2 DEF BootSlot
    <2>3. CASE Valid(flash[c])
      <3>1. Mark(flash, good, c) = "keep"
        BY <1>1, <2>1, <2>3, MarkFacts
      <3>2. \A i \in DOMAIN queue' : queue'[i].sector # c
        <4> SUFFICES ASSUME NEW i \in DOMAIN queue' PROVE queue'[i].sector # c
          OBVIOUS
        <4>1. PICK s \in Sectors : /\ Mark(flash, good, s) # "keep"
                                   /\ queue'[i] = MarkOf(flash, good, s)
          BY <1>1, <1>2, MarkWritesFacts
        <4>2. queue'[i].sector = s
          BY <4>1 DEF MarkOf, Write
        <4> QED BY <3>1, <4>1, <4>2
      <3>3. flash[c] \in Runnable(flash[c].seq)
        BY <2>1, <2>3, CellFacts DEF Valid, Runnable, EntryStates
      <3> QED BY <1>1, <2>2, <3>2, <3>3 DEF StartsItsEntry
    <2>4. CASE Unproven(flash[c])
      <3>1. Mark(flash, good, c) = "pending"
        BY <2>1, <2>4 DEF Mark, Pending, Unproven
      <3>2. PICK i \in DOMAIN queue' : queue'[i].sector = c
        BY <1>1, <1>2, <2>1, <3>1, MarkWritesFacts
      <3>3. PICK s \in Sectors : queue'[i] = MarkOf(flash, good, s)
        BY <1>1, <1>2, MarkWritesFacts
      <3>4. s = c /\ queue'[i].entry = Entry(flash[c].seq, "pending")
        BY <3>1, <3>2, <3>3 DEF MarkOf, Write
      <3> QED BY <2>2, <3>2, <3>4 DEF StartsItsEntry, Runnable
    <2> QED BY <2>1, <2>3, <2>4 DEF Candidate
  <1>3. CASE /\ PlanBoot(flash, good).boot = BootSlot(0, 1)
             /\ PlanBoot(flash, good).writes = << Write(0, 1, "valid") >>
    <2>1. boot'.slot = SlotOf(boot'.seq) /\ boot'.sector = 0 /\ boot'.seq = 1
      BY <1>1, <1>3 DEF BootSlot
    <2>2. /\ 1 \in DOMAIN queue'
          /\ queue'[1].sector = 0
          /\ queue'[1].entry = Entry(1, "valid")
      BY <1>1, <1>3 DEF Write
    <2> QED BY <2>1, <2>2 DEF StartsItsEntry, Runnable
  <1>4. CASE \E why \in HaltKinds : PlanBoot(flash, good).boot = BootHalt(why)
    <2>1. boot'.kind # "slot"
      BY <1>1, <1>4 DEF BootHalt, HaltKinds
    <2> QED BY <2>1 DEF StartsItsEntry
  <1> QED BY <1>1, <1>2, <1>3, <1>4, PlanCases

LEMMA StartsCommand ==
    ASSUME TypeOK, CandidateInv, UpdateInv, StartsItsEntry, FlashCommand, phase = "boot",
           boot.kind = "slot"
    PROVE  StartsItsEntry'
  <1> DEFINE h == Head(queue)
  <1>1. /\ queue # << >>
        /\ UNCHANGED <<boot, phase>>
        /\ \A i \in DOMAIN queue' : \E j \in DOMAIN queue : queue'[i] = queue[j]
        /\ \A j \in DOMAIN queue :
             queue[j] = h \/ \E i \in DOMAIN queue' : queue'[i] = queue[j]
    BY FlashCommandFacts DEF FlashCommand
  <1>2. 1 \in DOMAIN queue /\ h = queue[1] /\ h \in Writes /\ step \in 0 .. 2
    BY <1>1, QueueType DEF TypeOK
  <1>3. flash' = [flash EXCEPT ![h.sector] = AfterCommand(step, h)]
    BY DEF FlashCommand, Reads
  <1> HIDE DEF h
  <1>4. CASE /\ flash[boot.sector] \in Runnable(boot.seq)
             /\ \A i \in DOMAIN queue : queue[i].sector # boot.sector
    <2>1. flash'[boot.sector] = flash[boot.sector]
      BY <1>2, <1>3, <1>4 DEF TypeOK
    <2> QED BY <1>1, <1>4, <2>1 DEF StartsItsEntry
  <1>5. ASSUME NEW j \in DOMAIN queue, queue[j].sector = boot.sector,
               queue[j].entry \in Runnable(boot.seq)
        PROVE  StartsItsEntry'
    <2>1. CASE \E i \in DOMAIN queue' : queue'[i] = queue[j]
      BY <1>1, <1>5, <2>1 DEF StartsItsEntry
    <2>2. CASE ~\E i \in DOMAIN queue' : queue'[i] = queue[j]
      <3>1. queue[j] = h /\ j = 1
        BY <1>1, <1>2, <1>5, <2>2 DEF UpdateInv, UpdatesApart
      <3>2. step = 2
        BY <1>1, <1>5, <2>2 DEF FlashCommand
      <3>3. boot \in Boots
        BY DEF TypeOK
      <3>4. boot.seq \in 1 .. SeqMax - 1 /\ boot.sector \in Sectors
        BY <3>3 DEF Boots, NoBoot, BootHalt, HaltKinds
      <3>5. AfterCommand(step, h) \in Runnable(boot.seq)
        BY <1>5, <3>1, <3>2, <3>4 DEF AfterCommand, Decode, Runnable, Entry
      <3>6. flash'[boot.sector] \in Runnable(boot.seq)
        BY <1>3, <1>5, <3>1, <3>4, <3>5 DEF TypeOK
      <3>7. \A i \in DOMAIN queue' : queue'[i].sector # boot.sector
        <4> SUFFICES ASSUME NEW i \in DOMAIN queue', queue'[i].sector = boot.sector
                     PROVE  FALSE
          OBVIOUS
        <4>1. PICK k \in DOMAIN queue : queue'[i] = queue[k]
          BY <1>1
        <4>2. k = j
          BY <1>5, <4>1 DEF UpdateInv, UpdatesApart
        <4> QED BY <2>2, <4>1, <4>2
      <3> QED BY <1>1, <3>6, <3>7 DEF StartsItsEntry
    <2> QED BY <2>1, <2>2
  <1> QED BY <1>4, <1>5 DEF StartsItsEntry

LEMMA StartsStep ==
    ASSUME IInv, StartsItsEntry, [Next]_vars
    PROVE  StartsItsEntry'
  <1> USE DEF IInv
  <1>1. CASE Boot
    BY <1>1, StartsPowerOn DEF Boot
  <1>2. CASE FlashCommand
    <2>1. UNCHANGED <<boot, phase>>
      BY <1>2 DEF FlashCommand
    <2>2. CASE phase = "boot" /\ boot.kind = "slot"
      BY <1>2, <2>2, StartsCommand
    <2>3. CASE phase # "boot" \/ boot.kind # "slot"
      BY <2>1, <2>3 DEF StartsItsEntry
    <2> QED BY <2>2, <2>3
  <1>3. CASE Launch \/ WriteFails \/ Confirm \/ Reject
             \/ (\E slot \in Slots : Stage(slot) \/ Rot(slot))
             \/ \E target \in Slots : Activate(target)
    <2>1. boot' = boot /\ phase' # "boot"
      BY <1>3 DEF Launch, WriteFails, Confirm, Reject, Stage, Rot, Activate, Idle
    <2> QED BY <2>1 DEF StartsItsEntry
  <1>4. CASE PowerCut \/ Reset
    <2>1. boot'.kind # "slot"
      BY <1>4 DEF PowerCut, Reset, NoBoot, BootHalt
    <2> QED BY <2>1 DEF StartsItsEntry
  <1>5. CASE UNCHANGED vars
    BY <1>5 DEF vars, StartsItsEntry
  <1> QED BY <1>1, <1>2, <1>3, <1>4, <1>5 DEF Next

-------------------------------------------------------------------------------
(***************************************************************************)
(* The record and the caller.                                              *)
(***************************************************************************)
LEMMA RecordStep ==
    ASSUME SystemTypeOK, RecordIsOfRunning, [SystemNext]_system
    PROVE  RecordIsOfRunning'
  <1> USE DEF RecordIsOfRunning
  <1>1. CASE Bootloader
    <2>1. UNCHANGED engine /\ phase # "app"
      BY <1>1 DEF Bootloader, Boot, PowerOn
    <2> QED BY <2>1 DEF engine, SystemTypeOK
  <1>2. CASE Start \/ Restart \/ Cut
    <2>1. UNCHANGED <<record, contents>> /\ task' \in {"none", "booted"}
      BY <1>2 DEF Start, Restart, Cut
    <2> QED BY <2>1
  <1>3. CASE OnBoot
    <2>1. PICK same \in Sameness :
            /\ task' = Reconcile(record.state, Outcome, same)
            /\ blind' = (same = "unknown")
      BY <1>3 DEF OnBoot
    <2>2. UNCHANGED <<record, contents, boot>>
      BY <1>3 DEF OnBoot, vars
    <2>3. task' \in Actions
      BY <2>1 DEF Reconcile, Unconfirmed, Settled, Actions
    <2>4. task' = "AwaitConfirmation" =>
            same = "unknown" \/ (same = "yes" /\ record.state = "Activating")
      BY <2>1 DEF Reconcile, Unconfirmed, Settled
    <2>5. same = "yes" => boot.slot \in record.artifacts
      BY DEF Sameness
    <2> QED BY <2>1, <2>2, <2>3, <2>4, <2>5 DEF Actions
  <1>4. CASE Carry \/ RejectCandidate \/ NothingPending \/ AbandonWrite
    <2>1. UNCHANGED <<record, contents>> /\ task' \in {"idle", "rejecting", "reset"}
      BY <1>4 DEF Carry, RejectCandidate, NothingPending, AbandonWrite
    <2> QED BY <2>1
  <1>5. CASE SelfCheckPasses
    BY <1>5 DEF SelfCheckPasses, Confirm
  <1>6. CASE Clear \/ Withdraw
    <2>1. record' \in {record, NoRecord} /\ contents' = contents /\ task' = "idle"
      BY <1>6 DEF Clear, Withdraw, Commit
    <2> QED BY <2>1 DEF NoRecord, Record
  <1>7. CASE StartWrite
    BY <1>7 DEF StartWrite, NoRecord, Record
  <1>8. CASE \E id \in Ids : FinishWrite(id)
    <2>1. PICK id \in Ids : FinishWrite(id)
      BY <1>8
    <2>2. record = NoRecord
      BY <2>1 DEF FinishWrite
    <2>3. record' = NoRecord \/ record' = Record(id, "Staged", {Spare})
      BY <2>1, <2>2 DEF FinishWrite, Commit
    <2>4. Spare \in Slots
      BY <2>1, SpareType DEF FinishWrite, Stage, Idle, SystemTypeOK
    <2>5. contents'[Spare] = id /\ task' = "idle"
      BY <2>1, <2>4 DEF FinishWrite, SystemTypeOK
    <2> QED BY <2>3, <2>5 DEF NoRecord, Record
  <1>9. CASE \E expected \in Ids : RecordIntent(expected)
    <2>1. PICK expected \in Ids : RecordIntent(expected)
      BY <1>9
    <2>2. record.state = "Staged"
      BY <2>1 DEF RecordIntent, Intent
    <2>3. record \in RecordsNaming(Slots)
      BY <2>2 DEF SystemTypeOK, NoRecord, Record
    <2>4. /\ task' \in {"idle", "switching"} /\ contents' = contents
          /\ record' \in {record, [record EXCEPT !.state = "Activating"]}
          /\ task' = "switching" => record' = [record EXCEPT !.state = "Activating"]
      BY <2>1 DEF RecordIntent
    <2> QED BY <2>3, <2>4 DEF RecordsNaming
  <1>10. CASE Switch
    <2>1. UNCHANGED <<record, contents, task>>
      BY <1>10 DEF Switch, engine
    <2> QED BY <1>10, <2>1 DEF Switch
  <1>11. CASE SwitchRefused
    BY <1>11 DEF SwitchRefused
  <1>12. CASE Revert
    <2>1. record.state = "Activating" /\ task' = "idle" /\ contents' = contents
      BY <1>12 DEF Revert
    <2>2. record \in RecordsNaming(Slots)
      BY <2>1 DEF SystemTypeOK, NoRecord, Record
    <2>3. record' \in {record, [record EXCEPT !.state = "Staged"]}
      BY <1>12 DEF Revert, Commit
    <2> QED BY <2>1, <2>2, <2>3 DEF RecordsNaming
  <1>13. CASE UpdateStep
    <2>1. UNCHANGED <<record, contents, blind, boot>> /\ task' \in {task, "confirmed", "reset"}
      BY <1>13 DEF UpdateStep, FlashCommand
    <2>2. task \in {"switching", "confirming", "rejecting"}
      BY <1>13 DEF UpdateStep, FlashCommand, SystemTypeOK
    <2> QED BY <2>1, <2>2
  <1>14. CASE UpdateFails
    <2>1. UNCHANGED <<record, contents, blind, boot>>
      BY <1>14 DEF UpdateFails, WriteFails
    <2>2. task \in {"switching", "confirming", "rejecting"}
      BY <1>14 DEF UpdateFails, WriteFails, SystemTypeOK
    <2>3. \/ task = "switching" /\ task' = "reverting"
          \/ task = "confirming" /\ task' = "AwaitConfirmation"
          \/ task = "rejecting" /\ task' = "RollbackUnaccounted"
      BY <1>14, <2>2 DEF UpdateFails
    <2> QED BY <2>1, <2>3
  <1>15. CASE Decay
    BY <1>15 DEF Decay, Rot, engine
  <1>16. CASE UNCHANGED system
    BY <1>16 DEF system, engine, vars
  <1> QED BY <1>1, <1>2, <1>3, <1>4, <1>5, <1>6, <1>7, <1>8, <1>9, <1>10, <1>11, <1>12, <1>13,
             <1>14, <1>15, <1>16 DEF SystemNext

LEMMA TaskStep ==
    ASSUME SystemTypeOK, UpdateIsTheTasks, [SystemNext]_system
    PROVE  UpdateIsTheTasks'
  <1> USE DEF UpdateIsTheTasks
  <1>a. flash \in Otas
    BY DEF SystemTypeOK, TypeOK, Otas
  <1>1. CASE Bootloader \/ Start \/ Restart \/ Cut \/ Decay
    <2>1. task' \notin {"switching", "confirming", "rejecting"}
      BY <1>1 DEF Bootloader, Boot, PowerOn, Start, Restart, Cut, Decay, Rot, engine, SystemTypeOK
    <2> QED BY <2>1
  <1>2. CASE OnBoot
    <2>1. task' \in Actions
      BY <1>2 DEF OnBoot, Reconcile, Unconfirmed, Settled, Actions
    <2> QED BY <2>1 DEF Actions
  <1>3. CASE \/ Carry \/ NothingPending \/ Clear \/ Withdraw \/ StartWrite
             \/ (\E id \in Ids : FinishWrite(id)) \/ AbandonWrite \/ SwitchRefused \/ Revert
    <2>1. task' \in {task, "idle", "reset", "writing", "reverting"} /\ queue' = queue
      BY <1>3 DEF Carry, NothingPending, Clear, Withdraw, StartWrite, FinishWrite, Stage,
                  AbandonWrite, SwitchRefused, Revert, vars
    <2> QED BY <2>1
  <1>4. CASE \E expected \in Ids : RecordIntent(expected)
    <2>1. task = "idle" /\ queue' = queue
      BY <1>4 DEF RecordIntent, vars
    <2>2. queue = << >>
      BY <2>1, TaskFacts
    <2> QED BY <2>1, <2>2
  <1>5. CASE SelfCheckPasses
    <2>1. Confirm /\ task' = "confirming"
      BY <1>5 DEF SelfCheckPasses
    <2>2. queue' = << ConfirmWrite(flash) >> /\ PendingSectors(flash) # {}
      BY <2>1 DEF Confirm
    <2>3. /\ ConfirmWrite(flash) \in Writes
          /\ \E q : ConfirmWrite(flash).entry = Entry(q, "valid")
      BY <1>a, <2>2, VerdictWriteFacts
    <2>4. ConfirmWrite(flash).entry.state = "valid"
      BY <2>3 DEF Entry
    <2> QED BY <2>1, <2>2, <2>3, <2>4, OneUpdate
  <1>6. CASE RejectCandidate
    <2>1. Reject /\ task' = "rejecting"
      BY <1>6 DEF RejectCandidate
    <2>2. queue' = << RejectWrite(flash) >> /\ PendingSectors(flash) # {}
      BY <2>1 DEF Reject
    <2>3. /\ RejectWrite(flash) \in Writes
          /\ \E q : RejectWrite(flash).entry = Entry(q, "invalid")
      BY <1>a, <2>2, VerdictWriteFacts
    <2>4. RejectWrite(flash).entry.state = "invalid"
      BY <2>3 DEF Entry
    <2> QED BY <2>1, <2>2, <2>3, <2>4, OneUpdate
  <1>7. CASE Switch
    <2>1. PICK target \in record.artifacts : Activate(target)
      BY <1>7 DEF Switch
    <2>2. /\ queue' = << ActivateWrite(flash, target) >>
          /\ ActivateResult(flash, target) = "ok"
          /\ task' = "switching"
      BY <1>7, <2>1 DEF Activate, Switch, engine
    <2>3. /\ ActivateWrite(flash, target) \in Writes
          /\ \E q : ActivateWrite(flash, target).entry = Entry(q, "new")
      BY <1>a, <2>2, ActivateWriteFacts
    <2>4. ActivateWrite(flash, target).entry.state = "new"
      BY <2>3 DEF Entry
    <2> QED BY <2>2, <2>3, <2>4, OneUpdate
  <1>8. CASE UpdateStep
    <2>1. \A i \in DOMAIN queue' : \E j \in DOMAIN queue : queue'[i] = queue[j]
      BY <1>8, FlashCommandFacts DEF UpdateStep, SystemTypeOK
    <2>2. task' \in {task, "confirmed", "reset"}
      BY <1>8 DEF UpdateStep
    <2> QED BY <2>1, <2>2
  <1>9. CASE UpdateFails
    <2>1. queue' = << >>
      BY <1>9 DEF UpdateFails, WriteFails, Interrupted
    <2> QED BY <2>1
  <1>10. CASE UNCHANGED system
    BY <1>10 DEF system, engine, vars
  <1> QED BY <1>1, <1>2, <1>3, <1>4, <1>5, <1>6, <1>7, <1>8, <1>9, <1>10 DEF SystemNext

-------------------------------------------------------------------------------
(***************************************************************************)
(* Nothing is unconfirmed once the record is given up.                     *)
(***************************************************************************)

\* Whatever runs unconfirmed is under the entry it was started from.
LEMMA ConfirmedBoot ==
    ASSUME IInv, phase = "app", flash[boot.sector] = Entry(boot.seq, "valid"),
           NEW s \in Sectors, Pending(flash[s])
    PROVE  FALSE
  <1>1. flash[s].seq = boot.seq
    BY DEF IInv, TrustInv, PendingIsRun
  <1>2. boot.sector \in Sectors
    <2>1. boot \in Boots
      BY DEF IInv, TypeOK
    <2> QED BY <2>1 DEF Boots, NoBoot, BootHalt, Sectors, HaltKinds
  <1>3. s # boot.sector /\ flash[boot.sector].seq = boot.seq
    BY DEF Pending, Entry
  <1>4. IsEntry(flash[s]) /\ IsEntry(flash[boot.sector])
    BY DEF IsEntry, Pending, Entry, EntryStates
  <1> QED BY <1>1, <1>2, <1>3, <1>4 DEF IInv, CandidateInv, SeqsApart, DistinctSeqs, Sectors

\* The last command of a confirmation leaves nothing unconfirmed.
LEMMA ConfirmationDecides ==
    ASSUME IInv, SystemInv, UpdateStep, task = "confirming", queue' = << >>,
           NEW s \in Sectors
    PROVE  ~InTrial(flash'[s])
  <1>1. FlashCommand /\ queue # << >>
    BY DEF UpdateStep, FlashCommand
  <1>2. Head(queue).entry.state = "valid" /\ Head(queue).sector \in Sectors
    BY <1>1, QueueType DEF SystemInv, UpdateIsTheTasks, IInv
  <1>3. \/ s # Head(queue).sector /\ flash'[s] = flash[s]
        \/ flash'[s] \in {Blank, Corrupt}
        \/ flash'[s] = Head(queue).entry
    BY <1>1, FlashCommandFacts, ChangedFacts DEF IInv
  <1>4. CASE s # Head(queue).sector /\ flash'[s] = flash[s]
    BY <1>1, <1>4 DEF IInv, CandidateInv, CandidateFirst
  <1>5. CASE flash'[s] \in {Blank, Corrupt}
    BY <1>5, NoEntry DEF InTrial
  <1>6. CASE flash'[s] = Head(queue).entry
    BY <1>2, <1>6 DEF InTrial, Unproven, Pending
  <1> QED BY <1>3, <1>4, <1>5, <1>6

LEMMA ClearedStep ==
    ASSUME IInv, SystemInv, [SystemNext]_system
    PROVE  ClearedIsDecided'
  <1> USE DEF SystemInv, ClearedIsDecided
  <1>1. CASE Bootloader \/ Restart \/ Cut \/ Decay
    <2>1. task' = "none"
      BY <1>1 DEF Bootloader, Boot, PowerOn, Restart, Cut, Decay, Rot, engine, SystemTypeOK
    <2> QED BY <2>1
  <1>2. CASE Start
    <2>1. /\ phase = "boot" /\ queue = << >>
          /\ UNCHANGED <<flash, boot>>
          /\ task' = "booted" => boot.kind = "slot"
          /\ task' \in {"booted", "none"}
      BY <1>2 DEF Start, Launch
    <2>2. task' = "booted" => flash[boot.sector] \in Runnable(boot.seq)
      BY <2>1 DEF StartsItsEntry
    <2>3. \A s \in Sectors : ~Unproven(flash[s])
      BY <2>1 DEF IInv, CandidateInv, BootPlan
    <2> QED BY <2>1, <2>2, <2>3 DEF Unproven
  <1>3. CASE OnBoot
    <2>1. /\ task = "booted"
          /\ UNCHANGED <<flash, boot>>
          /\ \E same \in Sameness : task' = Reconcile(record.state, Outcome, same)
      BY <1>3 DEF OnBoot, vars
    <2>2. task' \in Actions
      BY <2>1 DEF Reconcile, Unconfirmed, Settled, Actions
    <2>3. task' \in {"FinishInterruptedActivation", "ClearStale"} => Outcome = "Confirmed"
      BY <2>1 DEF Reconcile, Unconfirmed, Settled, Outcome
    <2>4. task' \in {"FinishInterruptedActivation", "ClearStale"} =>
            flash[boot.sector] = Entry(boot.seq, "valid")
      BY <2>1, <2>3 DEF Outcome, Runnable, Pending, Entry
    <2>5. phase = "app"
      BY <2>1 DEF SystemTypeOK
    <2>6. task' \in {"FinishInterruptedActivation", "ClearStale"} =>
            \A s \in Sectors : ~InTrial(flash[s])
      BY <2>1, <2>4, <2>5, ConfirmedBoot DEF InTrial
    <2> QED BY <2>1, <2>2, <2>6 DEF Actions, InTrial, Unproven, Pending
  <1>4. CASE SelfCheckPasses
    <2>1. Confirm /\ task' = "confirming"
      BY <1>4 DEF SelfCheckPasses
    <2>2. queue' = << ConfirmWrite(flash) >> /\ PendingSectors(flash) # {}
      BY <2>1 DEF Confirm
    <2>3. ConfirmWrite(flash) \in Writes
      BY <2>2, VerdictWriteFacts DEF IInv, TypeOK, Otas
    <2> QED BY <2>1, <2>2, <2>3, OneUpdate
  <1>5. CASE Carry \/ RejectCandidate \/ NothingPending \/ Clear \/ Withdraw \/ StartWrite
             \/ (\E id \in Ids : FinishWrite(id)) \/ AbandonWrite
             \/ (\E expected \in Ids : RecordIntent(expected)) \/ Switch \/ SwitchRefused
             \/ Revert
    <2>1. task' \in {"idle", "rejecting", "reset", "writing", "switching", "reverting"}
      BY <1>5 DEF Carry, RejectCandidate, NothingPending, Clear, Withdraw, StartWrite,
                  FinishWrite, AbandonWrite, RecordIntent, Switch, SwitchRefused, Revert, engine
    <2> QED BY <2>1
  <1>6. CASE UpdateStep
    <2>1. task \in {"switching", "confirming", "rejecting"}
      BY <1>6 DEF UpdateStep, FlashCommand, SystemTypeOK
    <2>2. \/ queue' # << >> /\ task' = task
          \/ queue' = << >> /\ task = "confirming" /\ task' = "confirmed"
          \/ queue' = << >> /\ task' = "reset"
      BY <1>6 DEF UpdateStep
    <2>3. CASE queue' # << >> /\ task' = task
      BY <2>1, <2>3
    <2>4. CASE queue' = << >> /\ task = "confirming" /\ task' = "confirmed"
      <3>1. \A s \in Sectors : ~InTrial(flash'[s])
        BY <1>6, <2>4, ConfirmationDecides
      <3> QED BY <2>4, <3>1 DEF InTrial, Unproven, Pending
    <2>5. CASE queue' = << >> /\ task' = "reset"
      BY <2>5
    <2> QED BY <2>2, <2>3, <2>4, <2>5
  <1>7. CASE UpdateFails
    <2>1. task \in {"switching", "confirming", "rejecting"}
      BY <1>7 DEF UpdateFails, WriteFails, SystemTypeOK
    <2>2. task' \in {"reverting", "AwaitConfirmation", "RollbackUnaccounted"}
      BY <1>7, <2>1 DEF UpdateFails
    <2> QED BY <2>2
  <1>8. CASE UNCHANGED system
    BY <1>8 DEF system, engine, vars, InTrial, Unproven, Pending
  <1> QED BY <1>1, <1>2, <1>3, <1>4, <1>5, <1>6, <1>7, <1>8 DEF SystemNext

-------------------------------------------------------------------------------
(***************************************************************************)
(* What can be chosen is verified.                                         *)
(***************************************************************************)

\* Sequence number one selects slot zero.
LEMMA FirstSlot == SlotOf(1) = 0
  BY OtadataAssumption, SMT DEF SlotOf

\* A plan starts and marks only what is already in the flash, or the seed.
LEMMA VerifiedPowerOn ==
    ASSUME IInv, SystemInv, faults = 0, PowerOn(images), UNCHANGED engine
    PROVE  ChosenAreVerified'
  <1>1. /\ flash \in Otas
        /\ UNCHANGED <<flash, lastValid, contents>>
        /\ queue' = PlanBoot(flash, images).writes
    BY DEF PowerOn, IInv, TypeOK, Otas, history, engine
  <1>2. ChosenAreVerified
    BY DEF SystemInv
  <1>3. ASSUME NEW i \in DOMAIN queue', queue'[i].entry.state \in {"new", "pending", "valid"}
        PROVE  contents[SlotOf(queue'[i].entry.seq)] # Partial
    <2>1. CASE queue' = MarkWrites(flash, images)
      <3>1. PICK s \in Sectors : /\ Mark(flash, images, s) # "keep"
                                 /\ queue'[i] = MarkOf(flash, images, s)
        BY <1>1, <1>3, <2>1, MarkWritesFacts
      <3>2. queue'[i].entry.seq = flash[s].seq /\ queue'[i].entry.state = Mark(flash, images, s)
        BY <3>1 DEF MarkOf, Write, Entry
      <3>3. Unproven(flash[s])
        BY <1>1, <1>3, <3>1, <3>2, MarkFacts
      <3> QED BY <1>2, <3>2, <3>3 DEF ChosenAreVerified, InTrial
    <2>2. CASE FirstBoot(flash) /\ queue' = << Write(0, 1, "valid") >>
      <3>1. lastValid = 0
        <4>1. \A s \in Sectors : ~IsEntry(flash[s])
          BY <1>1, <2>2, FirstBootFacts
        <4>2. \A s \in Sectors : flash[s] # Entry(lastValid, "valid")
          BY <4>1 DEF IsEntry, Entry, EntryStates
        <4> QED BY <4>2 DEF IInv, FallbackInv, FallbackUntouched
      <3>2. queue'[i].entry.seq = 1
        BY <1>3, <2>2 DEF Write, Entry
      <3> QED BY <1>2, <3>1, <3>2, FirstSlot DEF ChosenAreVerified, LastSlot
    <2>3. CASE queue' = << >>
      BY <1>3, <2>3
    <2> QED BY <1>1, <2>1, <2>2, <2>3, PlanCases
  <1> QED BY <1>1, <1>2, <1>3 DEF ChosenAreVerified, LastSlot, InTrial, Unproven, Pending

\* A command, done or cut, puts nothing into the flash that was not on its way there.
LEMMA VerifiedChanged ==
    ASSUME IInv, ChosenAreVerified, contents' = contents, faults' = faults,
           queue # << >>, Changed,
           \A i \in DOMAIN queue' : \E j \in DOMAIN queue : queue'[i] = queue[j]
    PROVE  ChosenAreVerified'
  <1> DEFINE h == Head(queue)
  <1> SUFFICES ASSUME faults = 0 PROVE ChosenAreVerified'
    BY DEF ChosenAreVerified
  <1>1. 1 \in DOMAIN queue /\ h = queue[1]
    BY QueueType DEF IInv
  <1>2. h.entry.state \in {"new", "pending", "valid"} => contents[SlotOf(h.entry.seq)] # Partial
    BY <1>1 DEF ChosenAreVerified
  <1>3. \A s \in Sectors : InTrial(flash'[s]) => contents[SlotOf(flash'[s].seq)] # Partial
    <2> SUFFICES ASSUME NEW s \in Sectors, InTrial(flash'[s])
                 PROVE  contents[SlotOf(flash'[s].seq)] # Partial
      OBVIOUS
    <2>1. flash'[s] = flash[s] \/ flash'[s] \in {Blank, Corrupt} \/ flash'[s] = h.entry
      BY ChangedFacts DEF IInv
    <2>2. flash'[s] \notin {Blank, Corrupt}
      BY NoEntry DEF InTrial
    <2> QED BY <1>2, <2>1, <2>2 DEF ChosenAreVerified, InTrial, Unproven, Pending
  <1>4. lastValid' = lastValid \/ (Valid(h.entry) /\ lastValid' = h.entry.seq)
    BY DEF Changed
  <1>5. contents[LastSlot'] # Partial
    <2>1. CASE lastValid' = lastValid
      BY <2>1 DEF ChosenAreVerified, LastSlot
    <2>2. CASE Valid(h.entry) /\ lastValid' = h.entry.seq
      <3>1. h.entry.seq \in 1 .. SeqMax
        BY QueueType DEF IInv, Writes, Entries
      <3>2. h.entry.seq # 0
        BY <3>1
      <3> QED BY <1>2, <2>2, <3>2 DEF LastSlot, Valid
    <2> QED BY <1>4, <2>1, <2>2
  <1>6. \A i \in DOMAIN queue' :
          queue'[i].entry.state \in {"new", "pending", "valid"} =>
              contents[SlotOf(queue'[i].entry.seq)] # Partial
    BY DEF ChosenAreVerified
  <1> QED BY <1>3, <1>5, <1>6 DEF ChosenAreVerified, InTrial, Unproven, Pending

\* While an image may be written the running one is the fallback, nothing is
\* unconfirmed and nothing is on its way.
LEMMA NothingChosenBut ==
    ASSUME IInv, SystemInv, faults = 0, Stage(Spare)
    PROVE  /\ LastSlot = boot.slot
           /\ \A s \in Sectors : ~InTrial(flash[s])
           /\ queue = << >>
  <1>1. /\ phase = "app" /\ queue = << >>
        /\ flash[boot.sector] = Entry(boot.seq, "valid")
        /\ ~Unproven(flash[Other(boot.sector)])
    BY DEF Stage, Idle
  <1>2. boot \in Boots /\ boot.kind = "slot"
    BY <1>1 DEF IInv, TypeOK
  <1>3. boot.seq \in 1 .. SeqMax - 1 /\ boot.sector \in Sectors
    BY <1>2 DEF Boots, NoBoot, BootHalt, HaltKinds
  <1>4. boot.seq = lastValid /\ boot.slot = SlotOf(boot.seq)
    BY <1>1, <1>2 DEF IInv, FallbackInv, RunningBootable
  <1>5. LastSlot = boot.slot
    BY <1>3, <1>4 DEF LastSlot
  <1>6. \A s \in Sectors : ~Pending(flash[s])
    BY <1>1, ConfirmedBoot
  <1>7. \A s \in Sectors : ~Unproven(flash[s])
    BY <1>1, <1>3, OtherSector DEF Unproven, Entry
  <1> QED BY <1>1, <1>5, <1>6, <1>7 DEF InTrial

LEMMA VerifiedStep ==
    ASSUME IInv, SystemInv, [SystemNext]_system
    PROVE  ChosenAreVerified'
  <1> SUFFICES ASSUME faults' = 0 PROVE ChosenAreVerified'
    BY DEF ChosenAreVerified
  <1> USE DEF SystemInv
  <1>a. flash \in Otas /\ faults \in Nat
    BY BootChainAssumption DEF IInv, TypeOK, Otas
  <1> DEFINE Quiet == UNCHANGED <<flash, queue, lastValid, contents, faults>>
  <1>b. ASSUME Quiet PROVE ChosenAreVerified'
    BY <1>b DEF ChosenAreVerified, LastSlot, InTrial, Unproven, Pending
  <1>1. CASE Bootloader /\ Boot
    <2>1. PICK good \in SUBSET images : PowerOn(good)
      BY <1>1 DEF Boot
    <2>2. good = images /\ faults = 0
      BY <1>a, <2>1, SMT DEF PowerOn
    <2> QED BY <1>1, <2>1, <2>2, VerifiedPowerOn DEF Bootloader
  <1>2. CASE (Bootloader /\ ~Boot) \/ UpdateStep
    <2>1. FlashCommand /\ contents' = contents
      BY <1>2 DEF Bootloader, UpdateStep, engine
    <2>2. faults' = faults
      BY <2>1 DEF FlashCommand
    <2> QED BY <2>1, <2>2, VerifiedChanged, FlashCommandFacts DEF IInv
  <1>3. CASE UpdateFails \/ Cut
    <2>1. Interrupted /\ contents' = contents /\ faults' = faults
      BY <1>3 DEF UpdateFails, Cut, WriteFails, PowerCut
    <2>2. queue' = << >>
      BY <2>1 DEF Interrupted
    <2>3. CASE UNCHANGED <<flash, lastValid>>
      BY <2>1, <2>2, <2>3 DEF ChosenAreVerified, LastSlot, InTrial, Unproven, Pending
    <2>4. CASE queue # << >> /\ Changed
      BY <2>1, <2>2, <2>4, VerifiedChanged
    <2> QED BY <2>1, <2>3, <2>4, InterruptedFacts DEF IInv
  <1>4. CASE StartWrite \/ \E id \in Ids : FinishWrite(id)
    <2>1. Stage(Spare) /\ UNCHANGED <<flash, queue, lastValid, faults>>
      BY <1>4 DEF StartWrite, FinishWrite, Stage
    <2>2. faults = 0 /\ boot.slot # Spare
      BY <2>1 DEF Stage
    <2>3. /\ LastSlot = boot.slot
          /\ \A s \in Sectors : ~InTrial(flash[s])
          /\ queue = << >>
      BY <2>1, <2>2, NothingChosenBut
    <2>4. contents'[boot.slot] = contents[boot.slot]
      <3>1. PICK c : contents' = [contents EXCEPT ![Spare] = c]
        BY <1>4 DEF StartWrite, FinishWrite
      <3>2. boot.slot \in Slots
        BY <2>1, SpareType DEF IInv, Stage, Idle
      <3> QED BY <2>2, <3>1, <3>2 DEF SystemTypeOK
    <2> QED BY <2>1, <2>2, <2>3, <2>4 DEF ChosenAreVerified, LastSlot, InTrial, Unproven, Pending
  <1>5. CASE Switch
    <2>1. PICK target \in record.artifacts : Activate(target)
      BY <1>5 DEF Switch
    <2>2. /\ queue' = << ActivateWrite(flash, target) >>
          /\ ActivateResult(flash, target) = "ok"
          /\ UNCHANGED <<flash, lastValid, faults, contents>>
      BY <1>5, <2>1 DEF Activate, Switch, engine
    <2>3. /\ ActivateWrite(flash, target) \in Writes
          /\ ActivateWrite(flash, target).entry = Entry(ActivateSeq(flash, target), "new")
          /\ SlotOf(ActivateSeq(flash, target)) = target
      BY <1>a, <2>2, ActivateWriteFacts, ActivateSeqFacts
    <2>4. contents[target] # Partial
      BY <2>1, RecordFacts, IdsAssumption DEF RecordIsOfRunning
    <2>5. \A i \in DOMAIN queue' : SlotOf(queue'[i].entry.seq) = target
      <3>1. ActivateWrite(flash, target).entry.seq = ActivateSeq(flash, target)
        BY <2>3 DEF Entry
      <3> QED BY <2>2, <2>3, <3>1, OneUpdate
    <2> QED BY <2>2, <2>4, <2>5 DEF ChosenAreVerified, LastSlot, InTrial, Unproven, Pending
  <1>6. CASE SelfCheckPasses \/ RejectCandidate
    <2>1. PICK w \in {ConfirmWrite(flash), RejectWrite(flash)} : queue' = << w >>
      BY <1>6 DEF SelfCheckPasses, RejectCandidate, Confirm, Reject
    <2>2. /\ PendingSectors(flash) # {}
          /\ UNCHANGED <<flash, lastValid, faults, contents>>
      BY <1>6 DEF SelfCheckPasses, RejectCandidate, Confirm, Reject, history
    <2>3. /\ w \in Writes
          /\ PendingSector(flash) \in Sectors
          /\ Pending(flash[PendingSector(flash)])
          /\ \E st : w.entry = Entry(flash[PendingSector(flash)].seq, st)
      BY <1>a, <2>1, <2>2, VerdictWriteFacts
    <2>4. w.entry.seq = flash[PendingSector(flash)].seq
      BY <2>3 DEF Entry
    <2>5. contents[SlotOf(w.entry.seq)] # Partial
      BY <2>2, <2>3, <2>4 DEF ChosenAreVerified, InTrial
    <2>6. \A i \in DOMAIN queue' : queue'[i] = w
      BY <2>1, <2>3, OneUpdate
    <2> QED BY <2>2, <2>5, <2>6 DEF ChosenAreVerified, LastSlot, InTrial, Unproven, Pending
  <1>7. CASE Start \/ Restart
    <2>1. Quiet
      BY <1>7 DEF Start, Restart, Launch, Reset, history
    <2> QED BY <1>b, <2>1
  <1>8. CASE Decay
    <2>1. faults' = faults + 1
      BY <1>8 DEF Decay, Rot
    <2> QED BY <1>a, <2>1, SMT
  <1>9. CASE \/ OnBoot \/ Carry \/ NothingPending \/ Clear \/ Withdraw \/ AbandonWrite
             \/ (\E expected \in Ids : RecordIntent(expected)) \/ SwitchRefused \/ Revert
             \/ UNCHANGED system
    <2>1. Quiet
      BY <1>9 DEF OnBoot, Carry, NothingPending, Clear, Withdraw, AbandonWrite, RecordIntent,
                  SwitchRefused, Revert, system, engine, vars
    <2> QED BY <1>b, <2>1
  <1> QED BY <1>1, <1>2, <1>3, <1>4, <1>5, <1>6, <1>7, <1>8, <1>9 DEF SystemNext

-------------------------------------------------------------------------------
(***************************************************************************)
(* The theorems.                                                           *)
(***************************************************************************)
\* What the caller does next follows from the record, until it is idle.
LEMMA SettledStep ==
    ASSUME SystemTypeOK, RecordIsOfRunning, IdleIsSettled, [SystemNext]_system
    PROVE  IdleIsSettled'
  <1> USE DEF IdleIsSettled
  <1>1. CASE OnBoot
    <2>1. record' = record /\ \E same \in Sameness :
             task' = Reconcile(record.state, Outcome, same) /\ blind' = (same = "unknown")
      BY <1>1 DEF OnBoot
    <2>2. record.state \in {"Staged", "Activating", "none"}
      BY RecordFacts
    <2> QED BY <2>1, <2>2 DEF Reconcile, Unconfirmed, Settled
  <1>2. CASE Carry
    BY <1>2 DEF Carry
  <1>3. CASE Clear \/ Withdraw
    BY <1>3 DEF Clear, Withdraw, Commit, NoRecord, Record
  <1>10. CASE Revert
    <2>1. [record EXCEPT !.state = "Staged"].state = "Staged"
      BY DEF SystemTypeOK, RecordsNaming, NoRecord, Record
    <2> QED BY <1>10, <2>1 DEF Revert, Commit
  <1>4. CASE AbandonWrite \/ \E id \in Ids : FinishWrite(id)
    <2>1. record = NoRecord
      BY <1>4 DEF AbandonWrite, FinishWrite, RecordIsOfRunning
    <2> QED BY <1>4, <2>1 DEF AbandonWrite, FinishWrite, Commit, NoRecord, Record
  <1>5. CASE \E expected \in Ids : RecordIntent(expected)
    BY <1>5 DEF RecordIntent, Intent
  <1>6. CASE Bootloader \/ Decay \/ Switch \/ UNCHANGED system
    BY <1>6 DEF Bootloader, Decay, Switch, engine, system
  <1>7. CASE UpdateFails
    <2>1. task \in {"switching", "confirming", "rejecting"}
      BY <1>7 DEF UpdateFails, WriteFails, SystemTypeOK
    <2> QED BY <1>7, <2>1 DEF UpdateFails
  <1>8. CASE Start \/ SelfCheckPasses \/ RejectCandidate \/ NothingPending \/ StartWrite
             \/ SwitchRefused \/ Restart \/ Cut
    BY <1>8 DEF Start, SelfCheckPasses, RejectCandidate, NothingPending, StartWrite,
                SwitchRefused, Restart, Cut
  <1>9. CASE UpdateStep
    <2>1. task \in {"switching", "confirming", "rejecting"}
      BY <1>9 DEF UpdateStep, FlashCommand, SystemTypeOK
    <2> QED BY <1>9, <2>1 DEF UpdateStep
  <1> QED BY <1>1, <1>2, <1>3, <1>4, <1>5, <1>6, <1>7, <1>8, <1>9, <1>10 DEF SystemNext

LEMMA SystemInvInit == SystemInit => IInv /\ SystemInv
  <1> SUFFICES ASSUME SystemInit PROVE IInv /\ SystemInv
    OBVIOUS
  <1>1. Init
    BY DEF SystemInit
  <1>2. IInv
    BY <1>1, TypeInit, TrustInit, FallbackInit, CandidateInit, UpdateInit DEF IInv
  <1>3. StartsItsEntry
    BY <1>1 DEF Init, StartsItsEntry, NoBoot, BootHalt
  <1>4. ChosenAreVerified
    <2>1. \A s \in Sectors : ~InTrial(flash[s])
      BY <1>1, NoEntry DEF Init, InTrial
    <2>2. 0 \in Slots
      BY OtadataAssumption DEF Slots
    <2>3. contents[0] = Factory /\ Factory # Partial
      BY <2>2 DEF SystemInit, Factory, Partial
    <2> QED BY <1>1, <2>1, <2>3 DEF Init, ChosenAreVerified, LastSlot
  <1>5. RecordIsOfRunning /\ UpdateIsTheTasks /\ ClearedIsDecided /\ IdleIsSettled
    BY <1>1 DEF Init, SystemInit, RecordIsOfRunning, UpdateIsTheTasks, ClearedIsDecided,
                IdleIsSettled, NoRecord, Record
  <1> QED BY <1>2, <1>3, <1>4, <1>5, SystemTypeInit DEF SystemInv

LEMMA SystemInvStep ==
    ASSUME IInv, SystemInv, [SystemNext]_system
    PROVE  [Next]_vars /\ IInv' /\ SystemInv'
  <1>1. [Next]_vars
    BY ChainStep DEF IInv, SystemInv
  <1>2. IInv'
    BY <1>1, TypeStep, TrustStep, FallbackStep, CandidateStep, UpdateInvStep DEF IInv
  <1>3. StartsItsEntry'
    BY <1>1, StartsStep DEF SystemInv
  <1> QED BY <1>1, <1>2, <1>3, SystemTypeStep, RecordStep, TaskStep, ClearedStep, VerifiedStep,
             SettledStep DEF SystemInv

\* The device does to its otadata only what a boot chain does: every property of
\* the chain's steps and states proved of BootChain!Spec holds of the device.
THEOREM SystemIsChain == SystemSpec => Spec
  <1>1. SystemInit => Init
    BY DEF SystemInit
  <1> QED BY <1>1, SystemInvInit, SystemInvStep, PTL DEF SystemSpec, Spec

\* The invariant, of any device.
THEOREM SystemInvariant == SystemSpec => []SystemInv
  BY SystemInvInit, SystemInvStep, PTL DEF SystemSpec

\* Whatever engine, caller and power supply do to each other, the device implements
\* the abstract update: one trial a candidate, and only a candidate that ran takes over.
THEOREM DeviceImplements == ASSUME MaxFaults = 0 PROVE SystemSpec => ImplementsTrialUpdate
  BY SystemIsChain, BootChainImplements

\* The image last confirmed stays under an entry that selects it: no transaction,
\* however it is interrupted or repeated, costs the device its fallback.
THEOREM DeviceKeepsFallback == SystemSpec => []LastConfirmedKept
  BY SystemIsChain, FallbackKept

\* Nothing but a verified image is ever started, as long as none went bad or was
\* misread.
THEOREM VerifiedRuns == SystemSpec => OnlyVerifiedRuns
  <1>1. ASSUME IInv, SystemInv, [SystemNext]_system, Launching, faults = 0
        PROVE  contents[boot.slot] # Partial
    <2>1. Launch
      BY <1>1, ChainStep, OnlyLaunch DEF IInv, SystemInv
    <2>2. queue = << >> /\ boot.kind = "slot" /\ phase = "boot"
      BY <2>1, <1>1 DEF Launch, Launching
    <2>3. boot.slot = SlotOf(boot.seq) /\ flash[boot.sector] \in Runnable(boot.seq)
      BY <1>1, <2>2 DEF SystemInv, StartsItsEntry
    <2>4. boot.seq \in 1 .. SeqMax - 1 /\ boot.sector \in Sectors
      BY <1>1, <2>2 DEF IInv, TypeOK, Boots, NoBoot, BootHalt, HaltKinds
    <2>5. CASE flash[boot.sector] = Entry(boot.seq, "pending")
      BY <1>1, <2>3, <2>4, <2>5 DEF SystemInv, ChosenAreVerified, InTrial, Pending, Entry
    <2>6. CASE flash[boot.sector] = Entry(boot.seq, "valid")
      <3>1. boot.seq = lastValid
        BY <1>1, <2>2, <2>6 DEF IInv, FallbackInv, RunningBootable
      <3> QED BY <1>1, <2>3, <2>4, <3>1 DEF SystemInv, ChosenAreVerified, LastSlot
    <2> QED BY <2>3, <2>5, <2>6 DEF Runnable
  <1>2. IInv /\ SystemInv /\ [SystemNext]_system =>
            (Launching /\ faults = 0 => contents[boot.slot] # Partial)
    BY <1>1
  <1> QED BY <1>2, SystemInvInit, SystemInvStep, PTL DEF SystemSpec, OnlyVerifiedRuns

\* The application trusts only what an activating record accounts for, unless it
\* could not tell what it runs.
THEOREM ConfirmedAccounted == SystemSpec => ConfirmedIsAccounted
  <1> DEFINE Accounted == /\ record.state = "Activating"
                          /\ SlotOf(lastValid') \in record.artifacts
                          /\ contents[SlotOf(lastValid')] = record.id
  <1>1. ASSUME IInv, SystemInv, [SystemNext]_system, phase = "app", lastValid' # lastValid, ~blind
        PROVE  Accounted
    <2>1. queue # << >> /\ Changed
      <3>1. FlashCommand \/ WriteFails \/ PowerCut
        BY <1>1, ChainStep DEF IInv, SystemInv, Next, Boot, PowerOn, Launch, Stage, Activate,
                               Confirm, Reject, Reset, Rot, history, vars
      <3>2. FlashCommand \/ Interrupted
        BY <3>1 DEF WriteFails, PowerCut
      <3> QED BY <1>1, <3>2, FlashCommandFacts, InterruptedFacts DEF IInv
    <2>2. 1 \in DOMAIN queue /\ Head(queue) = queue[1]
      BY <1>1, <2>1, QueueType DEF IInv
    <2>3. Head(queue).entry.state = "valid" /\ lastValid' = Head(queue).entry.seq
      BY <1>1, <2>1 DEF Changed, Valid
    <2>4. boot.kind = "slot" /\ lastValid' = boot.seq
      BY <1>1, <2>2, <2>3 DEF IInv, TrustInv, ValidWrites
    <2>5. SlotOf(lastValid') = boot.slot
      BY <1>1, <2>4 DEF SystemInv, StartsItsEntry
    <2>6. task = "confirming"
      <3>1. task \in {"switching", "confirming", "rejecting"}
        BY <1>1, <2>1 DEF SystemInv, SystemTypeOK
      <3> QED BY <1>1, <2>2, <2>3, <3>1 DEF SystemInv, UpdateIsTheTasks
    <2> QED BY <1>1, <2>5, <2>6 DEF SystemInv, RecordIsOfRunning
  <1>2. IInv /\ SystemInv /\ [SystemNext]_system =>
            (phase = "app" /\ lastValid' # lastValid /\ ~blind => Accounted)
    BY <1>1
  <1> QED BY <1>2, SystemInvInit, SystemInvStep, PTL DEF SystemSpec, ConfirmedIsAccounted

\* An activating record is given up only when otadata holds nothing that may
\* still be started or confirmed in its name.
THEOREM LiveCandidateKept == SystemSpec => LiveCandidateNotForgotten
  <1> DEFINE Decided == \A s \in Sectors : Unproven(flash[s]) \/ Pending(flash[s]) =>
                            SlotOf(flash[s].seq) \notin record.artifacts
  <1>1. ASSUME IInv, SystemInv, [SystemNext]_system, record.state = "Activating",
               record' = NoRecord
        PROVE  Decided
    <2>1. record' # record
      BY <1>1 DEF NoRecord, Record
    <2>2. CASE Clear
      <3>1. task \in {"confirmed", "FinishInterruptedActivation", "ClearStale"}
        BY <2>2 DEF Clear
      <3> QED BY <1>1, <3>1 DEF SystemInv, ClearedIsDecided, InTrial
    <2>3. CASE Withdraw \/ \E id \in Ids : FinishWrite(id)
      <3>1. record.state = "Staged" \/ record = NoRecord
        BY <1>1, <2>3 DEF Withdraw, FinishWrite, SystemInv, RecordIsOfRunning
      <3> QED BY <1>1, <3>1 DEF NoRecord, Record
    <2>4. CASE (\E expected \in Ids : RecordIntent(expected)) \/ Revert
      <3>1. record \in RecordsNaming(Slots)
        BY <1>1 DEF SystemInv, SystemTypeOK, NoRecord, Record
      <3>2. record'.state \in {"Activating", "Staged"}
        BY <1>1, <2>1, <2>4, <3>1 DEF RecordIntent, Revert, Commit, RecordsNaming
      <3> QED BY <1>1, <3>2 DEF NoRecord, Record
    <2>5. CASE record' = record
      BY <2>1, <2>5
    <2> QED BY <1>1, <2>2, <2>3, <2>4, <2>5
            DEF SystemNext, Bootloader, Start, OnBoot, Carry, SelfCheckPasses, RejectCandidate,
                NothingPending, StartWrite, AbandonWrite, Switch, SwitchRefused, UpdateStep,
                UpdateFails, Restart, Cut, Decay, engine, system
  <1>2. IInv /\ SystemInv /\ [SystemNext]_system =>
            (record.state = "Activating" /\ record' = NoRecord => Decided)
    BY <1>1
  <1> QED BY <1>2, SystemInvInit, SystemInvStep, PTL DEF SystemSpec, LiveCandidateNotForgotten
===============================================================================
