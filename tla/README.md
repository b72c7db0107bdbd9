# A formal model of FiBeWI

FiBeWI is a `no_std` Rust crate for firmware updates that survive a power cut at
any point. This directory holds its TLA+ model: specifications of its parts,
TLC configurations that check them on small instances, and proofs, checked by
TLAPS, for every instance.

## 1. The system

| Component | Source | State it keeps | Operations |
|---|---|---|---|
| otadata decisions | `src/boot/mod.rs` | none: pure functions of the two otadata sectors | `plan_boot`, `activate`, `confirm`, `reject` |
| entry codec | `src/boot/mod.rs` | none | `Entry::body`, `encode`, `decode`, `Write::ops` |
| image validator | `src/boot/image.rs` | none | `validate`, `check_segment` |
| write session | `src/artifact.rs` | `WriteSession`: `received`, `durable`, `pending`, hasher | `resume_plan`, `is_complete`, `begin`, `append`, `finish` |
| transaction record | `src/transaction.rs`, `src/state.rs` | one record in the metadata store | `staged`, `with_state`, `activate`, `finish`, `clear_stale`, `reconcile` |
| storage traits | `src/storage.rs` | the implementer's | `write`, `finish`; `load`, `commit` |
| errors, crate root | `src/error.rs`, `src/lib.rs` | none | none |

How they interact:

- A client's upload runs through a **write session**, which hands an
  `ArtifactStorage` everything that is not durable yet and hashes what becomes
  durable. When `finish` has compared the digest the caller commits a **Staged
  record**.
- The **record** becomes `Activating` before the caller tells its backend to
  switch. On an ESP the backend is the **boot chain**: the application's
  `activate` writes a `New` entry into one of two otadata sectors; at the next
  boot `plan_boot` marks it `Pending` and starts it; the image then runs
  `confirm` or `reject`. An entry still `Pending` at a boot is rolled back.
- Before a slot is started `plan_boot` asks the platform's `image_ok`, which runs
  the **image validator** over the slot's partition.
- At every boot `reconcile` compares the record with what the backend reports
  and names the one thing to do.

The crate executes nothing itself. `plan_boot`, `activate`, ... return updates
(`Write`), each of which is three flash commands (`ops`): erase, program the
body, program the commit word. The executor is the platform's; the models take
the one of `src/boot/tests.rs`, with its power cuts.

What is hard about it, and a test hardly reaches: a cut in any command of any
update, over any number of boots, in any state earlier cuts have left; an
application that goes on after a failed flash command; a storage that fails
half-way, or reports nonsense, or a client that resumes at a point the session
and the client see differently; a restart between any two of the steps "commit
the record", "switch the backend", "confirm", "clear the record"; and the end of
the sequence number range. `PROJECT.json` lists each of these hazards at its line.

What makes each component correct:

- *image validator*: what it accepts is whole, in its regions and clear of the
  running bootloader; what it refuses has a fault; damage is caught; it returns.
- *boot chain*: the image last confirmed stays selectable whatever happens;
  trust is only earned; a candidate runs at most once before its fate is
  decided; the bootloader never halts without need; a rollback completes.
- *write session*: what is hashed is what is stored; only the artifact is ever
  committed; the counters agree through every failure; the watermark never
  moves back.
- *transaction*: an activation is always resolved; an activating record is not
  forgotten while its candidate is live; a candidate is trusted only under an
  activating record, and not rolled back as unaccounted while there is one.
- *the whole device*: nothing but a verified image is ever started, and record and
  otadata agree on what is trusted, through every command of every update.

## 2. The modules

| Module | extends | its proofs |
|---|---|---|
| `Otadata` | | `OtadataProofs` |
| `EntryFlash` | `Otadata` | `EntryFlashProofs` |
| `MCEntryFlash` (run) | `EntryFlash` | |
| `BootChain` | `Otadata` | `BootChainProofs` |
| `BootChainInvariant` | `BootChain` | `BootChainProofs`, `CandidateProofs` |
| `BootChainRefinement` | `BootChain`; INSTANCE `TrialUpdate` | `CandidateProofs` |
| `MCBootChain` (runs) | `BootChainInvariant`, `BootChainRefinement` | |
| `TransactionRecord` | | |
| `Transaction` | `TransactionRecord` | `TransactionProofs` |
| `Lifecycle` | `BootChain`, `TransactionRecord` | `LifecycleProofs` |
| `LifecycleInvariant` (run) | `Lifecycle`, `BootChainInvariant` | `LifecycleProofs` |
| `WriteSession` | | `WriteSessionProofs` |
| `ImageValidate` | | `ImageValidateProofs` |
| `MCImageValidate` (run) | `ImageValidate` | |

The proofs of the boot chain build on each other: `OtadataProofs`, `BootChainProofs`,
`CandidateProofs` and `LifecycleProofs`, each on the one before.

**`Otadata`** holds the decisions, as operators on the two sectors. A sector is
what `decode` makes of it: `Blank`, `Corrupt`, or an entry `[seq, state]`.
`PlanBoot` is `plan_boot`. The source loops over the candidates in order of
sequence number and stops at the first bootable one; the model says the same by
sets: `Bootable` candidates, the `Chosen` one, and for each sector the `Mark` it
is rewritten with, which for an unbootable candidate depends on whether the loop
reaches it. `FirstMarked` gives the order of the updates. `PlanLoop` says it again
the way the source does, one candidate after the other; that the two are equal is
proved (section 5), and the models use `PlanBoot`. `ActivateResult` and
`ActivateWrite` are the error and the success of `activate`, whose search for a
sequence number is the least element of `NextSeqs`. `SeqMax` stands for
`u32::MAX`. `AfterCommand` and `AfterCut` say what a sector reads as once a flash
command of an update is done, or cut.

**`BootChain`** sets them in motion. Its variables are the two sectors (`flash`),
the slots whose image is bootable (`images`), the `phase` of the device, what it
starts or runs (`boot`), the updates still to make (`queue`, `step`), and how many
`faults` there were. `PowerOn(good)` plans with the images that pass their check at
this boot: all bootable ones, or, as a fault, fewer, since `image_ok` answers the
same for a bad image and for a read that failed. `Boot` is any such `PowerOn`.
`FlashCommand` executes one command of the first update; `Launch` starts the slot
once all are made; `Activate`, `Confirm` and `Reject` are the application's calls.
`PowerCut` and `WriteFails` cut the command in progress, leaving what `AfterCut`
allows: a cut erase leaves the old contents, nothing, or garbage; a cut body leaves
nothing or garbage; a cut commit leaves garbage or the complete entry. `Stage` is
the platform writing a new image over a slot that is not running, and `Rot`, the
other fault, an image going bad by itself. Four history variables record what
happened and are read by no guard (one, `vetted`, is what a self-check establishes
about an image).

**`EntryFlash`** shows that `AfterCommand` and `AfterCut` are right. Its sector is
the seven words of an entry (magic and version are one). The sequence number and
the state, whose values matter, are sets of bits, and the constant `Word` says which
bits a number has (in the run, its binary digits); the other words, which `decode`
compares for equality, are erased, torn or exactly something, and a CRC is exactly
the pair, or the number, it was computed from. `Command` executes one of the three
commands of `ops`; `Cut` leaves every word, independently of the others, anywhere
between what it was and what it was to become, which is the `AnyOrder` model of
`tests.rs` with more than one partial word at a time; `TornBody` is the faulty
executor of `tests.rs`, which goes on to the commit word over a torn body.

**`TrialUpdate`** is what the boot chain promises, without sectors or cuts: a
trusted base, at most one candidate for its succession, one trial, and then
promotion or loss of the candidate. **`BootChainRefinement`** maps the boot chain
to it: the base is the entry last committed as Valid, the candidate is the New or
Pending entry, or, while that very entry is being rewritten and its sector reads
as neither, the update in progress.

**`BootChainInvariant`** states the inductive invariants that **`BootChainProofs`**
and **`CandidateProofs`** prove (section 5). **`MCBootChain`** is the module of the boot chain's runs.

**`ImageValidate`** is one call of `validate`, an action per read: `Call` (the
checks before the first read), `ReadHeader`, `ReadSegment` for every entry of the
table with `check_segment`, `CloseTable`, then `SumChunk` and `ReadChecksum`,
`HashChunk` and `ReadHash`, as far as `verify` asks for them. `ReadFails` may take
the place of any read. What is read is any header and segment header of the
constants. A data byte is its address: the model keeps which bytes went into the
checksum and the hash, and one byte may be damaged after these were computed. The
additions the code does not check wrap at `U32`, as in a release build.
**`MCImageValidate`** gives the regions, partitions and headers of the run.

**`WriteSession`** models one upload target. Bytes of the artifact are their
positions and 0 is any other byte, so that reordering, loss and duplication show;
a digest is the sequence it is the digest of. `Request` is a request arriving and
`resume_plan`'s answer; `AppendData` is `append` with everything it does before
and after the storage answers; `Finish` is `finish`, which consumes the session
whatever the outcome. The storage is any: it takes any prefix of what it is
offered, answers any watermark or an error, and `lied` records an answer against
the contract of `ArtifactStorage`.

**`TransactionRecord`** holds the record, what `activate` answers (`Intent`), and
`Reconcile`, the decision table, split as the code reads: `Unconfirmed` for a
backend with a candidate, `Settled` for one without.

**`Transaction`** models the record and its caller. The backend is reduced to what
`TrialUpdate` promises. The caller follows the documentation of `activate`: commit,
then switch, then, on a failure, revert if it can. It runs `reconcile` at each boot
with what it can find out (`Outcomes`, `Sameness`: the running target may be
unknown) and does what it is told. `Commit` may fail anywhere. `ForeignSwitch` is
something other than this engine switching the backend.

**`Lifecycle`** is the composition: the same record and caller on `BootChain`
itself. Each of its actions is an action of the boot chain and what the engine and
its caller do with it, or a step of the caller alone. Every switch, confirmation and
rejection is an update of otadata that may be cut at any command, or fail while the
application goes on: the caller then believes what it was told and has to be brought
together with what the flash says (`UpdateFails`, `NothingPending`, `OnBoot`). A
write session is seen as a slot that is `Partial` until it has committed; what it
verified may still not be bootable. **`LifecycleInvariant`** states its inductive
invariant and is the module of its run; **`LifecycleProofs`** proves it.

Names follow the sources. An operator commented as a *mutant* is not used by any
specification: it is the definition next to it with a plausible bug, and
`PROJECT.json` names the property that refutes it.

## 3. The runs

| Run | Instance | Shows | States |
|---|---|---|---|
| `fallback` | 3 slots, `SeqMax` 6, no fault | `LastConfirmedKept`: the confirmed image stays selectable through any cut; `DistinctSeqs`: no ties; `TrustedImageVetted`: what starts as trusted was vetted; `ImplementsTrialUpdate`: every behaviour is one of `TrialUpdate` | 140 000 |
| `rotting` | 2 slots, `SeqMax` 5, 2 faults, fairness | `EarnedTrust`, `OneCandidate`, `OneTrial`, `NoNeedlessHalt`; `BootCompletes`, `RollbackCompletes`; `IInv`, the invariant of the proofs | 353 000 |
| `entry_flash` | words of 3 bits, 4 sequence numbers | `CommandReadsAs`, `CutReadsAs`: a sector reads as `BootChain` assumes; `NeverForged`: only a commit word makes an entry, and the one asked for; `FlashInv`, the invariant of the proofs | 18 000 |
| `image_validate` | 6 regions in 253 addresses, buffer of 6 bytes | `BootloaderUntouched`, `AcceptedIsWhole`: what is accepted is safe and whole; `RefusedForCause`: the bounds are exact; `OffsetsExact`: no offset is a wrapped one; `IntactAccepted`: each byte is summed and hashed once, whatever the chunks; `DamageCaught`: each level of `Verify` catches what it promises; `Terminates` | 147 000 |
| `lifecycle` | 1 identity, 2 slots, `SeqMax` 5, 1 fault, fairness | `OnlyVerifiedRuns`, `ConfirmedIsAccounted`, `LiveCandidateNotForgotten`; `ActivationEnds`; `SystemInv`, the invariant of the proofs | 652 000 |
| `write_session` | 3 bytes | `Accounting`, `HashedIsStored`, `CommittedIsStored`, `StreamIntact`, `WatermarkForward`, `TypeOK` | 17 000 |
| `transaction` | 2 identities, fairness | `StagedIsWritten`, `ActivatingResolved`, `ConfirmedIsAccounted`, `LiveCandidateNotForgotten`, `SwitchedNotUnaccounted`, `ActivationEnds`, `TypeOK` | 3 600 |

The properties are explained where they are defined. Why the bounds are enough:

- The sequence numbers bound the number of updates (each `activate` takes a
  higher one). `SeqMax = 6` leaves five generations after which the next
  `activate` meets the end of the range. Cuts and failures are not bounded at all.
  The two sectors hold two generations at most, so a fault that needs a history
  shows after the third; what is proved of `SeqMax` and `SlotCount` needs no bound.
- Two slots are the usual device; with three a slot may be neither running nor
  fallback. `MCBootChain` asks that `SeqMax` select the slot `u32::MAX` would.
- `MaxFaults` bounds how many images go bad with a device that is off and how many
  boots misread a good one. With two, either of the images that matter can be lost,
  or both, in either way. The proofs need no bound.
- Three bits are enough for the five states and for erased, which is none of them;
  the proofs are for words of any width.
  The sequence numbers written include a word that is a partial form of another (3
  on the way to 1 and 2) and all ones. Any number of updates and cuts may follow
  each other over the residue of earlier ones.
- The loads and lengths of `MCImageValidate` are those at, before and after each
  bound of a region, of the bootloader's window by either bus, of a partition and of
  the address range; the entry points are the first and last byte of a segment and
  those around it; counts are none, one, two and too many. Two segments show what
  the walk carries from one to the next; the buffer is shorter than a segment and
  no divisor of it. The length of a walk and the size of segments and buffer are
  without bound in the proofs.
- `lifecycle` takes one identity: a record with another is covered by
  `transaction`. Run by hand, with the same result: two identities (2.0 million
  states), `SeqMax` 7, and three slots with `SeqMax` 6; and, of the boot chain,
  `IInv` with three slots, `SeqMax` 6 and one fault (1.7 million states).
- Three bytes let a chunk be split, its head be durable and its tail pending, with
  one byte still to come.
- `transaction` needs no bound: its state space is finite by itself. A second
  identity gives `activate` something to refuse.

Deadlock is checked in all of them but `image_validate`, whose call returns and
then does nothing more.

### Where code and documentation differ

Five runs end in a violation, each of one property taken from the repository's
documentation:

- `exhausted`: `activate` can return an entry with sequence number `u32::MAX`,
  which `decode` refuses: the update is silently dropped, where
  `SequenceExhausted` was meant for it (`mod.rs:382`).
- `reseed`: a device that had a Valid entry can be treated as on its first boot:
  its image goes bad, or is merely misread once, the entry is to be rewritten as
  `Invalid`, and a cut there leaves no entry at all (`mod.rs:342`).
- `stale_valid`: a Valid entry vouches for a slot, not for what is in it. When a
  new image has been written over the older of two Valid slots and the newer goes
  bad, the new image is started as trusted, without a trial (`mod.rs:333`).
- `resume_tail`: a resumption accepted at `durable` appends bytes that the session
  still holds as its pending tail; the stream then holds them twice
  (`artifact.rs:82`). The digest catches it: `CommittedIsStored` holds.
- `unknown_target`: with the running target unknown, `reconcile` awaits the
  confirmation of any candidate, also of one no record accounts for
  (`transaction.rs:89`); deliberate there, and not what `state.rs` says of the
  action.

`TrustedImageVetted` therefore appears twice: it holds as long as no image goes
bad by itself (`fallback`) and fails as soon as one may.

## 4. Fairness

`BootChain!FairSpec`: the bootloader is weakly fair, that is `Boot`, `Launch`
and the flash commands it has to make. It is a single thread of execution with
nothing to wait for. The application is not fair at all (it may never confirm)
and neither is the environment. The liveness properties assume that the power
cuts end (`PowerSettles`), and nothing else: with a cut in every boot nothing can
be promised. `RollbackCompletes` promises the image last confirmed only while no
image went bad or was misread.

`ImageValidate!Spec`: a call goes on to its next read. It is a loop on the
caller's thread; reads return or fail.

`Transaction!FairSpec`: the caller goes on to its next step, delivers a verdict
on a candidate one way or the other, and makes the resets it owes (after a
switch, and after a rejection). `ActivationEnds` assumes that at some point
resets come only when owed, commits succeed and the running target can be
determined; the code offers no other retry than the next boot.

`Lifecycle!SystemFairSpec`: bootloader, reconciliation and caller are one process,
one after the other on the same chip, so that one weak fairness condition
(`Proceed`) covers them: what comes next is done. Nobody owes a write, an
activation, a fault or a cut. `ActivationEnds` assumes, as above, that cuts, failing
flash commands and failing commits end (`Settles`), and allows a halt: no image may
be left to start.

## 5. What is proved

Every theorem holds for every value of the constants its module's assumptions
allow: any number of slots, any `SeqMax > 1`, any number of faults
(`OtadataAssumption`, `BootChainAssumption`); any memory map, partitions, headers
and buffer size (`MapAssumption`, `ReadAssumption`); any artifact that is not empty
(`WriteSessionAssumption`); any transactions (`IdsAssumption`: an identity is not
the mark of a partial slot); words of any width and any sequence numbers
(`EntryFlashAssumption`, and `WordAssumption`: no two numbers have the same bits, 0
has none and `u32::MAX` all). Three theorems assume `MaxFaults = 0` in their
statement.

| Module | Theorems | Invariant |
|---|---|---|
| `OtadataProofs` | `PlanIsTheLoop`, `ActivateFinds`, `ActivateRefuses` | none: no state |
| `EntryFlashProofs` | `ResidueSound`, `CommandsReadAs`, `CutsReadAs`, `NoForgery` | `FlashInv` |
| `BootChainProofs` | `TypeCorrect`, `TrustIsEarned`, `FallbackKept` | `TrustInv`, `FallbackInv` |
| `CandidateProofs` | `InvariantHolds`, `OneAtATime`, `NoTies`, `TriedOnce`, `VettedIsTrusted`, `HaltsForCause`, `PendingRollsBack`, `BootBounded`, `BootChainImplements` | `IInv` |
| `LifecycleProofs` | `SystemIsChain`, `SystemInvariant`, `DeviceImplements`, `DeviceKeepsFallback`, `VerifiedRuns`, `ConfirmedAccounted`, `LiveCandidateKept` | `IInv`, `SystemInv` |
| `ImageValidateProofs` | `TypeCorrect`, `OffsetsAreExact`, `BootloaderSafe`, `AcceptedWhole`, `RefusalsCaused`, `DamageIsCaught`, `IntactIsAccepted`, `NoIdleStep` | `TableInv`, `Covered` |
| `WriteSessionProofs` | `TypeCorrect`, `CountersAgree`, `HashCoversStored`, `CommitIsWhole`, `StreamKept`, `WatermarkMonotonic` | `Inv` |
| `TransactionProofs` | `TypeCorrect`, `StagedWritten`, `ActivationResolved`, `TrustAccounted`, `CandidateRemembered`, `SwitchKept` | `Inv` |

**The boot chain.** Every change of a sector, by a whole command or a cut one, is
either a loss (the sector reads as no entry) or the commitment of the first
update of the queue (`Changed`, `ChangedFacts`). So it is enough to know what may
be in the queue:

- *Trust* (`TrustInv`). `EarnedTrust` is not inductive: `confirm` takes whatever
  entry is Pending, and nothing in that call says that it is the running image's.
  `PendingIsRun` does, and it needs `PendingWrites` (only the plan marks an entry
  Pending, and only that of the image it starts) and that the plan rewrites every
  other Pending entry before the launch. `ValidWrites` says that an update to Valid
  is alone and of a proven image.
- *Fallback* (`FallbackInv`, while `faults = 0`). `FallbackUntouched`: the fallback's
  sector is none the queue touches. It is preserved by `activate` only because the
  fallback is the *highest* Valid entry (`FallbackOrder`), by the plan only because
  the fallback is bootable and so is neither passed over nor marked
  (`FallbackBootable`), and by a confirmation, which makes a new fallback, only
  because the other sector then holds the old one. `RunningBootable` says that a
  running Valid image *is* the fallback, so that staging never writes over it.
- *The candidate* (`CandidateInv`, through any faults). An unconfirmed entry is
  above the Valid one in the other sector (`CandidateBacked`), and its own sector is
  updated before that one (`CandidateFirst`): a cut can lose the candidate but never
  leave it alone. `SeqsApart` keeps sequence numbers distinct, in the flash and on
  their way there. `BootPlan` says that the bootloader starts an untried candidate,
  a Valid entry it leaves alone or the seed, and that no New entry survives to the
  launch, which with `NewUntried` makes a trial the only one.
- *The refinement* (`UpdateInv`). Only a New entry is marked Pending and only a
  Pending one becomes Valid, under its own sequence number (`RewritesInPlace`), an
  update begun has erased its sector (`UpdatesApart`), and what is confirmed was
  tried (`TrialRan`). `CandidateProofs` first says what the mapping makes of each
  state (`Mapped`, `Maps`), then that each step is a step of `TrialUpdate` or leaves
  the mapped state alone. It assumes `MaxFaults = 0`: with a fault the base itself
  can be lost, which `TrialUpdate` excludes, and rightly so.

- *Rollback* (`PendingRollsBack`). Without faults a boot that finds a Pending entry
  has exactly one bootable candidate, the fallback: `Fallback` says there is a bootable
  Valid entry, and a second sector is all the Pending one leaves. So it is what is
  started, and no update goes near it.
- *End of a boot* (`BootBounded`). The updates are of different sectors
  (`UpdatesApart`), hence at most two, hence at most six commands, and each step of the
  bootloader leaves one less. `RollbackCompletes` and `BootCompletes` are these two
  and the fairness of section 4.

**The decisions.** `OtadataProofs` holds what is needed of them: what `Mark` and
`MarkWrites` may return, that a candidate's sector is marked first
(`TrialMarked`), that `Chosen` is the highest bootable candidate, the three cases
of `plan_boot`, that `activate` finds a least sequence number. Three theorems stand
for themselves. `PlanIsTheLoop`: the sets `PlanBoot` is written with give the updates
of the source's loop, in its order, for any two sectors (`CandidateOrder` says which
candidate the sort puts first, `DecidedStays` that nothing follows a decision).
`ActivateFinds`: the search of `activate` ends within `slot_count` numbers, until an
entry is within `slot_count` of the end of the range; some number among any
`slot_count` in a row selects the slot (`NextOfSlot`), which needs that division with
remainder exists (`Division`) and is unique. `ActivateRefuses`: a slot the device does
not have is refused and never written.

**An entry in flash.** `FlashInv` says what a sector may hold after any number of
commands, done, cut or torn. `BodyOverBlank`: the body is programmed over a blank
entry, the commit word over the body or, after a torn body nobody looked at, over part
of it. `Covered`: a checksum that is still whole finds the words it was computed of
whole, or with bits that were erased since. That is what makes an accepted entry the
one that was written: its two words are then at least those of its checksum and, by
`decode`, exactly those. `CommandReadsAs`, `CutReadsAs` and `NeverForged` follow, so
that what `BootChain` takes a flash command to do is proved of the words.

**The whole device.** Every step of `Lifecycle` is a step of the boot chain or
leaves it alone (`SystemIsChain`), so that `IInv`, and every theorem above, holds of
it. `SystemInv` adds what ties the engine to the chain. `StartsItsEntry`: the slot
that is started is that of an entry that is, or is being made, Valid or Pending.
`ChosenAreVerified`: every slot such an entry selects holds a verified image. It
survives a new write because a write needs a confirmed image to be running, which
without a fault is the fallback, and nothing to be in flight (`NothingChosenBut`).
`RecordIsOfRunning`: a confirmation is awaited under an activating record of the
running slot, whose contents are the record's artifact. `UpdateIsTheTasks`: the
update in progress is the one the caller asked for. `ClearedIsDecided`: when the
caller gives a record up no entry is unconfirmed; after a confirmation that is so
because the candidate's sector was the only one to be touched and the other held
the old fallback. `IdleIsSettled`: a caller with nothing to do has a record that is
Activating only if the commit that would have settled it failed, or the running target
could not be determined; `state.rs` asks that a restart in that state "find its way
back to a deterministic outcome".
With `SystemIsChain` the refinement and the fallback carry over from the boot chain
(`DeviceImplements`, `DeviceKeepsFallback`).

**The image validator.** `TableInv` says what is known after each segment: it is
padding or in its region and clear of the window, each begins where the one before
ends, within the partition, and the entry point was found in a loaded segment if
`entryOK` says so. `Covered` says that what has been summed and hashed so far is
exactly the bytes up to the current offset. `OffsetsAreExact` follows from the first:
every offset lies in the partition or a trailer behind it, and so is the one plain
arithmetic gives. The types alone would not say so, since a wrapped sum has the same
type. A refusal names a segment that has the fault, an entry point without code or a
trailer that does not fit (`RefusedForCause`), so that the bounds of `TableInv` are
not merely sufficient. `NoIdleStep`: every read ends a stage of the call, or takes something from
what the stage has left (segments to read, bytes to sum or to hash), which is finite.
A chunk of no byte, which would make `validate` loop for ever, is impossible.

**The write session.** `Inv` joins the four safety invariants, none of which is
inductive alone, with `RequestServed` (a request in progress has a session) and
`InStep` (a request that replays no tail sends the byte after the last received). `SplitFacts` is what the proofs need of a prefix and the rest of a sequence.

**The transaction.** `Inv` says at each step of the caller what the backend's trial
and the record then are: `AwaitedOnTrial` and `AwaitedAccounted` while a verdict is
awaited, `SettledHasNone` where there is no candidate, `SwitchRecorded` while
switching, `CarriedUnresolved` and `WritingUnrecorded` in between.

Not proved, only model-checked: the four liveness properties, `BootCompletes`,
`RollbackCompletes`, `Terminates` and `ActivationEnds` (in `transaction` and in
`lifecycle`), since they rest on fairness and so on `ENABLED`, which is out of the
prover's reach. Of the first three the safety half is proved (`BootBounded`,
`PendingRollsBack`, `NoIdleStep`). What a recursive computation returns for every
input (CRC, SHA-256) cannot be proved by induction with the provers at hand and is
not modelled.

## 6. What is not modelled

- CRC-32 and SHA-256 themselves. `EntryFlash` assumes that no torn word, and no CRC
  of one entry, equals a CRC computed for another, and that the commit word is never
  read from a partly programmed one; `ImageValidate` that a flipped byte changes the
  checksum or hash it is part of. The code's golden vectors check the arithmetic.
- The boot chain sees the validator as `image_ok`: the set `images`, and `good`, the
  images that pass at this boot. A misread is not told from a bad image there, as in
  the code: a boot that misreads both Valid entries marks both Invalid and halts for
  good with two good images in flash. `NoNeedlessHalt` excludes such a boot.
- A partition that ends less than a trailer (48 bytes) below the end of the address
  range: the validator's sum for the end of the image could wrap. `ReadAssumption`
  excludes it, so that `OffsetsExact` says nothing of it; flash partitions are nowhere near.
- `image.rs:7` speaks of every segment; a padding segment (load 0) or an empty one is
  accepted by `check_segment` unchecked, and is in the model. It loads nothing.
- Two updates of otadata at a time. The functions work on a snapshot that their
  caller reads and writes back; the crate has no lock, and the model has one
  application that makes one update at a time (hazard at `mod.rs:367`).
- A device without slots, for which `slot_of` would divide by zero
  (`OtadataAssumption`). A caller that asks `activate` for a slot that does not exist
  is not in the runs; `ActivateRefuses` says what it is answered.
- Records of several artifacts, which the types allow and no function builds.
- `u64` overflow of a session's counters.
- That a caller withdraws a Staged record before it writes over its target is an
  assumption of `Transaction` and `Lifecycle` the crate states nowhere: `begin` does
  not see the record. Without it `StagedIsWritten` would fail.
- That a caller stages no new image while the running one is unconfirmed, nor while
  an activated one has not been started: the spare slot is then the fallback's, or
  the candidate's. The crate names the refusal (`Error::Busy`) and leaves raising it
  to its callers; the guards of `Stage` (`BootChain`, `Lifecycle`) and of `StartWrite`
  (`Transaction`) assume it.
- `OnlyVerifiedRuns` holds as long as no image went bad or was misread. With a fault
  a write that was begun and given up can be started as trusted, from the older of
  two Valid entries: the finding `stale_valid` on the whole device.

## 7. Plan

What is left:

1. Two updates of otadata at a time, once there is a caller in the repository that
   shows how they are kept apart.
2. A write session composed byte by byte with `Lifecycle`, in the place of `Partial`.
