------------------------------ MODULE BootChain ------------------------------
(***************************************************************************)
(* The power-cut-safe A/B boot chain of src/src/boot/mod.rs in motion: a   *)
(* bootloader that plans and makes its otadata updates before it starts a  *)
(* slot, an application that activates, confirms or rejects an image, and  *)
(* a power supply that may fail inside any flash command.                  *)
(*                                                                         *)
(*   off --PowerOn--> boot --Launch--> app        PowerCut: back to off    *)
(*                         \-Launch--> halt                                *)
(*                                                                         *)
(* An update (Write) is three flash commands: erase, body, commit word.    *)
(* The bootloader and the application of the sources only return updates;  *)
(* executing them command by command is the platform's part, modelled on   *)
(* the executor and the power-cut simulator of src/src/boot/tests.rs.      *)
(***************************************************************************)
EXTENDS Otadata

CONSTANTS MaxFaults    \* bound on images that go bad and on checks that fail on a good one

ASSUME BootChainAssumption == MaxFaults \in Nat

VARIABLES
    flash,      \* what each otadata sector reads as
    images,     \* the slots whose image is bootable
    phase,      \* "off", "boot", "app" or "halt"
    boot,       \* the slot and entry being started or run
    queue,      \* the updates still to make, in order
    step,       \* flash commands already done of the first of them
    faults      \* images that went bad by themselves, and boots that misread one

\* History variables: they record what happened, no action's guard reads them.
VARIABLES
    lastValid,  \* sequence number of the entry last committed as Valid; 0 if none
    proven,     \* sequence numbers of the seed and of images that passed a self-check
    tried,      \* sequence numbers launched as candidates
    vetted      \* slots whose present image is the factory's or passed a self-check

device == <<flash, images, phase, boot, queue, step, faults>>
history == <<lastValid, proven, tried, vetted>>
vars == <<flash, images, phase, boot, queue, step, faults,
          lastValid, proven, tried, vetted>>

NoBoot == BootHalt("none")
Boots == [kind : {"slot"}, slot : Slots, sector : Sectors, seq : 1 .. SeqMax - 1]
         \cup {NoBoot} \cup {BootHalt(why) : why \in HaltKinds}

TypeOK ==
    /\ flash \in [Sectors -> Cells]
    /\ images \in SUBSET Slots
    /\ phase \in {"off", "boot", "app", "halt"}
    /\ boot \in Boots
    /\ phase = "app" => boot.kind = "slot"
    /\ queue \in Seq(Writes)
    /\ step \in 0 .. 2
    /\ faults \in 0 .. MaxFaults
    /\ lastValid \in 0 .. SeqMax - 1
    /\ proven \in SUBSET (1 .. SeqMax)
    /\ tried \in SUBSET (1 .. SeqMax)
    /\ vetted \in SUBSET Slots

\* A device leaves the factory with erased or foreign (ESP-IDF) otadata.
Init ==
    /\ flash \in [Sectors -> {Blank, Corrupt}]
    /\ images \in SUBSET Slots
    /\ phase = "off"
    /\ boot = NoBoot
    /\ queue = << >>
    /\ step = 0
    /\ faults = 0
    /\ lastValid = 0
    /\ proven = {1}
    /\ tried = {}
    /\ vetted = {0}

-------------------------------------------------------------------------------
(***************************************************************************)
(* Flash commands.                                                         *)
(***************************************************************************)

\* The sector of the update in progress now reads as c; only the commit
\* command, k = 2, can have made a new entry acceptable.
Reads(k, w, c) ==
    /\ flash' = [flash EXCEPT ![w.sector] = c]
    /\ lastValid' = IF k = 2 /\ Valid(c) THEN c.seq ELSE lastValid

\* Mutant: an update is never taken off the queue.
FlashCommandNeverDone ==
    /\ queue # << >>
    /\ Reads(step, Head(queue), AfterCommand(step, Head(queue)))
    /\ step' = (step + 1) % 3
    /\ UNCHANGED <<images, phase, boot, queue, faults, proven, tried, vetted>>

FlashCommand ==
    /\ queue # << >>
    /\ Reads(step, Head(queue), AfterCommand(step, Head(queue)))
    /\ step' = (step + 1) % 3
    /\ queue' = IF step = 2 THEN Tail(queue) ELSE queue
    /\ UNCHANGED <<images, phase, boot, faults, proven, tried, vetted>>

\* The command in progress, if there is one, is cut; the updates are dropped.
Interrupted ==
    /\ queue' = << >>
    /\ step' = 0
    /\ IF queue = << >>
       THEN UNCHANGED <<flash, lastValid>>
       ELSE \E c \in AfterCut(step, Head(queue), flash[Head(queue).sector]) :
                Reads(step, Head(queue), c)

-------------------------------------------------------------------------------
(***************************************************************************)
(* The bootloader.                                                         *)
(***************************************************************************)
\* The images in good pass their check at this boot.  A check may fail on a good
\* image (ImageError::Read): image_ok answers the same for both.
PowerOn(good) ==
    /\ phase = "off"
    /\ good # images => faults < MaxFaults
    /\ phase' = "boot"
    /\ boot' = PlanBoot(flash, good).boot
    /\ queue' = PlanBoot(flash, good).writes
    /\ faults' = IF good = images THEN faults ELSE faults + 1
    /\ UNCHANGED <<flash, images, step, history>>

Boot == \E good \in SUBSET images : PowerOn(good)

Launch ==
    /\ phase = "boot"
    /\ queue = << >>
    /\ phase' = IF boot.kind = "slot" THEN "app" ELSE "halt"
    /\ tried' = IF boot.kind = "slot" /\ ~Valid(flash[boot.sector])
                THEN tried \cup {boot.seq} ELSE tried
    /\ UNCHANGED <<flash, images, boot, queue, step, faults, lastValid, proven, vetted>>

-------------------------------------------------------------------------------
(***************************************************************************)
(* The application: one update at a time.                                  *)
(***************************************************************************)
Idle == phase = "app" /\ queue = << >>

\* Mutant: a write is not refused while an activation is in flight.
StageNotBusy(slot) ==
    /\ Idle
    /\ slot # boot.slot
    /\ flash[boot.sector] = Entry(boot.seq, "valid")
    /\ \/ images' = images \cup {slot}
       \/ images' = images \ {slot}
    /\ vetted' = vetted \ {slot}
    /\ UNCHANGED <<flash, phase, boot, queue, step, faults, lastValid, proven, tried>>

\* A new image is written, over any part of a slot other than the one running.
\* While an activation is in flight the engine's callers refuse a new write
\* (Error::Busy): the running image is confirmed and nothing is activated.
Stage(slot) ==
    /\ Idle
    /\ slot # boot.slot
    /\ flash[boot.sector] = Entry(boot.seq, "valid")
    /\ ~Unproven(flash[Other(boot.sector)])
    /\ \/ images' = images \cup {slot}
       \/ images' = images \ {slot}
    /\ vetted' = vetted \ {slot}
    /\ UNCHANGED <<flash, phase, boot, queue, step, faults, lastValid, proven, tried>>

\* activate: the sequence number now names a candidate that has never run.
Activate(target) ==
    /\ Idle
    /\ ActivateResult(flash, target) = "ok"
    /\ queue' = << ActivateWrite(flash, target) >>
    /\ proven' = proven \ {ActivateSeq(flash, target)}
    /\ tried' = tried \ {ActivateSeq(flash, target)}
    /\ UNCHANGED <<flash, images, phase, boot, step, faults, lastValid, vetted>>

\* confirm: called once the running image has passed its self-check.
Confirm ==
    /\ Idle
    /\ PendingSectors(flash) # {}
    /\ queue' = << ConfirmWrite(flash) >>
    /\ proven' = proven \cup {boot.seq}
    /\ vetted' = vetted \cup {boot.slot}
    /\ UNCHANGED <<flash, images, phase, boot, step, faults, lastValid, tried>>

Reject ==
    /\ Idle
    /\ PendingSectors(flash) # {}
    /\ queue' = << RejectWrite(flash) >>
    /\ UNCHANGED <<flash, images, phase, boot, step, faults, history>>

\* A flash command of the application fails: it gives the update up and goes on.
WriteFails ==
    /\ phase = "app"
    /\ queue # << >>
    /\ Interrupted
    /\ UNCHANGED <<images, phase, boot, faults, proven, tried, vetted>>

-------------------------------------------------------------------------------
(***************************************************************************)
(* The environment.                                                        *)
(***************************************************************************)
PowerCut ==
    /\ phase # "off"
    /\ Interrupted
    /\ phase' = "off"
    /\ boot' = NoBoot
    /\ UNCHANGED <<images, faults, proven, tried, vetted>>

\* The running image resets the chip with no update in progress.
Reset ==
    /\ Idle
    /\ phase' = "off"
    /\ boot' = NoBoot
    /\ UNCHANGED <<flash, images, queue, step, faults, history>>

\* An image that was bootable no longer is.
Rot(slot) ==
    /\ phase = "off"
    /\ faults < MaxFaults
    /\ slot \in images
    /\ images' = images \ {slot}
    /\ faults' = faults + 1
    /\ UNCHANGED <<flash, phase, boot, queue, step, history>>

Next ==
    \/ Boot
    \/ FlashCommand
    \/ Launch
    \/ \E slot \in Slots : Stage(slot)
    \/ \E target \in Slots : Activate(target)
    \/ Confirm
    \/ Reject
    \/ WriteFails
    \/ PowerCut
    \/ Reset
    \/ \E slot \in Slots : Rot(slot)

Spec == Init /\ [][Next]_vars

-------------------------------------------------------------------------------
(***************************************************************************)
(* Safety.                                                                 *)
(***************************************************************************)

\* The entry last committed as Valid survives whatever is interrupted, and it
\* still selects a bootable image that is the factory's or passed a self-check
\* (mod.rs: "the fallback image stays selectable through any interruption"),
\* unless an image went bad or was misread.
LastConfirmedKept ==
    lastValid # 0 /\ faults = 0 =>
        \E s \in Sectors : /\ flash[s] = Entry(lastValid, "valid")
                           /\ SlotOf(lastValid) \in images \cap vetted

\* No entry reads Valid unless it is the first-boot seed or the image that ran
\* under that very entry passed its self-check: an interrupted update, or a
\* confirm made by another image than the pending one, never forges trust.
EarnedTrust ==
    \A s \in Sectors : Valid(flash[s]) => flash[s].seq \in proven

\* There is never more than one image that is not yet confirmed, and it never
\* is without a Valid entry in the other sector to fall back to.
OneCandidate ==
    \A s \in Sectors :
        Unproven(flash[s]) \/ Pending(flash[s]) => Valid(flash[Other(s)])

\* Two accepted entries never have the same sequence number, so the highest one
\* is never a tie broken by sector order.
DistinctSeqs ==
    IsEntry(flash[0]) /\ IsEntry(flash[1]) => flash[0].seq # flash[1].seq

\* Without a misread the bootloader decides to halt only when no Valid entry it
\* found selects a bootable image and it is not a first boot with a bootable slot 0.
NoNeedlessHalt ==
    [][phase = "off" /\ boot'.kind \in HaltKinds /\ faults' = faults =>
          /\ \A s \in ValidSectors(flash) : SlotOf(flash[s].seq) \notin images
          /\ FirstBoot(flash) => 0 \notin images]_vars

Launching == phase = "boot" /\ phase' = "app"

\* A candidate is started at most once before it is confirmed, however often
\* the power fails around its marking.
OneTrial ==
    [][Launching /\ ~Valid(flash[boot.sector]) => boot.seq \notin tried]_vars

\* An image started without a trial, on the strength of a Valid entry, is the
\* factory's or has passed a self-check: an image that never ran is always
\* started as a Pending candidate first (mod.rs: "Only Valid is trusted").
TrustedImageVetted ==
    [][Launching /\ Valid(flash[boot.sector]) => boot.slot \in vetted]_vars

\* The first-boot seed is only ever planned on a device whose otadata never
\* held a Valid entry.
NeverReseeds ==
    [][phase = "off" /\ queue' = << Write(0, 1, "valid") >> => lastValid = 0]_vars

\* An entry handed to the flash is one that decode accepts once committed:
\* what activate returns as Ok can become the next boot.
ActivatedEntryAccepted ==
    \A i \in DOMAIN queue : Decode(queue[i].entry) = queue[i].entry

-------------------------------------------------------------------------------
(***************************************************************************)
(* Liveness.  The bootloader runs alone and to completion between cuts.    *)
(***************************************************************************)
FairSpec ==
    /\ Spec
    /\ WF_vars(Boot)
    /\ WF_vars(Launch)
    /\ WF_vars(phase = "boot" /\ FlashCommand)

PowerSettles == <>[][~PowerCut]_vars

\* Once the power stops failing, every boot ends in a running image or a halt.
BootCompletes ==
    PowerSettles => (phase \in {"off", "boot"} ~> phase \in {"app", "halt"})

\* Once the power stops failing, a reset of an unconfirmed image leads back to
\* the image last confirmed, if no image went bad or is misread.
RollbackCompletes ==
    PowerSettles =>
        \A s \in Sectors :
            phase = "off" /\ Pending(flash[s]) /\ faults = 0
                ~> \/ phase = "app" /\ flash[boot.sector] = Entry(lastValid, "valid")
                   \/ faults # 0
===============================================================================
