------------------------------ MODULE Lifecycle -------------------------------
(***************************************************************************)
(* One device, whole: the engine's transaction (src/src/transaction.rs) on *)
(* the boot chain (src/src/boot/mod.rs), flash command by flash command.   *)
(* Transaction.tla takes the backend for granted; here every switch,       *)
(* confirmation and rejection is an update of otadata that may be cut at   *)
(* any command or fail in a running application, and what the caller then  *)
(* believes has to be brought together with what the flash says.           *)
(*                                                                         *)
(* Each action is an action of BootChain and what the engine and its       *)
(* caller do with it.  Targets are slots; the caller is Transaction's: it  *)
(* records before it switches, confirms before it finishes, reconciles at  *)
(* every boot and tries a failed update again as long as otadata still has *)
(* something to confirm or reject.                                         *)
(***************************************************************************)
EXTENDS BootChain, TransactionRecord

VARIABLES
    record,     \* what TransactionMetadata.load returns
    contents,   \* what was written to each slot: an artifact, whole, or Partial
    task        \* what the caller does next

\* History variables: the running target could not be determined at this boot;
\* a commit of the record failed since the last boot.
VARIABLES blind, uncommitted

engine == <<record, contents, task, blind, uncommitted>>
system == <<vars, engine>>

Tasks == Actions \cup {"none", "booted", "idle", "writing", "switching", "reverting",
                       "confirming", "confirmed", "rejecting", "reset"}

SystemTypeOK ==
    /\ TypeOK
    /\ record \in RecordsNaming(Slots) \cup {NoRecord}
    /\ contents \in [Slots -> Ids \cup {Factory, Partial}]
    /\ task \in Tasks
    /\ phase = "app" <=> task # "none"
    /\ phase = "app" /\ queue # << >> => task \in {"switching", "confirming", "rejecting"}
    /\ blind \in BOOLEAN /\ uncommitted \in BOOLEAN

\* From the factory, with the factory's image in slot 0.
SystemInit ==
    /\ Init /\ images = {0}
    /\ record = NoRecord
    /\ contents = [s \in Slots |-> IF s = 0 THEN Factory ELSE Partial]
    /\ task = "none"
    /\ blind = FALSE
    /\ uncommitted = FALSE

Commit(r) ==
    \/ record' = r /\ UNCHANGED uncommitted
    \/ record' = record /\ uncommitted' = TRUE

-------------------------------------------------------------------------------
(***************************************************************************)
(* Boot and reconciliation.                                                *)
(***************************************************************************)
Bootloader ==
    /\ Boot \/ (phase = "boot" /\ FlashCommand)
    /\ UNCHANGED engine

Start ==
    /\ Launch
    /\ task' = IF phase' = "app" THEN "booted" ELSE "none"
    /\ blind' = FALSE
    /\ uncommitted' = FALSE
    /\ UNCHANGED <<record, contents>>

\* A backend on this chain reports of a running image what its entry says.
Outcome == IF Pending(flash[boot.sector]) THEN "PendingConfirmation" ELSE "Confirmed"
Sameness == {"unknown", IF boot.slot \in record.artifacts THEN "yes" ELSE "no"}

OnBoot ==
    /\ task = "booted"
    /\ \E same \in Sameness :
         /\ task' = Reconcile(record.state, Outcome, same)
         /\ blind' = (same = "unknown")
    /\ UNCHANGED <<vars, record, contents, uncommitted>>

Carry ==
    /\ task \in {"Nothing", "KeepStaged"}
    /\ task' = "idle"
    /\ UNCHANGED <<vars, record, contents, blind, uncommitted>>

\* Mutant: the confirmation is taken for durable when it is asked for.
SelfCheckPassesAtOnce ==
    /\ task = "AwaitConfirmation"
    /\ Confirm
    /\ task' = "confirmed"
    /\ UNCHANGED <<record, contents, blind, uncommitted>>

SelfCheckPasses ==
    /\ task = "AwaitConfirmation"
    /\ Confirm
    /\ task' = "confirming"
    /\ UNCHANGED <<record, contents, blind, uncommitted>>

RejectCandidate ==
    /\ task \in {"AwaitConfirmation", "RollbackUnaccounted"}
    /\ Reject
    /\ task' = "rejecting"
    /\ UNCHANGED <<record, contents, blind, uncommitted>>

\* An update that failed has left nothing to confirm or reject: the next boot
\* will tell what it did.
NothingPending ==
    /\ task \in {"AwaitConfirmation", "RollbackUnaccounted"}
    /\ Idle
    /\ PendingSectors(flash) = {}
    /\ task' = "reset"
    /\ UNCHANGED <<vars, record, contents, blind, uncommitted>>

Clear ==
    /\ task \in {"confirmed", "FinishInterruptedActivation", "ClearStale"}
    /\ Commit(NoRecord)
    /\ task' = "idle"
    /\ UNCHANGED <<vars, contents, blind>>

-------------------------------------------------------------------------------
(***************************************************************************)
(* Staging.  What a session has verified may still not be bootable.        *)
(***************************************************************************)
Spare == (boot.slot + 1) % SlotCount

Withdraw ==
    /\ task = "idle"
    /\ record.state = "Staged"
    /\ Commit(NoRecord)
    /\ UNCHANGED <<vars, contents, task, blind>>

\* Mutant: a record that is still staged is not withdrawn first.
StartWriteOverRecord ==
    /\ task = "idle"
    /\ Stage(Spare)
    /\ contents' = [contents EXCEPT ![Spare] = Partial]
    /\ task' = "writing"
    /\ UNCHANGED <<record, blind, uncommitted>>

StartWrite ==
    /\ task = "idle"
    /\ record = NoRecord
    /\ Stage(Spare)
    /\ contents' = [contents EXCEPT ![Spare] = Partial]
    /\ task' = "writing"
    /\ UNCHANGED <<record, blind, uncommitted>>

FinishWrite(id) ==
    /\ task = "writing"
    /\ Stage(Spare)
    /\ contents' = [contents EXCEPT ![Spare] = id]
    /\ Commit(Record(id, "Staged", {Spare}))
    /\ task' = "idle"
    /\ UNCHANGED blind

AbandonWrite ==
    /\ task = "writing"
    /\ task' = "idle"
    /\ UNCHANGED <<vars, record, contents, blind, uncommitted>>

-------------------------------------------------------------------------------
(***************************************************************************)
(* Activation: the intent, then the update.                                *)
(***************************************************************************)
RecordIntent(expected) ==
    /\ task = "idle"
    /\ Intent(record, expected) = "ok"
    /\ \/ /\ record' = [record EXCEPT !.state = "Activating"]
          /\ task' = "switching"
          /\ UNCHANGED uncommitted
       \/ /\ UNCHANGED <<record, task>>
          /\ uncommitted' = TRUE
    /\ UNCHANGED <<vars, contents, blind>>

Switch ==
    /\ task = "switching"
    /\ \E target \in record.artifacts : Activate(target)
    /\ UNCHANGED engine

\* The boot chain refuses: no Valid entry, or no sequence number left.
SwitchRefused ==
    /\ task = "switching"
    /\ Idle
    /\ \A target \in record.artifacts : ActivateResult(flash, target) # "ok"
    /\ task' = "reverting"
    /\ UNCHANGED <<vars, record, contents, blind, uncommitted>>

Revert ==
    /\ task = "reverting"
    /\ Commit([record EXCEPT !.state = "Staged"])
    /\ task' = "idle"
    /\ UNCHANGED <<vars, contents, blind>>

-------------------------------------------------------------------------------
(***************************************************************************)
(* Updates of the running application, and resets.                         *)
(***************************************************************************)
UpdateStep ==
    /\ phase = "app"
    /\ FlashCommand
    /\ task' = IF queue' # << >> THEN task
               ELSE IF task = "confirming" THEN "confirmed"
               ELSE "reset"
    /\ UNCHANGED <<record, contents, blind, uncommitted>>

\* The update may have been made all the same.
UpdateFails ==
    /\ WriteFails
    /\ task' = CASE task = "switching"  -> "reverting"
                 [] task = "confirming" -> "AwaitConfirmation"
                 [] task = "rejecting"  -> "RollbackUnaccounted"
    /\ UNCHANGED <<record, contents, blind, uncommitted>>

Restart ==
    /\ Reset
    /\ task' = "none"
    /\ UNCHANGED <<record, contents, blind, uncommitted>>

Cut ==
    /\ PowerCut
    /\ task' = "none"
    /\ UNCHANGED <<record, contents, blind, uncommitted>>

\* An image goes bad while the device is off.
Decay ==
    /\ \E slot \in Slots : Rot(slot)
    /\ UNCHANGED engine

SystemNext ==
    \/ Bootloader
    \/ Start
    \/ OnBoot
    \/ Carry
    \/ SelfCheckPasses
    \/ RejectCandidate
    \/ NothingPending
    \/ Clear
    \/ Withdraw
    \/ StartWrite
    \/ \E id \in Ids : FinishWrite(id)
    \/ AbandonWrite
    \/ \E expected \in Ids : RecordIntent(expected)
    \/ Switch
    \/ SwitchRefused
    \/ Revert
    \/ UpdateStep
    \/ UpdateFails
    \/ Restart
    \/ Cut
    \/ Decay

SystemSpec == SystemInit /\ [][SystemNext]_system

-------------------------------------------------------------------------------
\* No image is ever started, as a candidate or as a fallback, unless it is the
\* factory's or a write session has verified all of it: no write in progress,
\* interrupted or abandoned is under an entry that can be chosen, unless an image
\* went bad or was misread.
OnlyVerifiedRuns ==
    [][Launching /\ faults = 0 => contents[boot.slot] # Partial]_system

\* The chain and the record agree on what is trusted: an entry the application
\* makes Valid, also by a command that was cut or reported as failed, is that of
\* an image an Activating record names and that is the artifact of that
\* transaction; unless the running target could not be determined.
ConfirmedIsAccounted ==
    [][phase = "app" /\ lastValid' # lastValid /\ ~blind =>
          /\ record.state = "Activating"
          /\ SlotOf(lastValid') \in record.artifacts
          /\ contents[SlotOf(lastValid')] = record.id]_system

\* A record whose activation began is given up only once otadata has decided:
\* no entry that may still be started or confirmed selects a slot it names.
LiveCandidateNotForgotten ==
    [][record.state = "Activating" /\ record' = NoRecord =>
          \A s \in Sectors : Unproven(flash[s]) \/ Pending(flash[s]) =>
              SlotOf(flash[s].seq) \notin record.artifacts]_system

-------------------------------------------------------------------------------
(***************************************************************************)
(* Liveness.  Bootloader, reconciliation and caller are one process: what  *)
(* comes next is done.  Nobody owes a write or an activation.              *)
(***************************************************************************)
Verdict == SelfCheckPasses \/ RejectCandidate \/ NothingPending
OwedReset == task = "reset" /\ Restart
Proceed ==
    \/ Bootloader \/ Start
    \/ OnBoot \/ Carry \/ Verdict \/ Clear
    \/ Switch \/ SwitchRefused \/ Revert
    \/ UpdateStep \/ OwedReset

SystemFairSpec == SystemSpec /\ WF_system(Proceed)

\* From some point on the power lasts, no reset comes unasked, no update and no
\* commit fails and the running target is known.
Settles ==
    /\ <>[][~PowerCut /\ ~WriteFails /\ (Reset => task = "reset")]_system
    /\ <>[](~uncommitted /\ ~blind)

\* "A restart here must find its way back to a deterministic outcome" (state.rs,
\* Activating), through every command of every update it may interrupt, unless
\* no image is left to start.
ActivationEnds ==
    Settles => (record.state = "Activating" ~> record.state # "Activating" \/ phase = "halt")
===============================================================================
