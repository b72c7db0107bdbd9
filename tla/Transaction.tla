----------------------------- MODULE Transaction ------------------------------
(***************************************************************************)
(* The staged-transaction record (src/src/transaction.rs, state.rs) and    *)
(* what it has to survive: the engine commits it to a metadata store, the  *)
(* backend (a boot chain, seen here as TrialUpdate.tla sees it) switches   *)
(* and confirms images, and a restart between any two of these steps       *)
(* leaves the two to be reconciled at the next boot.                       *)
(*                                                                         *)
(* The caller is the one the documentation describes: it stages what has   *)
(* been written and verified, activates in the order of activate's doc     *)
(* comment, runs reconcile at every boot and does what it answers.  One    *)
(* thing it does is not documented, and needed: it withdraws a staged      *)
(* record before it writes over the target the record names.               *)
(***************************************************************************)
EXTENDS FiniteSets, TransactionRecord

Targets == {"ota_0", "ota_1"}
NoTarget == "no target"

VARIABLES
    record,     \* what TransactionMetadata.load returns
    trusted,    \* the target of the image the backend trusts
    candidate,  \* the target it has been switched to, or NoTarget
    trial,      \* "none", "offered" or, once started, "pending"
    running,    \* the target of the running image, NoTarget while off
    pc,         \* what the caller does next
    contents    \* what is in each target

\* History variables: the running target could not be determined at this boot;
\* a commit failed or was not made since the last boot.
VARIABLES blind, uncommitted

backend == <<trusted, candidate, trial>>
vars == <<record, trusted, candidate, trial, running, pc, contents, blind, uncommitted>>

Records == RecordsNaming(Targets)
Steps == Actions \cup {"off", "booted", "idle", "writing", "switching", "reverting",
                       "switched", "confirmed", "rejected"}

TypeOK ==
    /\ record \in Records \cup {NoRecord}
    /\ trusted \in Targets
    /\ candidate \in Targets \cup {NoTarget}
    /\ trial \in {"none", "offered", "pending"}
    /\ running \in Targets \cup {NoTarget}
    /\ pc \in Steps
    /\ contents \in [Targets -> Ids \cup {Factory, Partial}]
    /\ blind \in BOOLEAN /\ uncommitted \in BOOLEAN

\* The factory image, and possibly a record with no artifact in it, which the
\* type allows and staged() never builds.
Init ==
    /\ record \in {NoRecord} \cup {Record(id, "Staged", {}) : id \in Ids}
    /\ trusted = "ota_0"
    /\ candidate = NoTarget
    /\ trial = "none"
    /\ running = NoTarget
    /\ pc = "off"
    /\ contents = [t \in Targets |-> IF t = "ota_0" THEN Factory ELSE Partial]
    /\ blind = FALSE
    /\ uncommitted = FALSE

-------------------------------------------------------------------------------
\* What the backend reports of a running image, and whether the record names
\* it; either may be out of the caller's reach.
Outcomes == IF trial = "pending" THEN {"PendingConfirmation"} ELSE {"Confirmed", "Other"}
Sameness == {"unknown", IF running \in record.artifacts THEN "yes" ELSE "no"}

\* TransactionMetadata.commit publishes its argument or, failing, changes nothing.
Commit(r) ==
    \/ record' = r /\ UNCHANGED uncommitted
    \/ record' = record /\ uncommitted' = TRUE

-------------------------------------------------------------------------------
(***************************************************************************)
(* Boot: a candidate is tried once; one that did not confirm is dropped.   *)
(***************************************************************************)
Boot ==
    /\ pc = "off"
    /\ pc' = "booted"
    /\ IF trial = "offered"
       THEN running' = candidate /\ trial' = "pending" /\ UNCHANGED candidate
       ELSE running' = trusted /\ trial' = "none" /\ candidate' = NoTarget
    /\ blind' = FALSE
    /\ uncommitted' = FALSE
    /\ UNCHANGED <<record, trusted, contents>>

OnBoot ==
    /\ pc = "booted"
    /\ \E outcome \in Outcomes, same \in Sameness :
         /\ pc' = Reconcile(record.state, outcome, same)
         /\ blind' = (same = "unknown")
    /\ UNCHANGED <<record, backend, running, contents, uncommitted>>

\* Nothing to do, and a staged record is left as it is.
Carry ==
    /\ pc \in {"Nothing", "KeepStaged"}
    /\ pc' = "idle"
    /\ UNCHANGED <<record, backend, running, contents, blind, uncommitted>>

\* The self-check passes and the backend confirms, durably; then finish.
SelfCheckPasses ==
    /\ pc = "AwaitConfirmation"
    /\ trusted' = candidate
    /\ candidate' = NoTarget
    /\ trial' = "none"
    /\ pc' = "confirmed"
    /\ UNCHANGED <<record, running, contents, blind, uncommitted>>

\* It fails, or the candidate is not ours: the backend rejects it.
RejectCandidate ==
    /\ pc \in {"AwaitConfirmation", "RollbackUnaccounted"}
    /\ candidate' = NoTarget
    /\ trial' = "none"
    /\ pc' = "rejected"
    /\ UNCHANGED <<record, trusted, running, contents, blind, uncommitted>>

\* finish and clear_stale.
Clear ==
    /\ pc \in {"confirmed", "FinishInterruptedActivation", "ClearStale"}
    /\ Commit(NoRecord)
    /\ pc' = "idle"
    /\ UNCHANGED <<backend, running, contents, blind>>

-------------------------------------------------------------------------------
(***************************************************************************)
(* Staging.  A write is refused while an activation is in flight (Busy).   *)
(***************************************************************************)
Spare == CHOOSE t \in Targets : t # running

Withdraw ==
    /\ pc = "idle"
    /\ record.state = "Staged"
    /\ Commit(NoRecord)
    /\ UNCHANGED <<backend, running, pc, contents, blind>>

StartWrite ==
    /\ pc = "idle"
    /\ record = NoRecord
    /\ contents' = [contents EXCEPT ![Spare] = Partial]
    /\ pc' = "writing"
    /\ UNCHANGED <<record, backend, running, blind, uncommitted>>

\* Mutant: the record is built before the write session has committed.
FinishWriteUnverified(id) ==
    /\ pc = "writing"
    /\ Commit(Record(id, "Staged", {Spare}))
    /\ pc' = "idle"
    /\ UNCHANGED <<backend, running, contents, blind>>

\* The write session committed, and the record is built by staged(); or it is abandoned.
FinishWrite(id) ==
    /\ pc = "writing"
    /\ contents' = [contents EXCEPT ![Spare] = id]
    /\ Commit(Record(id, "Staged", {Spare}))
    /\ pc' = "idle"
    /\ UNCHANGED <<backend, running, blind>>

AbandonWrite ==
    /\ pc = "writing"
    /\ pc' = "idle"
    /\ UNCHANGED <<record, backend, running, contents, blind, uncommitted>>

-------------------------------------------------------------------------------
(***************************************************************************)
(* Activation: the intent is committed, then the backend is switched.      *)
(***************************************************************************)
Activate(expected) ==
    /\ pc = "idle"
    /\ Intent(record, expected) = "ok"
    /\ \/ /\ record' = [record EXCEPT !.state = "Activating"]
          /\ pc' = "switching"
          /\ UNCHANGED uncommitted
       \/ /\ UNCHANGED <<record, pc>>
          /\ uncommitted' = TRUE
    /\ UNCHANGED <<backend, running, contents, blind>>

\* The backend does it, or fails; it may have done it and report a failure.
Switch ==
    /\ pc = "switching"
    /\ \/ pc' = "switched" /\ candidate' \in record.artifacts /\ trial' = "offered"
       \/ pc' = "reverting" /\ candidate' \in record.artifacts /\ trial' = "offered"
       \/ pc' = "reverting" /\ UNCHANGED <<candidate, trial>>
    /\ UNCHANGED <<record, trusted, running, contents, blind, uncommitted>>

\* The caller's best effort to make a retry possible.
Revert ==
    /\ pc = "reverting"
    /\ Commit([record EXCEPT !.state = "Staged"])
    /\ pc' = "idle"
    /\ UNCHANGED <<backend, running, contents, blind>>

\* Something else than this engine points the backend at the spare slot.
ForeignSwitch ==
    /\ pc = "idle"
    /\ trial = "none"
    /\ candidate' = Spare
    /\ trial' = "offered"
    /\ UNCHANGED <<record, trusted, running, pc, contents, blind, uncommitted>>

\* A reset, asked for or not, between any two steps.
Restart ==
    /\ pc # "off"
    /\ pc' = "off"
    /\ running' = NoTarget
    /\ UNCHANGED <<record, backend, contents, blind, uncommitted>>

Next ==
    \/ Boot
    \/ OnBoot
    \/ Carry
    \/ SelfCheckPasses
    \/ RejectCandidate
    \/ Clear
    \/ Withdraw
    \/ StartWrite
    \/ \E id \in Ids : FinishWrite(id)
    \/ AbandonWrite
    \/ \E expected \in Ids : Activate(expected)
    \/ Switch
    \/ Revert
    \/ ForeignSwitch
    \/ Restart

Spec == Init /\ [][Next]_vars

-------------------------------------------------------------------------------
\* Every artifact a record names is written and digest-verified (state.rs), also
\* after any interruption: the target holds that transaction's image.
StagedIsWritten ==
    \A t \in record.artifacts : contents[t] = record.id

\* Unless the running target could not be determined, an image becomes trusted
\* only under an Activating record that names its target.
ConfirmedIsAccounted ==
    [][trusted' # trusted /\ ~blind =>
          record.state = "Activating" /\ trusted' \in record.artifacts]_vars

\* A confirmation is only awaited for a candidate "this engine's own staged
\* transaction accounts for" (state.rs, AwaitConfirmation): one that an
\* Activating record names.
AwaitedIsOurs ==
    pc = "AwaitConfirmation" => record.state = "Activating" /\ candidate \in record.artifacts

\* An Activating record is only given up once its fate is decided: never while the
\* backend holds an undecided candidate that the record names. (One that was
\* reverted to Staged, after a switch that was reported as failed, may be withdrawn
\* although the switch was made; the next boot rolls that candidate back.)
LiveCandidateNotForgotten ==
    [][record' = NoRecord /\ record.state = "Activating" =>
          ~(trial # "none" /\ candidate \in record.artifacts)]_vars

\* The backend's candidate is rejected as unaccounted only if the record is not
\* Activating for it: the activation was never recorded, or the caller took the
\* switch for failed and reverted the record to Staged.
SwitchedNotUnaccounted ==
    [][pc = "booted" /\ pc' = "RollbackUnaccounted" =>
          ~(record.state = "Activating" /\ candidate \in record.artifacts)]_vars

\* A caller that has nothing left to do has no record that is Activating, unless a
\* commit of the record failed since the boot or the running target was unknown.
ActivatingResolved ==
    pc = "idle" /\ record.state = "Activating" => uncommitted \/ blind

-------------------------------------------------------------------------------
(***************************************************************************)
(* Liveness.  The caller goes on to its next step, asks for the resets it  *)
(* owes (after a switch, after a rejection) and runs the self-check to a   *)
(* verdict.                                                                *)
(***************************************************************************)
OwedReset == pc \in {"switched", "rejected"} /\ Restart

FairSpec ==
    /\ Spec
    /\ WF_vars(Boot)
    /\ WF_vars(OnBoot)
    /\ WF_vars(Carry)
    /\ WF_vars(SelfCheckPasses \/ RejectCandidate)
    /\ WF_vars(Clear)
    /\ WF_vars(Switch)
    /\ WF_vars(Revert)
    /\ WF_vars(OwedReset)

\* From some point on no reset comes unasked, no commit fails and the running
\* target is known.
Settles ==
    /\ <>[][Restart => pc \in {"switched", "rejected"}]_vars
    /\ <>[](~uncommitted /\ ~blind)

\* "A restart here must find its way back to a deterministic outcome" (state.rs,
\* Activating): an activation, wherever it was interrupted, is resolved.
ActivationEnds ==
    Settles => (record.state = "Activating" ~> record.state # "Activating")
===============================================================================
