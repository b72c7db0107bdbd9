-------------------------- MODULE LifecycleInvariant --------------------------
(***************************************************************************)
(* The inductive invariant behind the safety of the whole device: what the *)
(* record, the contents of the slots and the caller's next step say of the *)
(* otadata.  LifecycleProofs.tla proves it; it is model-checked as well.   *)
(***************************************************************************)
EXTENDS Lifecycle, BootChainInvariant

\* What is started is what an entry selects; that entry is, or is being made,
\* one that may run: Valid, or Pending.
Runnable(seq) == {Entry(seq, "pending"), Entry(seq, "valid")}
StartsItsEntry ==
    boot.kind = "slot" =>
        /\ boot.slot = SlotOf(boot.seq)
        /\ phase = "boot" =>
             \/ /\ flash[boot.sector] \in Runnable(boot.seq)
                /\ \A i \in DOMAIN queue : queue[i].sector # boot.sector
             \/ \E i \in DOMAIN queue : /\ queue[i].sector = boot.sector
                                        /\ queue[i].entry \in Runnable(boot.seq)

\* Every slot that can be chosen holds a verified image: the fallback's, and those
\* of entries that are unconfirmed or on their way to the flash.
LastSlot == IF lastValid = 0 THEN 0 ELSE SlotOf(lastValid)
ChosenAreVerified ==
    faults = 0 =>
        /\ contents[LastSlot] # Partial
        /\ \A s \in Sectors : InTrial(flash[s]) => contents[SlotOf(flash[s].seq)] # Partial
        /\ \A i \in DOMAIN queue :
             queue[i].entry.state \in {"new", "pending", "valid"} =>
                 contents[SlotOf(queue[i].entry.seq)] # Partial

\* A record names slots that hold its artifact: none is there while one is
\* written, and an activating one while the caller switches.  The caller waits for
\* a confirmation only under an activating record of what runs, unless it could not
\* tell what runs.
RecordIsOfRunning ==
    /\ \A slot \in record.artifacts : contents[slot] = record.id
    /\ task = "writing" => record = NoRecord
    /\ task \in {"switching", "reverting"} => record.state = "Activating"
    /\ task \in {"AwaitConfirmation", "confirming"} /\ ~blind =>
         record.state = "Activating" /\ boot.slot \in record.artifacts

\* The update in progress is the one the caller asked for.
UpdateIsTheTasks ==
    \A i \in DOMAIN queue :
        /\ task = "switching" => queue[i].entry.state = "new"
        /\ task = "confirming" => queue[i].entry.state = "valid"
        /\ task = "rejecting" => queue[i].entry.state = "invalid"

\* An application that has just been started runs under a Valid or Pending entry
\* and nothing is activated; once the caller gives the record up nothing is
\* unconfirmed either.
ClearedIsDecided ==
    /\ task = "booted" =>
         /\ flash[boot.sector] \in Runnable(boot.seq)
         /\ \A s \in Sectors : ~Unproven(flash[s])
    /\ task \in {"confirmed", "FinishInterruptedActivation", "ClearStale"} =>
         \A s \in Sectors : ~InTrial(flash[s])
    /\ task = "confirming" => queue # << >>

\* A caller with nothing left to do has no activation open, unless it could not tell
\* what runs or a commit of the record failed since the boot: what state.rs asks of
\* Activating, "a restart here must find its way back to a deterministic outcome".
IdleIsSettled ==
    /\ task = "Nothing" => record.state = "none" \/ blind
    /\ task = "KeepStaged" => record.state = "Staged"
    /\ task = "idle" /\ record.state = "Activating" => uncommitted \/ blind

SystemInv ==
    /\ SystemTypeOK
    /\ StartsItsEntry
    /\ ChosenAreVerified
    /\ RecordIsOfRunning
    /\ UpdateIsTheTasks
    /\ ClearedIsDecided
    /\ IdleIsSettled
===============================================================================
