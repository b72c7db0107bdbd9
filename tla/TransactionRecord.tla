-------------------------- MODULE TransactionRecord ---------------------------
(***************************************************************************)
(* The pure part of src/src/transaction.rs and state.rs: the record of a   *)
(* staged transaction, what activate answers to it, and the decision table *)
(* that reconciles it with the backend at a boot.  Transaction.tla puts it *)
(* in motion on a backend seen from outside, Lifecycle.tla on the boot     *)
(* chain.                                                                  *)
(***************************************************************************)

CONSTANT Ids    \* identities of transactions

States == {"Staged", "Activating"}
Record(id, state, artifacts) == [id |-> id, state |-> state, artifacts |-> artifacts]
NoRecord == Record("none", "none", {})
RecordsNaming(targets) == [id : Ids, state : States, artifacts : SUBSET targets]

Factory == "factory"
Partial == "partial"

\* What a session has verified is neither.
ASSUME IdsAssumption == Factory \notin Ids /\ Partial \notin Ids

Actions == {"Nothing", "AwaitConfirmation", "RollbackUnaccounted",
            "FinishInterruptedActivation", "ClearStale", "KeepStaged"}

(***************************************************************************)
(* reconcile: the state of the record, the backend's outcome, and whether  *)
(* what runs is what the record names.                                     *)
(***************************************************************************)
\* Mutants: a record that is only staged accounts for a candidate; so does any
\* record but the one that does; a confirmation is taken for granted.
UnconfirmedStagedToo(staged, same) ==
    IF same = "unknown" \/ same = "yes" THEN "AwaitConfirmation" ELSE "RollbackUnaccounted"
UnconfirmedWrongState(staged, same) ==
    IF same = "unknown" \/ (same = "yes" /\ staged = "Staged")
    THEN "AwaitConfirmation" ELSE "RollbackUnaccounted"
UnconfirmedFinishes(staged, same) ==
    IF same = "yes" /\ staged = "Activating" THEN "FinishInterruptedActivation"
    ELSE IF same = "unknown" THEN "AwaitConfirmation" ELSE "RollbackUnaccounted"

\* The backend runs an unconfirmed candidate.
Unconfirmed(staged, same) ==
    IF same = "unknown" \/ (same = "yes" /\ staged = "Activating")
    THEN "AwaitConfirmation" ELSE "RollbackUnaccounted"

\* Mutants: an unknown target is waited for, an aborted activation is kept.
SettledWaits(staged, outcome, same) ==
    IF same = "unknown" THEN "AwaitConfirmation"
    ELSE IF staged = "none" THEN "Nothing"
    ELSE IF same = "no" /\ staged = "Staged" THEN "KeepStaged" ELSE "ClearStale"
SettledKeeps(staged, outcome, same) ==
    IF same = "unknown" \/ staged = "none" THEN "Nothing"
    ELSE IF same = "no" THEN "KeepStaged" ELSE "ClearStale"

\* It does not.
Settled(staged, outcome, same) ==
    IF same = "unknown" \/ staged = "none" THEN "Nothing"
    ELSE IF staged = "Staged" THEN IF same = "yes" THEN "ClearStale" ELSE "KeepStaged"
    ELSE IF same = "yes" /\ outcome = "Confirmed" THEN "FinishInterruptedActivation"
    ELSE "ClearStale"

Reconcile(staged, outcome, same) ==
    IF outcome = "PendingConfirmation" THEN Unconfirmed(staged, same)
    ELSE Settled(staged, outcome, same)

(***************************************************************************)
(* activate: what it answers to an expected identity.                      *)
(***************************************************************************)
Intent(record, expected) ==
    IF record.state # "Staged" \/ record.artifacts = {} THEN "NotStaged"
    ELSE IF record.id # expected THEN "IdentityMismatch"
    ELSE "ok"
===============================================================================
