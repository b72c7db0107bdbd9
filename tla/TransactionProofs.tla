-------------------------- MODULE TransactionProofs ---------------------------
(***************************************************************************)
(* What Transaction.tla promises of the record, for any set of identities. *)
(*                                                                         *)
(* The properties are about a boot's verdict on a candidate, and hold      *)
(* because of what that verdict was based on: that what runs during a      *)
(* trial is the candidate (TrialRuns), that a candidate is only awaited    *)
(* while it is on trial (AwaitedOnTrial) and, unless the caller was blind, *)
(* only if the record accounts for it (AwaitedAccounted), and that a boot  *)
(* that found no candidate has none (SettledHasNone).                      *)
(***************************************************************************)
EXTENDS Transaction, TLAPS

\* The backend's view of its candidate.
CandidateKnown == candidate = NoTarget <=> trial = "none"
TrialRuns ==
    /\ pc = "booted" => trial # "offered"
    /\ pc \in {"booted", "AwaitConfirmation"} /\ trial = "pending" => running = candidate

\* What the caller has concluded at this boot.
AwaitedOnTrial == pc = "AwaitConfirmation" => trial = "pending"
AwaitedAccounted ==
    pc = "AwaitConfirmation" /\ ~blind =>
        record.state = "Activating" /\ candidate \in record.artifacts
SettledHasNone ==
    pc \in {"confirmed", "FinishInterruptedActivation", "ClearStale"} => trial = "none"
CarriedUnresolved ==
    pc \in {"Nothing", "KeepStaged"} /\ record.state = "Activating" => blind

\* A switch is under way only where the record says so.
SwitchRecorded == pc \in {"switching", "reverting"} => record.state = "Activating"

\* A write is in progress only where no record names what it overwrites.
WritingUnrecorded == pc = "writing" => record = NoRecord

Steady ==
    /\ CandidateKnown /\ TrialRuns
    /\ AwaitedOnTrial /\ AwaitedAccounted /\ SettledHasNone /\ CarriedUnresolved
    /\ SwitchRecorded /\ WritingUnrecorded

Inv == TypeOK /\ Steady /\ StagedIsWritten /\ ActivatingResolved

-------------------------------------------------------------------------------
\* reconcile answers with one of its actions; it awaits a confirmation only of a
\* candidate on trial, which is accounted for or whose target is unknown, and
\* rolls back no candidate that an Activating record names.
LEMMA ReconcileFacts ==
    ASSUME NEW staged \in States \cup {"none"},
           NEW outcome \in {"PendingConfirmation", "Confirmed", "Other"},
           NEW same \in {"unknown", "yes", "no"}
    PROVE  LET action == Reconcile(staged, outcome, same)
           IN  /\ action \in Actions
               /\ action = "AwaitConfirmation" =>
                    /\ outcome = "PendingConfirmation"
                    /\ same = "unknown" \/ (same = "yes" /\ staged = "Activating")
               /\ action \in {"FinishInterruptedActivation", "ClearStale"} =>
                    outcome # "PendingConfirmation"
               /\ action \in {"Nothing", "KeepStaged"} /\ staged = "Activating" =>
                    same = "unknown"
               /\ action = "RollbackUnaccounted" => same = "no" \/ staged # "Activating"
BY DEF Reconcile, Unconfirmed, Settled, States, Actions

\* The spare target is one, and not the one that runs.
LEMMA SpareFacts == Spare \in Targets /\ Spare # running
<1>1. \E t \in Targets : t # running
  BY DEF Targets
<1> QED
  BY <1>1 DEF Spare

\* What a record is.
LEMMA RecordFacts ==
    /\ NoRecord.id = "none" /\ NoRecord.state = "none" /\ NoRecord.artifacts = {}
    /\ \A id \in Ids, s \in States, a \in SUBSET Targets :
         /\ Record(id, s, a) \in Records
         /\ Record(id, s, a).id = id
         /\ Record(id, s, a).state = s
         /\ Record(id, s, a).artifacts = a
    /\ \A r \in Records : r.id \in Ids /\ r.state \in States /\ r.artifacts \in SUBSET Targets
    /\ \A r \in Records, s \in States :
         /\ [r EXCEPT !.state = s] \in Records
         /\ [r EXCEPT !.state = s].id = r.id
         /\ [r EXCEPT !.state = s].state = s
         /\ [r EXCEPT !.state = s].artifacts = r.artifacts
BY DEF NoRecord, Record, Records, RecordsNaming

-------------------------------------------------------------------------------
\* The invariant holds of a device from the factory.
LEMMA InitInv == Init => Inv
<1> SUFFICES ASSUME Init PROVE Inv
  OBVIOUS
<1>1. TypeOK
  <2>1. record \in Records \cup {NoRecord}
    BY RecordFacts DEF Init, States
  <2>2. contents \in [Targets -> Ids \cup {Factory, Partial}]
    BY DEF Init
  <2> QED
    BY <2>1, <2>2 DEF Init, TypeOK, Targets, Steps
<1>2. record.artifacts = {}
  BY RecordFacts DEF Init, States
<1> QED
  BY <1>1, <1>2 DEF Init, Inv, Steady, CandidateKnown, TrialRuns, AwaitedOnTrial,
     AwaitedAccounted, SettledHasNone, CarriedUnresolved, SwitchRecorded, WritingUnrecorded,
     StagedIsWritten, ActivatingResolved, NoTarget
-------------------------------------------------------------------------------
\* Every action keeps it.
LEMMA StepInv == Inv /\ [Next]_vars => Inv'
<1> SUFFICES ASSUME Inv, [Next]_vars PROVE Inv'
  OBVIOUS
<1> USE DEF Inv, Steady, CandidateKnown, TrialRuns, AwaitedOnTrial, AwaitedAccounted,
            SettledHasNone, CarriedUnresolved, SwitchRecorded, WritingUnrecorded,
            ActivatingResolved
<1>0. /\ record \in Records \/ record = NoRecord
      /\ record.state \in States \cup {"none"}
      /\ record.state \in States => record \in Records
      /\ record.artifacts \in SUBSET Targets
      /\ NoTarget \notin Targets
  BY RecordFacts DEF TypeOK, States, Targets, NoTarget
<1>1. ASSUME Boot PROVE Inv'
  <2>1. TypeOK'
    BY <1>0, <1>1 DEF TypeOK, Boot, backend, Steps, Actions
  <2>2. StagedIsWritten'
    BY <1>0, <1>1 DEF TypeOK, StagedIsWritten, Boot, backend
  <2>3. Steady' /\ ActivatingResolved'
    BY <1>0, <1>1 DEF TypeOK, Boot, backend
  <2> QED
    BY <2>1, <2>2, <2>3
<1>2. ASSUME OnBoot PROVE Inv'
  <2> PICK outcome \in Outcomes, same \in Sameness :
             /\ pc' = Reconcile(record.state, outcome, same)
             /\ blind' = (same = "unknown")
    BY <1>2 DEF OnBoot
  <2>0. /\ outcome \in {"PendingConfirmation", "Confirmed", "Other"}
        /\ outcome = "PendingConfirmation" <=> trial = "pending"
        /\ same \in {"unknown", "yes", "no"}
        /\ same = "yes" => running \in record.artifacts
    BY DEF Outcomes, Sameness
  <2>4. LET action == pc'
        IN  /\ action \in Actions
            /\ action = "AwaitConfirmation" =>
                 /\ outcome = "PendingConfirmation"
                 /\ same = "unknown" \/ (same = "yes" /\ record.state = "Activating")
            /\ action \in {"FinishInterruptedActivation", "ClearStale"} =>
                 outcome # "PendingConfirmation"
            /\ action \in {"Nothing", "KeepStaged"} /\ record.state = "Activating" =>
                 same = "unknown"
    BY <1>0, <2>0, ReconcileFacts
  <2>1. TypeOK'
    BY <1>0, <1>2, <2>0, <2>4 DEF TypeOK, OnBoot, backend, Steps, Actions
  <2>2. StagedIsWritten'
    BY <1>0, <1>2, <2>0, <2>4 DEF TypeOK, StagedIsWritten, OnBoot, backend
  <2>3. Steady' /\ ActivatingResolved'
    BY <1>0, <1>2, <2>0, <2>4 DEF TypeOK, OnBoot, backend, Actions
  <2> QED
    BY <2>1, <2>2, <2>3
<1>3. ASSUME Carry PROVE Inv'
  <2>1. TypeOK'
    BY <1>0, <1>3 DEF TypeOK, Carry, backend, Steps, Actions
  <2>2. StagedIsWritten'
    BY <1>0, <1>3 DEF TypeOK, StagedIsWritten, Carry, backend
  <2>3. Steady' /\ ActivatingResolved'
    BY <1>0, <1>3 DEF TypeOK, Carry, backend
  <2> QED
    BY <2>1, <2>2, <2>3
<1>4. ASSUME SelfCheckPasses PROVE Inv'
  <2>1. TypeOK'
    BY <1>0, <1>4, RecordFacts DEF TypeOK, SelfCheckPasses, backend, Steps, Actions
  <2>2. StagedIsWritten'
    BY <1>0, <1>4, RecordFacts DEF TypeOK, StagedIsWritten, SelfCheckPasses, backend
  <2>3. Steady' /\ ActivatingResolved'
    BY <1>0, <1>4, RecordFacts DEF TypeOK, SelfCheckPasses, backend
  <2> QED
    BY <2>1, <2>2, <2>3
<1>5. ASSUME RejectCandidate PROVE Inv'
  <2>1. TypeOK'
    BY <1>0, <1>5 DEF TypeOK, RejectCandidate, backend, Steps, Actions
  <2>2. StagedIsWritten'
    BY <1>0, <1>5 DEF TypeOK, StagedIsWritten, RejectCandidate, backend
  <2>3. Steady' /\ ActivatingResolved'
    BY <1>0, <1>5 DEF TypeOK, RejectCandidate, backend
  <2> QED
    BY <2>1, <2>2, <2>3
<1>6. ASSUME Clear PROVE Inv'
  <2>1. TypeOK'
    BY <1>0, <1>6, RecordFacts DEF TypeOK, Clear, Commit, backend, Steps, Actions
  <2>2. StagedIsWritten'
    BY <1>0, <1>6, RecordFacts DEF TypeOK, StagedIsWritten, Clear, Commit, backend
  <2>3. Steady' /\ ActivatingResolved'
    BY <1>0, <1>6, RecordFacts DEF TypeOK, Clear, Commit, backend
  <2> QED
    BY <2>1, <2>2, <2>3
<1>7. ASSUME Withdraw PROVE Inv'
  <2>1. TypeOK'
    BY <1>0, <1>7, RecordFacts DEF TypeOK, Withdraw, Commit, backend, Steps, Actions
  <2>2. StagedIsWritten'
    BY <1>0, <1>7, RecordFacts DEF TypeOK, StagedIsWritten, Withdraw, Commit, backend
  <2>3. Steady' /\ ActivatingResolved'
    BY <1>0, <1>7, RecordFacts DEF TypeOK, Withdraw, Commit, backend
  <2> QED
    BY <2>1, <2>2, <2>3
<1>8. ASSUME StartWrite PROVE Inv'
  <2>1. TypeOK'
    BY <1>0, <1>8, RecordFacts, SpareFacts DEF TypeOK, StartWrite, backend, Steps, Actions
  <2>2. StagedIsWritten'
    BY <1>0, <1>8, RecordFacts, SpareFacts DEF TypeOK, StagedIsWritten, StartWrite, backend
  <2>3. Steady' /\ ActivatingResolved'
    BY <1>0, <1>8, RecordFacts, SpareFacts DEF TypeOK, StartWrite, backend
  <2> QED
    BY <2>1, <2>2, <2>3
<1>9. ASSUME NEW id \in Ids, FinishWrite(id) PROVE Inv'
  <2>0. record = NoRecord
    BY <1>9 DEF FinishWrite
  <2>4. \/ record' = NoRecord
        \/ /\ record' \in Records /\ record'.state = "Staged"
           /\ record'.id = id /\ record'.artifacts = {Spare}
    BY <1>9, <2>0, RecordFacts, SpareFacts DEF FinishWrite, Commit, States
  <2>5. /\ contents' = [contents EXCEPT ![Spare] = id]
        /\ contents' \in [Targets -> Ids \cup {Factory, Partial}]
    BY <1>9, SpareFacts DEF FinishWrite, TypeOK
  <2>1. TypeOK'
    BY <1>0, <1>9, <2>0, <2>4, <2>5, RecordFacts, SpareFacts
    DEF TypeOK, FinishWrite, Commit, backend, Steps, Actions
  <2>2. StagedIsWritten'
    BY <1>0, <1>9, <2>0, <2>4, <2>5, RecordFacts, SpareFacts
    DEF TypeOK, StagedIsWritten, FinishWrite, Commit, backend
  <2>3. Steady' /\ ActivatingResolved'
    BY <1>0, <1>9, <2>0, <2>4, <2>5, RecordFacts, SpareFacts
    DEF TypeOK, FinishWrite, Commit, backend
  <2> QED
    BY <2>1, <2>2, <2>3
<1>10. ASSUME AbandonWrite PROVE Inv'
  <2>1. TypeOK'
    BY <1>0, <1>10 DEF TypeOK, AbandonWrite, backend, Steps, Actions
  <2>2. StagedIsWritten'
    BY <1>0, <1>10 DEF TypeOK, StagedIsWritten, AbandonWrite, backend
  <2>3. Steady' /\ ActivatingResolved'
    BY <1>0, <1>10, RecordFacts DEF TypeOK, AbandonWrite, backend
  <2> QED
    BY <2>1, <2>2, <2>3
<1>11. ASSUME NEW expected \in Ids, Activate(expected) PROVE Inv'
  <2>0. record.state = "Staged"
    BY <1>11 DEF Activate, Intent
  <2>4. \/ record' = record /\ pc' = pc
        \/ /\ pc' = "switching"
           /\ record' \in Records /\ record'.state = "Activating"
           /\ record'.id = record.id /\ record'.artifacts = record.artifacts
    <3> DEFINE r == [record EXCEPT !.state = "Activating"]
    <3>1. /\ r \in Records /\ r.state = "Activating"
          /\ r.id = record.id /\ r.artifacts = record.artifacts
      BY <1>0, <2>0, RecordFacts DEF States
    <3>2. (record' = record /\ pc' = pc) \/ (record' = r /\ pc' = "switching")
      BY <1>11 DEF Activate
    <3> HIDE DEF r
    <3> QED
      BY <3>1, <3>2
  <2>1. TypeOK'
    BY <1>0, <1>11, <2>0, <2>4 DEF TypeOK, Activate, backend, Steps, Actions
  <2>2. StagedIsWritten'
    BY <1>0, <1>11, <2>0, <2>4 DEF TypeOK, StagedIsWritten, Activate, backend
  <2>3. Steady' /\ ActivatingResolved'
    BY <1>0, <1>11, <2>0, <2>4 DEF TypeOK, Activate, backend
  <2> QED
    BY <2>1, <2>2, <2>3
<1>12. ASSUME Switch PROVE Inv'
  <2>1. TypeOK'
    BY <1>0, <1>12, RecordFacts DEF TypeOK, Switch, backend, Steps, Actions
  <2>2. StagedIsWritten'
    BY <1>0, <1>12, RecordFacts DEF TypeOK, StagedIsWritten, Switch, backend
  <2>3. Steady' /\ ActivatingResolved'
    BY <1>0, <1>12, RecordFacts DEF TypeOK, Switch, backend
  <2> QED
    BY <2>1, <2>2, <2>3
<1>13. ASSUME Revert PROVE Inv'
  <2>0. record.state = "Activating"
    BY <1>13 DEF Revert
  <2>4. \/ record' = record /\ uncommitted'
        \/ /\ record' \in Records /\ record'.state = "Staged"
           /\ record'.id = record.id /\ record'.artifacts = record.artifacts
    <3> DEFINE r == [record EXCEPT !.state = "Staged"]
    <3>1. /\ r \in Records /\ r.state = "Staged"
          /\ r.id = record.id /\ r.artifacts = record.artifacts
      BY <1>0, <2>0, RecordFacts DEF States
    <3>2. (record' = record /\ uncommitted') \/ record' = r
      BY <1>13 DEF Revert, Commit
    <3> HIDE DEF r
    <3> QED
      BY <3>1, <3>2
  <2>1. TypeOK'
    BY <1>0, <1>13, <2>0, <2>4 DEF TypeOK, Revert, Commit, backend, Steps, Actions
  <2>2. StagedIsWritten'
    BY <1>0, <1>13, <2>0, <2>4 DEF TypeOK, StagedIsWritten, Revert, Commit, backend
  <2>3. Steady' /\ ActivatingResolved'
    BY <1>0, <1>13, <2>0, <2>4 DEF TypeOK, Revert, Commit, backend
  <2> QED
    BY <2>1, <2>2, <2>3
<1>14. ASSUME ForeignSwitch PROVE Inv'
  <2>1. TypeOK'
    BY <1>0, <1>14, RecordFacts, SpareFacts DEF TypeOK, ForeignSwitch, backend, Steps, Actions
  <2>2. StagedIsWritten'
    BY <1>0, <1>14, RecordFacts, SpareFacts DEF TypeOK, StagedIsWritten, ForeignSwitch, backend
  <2>3. Steady' /\ ActivatingResolved'
    BY <1>0, <1>14, RecordFacts, SpareFacts DEF TypeOK, ForeignSwitch, backend
  <2> QED
    BY <2>1, <2>2, <2>3
<1>15. ASSUME Restart PROVE Inv'
  <2>1. TypeOK'
    BY <1>0, <1>15 DEF TypeOK, Restart, backend, Steps, Actions
  <2>2. StagedIsWritten'
    BY <1>0, <1>15 DEF TypeOK, StagedIsWritten, Restart, backend
  <2>3. Steady' /\ ActivatingResolved'
    BY <1>0, <1>15 DEF TypeOK, Restart, backend
  <2> QED
    BY <2>1, <2>2, <2>3
<1>16. CASE UNCHANGED vars
  BY <1>16 DEF vars, TypeOK, StagedIsWritten
<1> QED
  BY <1>1, <1>2, <1>3, <1>4, <1>5, <1>6, <1>7, <1>8, <1>9,
     <1>10, <1>11, <1>12, <1>13, <1>14, <1>15, <1>16 DEF Next
-------------------------------------------------------------------------------
LEMMA AlwaysInv == Spec => []Inv
BY InitInv, StepInv, PTL DEF Spec

\* Every variable keeps to its range; in particular nothing but a target is ever
\* trusted, whatever fails.
THEOREM TypeCorrect == Spec => []TypeOK
<1>1. Inv => TypeOK
  BY DEF Inv
<1> QED
  BY <1>1, AlwaysInv, PTL

\* A record never names a target that does not hold its artifact, written and
\* verified (state.rs), whatever was interrupted.
THEOREM StagedWritten == Spec => []StagedIsWritten
<1>1. Inv => StagedIsWritten
  BY DEF Inv
<1> QED
  BY <1>1, AlwaysInv, PTL

\* What reconcile says leaves no activation undecided once it is carried out
\* (transaction.rs, reconcile), unless a commit of the record has failed since the
\* boot or the running target was unknown at it.
THEOREM ActivationResolved == Spec => []ActivatingResolved
<1>1. Inv => ActivatingResolved
  BY DEF Inv
<1> QED
  BY <1>1, AlwaysInv, PTL

\* The trusted image changes only to one that an Activating record accounts for.
THEOREM TrustAccounted == Spec => ConfirmedIsAccounted
<1> DEFINE Accounted ==
      trusted' # trusted /\ ~blind =>
          record.state = "Activating" /\ trusted' \in record.artifacts
<1>1. Inv /\ [Next]_vars => [Accounted]_vars
  <2> SUFFICES ASSUME Inv, Next, trusted' # trusted, ~blind
               PROVE  record.state = "Activating" /\ trusted' \in record.artifacts
    BY DEF vars
  <2>1. SelfCheckPasses
    BY DEF Next, Boot, OnBoot, Carry, RejectCandidate, Clear, Withdraw, StartWrite,
           FinishWrite, AbandonWrite, Activate, Switch, Revert, ForeignSwitch, Restart, backend
  <2> QED
    BY <2>1 DEF Inv, Steady, AwaitedAccounted, SelfCheckPasses
<1> QED
  BY <1>1, AlwaysInv, PTL DEF Spec, ConfirmedIsAccounted

\* While a record is Activating it outlives every candidate it names. One reverted
\* to Staged may be withdrawn with its candidate still live.
THEOREM CandidateRemembered == Spec => LiveCandidateNotForgotten
<1> DEFINE Remembered ==
      record' = NoRecord /\ record.state = "Activating" =>
          ~(trial # "none" /\ candidate \in record.artifacts)
<1>1. Inv /\ [Next]_vars => [Remembered]_vars
  <2> SUFFICES ASSUME Inv, Next, record' = NoRecord, record.state = "Activating"
               PROVE  trial = "none"
    BY DEF vars
  <2>1. Clear
    <3>1. record' # record
      BY RecordFacts
    <3>2. ~Withdraw
      BY DEF Withdraw
    <3>3. ASSUME NEW id \in Ids, FinishWrite(id) PROVE FALSE
      BY <3>3, RecordFacts DEF FinishWrite, Inv, Steady, WritingUnrecorded
    <3>4. ASSUME NEW expected \in Ids, Activate(expected) PROVE FALSE
      BY <3>4 DEF Activate, Intent
    <3>5. ~Revert
      <4> SUFFICES ASSUME Revert PROVE FALSE
        OBVIOUS
      <4>1. record \in Records
        BY RecordFacts DEF Inv, TypeOK
      <4>2. [record EXCEPT !.state = "Staged"].state = "Staged"
        BY <4>1, RecordFacts DEF States
      <4> QED
        BY <3>1, <4>2, RecordFacts DEF Revert, Commit
    <3> QED
      BY <3>1, <3>2, <3>3, <3>4, <3>5
      DEF Next, Boot, OnBoot, Carry, SelfCheckPasses, RejectCandidate, StartWrite,
          AbandonWrite, Switch, ForeignSwitch, Restart
  <2> QED
    BY <2>1 DEF Inv, Steady, SettledHasNone, Clear
<1> QED
  BY <1>1, AlwaysInv, PTL DEF Spec, LiveCandidateNotForgotten

\* reconcile does not answer RollbackUnaccounted for the target of a record that is
\* Activating. A switch that was made, reported as failed and reverted to Staged is
\* rolled back.
THEOREM SwitchKept == Spec => SwitchedNotUnaccounted
<1> DEFINE Kept ==
      pc = "booted" /\ pc' = "RollbackUnaccounted" =>
          ~(record.state = "Activating" /\ candidate \in record.artifacts)
<1>1. Inv /\ [Next]_vars => [Kept]_vars
  <2> SUFFICES ASSUME Inv, Next, pc = "booted", pc' = "RollbackUnaccounted",
                      record.state = "Activating", candidate \in record.artifacts
               PROVE  FALSE
    BY DEF vars
  <2>1. OnBoot
    BY DEF Next, Boot, Carry, SelfCheckPasses, RejectCandidate, Clear, Withdraw, StartWrite,
           FinishWrite, AbandonWrite, Activate, Switch, Revert, ForeignSwitch, Restart, Actions
  <2>2. PICK outcome \in Outcomes, same \in Sameness :
             pc' = Reconcile(record.state, outcome, same)
    BY <2>1 DEF OnBoot
  <2>3. /\ outcome \in {"PendingConfirmation", "Confirmed", "Other"}
        /\ outcome = "PendingConfirmation" <=> trial = "pending"
        /\ same \in {"unknown", "yes", "no"}
        /\ same = "no" => running \notin record.artifacts
    BY DEF Outcomes, Sameness
  <2>4. trial = "pending" /\ same = "no"
    BY <2>2, <2>3 DEF Reconcile, Unconfirmed, Settled
  <2> QED
    BY <2>3, <2>4 DEF Inv, Steady, TrialRuns
<1> QED
  BY <1>1, AlwaysInv, PTL DEF Spec, SwitchedNotUnaccounted
===============================================================================
