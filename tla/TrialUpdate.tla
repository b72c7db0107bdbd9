----------------------------- MODULE TrialUpdate -----------------------------
(***************************************************************************)
(* What the boot chain promises, without sectors, updates or power cuts:   *)
(* there is one image that is trusted, the base, and at most one candidate *)
(* for its succession.  The candidate runs at most once before its fate is *)
(* decided, only a candidate that ran can become the base, and everything  *)
(* that goes wrong costs the candidate, never the base.                    *)
(*                                                                         *)
(* Images are named by the sequence number of the entry that selects them. *)
(* BootChain.tla implements this specification.                            *)
(***************************************************************************)
EXTENDS Integers

CONSTANT LastSeq    \* the largest sequence number an accepted entry has

VARIABLES
    base,       \* sequence number of the trusted image; 0 before the first boot
    candidate,  \* sequence number of the candidate; 0 if there is none
    trial       \* "none", or how far the candidate is: "offered", "marked", "ran"

trialVars == <<base, candidate, trial>>

TrialTypeOK ==
    /\ base \in 0 .. LastSeq
    /\ candidate \in 0 .. LastSeq
    /\ trial \in {"none", "offered", "marked", "ran"}

TrialInit ==
    /\ base = 0
    /\ candidate = 0
    /\ trial = "none"

\* The first boot trusts the factory image.
Provision ==
    /\ base = 0
    /\ base' = 1
    /\ UNCHANGED <<candidate, trial>>

\* A new image is offered; nothing can be without a base to fall back to.
Offer(seq) ==
    /\ base # 0
    /\ seq > base
    /\ candidate = 0
    /\ candidate' = seq
    /\ trial' = "offered"
    /\ UNCHANGED base

\* Its one trial is announced before it begins ...
Announce ==
    /\ trial = "offered"
    /\ trial' = "marked"
    /\ UNCHANGED <<base, candidate>>

\* ... begins ...
Try ==
    /\ trial = "marked"
    /\ trial' = "ran"
    /\ UNCHANGED <<base, candidate>>

\* ... and ends with the candidate trusted,
Promote ==
    /\ trial = "ran"
    /\ base' = candidate
    /\ candidate' = 0
    /\ trial' = "none"

\* unless the candidate is given up, at whatever point.
GiveUp ==
    /\ trial # "none"
    /\ candidate' = 0
    /\ trial' = "none"
    /\ UNCHANGED base

TrialNext ==
    \/ Provision
    \/ \E seq \in 1 .. LastSeq : Offer(seq)
    \/ Announce
    \/ Try
    \/ Promote
    \/ GiveUp

TrialSpec == TrialInit /\ [][TrialNext]_trialVars
===============================================================================
