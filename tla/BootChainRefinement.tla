------------------------- MODULE BootChainRefinement --------------------------
(***************************************************************************)
(* The boot chain implements TrialUpdate.  The base is the entry last      *)
(* committed as Valid.  The candidate is the New or Pending entry; while   *)
(* that very entry is being rewritten as Pending or Valid its sector reads *)
(* as neither, and the candidate lives in the update in progress.          *)
(***************************************************************************)
EXTENDS BootChain

InFlight == {s \in Sectors : Unproven(flash[s]) \/ Pending(flash[s])}

\* The update in progress is the marking or the confirmation of a candidate
\* (the first-boot seed, also written as Valid, is not).
Rewriting ==
    /\ queue # << >>
    /\ Head(queue).entry.state \in {"pending", "valid"}
    /\ lastValid # 0

CandidateSeq ==
    IF InFlight # {} THEN flash[Highest(flash, InFlight)].seq
    ELSE IF Rewriting THEN Head(queue).entry.seq
    ELSE 0

CandidateTrial ==
    LET offered == \/ \E s \in InFlight : Unproven(flash[s])
                   \/ InFlight = {} /\ Head(queue).entry.state = "pending"
    IN  IF CandidateSeq = 0 THEN "none"
        ELSE IF offered THEN "offered"
        ELSE IF CandidateSeq \in tried THEN "ran"
        ELSE "marked"

Trial == INSTANCE TrialUpdate WITH
    LastSeq <- SeqMax - 1,
    base <- lastValid,
    candidate <- CandidateSeq,
    trial <- CandidateTrial

\* Every behaviour of the boot chain, interrupted anywhere, is one of the
\* abstract update: a candidate runs at most once, only one that ran replaces
\* the base, and an interruption costs the candidate and never the base.
ImplementsTrialUpdate == Trial!TrialSpec
===============================================================================
