----------------------------- MODULE MCBootChain -----------------------------
(***************************************************************************)
(* The boot chain on small instances.  u32::MAX = 4294967295 is odd and a  *)
(* multiple of three; SeqMax is chosen alike, so that the sequence numbers *)
(* at the end of the range select the slots they select in the code.       *)
(***************************************************************************)
EXTENDS BootChainInvariant, BootChainRefinement

ASSUME SeqMaxSelectsAsU32Max ==
    \/ SlotCount = 2 /\ SeqMax % 2 = 1
    \/ SlotCount = 3 /\ SeqMax % 3 = 0
===============================================================================
