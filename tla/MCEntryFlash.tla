----------------------------- MODULE MCEntryFlash -----------------------------
(***************************************************************************)
(* EntryFlash with words of a few bits, a number's being its binary ones.  *)
(***************************************************************************)
EXTENDS EntryFlash

BinaryWord == [n \in 0 .. SeqMax |-> {b \in AllOnes : (n \div 2 ^ b) % 2 = 1}]
===============================================================================
