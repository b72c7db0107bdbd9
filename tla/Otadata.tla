------------------------------- MODULE Otadata -------------------------------
(***************************************************************************)
(* The decisions of src/src/boot/mod.rs: what the two otadata sectors say, *)
(* which slot the bootloader starts and which entry updates it makes first *)
(* (plan_boot), and which single update the running application makes to   *)
(* activate, confirm or reject an image.  Everything here is a pure        *)
(* function of the two sectors; BootChain.tla executes the updates.        *)
(*                                                                         *)
(* A sector is modelled by what `decode` makes of its 32 bytes: Blank,     *)
(* Corrupt, or an accepted entry [seq, state].  The bytes themselves, the  *)
(* checksums and the commit word are the subject of EntryFlash.tla.        *)
(***************************************************************************)
EXTENDS Integers, Sequences

CONSTANTS SlotCount,  \* number of OTA slots (slot_count: u8)
          SeqMax      \* u32::MAX, the largest value of a sequence number

ASSUME OtadataAssumption ==
    /\ SlotCount \in Nat \ {0}
    /\ SeqMax \in Nat
    /\ SeqMax > 1

Sectors == {0, 1}
Other(s) == 1 - s
Slots == 0 .. SlotCount - 1

(***************************************************************************)
(* Entries and what a sector reads as.                                     *)
(***************************************************************************)
EntryStates == {"new", "pending", "valid", "invalid", "aborted"}
Entry(seq, state) == [seq |-> seq, state |-> state]
Blank == Entry(0, "blank")
Corrupt == Entry(0, "corrupt")

\* The entries the code may ask to be written, and what a sector may hold.
Entries == [seq : 1 .. SeqMax, state : EntryStates]
Cells == [seq : 1 .. SeqMax - 1, state : EntryStates] \cup {Blank, Corrupt}

\* A completely programmed entry reads back as itself unless its sequence
\* number is one that decode refuses.
Decode(e) == IF e.seq \in 1 .. SeqMax - 1 THEN e ELSE Corrupt

\* How far a cell is trusted (Trust::of).  Blank and Corrupt are none of these.
IsEntry(c) == c.state \in EntryStates
Pending(c) == c.state = "pending"
ValidOrDead(c) == c.state \in {"valid", "invalid", "aborted"}    \* mutant
Valid(c) == c.state = "valid"
Unproven(c) == c.state = "new"
Candidate(c) == Valid(c) \/ Unproven(c)

SlotOf(seq) == (seq - 1) % SlotCount

\* Of a set S of sectors, the one whose entry has the highest sequence
\* number; the lower sector on a tie, as every comparison in the code is strict.
Highest(ota, S) ==
    IF 1 \in S /\ (0 \in S => ota[1].seq > ota[0].seq) THEN 1 ELSE 0

Write(s, seq, state) == [sector |-> s, entry |-> Entry(seq, state)]
Writes == [sector : Sectors, entry : Entries]

(***************************************************************************)
(* The three flash commands of an update: erase, body, commit word.  That  *)
(* the sector then reads as this is shown by EntryFlash.tla.               *)
(***************************************************************************)
\* What the sector of update w reads as once its command number k is done:
\* the body alone, its commit word still erased, is never accepted.
AfterCommand(k, w) ==
    CASE k = 0 -> Blank
      [] k = 1 -> Corrupt
      [] k = 2 -> Decode(w.entry)

\* What it may read as when the command is cut, from contents c.
AfterCut(k, w, c) ==
    CASE k = 0 -> {c, Blank, Corrupt}
      [] k = 1 -> {Blank, Corrupt}
      [] k = 2 -> {Corrupt, Decode(w.entry)}

(***************************************************************************)
(* plan_boot: good is the set of slots for which image_ok answers true.    *)
(***************************************************************************)
Candidates(ota) == {s \in Sectors : Candidate(ota[s])}
\* Mutant: only the first candidate is looked at.
BootableFirstOnly(ota, good) ==
    {s \in Candidates(ota) : s = Highest(ota, Candidates(ota)) /\ SlotOf(ota[s].seq) \in good}
Bootable(ota, good) == {s \in Candidates(ota) : SlotOf(ota[s].seq) \in good}
Chosen(ota, good) == Highest(ota, Bootable(ota, good))

\* Mutant: an unproven candidate is started as it is.
MarkAfterBoot(ota, good, s) ==
    LET chosen == Chosen(ota, good)
        reached == Bootable(ota, good) = {} \/ Highest(ota, {s, chosen}) = s
    IN  IF Pending(ota[s]) THEN "aborted"
        ELSE IF s \in Candidates(ota) \ Bootable(ota, good) /\ reached THEN "invalid"
        ELSE "keep"

\* Mutant: an image that never confirmed gets another chance.
MarkSecondChance(ota, good, s) ==
    IF Pending(ota[s]) THEN "new"
    ELSE IF s = Chosen(ota, good) /\ Unproven(ota[s]) THEN "pending"
    ELSE IF s \in Candidates(ota) \ Bootable(ota, good) THEN "invalid"
    ELSE "keep"

\* The state sector s is rewritten with, or "keep".  A candidate is looked at
\* only if no bootable one comes before it, highest sequence number first.
Mark(ota, good, s) ==
    LET chosen == Chosen(ota, good)
        reached == Bootable(ota, good) = {} \/ Highest(ota, {s, chosen}) = s
    IN  IF Pending(ota[s]) THEN "aborted"
        ELSE IF s \in Bootable(ota, good)
             THEN IF s = chosen /\ Unproven(ota[s]) THEN "pending" ELSE "keep"
        ELSE IF s \in Candidates(ota) /\ reached THEN "invalid"
        ELSE "keep"

\* The sector updated first when both are: Pending entries before candidates
\* and in sector order, then candidates from the highest sequence number down.
FirstMarked(ota) ==
    IF Pending(ota[0]) THEN 0
    ELSE IF Pending(ota[1]) THEN 1
    ELSE Highest(ota, Candidates(ota))

MarkWrites(ota, good) ==
    LET Update(s) == IF Mark(ota, good, s) = "keep" THEN << >>
                     ELSE << Write(s, ota[s].seq, Mark(ota, good, s)) >>
        first == FirstMarked(ota)
    IN  Update(first) \o Update(Other(first))

\* What is started once the updates are made: a slot, from a sector's entry,
\* or one of the two ways to halt.
BootSlot(s, seq) == [kind |-> "slot", slot |-> SlotOf(seq), sector |-> s, seq |-> seq]
BootHalt(why) == [kind |-> why, slot |-> 0, sector |-> 0, seq |-> 0]
HaltKinds == {"NoImage", "NoUsableEntry"}

FirstBoot(ota) == \A s \in Sectors : ota[s] \in {Blank, Corrupt}

PlanBoot(ota, good) ==
    CASE Bootable(ota, good) # {} ->
           LET s == Chosen(ota, good)
           IN  [boot |-> BootSlot(s, ota[s].seq), writes |-> MarkWrites(ota, good)]
      [] FirstBoot(ota) /\ 0 \in good ->
           [boot |-> BootSlot(0, 1), writes |-> << Write(0, 1, "valid") >>]
      [] FirstBoot(ota) /\ 0 \notin good ->
           [boot |-> BootHalt("NoImage"), writes |-> << >>]
      [] OTHER ->
           [boot |-> BootHalt("NoUsableEntry"), writes |-> MarkWrites(ota, good)]

(***************************************************************************)
(* plan_boot the way it goes about it: Pending entries in sector order,    *)
(* then one candidate after the other until one can be booted.  PlanBoot   *)
(* above says what comes of it; OtadataProofs.tla proves that it does.     *)
(***************************************************************************)
Undecided == BootHalt("none")

Abort(ota, s) ==
    IF Pending(ota[s]) THEN << Write(s, ota[s].seq, "aborted") >> ELSE << >>

\* One turn of the loop over the candidates, with what plan has come to before it.
LookAt(ota, good, s, plan) ==
    LET Marked(state) == Append(plan.writes, Write(s, ota[s].seq, state))
    IN  IF plan.boot # Undecided \/ ~Candidate(ota[s]) THEN plan
        ELSE IF SlotOf(ota[s].seq) \notin good
             THEN [boot |-> Undecided, writes |-> Marked("invalid")]
        ELSE [boot |-> BootSlot(s, ota[s].seq),
              writes |-> IF Unproven(ota[s]) THEN Marked("pending") ELSE plan.writes]

PlanLoop(ota, good) ==
    LET first == Highest(ota, Candidates(ota))
        aborted == [boot |-> Undecided, writes |-> Abort(ota, 0) \o Abort(ota, 1)]
        plan == LookAt(ota, good, Other(first), LookAt(ota, good, first, aborted))
    IN  IF plan.boot # Undecided THEN plan
        ELSE IF ~FirstBoot(ota) THEN [boot |-> BootHalt("NoUsableEntry"), writes |-> plan.writes]
        ELSE IF 0 \in good
             THEN [boot |-> BootSlot(0, 1), writes |-> Append(plan.writes, Write(0, 1, "valid"))]
        ELSE [boot |-> BootHalt("NoImage"), writes |-> plan.writes]

(***************************************************************************)
(* activate, confirm, reject.  A refusal (an Err or None) has no write.    *)
(***************************************************************************)
ValidSectors(ota) == {s \in Sectors : Valid(ota[s])}
PendingOrNewSectors(ota) ==    \* mutant: what was never started can be confirmed
    {s \in Sectors : Pending(ota[s]) \/ Unproven(ota[s])}
PendingSectors(ota) == {s \in Sectors : Pending(ota[s])}

\* Mutant: the sector with the highest sequence number, whatever its state.
ProtectedByRawSequence(ota) == Highest(ota, {s \in Sectors : IsEntry(ota[s])})

\* The sector that holds the last Valid entry.
Protected(ota) == Highest(ota, ValidSectors(ota))

NextSeqsFromMax(ota, target) ==    \* mutant: from the highest entry, not above it
    {q \in 1 .. SeqMax : /\ q >= ota[0].seq
                         /\ q >= ota[1].seq
                         /\ SlotOf(q) = target}

\* The sequence numbers above every entry present that select target.
NextSeqs(ota, target) ==
    {q \in 1 .. SeqMax : /\ q > ota[0].seq
                         /\ q > ota[1].seq
                         /\ SlotOf(q) = target}

ActivateSeq(ota, target) ==
    CHOOSE q \in NextSeqs(ota, target) : \A p \in NextSeqs(ota, target) : q <= p

ActivateResult(ota, target) ==
    IF ValidSectors(ota) = {} THEN "NoValidBase"
    ELSE IF NextSeqs(ota, target) = {} THEN "SequenceExhausted"
    ELSE "ok"

ActivateWrite(ota, target) ==
    Write(Other(Protected(ota)), ActivateSeq(ota, target), "new")

PendingSector(ota) == Highest(ota, PendingSectors(ota))
ConfirmWrite(ota) == Write(PendingSector(ota), ota[PendingSector(ota)].seq, "valid")
RejectWrite(ota) == Write(PendingSector(ota), ota[PendingSector(ota)].seq, "invalid")
===============================================================================
