------------------------------ MODULE EntryFlash ------------------------------
(***************************************************************************)
(* One otadata sector field by field: how an entry is laid out (Entry in   *)
(* src/src/boot/mod.rs), the three flash commands of its update, what they *)
(* leave when they are cut, and what decode makes of that.  It justifies   *)
(* AfterCommand and AfterCut of Otadata.tla, on which BootChain.tla rests, *)
(* and covers an executor that commits a torn body without reading it.     *)
(*                                                                         *)
(* The two words whose value matters, the sequence number and the state,   *)
(* are the sets of their 1 bits, Width of them for the 32 of the code;     *)
(* which bits a number has is Word, of which no more is used than that no  *)
(* two numbers have the same (MCEntryFlash.tla gives it as binary).        *)
(* The other words are compared for equality only, and are symbols: all    *)
(* ones, exactly something, or torn.  That no torn word and no CRC of one  *)
(* entry equals a CRC the code computes for another is assumed here; the   *)
(* commit word is chosen so ("a partly-programmed word is never this       *)
(* value").                                                                *)
(***************************************************************************)
EXTENDS Otadata

CONSTANTS Width,    \* bits of a word
          Word,     \* Word[n] is the set of the 1 bits of n
          Seqs      \* sequence numbers of the entries written

AllOnes == 0 .. Width - 1

ASSUME EntryFlashAssumption ==
    /\ Width \in Nat
    /\ Seqs \subseteq 1 .. SeqMax

\* What little-endian words of an unsigned integer are: no two the same, 0 has no
\* bit and u32::MAX has them all.  There is room for the codes of the states.
ASSUME WordAssumption ==
    /\ Word \in [0 .. SeqMax -> SUBSET AllOnes]
    /\ \A m, n \in 0 .. SeqMax : Word[m] = Word[n] => m = n
    /\ Word[0] = {} /\ Word[SeqMax] = AllOnes
    /\ SeqMax > 4

VARIABLES
    raw,        \* the words of the sector's entry
    step,       \* commands already done of the update in progress; 0 if none is
    update      \* the update in progress, or NoUpdate

\* History variable: the body of the update in progress was torn, and not noticed.
VARIABLE torn

vars == <<raw, step, update, torn>>

Updates == [sector : {0}, entry : [seq : Seqs, state : EntryStates]]
NoUpdate == Write(0, 0, "none")

-------------------------------------------------------------------------------
(***************************************************************************)
(* Words and entries.                                                      *)
(***************************************************************************)
NumberOf(bits) == CHOOSE n \in 0 .. SeqMax : Word[n] = bits

Erased == << "erased" >>
Torn == << "torn" >>
Exactly(x) == << "exactly", x >>

StateCode == [new |-> 0, pending |-> 1, valid |-> 2, invalid |-> 3, aborted |-> 4]
StateBits(state) == Word[StateCode[state]]

\* The magic and the version are one word here.
Format == Exactly("EWBT 1")
COMMIT == Exactly("commit")
ExtCrc(seq, state) == Exactly(<<seq, state>>)
IdfCrc(seq) == Exactly(seq)

BLANK == [seq |-> AllOnes, format |-> Erased, ext |-> Erased, reserved |-> Erased,
          commit |-> Erased, state |-> AllOnes, idf |-> Erased]

\* Mutant: the commit word is programmed with the rest.
BodyCommitted(e) ==
    LET seq == Word[e.seq]
        state == StateBits(e.state)
    IN  [seq |-> seq, format |-> Format, ext |-> ExtCrc(seq, state), reserved |-> Erased,
         commit |-> COMMIT, state |-> state, idf |-> IdfCrc(seq)]

Body(e) ==
    LET seq == Word[e.seq]
        state == StateBits(e.state)
    IN  [seq |-> seq, format |-> Format, ext |-> ExtCrc(seq, state), reserved |-> Erased,
         commit |-> Erased, state |-> state, idf |-> IdfCrc(seq)]

CommitWord == [BLANK EXCEPT !.commit = COMMIT]

\* Mutants: what decode accepts, without the commit word or the checksum of the state.
ExactUncommitted(r) ==
    /\ r.seq \notin {{}, AllOnes}
    /\ \E state \in EntryStates : r.state = StateBits(state)
    /\ r.format = Format /\ r.reserved = Erased
    /\ r.ext = ExtCrc(r.seq, r.state) /\ r.idf = IdfCrc(r.seq)
ExactIdfOnly(r) ==
    /\ r.seq \notin {{}, AllOnes}
    /\ \E state \in EntryStates : r.state = StateBits(state)
    /\ r.format = Format /\ r.reserved = Erased
    /\ r.commit = COMMIT /\ r.idf = IdfCrc(r.seq)

Exact(r) ==
    /\ r.seq \notin {{}, AllOnes}
    /\ \E state \in EntryStates : r.state = StateBits(state)
    /\ r.format = Format
    /\ r.ext = ExtCrc(r.seq, r.state)
    /\ r.reserved = Erased
    /\ r.commit = COMMIT
    /\ r.idf = IdfCrc(r.seq)

DecodeRaw(r) ==
    IF r = BLANK THEN Blank
    ELSE IF Exact(r)
         THEN Entry(NumberOf(r.seq), CHOOSE state \in EntryStates : r.state = StateBits(state))
    ELSE Corrupt

-------------------------------------------------------------------------------
(***************************************************************************)
(* Flash.  Programming only clears bits, so that what is programmed lies   *)
(* between the data and what was there; erasing only sets them.  A cut     *)
(* leaves any field, in any order, anywhere in between; a cut erase may    *)
(* also leave garbage.                                                     *)
(***************************************************************************)
And(old, data) ==
    CASE old = Erased -> data
      [] data = Erased \/ data = old -> old
      [] OTHER -> Torn

Program(r, data) ==
    [f \in DOMAIN r |-> IF f \in {"seq", "state"} THEN r[f] \cap data[f] ELSE And(r[f], data[f])]

BitsBetween(low, high) == {low \cup bits : bits \in SUBSET (high \ low)}
SymbolsBetween(low, high) == IF low = high THEN {low} ELSE {low, high, Torn}

Between(low, high) ==
    [seq : BitsBetween(low.seq, high.seq), state : BitsBetween(low.state, high.state),
     format : SymbolsBetween(low.format, high.format), ext : SymbolsBetween(low.ext, high.ext),
     reserved : SymbolsBetween(low.reserved, high.reserved),
     commit : SymbolsBetween(low.commit, high.commit), idf : SymbolsBetween(low.idf, high.idf)]

Garbage == [seq : SUBSET AllOnes, state : SUBSET AllOnes, format : {Torn}, ext : {Torn},
            reserved : {Torn}, commit : {Torn}, idf : {Torn}]

\* What ESP-IDF's own tools leave: a sequence number, its checksum, maybe a state.
Foreign ==
    {[seq |-> Word[n], format |-> Erased, ext |-> Erased, reserved |-> Erased,
      commit |-> Erased, state |-> state, idf |-> IdfCrc(Word[n])] :
         n \in Seqs, state \in {AllOnes} \cup {StateBits(s) : s \in EntryStates}}

\* Mutant: the executor does not erase.
DoneNoErase(k, w) ==
    CASE k = 0 -> raw
      [] k = 1 -> Program(raw, Body(w.entry))
      [] k = 2 -> Program(raw, CommitWord)

\* Command number k of update w, done and cut.
Done(k, w) ==
    CASE k = 0 -> BLANK
      [] k = 1 -> Program(raw, Body(w.entry))
      [] k = 2 -> Program(raw, CommitWord)

Partly(k, w) == IF k = 0 THEN Between(raw, BLANK) \cup Garbage ELSE Between(Done(k, w), raw)

-------------------------------------------------------------------------------
Init ==
    /\ raw \in {BLANK} \cup Garbage \cup Foreign
    /\ step = 0
    /\ update = NoUpdate
    /\ torn = FALSE

\* Any update may come next; from its erase on it is the one in progress.
Current(w) == step # 0 => w = update

Command(w) ==
    /\ Current(w)
    /\ step' = (step + 1) % 3
    /\ update' = IF step = 2 THEN NoUpdate ELSE w
    /\ raw' = Done(step, w)
    /\ torn' = IF step = 2 THEN FALSE ELSE torn

\* A power cut, or a command that fails and is noticed: the update is dropped.
Cut ==
    /\ step' = 0
    /\ update' = NoUpdate
    /\ torn' = FALSE
    /\ raw' \in Partly(step, update)

\* A body that did not take and is not read back: its commit word follows.
TornBody ==
    /\ step = 1
    /\ raw' \in Partly(1, update)
    /\ step' = 2
    /\ torn' = TRUE
    /\ UNCHANGED update

Next ==
    \/ \E w \in Updates : Command(w)
    \/ Cut
    \/ TornBody

Spec == Init /\ [][Next]_vars

-------------------------------------------------------------------------------
(***************************************************************************)
(* What is always so of the sector, on which the properties below rest.    *)
(***************************************************************************)
Symbols(exact) == {Erased, Torn} \cup exact

Raws == [seq : SUBSET AllOnes, state : SUBSET AllOnes, format : Symbols({Format}),
         ext : Symbols({ExtCrc(a, b) : a, b \in SUBSET AllOnes}), reserved : Symbols({}),
         commit : Symbols({COMMIT}), idf : Symbols({IdfCrc(a) : a \in SUBSET AllOnes})]

TypeOK ==
    /\ raw \in Raws
    /\ step \in 0 .. 2
    /\ IF step = 0 THEN update = NoUpdate ELSE update \in Updates
    /\ torn \in BOOLEAN

\* Whatever was there, the body is programmed over a blank entry, and the commit
\* word over the body, unless it was torn and nobody looked.
BodyOverBlank ==
    /\ step = 1 => raw = BLANK
    /\ step = 2 => IF torn THEN raw \in Between(Body(update.entry), BLANK)
                            ELSE raw = Body(update.entry)
    /\ torn => step = 2

\* Through any number of cut commands a checksum that is still whole finds the
\* words it was computed of whole, or with bits that have been erased since; and
\* a commit word never comes with something in the reserved bytes.
Covered(r) ==
    /\ \A a, b \in SUBSET AllOnes :
          r.ext = ExtCrc(a, b) => a \subseteq r.seq /\ b \subseteq r.state
    /\ r.commit = COMMIT => r.reserved = Erased

\* The inductive invariant of the proofs: what the code relies on between two
\* commands of an update and over what any earlier cut has left.
FlashInv == TypeOK /\ BodyOverBlank /\ Covered(raw)

\* What BootChain's FlashCommand takes a sector to read as: a command that is
\* done, over whatever an earlier cut has left there, makes it Blank, Corrupt and
\* at last the entry asked for ("only the last one makes the entry acceptable").
CommandReadsAs ==
    [][\A w \in Updates :
          Command(w) /\ ~torn => DecodeRaw(raw') = AfterCommand(step, w)]_vars

\* What BootChain's Interrupted takes it to read as: a cut leaves no other entry
\* than the one that was there, in a cut erase, or the one asked for, in a cut
\* commit; a body is never accepted by itself.
CutReadsAs ==
    [][Cut /\ ~torn => DecodeRaw(raw') \in AfterCut(step, update, DecodeRaw(raw))]_vars

\* Also when torn bodies are committed all the same: an entry that was not there
\* before appears only by the commit command, and is exactly the one asked for
\* (tests.rs: "a torn body became a different valid entry").
NeverForged ==
    [][LET c == DecodeRaw(raw') IN
       IsEntry(c) /\ c # DecodeRaw(raw) => step = 2 /\ c = Decode(update.entry)]_vars
===============================================================================
