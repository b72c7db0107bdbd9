--------------------------- MODULE EntryFlashProofs ---------------------------
(***************************************************************************)
(* What is proved of an otadata sector, for words of any width and any     *)
(* sequence numbers: through any number of commands, done, cut or torn, it *)
(* reads as Otadata says, and never as an entry nobody asked for.          *)
(***************************************************************************)
EXTENDS EntryFlash, TLAPS

-------------------------------------------------------------------------------
(***************************************************************************)
(* Words.                                                                  *)
(***************************************************************************)

\* Erased, torn and exact words are told apart, and exact ones by their values.
LEMMA SymbolFacts ==
    /\ Erased # Torn
    /\ \A x : Exactly(x) # Erased /\ Exactly(x) # Torn
    /\ \A x, y : Exactly(x) = Exactly(y) => x = y
  BY DEF Erased, Torn, Exactly

\* So are the checksums of different words.
LEMMA CrcFacts ==
    /\ \A a, b, c, d : ExtCrc(a, b) = ExtCrc(c, d) => a = c /\ b = d
    /\ \A a, b : IdfCrc(a) = IdfCrc(b) => a = b
    /\ \A a, b : ExtCrc(a, b) \notin {Erased, Torn} /\ IdfCrc(a) \notin {Erased, Torn}
    /\ Format \notin {Erased, Torn} /\ COMMIT \notin {Erased, Torn}
  BY SymbolFacts DEF ExtCrc, IdfCrc, Format, COMMIT

\* A number is found again from its word.
LEMMA NumberOfWord ==
    ASSUME NEW n \in 0 .. SeqMax
    PROVE  /\ Word[n] \in SUBSET AllOnes
           /\ NumberOf(Word[n]) = n
  BY WordAssumption DEF NumberOf

\* A state is found again from its word.
LEMMA StateOfWord ==
    ASSUME NEW state \in EntryStates, NEW bits, bits = StateBits(state)
    PROVE  /\ bits \in SUBSET AllOnes
           /\ (CHOOSE st \in EntryStates : bits = StateBits(st)) = state
  <1>1. \A st \in EntryStates : StateCode[st] \in 0 .. SeqMax
    BY WordAssumption, OtadataAssumption DEF StateCode, EntryStates
  <1>2. \A st \in EntryStates : StateCode[st] = StateCode[state] => st = state
    BY DEF StateCode, EntryStates
  <1>3. \A st \in EntryStates : StateBits(st) = StateBits(state) => st = state
    BY <1>1, <1>2, WordAssumption DEF StateBits
  <1> QED BY <1>1, <1>3, WordAssumption DEF StateBits

-------------------------------------------------------------------------------
(***************************************************************************)
(* What decode makes of an entry.                                          *)
(***************************************************************************)

\* Only an exact entry reads as one, and what is neither exact nor blank is corrupt.
LEMMA ReadsAs ==
    ASSUME NEW r
    PROVE  /\ DecodeRaw(BLANK) = Blank
           /\ Exact(r) => r # BLANK /\ IsEntry(DecodeRaw(r))
           /\ IsEntry(DecodeRaw(r)) => Exact(r)
           /\ ~Exact(r) => DecodeRaw(r) \in {Blank, Corrupt}
           /\ ~Exact(r) /\ r # BLANK => DecodeRaw(r) = Corrupt
  <1>1. Exact(r) => r # BLANK
    BY CrcFacts DEF Exact, BLANK
  <1>2. Exact(r) => IsEntry(DecodeRaw(r))
    BY <1>1 DEF Exact, DecodeRaw, IsEntry, Entry
  <1>3. ~IsEntry(Blank) /\ ~IsEntry(Corrupt)
    BY DEF IsEntry, Blank, Corrupt, Entry, EntryStates
  <1> QED BY <1>1, <1>2, <1>3 DEF DecodeRaw

\* An entry is exact only with the checksum of its own two words.
LEMMA ExactIs ==
    ASSUME NEW r, NEW n \in 0 .. SeqMax, NEW state \in EntryStates,
           Exact(r), r.seq = Word[n], r.state = StateBits(state)
    PROVE  DecodeRaw(r) = Entry(n, state) /\ n \in 1 .. SeqMax - 1
  <1>1. n # 0 /\ n # SeqMax
    BY WordAssumption DEF Exact
  <1>2. n \in 1 .. SeqMax - 1
    BY <1>1, OtadataAssumption
  <1>3. NumberOf(r.seq) = n /\ (CHOOSE st \in EntryStates : r.state = StateBits(st)) = state
    BY NumberOfWord, StateOfWord
  <1> QED BY <1>2, <1>3, ReadsAs DEF DecodeRaw

-------------------------------------------------------------------------------
(***************************************************************************)
(* What the commands leave.                                                *)
(***************************************************************************)
ToWrite == [seq : Seqs, state : EntryStates]
Committed(r) == [r EXCEPT !.commit = COMMIT]

\* The words of a blank entry, and of the body of an entry.
LEMMA BodyFacts ==
    ASSUME NEW e \in ToWrite
    PROVE  /\ BLANK \in Raws /\ Body(e) \in Raws
           /\ Body(e).seq \in SUBSET AllOnes /\ Body(e).state \in SUBSET AllOnes
           /\ Body(e).seq = Word[e.seq] /\ Body(e).state = StateBits(e.state)
           /\ Body(e).format = Format /\ Body(e).reserved = Erased /\ Body(e).commit = Erased
           /\ Body(e).ext = ExtCrc(Body(e).seq, Body(e).state)
           /\ Body(e).idf = IdfCrc(Body(e).seq)
  <1>1. e.seq \in 0 .. SeqMax /\ Word[e.seq] \in SUBSET AllOnes
    <2>1. e.seq \in 0 .. SeqMax
      <3>1. e.seq \in Seqs
        BY DEF ToWrite
      <3>2. e.seq \in 1 .. SeqMax
        BY <3>1, EntryFlashAssumption
      <3> QED BY <3>2, OtadataAssumption
    <2> QED BY <2>1, NumberOfWord
  <1>2. StateBits(e.state) \in SUBSET AllOnes
    BY StateOfWord DEF ToWrite
  <1>3. /\ ExtCrc(Word[e.seq], StateBits(e.state)) \in
               {ExtCrc(a, b) : a, b \in SUBSET AllOnes}
        /\ IdfCrc(Word[e.seq]) \in {IdfCrc(a) : a \in SUBSET AllOnes}
    BY <1>1, <1>2
  <1>4. BLANK \in Raws
    BY DEF BLANK, Raws, Symbols
  <1> QED BY <1>1, <1>2, <1>3, <1>4 DEF Body, Raws, Symbols

\* Over a blank entry a body is programmed as it is.
LEMMA BodyProgrammed ==
    ASSUME NEW e \in ToWrite
    PROVE  Program(BLANK, Body(e)) = Body(e)
  <1>1. \A x : And(Erased, x) = x
    BY DEF And
  <1>2. \A bits \in SUBSET AllOnes : AllOnes \cap bits = bits
    OBVIOUS
  <1>3. Word[e.seq] \in SUBSET AllOnes /\ StateBits(e.state) \in SUBSET AllOnes
    BY BodyFacts
  <1> QED BY <1>1, <1>2, <1>3 DEF Program, BLANK, Body

\* The commit word is programmed over an erased one and touches nothing else.
LEMMA CommitProgrammed ==
    ASSUME NEW r \in Raws, r.commit = Erased
    PROVE  /\ Program(r, CommitWord) = Committed(r)
           /\ Committed(r) \in Raws
  <1> DEFINE p == Program(r, CommitWord)
  <1>1. And(Erased, COMMIT) = COMMIT /\ \A x : And(x, Erased) = x
    BY DEF And
  <1>2. \A bits \in SUBSET AllOnes : bits \cap AllOnes = bits
    OBVIOUS
  <1>3. p = [f \in {"seq", "format", "ext", "reserved", "commit", "state", "idf"} |->
                IF f = "commit" THEN COMMIT ELSE r[f]]
    BY <1>1, <1>2 DEF Program, CommitWord, BLANK, Raws
  <1> QED BY <1>3 DEF Committed, Raws, Symbols

\* Committing changes one word.
LEMMA CommittedWords ==
    ASSUME NEW r \in Raws
    PROVE  /\ Committed(r).seq = r.seq /\ Committed(r).state = r.state
           /\ Committed(r).format = r.format /\ Committed(r).reserved = r.reserved
           /\ Committed(r).ext = r.ext /\ Committed(r).idf = r.idf
           /\ Committed(r).commit = COMMIT
  BY DEF Committed, Raws

\* Committing what left the reserved bytes erased leaves the rest covered.
LEMMA CommitCovered ==
    ASSUME NEW r \in Raws, r.commit = Erased, r.reserved = Erased, Covered(r)
    PROVE  /\ Committed(r) \in Raws /\ Covered(Committed(r))
           /\ Committed(r).ext = r.ext
  BY CommittedWords, CommitProgrammed DEF Covered

\* What lies between two entries, word by word.
LEMMA BetweenFacts ==
    ASSUME NEW low \in Raws, NEW high \in Raws, NEW r \in Between(low, high)
    PROVE  /\ r \in Raws
           /\ low.seq \subseteq r.seq /\ low.state \subseteq r.state
           /\ r.seq \subseteq low.seq \cup high.seq /\ r.state \subseteq low.state \cup high.state
           /\ r.format \in {low.format, high.format, Torn}
           /\ r.ext \in {low.ext, high.ext, Torn}
           /\ r.reserved \in {low.reserved, high.reserved, Torn}
           /\ r.commit \in {low.commit, high.commit, Torn}
           /\ r.idf \in {low.idf, high.idf, Torn}
           /\ low.format = high.format => r.format = low.format
           /\ low.reserved = high.reserved => r.reserved = low.reserved
           /\ low.commit = high.commit => r.commit = low.commit
  <1>1. \A l, h, x : x \in SymbolsBetween(l, h) => x \in {l, h, Torn} /\ (l = h => x = l)
    BY DEF SymbolsBetween
  <1>2. \A l, h \in SUBSET AllOnes : \A x \in BitsBetween(l, h) :
            l \subseteq x /\ x \subseteq l \cup h /\ x \in SUBSET AllOnes
    BY DEF BitsBetween
  <1> QED BY <1>1, <1>2 DEF Between, Raws, Symbols

\* The three commands of an update.
LEMMA DoneFacts ==
    ASSUME NEW w
    PROVE  /\ Done(0, w) = BLANK
           /\ Done(1, w) = Program(raw, Body(w.entry))
           /\ Done(2, w) = Program(raw, CommitWord)
           /\ Partly(0, w) = Between(raw, BLANK) \cup Garbage
           /\ Partly(1, w) = Between(Done(1, w), raw)
           /\ Partly(2, w) = Between(Done(2, w), raw)
  BY DEF Done, Partly

\* A command cut towards erased words leaves the checksums covering theirs.
LEMMA ResidueKept ==
    ASSUME NEW low \in Raws, NEW high \in Raws, NEW r \in Between(low, high),
           Covered(low), high.ext \in {low.ext, Erased},
           high.reserved = Erased, high.commit = Erased
    PROVE  Covered(r)
  <1>1. ASSUME NEW a \in SUBSET AllOnes, NEW b \in SUBSET AllOnes, r.ext = ExtCrc(a, b)
        PROVE  a \subseteq r.seq /\ b \subseteq r.state
    <2>1. r.ext = low.ext
      BY <1>1, BetweenFacts, CrcFacts
    <2>2. a \subseteq low.seq /\ b \subseteq low.state
      BY <1>1, <2>1 DEF Covered
    <2> QED BY <2>2, BetweenFacts
  <1>2. ASSUME r.commit = COMMIT
        PROVE  r.reserved = Erased
    <2>1. low.commit = COMMIT
      BY <1>2, BetweenFacts, CrcFacts
    <2>2. low.reserved = Erased
      BY <2>1 DEF Covered
    <2> QED BY <2>2, BetweenFacts
  <1> QED BY <1>1, <1>2 DEF Covered

\* The body of an entry, a blank entry and garbage are covered.
LEMMA CoveredFacts ==
    /\ Covered(BLANK)
    /\ \A e \in ToWrite : Covered(Body(e))
    /\ \A r \in Garbage : r \in Raws /\ Covered(r)
    /\ \A r \in Foreign : r \in Raws /\ Covered(r)
  <1>1. Covered(BLANK)
    BY CrcFacts DEF Covered, BLANK
  <1>2. \A e \in ToWrite : Covered(Body(e))
    BY BodyFacts, CrcFacts DEF Covered
  <1>3. \A r \in Garbage : r \in Raws /\ Covered(r)
    BY CrcFacts DEF Garbage, Raws, Symbols, Covered
  <1>4. ASSUME NEW r \in Foreign
        PROVE  r \in Raws /\ Covered(r)
    <2>1. PICK n \in Seqs, state \in {AllOnes} \cup {StateBits(s) : s \in EntryStates} :
            r = [seq |-> Word[n], format |-> Erased, ext |-> Erased, reserved |-> Erased,
                 commit |-> Erased, state |-> state, idf |-> IdfCrc(Word[n])]
      BY <1>4 DEF Foreign
    <2>2. Word[n] \in SUBSET AllOnes
      <3>1. n \in 1 .. SeqMax
        BY EntryFlashAssumption
      <3> QED BY <3>1, NumberOfWord, OtadataAssumption
    <2>3. state \in SUBSET AllOnes
      BY StateOfWord
    <2>4. r \in Raws
      <3>1. IdfCrc(Word[n]) \in {IdfCrc(a) : a \in SUBSET AllOnes}
        BY <2>2
      <3> QED BY <2>1, <2>2, <2>3, <3>1 DEF Raws, Symbols
    <2>5. r.ext = Erased /\ r.commit = Erased
      BY <2>1
    <2> QED BY <2>4, <2>5, CrcFacts DEF Covered
  <1> QED BY <1>1, <1>2, <1>3, <1>4

-------------------------------------------------------------------------------
(***************************************************************************)
(* The invariant.                                                          *)
(***************************************************************************)

\* An update in progress writes an entry, over a body it can commit.
LEMMA UpdateFacts ==
    ASSUME FlashInv, step # 0
    PROVE  /\ update.entry \in ToWrite
           /\ step = 2 => /\ raw \in Raws /\ raw.commit = Erased /\ raw.reserved = Erased
                          /\ raw.ext \in {Body(update.entry).ext, Erased, Torn}
                          /\ Program(raw, CommitWord) = Committed(raw)
  <1>1. update.entry \in ToWrite
    BY DEF FlashInv, TypeOK, Updates, ToWrite
  <1>2. ASSUME step = 2
        PROVE  /\ raw \in Raws /\ raw.commit = Erased /\ raw.reserved = Erased
               /\ raw.ext \in {Body(update.entry).ext, Erased, Torn}
    <2>1. CASE torn
      <3>1. raw \in Between(Body(update.entry), BLANK)
        BY <1>2, <2>1 DEF FlashInv, BodyOverBlank
      <3>2. BLANK.commit = Erased /\ BLANK.reserved = Erased /\ BLANK.ext = Erased
        BY DEF BLANK
      <3> QED BY <1>1, <3>1, <3>2, BodyFacts, BetweenFacts
    <2>2. CASE ~torn
      <3>1. raw = Body(update.entry)
        BY <1>2, <2>2 DEF FlashInv, BodyOverBlank
      <3> QED BY <1>1, <3>1, BodyFacts
    <2> QED BY <2>1, <2>2
  <1> QED BY <1>1, <1>2, CommitProgrammed

\* What a cut command leaves is an entry whose residue is covered.
LEMMA CutFacts ==
    ASSUME FlashInv, NEW r \in Partly(step, update)
    PROVE  r \in Raws /\ Covered(r)
  <1>1. raw \in Raws /\ Covered(raw) /\ step \in 0 .. 2
    BY DEF FlashInv, TypeOK
  <1>2. BLANK.ext = Erased /\ BLANK.reserved = Erased /\ BLANK.commit = Erased /\ BLANK \in Raws
    BY DEF BLANK, Raws, Symbols
  <1>3. CASE step = 0
    <2>1. r \in Between(raw, BLANK) \/ r \in Garbage
      BY <1>3, DoneFacts
    <2> QED BY <1>1, <1>2, <2>1, BetweenFacts, ResidueKept, CoveredFacts
  <1>4. CASE step = 1
    <2>1. update.entry \in ToWrite /\ raw = BLANK
      BY <1>4, UpdateFacts DEF FlashInv, BodyOverBlank
    <2>2. r \in Between(Body(update.entry), BLANK)
      BY <1>4, <2>1, BodyProgrammed, DoneFacts
    <2> QED BY <1>2, <2>1, <2>2, BodyFacts, BetweenFacts, ResidueKept, CoveredFacts
  <1>5. CASE step = 2
    <2>1. raw.commit = Erased /\ raw.reserved = Erased
      BY <1>5, UpdateFacts
    <2>2. r \in Between(Committed(raw), raw)
      BY <1>5, UpdateFacts, DoneFacts
    <2>3. /\ Committed(raw) \in Raws /\ Covered(Committed(raw))
          /\ Committed(raw).ext = raw.ext
      BY <1>1, <2>1, CommitCovered
    <2> QED BY <1>1, <2>1, <2>2, <2>3, BetweenFacts, ResidueKept
  <1> QED BY <1>1, <1>3, <1>4, <1>5

LEMMA InitFlash == Init => FlashInv
  <1> SUFFICES ASSUME Init PROVE FlashInv
    OBVIOUS
  <1>1. BLANK \in Raws
    BY DEF BLANK, Raws, Symbols
  <1>2. raw \in Raws /\ Covered(raw)
    BY <1>1, CoveredFacts DEF Init
  <1>3. step = 0 /\ update = NoUpdate /\ torn = FALSE
    BY DEF Init
  <1>4. step \in 0 .. 2
    BY <1>3
  <1>5. torn \in BOOLEAN
    BY <1>3
  <1> QED BY <1>2, <1>3, <1>4, <1>5 DEF FlashInv, TypeOK, BodyOverBlank

LEMMA NextFlash == FlashInv /\ [Next]_vars => FlashInv'
  <1> SUFFICES ASSUME FlashInv, [Next]_vars PROVE FlashInv'
    OBVIOUS
  <1>1. /\ raw \in Raws /\ Covered(raw) /\ step \in 0 .. 2
        /\ step # 2 => torn = FALSE
    BY DEF FlashInv, TypeOK, BodyOverBlank
  <1>2. ASSUME raw' \in Raws, Covered(raw'), step' = 0, update' = NoUpdate, torn' = FALSE
        PROVE  FlashInv'
    <2>1. step' \in 0 .. 2
      BY <1>2
    <2>2. torn' \in BOOLEAN
      BY <1>2
    <2> QED BY <1>2, <2>1, <2>2 DEF FlashInv, TypeOK, BodyOverBlank
  <1>3. ASSUME NEW w \in Updates, Command(w)
        PROVE  FlashInv'
    <2>1. CASE step = 0
      <3>1. raw' = BLANK /\ step' = 1 /\ update' = w /\ torn' = FALSE
        BY <1>1, <1>3, <2>1, DoneFacts DEF Command
      <3>2. raw' \in Raws /\ Covered(raw')
        BY <3>1, CoveredFacts DEF BLANK, Raws, Symbols
      <3>3. step' \in 0 .. 2
        BY <3>1
      <3>6. torn' \in BOOLEAN
        BY <3>1
      <3>4. TypeOK'
        BY <1>3, <3>1, <3>2, <3>3, <3>6 DEF TypeOK
      <3>5. BodyOverBlank'
        BY <3>1 DEF BodyOverBlank
      <3> QED BY <3>2, <3>4, <3>5 DEF FlashInv
    <2>2. CASE step = 1
      <3>1. w = update /\ update.entry \in ToWrite /\ raw = BLANK
        BY <1>3, <2>2, UpdateFacts DEF FlashInv, BodyOverBlank, Command, Current
      <3>2. raw' = Body(update.entry) /\ step' = 2 /\ update' = update /\ torn' = FALSE
        BY <1>1, <1>3, <2>2, <3>1, BodyProgrammed, DoneFacts DEF Command
      <3>3. raw' \in Raws /\ Covered(raw')
        BY <3>1, <3>2, BodyFacts, CoveredFacts
      <3>4. step' \in 0 .. 2
        BY <3>2
      <3>7. torn' \in BOOLEAN
        BY <3>2
      <3>5. TypeOK'
        BY <1>3, <3>1, <3>2, <3>3, <3>4, <3>7 DEF TypeOK
      <3>6. BodyOverBlank'
        BY <3>2 DEF BodyOverBlank
      <3> QED BY <3>3, <3>5, <3>6 DEF FlashInv
    <2>3. CASE step = 2
      <3>1. raw.commit = Erased /\ raw.reserved = Erased
        BY <2>3, UpdateFacts
      <3>2. raw' = Committed(raw) /\ step' = 0 /\ update' = NoUpdate /\ torn' = FALSE
        BY <1>3, <2>3, UpdateFacts, DoneFacts DEF Command
      <3> QED BY <1>1, <1>2, <3>1, <3>2, CommitCovered
    <2> QED BY <1>1, <2>1, <2>2, <2>3
  <1>4. CASE Cut
    <2>1. raw' \in Raws /\ Covered(raw')
      BY <1>4, CutFacts DEF Cut
    <2> QED BY <1>2, <1>4, <2>1 DEF Cut
  <1>5. CASE TornBody
    <2>1. step = 1 /\ update \in Updates /\ update.entry \in ToWrite /\ raw = BLANK
      BY <1>5, UpdateFacts DEF TornBody, FlashInv, TypeOK, BodyOverBlank
    <2>2. raw' \in Between(Body(update.entry), BLANK)
      BY <1>5, <2>1, BodyProgrammed, DoneFacts DEF TornBody
    <2>3. raw' \in Raws /\ Covered(raw')
      BY <1>5, <2>1, CutFacts DEF TornBody
    <2>4. step' = 2 /\ update' = update /\ torn' = TRUE
      BY <1>5 DEF TornBody
    <2>5. step' \in 0 .. 2
      BY <2>4
    <2>8. torn' \in BOOLEAN
      BY <2>4
    <2>6. TypeOK'
      BY <2>1, <2>3, <2>4, <2>5, <2>8 DEF TypeOK
    <2>7. BodyOverBlank'
      BY <2>2, <2>4 DEF BodyOverBlank, Between
    <2> QED BY <2>3, <2>6, <2>7 DEF FlashInv
  <1>6. CASE UNCHANGED vars
    BY <1>6 DEF vars, FlashInv, TypeOK, BodyOverBlank, Covered, Between
  <1> QED BY <1>3, <1>4, <1>5, <1>6 DEF Next

\* What the code relies on between two commands, and over what an earlier cut has
\* left, holds in every state.
THEOREM ResidueSound == Spec => []FlashInv
  BY InitFlash, NextFlash, PTL DEF Spec

-------------------------------------------------------------------------------
(***************************************************************************)
(* What a sector reads as.                                                 *)
(***************************************************************************)

\* The whole entry reads as the one asked for, unless its sequence number is all ones.
LEMMA CommittedReads ==
    ASSUME NEW e \in ToWrite
    PROVE  DecodeRaw(Committed(Body(e))) = Decode(e)
  <1> DEFINE c == Committed(Body(e))
  <1>1. /\ c.seq = Word[e.seq] /\ c.state = StateBits(e.state)
        /\ c.format = Format /\ c.reserved = Erased /\ c.commit = COMMIT
        /\ c.ext = ExtCrc(c.seq, c.state) /\ c.idf = IdfCrc(c.seq)
    BY BodyFacts, CommittedWords
  <1>2. e.seq \in 1 .. SeqMax /\ e.state \in EntryStates /\ e = Entry(e.seq, e.state)
    BY EntryFlashAssumption DEF ToWrite, Entry
  <1>3. e.seq \in 0 .. SeqMax
    BY <1>2, OtadataAssumption
  <1> HIDE DEF c
  <1>4. CASE e.seq = SeqMax
    <2>1. ~Exact(c)
      BY <1>1, <1>4, WordAssumption DEF Exact
    <2>2. c # BLANK
      BY <1>1, CrcFacts DEF BLANK
    <2>3. Decode(e) = Corrupt
      BY <1>4, OtadataAssumption DEF Decode
    <2> QED BY <2>1, <2>2, <2>3, ReadsAs DEF c
  <1>5. CASE e.seq # SeqMax
    <2>1. Word[e.seq] \notin {{}, AllOnes}
      <3>1. 0 \in 0 .. SeqMax /\ SeqMax \in 0 .. SeqMax /\ e.seq # 0
        BY <1>2, OtadataAssumption
      <3> QED BY <1>3, <1>5, <3>1, WordAssumption
    <2>2. Exact(c)
      BY <1>1, <1>2, <2>1 DEF Exact
    <2>3. DecodeRaw(c) = Entry(e.seq, e.state)
      BY <1>1, <1>2, <1>3, <2>2, ExactIs
    <2>4. Decode(e) = e
      BY <1>2, <1>5, OtadataAssumption DEF Decode
    <2> QED BY <1>2, <2>3, <2>4 DEF c
  <1> QED BY <1>4, <1>5

\* Whatever the other words are, an entry that is exact under the checksum of what
\* was asked for is what was asked for.
LEMMA ReadsAsAsked ==
    ASSUME NEW r, NEW e \in ToWrite, Exact(r), r.ext \in {Body(e).ext, Erased, Torn}
    PROVE  DecodeRaw(r) = Decode(e)
  <1>1. e.seq \in 1 .. SeqMax /\ e.state \in EntryStates /\ e = Entry(e.seq, e.state)
    BY EntryFlashAssumption DEF ToWrite, Entry
  <1>2. e.seq \in 0 .. SeqMax
    BY <1>1, OtadataAssumption
  <1>3. r.ext = ExtCrc(r.seq, r.state)
    BY DEF Exact
  <1>4. r.seq = Word[e.seq] /\ r.state = StateBits(e.state)
    BY <1>3, CrcFacts, BodyFacts
  <1>5. DecodeRaw(r) = Entry(e.seq, e.state) /\ e.seq \in 1 .. SeqMax - 1
    BY <1>1, <1>2, <1>4, ExactIs
  <1> QED BY <1>1, <1>5 DEF Decode

\* A cut erase leaves no other entry than the one that was there.
LEMMA CutErase ==
    ASSUME NEW old \in Raws, Covered(old), NEW r \in Between(old, BLANK) \cup Garbage, Exact(r)
    PROVE  r = old
  <1>1. r.ext = ExtCrc(r.seq, r.state) /\ r.commit = COMMIT /\ r.format = Format
        /\ r.reserved = Erased /\ r.idf = IdfCrc(r.seq)
    BY DEF Exact
  <1>2. BLANK \in Raws /\ BLANK.ext = Erased /\ BLANK.commit = Erased
        /\ BLANK.format = Erased /\ BLANK.reserved = Erased /\ BLANK.idf = Erased
    BY DEF BLANK, Raws, Symbols
  <1>3. r \in Between(old, BLANK)
    BY <1>1, CrcFacts DEF Garbage
  <1>4. r \in Raws /\ old.seq \subseteq r.seq /\ old.state \subseteq r.state
    BY <1>2, <1>3, BetweenFacts
  <1>5. old.ext = r.ext /\ old.commit = r.commit /\ old.format = r.format /\ old.idf = r.idf
    <2>1. /\ r.ext \in {old.ext, Erased, Torn} /\ r.commit \in {old.commit, Erased, Torn}
          /\ r.format \in {old.format, Erased, Torn} /\ r.idf \in {old.idf, Erased, Torn}
      BY <1>2, <1>3, BetweenFacts
    <2> QED BY <1>1, <2>1, CrcFacts
  <1>6. r.seq \in SUBSET AllOnes /\ r.state \in SUBSET AllOnes
    BY <1>4 DEF Raws
  <1>7. r.seq \subseteq old.seq /\ r.state \subseteq old.state
    BY <1>1, <1>5, <1>6 DEF Covered
  <1>8. old.reserved = Erased
    BY <1>1, <1>5 DEF Covered
  <1>9. r.seq = old.seq /\ r.state = old.state /\ r.reserved = old.reserved
    BY <1>1, <1>4, <1>7, <1>8
  <1> QED BY <1>4, <1>5, <1>9 DEF Raws

LEMMA CommandReads ==
    ASSUME FlashInv, NEW w \in Updates, Command(w), ~torn
    PROVE  DecodeRaw(raw') = AfterCommand(step, w)
  <1>1. step \in 0 .. 2
    BY DEF FlashInv, TypeOK
  <1>2. CASE step = 0
    <2>1. raw' = BLANK
      BY <1>2, DoneFacts DEF Command
    <2> QED BY <1>2, <2>1, ReadsAs DEF AfterCommand
  <1>3. w.entry \in ToWrite
    BY DEF Updates, ToWrite
  <1>4. CASE step = 1
    <2>1. raw = BLANK
      BY <1>4 DEF FlashInv, BodyOverBlank
    <2>2. raw' = Body(w.entry)
      BY <1>3, <1>4, <2>1, DoneFacts, BodyProgrammed DEF Command
    <2>3. ~Exact(raw') /\ raw' # BLANK
      BY <1>3, <2>2, BodyFacts, CrcFacts DEF Exact, BLANK
    <2> QED BY <1>4, <2>3, ReadsAs DEF AfterCommand
  <1>5. CASE step = 2
    <2>1. w = update /\ raw = Body(w.entry)
      BY <1>5 DEF Command, Current, FlashInv, BodyOverBlank
    <2>2. raw' = Committed(Body(w.entry))
      BY <1>5, <2>1, UpdateFacts, DoneFacts DEF Command
    <2> QED BY <1>3, <1>5, <2>2, CommittedReads DEF AfterCommand
  <1> QED BY <1>1, <1>2, <1>4, <1>5

LEMMA CutReads ==
    ASSUME FlashInv, Cut, ~torn
    PROVE  DecodeRaw(raw') \in AfterCut(step, update, DecodeRaw(raw))
  <1>1. step \in 0 .. 2 /\ raw \in Raws /\ Covered(raw)
    BY DEF FlashInv, TypeOK
  <1>2. CASE step = 0
    <2>1. raw' \in Between(raw, BLANK) \cup Garbage
      BY <1>2, DoneFacts DEF Cut
    <2>2. Exact(raw') => raw' = raw
      BY <1>1, <2>1, CutErase
    <2>3. DecodeRaw(raw') \in {DecodeRaw(raw), Blank, Corrupt}
      BY <2>2, ReadsAs
    <2> QED BY <1>2, <2>3 DEF AfterCut
  <1>3. CASE step = 1
    <2>1. update.entry \in ToWrite /\ raw = BLANK
      BY <1>3, UpdateFacts DEF FlashInv, BodyOverBlank
    <2>2. raw' \in Between(Body(update.entry), BLANK)
      BY <1>3, <2>1, BodyProgrammed, DoneFacts DEF Cut
    <2>3. raw'.commit = Erased
      BY <2>1, <2>2, BodyFacts, BetweenFacts DEF BLANK
    <2>4. ~Exact(raw')
      BY <2>3, CrcFacts DEF Exact
    <2> QED BY <1>3, <2>4, ReadsAs DEF AfterCut
  <1>4. CASE step = 2
    <2>1. update.entry \in ToWrite /\ raw = Body(update.entry) /\ raw.commit = Erased
      BY <1>4, UpdateFacts DEF FlashInv, BodyOverBlank
    <2>2. raw' \in Between(Committed(raw), raw)
      BY <1>4, UpdateFacts, DoneFacts DEF Cut
    <2>3. raw'.ext \in {Body(update.entry).ext, Torn} /\ raw'.format = Format
      BY <1>1, <2>1, <2>2, BodyFacts, BetweenFacts, CommittedWords, CommitProgrammed
    <2>4. raw' # BLANK
      BY <2>3, CrcFacts DEF BLANK
    <2>5. Exact(raw') => DecodeRaw(raw') = Decode(update.entry)
      BY <2>1, <2>3, ReadsAsAsked
    <2> QED BY <1>4, <2>4, <2>5, ReadsAs DEF AfterCut
  <1> QED BY <1>1, <1>2, <1>3, <1>4

\* An entry that was not there before.
Appeared == IsEntry(DecodeRaw(raw')) /\ DecodeRaw(raw') # DecodeRaw(raw)

LEMMA NothingForged ==
    ASSUME FlashInv, Next, Appeared
    PROVE  step = 2 /\ DecodeRaw(raw') = Decode(update.entry)
  <1>1. step \in 0 .. 2 /\ raw \in Raws /\ Covered(raw)
    BY DEF FlashInv, TypeOK
  <1>2. Exact(raw')
    BY ReadsAs DEF Appeared
  <1>3. CASE step = 0
    <2>1. raw' \in {BLANK} \cup Between(raw, BLANK) \cup Garbage
      BY <1>3, DoneFacts DEF Next, Command, Cut, TornBody
    <2>2. raw' = raw
      BY <1>1, <1>2, <2>1, ReadsAs, CutErase
    <2> QED BY <2>2 DEF Appeared
  <1>4. CASE step = 1
    <2>1. update.entry \in ToWrite /\ raw = BLANK
      BY <1>4, UpdateFacts DEF FlashInv, BodyOverBlank
    <2>2. raw' = Body(update.entry) \/ raw' \in Between(Body(update.entry), BLANK)
      BY <1>4, <2>1, BodyProgrammed, DoneFacts DEF Next, Command, Current, Cut, TornBody
    <2>3. raw'.commit = Erased
      BY <2>1, <2>2, BodyFacts, BetweenFacts DEF BLANK
    <2> QED BY <1>2, <2>3, CrcFacts DEF Exact
  <1>5. CASE step = 2
    <2>1. update.entry \in ToWrite /\ raw.commit = Erased
          /\ raw.ext \in {Body(update.entry).ext, Erased, Torn}
      BY <1>5, UpdateFacts
    <2>2. raw' = Committed(raw) \/ raw' \in Between(Committed(raw), raw)
      <3>1. Program(raw, CommitWord) = Committed(raw)
        BY <1>5, UpdateFacts
      <3>2. CASE \E w \in Updates : Command(w)
        BY <1>5, <3>1, <3>2, DoneFacts DEF Command
      <3>3. CASE Cut
        BY <1>5, <3>1, <3>3, DoneFacts DEF Cut
      <3> QED BY <1>5, <3>2, <3>3 DEF Next, TornBody
    <2>3. raw'.ext \in {Body(update.entry).ext, Erased, Torn}
      BY <1>1, <2>1, <2>2, BetweenFacts, CommittedWords, CommitProgrammed
    <2> QED BY <1>2, <1>5, <2>1, <2>3, ReadsAsAsked
  <1> QED BY <1>1, <1>3, <1>4, <1>5

-------------------------------------------------------------------------------
\* A whole command leaves the sector reading as the boot chain takes it to read,
\* whatever earlier cuts had left in it.
THEOREM CommandsReadAs == Spec => CommandReadsAs
  <1>1. FlashInv /\ [Next]_vars =>
            [\A w \in Updates : Command(w) /\ ~torn =>
                DecodeRaw(raw') = AfterCommand(step, w)]_vars
    BY CommandReads
  <1> QED BY <1>1, ResidueSound, PTL DEF Spec, CommandReadsAs

\* So does a cut one.
THEOREM CutsReadAs == Spec => CutReadsAs
  <1>1. FlashInv /\ [Next]_vars =>
            [Cut /\ ~torn => DecodeRaw(raw') \in AfterCut(step, update, DecodeRaw(raw))]_vars
    BY CutReads
  <1> QED BY <1>1, ResidueSound, PTL DEF Spec, CutReadsAs

\* An entry appears only by the commit command and is the one asked for, also
\* when the commit word follows a body that was torn and not read back.
THEOREM NoForgery == Spec => NeverForged
  <1>1. FlashInv /\ [Next]_vars =>
            [LET c == DecodeRaw(raw') IN
             IsEntry(c) /\ c # DecodeRaw(raw) => step = 2 /\ c = Decode(update.entry)]_vars
    BY NothingForged DEF Appeared
  <1> QED BY <1>1, ResidueSound, PTL DEF Spec, NeverForged
===============================================================================
