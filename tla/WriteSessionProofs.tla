-------------------------- MODULE WriteSessionProofs ---------------------------
(***************************************************************************)
(* What WriteSession.tla promises of a session, for an artifact of any     *)
(* size, any chunking and any storage.                                     *)
(*                                                                         *)
(* One lemma about sequences carries it: splitting what was offered at the *)
(* watermark, and moving the head behind what is hashed, changes neither   *)
(* the stream as a whole nor any byte that was hashed before.              *)
(***************************************************************************)
EXTENDS WriteSession, SequenceTheorems, TLAPS

\* A request is served by a session; unless the session was resumed over a
\* pending tail, the client's next byte is the one after those received.
RequestServed == request # NoRequest => active
InStep == request # NoRequest /\ ~spliced => position = received

Inv ==
    /\ TypeOK /\ RequestServed /\ InStep
    /\ Accounting /\ HashedIsStored /\ CommittedIsStored /\ StreamIntact

-------------------------------------------------------------------------------
(***************************************************************************)
(* Sequences.                                                              *)
(***************************************************************************)

\* The artifact is a sequence of its positions.
LEMMA ArtifactFacts ==
    /\ Artifact \in Seq(Bytes) /\ Len(Artifact) = Total
    /\ \A i \in 1 .. Total : Artifact[i] = i
<1>1. Artifact \in [1 .. Total -> Bytes]
  BY WriteSessionAssumption DEF Artifact, Bytes
<1>2. Artifact \in Seq(Bytes)
  BY <1>1, WriteSessionAssumption, SeqDef
<1>3. DOMAIN Artifact = 1 .. Total
  BY DEF Artifact
<1> QED
  BY <1>2, <1>3, WriteSessionAssumption, LenProperties DEF Artifact

\* What arrives is as long as it says.
LEMMA DataFacts ==
    ASSUME NEW from \in Nat, NEW n \in Nat, from + n <= Total,
           NEW data \in {SubSeq(Artifact, from + 1, from + n), [i \in 1 .. n |-> 0]}
    PROVE  data \in Seq(Bytes) /\ Len(data) = n
<1>1. CASE data = SubSeq(Artifact, from + 1, from + n)
  <2>1. \A i \in from + 1 .. from + n : Artifact[i] \in Bytes
    BY ArtifactFacts, WriteSessionAssumption DEF Bytes
  <2>2. /\ SubSeq(Artifact, from + 1, from + n) \in Seq(Bytes)
        /\ Len(SubSeq(Artifact, from + 1, from + n))
             = IF from + 1 <= from + n THEN from + n - (from + 1) + 1 ELSE 0
    BY <2>1, SubSeqProperties
  <2> QED
    BY <1>1, <2>2
<1>2. CASE data = [i \in 1 .. n |-> 0]
  <2>1. data \in [1 .. n -> Bytes] /\ DOMAIN data = 1 .. n
    BY <1>2, WriteSessionAssumption DEF Bytes
  <2>2. data \in Seq(Bytes)
    BY <2>1, SeqDef
  <2> QED
    BY <2>1, <2>2, LenProperties
<1> QED
  BY <1>1, <1>2

\* Concatenation may be read from either side.
LEMMA Reassociate ==
    \A s, t, u \in Seq(Bytes) : (s \o t) \o u = s \o (t \o u)
<1> TAKE s, t, u \in Seq(Bytes)
<1> QED
  BY ConcatAssociative

\* What was hashed before the head of the tail is hashed, too, and what is left.
LEMMA SplitFacts ==
    ASSUME NEW h \in Seq(Bytes), NEW tail \in Seq(Bytes), NEW k \in 0 .. Len(tail)
    PROVE  /\ h \o SubSeq(tail, 1, k) \in Seq(Bytes)
           /\ Len(h \o SubSeq(tail, 1, k)) = Len(h) + k
           /\ SubSeq(tail, k + 1, Len(tail)) \in Seq(Bytes)
           /\ Len(SubSeq(tail, k + 1, Len(tail))) = Len(tail) - k
           /\ \A i \in 1 .. Len(h) : (h \o SubSeq(tail, 1, k))[i] = h[i]
           /\ \A i \in Len(h) + 1 .. Len(h) + k :
                (h \o SubSeq(tail, 1, k))[i] = tail[i - Len(h)]
           /\ (h \o SubSeq(tail, 1, k)) \o SubSeq(tail, k + 1, Len(tail)) = h \o tail
<1> DEFINE head == SubSeq(tail, 1, k)
           rest == SubSeq(tail, k + 1, Len(tail))
<1>0. Len(h) \in Nat /\ Len(tail) \in Nat
  BY LenProperties
<1>1. \A i \in 1 .. Len(tail) : tail[i] \in Bytes
  BY ElementOfSeq
<1>2. /\ head \in Seq(Bytes) /\ Len(head) = k
      /\ \A i \in 1 .. k : head[i] = tail[i]
  <2>1. \A i \in 1 .. k : tail[i] \in Bytes
    BY <1>0, <1>1
  <2>2. /\ head \in Seq(Bytes)
        /\ Len(head) = IF 1 <= k THEN k - 1 + 1 ELSE 0
        /\ \A i \in 1 .. k - 1 + 1 : head[i] = tail[1 + i - 1]
    BY <1>0, <2>1, SubSeqProperties
  <2> HIDE DEF head
  <2> QED
    BY <1>0, <2>2
<1>3. rest \in Seq(Bytes) /\ Len(rest) = Len(tail) - k
  <2>1. \A i \in k + 1 .. Len(tail) : tail[i] \in Bytes
    BY <1>0, <1>1
  <2>2. /\ rest \in Seq(Bytes)
        /\ Len(rest) = IF k + 1 <= Len(tail) THEN Len(tail) - (k + 1) + 1 ELSE 0
    BY <1>0, <2>1, SubSeqProperties
  <2> HIDE DEF rest
  <2> QED
    BY <1>0, <2>2
<1>4. head \o rest = tail
  <2>1. SubSeq(tail, 1, k) \o SubSeq(tail, k + 1, Len(tail)) = SubSeq(tail, 1, Len(tail))
    <3>1. 1 \in 1 .. Len(tail) + 1 /\ k \in 1 - 1 .. Len(tail) /\ Len(tail) \in k .. Len(tail)
      BY <1>0
    <3> QED
      BY <3>1, ConcatAdjacentSubSeq
  <2> QED
    BY <2>1, SubSeqFull
<1> HIDE DEF head, rest
<1>5. /\ h \o head \in Seq(Bytes) /\ Len(h \o head) = Len(h) + k
      /\ \A i \in 1 .. Len(h) + k : (h \o head)[i] = IF i <= Len(h) THEN h[i] ELSE head[i - Len(h)]
  BY <1>2, ConcatProperties
<1>6. (h \o head) \o rest = h \o tail
  <2>1. head \in Seq(Bytes) /\ rest \in Seq(Bytes)
    BY <1>2, <1>3
  <2>2. (h \o head) \o rest = h \o (head \o rest)
    BY <2>1, Reassociate, Zenon
  <2> QED
    BY <1>4, <2>2, Zenon
<1>7. \A i \in 1 .. Len(h) : (h \o head)[i] = h[i]
  BY <1>0, <1>5
<1>8. \A i \in Len(h) + 1 .. Len(h) + k : (h \o head)[i] = tail[i - Len(h)]
  BY <1>0, <1>2, <1>5
<1> QED
  BY <1>3, <1>5, <1>6, <1>7, <1>8 DEF head, rest

\* A session that has received nothing has an empty stream.
LEMMA EmptyFacts ==
    /\ << >> \in Seq(Bytes) /\ Len(<< >>) = 0
    /\ << >> \o << >> = << >> /\ SubSeq(Artifact, 1, 0) = << >>
<1>1. << >> \in Seq(Bytes) /\ Len(<< >>) = 0
  BY EmptySeq
<1>2. << >> \o << >> = << >>
  BY <1>1, ConcatEmptySeq
<1>3. SubSeq(Artifact, 1, 0) = << >>
  BY SubSeqEmpty
<1> QED
  BY <1>1, <1>2, <1>3

\* A prefix of the artifact and the bytes that follow it are a prefix.
LEMMA PrefixGrows ==
    ASSUME NEW r \in Nat, NEW n \in Nat, r + n <= Total
    PROVE  SubSeq(Artifact, 1, r) \o SubSeq(Artifact, r + 1, r + n) = SubSeq(Artifact, 1, r + n)
<1>1. 1 \in 1 .. Len(Artifact) + 1 /\ r \in 1 - 1 .. Len(Artifact) /\ r + n \in r .. Len(Artifact)
  BY ArtifactFacts, WriteSessionAssumption
<1> QED
  BY <1>1, ArtifactFacts, ConcatAdjacentSubSeq
-------------------------------------------------------------------------------
(***************************************************************************)
(* The invariant.                                                          *)
(***************************************************************************)

\* It holds before the first request.
LEMMA InitInv == Init => Inv
<1> SUFFICES ASSUME Init PROVE Inv
  OBVIOUS
<1>1. media \in [1 .. Total -> Bytes]
  BY WriteSessionAssumption DEF Init, Bytes
<1>2. pending \in Seq(Bytes) /\ hashed \in Seq(Bytes)
  BY EmptyFacts DEF Init
<1>3. TypeOK
  <2>1. received \in 0 .. Total /\ durable \in 0 .. Total /\ position \in 0 .. Total
    BY WriteSessionAssumption DEF Init
  <2> QED
    BY <1>1, <1>2, <2>1, Zenon DEF Init, TypeOK, Results
<1> QED
  BY <1>3, EmptyFacts, WriteSessionAssumption
  DEF Init, Inv, RequestServed, InStep, Accounting, HashedIsStored, CommittedIsStored, StreamIntact

\* A request arrives.
LEMMA RequestInv ==
    ASSUME Inv, NEW r \in Requests, Request(r)
    PROVE  Inv'
<1>1. media' = media /\ result' \in {"ok", "Resync"}
  BY DEF Request
<1>2. r.offset \in 0 .. Total /\ Len(pending) \in Nat
  BY LenProperties DEF Requests, Inv, TypeOK
<1>3. CASE Begin /\ request' = r /\ position' = 0
  <2>1. Accounting' /\ HashedIsStored' /\ StreamIntact'
    BY <1>3, EmptyFacts, WriteSessionAssumption
    DEF Begin, Accounting, HashedIsStored, StreamIntact
  <2>2. pending' \in Seq(Bytes) /\ hashed' \in Seq(Bytes)
    BY <1>3, EmptyFacts DEF Begin
  <2>3. received' \in 0 .. Total /\ durable' \in 0 .. Total /\ position' \in 0 .. Total
    BY <1>3, WriteSessionAssumption DEF Begin
  <2>4. TypeOK'
    BY <1>1, <1>3, <2>2, <2>3, Zenon DEF Inv, TypeOK, Begin, Results
  <2> QED
    BY <1>1, <1>3, <2>1, <2>4 DEF Inv, Begin, RequestServed, InStep, CommittedIsStored
<1>4. CASE /\ active /\ durable = r.offset /\ request' = r /\ position' = r.offset
           /\ spliced' = (spliced \/ pending # << >>)
           /\ UNCHANGED <<session, garbled, lied>>
  <2>1. pending = << >> => received = durable
    BY EmptySeq DEF Inv, TypeOK, Accounting
  <2> QED
    BY <1>1, <1>2, <1>4, <2>1
    DEF Inv, TypeOK, RequestServed, InStep, CommittedIsStored, Results, session,
        Accounting, HashedIsStored, StreamIntact
<1>5. CASE UNCHANGED <<session, request, position, history>>
  BY <1>1, <1>5
  DEF Inv, TypeOK, RequestServed, InStep, CommittedIsStored, Results, session, history,
      Accounting, HashedIsStored, StreamIntact
<1> QED
  BY <1>3, <1>4, <1>5 DEF Request, ResumePlan

\* A storage programs bytes, at most behind the watermark, where the tail was offered.
LEMMA ProgramFacts ==
    ASSUME TypeOK, NEW tail \in Seq(Bytes), NEW took \in 0 .. Len(tail),
           durable + Len(tail) <= Total, Program(tail, took)
    PROVE  /\ media' \in [1 .. Total -> Bytes]
           /\ \A i \in 1 .. durable : media'[i] = media[i]
           /\ \A i \in durable + 1 .. durable + took : media'[i] = tail[i - durable]
<1>1. durable \in Nat /\ Len(tail) \in Nat /\ took <= Len(tail) /\ durable <= Total
  BY LenProperties, WriteSessionAssumption DEF TypeOK
<1>2. \A i \in 1 .. Len(tail) : tail[i] \in Bytes
  BY ElementOfSeq
<1>3. \A i \in 1 .. Total :
         (IF i > durable /\ i <= durable + took THEN tail[i - durable] ELSE media[i]) \in Bytes
  <2> TAKE i \in 1 .. Total
  <2>1. i > durable /\ i <= durable + took => i - durable \in 1 .. Len(tail)
    BY <1>1, WriteSessionAssumption
  <2>2. media[i] \in Bytes
    BY DEF TypeOK
  <2> QED
    BY <1>2, <2>1, <2>2
<1>4. \A i \in 1 .. Total :
         media'[i] = IF i > durable /\ i <= durable + took THEN tail[i - durable] ELSE media[i]
  BY DEF Program
<1>5. media' \in [1 .. Total -> Bytes]
  BY <1>3 DEF Program
<1>6. \A i \in 1 .. durable : media'[i] = media[i]
  BY <1>1, <1>4, WriteSessionAssumption
<1>7. \A i \in durable + 1 .. durable + took : media'[i] = tail[i - durable]
  BY <1>1, <1>4, WriteSessionAssumption
<1> QED
  BY <1>5, <1>6, <1>7

\* Bytes are appended, and the storage answers.
LEMMA AppendInv ==
    ASSUME Inv, NEW n \in 0 .. Total, position + n <= Total,
           NEW data \in Data(n), AppendData(data)
    PROVE  Inv'
<1>1. /\ data \in Seq(Bytes) /\ Len(data) = n /\ n \in Nat
      /\ position \in Nat /\ durable \in Nat /\ received \in Nat /\ Total \in Nat
      /\ pending \in Seq(Bytes) /\ hashed \in Seq(Bytes) /\ Len(pending) \in Nat
      /\ Len(hashed) = durable /\ received = durable + Len(pending) /\ received <= Total
      /\ request # NoRequest /\ active
  <2>1. n \in Nat /\ position \in Nat /\ Total \in Nat
    BY WriteSessionAssumption DEF Inv, TypeOK
  <2>2. data \in Seq(Bytes) /\ Len(data) = n
    BY <2>1, DataFacts DEF Data
  <2> QED
    BY <2>1, <2>2, LenProperties, WriteSessionAssumption
    DEF Inv, TypeOK, Accounting, RequestServed, AppendData
<1>2. CASE TooLarge(Len(data))
  BY <1>2
  DEF Inv, TypeOK, AppendData, RequestServed, InStep, CommittedIsStored, Results, session,
      history, Accounting, HashedIsStored, StreamIntact
<1>3. CASE ~TooLarge(Len(data))
  <2> DEFINE tail == pending \o data
  <2>1. tail \in Seq(Bytes) /\ Len(tail) = Len(pending) + n /\ durable + Len(tail) <= Total
    BY <1>1, <1>3, ConcatProperties DEF TooLarge
  <2>2. PICK took \in 0 .. Len(tail), answer \in -1 .. Total + 1 :
          /\ Storage("write", tail, took, answer)
          /\ IF answer # Failed /\ Trusted(tail, answer)
             THEN /\ Advance(tail, answer)
                  /\ result' = "ok"
                  /\ UNCHANGED request
             ELSE /\ pending' = tail
                  /\ result' \in {"Backend", "InvalidDurabilityReport"}
                  /\ request' = NoRequest
                  /\ UNCHANGED <<durable, hashed>>
    BY <1>3 DEF AppendData
  <2>3. /\ received' = received + n /\ position' = position + n
        /\ garbled' = (garbled \/ data # SubSeq(Artifact, position + 1, position + n))
        /\ UNCHANGED <<active, spliced>>
    BY <1>1, <1>3 DEF AppendData
  <2>4. /\ media' \in [1 .. Total -> Bytes]
        /\ \A i \in 1 .. durable : media'[i] = media[i]
        /\ \A i \in durable + 1 .. durable + took : media'[i] = tail[i - durable]
    BY <2>1, <2>2, ProgramFacts DEF Storage, Inv
  <2>5. lied' = (lied \/ ~KeepsContract("write", tail, took, answer))
    BY <2>2 DEF Storage
  \* The stream as a whole is what it was, and the data.
  <2>6. active /\ ~garbled' /\ ~spliced => hashed \o tail = SubSeq(Artifact, 1, received + n)
    <3> SUFFICES ASSUME active, ~garbled', ~spliced
                 PROVE  hashed \o tail = SubSeq(Artifact, 1, received + n)
      OBVIOUS
    <3>1. data = SubSeq(Artifact, received + 1, received + n) /\ ~garbled
      BY <1>1, <2>3 DEF Inv, InStep
    <3>2. hashed \o pending = SubSeq(Artifact, 1, received)
      BY <3>1 DEF Inv, StreamIntact
    <3>3. (hashed \o pending) \o data = SubSeq(Artifact, 1, received + n)
      <4>1. received + n <= Total
        BY <1>1, <1>3 DEF TooLarge
      <4>2. SubSeq(Artifact, 1, received) \o SubSeq(Artifact, received + 1, received + n)
              = SubSeq(Artifact, 1, received + n)
        BY <1>1, <4>1, PrefixGrows
      <4> QED
        BY <3>1, <3>2, <4>2
    <3> QED
      BY <1>1, <3>3, Reassociate
  <2> HIDE DEF tail
  <2>7. CASE answer # Failed /\ Trusted(tail, answer)
    <3> DEFINE k == answer - durable
    <3>1. k \in 0 .. Len(tail) /\ durable' = answer /\ durable + k = answer
      BY <1>1, <2>1, <2>2, <2>7 DEF Trusted, Advance
    <3>2. hashed' = hashed \o SubSeq(tail, 1, k) /\ pending' = SubSeq(tail, k + 1, Len(tail))
      BY <2>2, <2>7 DEF Advance
    <3> HIDE DEF k
    <3>3. /\ hashed' \in Seq(Bytes) /\ Len(hashed') = durable + k
          /\ pending' \in Seq(Bytes) /\ Len(pending') = Len(tail) - k
          /\ \A i \in 1 .. durable : hashed'[i] = hashed[i]
          /\ \A i \in durable + 1 .. durable + k : hashed'[i] = tail[i - durable]
          /\ hashed' \o pending' = hashed \o tail
      <4>1. /\ hashed' \in Seq(Bytes) /\ Len(hashed') = Len(hashed) + k
            /\ pending' \in Seq(Bytes) /\ Len(pending') = Len(tail) - k
            /\ \A i \in 1 .. Len(hashed) : hashed'[i] = hashed[i]
            /\ \A i \in Len(hashed) + 1 .. Len(hashed) + k : hashed'[i] = tail[i - Len(hashed)]
            /\ hashed' \o pending' = hashed \o tail
        <5>1. hashed \in Seq(Bytes) /\ tail \in Seq(Bytes) /\ k \in 0 .. Len(tail)
          BY <1>1, <2>1, <3>1
        <5>2. /\ hashed \o SubSeq(tail, 1, k) \in Seq(Bytes)
              /\ Len(hashed \o SubSeq(tail, 1, k)) = Len(hashed) + k
              /\ SubSeq(tail, k + 1, Len(tail)) \in Seq(Bytes)
              /\ Len(SubSeq(tail, k + 1, Len(tail))) = Len(tail) - k
              /\ \A i \in 1 .. Len(hashed) : (hashed \o SubSeq(tail, 1, k))[i] = hashed[i]
              /\ \A i \in Len(hashed) + 1 .. Len(hashed) + k :
                   (hashed \o SubSeq(tail, 1, k))[i] = tail[i - Len(hashed)]
              /\ (hashed \o SubSeq(tail, 1, k)) \o SubSeq(tail, k + 1, Len(tail)) = hashed \o tail
          BY <5>1, SplitFacts, Zenon
        <5> QED
          BY <3>2, <5>2, Zenon
      <4> QED
        BY <1>1, <4>1
    <3>4. Accounting'
      <4>1. Len(pending') = Len(pending) + n - k /\ Len(hashed') = durable + k
        <5>1. Len(pending') = Len(tail) - k /\ Len(hashed') = durable + k
          BY <3>3, Zenon
        <5>2. Len(tail) = Len(pending) + n
          BY <2>1, Zenon
        <5>3. Len(pending) \in Nat /\ k \in Int
          BY <1>1, <2>1, <3>1
        <5> QED
          BY <5>1, <5>2, <5>3
      <4>2. durable' = durable + k /\ received' = durable + Len(pending) + n /\ k \in Int
        BY <1>1, <2>1, <2>3, <3>1
      <4>3. durable + Len(pending) + n <= Total
        BY <1>1, <2>1
      <4> QED
        BY <1>1, <4>1, <4>2, <4>3 DEF Accounting
    <3>5. HashedIsStored'
      <4> SUFFICES ASSUME ~lied', NEW i \in 1 .. durable' PROVE hashed'[i] = media'[i]
        BY DEF HashedIsStored
      <4>1. took = k /\ ~lied
        <5>1. ~lied /\ KeepsContract("write", tail, took, answer)
          BY <2>5
        <5>2. answer = durable + took
          BY <2>7, <5>1 DEF KeepsContract
        <5>3. took \in Int /\ k \in Int
          BY <1>1, <2>1, <2>2, <3>1
        <5> QED
          BY <1>1, <3>1, <5>1, <5>2, <5>3
      <4>2. CASE i \in 1 .. durable
        BY <4>1, <4>2, <2>4, <3>3 DEF Inv, HashedIsStored
      <4>3. CASE i \in durable + 1 .. durable + k
        BY <4>1, <4>3, <2>4, <3>3
      <4> QED
        BY <1>1, <3>1, <4>2, <4>3
    <3>6. StreamIntact'
      BY <2>3, <2>6, <3>3 DEF StreamIntact
    <3>7. TypeOK'
      <4>1. /\ received' \in 0 .. Total /\ durable' \in 0 .. Total /\ position' \in 0 .. Total
        BY <1>1, <2>1, <2>3, <3>1
      <4>2. result' \in Results /\ request' = request /\ lied' \in BOOLEAN /\ garbled' \in BOOLEAN
        BY <2>2, <2>3, <2>5, <2>7 DEF Results, Inv, TypeOK
      <4> QED
        BY <2>3, <2>4, <3>3, <4>1, <4>2, Zenon DEF Inv, TypeOK
    <3> QED
      BY <1>1, <2>2, <2>3, <2>7, <3>4, <3>5, <3>6, <3>7
      DEF Inv, RequestServed, InStep, CommittedIsStored
  <2>8. CASE ~(answer # Failed /\ Trusted(tail, answer))
    <3>1. /\ pending' = tail /\ request' = NoRequest /\ durable' = durable /\ hashed' = hashed
          /\ result' \in {"Backend", "InvalidDurabilityReport"}
      BY <2>2, <2>8
    <3>2. Accounting'
      <4>1. received' = durable + Len(tail) /\ received' <= Total
        BY <1>1, <2>1, <2>3
      <4> QED
        BY <1>1, <3>1, <4>1 DEF Accounting
    <3>3. HashedIsStored'
      BY <2>4, <2>5, <3>1 DEF Inv, HashedIsStored
    <3>4. StreamIntact'
      BY <2>3, <2>6, <3>1 DEF StreamIntact
    <3>5. TypeOK'
      <4>1. received' \in 0 .. Total /\ position' \in 0 .. Total
        BY <1>1, <2>1, <2>3
      <4>2. result' \in Results /\ lied' \in BOOLEAN /\ garbled' \in BOOLEAN
        BY <2>3, <2>5, <3>1 DEF Results, Inv, TypeOK
      <4> QED
        BY <2>1, <2>3, <2>4, <3>1, <4>1, <4>2, Zenon DEF Inv, TypeOK
    <3> QED
      BY <3>1, <3>2, <3>3, <3>4, <3>5 DEF Inv, RequestServed, InStep, CommittedIsStored
  <2> QED
    BY <2>7, <2>8
<1> QED
  BY <1>2, <1>3

\* Two sequences of the bytes of the artifact and of the storage agree.
LEMMA StoredWhole ==
    ASSUME NEW m \in [1 .. Total -> Bytes], NEW h,
           h = ExpectedDigest, \A i \in 1 .. Total : h[i] = m[i]
    PROVE  m = Artifact
<1>1. \A i \in 1 .. Total : m[i] = i
  BY ArtifactFacts DEF ExpectedDigest
<1>2. m = [i \in 1 .. Total |-> m[i]]
  OBVIOUS
<1> QED
  BY <1>1, <1>2 DEF Artifact

\* The session is finished: whatever the outcome, nothing is left of it, and it
\* has committed only if the storage holds the artifact.
LEMMA FinishInv == ASSUME Inv, Finish PROVE Inv'
<1>1. /\ active' = FALSE /\ received' = 0 /\ durable' = 0 /\ pending' = << >>
      /\ hashed' = << >> /\ request' = NoRequest
      /\ UNCHANGED <<position, garbled, spliced>>
  BY DEF Finish, Closed
<1>2. Accounting' /\ HashedIsStored' /\ StreamIntact'
  BY <1>1, EmptyFacts, WriteSessionAssumption DEF Accounting, HashedIsStored, StreamIntact
<1>3. /\ durable \in Nat /\ Total \in Nat /\ Len(pending) \in Nat /\ Len(hashed) = durable
      /\ pending \in Seq(Bytes) /\ hashed \in Seq(Bytes) /\ durable + Len(pending) <= Total
      /\ media \in [1 .. Total -> Bytes] /\ lied \in BOOLEAN
  BY LenProperties, WriteSessionAssumption DEF Inv, TypeOK, Accounting
<1>4. ASSUME media' \in [1 .. Total -> Bytes], lied' \in BOOLEAN, result' \in Results,
             CommittedIsStored'
      PROVE  Inv'
  <2>1. pending' \in Seq(Bytes) /\ hashed' \in Seq(Bytes)
    BY <1>1, EmptyFacts
  <2>2. received' \in 0 .. Total /\ durable' \in 0 .. Total
    BY <1>1, <1>3
  <2>3. TypeOK'
    BY <1>1, <1>4, <2>1, <2>2, Zenon DEF Inv, TypeOK
  <2> QED
    BY <1>1, <1>2, <1>4, <2>3 DEF Inv, RequestServed, InStep
<1>5. CASE pending = << >>
  <2>1. media' = media /\ lied' = lied /\ result' = Verdict(durable, hashed)
    BY <1>5 DEF Finish
  <2>2. CommittedIsStored'
    <3> SUFFICES ASSUME result' = "Committed", ~lied PROVE media = Artifact
      BY <2>1 DEF CommittedIsStored
    <3>1. durable = Total /\ hashed = ExpectedDigest
      BY <2>1 DEF Verdict
    <3>2. \A i \in 1 .. Total : hashed[i] = media[i]
      BY <3>1 DEF Inv, HashedIsStored
    <3> QED
      BY <1>3, <3>1, <3>2, StoredWhole
  <2> QED
    BY <1>3, <1>4, <2>1, <2>2 DEF Verdict, Results
<1>6. CASE pending # << >>
  <2>1. PICK took \in 0 .. Len(pending), answer \in -1 .. Total + 1 :
          /\ Storage("finish", pending, took, answer)
          /\ result' = IF answer = Failed THEN "Backend"
                       ELSE IF ~Trusted(pending, answer) THEN "InvalidDurabilityReport"
                       ELSE IF answer # durable + Len(pending) THEN "Incomplete"
                       ELSE Verdict(answer, hashed \o pending)
    BY <1>6 DEF Finish
  <2>2. /\ media' \in [1 .. Total -> Bytes]
        /\ \A i \in 1 .. durable : media'[i] = media[i]
        /\ \A i \in durable + 1 .. durable + took : media'[i] = pending[i - durable]
    BY <1>3, <2>1, ProgramFacts DEF Storage, Inv
  <2>3. lied' = (lied \/ ~KeepsContract("finish", pending, took, answer))
    BY <2>1 DEF Storage
  <2>4. CommittedIsStored'
    <3> SUFFICES ASSUME result' = "Committed", ~lied' PROVE media' = Artifact
      BY DEF CommittedIsStored
    <3>1. answer # Failed /\ answer = Total /\ answer = durable + Len(pending)
          /\ hashed \o pending = ExpectedDigest
      BY <2>1 DEF Verdict
    <3>2. ~lied /\ KeepsContract("finish", pending, took, answer)
      BY <2>3
    <3>3. took = Len(pending)
      BY <3>1, <3>2 DEF KeepsContract
    <3>4. \A i \in 1 .. Total : (hashed \o pending)[i]
                                 = IF i <= durable THEN hashed[i] ELSE pending[i - durable]
      BY <1>3, <3>1, ConcatProperties
    <3>5. \A i \in 1 .. Total : (hashed \o pending)[i] = media'[i]
      <4> TAKE i \in 1 .. Total
      <4>1. CASE i \in 1 .. durable
        BY <1>3, <2>2, <3>2, <3>4, <4>1 DEF Inv, HashedIsStored
      <4>2. CASE i \in durable + 1 .. durable + took
        BY <1>3, <2>2, <3>4, <4>2
      <4> QED
        BY <1>3, <3>1, <3>3, <4>1, <4>2
    <3> QED
      BY <2>2, <3>1, <3>5, StoredWhole
  <2>5. lied' \in BOOLEAN
    BY <2>3
  <2>6. result' \in Results
    BY <2>1 DEF Verdict, Results
  <2> QED
    BY <1>4, <2>2, <2>4, <2>5, <2>6
<1> QED
  BY <1>5, <1>6

\* A request ends, breaks off, or everything in RAM is lost.
LEMMA EndInv == ASSUME Inv, EndOfRequest \/ Disconnect \/ Restart PROVE Inv'
<1>1. CASE EndOfRequest \/ Disconnect
  BY <1>1
  DEF EndOfRequest, Disconnect, Inv, TypeOK, RequestServed, InStep, CommittedIsStored,
      session, history, Accounting, HashedIsStored, StreamIntact
<1>2. CASE Restart
  <2>1. /\ active' = FALSE /\ received' = 0 /\ durable' = 0 /\ pending' = << >>
        /\ hashed' = << >> /\ request' = NoRequest
        /\ UNCHANGED <<media, position, result, history>>
    BY <1>2 DEF Restart, Closed
  <2>2. Accounting' /\ HashedIsStored' /\ StreamIntact'
    BY <2>1, EmptyFacts, WriteSessionAssumption DEF Accounting, HashedIsStored, StreamIntact
  <2>3. pending' \in Seq(Bytes) /\ hashed' \in Seq(Bytes)
    BY <2>1, EmptyFacts
  <2>4. received' \in 0 .. Total /\ durable' \in 0 .. Total
    BY <2>1, WriteSessionAssumption
  <2>5. TypeOK'
    BY <2>1, <2>3, <2>4, Zenon DEF Inv, TypeOK, history
  <2> QED
    BY <2>1, <2>2, <2>5 DEF Inv, RequestServed, InStep, CommittedIsStored, history
<1> QED
  BY <1>1, <1>2

LEMMA StepInv == Inv /\ [Next]_vars => Inv'
<1> SUFFICES ASSUME Inv, [Next]_vars PROVE Inv'
  OBVIOUS
<1>1. ASSUME NEW r \in Requests, Request(r) PROVE Inv'
  BY <1>1, RequestInv
<1>2. ASSUME NEW n \in 0 .. Total, position + n <= Total, NEW d \in Data(n), AppendData(d)
      PROVE  Inv'
  BY <1>2, AppendInv
<1>3. CASE Finish
  BY <1>3, FinishInv
<1>4. CASE EndOfRequest \/ Disconnect \/ Restart
  BY <1>4, EndInv
<1>5. CASE UNCHANGED vars
  BY <1>5
  DEF vars, Inv, TypeOK, RequestServed, InStep, CommittedIsStored, Accounting,
      HashedIsStored, StreamIntact
<1> QED
  BY <1>1, <1>2, <1>3, <1>4, <1>5 DEF Next

LEMMA AlwaysInv == Spec => []Inv
BY InitInv, StepInv, PTL DEF Spec

-------------------------------------------------------------------------------
(***************************************************************************)
(* The theorems.                                                           *)
(***************************************************************************)

\* Every variable keeps its type, whatever the storage answers; received and durable
\* stay within the declared size. What bounds the pending tail is CountersAgree.
THEOREM TypeCorrect == Spec => []TypeOK
<1>1. Inv => TypeOK
  BY DEF Inv
<1> QED
  BY <1>1, AlwaysInv, PTL

\* The counters of artifact.rs, WriteSession, agree whatever fails: received is
\* durable plus the pending tail, at most the declared size, and the hasher has been
\* fed as many bytes as are durable. That they are the stored ones is HashCoversStored.
THEOREM CountersAgree == Spec => []Accounting
<1>1. Inv => Accounting
  BY DEF Inv
<1> QED
  BY <1>1, AlwaysInv, PTL

\* The hasher is fed exactly the bytes the storage holds (artifact.rs, advance).
THEOREM HashCoversStored == Spec => []HashedIsStored
<1>1. Inv => HashedIsStored
  BY DEF Inv
<1> QED
  BY <1>1, AlwaysInv, PTL

\* finish commits only the artifact (artifact.rs, finish).
THEOREM CommitIsWhole == Spec => []CommittedIsStored
<1>1. Inv => CommittedIsStored
  BY DEF Inv
<1> QED
  BY <1>1, AlwaysInv, PTL

\* Appended, split at any watermark and resumed, the stream stays what was sent.
THEOREM StreamKept == Spec => []StreamIntact
<1>1. Inv => StreamIntact
  BY DEF Inv
<1> QED
  BY <1>1, AlwaysInv, PTL

\* The watermark of a session never moves back (artifact.rs, advance).
THEOREM WatermarkMonotonic == Spec => WatermarkForward
<1> DEFINE Forward == durable' < durable => received' = 0
<1>1. TypeOK /\ [Next]_vars => [Forward]_vars
  <2> SUFFICES ASSUME TypeOK, Next, durable' < durable PROVE received' = 0
    BY DEF vars
  <2>1. durable \in Int
    BY DEF TypeOK
  <2>2. ~UNCHANGED durable
    BY <2>1
  <2>3. ASSUME NEW r \in Requests, Request(r) PROVE received' = 0
    BY <2>2, <2>3 DEF Request, Begin, session
  <2>4. ASSUME NEW d, AppendData(d) PROVE FALSE
    <3>1. PICK answer \in -1 .. Total + 1 :
             Trusted(pending \o d, answer) /\ Advance(pending \o d, answer)
      BY <2>2, <2>4 DEF AppendData, session
    <3> QED
      BY <2>1, <3>1, WriteSessionAssumption DEF Trusted, Advance
  <2>5. CASE Finish \/ Restart
    BY <2>5 DEF Finish, Restart, Closed
  <2>6. ~EndOfRequest /\ ~Disconnect
    BY <2>2 DEF EndOfRequest, Disconnect, session
  <2> QED
    BY <2>3, <2>4, <2>5, <2>6 DEF Next
<1> QED
  BY <1>1, TypeCorrect, PTL DEF Spec, WatermarkForward
===============================================================================
