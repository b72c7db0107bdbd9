----------------------------- MODULE WriteSession -----------------------------
(***************************************************************************)
(* The streaming write of one artifact (src/src/artifact.rs): a session    *)
(* buffers what the storage has not made durable and hashes what it has.   *)
(* Around it, as the documentation of the crate describes its callers: a   *)
(* client that sends the artifact in one or several requests and resumes   *)
(* after a disconnection, a storage that takes what it likes, fails or     *)
(* reports nonsense, and restarts that lose the session.                   *)
(*                                                                         *)
(* A byte of the artifact is its own position, 1 .. Total; 0 is any other  *)
(* byte.  A digest is the sequence it is the digest of.                    *)
(***************************************************************************)
EXTENDS Integers, Sequences

CONSTANT Total    \* size of the artifact, and declared size of the session

ASSUME WriteSessionAssumption == Total \in Nat \ {0}

Bytes == 0 .. Total
Artifact == [i \in 1 .. Total |-> i]
ExpectedDigest == Artifact

VARIABLES
    active,     \* a live WriteSession exists
    received,   \* bytes accepted into it
    durable,    \* bytes the storage has reported durable
    pending,    \* the bytes offered to the storage and not yet durable
    hashed,     \* the bytes the hasher has been fed
    media,      \* what the storage holds at each position
    request,    \* the request being served: [claims, offset, end], or NoRequest
    position,   \* bytes of the artifact before the next one the client sends
    result      \* outcome of the last call

\* History variables, about the session: a byte was changed on its way here, the
\* storage answered against its contract, a resumption found a pending tail.
VARIABLES garbled, lied, spliced

session == <<active, received, durable, pending, hashed>>
history == <<garbled, lied, spliced>>
vars == <<active, received, durable, pending, hashed, media, request, position, result,
          garbled, lied, spliced>>

Requests == [claims : BOOLEAN, offset : 0 .. Total, end : 1 .. Total]
NoRequest == [claims |-> FALSE, offset |-> 0, end |-> 0]

Results == {"none", "ok", "Resync", "TooLarge", "Backend", "InvalidDurabilityReport",
            "Incomplete", "DigestMismatch", "Committed"}

TypeOK ==
    /\ active \in BOOLEAN
    /\ received \in 0 .. Total
    /\ durable \in 0 .. Total
    /\ pending \in Seq(Bytes)
    /\ hashed \in Seq(Bytes)
    /\ media \in [1 .. Total -> Bytes]
    /\ request \in Requests \cup {NoRequest}
    /\ position \in 0 .. Total
    /\ result \in Results
    /\ garbled \in BOOLEAN /\ lied \in BOOLEAN /\ spliced \in BOOLEAN

Init ==
    /\ active = FALSE
    /\ received = 0 /\ durable = 0 /\ pending = << >> /\ hashed = << >>
    /\ media = [i \in 1 .. Total |-> 0]
    /\ request = NoRequest
    /\ position = 0
    /\ result = "none"
    /\ garbled = FALSE /\ lied = FALSE /\ spliced = FALSE

-------------------------------------------------------------------------------
(***************************************************************************)
(* A request arrives: resume_plan, and is_complete when it has been read.  *)
(***************************************************************************)
\* Mutant: any offset already durable is taken.
ResumePlanBelow(claims, offset) ==
    IF ~claims \/ offset = 0 THEN "Begin"
    ELSE IF ~active \/ durable < offset THEN "Resync"
    ELSE "Continue"

ResumePlan(claims, offset) ==
    IF ~claims \/ offset = 0 THEN "Begin"
    ELSE IF ~active \/ durable # offset THEN "Resync"
    ELSE "Continue"

\* claimed_end, inclusive, is end - 1.
IsComplete(claims, end) == ~claims \/ end = Total

\* A new session replaces whatever was there.
Begin ==
    /\ active' = TRUE
    /\ received' = 0 /\ durable' = 0 /\ pending' = << >> /\ hashed' = << >>
    /\ garbled' = FALSE /\ lied' = FALSE /\ spliced' = FALSE

\* A request without a range is the whole artifact.
Request(r) ==
    /\ request = NoRequest
    /\ r.offset < r.end
    /\ ~r.claims => r.offset = 0 /\ r.end = Total
    /\ CASE ResumePlan(r.claims, r.offset) = "Begin" ->
              /\ Begin
              /\ request' = r
              /\ position' = 0
              /\ result' = "ok"
         [] ResumePlan(r.claims, r.offset) = "Continue" ->
              /\ request' = r
              /\ position' = r.offset
              /\ result' = "ok"
              /\ spliced' = (spliced \/ pending # << >>)
              /\ UNCHANGED <<session, garbled, lied>>
         [] OTHER ->
              /\ result' = "Resync"
              /\ UNCHANGED <<session, request, position, history>>
    /\ UNCHANGED media

-------------------------------------------------------------------------------
(***************************************************************************)
(* The storage: offered tail, it programs the first took bytes of it at    *)
(* offset durable and answers a watermark, or an error (-1).               *)
(***************************************************************************)
Failed == -1

Program(tail, took) ==
    media' = [i \in 1 .. Total |->
                IF i > durable /\ i <= durable + took THEN tail[i - durable] ELSE media[i]]

\* ArtifactStorage.write takes a prefix; ArtifactStorage.finish takes it all.
KeepsContract(call, tail, took, answer) ==
    \/ answer = Failed
    \/ answer = durable + took /\ (call = "finish" => took = Len(tail))

Storage(call, tail, took, answer) ==
    /\ Program(tail, took)
    /\ lied' = (lied \/ ~KeepsContract(call, tail, took, answer))

\* Mutants: the hashed prefix is not drained; all that was offered is hashed; the
\* watermark becomes the number of bytes consumed.
AdvanceUndrained(tail, answer) ==
    /\ hashed' = hashed \o SubSeq(tail, 1, answer - durable)
    /\ pending' = tail
    /\ durable' = answer
AdvanceHashesTail(tail, answer) ==
    /\ hashed' = hashed \o tail
    /\ pending' = SubSeq(tail, answer - durable + 1, Len(tail))
    /\ durable' = answer
AdvanceToConsumed(tail, answer) ==
    /\ hashed' = hashed \o SubSeq(tail, 1, answer - durable)
    /\ pending' = SubSeq(tail, answer - durable + 1, Len(tail))
    /\ durable' = answer - durable

\* advance: the answer is checked, then the newly durable prefix is hashed.
Trusted(tail, answer) == durable <= answer /\ answer - durable <= Len(tail)

Advance(tail, answer) ==
    /\ hashed' = hashed \o SubSeq(tail, 1, answer - durable)
    /\ pending' = SubSeq(tail, answer - durable + 1, Len(tail))
    /\ durable' = answer

-------------------------------------------------------------------------------
\* The next n bytes of the request, as they arrive; a call with none offers the
\* pending tail again.
Data(n) == {SubSeq(Artifact, position + 1, position + n), [i \in 1 .. n |-> 0]}

TooLargeByDurable(n) == durable + n > Total    \* mutant: the pending tail is forgotten
TooLarge(n) == received + n > Total

\* After an error the request is over; the caller keeps its session.
AppendData(data) ==
    /\ request # NoRequest
    /\ position + Len(data) <= request.end
    /\ IF TooLarge(Len(data))
       THEN /\ result' = "TooLarge"
            /\ request' = NoRequest
            /\ UNCHANGED <<session, media, position, history>>
       ELSE LET tail == pending \o data IN
            \E took \in 0 .. Len(tail), answer \in -1 .. Total + 1 :
              /\ Storage("write", tail, took, answer)
              /\ received' = received + Len(data)
              /\ position' = position + Len(data)
              /\ garbled' = (garbled \/ data # SubSeq(Artifact, position + 1, position + Len(data)))
              /\ IF answer # Failed /\ Trusted(tail, answer)
                 THEN /\ Advance(tail, answer)
                      /\ result' = "ok"
                      /\ UNCHANGED request
                 ELSE /\ pending' = tail
                      /\ result' = IF answer = Failed THEN "Backend"
                                   ELSE "InvalidDurabilityReport"
                      /\ request' = NoRequest
                      /\ UNCHANGED <<durable, hashed>>
              /\ UNCHANGED <<active, spliced>>

VerdictByLength(n, h) == IF n # Total THEN "Incomplete" ELSE "Committed"    \* mutant

\* The verdict on a session that has hashed h and has n durable bytes.
Verdict(n, h) ==
    IF n # Total THEN "Incomplete"
    ELSE IF h # ExpectedDigest THEN "DigestMismatch"
    ELSE "Committed"

\* The session is consumed, whatever the outcome.
Closed ==
    /\ active' = FALSE
    /\ received' = 0 /\ durable' = 0 /\ pending' = << >> /\ hashed' = << >>

Finish ==
    /\ request # NoRequest
    /\ position = request.end
    /\ IsComplete(request.claims, request.end)
    /\ Closed
    /\ request' = NoRequest
    /\ IF pending = << >>
       THEN /\ result' = Verdict(durable, hashed)
            /\ UNCHANGED <<media, lied>>
       ELSE \E took \in 0 .. Len(pending), answer \in -1 .. Total + 1 :
              /\ Storage("finish", pending, took, answer)
              /\ result' =
                   IF answer = Failed THEN "Backend"
                   ELSE IF ~Trusted(pending, answer) THEN "InvalidDurabilityReport"
                   ELSE IF answer # durable + Len(pending) THEN "Incomplete"
                   ELSE Verdict(answer, hashed \o pending)
    /\ UNCHANGED <<position, garbled, spliced>>

\* A request that does not reach the end of the artifact leaves the session open.
EndOfRequest ==
    /\ request # NoRequest
    /\ position = request.end
    /\ ~IsComplete(request.claims, request.end)
    /\ request' = NoRequest
    /\ UNCHANGED <<session, media, position, result, history>>

-------------------------------------------------------------------------------
Disconnect ==
    /\ request # NoRequest
    /\ request' = NoRequest
    /\ UNCHANGED <<session, media, position, result, history>>

\* The session lives in RAM only.
Restart ==
    /\ active
    /\ Closed
    /\ request' = NoRequest
    /\ UNCHANGED <<media, position, result, history>>

Next ==
    \/ \E r \in Requests : Request(r)
    \/ \E n \in 0 .. Total : position + n <= Total /\ \E data \in Data(n) : AppendData(data)
    \/ Finish
    \/ EndOfRequest
    \/ Disconnect
    \/ Restart

Spec == Init /\ [][Next]_vars

-------------------------------------------------------------------------------
\* received runs ahead of durable by exactly the pending tail, the hasher has
\* been fed as many bytes as are durable, and no more is buffered than the
\* declared size: through failures and lies of the storage alike.
Accounting ==
    /\ received = durable + Len(pending)
    /\ received <= Total
    /\ Len(hashed) = durable

\* What has been hashed is what the storage holds, byte by byte: "hashes exactly
\* the bytes that have become durable", without reading them back.
HashedIsStored ==
    ~lied => \A i \in 1 .. durable : hashed[i] = media[i]

\* When finish commits, the storage holds the artifact: whatever was garbled,
\* resumed, retried or left there by an earlier session.
CommittedIsStored ==
    result = "Committed" /\ ~lied => media = Artifact

\* The bytes of a session are a prefix of the artifact as long as it is only
\* resumed with nothing pending.
StreamIntact ==
    active /\ ~garbled /\ ~spliced => hashed \o pending = SubSeq(Artifact, 1, received)

\* The watermark never moves backward in a session, whatever the storage says.
WatermarkForward ==
    [][durable' < durable => received' = 0]_vars

\* A resumption that resume_plan answers Continue carries the stream on: "a
\* resumed stream must continue from durable" (artifact.rs), to which the
\* incoming bytes are appended; with a storage that keeps its contract.
ContinueKeepsStream ==
    active /\ ~garbled /\ ~lied => hashed \o pending = SubSeq(Artifact, 1, received)
===============================================================================
