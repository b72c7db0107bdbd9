-------------------------- MODULE BootChainInvariant --------------------------
(***************************************************************************)
(* The inductive invariants behind the safety of the boot chain: what is   *)
(* true of the updates still to be made and of the image being run.        *)
(* BootChainProofs.tla proves them; they are model-checked as well.        *)
(***************************************************************************)
EXTENDS BootChain

-------------------------------------------------------------------------------
(***************************************************************************)
(* Trust.                                                                  *)
(***************************************************************************)

\* Only the bootloader and the application have updates to make, and only an
\* update in progress has commands done.
QueueOK ==
    /\ queue = << >> => step = 0
    /\ phase \in {"off", "halt"} => queue = << >>

\* A Pending entry is that of the image being run; while the bootloader is not
\* done it may also be one that is about to be rewritten.
PendingIsRun ==
    \A s \in Sectors :
        Pending(flash[s]) =>
            /\ phase = "boot" =>
                 \/ boot.kind = "slot" /\ flash[s].seq = boot.seq
                 \/ \E i \in DOMAIN queue : queue[i].sector = s
            /\ phase = "app" => flash[s].seq = boot.seq

\* An update that marks an entry Pending is the bootloader's, for the image it
\* is about to start.
PendingWrites ==
    \A i \in DOMAIN queue :
        queue[i].entry.state = "pending" =>
            phase = "boot" /\ boot.kind = "slot" /\ queue[i].entry.seq = boot.seq

\* An update that makes an entry Valid is alone, and for a proven image, which
\* is the one being run.
ValidWrites ==
    \A i \in DOMAIN queue :
        queue[i].entry.state = "valid" =>
            /\ Len(queue) = 1
            /\ queue[i].entry.seq \in proven
            /\ boot.kind = "slot" /\ queue[i].entry.seq = boot.seq

TrustInv ==
    /\ QueueOK
    /\ PendingIsRun
    /\ PendingWrites
    /\ ValidWrites
    /\ 1 \in proven
    /\ EarnedTrust

-------------------------------------------------------------------------------
(***************************************************************************)
(* The fallback, as long as no image goes bad or is misread.               *)
(***************************************************************************)

\* The entry last committed as Valid is in a sector no update is about to touch.
FallbackUntouched ==
    lastValid # 0 =>
        \E s \in Sectors : /\ flash[s] = Entry(lastValid, "valid")
                           /\ \A i \in DOMAIN queue : queue[i].sector # s

\* It selects a bootable image that may be trusted; before there is one, nothing
\* but the seed is on its way to sectors that hold no entry.
FallbackBootable ==
    /\ lastValid # 0 => SlotOf(lastValid) \in images \cap vetted
    /\ lastValid = 0 =>
         /\ 0 \in vetted
         /\ FirstBoot(flash)
         /\ \A i \in DOMAIN queue : queue[i].entry.state = "valid"

\* It is the highest Valid entry; everything unconfirmed, in the flash or on its
\* way there, is above it.
FallbackOrder ==
    /\ \A s \in Sectors :
         /\ Valid(flash[s]) => flash[s].seq <= lastValid
         /\ Unproven(flash[s]) \/ Pending(flash[s]) => flash[s].seq > lastValid
    /\ \A i \in DOMAIN queue :
         queue[i].entry.state \in {"new", "pending", "valid"} => queue[i].entry.seq > lastValid

\* The image being run is bootable; if it runs as Valid, it is the fallback.
RunningBootable ==
    phase \in {"boot", "app"} /\ boot.kind = "slot" =>
        /\ boot.slot = SlotOf(boot.seq)
        /\ boot.slot \in images
        /\ flash[boot.sector] = Entry(boot.seq, "valid") => boot.seq = lastValid
        /\ \A i \in DOMAIN queue : queue[i].entry.state = "valid" => boot.slot \in vetted

FallbackInv ==
    faults = 0 => /\ FallbackUntouched
                /\ FallbackBootable
                /\ FallbackOrder
                /\ RunningBootable

-------------------------------------------------------------------------------
(***************************************************************************)
(* The candidate, whatever goes bad.                                       *)
(***************************************************************************)

\* No two sectors have, or are about to have, the same sequence number.
SeqsApart ==
    /\ DistinctSeqs
    /\ \A i \in DOMAIN queue : \A s \in Sectors :
         IsEntry(flash[s]) /\ s # queue[i].sector => flash[s].seq # queue[i].entry.seq
    /\ \A i, j \in DOMAIN queue :
         queue[i].sector # queue[j].sector => queue[i].entry.seq # queue[j].entry.seq

InTrial(c) == Unproven(c) \/ Pending(c)

\* What the sequence number seq in sector s would fall back to is there.
Backed(s, seq) == Valid(flash[Other(s)]) /\ flash[Other(s)].seq < seq

\* An unconfirmed entry, in the flash or on its way there, is above the Valid
\* one, and no update of the same queue touches that one.
CandidateBacked ==
    /\ \A s \in Sectors : InTrial(flash[s]) => Backed(s, flash[s].seq)
    /\ \A i \in DOMAIN queue :
         queue[i].entry.state \in {"new", "pending"} =>
             /\ Backed(queue[i].sector, queue[i].entry.seq)
             /\ \A j \in DOMAIN queue : queue[j].sector = queue[i].sector

\* Its own sector is updated before the one it would fall back to.
CandidateFirst ==
    \A s \in Sectors :
        InTrial(flash[s]) /\ queue # << >> => Head(queue).sector = s

\* What has not run has not been tried.
NewUntried ==
    /\ \A s \in Sectors : Unproven(flash[s]) => flash[s].seq \notin tried
    /\ \A i \in DOMAIN queue :
         queue[i].entry.state = "new" => queue[i].entry.seq \notin tried

\* The bootloader rewrites every New entry before it launches, and starts what
\* its sector says: a candidate not tried yet, a Valid entry it leaves alone, or
\* the seed it is writing.
BootPlan ==
    phase = "boot" =>
        /\ \A s \in Sectors : Unproven(flash[s]) => queue # << >>
        /\ \A i \in DOMAIN queue : queue[i].entry.state # "new"
        /\ boot.kind = "slot" =>
             /\ IsEntry(flash[boot.sector]) => flash[boot.sector].seq = boot.seq
             /\ \A i \in DOMAIN queue :
                  queue[i].sector = boot.sector => queue[i].entry.seq = boot.seq
             /\ \/ boot.seq \notin tried
                \/ /\ Valid(flash[boot.sector])
                   /\ \A i \in DOMAIN queue : queue[i].sector # boot.sector
                \/ boot.sector = 0 /\ queue = << Write(0, 1, "valid") >>

NothingRunsOff == phase = "off" => boot = NoBoot

CandidateInv ==
    /\ SeqsApart
    /\ CandidateBacked
    /\ CandidateFirst
    /\ NewUntried
    /\ BootPlan
    /\ NothingRunsOff

-------------------------------------------------------------------------------
(***************************************************************************)
(* What the refinement of TrialUpdate needs to know of the updates.        *)
(***************************************************************************)

\* An update begun has erased its sector, and there is one update a sector.
UpdatesApart ==
    /\ step # 0 => ~IsEntry(flash[Head(queue).sector])
    /\ \A i, j \in DOMAIN queue : queue[i].sector = queue[j].sector => i = j

\* Only a New entry is marked Pending, only a Pending one becomes Valid, each
\* under its own sequence number.
RewritesInPlace ==
    \A i \in DOMAIN queue :
        LET now == flash[queue[i].sector]
        IN  IsEntry(now) =>
              /\ queue[i].entry.state = "pending" =>
                   Unproven(now) /\ now.seq = queue[i].entry.seq
              /\ queue[i].entry.state = "valid" =>
                   Pending(now) /\ now.seq = queue[i].entry.seq

\* What is being tried was launched, what is being confirmed was tried, and the
\* seed is number one.
TrialRan ==
    /\ \A s \in Sectors :
         phase = "app" /\ Pending(flash[s]) => flash[s].seq \in tried
    /\ faults = 0 =>
         \A i \in DOMAIN queue :
             queue[i].entry.state = "valid" =>
                 IF lastValid = 0 THEN queue[i].entry.seq = 1 ELSE queue[i].entry.seq \in tried

UpdateInv == UpdatesApart /\ RewritesInPlace /\ TrialRan

IInv == TypeOK /\ TrustInv /\ FallbackInv /\ CandidateInv /\ UpdateInv
===============================================================================
