----------------------------- MODULE BytecodeCheck -----------------------------
(***************************************************************************)
(* What bytecode a contract runs, as the deploy panel tells it: the look   *)
(* at the pinned artifact that gates a deployment (checkArtifact of        *)
(* lib/guard/guardOps.ts), the inspection of a guard                       *)
(* (lib/guard/wasmInspector.ts and the workers of lib/worker), and         *)
(* verifyWasmIdentity of lib/guard/chain.ts with the hashes it keeps       *)
(* (lib/guard/bytecodeCache.ts).                                           *)
(*                                                                         *)
(* A file of bytecode stands for its own hash.  Another provider may serve *)
(* other bytes for an address, and a contract may be upgraded.             *)
(***************************************************************************)
EXTENDS Naturals, Sequences, FiniteSets, SequencesExt, Folds

CONSTANTS
  Contracts, Phase1,  \* the contracts, and the one that runs the pinned artifact
  Files,              \* bytecode: [length, magic, sections], sections being their sizes
  Pinned,             \* of Files, what this build pins
  Entries,            \* MAX_ENTRIES of the cache
  MaxReads,           \* bounds the reads in flight
  Upgrades,           \* bounds the changes on the chain
  Nil

VARIABLES
  declared,    \* the file the ledger declares for a contract
  upgraded,    \* how often that changed
  kept,        \* the cache: [at, hash, old], the least recently used first
  reads,       \* reads of an identity in flight: [of, at, declared, live]
  checked,     \* the artifact on screen: [ok, declared, served], or Nil
  inspected,   \* the inspection: [at, cancelled, bytes, identity], or Nil
  report,      \* its report: [at, verdict, served, declared], or Nil
  fault        \* it ended with an error

bytecodeVars == <<declared, upgraded, kept, reads, checked, inspected, report, fault>>
panelVars == <<checked, inspected, report, fault>>
chainVars == <<declared, upgraded>>

Verdicts == {"verified", "unrecognized", "malformed"}

BytecodeTypes ==
  /\ declared \in [Contracts -> Files] /\ upgraded \in 0..Upgrades
  /\ Len(kept) <= Entries
  /\ \A i, j \in DOMAIN kept : kept[i].at = kept[j].at => i = j
  /\ \A r \in reads : r.of \in {"artifact", "inspection"} /\ r.at \in Contracts
  /\ checked = Nil \/ checked.ok \in BOOLEAN
  /\ inspected = Nil \/ inspected.at \in Contracts
  /\ report = Nil \/ report.verdict \in Verdicts
  /\ fault \in BOOLEAN

-----------------------------------------------------------------------------
(* Reading a file.                                                         *)

Header == 8

\* A section is an id, a size and what the size says, whatever is there.
Extent(f) == FoldSeq(LAMBDA size, end : end + 2 + size, Header, f.sections)

\* inspectWasm().
Readable(f) == f.length >= Header /\ f.magic /\ Extent(f) <= f.length

\* The worker walks the same sections; its promise rejects what is no module, and so
\* does a worker that breaks.
ParseFails(f) == f.length < Header \/ ~f.magic \/ ~(Extent(f) <= f.length)
Rejects(f, breaks) == breaks \/ ParseFails(f)

\* Mutant: what the ledger declares is not asked for.
MatchesAlone(served, ledger) == served = Pinned

\* The recomputed hash is the pinned one, and the ledger's claim agrees.
Matches(served, ledger) == served = Pinned /\ ledger \in {Nil, served}

\* buildIntegrityReport() of a readable file.
VerdictOf(served, ledger) == IF Matches(served, ledger) THEN "verified" ELSE "unrecognized"

-----------------------------------------------------------------------------
(* The cache.                                                              *)

At(c) == {i \in DOMAIN kept : kept[i].at = c}
Entry(c) == CHOOSE i \in At(c) : TRUE
Without(c) == IF At(c) = {} THEN kept ELSE RemoveAt(kept, Entry(c))

\* getCachedHash(): an old entry goes, a live one becomes the last used.
Live(c) == \E i \in At(c) : ~kept[i].old
Cached(c) == IF Live(c) THEN kept[Entry(c)].hash ELSE Nil
Touched(c) == IF Live(c) THEN Append(Without(c), kept[Entry(c)]) ELSE Without(c)

\* setCachedHash(): a full cache makes room for a new address.
Keep(c, f) ==
  LET room == IF At(c) = {} /\ Len(kept) = Entries THEN Tail(kept) ELSE Without(c)
  IN kept' = Append(room, [at |-> c, hash |-> f, old |-> FALSE])

Expire(i) ==
  /\ ~kept[i].old
  /\ kept' = [kept EXCEPT ![i].old = TRUE]
  /\ UNCHANGED <<chainVars, reads, panelVars>>

\* Mutant: whatever is cached is believed.
AnyHit(c, ledger) == Cached(c) # Nil

\* A cached hash that disagrees with what the ledger declares is not a hit.
Hit(c, ledger) == Cached(c) # Nil /\ Cached(c) = ledger

-----------------------------------------------------------------------------
(* The reads.                                                              *)

Init ==
  /\ declared \in [Contracts -> Files] /\ upgraded = 0
  /\ kept = <<>> /\ reads = {}
  /\ checked = Nil /\ inspected = Nil /\ report = Nil /\ fault = FALSE

Upgrade(c, f) ==
  /\ upgraded < Upgrades /\ f # declared[c]
  /\ declared' = [declared EXCEPT ![c] = f] /\ upgraded' = upgraded + 1
  /\ UNCHANGED <<kept, reads, panelVars>>

Begin(purpose, c) ==
  /\ Cardinality(reads) < MaxReads
  /\ reads' = reads \cup {[of |-> purpose, at |-> c, declared |-> Nil, live |-> TRUE]}

\* checkArtifact(): the hash, the length and the claim, all of them.
Check(hash, ledger, served) ==
  [ok |-> hash = Pinned /\ hash = ledger, declared |-> ledger, served |-> served]

\* What waits for a read learns its answer; served is Nil if it was not fetched.
\* The ledger's claim goes on to the inspection.
Answer(r, hash, ledger, served) ==
  IF ~r.live THEN UNCHANGED panelVars
  ELSE IF r.of = "artifact"
       THEN checked' = Check(hash, ledger, served) /\ UNCHANGED <<inspected, report, fault>>
       ELSE inspected' = [inspected EXCEPT !.identity = ledger]
            /\ UNCHANGED <<checked, report, fault>>

\* verifyWasmIdentity(): the instance first, and the cache with it.
InstanceRead(r) ==
  LET ledger == declared[r.at]
      hit == Hit(r.at, ledger)
  IN /\ r \in reads /\ r.declared = Nil
     /\ kept' = Touched(r.at)
     /\ reads' = (reads \ {r}) \cup (IF hit THEN {} ELSE {[r EXCEPT !.declared = ledger]})
     /\ IF hit THEN Answer(r, Cached(r.at), ledger, Nil) ELSE UNCHANGED panelVars
     /\ UNCHANGED chainVars

\* The bytes, which a provider serves; a read that timed out keeps them all the same.
BytesRead(r, f) ==
  /\ r \in reads /\ r.declared # Nil
  /\ reads' = reads \ {r}
  /\ Keep(r.at, f)
  /\ Answer(r, f, r.declared, f)
  /\ UNCHANGED chainVars

\* The read fails, or times out, and then goes on unheard.
ReadFails(r, late) ==
  /\ r \in reads /\ r.live
  /\ reads' = (reads \ {r}) \cup (IF late THEN {[r EXCEPT !.live = FALSE]} ELSE {})
  /\ IF r.of = "artifact" THEN checked' = Nil /\ UNCHANGED <<inspected, report, fault>>
     ELSE inspected' = Nil /\ fault' = TRUE /\ UNCHANGED <<checked, report>>
  /\ UNCHANGED <<chainVars, kept>>

-----------------------------------------------------------------------------
(* The panel.                                                              *)

\* The panel opens, or "Re-check": the chain is asked again.
CheckArtifact(again) ==
  /\ Begin("artifact", Phase1)
  /\ kept' = IF again THEN Without(Phase1) ELSE kept
  /\ UNCHANGED <<chainVars, panelVars>>

InspectBytecode(c) ==
  /\ inspected = Nil
  /\ Begin("inspection", c)
  /\ inspected' = [at |-> c, cancelled |-> FALSE, bytes |-> Nil, identity |-> Nil]
  /\ report' = Nil /\ fault' = FALSE
  /\ UNCHANGED <<chainVars, kept, checked>>

\* fetchContractWasm() beside the identity.
BytesFetched(f) ==
  /\ inspected # Nil /\ inspected.bytes = Nil
  /\ inspected' = [inspected EXCEPT !.bytes = f]
  /\ UNCHANGED <<chainVars, kept, reads, checked, report, fault>>

\* The identity of an inspection that failed is not waited for.
FetchFails ==
  /\ inspected # Nil /\ inspected.bytes = Nil
  /\ inspected' = Nil /\ fault' = TRUE
  /\ reads' = {IF r.of = "inspection" THEN [r EXCEPT !.live = FALSE] ELSE r : r \in reads}
  /\ UNCHANGED <<chainVars, kept, checked, report>>

\* The button says so, and nothing else changes: the workers are not told.
CancelInspect ==
  /\ inspected # Nil
  /\ inspected' = [inspected EXCEPT !.cancelled = TRUE]
  /\ UNCHANGED <<chainVars, kept, reads, checked, report, fault>>

\* buildIntegrityReportWithProgress().
Reported(breaks) ==
  /\ inspected # Nil /\ inspected.bytes # Nil /\ inspected.identity # Nil
  /\ inspected' = Nil
  /\ IF Rejects(inspected.bytes, breaks) THEN fault' = TRUE /\ UNCHANGED report
     ELSE /\ report' = [at |-> inspected.at, served |-> inspected.bytes,
                        verdict |-> VerdictOf(inspected.bytes, inspected.identity),
                        declared |-> inspected.identity]
          /\ UNCHANGED fault
  /\ UNCHANGED <<chainVars, kept, reads, checked>>

Next ==
  \/ \E i \in DOMAIN kept : Expire(i)
  \/ \E c \in Contracts : InspectBytecode(c) \/ \E f \in Files : Upgrade(c, f)
  \/ \E r \in reads : InstanceRead(r) \/ \E f \in Files : BytesRead(r, f)
  \/ \E r \in reads, late \in BOOLEAN : ReadFails(r, late)
  \/ \E yes \in BOOLEAN : CheckArtifact(yes) \/ Reported(yes)
  \/ \E f \in Files : BytesFetched(f)
  \/ FetchFails \/ CancelInspect

Spec == Init /\ [][Next]_bytecodeVars

-----------------------------------------------------------------------------
(* Properties.                                                             *)

(* The artifact is refused for what the chain said in that very read,      *)
(* never for a hash that was kept of another one, and accepted only when   *)
(* the ledger declares the pinned artifact.                                *)
RefusedForCause ==
  checked # Nil =>
    checked.ok = (checked.declared = Pinned /\ checked.served \in {Nil, Pinned})

(* "A verified badge requires the recomputed hash to equal the pinned one, *)
(* and the ledger's claim to agree", of one contract and in one            *)
(* inspection.                                                             *)
BadgeEarned ==
  report # Nil /\ report.verdict = "verified" =>
    report.served = Pinned /\ report.declared = Pinned /\ Readable(report.served)
=============================================================================
