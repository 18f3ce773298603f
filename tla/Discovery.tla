------------------------------ MODULE Discovery ------------------------------
(***************************************************************************)
(* The list of sealed agents (server/prooflock/discovery.ts): the events   *)
(* of a window of finalized blocks, the newest of each identity, and for   *)
(* each of those the lease and its evidence, read by a few workers at the  *)
(* last block of the window, whose hash is looked up before and behind.    *)
(***************************************************************************)
EXTENDS Integers, Sequences, FiniteSets

CONSTANTS
    Identities, NoSeal,
    Confirmations, Window, Cap, Concurrency, FromBlockFloor, \* DiscoveryOptions
    Blocks      \* bound: the length of the chain

VARIABLES
    chain,      \* the identity that each block seals or reseals, or NoSeal
    other,      \* what a reorganisation makes of it
    reorged,
    step,       \* the await that the handler is at
    boundary,   \* whether the hash of the last block was read from the other chain
    candidates, \* uniqueProofLocks: identity, block and version
    results,    \* of the candidates that a worker took, in their order
    failed      \* history: the candidates that a dependency failed for

vars == <<chain, other, reorged, step, boundary, candidates, results, failed>>

Chains == [1..Blocks -> Identities \cup {NoSeal}]
Shown == IF reorged THEN other ELSE chain
ToBlock == Blocks + 1 - Confirmations
Floor == IF FromBlockFloor > 1 THEN FromBlockFloor ELSE 1
FromBlock == IF ToBlock + 1 > Window + Floor THEN ToBlock + 1 - Window ELSE Floor

\* The version that the registry holds for an identity up to a block.
VersionAt(c, id, block) == Cardinality({n \in 1..block : c[n] = id})

Init ==
    /\ chain \in Chains /\ other = chain
    /\ reorged = FALSE /\ step = "boundary" /\ boundary = FALSE
    /\ candidates = << >> /\ results = << >> /\ failed = {}

World == UNCHANGED <<chain, other, reorged>>

-----------------------------------------------------------------------------
(* The handler *)

\* The head is behind: everything read from here on names a block number.
StableBoundary ==
    /\ step = "boundary" /\ step' = "logs" /\ boundary' = reorged
    /\ UNCHANGED <<candidates, results, failed>> /\ World

Events == {n \in FromBlock..ToBlock : Shown[n] # NoSeal}

\* uniqueProofLocks: of each identity its newest event.
UniqueProofLocks ==
    {n \in Events : \A m \in Events : m > n => Shown[m] # Shown[n]}

Candidate(n) == [id |-> Shown[n], block |-> n, version |-> VersionAt(Shown, Shown[n], n)]

\* Of some blocks the one with as many newer ones: they are listed from the newest on.
Newest(blocks, i) == CHOOSE n \in blocks : Cardinality({m \in blocks : m > n}) = i - 1

GetLogs ==
    /\ step = "logs" /\ step' = "same"
    /\ LET found == Cardinality(UniqueProofLocks) IN
         candidates' = [i \in 1..(IF found < Cap THEN found ELSE Cap) |-> Candidate(Newest(UniqueProofLocks, i))]
    /\ UNCHANGED <<boundary, results, failed>> /\ World

\* A slip: the boundary is not looked up again at the end.
AssertFirstBoundary ==
    /\ step \in {"same", "again"}
    /\ step' = IF step = "again" THEN "done" ELSE IF boundary # reorged THEN "unavailable" ELSE "enrich"
    /\ UNCHANGED <<boundary, candidates, results, failed>> /\ World

AssertSameBoundary ==
    /\ step \in {"same", "again"}
    /\ step' = IF boundary # reorged THEN "unavailable" ELSE IF step = "same" THEN "enrich" ELSE "done"
    /\ UNCHANGED <<boundary, candidates, results, failed>> /\ World

Busy == {i \in DOMAIN results : results[i].status \in {"lock", "detail"}}
At(i, status) == step = "enrich" /\ i \in DOMAIN results /\ results[i].status = status
Settle(i, status, version) ==
    /\ results' = [results EXCEPT ![i] = [status |-> status, version |-> version]]
    /\ UNCHANGED <<step, boundary, candidates>> /\ World

\* A worker of boundedMap takes the next candidate.
Take ==
    /\ step = "enrich" /\ Cardinality(Busy) < Concurrency /\ Len(results) < Len(candidates)
    /\ results' = Append(results, [status |-> "lock", version |-> 0])
    /\ UNCHANGED <<step, boundary, candidates, failed>> /\ World

\* enrich: the lease at the boundary must be the one that the event announced.
ReadProofLock(i) ==
    /\ At(i, "lock")
    /\ LET version == VersionAt(Shown, candidates[i].id, ToBlock) IN
         IF version = candidates[i].version THEN Settle(i, "detail", version)
         ELSE Settle(i, "ENRICHMENT_UNAVAILABLE", 0)
    /\ UNCHANGED failed

ReadProofLockDetail(i) ==
    /\ At(i, "detail") /\ Settle(i, "VERIFIED", results[i].version)
    /\ UNCHANGED failed

EnrichFails(i) ==
    /\ At(i, "lock") \/ At(i, "detail")
    /\ failed' = failed \cup {i} /\ Settle(i, "ENRICHMENT_UNAVAILABLE", 0)

Enriched ==
    /\ step = "enrich" /\ Busy = {} /\ Len(results) = Len(candidates)
    /\ step' = "again"
    /\ UNCHANGED <<boundary, candidates, results, failed>> /\ World

\* A read of the boundary or of the logs fails, or the deadline of the route strikes.
Unavailable ==
    /\ step \notin {"done", "unavailable"} /\ step' = "unavailable"
    /\ UNCHANGED <<boundary, candidates, results, failed>> /\ World

\* One block is replaced, a finalized one perhaps.
Reorg ==
    /\ ~reorged /\ reorged' = TRUE
    /\ \E n \in 1..Blocks, id \in Identities \cup {NoSeal} : other' = [chain EXCEPT ![n] = id]
    /\ UNCHANGED <<chain, step, boundary, candidates, results, failed>>

Next ==
    \/ StableBoundary \/ GetLogs \/ AssertSameBoundary \/ Take \/ Enriched \/ Unavailable \/ Reorg
    \/ \E i \in DOMAIN results : ReadProofLock(i) \/ ReadProofLockDetail(i) \/ EnrichFails(i)

Spec == Init /\ [][Next]_vars

-----------------------------------------------------------------------------
(* Properties *)

Announced(c) == {c[n] : n \in FromBlock..ToBlock} \ {NoSeal}

\* A list that is answered is the list of one chain, whatever reorganised while it was
\* put together by several workers: each identity once, with its current lease; none is
\* missing but those beyond the cap, and one is shown without evidence only when a read
\* of its own failed (discovery.ts:39-66).
ListIsOfOneChain ==
    step = "done" =>
      LET c == IF boundary THEN other ELSE chain IN
      /\ Len(results) = Len(candidates)
      /\ \A i, j \in DOMAIN candidates : i # j => candidates[i].id # candidates[j].id
      /\ \/ {candidates[i].id : i \in DOMAIN candidates} = Announced(c)
         \/ Len(candidates) = Cap /\ Cardinality(Announced(c)) > Cap
      /\ \A i \in DOMAIN results :
           /\ candidates[i].version = VersionAt(c, candidates[i].id, ToBlock)
           /\ results[i].status = IF i \in failed THEN "ENRICHMENT_UNAVAILABLE" ELSE "VERIFIED"
=============================================================================
