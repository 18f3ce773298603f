---------------------------- MODULE ProofLocator ----------------------------
(***************************************************************************)
(* How the server finds the transaction that sealed a proof                *)
(* (createHistoricalProofLocator, server/prooflock/read-api.ts): from a    *)
(* hint of the client, or by searching the finalized blocks backwards in   *)
(* chunks, with a bounded cache of what was not found.  The chain grows    *)
(* and reorganises between the reads, finalized blocks included.           *)
(***************************************************************************)
EXTENDS Naturals, Sequences, FiniteSets, SequencesExt

CONSTANTS
    Proofs, NoProof,
    FromBlock, Confirmations, Lookback, ChunkBlocks, QueryBudget, \* ProofLocatorOptions
    NegativeTtl, NegativeMax,
    MaxHead, MaxReorgs

VARIABLES
    seals,    \* the proof that each block seals, or NoProof
    forks,    \* how often each block was replaced: its hash
    call,
    cache,    \* the negative answers, oldest first, with the time each has left
    reorgs

vars == <<seals, forks, call, cache, reorgs>>

Latest == Len(seals)
Pcs == {"idle", "scan", "receipt", "block", "done"}
Answers == {"none", "FOUND", "NOT_FOUND", "HINT_REQUIRED", "MISMATCH", "UNAVAILABLE"}
\* steady is a history variable: the searched proof stood in the searched blocks, unmoved,
\* since the call read the head.
Idle == [pc |-> "idle", proof |-> NoProof, hint |-> NoProof, finalized |-> 0, lower |-> 0,
         end |-> 0, queries |-> 0, match |-> <<0, 0>>, steady |-> FALSE, answer |-> "none"]

Where(p) == {n \in 1..Latest : seals[n] = p}

\* A proof is sealed by one transaction.
Init ==
    /\ seals \in {s \in [1..FromBlock -> Proofs \cup {NoProof}] :
                    \A m, n \in DOMAIN s : m # n /\ s[m] = s[n] => s[m] = NoProof}
    /\ forks = [n \in 1..FromBlock |-> 0]
    /\ call = Idle /\ cache = << >> /\ reorgs = 0

Max2(a, b) == IF a > b THEN a ELSE b
End(answer) == call' = [call EXCEPT !.pc = "done", !.answer = answer]
Reading == UNCHANGED <<seals, forks, reorgs>>

-----------------------------------------------------------------------------
(* The cache and the start of a call *)

Live(p) == {i \in DOMAIN cache : cache[i].proof = p /\ cache[i].left > 0}

\* get: an entry that has lapsed is deleted when it is asked for.
Forgotten(p) ==
    LET lapsed == {i \in DOMAIN cache : cache[i].proof = p /\ cache[i].left = 0}
    IN IF lapsed = {} THEN cache ELSE RemoveAt(cache, CHOOSE i \in lapsed : TRUE)

\* set: a full cache gives up its oldest entry, lapsed or not; a key keeps its place.
Remembered(p, kind) ==
    LET kept  == IF Len(cache) >= NegativeMax THEN Tail(cache) ELSE cache
        entry == [proof |-> p, kind |-> kind, left |-> NegativeTtl]
    IN IF \E i \in DOMAIN kept : kept[i].proof = p
       THEN [i \in DOMAIN kept |-> IF kept[i].proof = p THEN entry ELSE kept[i]]
       ELSE Append(kept, entry)

\* locateHistoricalProof up to its first await behind the head.
Locate(p, hint) ==
    LET finalized == IF Latest + 1 > Confirmations THEN Latest + 1 - Confirmations ELSE 0
        lower     == Max2(FromBlock, finalized + 1 - Lookback)
        begun     == [Idle EXCEPT !.proof = p, !.hint = hint, !.finalized = finalized, !.lower = lower,
                                  !.end = finalized,
                                  !.steady = Where(p) \cap lower..finalized # {}]
    IN /\ call.pc \in {"idle", "done"}
       /\ call' = IF finalized < FromBlock
                  THEN [begun EXCEPT !.pc = "done", !.answer = "UNAVAILABLE"]
                  ELSE IF hint # NoProof THEN [begun EXCEPT !.pc = "receipt"]
                  ELSE IF Live(p) # {}
                  THEN [begun EXCEPT !.pc = "done", !.steady = FALSE,
                                     !.answer = cache[CHOOSE i \in Live(p) : TRUE].kind]
                  ELSE [begun EXCEPT !.pc = "scan"]
       /\ cache' = IF hint = NoProof /\ finalized >= FromBlock THEN Forgotten(p) ELSE cache
       /\ Reading

-----------------------------------------------------------------------------
(* The search *)

Matches(from, to) == {n \in from..to : n <= Latest /\ seals[n] = call.proof}

\* One getLogs of scanHistorical; two matches in one answer are a mismatch, which one
\* chain cannot show.
ScanNext ==
    /\ call.pc = "scan" /\ call.end >= call.lower /\ call.queries < QueryBudget
    /\ LET start == Max2(call.lower, call.end + 1 - ChunkBlocks)
           found == Matches(start, call.end)
       IN call' = IF found # {} THEN [call EXCEPT !.pc = "receipt",
                                        !.match = LET n == CHOOSE n \in found : TRUE IN <<n, forks[n]>>]
                  ELSE [call EXCEPT !.end = start - 1, !.queries = @ + 1]
    /\ UNCHANGED cache /\ Reading

\* Nothing found: blocks that were not searched ask for a hint.
ScanEnds ==
    /\ call.pc = "scan" /\ (call.end < call.lower \/ call.queries = QueryBudget)
    /\ LET kind == IF call.lower > FromBlock THEN "HINT_REQUIRED" ELSE "NOT_FOUND" IN
         /\ cache' = Remembered(call.proof, kind)
         /\ End(kind)
    /\ Reading

\* The receipt of the transaction that was found or named: a transaction that is in
\* no block now has none, and one of another proof has no such log.
GetReceipt ==
    LET tx      == IF call.hint = NoProof THEN call.proof ELSE call.hint
        blocks  == Where(tx)
        receipt == LET n == CHOOSE n \in blocks : TRUE IN <<n, forks[n]>>
        match   == IF call.hint = NoProof THEN call.match ELSE receipt
    IN /\ call.pc = "receipt"
       /\ IF blocks = {} \/ tx # call.proof
          THEN End(IF call.hint = NoProof THEN "UNAVAILABLE" ELSE "NOT_FOUND")
          ELSE IF match[1] > call.finalized THEN End("UNAVAILABLE")
          ELSE IF match # receipt THEN End("MISMATCH")
          ELSE call' = [call EXCEPT !.pc = "block", !.match = match]
       /\ UNCHANGED cache /\ Reading

\* A slip: the block of the receipt is not looked up.
TrustReceipt ==
    /\ call.pc = "block" /\ End("FOUND")
    /\ UNCHANGED cache /\ Reading

GetBlock ==
    /\ call.pc = "block"
    /\ End(IF call.match[1] > Latest THEN "UNAVAILABLE"
           ELSE IF forks[call.match[1]] # call.match[2] THEN "MISMATCH" ELSE "FOUND")
    /\ UNCHANGED cache /\ Reading

\* The node fails, or the client or its deadline aborts the read: nothing is cached.
ReadFails ==
    /\ call.pc \in {"scan", "receipt", "block"} /\ End("UNAVAILABLE")
    /\ UNCHANGED cache /\ Reading

-----------------------------------------------------------------------------
(* The chain and the clock *)

NewBlock(p) ==
    /\ Latest < MaxHead /\ (p # NoProof => Where(p) = {})
    /\ seals' = Append(seals, p) /\ forks' = Append(forks, reorgs)
    /\ UNCHANGED <<call, cache, reorgs>>

\* Blocks from n on are replaced by others that may seal the same proofs elsewhere.
Reorg(n, contents) ==
    /\ reorgs < MaxReorgs /\ reorgs' = reorgs + 1
    /\ seals' = [m \in 1..Latest |-> IF m < n THEN seals[m] ELSE contents[m]]
    /\ \A i, j \in 1..Latest : i # j /\ seals'[i] = seals'[j] => seals'[i] = NoProof
    /\ forks' = [m \in 1..Latest |-> IF m < n THEN forks[m] ELSE reorgs + 1]
    /\ call' = [call EXCEPT !.steady = @ /\ \E m \in call.lower..call.finalized :
                                             m < n /\ seals[m] = call.proof]
    /\ UNCHANGED cache

Tick ==
    /\ cache' = [i \in DOMAIN cache |-> [cache[i] EXCEPT !.left = IF @ = 0 THEN 0 ELSE @ - 1]]
    /\ cache' # cache
    /\ UNCHANGED call /\ Reading

CallStep == ScanNext \/ ScanEnds \/ GetReceipt \/ GetBlock \/ ReadFails
            \/ \E p \in Proofs, hint \in Proofs \cup {NoProof} : Locate(p, hint)
Network == (\E p \in Proofs \cup {NoProof} : NewBlock(p))
           \/ \E n \in 1..Latest : \E contents \in [n..Latest -> Proofs \cup {NoProof}] : Reorg(n, contents)

Next == CallStep \/ Network \/ Tick

Spec == Init /\ [][Next]_vars

-----------------------------------------------------------------------------
(* Properties *)

\* What the locator answers is so: a proof that it found is in a finalized block of the
\* chain it just looked at, and a proof that it denies after a search did not stand
\* unmoved in the searched blocks, whatever the chain does between the reads and
\* however the range divides into chunks (read-api.ts:383-467).
AnswersTruly ==
    [][call.pc # "done" /\ call'.pc = "done" =>
         /\ call'.answer = "FOUND" =>
              /\ call.match[1] <= call.finalized
              /\ call.match[1] <= Latest /\ seals[call.match[1]] = call.proof
         /\ call'.answer \in {"NOT_FOUND", "HINT_REQUIRED"} /\ call.hint = NoProof => ~call.steady]_vars
=============================================================================
