-------------------------- MODULE StorageRecovery --------------------------
(***************************************************************************)
(* Finding the upload of a sealed root again (storage-recovery.ts).  The   *)
(* Flow contract's Submit events are read backwards from the head in       *)
(* chunks, newest event first, until one settles the search.  What an      *)
(* event is to the search is one of Kinds; a block holds at most one event *)
(* here.  result.kind is "found" (at result.block), "mismatch",            *)
(* "dependency" (nothing to trust was found, or not yet) or "aborted".     *)
(***************************************************************************)
EXTENDS Integers, FiniteSetsExt

CONSTANTS
    FromBlock,      \* where the Flow contract starts
    Heads,          \* heads the chain may have when the search starts
    Chunk,          \* CHUNK
    Confirmations

\* "canonical": the upload the sealed artifact names.  "duplicate": the root again, sent
\* to Flow by someone.  "relayed": the root again, through another contract.
\* "unreadable": its receipt is missing or failed.  "other": another root, or no event.
Kinds == {"canonical", "duplicate", "relayed", "unreadable", "other"}

VARIABLES
    chain,      \* the event of each block
    latest,     \* the head that the search read
    end,        \* last block of the next chunk
    found,      \* candidateFound
    result,
    queried     \* history: how often each block was asked for

vars == <<chain, latest, end, found, result, queried>>

Answer(kind) == [kind |-> kind, block |-> 0]
Searching == result.kind = "searching"

Init ==
    /\ latest \in Heads
    /\ chain \in [FromBlock..latest -> Kinds]
    /\ end = latest /\ found = FALSE /\ result = Answer("searching")
    /\ queried = [b \in FromBlock..latest |-> 0]

Candidate(b) == chain[b] \in {"canonical", "duplicate", "relayed", "unreadable"}
Deep(b) == latest >= b + Confirmations - 1

\* An older event is looked at only after a duplicate that is final.
Settles(b) == Candidate(b) /\ ~(chain[b] = "duplicate" /\ Deep(b))

\* recoverStorageCommitment's answer to the event that settles the search.
Verdict(b) ==
    CASE chain[b] = "unreadable"            -> Answer("dependency")
      [] chain[b] = "relayed"               -> Answer("mismatch")
      [] chain[b] = "canonical" /\ Deep(b)  -> [kind |-> "found", block |-> b]
      [] OTHER                              -> Answer("dependency")

\* A slip: the chunks overlap the wrong way and leave a block out.
StartShort == IF end >= FromBlock + Chunk THEN end - Chunk + 2 ELSE FromBlock

\* First block of the chunk that ends at end.
Start == IF end >= FromBlock + Chunk - 1 THEN end - Chunk + 1 ELSE FromBlock

ReadChunk ==
    /\ Searching /\ end >= FromBlock
    /\ queried' = [b \in DOMAIN chain |-> queried[b] + (IF b \in Start..end THEN 1 ELSE 0)]
    /\ LET settling == {b \in Start..end : Settles(b)} IN
         IF settling = {}
         THEN /\ found' = (found \/ \E b \in Start..end : Candidate(b))
              /\ end' = end - Chunk
              /\ UNCHANGED result
         ELSE /\ result' = Verdict(Max(settling))
              /\ found' = TRUE
              /\ UNCHANGED end
    /\ UNCHANGED <<chain, latest>>

Exhausted ==
    /\ Searching /\ end < FromBlock
    /\ result' = Answer(IF found THEN "mismatch" ELSE "dependency")
    /\ UNCHANGED <<chain, latest, end, found, queried>>

\* The signal of the caller, or a failing read.
Abort ==
    /\ Searching
    /\ result' = Answer("aborted")
    /\ UNCHANGED <<chain, latest, end, found, queried>>

Next == ReadChunk \/ Exhausted \/ Abort
Spec == Init /\ [][Next]_vars

-----------------------------------------------------------------------------
(* Properties *)

Answered == result.kind \notin {"searching", "aborted"}

\* What a single pass over all blocks, newest first, would answer.
Reference ==
    LET settling == {b \in DOMAIN chain : Settles(b)} IN
    IF settling # {} THEN Verdict(Max(settling))
    ELSE Answer(IF \E b \in DOMAIN chain : Candidate(b) THEN "mismatch" ELSE "dependency")

\* Reading in chunks changes nothing: the answer is that of the single pass, and no
\* block is asked for twice (storage-recovery.ts:40-64).
ChunksMatchOnePass ==
    /\ Answered => result = Reference
    /\ \A b \in DOMAIN chain : queried[b] <= 1

=============================================================================
