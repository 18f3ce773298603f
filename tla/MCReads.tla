------------------------------- MODULE MCReads -------------------------------
(***************************************************************************)
(* Small instances of what the server reads: for its visitors the current  *)
(* access, the sealed detail, the transaction behind a proof and the list  *)
(* of sealed agents; before a seal the subject at its block, the evidence  *)
(* of its risk, and what it fetches from hosts that others name.  They     *)
(* share no state; part says which of them a behaviour runs, while the     *)
(* others rest.                                                            *)
(***************************************************************************)
EXTENDS CurrentAccess, TLC

CONSTANTS a1, a2, h1, e1, k1, n1,
          SealedProofs, NoProof, FirstBlock, Confirmations, Lookback, ChunkBlocks, QueryBudget,
          NegativeTtl, NegativeMax, MaxHead, MaxReorgs,
          Identities, NoSeal, Window, Cap, Concurrency, FromBlockFloor, Blocks,
          Wallets, NoWallet, Signers, Reseals, MaxMoments,
          wal, tgt, imp, Facts,
          Dossiers, Selectors, ModelScores, MaxRows, DrainWindow, Nobody,
          Urls, BadUrl, Public, Private, MaxBytes, MaxRedirects

ASSUME LocatorAssumption ==
    /\ NoProof \notin SealedProofs /\ FirstBlock \in Nat \ {0} /\ Confirmations \in Nat \ {0}
    /\ Lookback \in Nat /\ ChunkBlocks \in Nat /\ QueryBudget \in Nat
    /\ Lookback <= ChunkBlocks * QueryBudget
    /\ NegativeTtl \in Nat /\ NegativeMax \in Nat \ {0}
ASSUME DiscoveryAssumption ==
    Window \in Nat /\ Cap \in Nat /\ FromBlockFloor \in Nat /\ Blocks \in Nat
ASSUME RiskAssumption ==
    /\ ModelScores \subseteq 0..100 /\ \A d \in Dossiers : d.nonce \in Nat
    /\ \A d \in Dossiers, list \in {"txlist", "tokentx"} :
         IsFiniteSet(DOMAIN d[list]) /\ \A i \in DOMAIN d[list] : d[list][i].block \in Nat
ASSUME FetchAssumption == BadUrl \notin Urls /\ MaxBytes \in Nat /\ MaxRedirects \in Nat

VARIABLES part,
          seals, forks, call, cache, reorgs,
          chain, other, replaced, stage, boundary, candidates, results, failed,
          lease, wallet, signer, moments, signers, request,
          source, forked, swapped, options, stop, sourced, resolved, classified, account, walk,
          dossier, kind, phase, bundled, explored, listed, attempts, llm, verdict,
          client, pc, url, visited, addresses, response, received, aborted, transport, opened, outcome

Locator  == INSTANCE ProofLocator WITH Proofs <- SealedProofs, FromBlock <- FirstBlock
Discover == INSTANCE Discovery WITH reorged <- replaced, step <- stage
Detail   == INSTANCE SealedReads WITH call <- request, MaxVersion <- Reseals
Subject  == INSTANCE SubjectChecks WITH chain <- source, other <- forked, replaced <- swapped,
               step <- stop, identity <- resolved, subject <- classified
Risk     == INSTANCE RiskVerdict WITH step <- phase
Fetch    == INSTANCE PinnedFetch WITH step <- pc

locatorVars == <<seals, forks, call, cache, reorgs>>
discoverVars == <<chain, other, replaced, stage, boundary, candidates, results, failed>>
sealedVars == <<lease, wallet, signer, moments, signers, request>>
subjectVars == <<source, forked, swapped, options, stop, sourced, resolved, classified, account, walk>>
riskVars == <<dossier, kind, phase, bundled, explored, listed, attempts, llm, verdict>>
fetchVars == <<client, pc, url, visited, addresses, response, received, aborted, transport, opened, outcome>>
chainVars  == <<vars, identity, accessVars>>

AccessRests ==
    /\ agent = n1 /\ fork = CHOOSE f \in Forks : TRUE
    /\ Shows(CHOOSE v \in Views : v.lock = EmptyLock, n1)
    /\ identityKeys = << >> /\ roles = [role \in Roles |-> {}]
    /\ reorged = FALSE /\ step = "rest" /\ snapshot = NoRead
    /\ reads = [n \in Names |-> NoRead]
LocatorRests  == seals = << >> /\ forks = << >> /\ call = Locator!Idle /\ cache = << >> /\ reorgs = 0
DiscoverRests ==
    /\ chain = << >> /\ other = << >> /\ replaced = FALSE /\ stage = "rest" /\ boundary = FALSE
    /\ candidates = << >> /\ results = << >> /\ failed = {}
SealedRests ==
    /\ lease = Detail!NoLease /\ wallet = NoWallet /\ signer = NoWallet
    /\ moments = {} /\ signers = {} /\ request = Detail!Idle

\* A part that rests stands in the first of its initial states.
First(set) == CHOOSE x \in set : TRUE

ReadsInit ==
    /\ part \in {"access", "locator", "discovery", "sealed", "subject", "risk", "fetch"}
    /\ IF part = "access" THEN AccessInit ELSE AccessRests
    /\ IF part = "locator" THEN Locator!Init ELSE LocatorRests
    /\ IF part = "discovery" THEN Discover!Init ELSE DiscoverRests
    /\ IF part = "sealed" THEN Detail!Init ELSE SealedRests
    /\ Subject!Init
    /\ part # "subject" => source = First(Facts) /\ options = [metadata |-> FALSE, source |-> FALSE]
    /\ Risk!Init /\ (part # "risk" => dossier = First(Dossiers) /\ kind = "EOA")
    /\ Fetch!Init /\ (part # "fetch" => client = "card" /\ url = BadUrl)

AccessStep ==
    part = "access" /\ AccessNext
    /\ UNCHANGED <<part, locatorVars, discoverVars, sealedVars, subjectVars, riskVars, fetchVars>>
LocatorStep ==
    part = "locator" /\ Locator!Next
    /\ UNCHANGED <<part, chainVars, discoverVars, sealedVars, subjectVars, riskVars, fetchVars>>
DiscoverStep ==
    part = "discovery" /\ Discover!Next
    /\ UNCHANGED <<part, chainVars, locatorVars, sealedVars, subjectVars, riskVars, fetchVars>>
SealedStep ==
    part = "sealed" /\ Detail!Next
    /\ UNCHANGED <<part, chainVars, locatorVars, discoverVars, subjectVars, riskVars, fetchVars>>
SubjectStep ==
    part = "subject" /\ Subject!Next
    /\ UNCHANGED <<part, chainVars, locatorVars, discoverVars, sealedVars, riskVars, fetchVars>>
RiskStep ==
    part = "risk" /\ Risk!Next
    /\ UNCHANGED <<part, chainVars, locatorVars, discoverVars, sealedVars, subjectVars, fetchVars>>
FetchStep ==
    part = "fetch" /\ Fetch!Next
    /\ UNCHANGED <<part, chainVars, locatorVars, discoverVars, sealedVars, subjectVars, riskVars>>

ReadsNext ==
    AccessStep \/ LocatorStep \/ DiscoverStep \/ SealedStep \/ SubjectStep \/ RiskStep \/ FetchStep

ReadsSpec ==
    ReadsInit /\ [][ReadsNext]_<<part, chainVars, locatorVars, discoverVars, sealedVars,
                                 subjectVars, riskVars, fetchVars>>

AnswersTruly          == Locator!AnswersTruly
ListIsOfOneChain      == Discover!ListIsOfOneChain
ShownIsOfOneMoment    == Detail!ShownIsOfOneMoment
ReportIsOfItsBlock    == Subject!ReportIsOfItsBlock
SealedVerdictIsEarned == Risk!SealedVerdictIsEarned
FetchStaysInBounds    == Fetch!FetchStaysInBounds

KeyOfAgent == [a \in AgentIds |-> k1]

LockOf(state, subject, issued, until, risk, hash) ==
    [identityKey |-> k1, subject |-> subject, evidence |-> e1, runtimeCodeHash |-> hash,
     version |-> 1, issuedAt |-> issued, validUntil |-> until, policyVersion |-> 1,
     behavioralScore |-> risk, codeRisk |-> 0, coverage |-> REQUIRED_COVERAGE,
     state |-> state, stateReason |-> IF state = STATE_ACTIVE THEN 0 ELSE 3]

\* Leases that are active, old, expired, withdrawn, risky, or for other code.
Locks == {EmptyLock, LockOf(STATE_ACTIVE, a1, 2, 4, 0, h1), LockOf(STATE_ACTIVE, a1, 0, 4, 0, h1),
          LockOf(STATE_ACTIVE, a1, 1, 2, 0, h1), LockOf(STATE_REVOKED, a1, 2, 4, 0, h1),
          LockOf(STATE_DRIFTED, a1, 2, 4, 0, h1), LockOf(STATE_ACTIVE, a1, 2, 4, 9, h1),
          LockOf(STATE_ACTIVE, a1, 2, 4, 0, ZeroHash)}

\* A wallet, another one, none, and an agent that is gone or unreadable.
SomeIdentities == {[ownerOf |-> o, wallet |-> w, registration |-> 1] :
                     o \in {"owner", "reverts", "unreachable"}, w \in {a1, a2, ZeroAddress}}

SomeViews == {[lock |-> l, identity |-> i, code |-> [a \in Addresses |-> h1], now |-> 2] :
                l \in Locks, i \in {i \in SomeIdentities : i.ownerOf # "owner" => i.wallet = a1}}

\* The lease was withdrawn, renewed for another wallet, or lapsed.
SomeForks == {v \in SomeViews : v.identity.ownerOf = "owner" /\ v.lock = LockOf(STATE_REVOKED, a1, 2, 4, 0, h1)
                                /\ v.identity.wallet # ZeroAddress}
   \cup {[lock |-> LockOf(STATE_ACTIVE, a1, 2, 4, 0, h1), code |-> [a \in Addresses |-> h1], now |-> 4,
          identity |-> [ownerOf |-> "owner", wallet |-> a1, registration |-> 1]]}

\* Of a wallet wal with a target tgt and an implementation imp: an account that is new or used,
\* a contract, a clone, a proxy by either slot to code that lives, changed or is gone, and
\* delegations, with the ones that the operator does not take.
CodeOf(f, to) == [form |-> f, to |-> to]
Empty    == CodeOf("empty", ZeroAddress)
Plain    == CodeOf("plain", ZeroAddress)
Upgraded == CodeOf("upgraded", ZeroAddress)
NoSlots  == [a \in {wal, tgt, imp} |-> ZeroAddress]

BaseFacts ==
    [minted |-> TRUE, wallet |-> wal,
     code |-> [a \in {wal, tgt, imp} |-> IF a = wal THEN Empty ELSE Plain],
     slot |-> NoSlots, beaconSlot |-> NoSlots, answer |-> NoSlots,
     nonce |-> [a \in {wal, tgt, imp} |-> 0]]

Of(held) == [BaseFacts EXCEPT !.code[wal] = held]

SomeFacts ==
    LET contract  == Of(Plain)
        delegated == Of(CodeOf("delegates", tgt))
        byBeacon  == [contract EXCEPT !.beaconSlot[wal] = tgt, !.answer[tgt] = imp]
    IN {BaseFacts, [BaseFacts EXCEPT !.nonce[wal] = 1], [BaseFacts EXCEPT !.minted = FALSE],
        [BaseFacts EXCEPT !.wallet = ZeroAddress], [BaseFacts EXCEPT !.wallet = tgt],
        contract, Of(CodeOf("minimal", imp)), Of(CodeOf("minimal", wal)),
        [contract EXCEPT !.slot[wal] = imp],
        [contract EXCEPT !.slot[wal] = imp, !.code[imp] = Upgraded],
        [contract EXCEPT !.slot[wal] = imp, !.code[imp] = Empty],
        byBeacon, [byBeacon EXCEPT !.answer[tgt] = tgt], [byBeacon EXCEPT !.code[imp] = Upgraded],
        delegated, [delegated EXCEPT !.code[tgt] = Upgraded], [delegated EXCEPT !.code[tgt] = Empty],
        [delegated EXCEPT !.code[tgt] = CodeOf("minimal", imp)],
        [delegated EXCEPT !.slot[tgt] = imp], Of(CodeOf("delegates", wal))}

\* Histories that pass value on, hand it back, keep a tenth, wait, or hide behind the newest
\* rows; an account without any; approvals; listed addresses; a honeypot; and code whose
\* dangerous bytes are opcodes or the data of a push.
Sent(at, peer, amount) ==
    [block |-> at, inbound |-> FALSE, other |-> peer, amount |-> amount,
     unlimited |-> FALSE, isError |-> FALSE, method |-> 0]
Got(at, peer, amount) == [Sent(at, peer, amount) EXCEPT !.inbound = TRUE]
Approval == [Sent(5, "x", 0) EXCEPT !.unlimited = TRUE, !.method = 1]
Fails    == [Sent(7, Nobody, 1) EXCEPT !.isError = TRUE]
Calm     == <<Sent(1, "x", 1), Sent(3, "y", 1), Sent(4, "x", 1), Sent(9, "y", 0)>>

Quiet == [txlist |-> Calm, tokentx |-> << >>, internal |-> << >>, source |-> "none",
          code |-> << >>, nonce |-> 20, lists |-> {}]
With(rows)      == [Quiet EXCEPT !.txlist = rows]
Deployed(bytes) == [Quiet EXCEPT !.code = bytes]
Pushed(byte)    == <<99, byte, byte, byte, byte>>

SomeSelectors == (<<1, 1, 1, 1>> :> "HAS_MINT") @@ (<<2, 2, 2, 2>> :> "OWNER_CONTROLLED")

SomeDossiers ==
    {Quiet, With(<< >>), [With(<< >>) EXCEPT !.nonce = 0],
     With(<<Got(3, "x", 10), Sent(4, "y", 9)>>), With(<<Got(3, "x", 10), Sent(4, "x", 10)>>),
     With(<<Got(3, "x", 10), Sent(4, "y", 8)>>), With(<<Got(3, "x", 10), Sent(6, "y", 10)>>),
     With(<<Got(1, "x", 10), Sent(2, "y", 10)>> \o Calm),
     [With(<<Sent(4, "y", 10)>>) EXCEPT !.tokentx = <<Got(3, "x", 10)>>],
     With(<<Approval, Approval, Approval, Fails>>),
     [Quiet EXCEPT !.lists = {"OFAC"}], [Quiet EXCEPT !.lists = {"ScamSniffer"}],
     [Deployed(<<1>>) EXCEPT !.source = "honeypot"],
     Deployed(<<255>>), Deployed(<<96, 255>>), Deployed(Pushed(1) \o Pushed(2)),
     Deployed(Pushed(1) \o Pushed(2) \o <<244>>), Deployed(<<97>> \o Pushed(1) \o <<242>>)}
=============================================================================
