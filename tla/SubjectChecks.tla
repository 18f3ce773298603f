---------------------------- MODULE SubjectChecks ----------------------------
(***************************************************************************)
(* The deterministic stages of a seal: the identity is read at a finalized *)
(* block (identity/erc8004.ts), its wallet is classified by its code       *)
(* (subject/classify.ts) and checked as an account, a contract or a        *)
(* delegated account (checks/), all at the number of that block, whose     *)
(* hash is compared on the way.  Of checks that follow one another with no *)
(* read between them the model keeps one.                                  *)
(***************************************************************************)
EXTENDS Naturals

CONSTANTS
    ZeroAddress,
    Facts   \* what the registry and the accounts may be at a block: the agent's
            \* owner and wallet, and of each address its code, the addresses in the
            \* two EIP-1967 slots, what it answers as a beacon, and its nonce

VARIABLES
    chain,     \* what the chain says at the source block
    other,     \* what a reorganisation makes of it
    replaced,
    options,   \* the optional resolvers that the checks are given
    step,      \* the await that the operator is at
    sourced,   \* whether the source block was read from the other chain
    identity,  \* ResolvedAgentIdentity
    subject,   \* ClassifiedSubject
    account,   \* what inspectEoa has read
    walk       \* where inspectContract is, and the proxy that it saw

vars == <<chain, other, replaced, options, step, sourced, identity, subject, account, walk>>

Shown == IF replaced THEN other ELSE chain
Missing == [form |-> "empty", to |-> ZeroAddress]
NoIdentity == [wallet |-> ZeroAddress, cardVerified |-> FALSE]
NoSubject == [address |-> ZeroAddress, kind |-> "none", code |-> Missing, delegation |-> Missing]
NoWalk == [at |-> "rest", kind |-> "none", beacon |-> ZeroAddress, beaconCode |-> Missing,
           implementation |-> ZeroAddress, code |-> Missing, confirmed |-> FALSE, source |-> FALSE]
AccountReads == {"nonce", "balance", "history"}
NotRead == 0 - 1
Unknown == 0 - 2
NoAccount == [r \in AccountReads |-> NotRead]

Init ==
    /\ chain \in Facts /\ other = chain /\ replaced = FALSE
    /\ options \in [metadata : BOOLEAN, source : BOOLEAN]
    /\ step = "block" /\ sourced = FALSE /\ identity = NoIdentity /\ subject = NoSubject
    /\ account = NoAccount /\ walk = NoWalk

World == UNCHANGED <<chain, other, replaced, options>>
Ended == {"sealable", "refused", "failed"}
At(s) == step = s /\ World
GoIf(ok, next) == step' = IF ok THEN next ELSE "failed"

\* A slip: a block of the expected number is enough.
BlockOfItsNumber == TRUE

\* assertExpectedSourceBlock, assertSourceBlockUnchanged: the hash behind the number.
SameSourceBlock == sourced = replaced

-----------------------------------------------------------------------------
(* The identity *)

LoadSourceBlock ==
    /\ At("block") /\ step' = "owner" /\ sourced' = replaced
    /\ UNCHANGED <<identity, subject, account, walk>>

\* An agent that was never minted ends it; its URI, read next, only says where the card is.
ReadOwner ==
    /\ At("owner") /\ GoIf(Shown.minted, "wallet")
    /\ UNCHANGED <<sourced, identity, subject, account, walk>>

ReadAgentWallet ==
    /\ At("wallet") /\ GoIf(Shown.wallet # ZeroAddress, "card")
    /\ identity' = [identity EXCEPT !.wallet = Shown.wallet]
    /\ UNCHANGED <<sourced, subject, account, walk>>

\* A card that does not load does not end it: the seal then stands on the chain alone.
ResolveRegistrationCard ==
    /\ At("card") /\ GoIf(SameSourceBlock, "code")
    /\ \E loads \in BOOLEAN : identity' = [identity EXCEPT !.cardVerified = loads]
    /\ UNCHANGED <<sourced, subject, account, walk>>

-----------------------------------------------------------------------------
(* The kind of the subject *)

KindOf(code) ==
    CASE code.form = "empty" -> "EOA"
      [] code.form = "delegates" -> "EIP7702_DELEGATED_EOA"
      [] OTHER -> "CONTRACT"

\* The wallet of the identity, read again by its address: a delegation must name another account.
ReadRuntimeCode ==
    /\ At("code")
    /\ LET wallet == identity.wallet
           code == Shown.code[wallet]
       IN /\ subject' = [NoSubject EXCEPT !.address = wallet, !.kind = KindOf(code), !.code = code]
          /\ IF code.form = "delegates" THEN GoIf(code.to \notin {ZeroAddress, wallet}, "delegation")
             ELSE step' = "classified"
    /\ UNCHANGED <<sourced, identity, account, walk>>

ReadDelegationCode ==
    /\ At("delegation")
    /\ subject' = [subject EXCEPT !.delegation = Shown.code[subject.code.to]]
    /\ GoIf(subject'.delegation # Missing, "classified")
    /\ UNCHANGED <<sourced, identity, account, walk>>

-----------------------------------------------------------------------------
(* The checks *)

Delegated == subject.kind = "EIP7702_DELEGATED_EOA"
Inspected == IF Delegated THEN subject.code.to ELSE subject.address  \* by inspectContract
InspectedCode == IF Delegated THEN subject.delegation ELSE subject.code

Inspect(next) ==
    /\ step' = next
    /\ walk' = IF next = "inspect" /\ subject.kind # "EOA" THEN [NoWalk EXCEPT !.at = "detect"] ELSE walk

RunSubjectChecks ==
    /\ At("classified")
    /\ IF ~SameSourceBlock THEN Inspect("failed")
       ELSE IF Delegated THEN Inspect("recheck") ELSE Inspect("inspect")
    /\ UNCHANGED <<sourced, identity, subject, account>>

\* inspectDelegatedEoa: the code behind the delegation must be the classified one still.
RecheckDelegation ==
    /\ At("recheck")
    /\ Inspect(IF Shown.code[subject.code.to] = subject.delegation THEN "inspect" ELSE "failed")
    /\ UNCHANGED <<sourced, identity, subject, account>>

\* inspectEoa and, of a delegated account, inspectContract run at the same time.  The
\* nonce, which is the history too, stands for the balance as well.
ReadAccount(read) ==
    /\ At("inspect") /\ subject.kind # "CONTRACT" /\ account[read] = NotRead
    /\ account' = [account EXCEPT ![read] = Shown.nonce[subject.address]]
    /\ UNCHANGED <<step, sourced, identity, subject, walk>>

\* loadHistory: only the history may fail, and leaves a caution.
HistoryFails ==
    /\ At("inspect") /\ subject.kind # "CONTRACT" /\ account["history"] = NotRead
    /\ account' = [account EXCEPT !["history"] = Unknown]
    /\ UNCHANGED <<step, sourced, identity, subject, walk>>

Walks(at) == At("inspect") /\ walk.at = at /\ UNCHANGED <<sourced, identity, subject, account>>
StepWalk(ok, next) == walk' = next /\ step' = IF ok THEN step ELSE "failed"
Target(address) == address \notin {ZeroAddress, Inspected}  \* assertTargetAddress

\* detectProxy: a clone names its implementation in its code, any other contract in a slot.
DetectMinimalProxy ==
    /\ Walks("detect") /\ InspectedCode.form = "minimal"
    /\ StepWalk(Target(InspectedCode.to), [walk EXCEPT !.at = "code", !.kind = "EIP1167_MINIMAL",
                                                       !.implementation = InspectedCode.to])

ReadImplementationSlot ==
    /\ Walks("detect") /\ InspectedCode.form # "minimal"
    /\ LET word == Shown.slot[Inspected] IN
         IF word = ZeroAddress THEN StepWalk(TRUE, [walk EXCEPT !.at = "beacon"])
         ELSE StepWalk(Target(word), [walk EXCEPT !.at = "code", !.kind = "EIP1967_IMPLEMENTATION",
                                                  !.implementation = word])

ReadBeaconSlot ==
    /\ Walks("beacon")
    /\ LET word == Shown.beaconSlot[Inspected] IN
         IF word = ZeroAddress THEN StepWalk(TRUE, [walk EXCEPT !.at = "source"])
         ELSE StepWalk(Target(word), [walk EXCEPT !.at = "beaconCode", !.kind = "EIP1967_BEACON",
                                                  !.beacon = word])

ReadBeaconCode ==
    /\ Walks("beaconCode")
    /\ LET code == Shown.code[walk.beacon] IN
         StepWalk(code # Missing, [walk EXCEPT !.at = "call", !.beaconCode = code])

CallBeacon ==
    /\ Walks("call")
    /\ LET answer == Shown.answer[walk.beacon] IN
         StepWalk(Target(answer) /\ answer # walk.beacon, [walk EXCEPT !.at = "code", !.implementation = answer])

\* liveCodeHash: a proxy to nothing ends the checks.
ReadImplementationCode ==
    /\ Walks("code")
    /\ LET code == Shown.code[walk.implementation] IN
         StepWalk(code # Missing, [walk EXCEPT !.at = "bind", !.code = code])

\* What is behind an address at the block of a chain: the reference for the walk.
ProxyOf(c, address, code) ==
    IF code.form = "minimal" THEN <<"EIP1167_MINIMAL", code.to, c.code[code.to]>>
    ELSE IF c.slot[address] # ZeroAddress
    THEN <<"EIP1967_IMPLEMENTATION", c.slot[address], c.code[c.slot[address]]>>
    ELSE IF c.beaconSlot[address] = ZeroAddress THEN <<"none", ZeroAddress, Missing>>
    ELSE LET target == c.answer[c.beaconSlot[address]] IN <<"EIP1967_BEACON", target, c.code[target]>>

\* A provider that looked at either chain: what it says binds to the block and to the candidate.
BindProxy ==
    /\ Walks("bind")
    /\ IF walk.kind # "EIP1167_MINIMAL" /\ options.metadata
       THEN \E seen \in {sourced, ~sourced} :
              StepWalk(/\ seen = sourced
                       /\ ProxyOf(IF seen THEN other ELSE chain, Inspected, InspectedCode)
                            = <<walk.kind, walk.implementation, walk.code>>,
                       [walk EXCEPT !.at = "source", !.confirmed = TRUE])
       ELSE StepWalk(TRUE, [walk EXCEPT !.at = "source", !.confirmed = walk.kind = "EIP1167_MINIMAL"])

\* resolveVerifiedSource: of the confirmed implementation, or else of the contract itself.
ResolveVerifiedSource ==
    /\ Walks("source")
    /\ \E binds \in IF options.source THEN BOOLEAN ELSE {TRUE} :
         StepWalk(binds, [walk EXCEPT !.at = "done", !.source = options.source])

AccountDone == subject.kind # "CONTRACT" => \A r \in AccountReads : account[r] # NotRead
WalkDone == subject.kind # "EOA" => walk.at = "done"

\* Every inspection and the run as a whole end with the same look at the block.
ReportChecks ==
    /\ At("inspect") /\ AccountDone /\ WalkDone /\ GoIf(SameSourceBlock, "report")
    /\ UNCHANGED <<sourced, identity, subject, account, walk>>

\* toEvidenceSubject and assertProductionSealableSubject.
Nested == Delegated \/ walk.confirmed
AssertSealable ==
    /\ At("report") /\ step' = IF Nested THEN "refused" ELSE "sealable"
    /\ UNCHANGED <<sourced, identity, subject, account, walk>>

ReadFails ==
    /\ step \notin Ended \cup {"report"} /\ step' = "failed" /\ World
    /\ UNCHANGED <<sourced, identity, subject, account, walk>>

\* The block of the expected number is another one from here on.
Reorg ==
    /\ step \notin Ended \cup {"report"} /\ ~replaced /\ replaced' = TRUE /\ other' \in Facts
    /\ UNCHANGED <<chain, options, step, sourced, identity, subject, account, walk>>

Identify == LoadSourceBlock \/ ReadOwner \/ ReadAgentWallet \/ ResolveRegistrationCard
Classify == ReadRuntimeCode \/ ReadDelegationCode
InspectContract ==
    \/ DetectMinimalProxy \/ ReadImplementationSlot \/ ReadBeaconSlot \/ ReadBeaconCode \/ CallBeacon
    \/ ReadImplementationCode \/ BindProxy \/ ResolveVerifiedSource
InspectEoa == HistoryFails \/ \E read \in AccountReads : ReadAccount(read)

Next ==
    \/ Identify \/ Classify \/ RunSubjectChecks \/ RecheckDelegation
    \/ InspectEoa \/ InspectContract \/ ReportChecks \/ AssertSealable
    \/ ReadFails \/ Reorg

Spec == Init /\ [][Next]_vars

-----------------------------------------------------------------------------
(* Properties *)

\* Whatever reorganises between some fifteen reads at a number, the report that comes out
\* describes one block, the one whose hash it carries: the wallet of the identity, its kind,
\* its activity and the code behind it are those of that block; and what may be sealed runs
\* no code but its own, a clone or a delegation never, an EIP-1967 proxy never where someone
\* confirms it (classify.ts:74, contract.ts:364, delegated-eoa.ts:39, production-operator.ts:326).
ReportIsOfItsBlock ==
    step \in {"report", "refused", "sealable"} =>
      LET c == IF sourced THEN other ELSE chain
          code == c.code[c.wallet]
          proxy == ProxyOf(c, Inspected, InspectedCode)
      IN /\ c.minted /\ subject.address = c.wallet
         /\ subject.kind = KindOf(code) /\ subject.code = code
         /\ Delegated => subject.delegation = c.code[code.to]
         /\ subject.kind # "CONTRACT" =>
              \A r \in AccountReads : account[r] \in {c.nonce[c.wallet]} \cup
                (IF r = "history" THEN {Unknown} ELSE {})
         /\ subject.kind # "EOA" => <<walk.kind, walk.implementation, walk.code>> = proxy
         /\ walk.beacon # ZeroAddress =>
              walk.beacon = c.beaconSlot[Inspected] /\ walk.beaconCode = c.code[walk.beacon]
         /\ step = "sealable" =>
              /\ code.form \notin {"delegates", "minimal"}
              /\ subject.kind = "CONTRACT" /\ options.metadata => proxy[1] = "none"
=============================================================================
