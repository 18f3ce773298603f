---------------------------- MODULE CurrentAccess ----------------------------
(***************************************************************************)
(* What the server reports of an agent's access now                        *)
(* (server/prooflock/current-observations.ts with the reads of read-api):  *)
(* it pins a finalized block, reads identity, lease, gate and consumer at  *)
(* its number side by side, confirms the block and compares the answers    *)
(* before it publishes them.  The registry's variables are the chain at    *)
(* the pinned block; a reorganisation may put another one under the same   *)
(* number while the reads are under way.                                   *)
(***************************************************************************)
EXTENDS AgentGateV2

CONSTANTS
    Views,   \* chains there may be at the pinned number
    Forks,   \* chains a reorganisation may put there instead
    NoRead   \* a read that has not settled, or that failed

VARIABLES
    agent,     \* the agent that was asked for
    fork,      \* the chain that a reorganisation would put in place
    reorged,
    step,      \* the await observeCurrentAccess is at
    reads,     \* the settled reads
    snapshot

accessVars == <<agent, fork, reorged, step, reads, snapshot>>

View == [lock : ProofLock, identity : Identity, code : [Addresses -> CodeHashes \cup {ZeroHash}], now : Nat]

\* What the registry holds for a key: nothing, or a lease that _validate let pass (LeaseWellFormed).
Kept(lock) ==
    lock.version # 0 => lock.identityKey # ZeroHash /\ REQUIRED_COVERAGE \subseteq lock.coverage

ASSUME AccessAssumption == Views \cup Forks \subseteq View /\ \A view \in Views : Kept(view.lock)

\* The gate on the chain of the other fork.
Fork == INSTANCE AgentGateV2
          WITH proofLocks   <- [k \in Keys |-> IF k = KeyOf[agent] THEN fork.lock ELSE EmptyLock],
               identityKeys <- identityKeys, roles <- roles, code <- fork.code, now <- fork.now,
               identity     <- [a \in AgentIds |-> fork.identity]

Names == {"identity", "lease", "gate", "subject", "version", "consumer"}
Failed  == [status |-> "rejected"]
Ok(value) == [status |-> "fulfilled", value |-> value]

\* Only the key of the agent matters to the reads.
Shows(view, a) ==
    /\ proofLocks = [k \in Keys |-> IF k = KeyOf[a] THEN view.lock ELSE EmptyLock]
    /\ identity = [b \in AgentIds |-> view.identity]
    /\ code = view.code /\ now = view.now

AccessInit ==
    /\ agent \in AgentIds /\ fork \in Forks
    /\ \E view \in Views : view.lock.identityKey \in {ZeroHash, KeyOf[agent]} /\ Shows(view, agent)
    /\ identityKeys = << >> /\ roles = [role \in Roles |-> {}]
    /\ reorged = FALSE /\ step = "pin" /\ snapshot = NoRead
    /\ reads = [n \in Names |-> NoRead]

Goto(next) == step' = next
Rest == UNCHANGED <<vars, identity, agent, fork>>

-----------------------------------------------------------------------------
(* The reads, all at the pinned number *)

Gate     == IF reorged THEN Fork!CheckAgent(agent) ELSE CheckAgent(agent)
Resolved == IF reorged THEN Fork!ResolveIdentity(agent) ELSE ResolveIdentity(agent)
Lock     == IF reorged THEN fork.lock ELSE proofLocks[KeyOf[agent]]

PinFinalizedBlock ==
    /\ step = "pin" /\ Goto("reads")
    /\ UNCHANGED <<reorged, reads, snapshot>> /\ Rest

\* A read rejects or meets its deadline: the other reads go on.
ReadFails(n) ==
    /\ step = "reads" /\ reads[n] = NoRead
    /\ reads' = [reads EXCEPT ![n] = Failed]
    /\ UNCHANGED <<reorged, step, snapshot>> /\ Rest

Reads(n, result) ==
    /\ step = "reads" /\ reads[n] = NoRead
    /\ reads' = [reads EXCEPT ![n] = result]
    /\ UNCHANGED <<reorged, step, snapshot>> /\ Rest

Resolution == IF Resolved.reason # ALLOWED THEN Failed
              ELSE Ok([wallet |-> Resolved.wallet, reorged |-> reorged])

\* resolveProductionIdentity refuses an agent without owner or wallet.
ReadIdentity == Reads("identity", Resolution)
ReadLease    == Reads("lease", Ok(Lock))
ReadGate     == Reads("gate", Ok(Gate))

\* readCurrentConsumer: identity and lease side by side, then the call of acceptAgent
\* from the wallet; a revert is an answer.
ReadSubject == Reads("subject", Resolution)
ReadVersion == Reads("version", Ok(Lock.version))

SimulateConsumer ==
    /\ reads["subject"] # NoRead /\ reads["version"] # NoRead
    /\ Reads("consumer",
         IF Failed \in {reads["subject"], reads["version"]} THEN Failed
         ELSE Ok([subject |-> reads["subject"].value.wallet, version |-> reads["version"].value,
                  accepted |-> Gate.allowed /\ Gate.subject = reads["subject"].value.wallet]))

AllSettled == \A n \in Names : reads[n] # NoRead

\* assertResolvedBinding: the identity names the block that it was read from.
AssertResolvedBinding ==
    /\ step = "reads" /\ AllSettled
    /\ Goto(IF reads["identity"].status = "fulfilled" /\ reads["identity"].value.reorged
            THEN "mismatch" ELSE "confirm")
    /\ UNCHANGED <<reorged, reads, snapshot>> /\ Rest

-----------------------------------------------------------------------------
(* How the answers are compared *)

Have(n) == reads[n].status = "fulfilled"
Val(n)  == reads[n].value

IdentityFailures == {IDENTITY_UNAVAILABLE, AGENT_NOT_FOUND, AGENT_WALLET_UNSET}

\* validGate; what it refuses is no answer of the gate contract.
ValidGate(gate) ==
    /\ gate.reason \in 0..16 /\ gate.allowed = (gate.reason = ALLOWED)
    /\ IF gate.reason \in IdentityFailures THEN gate.subject = ZeroAddress /\ gate.version = 0
       ELSE gate.subject # ZeroAddress

PairMatches == Have("consumer") =>
    /\ Val("gate").allowed = Val("consumer").accepted
    /\ Val("gate").subject = Val("consumer").subject
    /\ Val("gate").version = Val("consumer").version

\* A slip: the state of the lease is looked at before its subject.
IntrinsicGateReasonStateFirst(gate, lease) ==
    CASE lease.version = 0                -> NO_PROOF
      [] lease.version # 0 /\ lease.state = STATE_REVOKED -> REVOKED
      [] lease.version # 0 /\ lease.state = STATE_DRIFTED -> DRIFTED
      [] lease.version # 0 /\ lease.state = STATE_ACTIVE /\ lease.subject # gate.subject -> SUBJECT_CHANGED
      [] OTHER -> ALLOWED

\* intrinsicGateReason: what the lease alone makes of the answer, ALLOWED for null.
IntrinsicGateReason(gate, lease) ==
    IF lease.version = 0                         THEN NO_PROOF
    ELSE IF lease.identityKey # KeyOf[agent]     THEN IDENTITY_MISMATCH
    ELSE IF lease.subject # gate.subject         THEN SUBJECT_CHANGED
    ELSE IF lease.state = STATE_REVOKED          THEN REVOKED
    ELSE IF lease.state = STATE_DRIFTED          THEN DRIFTED
    ELSE IF lease.state # STATE_ACTIVE           THEN IDENTITY_MISMATCH
    ELSE IF lease.issuedAt > now \/ lease.validUntil <= now THEN EXPIRED
    ELSE IF BEHAVIORAL_COMPUTE_BIT \notin lease.coverage    THEN COMPUTE_UNVERIFIED
    ELSE IF STORAGE_BIT \notin lease.coverage               THEN STORAGE_UNVERIFIED
    ELSE IF ~(REQUIRED_COVERAGE \subseteq lease.coverage)   THEN COVERAGE_INCOMPLETE
    ELSE ALLOWED

\* EXPIRED stays possible where the lease is not: the gate knows a maximum age.
GateMatchesLease(gate, lease) ==
    LET reason == IntrinsicGateReason(gate, lease) IN
    /\ gate.version = lease.version
    /\ IF reason # ALLOWED THEN gate.reason = reason
       ELSE gate.reason \notin {NO_PROOF, REVOKED, DRIFTED, SUBJECT_CHANGED, COVERAGE_INCOMPLETE,
                                COMPUTE_UNVERIFIED, STORAGE_UNVERIFIED, IDENTITY_MISMATCH}

GateProvenanceConsistent == LET gate == Val("gate") IN
    IF gate.reason \in IdentityFailures THEN ~Have("identity") /\ PairMatches
    ELSE /\ Have("identity") => gate.subject = Val("identity").wallet
         /\ Have("lease") => GateMatchesLease(gate, Val("lease"))
         /\ PairMatches

ConsumerSubjectContradictsLease == LET consumer == Val("consumer") IN
    /\ \/ consumer.accepted \/ ~Have("gate")
       \/ Val("gate").reason \notin {NO_PROOF, SUBJECT_CHANGED} \cup IdentityFailures
    /\ consumer.subject # Val("lease").subject

ConsumerProvenanceConsistent == LET consumer == Val("consumer") IN
    /\ Have("identity") => consumer.subject = Val("identity").wallet
    /\ Have("lease") => consumer.version = Val("lease").version /\ ~ConsumerSubjectContradictsLease
    /\ Have("gate") => PairMatches

LeaseBlockReason(lease) ==
    CASE lease.state = STATE_REVOKED -> "REVOKED"
      [] lease.state = STATE_DRIFTED -> "DRIFTED"
      [] lease.state = STATE_ACTIVE /\ REQUIRED_COVERAGE \subseteq lease.coverage ->
           IF lease.validUntil <= now THEN "EXPIRED" ELSE "OBSERVED"
      [] OTHER -> "COVERAGE_INCOMPLETE"

Unavailable == [reason |-> "UNAVAILABLE", value |-> NoRead]
Mismatch    == [reason |-> "MISMATCH", value |-> NoRead]

LeaseEntry == CASE ~Have("lease") -> Unavailable
                [] Have("lease") /\ Val("lease").version = 0 -> [reason |-> "NO_PROOF", value |-> NoRead]
                [] OTHER -> IF Val("lease").identityKey # KeyOf[agent] THEN Mismatch
                            ELSE [reason |-> LeaseBlockReason(Val("lease")), value |-> Val("lease")]

GateEntry == CASE ~Have("gate") -> Unavailable
               [] Have("gate") /\ (~ValidGate(Val("gate")) \/ ~GateProvenanceConsistent) -> Mismatch
               [] OTHER -> [reason |-> "OBSERVED", value |-> Val("gate")]

ConsumerEntry == CASE ~Have("consumer") -> Unavailable
                   [] Have("consumer") /\ ~ConsumerProvenanceConsistent -> Mismatch
                   [] OTHER -> [reason |-> "OBSERVED", value |-> Val("consumer")]

BuildSnapshot ==
    [identity |-> IF Have("identity") THEN [reason |-> "OBSERVED", value |-> Val("identity").wallet]
                  ELSE Unavailable,
     lease |-> LeaseEntry, gate |-> GateEntry, consumer |-> ConsumerEntry]

ConfirmPinnedBlock ==
    /\ step = "confirm"
    /\ IF reorged THEN Goto("mismatch") /\ snapshot' = snapshot
       ELSE Goto("done") /\ snapshot' = BuildSnapshot
    /\ UNCHANGED <<reorged, reads>> /\ Rest

\* The client goes, or the pin or the confirmation fails: the whole call rejects.
Rejects ==
    /\ step \in {"pin", "reads", "confirm"} /\ Goto("failed")
    /\ UNCHANGED <<reorged, reads, snapshot>> /\ Rest

Reorg ==
    /\ step # "pin" /\ ~reorged /\ reorged' = TRUE
    /\ UNCHANGED <<step, reads, snapshot>> /\ Rest

AccessNext ==
    \/ PinFinalizedBlock \/ ReadIdentity \/ ReadLease \/ ReadGate
    \/ ReadSubject \/ ReadVersion \/ SimulateConsumer
    \/ \E n \in Names : ReadFails(n)
    \/ AssertResolvedBinding \/ ConfirmPinnedBlock \/ Rejects \/ Reorg

AccessSpec == AccessInit /\ [][AccessNext]_<<vars, identity, accessVars>>

-----------------------------------------------------------------------------
(* Properties *)

\* Without the gate's answer the wallet of a refused consumer is held against the lease,
\* which a change of the wallet, and an agent without lease, contradict truly.
LeaseOfAnother ==
    /\ ~Have("gate") /\ Have("lease") /\ Have("consumer")
    /\ Val("consumer").subject # Val("lease").subject

\* A published snapshot shows the pinned block and nothing else, whatever reorganised
\* or failed meanwhile: every entry is what that chain answers, or unavailable, and
\* true answers are not taken for contradictory ones, for any lease and any reason of
\* the gate (current-observations.ts:76-98 and :305-375).
SnapshotIsTrue ==
    snapshot # NoRead =>
      LET wallet == ResolveIdentity(agent).wallet  lock == proofLocks[KeyOf[agent]] IN
      /\ snapshot.identity.reason = "OBSERVED" => snapshot.identity.value = wallet
      /\ snapshot.lease.reason # "MISMATCH"
      /\ snapshot.lease.value # NoRead => snapshot.lease.value = lock
      /\ snapshot.lease.reason \in {"REVOKED", "DRIFTED", "EXPIRED"} => ~CheckAgent(agent).allowed
      /\ snapshot.lease.reason = "NO_PROOF" => lock.version = 0
      /\ snapshot.gate \in {Unavailable, [reason |-> "OBSERVED", value |-> CheckAgent(agent)]}
      /\ \/ snapshot.consumer \in {Unavailable,
              [reason |-> "OBSERVED", value |->
                 [subject |-> wallet, version |-> lock.version, accepted |-> CheckAgent(agent).allowed]]}
         \/ snapshot.consumer = Mismatch /\ LeaseOfAnother
=============================================================================
