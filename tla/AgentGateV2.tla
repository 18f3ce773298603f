---------------------------- MODULE AgentGateV2 -----------------------------
(***************************************************************************)
(* The admission gate, contracts/AgentGateV2.sol.  It keeps no state of    *)
(* its own: checkAgent recomputes a verdict on every read from the ERC-8004 *)
(* identity registry, the lease and the block clock.                       *)
(***************************************************************************)
EXTENDS SentinelRegistryV2

CONSTANTS
  AgentIds,              \* ERC-8004 token ids
  KeyOf,                 \* keccak256(chainId, identityRegistry, agentId)
  Unreadable,            \* a reply of getAgentWallet that is no address
  Registrations,         \* contents of an agent's registration
  IdentityViews,         \* what the identity registry may answer
  maxBehavioralScore, maxCodeRisk, minimumPolicyVersion,
  maximumAge             \* the immutables of the gate

\* ownerOf answers an owner, the zero address or data that is no address, or
\* it reverts with or without data.
OwnerReplies == {"owner", "zero", "malformed", "reverts", "unreachable"}

Identity == [ownerOf : OwnerReplies,
             wallet : Addresses \cup {ZeroAddress, Unreadable},
             registration : Registrations]

ASSUME GateAssumption ==
  /\ IdentityViews \subseteq Identity
  /\ KeyOf \in [AgentIds -> IdentityKeys]
  /\ \A a, b \in AgentIds : KeyOf[a] = KeyOf[b] => a = b
  /\ Unreadable \notin Addresses \cup {ZeroAddress}

\* _validateConfiguration, on the immutables the model keeps; the coverage
\* mask is FIXED_COVERAGE = 0x7f, so requiredCoverage is REQUIRED_COVERAGE.
ValidConfiguration ==
  /\ maxBehavioralScore \in 0..100
  /\ maxCodeRisk \in 0..2
  /\ minimumPolicyVersion \in Nat \ {0}
  /\ maximumAge \in 1..MAX_TTL

ASSUME ConfigurationAssumption == ValidConfiguration

ALLOWED              == 0
NO_PROOF             == 1
REVOKED              == 2
DRIFTED              == 3
EXPIRED              == 4
SUBJECT_CHANGED      == 5
RUNTIME_CODE_DRIFT   == 6
POLICY_TOO_OLD       == 7
COVERAGE_INCOMPLETE  == 8
COMPUTE_UNVERIFIED   == 9
STORAGE_UNVERIFIED   == 10
BEHAVIORAL_RISK      == 11
CODE_RISK            == 12
IDENTITY_UNAVAILABLE == 13
AGENT_NOT_FOUND      == 14
AGENT_WALLET_UNSET   == 15
IDENTITY_MISMATCH    == 16

BEHAVIORAL_COMPUTE_BIT == 3   \* 0x08
STORAGE_BIT == 5              \* 0x20

VARIABLE
  identity   \* what the ERC-8004 registry answers for each agent

\* _readOwner
ReadOwner(agent) ==
  CASE identity[agent].ownerOf = "owner"                     -> ALLOWED
    [] identity[agent].ownerOf \in {"zero", "reverts"}          -> AGENT_NOT_FOUND
    [] identity[agent].ownerOf \in {"malformed", "unreachable"} -> IDENTITY_UNAVAILABLE

\* _readWallet, its reason
ReadWallet(agent) ==
  CASE identity[agent].wallet = Unreadable  -> IDENTITY_UNAVAILABLE
    [] identity[agent].wallet = ZeroAddress -> AGENT_WALLET_UNSET
    [] identity[agent].wallet \in Addresses -> ALLOWED

\* _resolveIdentity
ResolveIdentity(agent) ==
  IF ReadOwner(agent) # ALLOWED
  THEN [reason |-> ReadOwner(agent), wallet |-> ZeroAddress]
  ELSE [reason |-> ReadWallet(agent),
        wallet |-> IF ReadWallet(agent) = ALLOWED
                   THEN identity[agent].wallet ELSE ZeroAddress]

\* Two slips: a lease is refused in the block that issued it; it has no end.
IsExpiredAtIssue(proof) ==
  \/ proof.issuedAt >= now
  \/ proof.validUntil <= now
  \/ now - proof.issuedAt > maximumAge

IsExpiredNever(proof) == proof.issuedAt > now

\* _isExpired
IsExpired(proof) ==
  \/ proof.issuedAt > now
  \/ proof.validUntil <= now
  \/ now - proof.issuedAt > maximumAge

\* _evaluate: the first objection in the order of the code, or ALLOWED.
Evaluate(key, wallet, proof) ==
  IF proof.version = 0                                 THEN NO_PROOF
  ELSE IF proof.identityKey # key                      THEN IDENTITY_MISMATCH
  ELSE IF proof.subject # wallet                       THEN SUBJECT_CHANGED
  ELSE IF proof.state = STATE_REVOKED                  THEN REVOKED
  ELSE IF proof.state = STATE_DRIFTED                  THEN DRIFTED
  ELSE IF proof.state # STATE_ACTIVE                   THEN IDENTITY_MISMATCH
  ELSE IF IsExpired(proof)                             THEN EXPIRED
  ELSE IF BEHAVIORAL_COMPUTE_BIT \notin proof.coverage THEN COMPUTE_UNVERIFIED
  ELSE IF STORAGE_BIT \notin proof.coverage            THEN STORAGE_UNVERIFIED
  ELSE IF ~(REQUIRED_COVERAGE \subseteq proof.coverage) THEN COVERAGE_INCOMPLETE
  ELSE IF proof.policyVersion < minimumPolicyVersion   THEN POLICY_TOO_OLD
  ELSE IF proof.behavioralScore > maxBehavioralScore   THEN BEHAVIORAL_RISK
  ELSE IF proof.codeRisk > maxCodeRisk                 THEN CODE_RISK
  ELSE IF proof.runtimeCodeHash # code[wallet]         THEN RUNTIME_CODE_DRIFT
  ELSE ALLOWED

\* checkAgent
CheckAgent(agent) ==
  LET resolved == ResolveIdentity(agent)
      proof    == proofLocks[KeyOf[agent]]
      reason   == IF resolved.reason # ALLOWED
                  THEN resolved.reason
                  ELSE Evaluate(KeyOf[agent], resolved.wallet, proof)
  IN  [allowed |-> reason = ALLOWED,
       reason  |-> reason,
       subject |-> resolved.wallet,
       version |-> IF resolved.reason # ALLOWED THEN 0 ELSE proof.version]

\* The identity registry is another contract: its owner transfers the agent,
\* sets or clears the wallet, rewrites the registration, or it stops answering.
IdentityChanges(agent, view) ==
  /\ identity' = [identity EXCEPT ![agent] = view]
  /\ UNCHANGED vars
=============================================================================
