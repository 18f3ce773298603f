----------------------- MODULE ProofLockConsumer_proof ------------------------
(***************************************************************************)
(* Proofs about the admission path: what the gate lets in is what was      *)
(* sealed, and registry, gate and consumer together implement the abstract *)
(* admission pass.                                                         *)
(***************************************************************************)
EXTENDS ProofLockConsumer, SentinelRegistryV2_proof

(***************************************************************************)
(* Composition adds nothing to the registry: a step of the whole path is a *)
(* step of the registry or leaves it alone, so its invariant carries over. *)
(***************************************************************************)
LEMMA ConsumerStepIsRegistryStep == [ConsumerNext]_allVars => [Next]_vars
BY DEF ConsumerNext, allVars, RegistryStep, BlockTick, IdentityStep, IdentityChanges,
   ConsumerStep, AcceptAgent, Next

LEMMA RegistryInvCarriesOver == ConsumerSpec => []RegistryInv
<1>1. ConsumerInit => RegistryInv
  BY InvInit DEF ConsumerInit
<1>2. RegistryInv /\ [ConsumerNext]_allVars => RegistryInv'
  BY ConsumerStepIsRegistryStep, InvStep
<1> QED
  BY <1>1, <1>2, PTL DEF ConsumerSpec

\* Whatever wallets, callers and blocks do around it, the registry behaves as it does alone:
\* every theorem about it holds of the path (SentinelRegistryV2.sol, ProofLockConsumer.sol).
THEOREM PathImplementsRegistry == ConsumerSpec => Spec
<1>1. ConsumerInit => Init
  BY DEF ConsumerInit
<1> QED
  BY <1>1, ConsumerStepIsRegistryStep, PTL DEF ConsumerSpec, Spec

-----------------------------------------------------------------------------
(* The history variable sealView agrees with the lease: subject and code    *)
(* that a lease names are what the chain held in the block that sealed it.  *)

SealViewAgrees ==
  \A key \in Keys : Sealed(key) =>
    /\ sealView[key].subject = proofLocks[key].subject
    /\ sealView[key].code = proofLocks[key].runtimeCodeHash

IdentityTyped == identity \in [AgentIds -> Identity]

LEMMA IdentityTypedInit == ConsumerInit => IdentityTyped
BY GateAssumption DEF ConsumerInit, IdentityTyped, GateAssumption

LEMMA IdentityTypedStep == IdentityTyped /\ [ConsumerNext]_allVars => IdentityTyped'
BY GateAssumption DEF ConsumerNext, allVars, RegistryStep, BlockTick, IdentityStep,
   IdentityChanges, ConsumerStep, AcceptAgent, IdentityTyped, GateAssumption

LEMMA SealViewInit == ConsumerInit => SealViewAgrees
BY DEF ConsumerInit, Init, EmptyLock, SealViewAgrees, Sealed

LEMMA SealViewStep ==
  RegistryInv /\ SealViewAgrees /\ [ConsumerNext]_allVars => SealViewAgrees'
<1> SUFFICES ASSUME RegistryInv, SealViewAgrees, [ConsumerNext]_allVars, NEW key \in Keys,
                    Sealed(key)'
             PROVE  /\ sealView'[key].subject = proofLocks'[key].subject
                    /\ sealView'[key].code = proofLocks'[key].runtimeCodeHash
  BY DEF SealViewAgrees, Sealed
<1>1. TypeOK
  BY DEF RegistryInv
<1>2. CASE RegistryStep
  <2>1. sealView'[key] = IF proofLocks'[key].version # proofLocks[key].version
                         THEN View(proofLocks'[key].subject) ELSE sealView[key]
    BY <1>2 DEF RegistryStep
  <2>2. CASE proofLocks'[key].version # proofLocks[key].version
    <3>1. ScannerStep
      <4>1. ~GuardianStep
        <5> SUFFICES ASSUME GuardianStep PROVE FALSE
          OBVIOUS
        <5>1. PICK k \in Keys, reason \in 1..16, state \in {STATE_REVOKED, STATE_DRIFTED} :
                proofLocks' = [proofLocks EXCEPT ![k] = Withdrawn(@, state, reason)]
          BY GuardianWithdraws
        <5>2. proofLocks[k] \in ProofLock /\ reason \in Nat
          BY <1>1 DEF TypeOK
        <5>3. Withdrawn(proofLocks[k], state, reason).version = proofLocks[k].version
          BY <5>2, WithdrawnType
        <5> QED
          BY <1>1, <2>2, <5>1, <5>3 DEF TypeOK
      <4>2. ~RoleStep /\ ~CodeStep
        BY <2>2 DEF RoleStep, GrantRole, DropRole, CodeStep, CodeChanges
      <4> QED
        BY <1>2, <4>1, <4>2 DEF RegistryStep
    <3>2. PICK k \in Keys, subject \in Addresses \cup {ZeroAddress}, input \in LockInputs :
            /\ Validate(k, subject, input)
            /\ proofLocks' = [proofLocks EXCEPT ![k] =
                   CreateProof(k, subject, input, proofLocks[k].version + 1)]
      BY <1>1, <3>1, ScannerWrites
    <3>3. proofLocks'[key] = CreateProof(key, subject, input, proofLocks[key].version + 1)
      BY <1>1, <2>2, <3>2 DEF TypeOK
    <3>4. subject \in Addresses
      BY <3>2 DEF Validate
    <3> QED
      BY <2>1, <2>2, <3>3, <3>4 DEF View, CreateProof
  <2>3. CASE proofLocks'[key].version = proofLocks[key].version
    <3>1. Sealed(key) /\ sealView'[key] = sealView[key]
      BY <2>1, <2>3 DEF Sealed
    <3>2. ~NextVersion(proofLocks[key], proofLocks'[key])
      BY <1>1, <2>3 DEF NextVersion, TypeOK, ProofLock
    <3>3. \/ proofLocks'[key] = proofLocks[key]
          \/ AlongLifecycle(proofLocks[key], proofLocks'[key])
      BY <3>2, LockStep, ConsumerStepIsRegistryStep
    <3>4. /\ proofLocks'[key].subject = proofLocks[key].subject
          /\ proofLocks'[key].runtimeCodeHash = proofLocks[key].runtimeCodeHash
      <4>1. proofLocks[key] \in ProofLock
        BY <1>1 DEF TypeOK
      <4> QED
        BY <3>3, <4>1 DEF AlongLifecycle, ProofLock
    <3> QED
      BY <3>1, <3>4 DEF SealViewAgrees
  <2> QED
    BY <2>2, <2>3
<1>3. CASE BlockTick \/ IdentityStep \/ ConsumerStep \/ UNCHANGED allVars
  <2>1. UNCHANGED <<proofLocks, sealView>>
    BY <1>3 DEF BlockTick, Tick, IdentityStep, IdentityChanges, ConsumerStep, AcceptAgent,
       allVars, vars
  <2> QED
    BY <2>1 DEF SealViewAgrees, Sealed
<1> QED
  BY <1>2, <1>3 DEF ConsumerNext

(***************************************************************************)
(* Whoever the gate lets in resolves to a readable wallet, and its lease   *)
(* is sealed for that wallet and for the code the wallet runs now.         *)
(***************************************************************************)
LEMMA AllowedMeans ==
  ASSUME IdentityTyped, NEW agent \in AgentIds, Allowed(agent)
  PROVE  LET lock == proofLocks[KeyOf[agent]]
         IN  /\ lock.version # 0
             /\ lock.state = STATE_ACTIVE
             /\ lock.subject = identity[agent].wallet
             /\ lock.runtimeCodeHash = code[identity[agent].wallet]
             /\ CheckAgent(agent).version = lock.version
             /\ CheckAgent(agent).subject = identity[agent].wallet
<1> DEFINE lock == proofLocks[KeyOf[agent]]
           resolved == ResolveIdentity(agent)
<1>1. /\ resolved.reason = ALLOWED
      /\ Evaluate(KeyOf[agent], resolved.wallet, lock) = ALLOWED
      /\ CheckAgent(agent).version = lock.version
      /\ CheckAgent(agent).subject = resolved.wallet
  BY DEF Allowed, CheckAgent
<1>2. resolved.wallet = identity[agent].wallet
  BY <1>1 DEF ResolveIdentity
<1>3. /\ lock.version # 0
      /\ lock.subject = resolved.wallet
      /\ lock.state = STATE_ACTIVE
      /\ lock.runtimeCodeHash = code[resolved.wallet]
  BY <1>1 DEF Evaluate, ALLOWED, NO_PROOF, IDENTITY_MISMATCH, SUBJECT_CHANGED, REVOKED,
     DRIFTED, EXPIRED, COMPUTE_UNVERIFIED, STORAGE_UNVERIFIED, COVERAGE_INCOMPLETE,
     POLICY_TOO_OLD, BEHAVIORAL_RISK, CODE_RISK, RUNTIME_CODE_DRIFT
<1> QED
  BY <1>1, <1>2, <1>3

(***************************************************************************)
(* The gate only lets in the account that was examined, with the code it   *)
(* had in the block that sealed it (AgentGateV2.sol:161-181).              *)
(***************************************************************************)
THEOREM AdmittedIsWhatWasSealed == ConsumerSpec => []AllowedIsWhatWasSealed
<1>1. RegistryInv /\ IdentityTyped /\ SealViewAgrees => AllowedIsWhatWasSealed
  <2> SUFFICES ASSUME RegistryInv, IdentityTyped, SealViewAgrees,
                      NEW agent \in AgentIds, Allowed(agent)
               PROVE  /\ sealView[KeyOf[agent]].subject = identity[agent].wallet
                      /\ sealView[KeyOf[agent]].code = code[identity[agent].wallet]
                      /\ Sealed(KeyOf[agent])
    BY DEF AllowedIsWhatWasSealed
  <2>1. KeyOf[agent] \in Keys
    BY GateAssumption DEF GateAssumption, Keys
  <2> QED
    BY <2>1, AllowedMeans DEF SealViewAgrees, Sealed
<1>2. ConsumerInit => IdentityTyped /\ SealViewAgrees
  BY IdentityTypedInit, SealViewInit
<1>3. RegistryInv /\ IdentityTyped /\ SealViewAgrees /\ [ConsumerNext]_allVars
        => (IdentityTyped /\ SealViewAgrees)'
  BY IdentityTypedStep, SealViewStep
<1> QED
  BY <1>1, <1>2, <1>3, RegistryInvCarriesOver, PTL DEF ConsumerSpec

-----------------------------------------------------------------------------
(* The refinement: registry, gate and consumer implement AdmissionPass.     *)

LEMMA StatusValues ==
  ASSUME NEW lock
  PROVE  /\ lock.state = STATE_ACTIVE  => StatusOf(lock) = "open"
         /\ lock.state = STATE_DRIFTED => StatusOf(lock) = "suspended"
         /\ lock.state = STATE_REVOKED => StatusOf(lock) = "closed"
         /\ lock.state = 0             => StatusOf(lock) = "none"
BY DEF StatusOf, STATE_ACTIVE, STATE_DRIFTED, STATE_REVOKED

Status  == [key \in Keys |-> StatusOf(proofLocks[key])]
Version == [key \in Keys |-> proofLocks[key].version]

(***************************************************************************)
(* The state in which nothing is sealed is the state with no pass issued.  *)
(***************************************************************************)
LEMMA PassStarts == ConsumerInit => Pass!PassInit
<1> SUFFICES ASSUME ConsumerInit PROVE Pass!PassInit
  OBVIOUS
<1>1. \A key \in Keys : proofLocks[key].version = 0 /\ StatusOf(proofLocks[key]) = "none"
  <2>1. \A key \in Keys : proofLocks[key].version = 0 /\ proofLocks[key].state = 0
    BY DEF ConsumerInit, Init, EmptyLock
  <2> QED
    BY <2>1, StatusValues
<1> QED
  BY <1>1 DEF ConsumerInit, Pass!PassInit

(***************************************************************************)
(* A change of one lease is a change of one pass.                          *)
(***************************************************************************)
LEMMA OnePassChanges ==
  ASSUME NEW key \in Keys, NEW lock, proofLocks \in [Keys -> ProofLock],
         proofLocks' = [proofLocks EXCEPT ![key] = lock]
  PROVE  /\ Status' = [Status EXCEPT ![key] = StatusOf(lock)]
         /\ Version' = [Version EXCEPT ![key] = lock.version]
BY DEF Status, Version

LEMMA SealingIssues ==
  ASSUME RegistryInv, ScannerStep, UNCHANGED consumerVars
  PROVE  \E key \in Keys : Pass!Issue(key)
<1>1. TypeOK
  BY DEF RegistryInv
<1>2. PICK key \in Keys, subject \in Addresses \cup {ZeroAddress}, input \in LockInputs :
        /\ proofLocks[key].version = 0 \/ Resealable(proofLocks[key].state)
        /\ proofLocks' = [proofLocks EXCEPT ![key] =
               CreateProof(key, subject, input, proofLocks[key].version + 1)]
  BY <1>1, ScannerWrites
<1> DEFINE lock == CreateProof(key, subject, input, proofLocks[key].version + 1)
<1>3. lock.state = STATE_ACTIVE /\ lock.version = proofLocks[key].version + 1
  BY DEF CreateProof
<1>4. StatusOf(lock) = "open"
  BY <1>3, StatusValues
<1>5. Status' = [Status EXCEPT ![key] = "open"]
      /\ Version' = [Version EXCEPT ![key] = Version[key] + 1]
  BY <1>1, <1>2, <1>3, <1>4, OnePassChanges DEF TypeOK, Version
<1>6. Status[key] # "closed"
  <2>1. proofLocks[key].state \in {0, STATE_ACTIVE, STATE_DRIFTED}
    BY <1>2 DEF RegistryInv, UnsealedIsEmpty, Sealed, Resealable
  <2> QED
    BY <2>1, StatusValues DEF Status
<1> QED
  BY <1>5, <1>6 DEF Pass!Issue, Status, Version, consumerVars

LEMMA WithdrawingSuspendsOrCloses ==
  ASSUME RegistryInv, GuardianStep, UNCHANGED consumerVars
  PROVE  \E key \in Keys : Pass!Suspend(key) \/ Pass!Close(key)
<1>1. TypeOK
  BY DEF RegistryInv
<1>2. PICK key \in Keys, reason \in 1..16, state \in {STATE_REVOKED, STATE_DRIFTED} :
        /\ \/ proofLocks[key].state = STATE_ACTIVE
           \/ proofLocks[key].state = STATE_DRIFTED /\ state = STATE_REVOKED
        /\ proofLocks' = [proofLocks EXCEPT ![key] = Withdrawn(@, state, reason)]
  BY GuardianWithdraws
<1> DEFINE lock == Withdrawn(proofLocks[key], state, reason)
<1>3. lock.state = state /\ lock.version = proofLocks[key].version
  <2>1. proofLocks[key] \in ProofLock /\ reason \in Nat
    BY <1>1 DEF TypeOK
  <2> QED
    BY <2>1, WithdrawnType
<1>4. Status' = [Status EXCEPT ![key] = StatusOf(lock)] /\ Version' = Version
  <2>1. /\ Status' = [Status EXCEPT ![key] = StatusOf(lock)]
        /\ Version' = [Version EXCEPT ![key] = proofLocks[key].version]
    <3>1. proofLocks' = [proofLocks EXCEPT ![key] = lock] /\ proofLocks \in [Keys -> ProofLock]
      BY <1>1, <1>2 DEF TypeOK
    <3> HIDE DEF lock
    <3>2. /\ Status' = [Status EXCEPT ![key] = StatusOf(lock)]
          /\ Version' = [Version EXCEPT ![key] = lock.version]
      BY <3>1, OnePassChanges
    <3> QED
      BY <3>2, <1>3
  <2> QED
    BY <2>1 DEF Version
<1>5. CASE state = STATE_DRIFTED
  <2>1. Status[key] = "open" /\ StatusOf(lock) = "suspended"
    BY <1>2, <1>3, <1>5, StatusValues DEF Status, STATE_DRIFTED, STATE_REVOKED
  <2> QED
    BY <1>4, <2>1 DEF Pass!Suspend, Status, Version, consumerVars
<1>6. CASE state = STATE_REVOKED
  <2>1. Status[key] \in {"open", "suspended"} /\ StatusOf(lock) = "closed"
    BY <1>2, <1>3, <1>6, StatusValues DEF Status
  <2> QED
    BY <1>4, <2>1 DEF Pass!Close, Status, Version, consumerVars
<1> QED
  BY <1>5, <1>6

LEMMA AcceptingAdmits ==
  ASSUME RegistryInv, IdentityTyped, ConsumerStep
  PROVE  \E key \in Keys : Pass!Admit(key)
<1>1. PICK sender \in Addresses, agent \in AgentIds : AcceptAgent(sender, agent)
  BY DEF ConsumerStep
<1> DEFINE key == KeyOf[agent]
<1>2. key \in Keys
  BY GateAssumption DEF GateAssumption, Keys
<1>3. /\ proofLocks[key].state = STATE_ACTIVE
      /\ CheckAgent(agent).version = proofLocks[key].version
  BY <1>1, AllowedMeans DEF AcceptAgent, Allowed
<1>4. Status[key] = "open" /\ Version[key] = CheckAgent(agent).version
  BY <1>2, <1>3, StatusValues DEF Status, Version
<1>5. /\ acceptedCount' = acceptedCount + 1
      /\ lastAcceptedVersion' = Version[key]
      /\ UNCHANGED proofLocks
  BY <1>1, <1>4 DEF AcceptAgent, vars
<1> QED
  BY <1>2, <1>4, <1>5 DEF Pass!Admit, Status, Version

LEMMA PassFollows ==
  RegistryInv /\ IdentityTyped /\ [ConsumerNext]_allVars => [Pass!PassNext]_Pass!passVars
<1> SUFFICES ASSUME RegistryInv, IdentityTyped, [ConsumerNext]_allVars
             PROVE  Pass!PassNext \/ UNCHANGED Pass!passVars
  OBVIOUS
<1>1. CASE RegistryStep
  <2>1. CASE ScannerStep
    BY <1>1, <2>1, SealingIssues DEF RegistryStep, Pass!PassNext
  <2>2. CASE GuardianStep
    BY <1>1, <2>2, WithdrawingSuspendsOrCloses DEF RegistryStep, Pass!PassNext
  <2>3. CASE RoleStep \/ CodeStep
    <3>1. UNCHANGED <<proofLocks, consumerVars>>
      BY <1>1, <2>3 DEF RegistryStep, RoleStep, GrantRole, DropRole, CodeStep, CodeChanges
    <3> QED
      BY <3>1 DEF Pass!passVars, consumerVars
  <2> QED
    BY <1>1, <2>1, <2>2, <2>3 DEF RegistryStep
<1>2. CASE ConsumerStep
  BY <1>2, AcceptingAdmits DEF Pass!PassNext
<1>3. CASE BlockTick \/ IdentityStep \/ UNCHANGED allVars
  <2>1. UNCHANGED <<proofLocks, consumerVars>>
    BY <1>3 DEF BlockTick, Tick, IdentityStep, IdentityChanges, allVars, vars
  <2> QED
    BY <2>1 DEF Pass!passVars, consumerVars
<1> QED
  BY <1>1, <1>2, <1>3 DEF ConsumerNext

(***************************************************************************)
(* The contracts implement the abstract pass: passes are issued in order,  *)
(* suspended, closed for good, and admissions happen under an open pass of *)
(* the version they record.                                                *)
(***************************************************************************)
THEOREM ContractsImplementPass == ConsumerSpec => ImplementsPass
<1>1. ConsumerInit => IdentityTyped /\ Pass!PassInit
  BY IdentityTypedInit, PassStarts
<1>2. IdentityTyped /\ [ConsumerNext]_allVars => IdentityTyped'
  BY IdentityTypedStep
<1> QED
  BY <1>1, <1>2, PassFollows, RegistryInvCarriesOver, PTL
     DEF ConsumerSpec, ImplementsPass, Pass!PassSpec

-----------------------------------------------------------------------------
(* What the gate says before and after a step.                              *)

(***************************************************************************)
(* A refusal for the state or the age of a lease is about the stored one.  *)
(***************************************************************************)
LEMMA WithdrawnMeans ==
  ASSUME IdentityTyped, NEW agent \in AgentIds,
         CheckAgent(agent).reason \in {REVOKED, DRIFTED, EXPIRED}
  PROVE  LET lock == proofLocks[KeyOf[agent]]
         IN  /\ CheckAgent(agent).version = lock.version /\ lock.version # 0
             /\ lock.state = STATE_ACTIVE => IsExpired(lock)
<1> DEFINE lock == proofLocks[KeyOf[agent]]
           resolved == ResolveIdentity(agent)
<1>1. resolved.reason = ALLOWED
  BY DEF CheckAgent, ResolveIdentity, ReadOwner, ReadWallet, ALLOWED, REVOKED, DRIFTED, EXPIRED,
     AGENT_NOT_FOUND, IDENTITY_UNAVAILABLE, AGENT_WALLET_UNSET, IdentityTyped, Identity, OwnerReplies
<1>2. /\ Evaluate(KeyOf[agent], resolved.wallet, lock) \in {REVOKED, DRIFTED, EXPIRED}
      /\ CheckAgent(agent).version = lock.version
  BY <1>1 DEF CheckAgent
<1> QED
  BY <1>2 DEF Evaluate, ALLOWED, NO_PROOF, IDENTITY_MISMATCH, SUBJECT_CHANGED, REVOKED,
     DRIFTED, EXPIRED, COMPUTE_UNVERIFIED, STORAGE_UNVERIFIED, COVERAGE_INCOMPLETE,
     POLICY_TOO_OLD, BEHAVIORAL_RISK, CODE_RISK, RUNTIME_CODE_DRIFT,
     STATE_ACTIVE, STATE_REVOKED, STATE_DRIFTED

(***************************************************************************)
(* A lease the gate lets in is active and has not lapsed.                  *)
(***************************************************************************)
AllowedIsFresh ==
  \A agent \in AgentIds : Allowed(agent) =>
    /\ CheckAgent(agent).version = proofLocks[KeyOf[agent]].version
    /\ proofLocks[KeyOf[agent]].state = STATE_ACTIVE
    /\ ~IsExpired(proofLocks[KeyOf[agent]])

LEMMA OpenGateIsFresh == IdentityTyped => AllowedIsFresh
<1> SUFFICES ASSUME IdentityTyped, NEW agent \in AgentIds, Allowed(agent)
             PROVE  ~IsExpired(proofLocks[KeyOf[agent]])
  BY AllowedMeans DEF AllowedIsFresh
<1>1. Evaluate(KeyOf[agent], ResolveIdentity(agent).wallet, proofLocks[KeyOf[agent]]) = ALLOWED
  BY DEF Allowed, CheckAgent
<1> QED
  BY <1>1 DEF Evaluate, ALLOWED, NO_PROOF, IDENTITY_MISMATCH, SUBJECT_CHANGED, REVOKED,
     DRIFTED, EXPIRED

(***************************************************************************)
(* The clock never runs back.                                              *)
(***************************************************************************)
LEMMA ClockGoesOn ==
  ASSUME TypeOK, [Next]_vars
  PROVE  now' \in Nat /\ now \in Nat /\ now' >= now
<1>1. now \in Nat
  BY RegistryAssumption DEF TypeOK, RegistryAssumption
<1>2. now' = now \/ now' = now + 1
  BY GuardianWithdraws, ScannerWrites DEF Next, vars, RoleStep, GrantRole, DropRole,
     CodeStep, CodeChanges, Tick
<1> QED
  BY <1>1, <1>2

LEMMA ReopeningIsNew ==
  ASSUME RegistryInv, IdentityTyped, IdentityTyped', [ConsumerNext]_allVars, NEW agent \in AgentIds,
         CheckAgent(agent).reason \in {REVOKED, DRIFTED, EXPIRED}, Allowed(agent)'
  PROVE  CheckAgent(agent)'.version > CheckAgent(agent).version
<1> DEFINE key == KeyOf[agent]
           old == proofLocks[key]
           new == proofLocks'[key]
<1>0. key \in Keys /\ [Next]_vars /\ TypeOK
  BY GateAssumption, ConsumerStepIsRegistryStep DEF GateAssumption, Keys, RegistryInv
<1>1. CheckAgent(agent).version = old.version /\ old.version # 0
      /\ (old.state = STATE_ACTIVE => IsExpired(old))
  BY WithdrawnMeans
<1>2. AllowedIsFresh'
  BY OpenGateIsFresh, PTL
<1>3. CheckAgent(agent)'.version = new.version /\ new.state = STATE_ACTIVE /\ ~IsExpired(old)'
  BY <1>2 DEF AllowedIsFresh
<1>4. old \in ProofLock /\ old.issuedAt <= now
  BY <1>0, <1>1 DEF TypeOK, RegistryInv, LeaseWellFormed, Sealed
<1>5. ~AlongLifecycle(old, new)
  BY <1>3 DEF AlongLifecycle, STATE_ACTIVE, STATE_DRIFTED, STATE_REVOKED
<1>6. new # old
  <2>1. SUFFICES ASSUME new = old PROVE FALSE
    OBVIOUS
  <2>2. old.validUntil <= now \/ now - old.issuedAt > maximumAge
    BY <1>0, <1>1, <1>3, <1>4, <2>1, ClockGoesOn DEF IsExpired, ProofLock
  <2>3. old.validUntil > now' /\ now' - old.issuedAt <= maximumAge
    BY <1>0, <1>3, <1>4, <2>1, ClockGoesOn, ConfigurationAssumption DEF IsExpired, ProofLock,
       ValidConfiguration
  <2> QED
    BY <1>0, <1>4, <2>2, <2>3, ClockGoesOn, ConfigurationAssumption, RegistryAssumption
       DEF ProofLock, ValidConfiguration, RegistryAssumption
<1>7. NextVersion(old, new)
  BY <1>0, <1>5, <1>6, LockStep
<1> QED
  BY <1>1, <1>3, <1>4, <1>7 DEF NextVersion, ProofLock

(***************************************************************************)
(* A version that was revoked, drifted or expired never opens again: access *)
(* returns under a later one only (AgentGateV2.sol:161-181).               *)
(***************************************************************************)
THEOREM WithdrawnStaysClosed == ConsumerSpec => WithdrawnVersionNeverReopens
<1>1. ASSUME RegistryInv, IdentityTyped, IdentityTyped', [ConsumerNext]_allVars
      PROVE  \A agent \in AgentIds :
               /\ CheckAgent(agent).reason \in {REVOKED, DRIFTED, EXPIRED}
               /\ CheckAgent(agent)'.allowed
               => CheckAgent(agent)'.version > CheckAgent(agent).version
  BY <1>1, ReopeningIsNew DEF Allowed
<1>2. ConsumerInit => IdentityTyped
  BY IdentityTypedInit
<1>3. IdentityTyped /\ [ConsumerNext]_allVars => IdentityTyped'
  BY IdentityTypedStep
<1> QED
  BY <1>1, <1>2, <1>3, RegistryInvCarriesOver, PTL DEF ConsumerSpec, WithdrawnVersionNeverReopens

(***************************************************************************)
(* A lease that was just sealed for the wallet of the agent, within the    *)
(* limits of the gate, meets no objection in its own block.                *)
(***************************************************************************)
LEMMA SealingOpens ==
  ASSUME RegistryInv, IdentityTyped, [ConsumerNext]_allVars, NEW agent \in AgentIds,
         proofLocks'[KeyOf[agent]].version > proofLocks[KeyOf[agent]].version,
         identity[agent].ownerOf = "owner",
         identity[agent].wallet = proofLocks'[KeyOf[agent]].subject,
         proofLocks'[KeyOf[agent]].policyVersion >= minimumPolicyVersion,
         proofLocks'[KeyOf[agent]].behavioralScore <= maxBehavioralScore,
         proofLocks'[KeyOf[agent]].codeRisk <= maxCodeRisk
  PROVE  Allowed(agent)'
<1> DEFINE key == KeyOf[agent]
           new == proofLocks'[key]
<1>0. key \in Keys /\ TypeOK /\ proofLocks[key] \in ProofLock
  BY GateAssumption DEF GateAssumption, Keys, RegistryInv, TypeOK
<1>1. RegistryStep
  <2>1. SUFFICES ASSUME BlockTick \/ IdentityStep \/ ConsumerStep \/ UNCHANGED allVars PROVE FALSE
    BY DEF ConsumerNext
  <2>2. UNCHANGED proofLocks
    BY <2>1 DEF BlockTick, Tick, IdentityStep, IdentityChanges, ConsumerStep, AcceptAgent,
       allVars, vars
  <2> QED
    BY <1>0, <2>2 DEF ProofLock
<1>2. ScannerStep
  <2>1. ~(RoleStep \/ CodeStep)
    BY <1>0 DEF RoleStep, GrantRole, DropRole, CodeStep, CodeChanges, ProofLock
  <2>2. SUFFICES ASSUME GuardianStep PROVE FALSE
    BY <1>1, <2>1 DEF RegistryStep
  <2>3. PICK k \in Keys, reason \in 1..16, state \in {STATE_REVOKED, STATE_DRIFTED} :
          proofLocks' = [proofLocks EXCEPT ![k] = Withdrawn(@, state, reason)]
    BY <2>2, GuardianWithdraws
  <2>4. reason \in Nat /\ proofLocks[k] \in ProofLock
    BY <1>0 DEF TypeOK
  <2>5. Withdrawn(proofLocks[k], state, reason).version = proofLocks[k].version
    BY <2>4, WithdrawnType
  <2>6. new.version = proofLocks[key].version
    BY <1>0, <2>3, <2>5 DEF TypeOK
  <2> QED
    BY <1>0, <2>6 DEF ProofLock
<1>3. PICK k \in Keys, subject \in Addresses \cup {ZeroAddress}, input \in LockInputs :
        /\ Validate(k, subject, input)
        /\ proofLocks' = [proofLocks EXCEPT ![k] =
               CreateProof(k, subject, input, proofLocks[k].version + 1)]
        /\ UNCHANGED <<code, now>>
  BY <1>0, <1>2, ScannerWrites
<1>4. k = key /\ new = CreateProof(key, subject, input, proofLocks[key].version + 1)
  <2>1. new # proofLocks[key]
    BY <1>0 DEF ProofLock
  <2>2. k = key
    BY <1>0, <1>3, <2>1 DEF TypeOK
  <2> QED
    BY <1>0, <1>3, <2>2 DEF TypeOK
<1>5. UNCHANGED identity
  BY <1>1 DEF RegistryStep
<1>6. subject \in Addresses /\ subject = identity[agent].wallet
  BY <1>3, <1>4 DEF CreateProof, Validate
<1>7. /\ ResolveIdentity(agent)'.reason = ALLOWED
      /\ ResolveIdentity(agent)'.wallet = subject
  BY <1>5, <1>6, GateAssumption, RegistryAssumption DEF ResolveIdentity, ReadOwner, ReadWallet,
     ALLOWED, GateAssumption, RegistryAssumption
<1>8. /\ new.version # 0 /\ new.identityKey = key /\ new.subject = subject
      /\ new.state = STATE_ACTIVE /\ new.coverage = input.coverage
      /\ new.runtimeCodeHash = code[subject]
      /\ new.issuedAt = now /\ new.validUntil = now + input.validForSeconds
  BY <1>0, <1>4 DEF CreateProof, ProofLock
<1>9. /\ REQUIRED_COVERAGE \subseteq new.coverage
      /\ BEHAVIORAL_COMPUTE_BIT \in new.coverage /\ STORAGE_BIT \in new.coverage
  BY <1>3, <1>8 DEF Validate, REQUIRED_COVERAGE, BEHAVIORAL_COMPUTE_BIT, STORAGE_BIT
<1>10. ~(new.issuedAt > now') /\ ~(new.validUntil <= now') /\ ~(now' - new.issuedAt > maximumAge)
  <2>1. now \in Nat /\ input.validForSeconds \in Nat /\ input.validForSeconds > 0
    BY <1>0, <1>3, RegistryAssumption DEF TypeOK, Validate, RegistryAssumption, LockInput
  <2> QED
    BY <1>3, <1>8, <2>1, ConfigurationAssumption DEF ValidConfiguration, RegistryAssumption
<1>11. /\ ~(new.policyVersion < minimumPolicyVersion)
       /\ ~(new.behavioralScore > maxBehavioralScore) /\ ~(new.codeRisk > maxCodeRisk)
  <2>1. new.policyVersion \in Nat /\ new.behavioralScore \in Nat /\ new.codeRisk \in Nat
    BY <1>3, <1>4, RegistryAssumption DEF CreateProof, RegistryAssumption, LockInput
  <2> QED
    BY <2>1, ConfigurationAssumption DEF ValidConfiguration
<1>12. Evaluate(key, subject, proofLocks[key])' = ALLOWED
  BY <1>3, <1>8, <1>9, <1>10, <1>11
     DEF Evaluate, IsExpired, ALLOWED, STATE_ACTIVE, STATE_REVOKED, STATE_DRIFTED
<1> QED
  BY <1>7, <1>12 DEF Allowed, CheckAgent

(***************************************************************************)
(* A fresh lease within the limits of the gate opens the door in the block *)
(* that sealed it (AgentGateV2.sol:119-181).                               *)
(***************************************************************************)
THEOREM FreshLeaseAlwaysAdmits == ConsumerSpec => FreshLeaseAdmits
<1>1. ASSUME RegistryInv, IdentityTyped, [ConsumerNext]_allVars
      PROVE  \A agent \in AgentIds :
               LET lock == proofLocks'[KeyOf[agent]]
               IN  /\ lock.version > proofLocks[KeyOf[agent]].version
                   /\ identity[agent].ownerOf = "owner"
                   /\ identity[agent].wallet = lock.subject
                   /\ lock.policyVersion >= minimumPolicyVersion
                   /\ lock.behavioralScore <= maxBehavioralScore
                   /\ lock.codeRisk <= maxCodeRisk
                   => Allowed(agent)'
  BY <1>1, SealingOpens
<1>2. ConsumerInit => IdentityTyped
  BY IdentityTypedInit
<1>3. IdentityTyped /\ [ConsumerNext]_allVars => IdentityTyped'
  BY IdentityTypedStep
<1> QED
  BY <1>1, <1>2, <1>3, RegistryInvCarriesOver, PTL DEF ConsumerSpec, FreshLeaseAdmits
=============================================================================
