----------------------- MODULE SentinelRegistryV2_proof -----------------------
(***************************************************************************)
(* Proofs about the lease registry, for every set of identities, addresses,*)
(* accounts and inputs and every bound.                                    *)
(***************************************************************************)
EXTENDS SentinelRegistryV2, TLAPS

(***************************************************************************)
(* What seal and reseal write is a well-typed lease.                       *)
(***************************************************************************)
LEMMA CreateProofType ==
  ASSUME TypeOK, NEW key \in Keys, NEW subject \in Addresses \cup {ZeroAddress},
         NEW input \in LockInputs, NEW version \in Nat, subject # ZeroAddress
  PROVE  CreateProof(key, subject, input, version) \in ProofLock
<1>1. input \in LockInput
  BY RegistryAssumption DEF RegistryAssumption
<1>2. code[subject] \in CodeHashes \cup {ZeroHash}
  BY DEF TypeOK
<1>3. now \in Nat /\ now + input.validForSeconds \in Nat
  BY <1>1, RegistryAssumption DEF TypeOK, LockInput, RegistryAssumption
<1> QED
  BY <1>1, <1>2, <1>3 DEF CreateProof, ProofLock, LockInput, STATE_ACTIVE

(***************************************************************************)
(* The guardian's two calls rewrite the state and its reason, nothing else.*)
(***************************************************************************)
Withdrawn(lock, state, reason) ==
  [lock EXCEPT !.state = state, !.stateReason = reason]

LEMMA WithdrawnType ==
  ASSUME NEW lock \in ProofLock, NEW reason \in Nat,
         NEW state \in {STATE_REVOKED, STATE_DRIFTED}
  PROVE  /\ Withdrawn(lock, state, reason) \in ProofLock
         /\ Withdrawn(lock, state, reason).state = state
         /\ Withdrawn(lock, state, reason).stateReason = reason
         /\ Withdrawn(lock, state, reason).version = lock.version
BY DEF Withdrawn, ProofLock

LEMMA TypeInit == Init => TypeOK
<1> SUFFICES ASSUME Init PROVE TypeOK
  OBVIOUS
<1>1. EmptyLock \in ProofLock
  BY DEF EmptyLock, ProofLock, Keys
<1>2. identityKeys \in Seq(Keys)
  BY DEF Init
<1>3. roles \in [Roles -> SUBSET Accounts]
  BY DEF Init, Roles
<1>4. now \in 0..MaxTime
  BY RegistryAssumption DEF Init, RegistryAssumption
<1>5. proofLocks \in [Keys -> ProofLock] /\ code \in [Addresses -> CodeHashes \cup {ZeroHash}]
  BY <1>1 DEF Init
<1> QED
  BY <1>2, <1>3, <1>4, <1>5 DEF TypeOK

LEMMA TypeStep == TypeOK /\ [Next]_vars => TypeOK'
<1> SUFFICES ASSUME TypeOK, [Next]_vars PROVE TypeOK'
  OBVIOUS
<1> USE DEF TypeOK
<1>1. ASSUME NEW caller \in Accounts, NEW key \in Keys, NEW input \in LockInputs,
             NEW subject \in Addresses \cup {ZeroAddress},
             Seal(caller, key, subject, input)
      PROVE  TypeOK'
  <2>1. CreateProof(key, subject, input, 1) \in ProofLock
    BY <1>1, CreateProofType DEF Seal, Validate
  <2>2. Append(identityKeys, key) \in Seq(Keys)
    OBVIOUS
  <2> QED
    BY <1>1, <2>1, <2>2 DEF Seal
<1>2. ASSUME NEW caller \in Accounts, NEW key \in Keys, NEW input \in LockInputs,
             NEW subject \in Addresses \cup {ZeroAddress}, NEW v \in 0..MaxVersion,
             Reseal(caller, key, subject, v, input)
      PROVE  TypeOK'
  <2>1. proofLocks[key].version \in Nat
    BY DEF ProofLock
  <2>2. CreateProof(key, subject, input, proofLocks[key].version + 1) \in ProofLock
    BY <1>2, <2>1, CreateProofType DEF Reseal, Validate
  <2> QED
    BY <1>2, <2>2 DEF Reseal
<1>3. ASSUME NEW caller \in Accounts, NEW key \in Keys, NEW reason \in Reasons,
             NEW v \in 0..MaxVersion,
             Revoke(caller, key, reason, v) \/ MarkDrift(caller, key, reason, v)
      PROVE  TypeOK'
  <2>1. reason \in Nat
    BY RegistryAssumption DEF RegistryAssumption
  <2>2. PICK state \in {STATE_REVOKED, STATE_DRIFTED} :
          proofLocks' = [proofLocks EXCEPT ![key] = Withdrawn(@, state, reason)]
    BY <1>3 DEF Revoke, MarkDrift, Withdrawn
  <2>3. Withdrawn(proofLocks[key], state, reason) \in ProofLock
    BY <2>1, WithdrawnType
  <2> QED
    BY <1>3, <2>2, <2>3 DEF Revoke, MarkDrift
<1>4. CASE RoleStep
  BY <1>4 DEF RoleStep, GrantRole, DropRole
<1>5. CASE CodeStep
  BY <1>5 DEF CodeStep, CodeChanges
<1>6. CASE Tick
  BY <1>6, RegistryAssumption DEF Tick, RegistryAssumption
<1>7. CASE UNCHANGED vars
  BY <1>7 DEF vars
<1> QED
  BY <1>1, <1>2, <1>3, <1>4, <1>5, <1>6, <1>7 DEF Next, ScannerStep, GuardianStep

(***************************************************************************)
(* Whatever roles change hands, code moves or calls are made, every slot   *)
(* keeps a value of its Solidity type.                                     *)
(***************************************************************************)
THEOREM TypeCorrect == Spec => []TypeOK
BY TypeInit, TypeStep, PTL DEF Spec

-----------------------------------------------------------------------------
(* The inductive invariant.  A slot that was never sealed is untouched, so  *)
(* the guardian can act on sealed leases only; a sealed one is as _validate *)
(* left it up to its state.                                                 *)

UnsealedIsEmpty == \A key \in Keys : ~Sealed(key) => proofLocks[key].state = 0

RegistryInv == TypeOK /\ UnsealedIsEmpty /\ LeaseWellFormed /\ EnumerationExact

\* The part of LeaseWellFormed about one lease at one time.
WellFormedLock(lock, key, time) ==
  /\ key # ZeroHash
  /\ lock.identityKey = key
  /\ lock.subject \in Addresses
  /\ lock.evidence # ZeroHash
  /\ lock.issuedAt <= time
  /\ lock.validUntil > lock.issuedAt
  /\ lock.validUntil - lock.issuedAt <= MAX_TTL
  /\ REQUIRED_COVERAGE \subseteq lock.coverage
  /\ lock.behavioralScore <= 100 /\ lock.codeRisk <= 2
  /\ lock.state # 0
  /\ lock.state = STATE_ACTIVE <=> lock.stateReason = 0

LEMMA LeaseWellFormedByLock ==
  LeaseWellFormed <=> \A key \in Keys : Sealed(key) => WellFormedLock(proofLocks[key], key, now)
BY DEF LeaseWellFormed, WellFormedLock

(***************************************************************************)
(* What _validate let through makes a well-formed lease.                   *)
(***************************************************************************)
LEMMA CreateProofWellFormed ==
  ASSUME TypeOK, NEW key \in Keys, NEW subject \in Addresses \cup {ZeroAddress},
         NEW input \in LockInputs, NEW version \in Nat, Validate(key, subject, input)
  PROVE  /\ WellFormedLock(CreateProof(key, subject, input, version), key, now)
         /\ CreateProof(key, subject, input, version).version = version
<1>1. input \in LockInput /\ now \in Nat /\ MAX_TTL \in Nat
  BY RegistryAssumption DEF RegistryAssumption, TypeOK
<1>2. /\ key # ZeroHash /\ subject \in Addresses
      /\ input.evidence # ZeroHash /\ REQUIRED_COVERAGE \subseteq input.coverage
      /\ input.behavioralScore <= 100 /\ input.codeRisk <= 2
  BY DEF Validate
<1>3. input.validForSeconds \in Nat /\ input.validForSeconds > 0 /\ input.validForSeconds <= MAX_TTL
  BY <1>1 DEF Validate, LockInput
<1>4. /\ now <= now /\ now + input.validForSeconds > now
      /\ (now + input.validForSeconds) - now <= MAX_TTL
  BY <1>1, <1>3
<1> QED
  BY <1>2, <1>4 DEF WellFormedLock, CreateProof, STATE_ACTIVE

(***************************************************************************)
(* Withdrawing a lease for a legal reason keeps it well formed.            *)
(***************************************************************************)
LEMMA WithdrawnWellFormed ==
  ASSUME NEW lock \in ProofLock, NEW key, NEW time, WellFormedLock(lock, key, time),
         NEW reason \in 1..16, NEW state \in {STATE_REVOKED, STATE_DRIFTED}
  PROVE  WellFormedLock(Withdrawn(lock, state, reason), key, time)
<1>1. /\ Withdrawn(lock, state, reason).state = state
      /\ Withdrawn(lock, state, reason).stateReason = reason
      /\ Withdrawn(lock, state, reason).identityKey = lock.identityKey
      /\ Withdrawn(lock, state, reason).subject = lock.subject
      /\ Withdrawn(lock, state, reason).evidence = lock.evidence
      /\ Withdrawn(lock, state, reason).issuedAt = lock.issuedAt
      /\ Withdrawn(lock, state, reason).validUntil = lock.validUntil
      /\ Withdrawn(lock, state, reason).coverage = lock.coverage
      /\ Withdrawn(lock, state, reason).behavioralScore = lock.behavioralScore
      /\ Withdrawn(lock, state, reason).codeRisk = lock.codeRisk
  BY DEF Withdrawn, ProofLock
<1> QED
  BY <1>1 DEF WellFormedLock, STATE_ACTIVE, STATE_REVOKED, STATE_DRIFTED

LEMMA InvInit == Init => RegistryInv
<1> SUFFICES ASSUME Init PROVE RegistryInv
  OBVIOUS
<1>1. TypeOK
  BY TypeInit
<1>2. \A key \in Keys : ~Sealed(key) /\ proofLocks[key].state = 0
  BY DEF Init, EmptyLock, Sealed
<1>3. Len(identityKeys) = 0
  BY DEF Init
<1> QED
  BY <1>1, <1>2, <1>3 DEF RegistryInv, UnsealedIsEmpty, LeaseWellFormed, EnumerationExact

(***************************************************************************)
(* A step of the scanner writes one lease that CreateProof made, for the   *)
(* version after the current one, and enumerates the key the first time.   *)
(***************************************************************************)
LEMMA ScannerWrites ==
  ASSUME TypeOK, ScannerStep
  PROVE  \E key \in Keys, subject \in Addresses \cup {ZeroAddress}, input \in LockInputs :
           /\ Validate(key, subject, input)
           /\ proofLocks[key].version = 0 \/ Resealable(proofLocks[key].state)
           /\ proofLocks' = [proofLocks EXCEPT ![key] =
                  CreateProof(key, subject, input, proofLocks[key].version + 1)]
           /\ identityKeys' = IF proofLocks[key].version = 0
                              THEN Append(identityKeys, key) ELSE identityKeys
           /\ UNCHANGED <<roles, code, now>>
<1>1. PICK caller \in Accounts, key \in Keys, input \in LockInputs,
           subject \in Addresses \cup {ZeroAddress} :
        \/ Seal(caller, key, subject, input)
        \/ \E v \in 0..MaxVersion : Reseal(caller, key, subject, v, input)
  BY DEF ScannerStep
<1>2. CASE Seal(caller, key, subject, input)
  <2>1. 1 = proofLocks[key].version + 1
    BY <1>2 DEF Seal
  <2> QED
    BY <1>2, <2>1 DEF Seal
<1>3. ASSUME NEW v \in 0..MaxVersion, Reseal(caller, key, subject, v, input)
      PROVE  /\ Validate(key, subject, input)
             /\ proofLocks[key].version # 0 /\ Resealable(proofLocks[key].state)
             /\ proofLocks' = [proofLocks EXCEPT ![key] =
                    CreateProof(key, subject, input, proofLocks[key].version + 1)]
             /\ UNCHANGED <<identityKeys, roles, code, now>>
  BY <1>3 DEF Reseal, Current
<1> QED
  BY <1>1, <1>2, <1>3

(***************************************************************************)
(* A step of the guardian withdraws one sealed lease that is not revoked.  *)
(***************************************************************************)
LEMMA GuardianWithdraws ==
  ASSUME GuardianStep
  PROVE  \E key \in Keys, reason \in 1..16, state \in {STATE_REVOKED, STATE_DRIFTED} :
           /\ Sealed(key)
           /\ \/ proofLocks[key].state = STATE_ACTIVE
              \/ proofLocks[key].state = STATE_DRIFTED /\ state = STATE_REVOKED
           /\ proofLocks' = [proofLocks EXCEPT ![key] = Withdrawn(@, state, reason)]
           /\ UNCHANGED <<identityKeys, roles, code, now>>
<1>1. PICK caller \in Accounts, key \in Keys, reason \in Reasons, v \in 0..MaxVersion :
        Revoke(caller, key, reason, v) \/ MarkDrift(caller, key, reason, v)
  BY DEF GuardianStep
<1>2. reason \in 1..16 /\ Sealed(key)
  BY <1>1 DEF Revoke, MarkDrift, ValidReason, Current, Sealed
<1>3. CASE Revoke(caller, key, reason, v)
  BY <1>2, <1>3 DEF Revoke, Withdrawn
<1>4. CASE MarkDrift(caller, key, reason, v)
  BY <1>2, <1>4 DEF MarkDrift, Withdrawn
<1> QED
  BY <1>1, <1>3, <1>4

-----------------------------------------------------------------------------
(* The invariant is kept: one lemma per kind of step.                       *)

LEMMA InvScanner == RegistryInv /\ ScannerStep => RegistryInv'
<1> SUFFICES ASSUME RegistryInv, ScannerStep PROVE RegistryInv'
  OBVIOUS
<1>1. TypeOK /\ TypeOK'
  BY TypeStep DEF RegistryInv, Next
<1>2. PICK key \in Keys, subject \in Addresses \cup {ZeroAddress}, input \in LockInputs :
        /\ Validate(key, subject, input)
        /\ proofLocks[key].version = 0 \/ Resealable(proofLocks[key].state)
        /\ proofLocks' = [proofLocks EXCEPT ![key] =
               CreateProof(key, subject, input, proofLocks[key].version + 1)]
        /\ identityKeys' = IF proofLocks[key].version = 0
                           THEN Append(identityKeys, key) ELSE identityKeys
        /\ UNCHANGED <<roles, code, now>>
  BY <1>1, ScannerWrites
<1> DEFINE lock == CreateProof(key, subject, input, proofLocks[key].version + 1)
<1>3. proofLocks[key].version \in Nat /\ proofLocks[key].version + 1 \in Nat
  BY <1>1 DEF TypeOK, ProofLock
<1>4. /\ WellFormedLock(lock, key, now)
      /\ lock.version = proofLocks[key].version + 1
  <2> HIDE DEF RegistryInv
  <2>1. Validate(key, subject, input)
    BY <1>2
  <2> QED
    BY <1>1, <1>3, <2>1, CreateProofWellFormed
<1> HIDE DEF lock
<1>5. /\ proofLocks'[key] = lock
      /\ \A other \in Keys : other # key => proofLocks'[other] = proofLocks[other]
      /\ now' = now
  BY <1>1, <1>2 DEF TypeOK, lock
<1>6. Sealed(key)' /\ \A other \in Keys : other # key => (Sealed(other)' <=> Sealed(other))
  BY <1>3, <1>4, <1>5 DEF Sealed
<1>7. LeaseWellFormed'
  <2>1. \A k \in Keys : Sealed(k)' => WellFormedLock(proofLocks'[k], k, now')
    BY <1>4, <1>5, <1>6, LeaseWellFormedByLock DEF RegistryInv
  <2> QED
    BY <2>1 DEF LeaseWellFormed, WellFormedLock, Sealed
<1>8. UnsealedIsEmpty'
  BY <1>5, <1>6 DEF RegistryInv, UnsealedIsEmpty, Sealed
<1>9. EnumerationExact'
  <2>1. CASE proofLocks[key].version = 0
    <3>1. /\ Len(identityKeys) \in Nat
          /\ Len(identityKeys') = Len(identityKeys) + 1
          /\ \A i \in 1..Len(identityKeys) : identityKeys'[i] = identityKeys[i]
          /\ identityKeys'[Len(identityKeys) + 1] = key
          /\ \A i \in 1..Len(identityKeys) : identityKeys[i] \in Keys
      BY <1>1, <1>2, <2>1 DEF TypeOK
    <3>2. \A i \in 1..Len(identityKeys) : identityKeys[i] # key
      BY <2>1 DEF RegistryInv, EnumerationExact, Sealed
    <3>3. \A i \in 1..Len(identityKeys') : proofLocks'[identityKeys'[i]].version # 0
      <4> SUFFICES ASSUME NEW i \in 1..Len(identityKeys')
                   PROVE  proofLocks'[identityKeys'[i]].version # 0
        OBVIOUS
      <4>1. CASE i = Len(identityKeys) + 1
        BY <3>1, <4>1, <1>6 DEF Sealed
      <4>2. CASE i # Len(identityKeys) + 1
        <5>1. i \in 1..Len(identityKeys)
          BY <3>1, <4>2
        <5>2. identityKeys'[i] = identityKeys[i] /\ identityKeys[i] \in Keys /\ identityKeys[i] # key
          BY <5>1, <3>1, <3>2
        <5>3. Sealed(identityKeys[i])
          BY <5>1 DEF RegistryInv, EnumerationExact
        <5> QED
          BY <5>2, <5>3, <1>6 DEF Sealed
      <4> QED
        BY <4>1, <4>2
    <3>4. \A k \in Keys : Sealed(k)' => \E i \in 1..Len(identityKeys') : identityKeys'[i] = k
      <4> SUFFICES ASSUME NEW k \in Keys, Sealed(k)'
                   PROVE \E i \in 1..Len(identityKeys') : identityKeys'[i] = k
        OBVIOUS
      <4>1. CASE k = key
        <5>1. Len(identityKeys) + 1 \in 1..Len(identityKeys')
          BY <3>1
        <5> QED
          BY <5>1, <3>1, <4>1
      <4>2. CASE k # key
        <5>1. PICK i \in 1..Len(identityKeys) : identityKeys[i] = k
          BY <4>2, <1>6 DEF RegistryInv, EnumerationExact
        <5>2. i \in 1..Len(identityKeys') /\ identityKeys'[i] = k
          BY <5>1, <3>1
        <5> QED
          BY <5>2
      <4> QED
        BY <4>1, <4>2
    <3>5. \A i, j \in 1..Len(identityKeys') : identityKeys'[i] = identityKeys'[j] => i = j
      <4> SUFFICES ASSUME NEW i \in 1..Len(identityKeys'), NEW j \in 1..Len(identityKeys'),
                          identityKeys'[i] = identityKeys'[j]
                   PROVE  i = j
        OBVIOUS
      <4>1. i \in 1..Len(identityKeys) \/ i = Len(identityKeys) + 1
        BY <3>1
      <4>2. j \in 1..Len(identityKeys) \/ j = Len(identityKeys) + 1
        BY <3>1
      <4> QED
        BY <4>1, <4>2, <3>1, <3>2 DEF RegistryInv, EnumerationExact
    <3> QED
      BY <3>3, <3>4, <3>5 DEF EnumerationExact, Sealed
  <2>2. CASE proofLocks[key].version # 0
    <3>1. identityKeys' = identityKeys /\ Sealed(key)
      BY <1>2, <2>2 DEF Sealed
    <3>2. \A k \in Keys : Sealed(k)' <=> Sealed(k)
      BY <1>6, <3>1
    <3>3. \A i \in 1..Len(identityKeys) : identityKeys[i] \in Keys
      BY <1>1 DEF TypeOK
    <3> QED
      BY <3>1, <3>2, <3>3 DEF RegistryInv, EnumerationExact, Sealed
  <2> QED
    BY <2>1, <2>2
<1> QED
  BY <1>1, <1>7, <1>8, <1>9 DEF RegistryInv

LEMMA InvGuardian == RegistryInv /\ GuardianStep => RegistryInv'
<1> SUFFICES ASSUME RegistryInv, GuardianStep PROVE RegistryInv'
  OBVIOUS
<1>1. TypeOK /\ TypeOK'
  BY TypeStep DEF RegistryInv, Next
<1>2. PICK key \in Keys, reason \in 1..16, state \in {STATE_REVOKED, STATE_DRIFTED} :
        /\ Sealed(key)
        /\ \/ proofLocks[key].state = STATE_ACTIVE
           \/ proofLocks[key].state = STATE_DRIFTED /\ state = STATE_REVOKED
        /\ proofLocks' = [proofLocks EXCEPT ![key] = Withdrawn(@, state, reason)]
        /\ UNCHANGED <<identityKeys, roles, code, now>>
  BY GuardianWithdraws
<1> DEFINE lock == Withdrawn(proofLocks[key], state, reason)
<1>3. proofLocks[key] \in ProofLock /\ WellFormedLock(proofLocks[key], key, now)
  BY <1>1, <1>2, LeaseWellFormedByLock DEF RegistryInv, TypeOK
<1>4. lock.version = proofLocks[key].version /\ WellFormedLock(lock, key, now)
  <2>1. reason \in Nat
    OBVIOUS
  <2>2. lock.version = proofLocks[key].version
    BY <1>3, <2>1, WithdrawnType
  <2>3. WellFormedLock(lock, key, now)
    BY <1>3, WithdrawnWellFormed
  <2> QED
    BY <2>2, <2>3
<1> HIDE DEF lock
<1>5. /\ proofLocks'[key] = lock
      /\ \A other \in Keys : other # key => proofLocks'[other] = proofLocks[other]
      /\ now' = now /\ identityKeys' = identityKeys
  BY <1>1, <1>2 DEF TypeOK, lock
<1>6. \A k \in Keys : Sealed(k)' <=> Sealed(k)
  BY <1>4, <1>5 DEF Sealed
<1>7. LeaseWellFormed'
  <2>1. \A k \in Keys : Sealed(k)' => WellFormedLock(proofLocks'[k], k, now')
    BY <1>4, <1>5, <1>6, LeaseWellFormedByLock DEF RegistryInv
  <2> QED
    BY <2>1 DEF LeaseWellFormed, WellFormedLock, Sealed
<1>8. UnsealedIsEmpty'
  BY <1>2, <1>5, <1>6 DEF RegistryInv, UnsealedIsEmpty, Sealed
<1>9. EnumerationExact'
  <2>1. \A i \in 1..Len(identityKeys) : identityKeys[i] \in Keys
    BY <1>1 DEF TypeOK
  <2> QED
    BY <1>5, <1>6, <2>1 DEF RegistryInv, EnumerationExact, Sealed
<1> QED
  BY <1>1, <1>7, <1>8, <1>9 DEF RegistryInv

LEMMA InvOther ==
  RegistryInv /\ (RoleStep \/ CodeStep \/ Tick \/ UNCHANGED vars) => RegistryInv'
<1> SUFFICES ASSUME RegistryInv, RoleStep \/ CodeStep \/ Tick \/ UNCHANGED vars
             PROVE  RegistryInv'
  OBVIOUS
<1>1. TypeOK /\ TypeOK'
  BY TypeStep DEF RegistryInv, Next
<1>2. UNCHANGED <<proofLocks, identityKeys>>
  BY DEF RoleStep, GrantRole, DropRole, CodeStep, CodeChanges, Tick, vars
<1>3. now \in Nat /\ now' \in Nat /\ now <= now'
  BY <1>1, RegistryAssumption DEF RegistryAssumption, TypeOK, RoleStep, GrantRole,
     DropRole, CodeStep, CodeChanges, Tick, vars
<1>4. LeaseWellFormed'
  <2>1. ASSUME NEW key \in Keys, Sealed(key)
        PROVE  WellFormedLock(proofLocks[key], key, now')
    <3>1. WellFormedLock(proofLocks[key], key, now) /\ proofLocks[key].issuedAt \in Nat
      BY <1>1, <2>1, LeaseWellFormedByLock DEF RegistryInv, TypeOK, ProofLock
    <3> QED
      BY <1>3, <3>1 DEF WellFormedLock
  <2> QED
    BY <1>2, <2>1 DEF LeaseWellFormed, WellFormedLock, Sealed
<1>5. UnsealedIsEmpty' /\ EnumerationExact'
  BY <1>2 DEF RegistryInv, UnsealedIsEmpty, EnumerationExact, Sealed
<1> QED
  BY <1>1, <1>4, <1>5 DEF RegistryInv

LEMMA InvStep == RegistryInv /\ [Next]_vars => RegistryInv'
BY InvScanner, InvGuardian, InvOther DEF Next

(***************************************************************************)
(* The invariant of the registry: typed, unsealed slots empty, sealed ones *)
(* well formed, enumeration exact.                                         *)
(***************************************************************************)
THEOREM RegistryInvariant == Spec => []RegistryInv
BY InvInit, InvStep, PTL DEF Spec

(***************************************************************************)
(* Every lease in storage is one _validate would accept, whatever calls    *)
(* were made in whatever order (SentinelRegistryV2.sol:166-201).           *)
(***************************************************************************)
THEOREM LeaseAlwaysWellFormed == Spec => []LeaseWellFormed
<1>1. RegistryInv => LeaseWellFormed
  BY DEF RegistryInv
<1> QED
  BY <1>1, RegistryInvariant, PTL

(***************************************************************************)
(* The enumeration holds the sealed identities, each once.                 *)
(***************************************************************************)
THEOREM EnumerationAlwaysExact == Spec => []EnumerationExact
<1>1. RegistryInv => EnumerationExact
  BY DEF RegistryInv
<1> QED
  BY <1>1, RegistryInvariant, PTL

-----------------------------------------------------------------------------
(* What a step may do to one lease.  The action of VersionLifecycle, named. *)

NextVersion(old, new) ==
  /\ new.version = old.version + 1
  /\ new.state = STATE_ACTIVE
  /\ new.issuedAt = now
  /\ new.runtimeCodeHash = code[new.subject]

AlongLifecycle(old, new) ==
  /\ new = [old EXCEPT !.state = new.state, !.stateReason = new.stateReason]
  /\ <<old.state, new.state>> \in
       {<<STATE_ACTIVE, STATE_DRIFTED>>, <<STATE_ACTIVE, STATE_REVOKED>>,
        <<STATE_DRIFTED, STATE_REVOKED>>}

LEMMA LockStep ==
  ASSUME RegistryInv, [Next]_vars, NEW key \in Keys
  PROVE  \/ proofLocks'[key] = proofLocks[key]
         \/ /\ NextVersion(proofLocks[key], proofLocks'[key])
            /\ proofLocks[key].state # STATE_REVOKED
         \/ AlongLifecycle(proofLocks[key], proofLocks'[key])
<1>1. TypeOK
  BY DEF RegistryInv
<1>2. CASE ScannerStep
  <2>1. PICK k \in Keys, subject \in Addresses \cup {ZeroAddress}, input \in LockInputs :
          /\ proofLocks[k].version = 0 \/ Resealable(proofLocks[k].state)
          /\ proofLocks' = [proofLocks EXCEPT ![k] =
                 CreateProof(k, subject, input, proofLocks[k].version + 1)]
    BY <1>1, <1>2, ScannerWrites
  <2>2. CASE k = key
    <3>1. proofLocks'[key] = CreateProof(key, subject, input, proofLocks[key].version + 1)
      BY <1>1, <2>1, <2>2 DEF TypeOK
    <3>2. NextVersion(proofLocks[key], proofLocks'[key])
      BY <3>1 DEF NextVersion, CreateProof
    <3>3. proofLocks[key].state # STATE_REVOKED
      BY <2>1, <2>2 DEF RegistryInv, UnsealedIsEmpty, Sealed, Resealable,
         STATE_ACTIVE, STATE_DRIFTED, STATE_REVOKED
    <3> QED
      BY <3>2, <3>3
  <2> QED
    BY <1>1, <2>1, <2>2 DEF TypeOK
<1>3. CASE GuardianStep
  <2>1. PICK k \in Keys, reason \in 1..16, state \in {STATE_REVOKED, STATE_DRIFTED} :
          /\ \/ proofLocks[k].state = STATE_ACTIVE
             \/ proofLocks[k].state = STATE_DRIFTED /\ state = STATE_REVOKED
          /\ proofLocks' = [proofLocks EXCEPT ![k] = Withdrawn(@, state, reason)]
    BY <1>3, GuardianWithdraws
  <2>2. CASE k = key
    <3> DEFINE lock == Withdrawn(proofLocks[key], state, reason)
    <3>1. proofLocks'[key] = lock
      BY <1>1, <2>1, <2>2 DEF TypeOK
    <3>2. lock.state = state /\ lock.stateReason = reason
      <4>1. proofLocks[key] \in ProofLock /\ reason \in Nat
        BY <1>1 DEF TypeOK
      <4> QED
        BY <4>1, WithdrawnType
    <3>3. lock = [proofLocks[key] EXCEPT !.state = lock.state, !.stateReason = lock.stateReason]
      BY <3>2, Zenon DEF Withdrawn
    <3>4. <<proofLocks[key].state, lock.state>> \in
            {<<STATE_ACTIVE, STATE_DRIFTED>>, <<STATE_ACTIVE, STATE_REVOKED>>,
             <<STATE_DRIFTED, STATE_REVOKED>>}
      BY <2>1, <2>2, <3>2
    <3> QED
      BY <3>1, <3>3, <3>4 DEF AlongLifecycle
  <2> QED
    BY <1>1, <2>1, <2>2 DEF TypeOK
<1>4. CASE RoleStep \/ CodeStep \/ Tick \/ UNCHANGED vars
  BY <1>4 DEF RoleStep, GrantRole, DropRole, CodeStep, CodeChanges, Tick, vars
<1> QED
  BY <1>2, <1>3, <1>4 DEF Next

(***************************************************************************)
(* REVOKED is terminal for every lease: no call of anyone touches it again *)
(* (SentinelRegistryV2.sol:124-126, 221-223).                              *)
(***************************************************************************)
THEOREM RevokedStaysRevoked == Spec => RevokedIsFinal
<1>1. ASSUME RegistryInv, [Next]_vars
      PROVE  \A key \in Keys :
               proofLocks[key].state = STATE_REVOKED => proofLocks'[key] = proofLocks[key]
  <2> SUFFICES ASSUME NEW key \in Keys, proofLocks[key].state = STATE_REVOKED
               PROVE  proofLocks'[key] = proofLocks[key]
    OBVIOUS
  <2>1. ~AlongLifecycle(proofLocks[key], proofLocks'[key])
    BY DEF AlongLifecycle, STATE_ACTIVE, STATE_DRIFTED, STATE_REVOKED
  <2> QED
    BY <1>1, <2>1, LockStep
<1> QED
  BY <1>1, RegistryInvariant, PTL DEF RevokedIsFinal, Spec

(***************************************************************************)
(* Versions have no gap and no reuse, and a version's commitments never    *)
(* change (SentinelRegistryV2.sol:95-143, 185-201).                        *)
(***************************************************************************)
THEOREM VersionsFollowLifecycle == Spec => VersionLifecycle
<1>1. ASSUME RegistryInv, [Next]_vars
      PROVE  \A key \in Keys :
               LET old == proofLocks[key]
                   new == proofLocks'[key]
               IN  \/ new = old
                   \/ /\ new.version = old.version + 1 /\ old.state # STATE_REVOKED
                      /\ new.state = STATE_ACTIVE
                      /\ new.issuedAt = now
                      /\ new.runtimeCodeHash = code[new.subject]
                   \/ /\ new = [old EXCEPT !.state = new.state, !.stateReason = new.stateReason]
                      /\ <<old.state, new.state>> \in
                           {<<STATE_ACTIVE, STATE_DRIFTED>>, <<STATE_ACTIVE, STATE_REVOKED>>,
                            <<STATE_DRIFTED, STATE_REVOKED>>}
  BY <1>1, LockStep, Zenon DEF NextVersion, AlongLifecycle
<1> QED
  BY <1>1, RegistryInvariant, PTL DEF VersionLifecycle, Spec

(***************************************************************************)
(* A key keeps the index at which a reader found it                        *)
(* (SentinelRegistryV2.sol:100-101, 149-160).                              *)
(***************************************************************************)
THEOREM EnumerationOnlyGrows == Spec => EnumerationAppendOnly
<1>1. ASSUME RegistryInv, [Next]_vars
      PROVE  \A i \in 1..Len(identityKeys) :
               /\ i <= Len(identityKeys')
               /\ identityKeys'[i] = identityKeys[i]
  <2>1. TypeOK
    BY <1>1 DEF RegistryInv
  <2>2. CASE ScannerStep
    <3>1. PICK key \in Keys :
            identityKeys' = IF proofLocks[key].version = 0
                            THEN Append(identityKeys, key) ELSE identityKeys
      BY <2>1, <2>2, ScannerWrites
    <3> QED
      BY <2>1, <3>1 DEF TypeOK
  <2>3. CASE GuardianStep \/ RoleStep \/ CodeStep \/ Tick \/ UNCHANGED vars
    <3>1. identityKeys' = identityKeys
      BY <2>3, GuardianWithdraws DEF RoleStep, GrantRole, DropRole, CodeStep,
         CodeChanges, Tick, vars
    <3> QED
      BY <2>1, <3>1 DEF TypeOK
  <2> QED
    BY <1>1, <2>2, <2>3 DEF Next
<1> QED
  BY <1>1, RegistryInvariant, PTL DEF EnumerationAppendOnly, Spec

-----------------------------------------------------------------------------
(* The pages of the explorer.                                               *)

(***************************************************************************)
(* Where the page of an index begins.                                      *)
(***************************************************************************)
LEMMA PageStart ==
  ASSUME NEW i \in Nat \ {0}, NEW limit \in Nat \ {0}
  PROVE  LET offset == ((i - 1) \div limit) * limit
         IN  offset \in Nat /\ offset < i /\ i - offset <= limit
<1> DEFINE m == i - 1
           q == m \div limit
<1>1. m \in Nat /\ q \in Nat
  OBVIOUS
<1>2. m = limit * q + (m % limit) /\ m % limit \in 0..limit - 1
  OBVIOUS
<1> DEFINE p == q * limit
<1>3. p = limit * q /\ p \in Nat
  BY <1>1
<1> HIDE DEF p, q
<1>4. p <= m /\ m - p < limit
  BY <1>1, <1>2, <1>3
<1> QED
  BY <1>1, <1>3, <1>4 DEF p, q

(***************************************************************************)
(* Pages of any size, read one after the other, show every index once      *)
(* (SentinelRegistryV2.sol:149-160).                                       *)
(***************************************************************************)
LEMMA PagesCover == TypeOK => PagesCoverEnumeration
<1> SUFFICES ASSUME TypeOK, NEW limit \in 1..Len(identityKeys) + 1, NEW i \in 1..Len(identityKeys)
             PROVE  LET offset == ((i - 1) \div limit) * limit
                        page   == IdentityKeysPaged(offset, limit)
                    IN  /\ (i - offset) \in DOMAIN page
                        /\ page[i - offset] = identityKeys[i]
                        /\ Len(page) <= limit
  BY DEF PagesCoverEnumeration
<1> DEFINE total  == Len(identityKeys)
           offset == ((i - 1) \div limit) * limit
           size   == IF limit > total - offset THEN total - offset ELSE limit
           page   == IdentityKeysPaged(offset, limit)
<1>1. total \in Nat /\ limit \in Nat \ {0} /\ i \in Nat \ {0} /\ i <= total
  BY DEF TypeOK
<1>2. offset \in Nat /\ offset < i /\ i - offset <= limit
  BY <1>1, PageStart
<1> HIDE DEF offset
<1>3. size \in Nat /\ size <= limit /\ i - offset \in 1..size /\ offset + (i - offset) = i
  BY <1>1, <1>2
<1>4. page = [n \in 1..size |-> identityKeys[offset + n]]
  BY <1>1, <1>2 DEF IdentityKeysPaged
<1>5. Len(page) = size
  BY <1>3, <1>4
<1> HIDE DEF size, page
<1>6. (i - offset) \in DOMAIN page /\ page[i - offset] = identityKeys[i] /\ Len(page) <= limit
  BY <1>3, <1>4, <1>5
<1> QED
  BY <1>6 DEF offset, page

(***************************************************************************)
(* No key is skipped or repeated at a page boundary, whatever was sealed   *)
(* and whatever the page size (SentinelRegistryV2.sol:149-160).            *)
(***************************************************************************)
THEOREM PagesAlwaysCover == Spec => []PagesCoverEnumeration
<1>1. RegistryInv => PagesCoverEnumeration
  BY PagesCover DEF RegistryInv
<1> QED
  BY <1>1, RegistryInvariant, PTL

-----------------------------------------------------------------------------
(* The lifecycle that the other parts of the system take leases to have.    *)

LEMMA RecordsAre ==
  ASSUME TypeOK
  PROVE  /\ Records \in [Keys -> [version : Nat, state : {"NONE", "ACTIVE", "DRIFTED", "REVOKED"}]]
         /\ \A key \in Keys : Records[key] = [version |-> proofLocks[key].version,
                                              state |-> StateName[proofLocks[key].state]]
<1>1. \A state \in {0, STATE_ACTIVE, STATE_REVOKED, STATE_DRIFTED} :
        StateName[state] \in {"NONE", "ACTIVE", "DRIFTED", "REVOKED"}
  BY DEF StateName, STATE_ACTIVE, STATE_REVOKED, STATE_DRIFTED
<1>2. \A key \in Keys : proofLocks[key].version \in Nat
                        /\ proofLocks[key].state \in {0, STATE_ACTIVE, STATE_REVOKED, STATE_DRIFTED}
  BY DEF TypeOK, ProofLock
<1> QED
  BY <1>1, <1>2 DEF Records

LEMMA NamesOfStates ==
  /\ StateName[0] = "NONE" /\ StateName[STATE_ACTIVE] = "ACTIVE"
  /\ StateName[STATE_REVOKED] = "REVOKED" /\ StateName[STATE_DRIFTED] = "DRIFTED"
BY DEF StateName, STATE_ACTIVE, STATE_REVOKED, STATE_DRIFTED

(***************************************************************************)
(* One lease that gives way to another changes the record of its key only. *)
(***************************************************************************)
LEMMA OneRecordMoves ==
  ASSUME TypeOK, NEW key \in Keys, NEW lock, proofLocks' = [proofLocks EXCEPT ![key] = lock]
  PROVE  Records' = [Records EXCEPT ![key] = [version |-> lock.version,
                                              state |-> StateName[lock.state]]]
<1>1. proofLocks' = [k \in Keys |-> IF k = key THEN lock ELSE proofLocks[k]]
  BY DEF TypeOK
<1>2. Records' = [k \in Keys |-> [version |-> proofLocks'[k].version,
                                  state |-> StateName[proofLocks'[k].state]]]
  BY DEF Records, StateName
<1>3. ASSUME NEW k \in Keys
      PROVE  [version |-> proofLocks'[k].version, state |-> StateName[proofLocks'[k].state]]
               = IF k = key THEN [version |-> lock.version, state |-> StateName[lock.state]]
                 ELSE Records[k]
  BY <1>1 DEF Records
<1> QED
  BY <1>2, <1>3 DEF Records

LEMMA ScannerKeepsLifecycle ==
  ASSUME RegistryInv, ScannerStep
  PROVE  Lifecycle!LifecycleNext
<1>1. TypeOK
  BY DEF RegistryInv
<1>2. PICK key \in Keys, subject \in Addresses \cup {ZeroAddress}, input \in LockInputs :
        /\ proofLocks[key].version = 0 \/ Resealable(proofLocks[key].state)
        /\ proofLocks' = [proofLocks EXCEPT ![key] =
               CreateProof(key, subject, input, proofLocks[key].version + 1)]
  BY <1>1, ScannerWrites
<1>3. PICK lock : lock = CreateProof(key, subject, input, proofLocks[key].version + 1)
  OBVIOUS
<1>4. lock.version = proofLocks[key].version + 1 /\ lock.state = STATE_ACTIVE
  BY <1>3 DEF CreateProof
<1>5. proofLocks[key].state \in {0, STATE_ACTIVE, STATE_DRIFTED}
  BY <1>2 DEF RegistryInv, UnsealedIsEmpty, Sealed, Resealable
<1>6. /\ Records[key].version = proofLocks[key].version
      /\ Records[key].state \in {"NONE", "ACTIVE", "DRIFTED"}
  BY <1>1, <1>5, RecordsAre, NamesOfStates
<1>7. Records' = [Records EXCEPT ![key] = [version |-> Records[key].version + 1, state |-> "ACTIVE"]]
  <2>1. proofLocks' = [proofLocks EXCEPT ![key] = lock]
    BY <1>2, <1>3
  <2>2. Records' = [Records EXCEPT ![key] = [version |-> lock.version, state |-> StateName[lock.state]]]
    BY <1>1, <2>1, OneRecordMoves
  <2> QED
    BY <1>4, <1>6, <2>2, NamesOfStates
<1>8. Lifecycle!Write(key)
  BY <1>6, <1>7 DEF Lifecycle!Write
<1> QED
  BY <1>8 DEF Lifecycle!LifecycleNext

LEMMA GuardianKeepsLifecycle ==
  ASSUME RegistryInv, GuardianStep
  PROVE  Lifecycle!LifecycleNext
<1>1. TypeOK
  BY DEF RegistryInv
<1>2. PICK key \in Keys, reason \in 1..16, state \in {STATE_REVOKED, STATE_DRIFTED} :
        /\ \/ proofLocks[key].state = STATE_ACTIVE
           \/ proofLocks[key].state = STATE_DRIFTED /\ state = STATE_REVOKED
        /\ proofLocks' = [proofLocks EXCEPT ![key] = Withdrawn(@, state, reason)]
  BY GuardianWithdraws
<1>3. PICK lock : lock = Withdrawn(proofLocks[key], state, reason)
  OBVIOUS
<1>4. proofLocks[key] \in ProofLock /\ lock.version = proofLocks[key].version /\ lock.state = state
  BY <1>1, <1>3 DEF TypeOK, Withdrawn, ProofLock
<1>5. PICK name : name = StateName[state]
  OBVIOUS
<1>6. /\ Records[key].version = proofLocks[key].version
      /\ <<Records[key].state, name>> \in Lifecycle!Withdrawals
      /\ name \in {"DRIFTED", "REVOKED"}
  BY <1>1, <1>2, <1>5, RecordsAre, NamesOfStates DEF Lifecycle!Withdrawals
<1>7. Records' = [Records EXCEPT ![key] = [version |-> Records[key].version, state |-> name]]
  <2>1. proofLocks' = [proofLocks EXCEPT ![key] = lock]
    BY <1>2, <1>3
  <2>2. Records' = [Records EXCEPT ![key] = [version |-> lock.version, state |-> StateName[lock.state]]]
    BY <1>1, <2>1, OneRecordMoves
  <2> QED
    BY <1>4, <1>5, <1>6, <2>2
<1>8. Lifecycle!Withdraw(key, name)
  BY <1>6, <1>7 DEF Lifecycle!Withdraw
<1> QED
  BY <1>6, <1>8 DEF Lifecycle!LifecycleNext

LEMMA LifecycleStarts == Init => Lifecycle!LifecycleInit
<1> SUFFICES ASSUME Init PROVE Lifecycle!LifecycleInit
  OBVIOUS
<1>1. \A key \in Keys : proofLocks[key].version = 0 /\ StateName[proofLocks[key].state] = "NONE"
  BY NamesOfStates DEF Init, EmptyLock
<1> QED
  BY <1>1 DEF Lifecycle!LifecycleInit, Records

LEMMA LifecycleStep == RegistryInv /\ [Next]_vars => [Lifecycle!LifecycleNext]_Records
<1>1. RoleStep \/ CodeStep \/ Tick \/ UNCHANGED vars => UNCHANGED proofLocks
  BY DEF RoleStep, GrantRole, DropRole, CodeStep, CodeChanges, Tick, vars
<1>2. UNCHANGED proofLocks => UNCHANGED Records
  BY DEF Records, StateName
<1> QED
  BY <1>1, <1>2, ScannerKeepsLifecycle, GuardianKeepsLifecycle DEF Next

(***************************************************************************)
(* What seal, reseal, revoke and markDrift do to a key, with the checks    *)
(* and the numbering of the contract, is a step of the lifecycle that the  *)
(* write ceremony assumes of leases (SentinelRegistryV2.sol:95-143).       *)
(***************************************************************************)
THEOREM RegistryImplementsLifecycle == Spec => KeepsLifecycle
<1>1. Init => Lifecycle!LifecycleInit
  BY LifecycleStarts
<1>2. RegistryInv /\ [Next]_vars => [Lifecycle!LifecycleNext]_Records
  BY LifecycleStep
<1> QED
  BY <1>1, <1>2, RegistryInvariant, PTL DEF Spec, KeepsLifecycle, Lifecycle!LifecycleSpec
=============================================================================
