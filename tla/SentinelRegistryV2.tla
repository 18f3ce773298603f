------------------------- MODULE SentinelRegistryV2 -------------------------
(***************************************************************************)
(* The lease registry, contracts/SentinelRegistryV2.sol: one versioned,    *)
(* time-limited ProofLock per ERC-8004 identity key, sealed and resealed   *)
(* by the scanner, marked drifted or revoked by the guardian.              *)
(*                                                                         *)
(* A transaction is one step; a call that reverts changes nothing and is   *)
(* no step.  The environment moves the block clock and the code installed  *)
(* at subject addresses.                                                   *)
(***************************************************************************)
EXTENDS Naturals, Sequences, FiniteSets

CONSTANTS
  IdentityKeys,  \* identity keys a scanner may seal (never bytes32(0))
  Addresses,     \* subject addresses (never address(0))
  CodeHashes,    \* runtime code hashes (never bytes32(0))
  Evidence,      \* values of the four evidence commitments, as one
  Accounts,      \* externally owned accounts that may hold a role
  ZeroHash,      \* bytes32(0)
  ZeroAddress,   \* address(0)
  MAX_TTL,       \* longest lease, in clock units (30 days in the code)
  LockInputs,    \* the inputs seal and reseal are called with
  Reasons,       \* the reasons revoke and markDrift are called with
  MaxVersion,    \* bound on the version counter (uint64 in the code)
  MaxTime        \* bound on the block clock: no lease outlives it

STATE_ACTIVE  == 1
STATE_REVOKED == 2
STATE_DRIFTED == 3

\* The coverage bits: REQUIRED_COVERAGE = 0x7f is bits 0..6 of a uint8.
Bits == 0..7
REQUIRED_COVERAGE == 0..6

Keys  == IdentityKeys \cup {ZeroHash}
Roles == {"DEFAULT_ADMIN_ROLE", "SCANNER_ROLE", "GUARDIAN_ROLE"}

\* Every input the ABI lets a caller build (unsigned fields, any hash).
LockInput == [evidence : Evidence \cup {ZeroHash},
              expectedRuntimeCodeHash : CodeHashes \cup {ZeroHash},
              validForSeconds : Nat,
              policyVersion : Nat,
              behavioralScore : Nat,
              codeRisk : Nat,
              coverage : SUBSET Bits]

ASSUME RegistryAssumption ==
  /\ ZeroHash \notin IdentityKeys \cup CodeHashes \cup Evidence
  /\ ZeroAddress \notin Addresses
  /\ MAX_TTL \in Nat \ {0}
  /\ LockInputs \subseteq LockInput
  /\ Reasons \subseteq Nat
  /\ MaxVersion \in Nat \ {0}
  /\ MaxTime \in Nat

VARIABLES
  proofLocks,    \* the mapping identityKey => ProofLock
  identityKeys,  \* the array of keys, in the order of their first seal
  roles,         \* OpenZeppelin AccessControl: the members of each role
  code,          \* code hash at each address, ZeroHash where there is none
  now            \* block.timestamp

registryVars == <<proofLocks, identityKeys, roles>>
vars == <<proofLocks, identityKeys, roles, code, now>>

ProofLock == [identityKey : Keys,
              subject : Addresses \cup {ZeroAddress},
              evidence : Evidence \cup {ZeroHash},
              runtimeCodeHash : CodeHashes \cup {ZeroHash},
              version : Nat,
              issuedAt : Nat,
              validUntil : Nat,
              policyVersion : Nat,
              behavioralScore : Nat,
              codeRisk : Nat,
              coverage : SUBSET Bits,
              state : {0, STATE_ACTIVE, STATE_REVOKED, STATE_DRIFTED},
              stateReason : Nat]

\* What a storage slot that was never written reads as.
EmptyLock == [identityKey |-> ZeroHash, subject |-> ZeroAddress,
              evidence |-> ZeroHash, runtimeCodeHash |-> ZeroHash,
              version |-> 0, issuedAt |-> 0, validUntil |-> 0,
              policyVersion |-> 0, behavioralScore |-> 0, codeRisk |-> 0,
              coverage |-> {}, state |-> 0, stateReason |-> 0]

Init ==
  /\ proofLocks = [key \in Keys |-> EmptyLock]
  /\ identityKeys = << >>
  /\ \E admin, scanner, guardian \in Accounts :
       roles = [role \in Roles |->
                  CASE role = "DEFAULT_ADMIN_ROLE" -> {admin}
                    [] role = "SCANNER_ROLE"       -> {scanner}
                    [] role = "GUARDIAN_ROLE"      -> {guardian}]
  /\ code \in [Addresses -> CodeHashes \cup {ZeroHash}]
  /\ now = 0

-----------------------------------------------------------------------------
(* Helpers of the contract.                                                *)

\* A slip: the coverage mask is accepted as it comes.
ValidateAnyCoverage(key, subject, input) ==
  /\ key # ZeroHash
  /\ subject # ZeroAddress
  /\ input.evidence # ZeroHash
  /\ input.validForSeconds \in 1..MAX_TTL
  /\ input.behavioralScore <= 100
  /\ input.codeRisk <= 2
  /\ input.expectedRuntimeCodeHash = code[subject]

\* _validate: the checks on the commitments, the TTL, the scores, the
\* coverage and the code that is live in the sealing block.
Validate(key, subject, input) ==
  /\ key # ZeroHash
  /\ subject # ZeroAddress
  /\ input.evidence # ZeroHash
  /\ input.validForSeconds \in 1..MAX_TTL
  /\ input.behavioralScore <= 100
  /\ input.codeRisk <= 2
  /\ REQUIRED_COVERAGE \subseteq input.coverage
  /\ input.expectedRuntimeCodeHash = code[subject]

\* A slip: two fields are assigned in the wrong order.
CreateProofSwapped(key, subject, input, version) ==
  [identityKey |-> key, subject |-> code[subject], evidence |-> input.evidence,
   runtimeCodeHash |-> subject, version |-> version,
   issuedAt |-> now, validUntil |-> now + input.validForSeconds,
   policyVersion |-> input.policyVersion,
   behavioralScore |-> input.behavioralScore,
   codeRisk |-> input.codeRisk, coverage |-> input.coverage,
   state |-> STATE_ACTIVE, stateReason |-> 0]

\* A slip: the runtime code hash is not stored.
CreateProofWithoutCode(key, subject, input, version) ==
  [identityKey |-> key, subject |-> subject, evidence |-> input.evidence,
   runtimeCodeHash |-> ZeroHash, version |-> version,
   issuedAt |-> now, validUntil |-> now + input.validForSeconds,
   policyVersion |-> input.policyVersion,
   behavioralScore |-> input.behavioralScore,
   codeRisk |-> input.codeRisk, coverage |-> input.coverage,
   state |-> STATE_ACTIVE, stateReason |-> 0]

\* _createProof
CreateProof(key, subject, input, version) ==
  [identityKey |-> key, subject |-> subject, evidence |-> input.evidence,
   runtimeCodeHash |-> code[subject], version |-> version,
   issuedAt |-> now, validUntil |-> now + input.validForSeconds,
   policyVersion |-> input.policyVersion,
   behavioralScore |-> input.behavioralScore,
   codeRisk |-> input.codeRisk, coverage |-> input.coverage,
   state |-> STATE_ACTIVE, stateReason |-> 0]

\* _current: there is a lease and it is the version the caller meant.
Current(key, expectedVersion) ==
  /\ proofLocks[key].version # 0
  /\ proofLocks[key].version = expectedVersion

ValidReason(reason) == reason \in 1..16

\* A slip: anything that was ever sealed may be resealed.
ResealableAlways(state) == state # 0

Resealable(state) == state \in {STATE_ACTIVE, STATE_DRIFTED}

\* Bound: the clock of the model reaches the end of every lease.
WithinHorizon(input) == now + input.validForSeconds <= MaxTime

\* getIdentityKeysPaged(offset, limit), for a limit within MAX_PAGE_SIZE.
IdentityKeysPaged(offset, limit) ==
  LET total == Len(identityKeys)
      size  == IF limit > total - offset THEN total - offset ELSE limit
  IN  IF offset >= total \/ limit = 0
      THEN << >>
      ELSE [i \in 1..size |-> identityKeys[offset + i]]

-----------------------------------------------------------------------------
(* The transactions.                                                       *)

\* A slip: an identity may be sealed afresh.
SealAgain(caller, key, subject, input) ==
  /\ caller \in roles["SCANNER_ROLE"]
  /\ Len(identityKeys) < Cardinality(Keys)
  /\ Validate(key, subject, input)
  /\ WithinHorizon(input)
  /\ proofLocks' = [proofLocks EXCEPT
                      ![key] = CreateProof(key, subject, input, 1)]
  /\ identityKeys' = Append(identityKeys, key)
  /\ UNCHANGED <<roles, code, now>>

Seal(caller, key, subject, input) ==
  /\ caller \in roles["SCANNER_ROLE"]
  /\ proofLocks[key].version = 0
  /\ Validate(key, subject, input)
  /\ WithinHorizon(input)
  /\ proofLocks' = [proofLocks EXCEPT
                      ![key] = CreateProof(key, subject, input, 1)]
  /\ identityKeys' = Append(identityKeys, key)
  /\ UNCHANGED <<roles, code, now>>

\* A slip: the new lease keeps the version of the old one.
ResealSameVersion(caller, key, subject, expectedPriorVersion, input) ==
  /\ caller \in roles["SCANNER_ROLE"]
  /\ Current(key, expectedPriorVersion)
  /\ Resealable(proofLocks[key].state)
  /\ Validate(key, subject, input)
  /\ WithinHorizon(input)
  /\ proofLocks' = [proofLocks EXCEPT
            ![key] = CreateProof(key, subject, input, expectedPriorVersion)]
  /\ UNCHANGED <<identityKeys, roles, code, now>>

Reseal(caller, key, subject, expectedPriorVersion, input) ==
  LET oldVersion == proofLocks[key].version
  IN  /\ caller \in roles["SCANNER_ROLE"]
      /\ Current(key, expectedPriorVersion)
      /\ Resealable(proofLocks[key].state)
      /\ Validate(key, subject, input)
      /\ WithinHorizon(input)
      /\ oldVersion < MaxVersion
      /\ proofLocks' = [proofLocks EXCEPT
                ![key] = CreateProof(key, subject, input, oldVersion + 1)]
      /\ UNCHANGED <<identityKeys, roles, code, now>>

Revoke(caller, key, reason, expectedVersion) ==
  /\ caller \in roles["GUARDIAN_ROLE"]
  /\ Current(key, expectedVersion)
  /\ ValidReason(reason)
  /\ proofLocks[key].state \in {STATE_ACTIVE, STATE_DRIFTED}
  /\ proofLocks' = [proofLocks EXCEPT ![key].state = STATE_REVOKED,
                                      ![key].stateReason = reason]
  /\ UNCHANGED <<identityKeys, roles, code, now>>

\* A slip: the guardian marks whatever version is there.
MarkDriftAnyVersion(caller, key, reason, expectedVersion) ==
  /\ caller \in roles["GUARDIAN_ROLE"]
  /\ ValidReason(reason)
  /\ proofLocks[key].state = STATE_ACTIVE
  /\ proofLocks' = [proofLocks EXCEPT ![key].state = STATE_DRIFTED,
                                      ![key].stateReason = reason]
  /\ UNCHANGED <<identityKeys, roles, code, now>>

MarkDrift(caller, key, reason, expectedVersion) ==
  /\ caller \in roles["GUARDIAN_ROLE"]
  /\ Current(key, expectedVersion)
  /\ ValidReason(reason)
  /\ proofLocks[key].state = STATE_ACTIVE
  /\ proofLocks' = [proofLocks EXCEPT ![key].state = STATE_DRIFTED,
                                      ![key].stateReason = reason]
  /\ UNCHANGED <<identityKeys, roles, code, now>>

\* Inherited from OpenZeppelin AccessControl (a dependency, not in src/).
GrantRole(caller, role, account) ==
  /\ caller \in roles["DEFAULT_ADMIN_ROLE"]
  /\ roles' = [roles EXCEPT ![role] = @ \cup {account}]
  /\ UNCHANGED <<proofLocks, identityKeys, code, now>>

\* revokeRole by an admin, or renounceRole by the account itself.
DropRole(caller, role, account) ==
  /\ caller \in roles["DEFAULT_ADMIN_ROLE"] \/ caller = account
  /\ roles' = [roles EXCEPT ![role] = @ \ {account}]
  /\ UNCHANGED <<proofLocks, identityKeys, code, now>>

(* The environment.                                                        *)

\* Code is deployed, upgraded, destroyed or delegated (EIP-7702).
CodeChanges(address, hash) ==
  /\ code' = [code EXCEPT ![address] = hash]
  /\ UNCHANGED <<proofLocks, identityKeys, roles, now>>

Tick ==
  /\ now < MaxTime
  /\ now' = now + 1
  /\ UNCHANGED <<proofLocks, identityKeys, roles, code>>

ScannerStep ==
  \E caller \in Accounts, key \in Keys, input \in LockInputs,
     subject \in Addresses \cup {ZeroAddress} :
    \/ Seal(caller, key, subject, input)
    \/ \E v \in 0..MaxVersion : Reseal(caller, key, subject, v, input)

GuardianStep ==
  \E caller \in Accounts, key \in Keys, reason \in Reasons,
     v \in 0..MaxVersion :
    \/ Revoke(caller, key, reason, v)
    \/ MarkDrift(caller, key, reason, v)

RoleStep ==
  \E caller, account \in Accounts, role \in Roles :
    \/ GrantRole(caller, role, account)
    \/ DropRole(caller, role, account)

CodeStep ==
  \E address \in Addresses, hash \in CodeHashes \cup {ZeroHash} :
    CodeChanges(address, hash)

Next == ScannerStep \/ GuardianStep \/ RoleStep \/ CodeStep \/ Tick

Spec == Init /\ [][Next]_vars

-----------------------------------------------------------------------------
(* Properties.                                                             *)

\* Every slot of the contract and of its environment holds a value of its
\* Solidity type (contracts/SentinelRegistryV2.sol:17-50).
TypeOK ==
  /\ proofLocks \in [Keys -> ProofLock]
  /\ identityKeys \in Seq(Keys)
  /\ roles \in [Roles -> SUBSET Accounts]
  /\ code \in [Addresses -> CodeHashes \cup {ZeroHash}]
  /\ now \in 0..MaxTime

Sealed(key) == proofLocks[key].version # 0

\* The enumeration the explorer pages through lists every sealed identity
\* exactly once, however often it was resealed: seal pushes, reseal does not.
EnumerationExact ==
  /\ \A i \in 1..Len(identityKeys) : Sealed(identityKeys[i])
  /\ \A key \in Keys : Sealed(key) =>
       \E i \in 1..Len(identityKeys) : identityKeys[i] = key
  /\ \A i, j \in 1..Len(identityKeys) :
       identityKeys[i] = identityKeys[j] => i = j

\* A stored lease is one _validate accepted: bound to its own key and to a
\* real subject, never longer than MAX_TTL, with every required check done,
\* and its reason says whether a guardian acted on it.
LeaseWellFormed ==
  \A key \in Keys : Sealed(key) =>
    LET lock == proofLocks[key]
    IN  /\ key # ZeroHash
        /\ lock.identityKey = key
        /\ lock.subject \in Addresses
        /\ lock.evidence # ZeroHash
        /\ lock.issuedAt <= now
        /\ lock.validUntil > lock.issuedAt
        /\ lock.validUntil - lock.issuedAt <= MAX_TTL
        /\ REQUIRED_COVERAGE \subseteq lock.coverage
        /\ lock.behavioralScore <= 100 /\ lock.codeRisk <= 2
        /\ lock.state # 0
        /\ lock.state = STATE_ACTIVE <=> lock.stateReason = 0

\* Reading page after page with any legal page size returns the whole array:
\* no key is skipped or repeated at a page boundary.
PagesCoverEnumeration ==
  \A limit \in 1..Len(identityKeys) + 1 :
    \A i \in 1..Len(identityKeys) :
      LET offset == ((i - 1) \div limit) * limit
          page   == IdentityKeysPaged(offset, limit)
      IN  /\ (i - offset) \in DOMAIN page
          /\ page[i - offset] = identityKeys[i]
          /\ Len(page) <= limit

\* REVOKED is terminal: nothing, a reseal included, touches a revoked lease.
RevokedIsFinal ==
  [][\A key \in Keys :
       proofLocks[key].state = STATE_REVOKED => proofLocks'[key] = proofLocks[key]]_vars

\* Versions of an identity have no gap and no reuse, and what a version
\* commits to never changes: a step either opens version v + 1 over one that
\* was not revoked, freshly issued under the code live in that block, or moves
\* version v along its lifecycle and rewrites only the state and its reason.
VersionLifecycle ==
  [][\A key \in Keys :
       LET old == proofLocks[key]
           new == proofLocks'[key]
       IN  \/ new = old
           \/ /\ new.version = old.version + 1 /\ old.state # STATE_REVOKED
              /\ new.state = STATE_ACTIVE
              /\ new.issuedAt = now
              /\ new.runtimeCodeHash = code[new.subject]
           \/ /\ new = [old EXCEPT !.state = new.state, !.stateReason = new.stateReason]
              /\ <<old.state, new.state>> \in
                   {<<STATE_ACTIVE, STATE_DRIFTED>>, <<STATE_ACTIVE, STATE_REVOKED>>,
                    <<STATE_DRIFTED, STATE_REVOKED>>}]_vars

\* A key that a reader saw at an index stays at that index, so a scan by
\* pages that runs while identities are being sealed misses none it started
\* with.
EnumerationAppendOnly ==
  [][\A i \in 1..Len(identityKeys) :
       /\ i <= Len(identityKeys')
       /\ identityKeys'[i] = identityKeys[i]]_vars

\* The contract keeps the lifecycle that the other parts take leases to have: what its
\* numbered states, its checks and its counter of versions do to each key is a step of it.
StateName == [state \in 0..3 |->
  CASE state = 0             -> "NONE"    [] state = STATE_ACTIVE  -> "ACTIVE"
    [] state = STATE_REVOKED -> "REVOKED" [] state = STATE_DRIFTED -> "DRIFTED"]

Records == [key \in Keys |-> [version |-> proofLocks[key].version,
                              state   |-> StateName[proofLocks[key].state]]]

Lifecycle == INSTANCE LeaseLifecycle WITH Names <- Keys, record <- Records

KeepsLifecycle == Lifecycle!LifecycleSpec
=============================================================================
