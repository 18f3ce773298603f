----------------------------- MODULE DriftCheck -----------------------------
(***************************************************************************)
(* The on-demand drift check (server/prooflock/drift.ts) with the registry *)
(* it marks: a check compares the fingerprint that was sealed with the one *)
(* of the finalized block and, when asked to, marks the version it read as *)
(* drifted.  Between these awaits the owner, the wallet, the code and the  *)
(* scanner go on.  The evidence of a lease is the fingerprint it sealed.   *)
(***************************************************************************)
EXTENDS SentinelRegistryV2

CONSTANTS
    Checks,             \* drift requests that may be under way
    Owners, Registrations, Targets, PolicyVersions,
    Kind,               \* the subject kind that code makes an account
    NoTarget,
    Scanner, Guardian,  \* the accounts of the operator
    MaxChanges,         \* bound: changes of the world outside
    MaxRestarts         \* bound: how often the operator's process dies

SubjectKinds == {"EOA", "EIP7702_DELEGATED_EOA", "CONTRACT"}

\* Delegation and proxy bindings are one target here: a kind has at most one of them.
Fingerprint == [owner : Owners, agentWallet : Addresses, registrationDigest : Registrations,
                subjectKind : SubjectKinds, runtimeCodeHash : CodeHashes \cup {ZeroHash},
                target : Targets \cup {NoTarget}, policyVersion : PolicyVersions]

\* validateShape
ValidShape(fp) ==
    /\ fp.subjectKind = "EOA" <=> fp.runtimeCodeHash = ZeroHash
    /\ fp.subjectKind = "EOA" => fp.target = NoTarget
    /\ fp.subjectKind = "EIP7702_DELEGATED_EOA" => fp.target # NoTarget

ASSUME DriftAssumption ==
    /\ Kind \in [CodeHashes \cup {ZeroHash} -> SubjectKinds]
    /\ Evidence = {fp \in Fingerprint : ValidShape(fp) /\ fp.subjectKind = Kind[fp.runtimeCodeHash]}
    /\ {Scanner, Guardian} \subseteq Accounts /\ Scanner # Guardian
    /\ NoTarget \notin Targets
    /\ {3, 5, 6} \subseteq Reasons
    /\ MaxChanges \in Nat /\ MaxRestarts \in Nat

VARIABLES
    identity,   \* the identity registry: owner, wallet (or none) and registration of each key
    target,     \* what the code at an address delegates to
    finalized,  \* the identity, code and target that a finalized block shows
    policy,     \* POLICY_VERSION of the running operator
    checks,     \* the drift requests
    changes, restarts

worldVars == <<identity, target, finalized, policy, changes>>
driftVars == <<vars, worldVars, checks, restarts>>

\* A request: the lease it compares, as far as it has read, and its own transaction.
NoCheck == [pc |-> "idle", key |-> ZeroHash, mark |-> FALSE, version |-> 0,
            sealed |-> ZeroHash, reason |-> 0, tx |-> "none", answer |-> "none"]

View(key) == [id |-> identity[key],
              code |-> [a \in Addresses |-> code[a]], target |-> target]

DriftInit ==
    /\ Init
    /\ roles = [role \in Roles |-> CASE role = "SCANNER_ROLE"  -> {Scanner}
                                     [] role = "GUARDIAN_ROLE" -> {Guardian}
                                     [] OTHER                  -> Accounts \ {Scanner, Guardian}]
    /\ identity \in [IdentityKeys -> [owner : Owners, agentWallet : Addresses,
                                      registrationDigest : Registrations]]
    /\ target \in [Addresses -> Targets \cup {NoTarget}]
    /\ finalized = [key \in IdentityKeys |-> View(key)]
    /\ policy \in PolicyVersions
    /\ checks = [c \in Checks |-> NoCheck]
    /\ changes = 0 /\ restarts = 0

\* resolveCurrentFingerprint: identity, classification and checks at one finalized block.
Resolvable(key) == LET w == finalized[key].id.agentWallet IN
    /\ w # ZeroAddress
    /\ Kind[finalized[key].code[w]] = "EIP7702_DELEGATED_EOA" => finalized[key].target[w] # NoTarget

CurrentFingerprint(key) ==
    LET view == finalized[key]
        w    == view.id.agentWallet
        kind == Kind[view.code[w]]
    IN [owner |-> view.id.owner, agentWallet |-> w, registrationDigest |-> view.id.registrationDigest,
        subjectKind |-> kind, runtimeCodeHash |-> view.code[w],
        target |-> IF kind = "EOA" THEN NoTarget ELSE view.target[w], policyVersion |-> policy]

-----------------------------------------------------------------------------
(* The check *)

\* A slip: the registration is not among the fields.
ChangedFieldsOfAccount(sealed, current) ==
    {f \in DOMAIN sealed \ {"registrationDigest"} : sealed[f] # current[f]}

ChangedFields(sealed, current) == {f \in DOMAIN sealed : sealed[f] # current[f]}

\* driftReason: a change of wallet or kind wins over one of code, that over any other.
DriftReason(changed) ==
    CASE changed \cap {"agentWallet", "subjectKind"} # {} -> 5  \* SUBJECT_CHANGED
      [] changed \cap {"agentWallet", "subjectKind"} = {}
         /\ "runtimeCodeHash" \in changed                -> 6  \* RUNTIME_CODE_DRIFT
      [] OTHER                                          -> 3  \* DRIFTED

At(c, pc) == checks[c].pc = pc
Answer(c, what) == checks' = [checks EXCEPT ![c].pc = "done", ![c].answer = what]
OnlyCheck == UNCHANGED <<vars, worldVars, restarts>>

\* requireCustody, asked only when a mark is wanted: each role where it belongs, and
\* in no other hand of the operator.
Custody ==
    /\ Scanner \in roles["SCANNER_ROLE"] /\ Guardian \in roles["GUARDIAN_ROLE"]
    /\ Scanner \notin roles["GUARDIAN_ROLE"] \cup roles["DEFAULT_ADMIN_ROLE"]
    /\ Guardian \notin roles["SCANNER_ROLE"] \cup roles["DEFAULT_ADMIN_ROLE"]

Request(c, key, mark) ==
    /\ At(c, "idle") \/ At(c, "done")
    /\ checks' = [checks EXCEPT ![c] = [NoCheck EXCEPT
                    !.pc = IF mark /\ ~Custody THEN "done" ELSE "reading",
                    !.answer = IF mark /\ ~Custody THEN "failed" ELSE "none",
                    !.key = key, !.mark = mark]]
    /\ OnlyCheck

\* readSealedSnapshot reads the lease; a lease that was never sealed has no evidence.
ReadSealedSnapshot(c) ==
    /\ At(c, "reading")
    /\ LET lock == proofLocks[checks[c].key] IN
         IF lock.version = 0 THEN Answer(c, "failed")
         ELSE checks' = [checks EXCEPT ![c].pc = "resolving", ![c].version = lock.version,
                                       ![c].sealed = lock.evidence]
    /\ OnlyCheck

ResolveCurrent(c) ==
    /\ At(c, "resolving")
    /\ IF ~Resolvable(checks[c].key) THEN Answer(c, "failed")
       ELSE LET changed == ChangedFields(checks[c].sealed, CurrentFingerprint(checks[c].key)) IN
            IF changed = {} \/ ~checks[c].mark THEN Answer(c, "unmarked")
            ELSE checks' = [checks EXCEPT ![c].pc = "sending", ![c].reason = DriftReason(changed)]
    /\ OnlyCheck

\* markProofLockDrift: assertDriftSource on a fresh read, then send.
SendMark(c) ==
    /\ At(c, "sending")
    /\ LET lock == proofLocks[checks[c].key] IN
         IF lock.version # checks[c].version \/ lock.state # STATE_ACTIVE THEN Answer(c, "failed")
         ELSE checks' = [checks EXCEPT ![c].pc = "sent", ![c].tx = "pending"]
    /\ OnlyCheck

\* assertDriftReadback
MarkReadback(c) == LET lock == proofLocks[checks[c].key] IN
    /\ lock.version = checks[c].version
    /\ lock.state = STATE_DRIFTED /\ lock.stateReason = checks[c].reason

\* finalize, assertTransaction and assertDriftEvent.
ReceiptSucceeded(c) == checks[c].tx = "mined"

Confirmed(c) ==
    /\ At(c, "sent") /\ ReceiptSucceeded(c)
    /\ checks' = [checks EXCEPT ![c].pc = "readback"]
    /\ OnlyCheck

NotConfirmed(c) ==
    /\ At(c, "sent") /\ checks[c].tx \in {"reverted", "dropped"}
    /\ Answer(c, "failed")
    /\ OnlyCheck

ReadMarkBack(c) ==
    /\ At(c, "readback")
    /\ Answer(c, IF MarkReadback(c) THEN "marked" ELSE "failed")
    /\ OnlyCheck

\* A read rejects or times out, the wait for the receipt included.
CheckFails(c) ==
    /\ checks[c].pc \notin {"idle", "done"}
    /\ Answer(c, "failed")
    /\ OnlyCheck

-----------------------------------------------------------------------------
(* The registry, the network, the world and the process *)

\* The mark is executed by the contract, or reverts there, whether or not the
\* check still waits for it.
MineMark(c) ==
    LET key == checks[c].key  version == checks[c].version  reason == checks[c].reason IN
    /\ checks[c].tx = "pending"
    /\ \/ /\ MarkDrift(Guardian, key, reason, version)
          /\ checks' = [checks EXCEPT ![c].tx = "mined"]
       \/ /\ \/ Guardian \notin roles["GUARDIAN_ROLE"]
             \/ ~Current(key, version) \/ proofLocks[key].state # STATE_ACTIVE
          /\ checks' = [checks EXCEPT ![c].tx = "reverted"]
          /\ UNCHANGED vars
    /\ UNCHANGED <<worldVars, restarts>>

DropMark(c) ==
    /\ checks[c].tx = "pending"
    /\ checks' = [checks EXCEPT ![c].tx = "dropped"]
    /\ OnlyCheck

\* The runner seals what it resolved at a finalized block.
SealFinalized(key, input) ==
    /\ Resolvable(key) /\ input.evidence = CurrentFingerprint(key)
    /\ LET wallet == CurrentFingerprint(key).agentWallet IN
         \/ Seal(Scanner, key, wallet, input)
         \/ Reseal(Scanner, key, wallet, proofLocks[key].version, input)
    /\ UNCHANGED <<worldVars, checks, restarts>>

GuardianRevokes(key) ==
    /\ Revoke(Guardian, key, 3, proofLocks[key].version)
    /\ UNCHANGED <<worldVars, checks, restarts>>

GuardianLeaves ==
    /\ Guardian \in roles["GUARDIAN_ROLE"]
    /\ DropRole(Guardian, "GUARDIAN_ROLE", Guardian)
    /\ UNCHANGED <<worldVars, checks, restarts>>

WorldChanges ==
    /\ changes < MaxChanges
    /\ changes' = changes + 1
    /\ \/ /\ \E key \in IdentityKeys, o \in Owners, w \in Addresses \cup {ZeroAddress}, r \in Registrations :
               identity' = [identity EXCEPT ![key] =
                              [owner |-> o, agentWallet |-> w, registrationDigest |-> r]]
          /\ UNCHANGED <<vars, target>>
       \/ /\ \E a \in Addresses, h \in CodeHashes \cup {ZeroHash} : CodeChanges(a, h)
          /\ UNCHANGED <<identity, target>>
       \/ /\ \E a \in Addresses, t \in Targets \cup {NoTarget} : target' = [target EXCEPT ![a] = t]
          /\ UNCHANGED <<vars, identity>>
    /\ UNCHANGED <<finalized, policy, checks, restarts>>

FinalizeBlock ==
    /\ finalized' = [key \in IdentityKeys |-> View(key)]
    /\ finalized' # finalized
    /\ UNCHANGED <<vars, identity, target, policy, changes, checks, restarts>>

\* The process dies with its checks and comes back, perhaps with another policy; what
\* was sent stays sent.
Restart(p) ==
    /\ restarts < MaxRestarts
    /\ restarts' = restarts + 1
    /\ policy' = p
    /\ checks' = [c \in Checks |-> IF checks[c].tx = "pending"
                                   THEN [checks[c] EXCEPT !.pc = "done", !.answer = "failed"] ELSE NoCheck]
    /\ UNCHANGED <<vars, identity, target, finalized, changes>>

CheckStep(c) ==
    \/ \E key \in IdentityKeys, mark \in BOOLEAN : checks[c].tx # "pending" /\ Request(c, key, mark)
    \/ ReadSealedSnapshot(c) \/ ResolveCurrent(c) \/ SendMark(c)
    \/ Confirmed(c) \/ NotConfirmed(c) \/ ReadMarkBack(c) \/ CheckFails(c)

DriftNext ==
    \/ \E c \in Checks : CheckStep(c) \/ MineMark(c) \/ DropMark(c)
    \/ \E key \in IdentityKeys : GuardianRevokes(key) \/ \E input \in LockInputs : SealFinalized(key, input)
    \/ GuardianLeaves \/ WorldChanges \/ FinalizeBlock
    \/ \E p \in PolicyVersions : Restart(p)

DriftSpec == DriftInit /\ [][DriftNext]_driftVars

\* Somebody asks for a mark again and again; what such a check awaits does not
\* fail for ever, and the network mines one of the marks.
DriftFairness ==
    \A c \in Checks :
         /\ WF_driftVars(ReadSealedSnapshot(c) \/ ResolveCurrent(c) \/ SendMark(c)
                           \/ Confirmed(c) \/ NotConfirmed(c) \/ ReadMarkBack(c))
         /\ SF_driftVars(checks[c].mark /\ ReadSealedSnapshot(c))
         /\ SF_driftVars(checks[c].mark /\ ResolveCurrent(c))
         /\ SF_driftVars(SendMark(c)) /\ SF_driftVars(MineMark(c))
         /\ \A key \in IdentityKeys : SF_driftVars(checks[c].tx # "pending" /\ Request(c, key, TRUE))

-----------------------------------------------------------------------------
(* Properties *)

\* A lease that a check marks is the lease whose evidence the check compared: a
\* reseal in between is never marked for the drift of its predecessor, and the
\* contract keeps the reason of this comparison (drift.ts:106-122,
\* SentinelRegistryV2.sol:133-143).
OnlyComparedLeaseIsMarked ==
    [][\A c \in Checks : checks[c].tx = "pending" /\ checks'[c].tx = "mined" =>
         /\ proofLocks[checks[c].key].evidence = checks[c].sealed
         /\ proofLocks'[checks[c].key].stateReason = checks[c].reason]_driftVars

\* The lease does not stand for what the chain shows, and the operator could say so.
Stale(key) ==
    /\ proofLocks[key].version # 0 /\ proofLocks[key].state = STATE_ACTIVE
    /\ Resolvable(key) /\ Custody
    /\ proofLocks[key].evidence # CurrentFingerprint(key)

\* A lease does not stay active over a fingerprint that is no longer its own, whichever
\* field moved, as long as checks are asked for (drift.ts:88-124).
StaleLeaseIsMarked == \A key \in IdentityKeys : []<>~Stale(key)
=============================================================================
