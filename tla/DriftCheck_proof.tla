-------------------------- MODULE DriftCheck_proof ---------------------------
(***************************************************************************)
(* The drift check for any number of requests, identities and changes of   *)
(* the world: the lease that a check marks is the one whose evidence it    *)
(* compared.  The argument needs what the registry promises its callers,   *)
(* that a version of a lease keeps its evidence and no version comes back. *)
(***************************************************************************)
EXTENDS DriftCheck, SentinelRegistryV2_proof

Marks == {"none", "pending", "mined", "reverted", "dropped"}
Answers == {"none", "failed", "unmarked", "marked"}
Check == [pc : {"idle", "reading", "resolving", "sending", "sent", "readback", "done"},
          key : Keys, mark : BOOLEAN, version : Nat, sealed : Evidence \cup {ZeroHash},
          reason : Nat, tx : Marks, answer : Answers]

WalletsOK ==
    /\ identity \in [IdentityKeys -> [owner : Owners, agentWallet : Addresses \cup {ZeroAddress},
                                      registrationDigest : Registrations]]
    /\ \A key \in IdentityKeys : finalized[key].id.agentWallet \in Addresses \cup {ZeroAddress}

\* What a check read of a lease is so as long as the lease has this version.
Compared(check, lock) ==
    check.version # 0 =>
        /\ check.version <= lock.version
        /\ check.version = lock.version => check.sealed = lock.evidence

DriftInv ==
    /\ TypeOK
    /\ WalletsOK
    /\ checks \in [Checks -> Check]
    /\ \A c \in Checks : Compared(checks[c], proofLocks[checks[c].key])

-----------------------------------------------------------------------------
(* What the transactions do to a lease.                                     *)

\* The lease stays as it is, but for its state, or makes room for the next version.
Succeeds(new, old) ==
    \/ new.version = old.version /\ new.evidence = old.evidence
    \/ new.version = old.version + 1

LEMMA ScannerSucceeds ==
    ASSUME TypeOK, ScannerStep
    PROVE  TypeOK' /\ \A key \in Keys : Succeeds(proofLocks'[key], proofLocks[key])
<1>1. TypeOK'
  BY TypeStep DEF Next
<1>2. PICK key \in Keys, subject \in Addresses \cup {ZeroAddress}, input \in LockInputs :
        proofLocks' = [proofLocks EXCEPT ![key] =
              CreateProof(key, subject, input, proofLocks[key].version + 1)]
  BY ScannerWrites
<1>3. CreateProof(key, subject, input, proofLocks[key].version + 1).version = proofLocks[key].version + 1
  BY DEF CreateProof
<1>. QED
  BY <1>1, <1>2, <1>3 DEF Succeeds, TypeOK

LEMMA GuardianSucceeds ==
    ASSUME TypeOK, NEW key \in Keys, NEW caller, NEW reason, NEW version,
           Revoke(caller, key, reason, version) \/ MarkDrift(caller, key, reason, version)
    PROVE  /\ TypeOK' /\ proofLocks[key].version = version /\ version # 0
           /\ proofLocks'[key].stateReason = reason
           /\ \A k \in Keys : Succeeds(proofLocks'[k], proofLocks[k])
<1>1. PICK state \in {STATE_REVOKED, STATE_DRIFTED} :
        proofLocks' = [proofLocks EXCEPT ![key] = Withdrawn(@, state, reason)]
  BY DEF Revoke, MarkDrift, Withdrawn
<1>2. reason \in Nat /\ proofLocks[key] \in ProofLock /\ proofLocks[key].version = version /\ version # 0
  BY DEF Revoke, MarkDrift, ValidReason, Current, TypeOK
<1>. DEFINE lock == Withdrawn(proofLocks[key], state, reason)
<1>3. lock \in ProofLock /\ lock.version = proofLocks[key].version /\ lock.stateReason = reason
      /\ lock.evidence = proofLocks[key].evidence
  BY <1>2, WithdrawnType DEF Withdrawn, ProofLock
<1>4. proofLocks' = [proofLocks EXCEPT ![key] = lock] /\ UNCHANGED <<identityKeys, roles, code, now>>
  BY <1>1 DEF Revoke, MarkDrift
<1>. HIDE DEF lock
<1>. QED
  BY <1>2, <1>3, <1>4 DEF TypeOK, Succeeds

LEMMA ComparedStays ==
    ASSUME TypeOK, NEW key \in Keys, NEW check \in Check,
           Compared(check, proofLocks[key]), Succeeds(proofLocks'[key], proofLocks[key])
    PROVE  Compared(check, proofLocks'[key])
BY DEF TypeOK, ProofLock, Check, Compared, Succeeds

\* A transaction that the checks do not see, or see as the end of their own.
LEMMA LedgerMoves ==
    ASSUME DriftInv, TypeOK', \A key \in Keys : Succeeds(proofLocks'[key], proofLocks[key]),
           checks' \in [Checks -> Check],
           \A c \in Checks : /\ checks'[c].key = checks[c].key
                             /\ checks'[c].version = checks[c].version
                             /\ checks'[c].sealed = checks[c].sealed,
           UNCHANGED worldVars
    PROVE  DriftInv'
<1>1. ASSUME NEW c \in Checks
      PROVE  Compared(checks[c], proofLocks[checks[c].key])'
  <2>1. checks[c] \in Check /\ checks[c].key \in Keys
    BY DEF DriftInv, Check
  <2>2. Compared(checks[c], proofLocks'[checks[c].key])
    BY <2>1, ComparedStays DEF DriftInv
  <2>. QED
    BY <2>2 DEF Compared
<1>. QED
  BY <1>1 DEF DriftInv, WalletsOK, worldVars

\* One check goes on, and the chain stays as it is.
LEMMA CheckMoves ==
    ASSUME DriftInv, NEW c \in Checks, NEW check \in Check,
           checks' = [checks EXCEPT ![c] = check],
           Compared(check, proofLocks[check.key]), OnlyCheck
    PROVE  DriftInv'
<1>1. UNCHANGED <<vars, worldVars>>
  BY DEF OnlyCheck
<1>2. TypeOK' /\ WalletsOK'
  BY <1>1 DEF DriftInv, TypeOK, WalletsOK, vars, worldVars
<1>3. UNCHANGED proofLocks
  BY <1>1 DEF vars
<1>. QED
  BY <1>2, <1>3 DEF DriftInv, Compared

-----------------------------------------------------------------------------
(* The steps.                                                               *)

LEMMA ReasonIsNumber == ASSUME NEW changed PROVE DriftReason(changed) \in {3, 5, 6}
<1>1. CASE changed \cap {"agentWallet", "subjectKind"} # {}
  BY <1>1 DEF DriftReason
<1>2. CASE changed \cap {"agentWallet", "subjectKind"} = {} /\ "runtimeCodeHash" \in changed
  BY <1>2 DEF DriftReason
<1>3. CASE changed \cap {"agentWallet", "subjectKind"} = {} /\ "runtimeCodeHash" \notin changed
  BY <1>3 DEF DriftReason
<1>. QED
  BY <1>1, <1>2, <1>3

LEMMA ChecksKeep ==
    ASSUME DriftInv, NEW c \in Checks, CheckStep(c)
    PROVE  DriftInv'
<1>. DEFINE old == checks[c]
            lock == proofLocks[old.key]
<1>1. /\ old \in Check /\ old.key \in Keys /\ lock \in ProofLock
      /\ Compared(old, lock) /\ checks \in [Checks -> Check]
  BY DEF DriftInv, Check, TypeOK
<1>2. ASSUME NEW check \in Check, checks' = [checks EXCEPT ![c] = check], OnlyCheck,
             check.key = old.key, check.version = old.version, check.sealed = old.sealed
      PROVE  DriftInv'
  <2>1. Compared(check, proofLocks[check.key])
    BY <1>1, <1>2 DEF Compared
  <2>. QED
    BY <1>2, <2>1, CheckMoves
<1>3. ASSUME NEW what \in Answers, Answer(c, what), OnlyCheck
      PROVE  DriftInv'
  <2>. DEFINE check == [old EXCEPT !.pc = "done", !.answer = what]
  <2>1. check \in Check /\ check.key = old.key /\ check.version = old.version
        /\ check.sealed = old.sealed
    BY <1>1 DEF Check, Marks, Answers
  <2>2. checks' = [checks EXCEPT ![c] = check]
    BY <1>1, <1>3 DEF Answer
  <2>. HIDE DEF check
  <2>. QED
    BY <1>2, <1>3, <2>1, <2>2 DEF Answers
<1>4. ASSUME NEW key \in IdentityKeys, NEW mark \in BOOLEAN, Request(c, key, mark)
      PROVE  DriftInv'
  <2>. DEFINE check == [NoCheck EXCEPT !.pc = IF mark /\ ~Custody THEN "done" ELSE "reading",
                          !.answer = IF mark /\ ~Custody THEN "failed" ELSE "none",
                          !.key = key, !.mark = mark]
  <2>1. check \in Check /\ check.version = 0
    BY DEF NoCheck, Check, Marks, Answers, Keys
  <2>2. checks' = [checks EXCEPT ![c] = check] /\ OnlyCheck
    BY <1>4 DEF Request
  <2>. HIDE DEF check
  <2>3. Compared(check, proofLocks[check.key])
    BY <2>1 DEF Compared
  <2>. QED
    BY <2>1, <2>2, <2>3, CheckMoves
<1>5. CASE ReadSealedSnapshot(c)
  <2>. DEFINE check == [old EXCEPT !.pc = "resolving", !.version = lock.version,
                                   !.sealed = lock.evidence]
  <2>1. check \in Check /\ check.key = old.key /\ check.version = lock.version
        /\ check.sealed = lock.evidence
    BY <1>1 DEF Check, Marks, Answers, ProofLock
  <2>2. OnlyCheck /\ (Answer(c, "failed") \/ checks' = [checks EXCEPT ![c] = check])
    BY <1>1, <1>5 DEF ReadSealedSnapshot
  <2>. HIDE DEF check
  <2>3. Compared(check, proofLocks[check.key])
    BY <1>1, <2>1 DEF Compared, ProofLock
  <2>. QED
    BY <1>3, <2>1, <2>2, <2>3, CheckMoves DEF Answers
<1>6. CASE ResolveCurrent(c)
  <2>1. PICK reason \in Nat : OnlyCheck /\
          \/ \E what \in {"failed", "unmarked"} : Answer(c, what)
          \/ checks' = [checks EXCEPT ![c].pc = "sending", ![c].reason = reason]
    BY <1>6, ReasonIsNumber DEF ResolveCurrent
  <2>. DEFINE check == [old EXCEPT !.pc = "sending", !.reason = reason]
  <2>2. check \in Check /\ check.key = old.key /\ check.version = old.version
        /\ check.sealed = old.sealed
    BY <1>1 DEF Check, Marks, Answers
  <2>3. OnlyCheck /\ (Answer(c, "failed") \/ Answer(c, "unmarked")
                        \/ checks' = [checks EXCEPT ![c] = check])
    BY <1>1, <2>1
  <2>. HIDE DEF check
  <2>. QED
    BY <1>2, <1>3, <2>2, <2>3 DEF Answers
<1>7. CASE SendMark(c)
  <2>. DEFINE check == [old EXCEPT !.pc = "sent", !.tx = "pending"]
  <2>1. check \in Check /\ check.key = old.key /\ check.version = old.version
        /\ check.sealed = old.sealed
    BY <1>1 DEF Check, Marks, Answers
  <2>2. OnlyCheck /\ (Answer(c, "failed") \/ checks' = [checks EXCEPT ![c] = check])
    BY <1>1, <1>7 DEF SendMark
  <2>. HIDE DEF check
  <2>. QED
    BY <1>2, <1>3, <2>1, <2>2 DEF Answers
<1>8. CASE Confirmed(c)
  <2>. DEFINE check == [old EXCEPT !.pc = "readback"]
  <2>1. check \in Check /\ check.key = old.key /\ check.version = old.version
        /\ check.sealed = old.sealed
    BY <1>1 DEF Check, Marks, Answers
  <2>2. OnlyCheck /\ checks' = [checks EXCEPT ![c] = check]
    BY <1>1, <1>8 DEF Confirmed
  <2>. HIDE DEF check
  <2>. QED
    BY <1>2, <2>1, <2>2
<1>9. CASE NotConfirmed(c) \/ ReadMarkBack(c) \/ CheckFails(c)
  <2>1. OnlyCheck /\ (Answer(c, "failed") \/ Answer(c, "marked"))
    BY <1>9 DEF NotConfirmed, ReadMarkBack, CheckFails
  <2>. QED
    BY <1>3, <2>1 DEF Answers
<1>. QED
  BY <1>4, <1>5, <1>6, <1>7, <1>8, <1>9 DEF CheckStep

\* The mark is executed or lost.  Only one that the contract executed is mined.
LEMMA MarkKeeps ==
    ASSUME DriftInv, NEW c \in Checks, MineMark(c) \/ DropMark(c)
    PROVE  DriftInv'
<1>1. /\ checks \in [Checks -> Check] /\ checks[c] \in Check /\ checks[c].key \in Keys
  BY DEF DriftInv, Check
<1>2. PICK tx \in Marks : checks' = [checks EXCEPT ![c].tx = tx]
  BY DEF MineMark, DropMark, Marks
<1>3. [checks[c] EXCEPT !.tx = tx] \in Check
  BY <1>1 DEF Check, Marks, Answers
<1>4. checks' \in [Checks -> Check]
  BY <1>1, <1>2, <1>3
<1>5. \A d \in Checks : /\ checks'[d].key = checks[d].key
                        /\ checks'[d].version = checks[d].version
                        /\ checks'[d].sealed = checks[d].sealed
  BY <1>1, <1>2 DEF Check, Marks, Answers
<1>6. TypeOK' /\ \A key \in Keys : Succeeds(proofLocks'[key], proofLocks[key])
  <2>1. CASE UNCHANGED vars
    BY <2>1 DEF DriftInv, TypeOK, vars, Succeeds
  <2>2. CASE MarkDrift(Guardian, checks[c].key, checks[c].reason, checks[c].version)
    BY <1>1, <2>2, GuardianSucceeds DEF DriftInv
  <2>. QED
    BY <2>1, <2>2 DEF MineMark, DropMark, OnlyCheck
<1>7. UNCHANGED worldVars
  BY DEF MineMark, DropMark, OnlyCheck
<1>. QED
  BY <1>4, <1>5, <1>6, <1>7, LedgerMoves

LEMMA ChainKeeps ==
    ASSUME DriftInv,
           \/ \E key \in IdentityKeys : GuardianRevokes(key) \/ \E input \in LockInputs : SealFinalized(key, input)
           \/ GuardianLeaves
    PROVE  DriftInv'
<1>1. UNCHANGED <<worldVars, checks>> /\ checks \in [Checks -> Check]
  BY DEF GuardianRevokes, SealFinalized, GuardianLeaves, DriftInv
<1>2. TypeOK' /\ \A key \in Keys : Succeeds(proofLocks'[key], proofLocks[key])
  <2>1. ASSUME NEW key \in IdentityKeys, GuardianRevokes(key)
        PROVE  TypeOK' /\ \A k \in Keys : Succeeds(proofLocks'[k], proofLocks[k])
    BY <2>1, GuardianSucceeds DEF GuardianRevokes, DriftInv, Keys
  <2>2. ASSUME NEW key \in IdentityKeys, NEW input \in LockInputs, SealFinalized(key, input)
        PROVE  ScannerStep
    <3>1. CurrentFingerprint(key).agentWallet \in Addresses \cup {ZeroAddress}
      BY DEF CurrentFingerprint, DriftInv, WalletsOK
    <3>2. key \in Keys /\ Scanner \in Accounts /\ proofLocks[key].version \in Nat
      BY DriftAssumption DEF DriftAssumption, Keys, DriftInv, TypeOK, ProofLock
    <3>3. PICK wallet \in Addresses \cup {ZeroAddress} :
            \/ Seal(Scanner, key, wallet, input)
            \/ Reseal(Scanner, key, wallet, proofLocks[key].version, input)
      BY <2>2, <3>1 DEF SealFinalized
    <3>4. Reseal(Scanner, key, wallet, proofLocks[key].version, input)
            => proofLocks[key].version \in 0..MaxVersion
      BY <3>2, RegistryAssumption DEF Reseal, RegistryAssumption
    <3>. QED
      BY <3>2, <3>3, <3>4 DEF ScannerStep
  <2>3. ASSUME GuardianLeaves
        PROVE  TypeOK' /\ \A key \in Keys : Succeeds(proofLocks'[key], proofLocks[key])
    BY <2>3 DEF GuardianLeaves, DropRole, Succeeds, DriftInv, TypeOK
  <2>. QED
    BY <2>1, <2>2, <2>3, ScannerSucceeds DEF DriftInv
<1>. QED
  BY <1>1, <1>2, LedgerMoves

LEMMA WorldKeeps ==
    ASSUME DriftInv, WorldChanges \/ FinalizeBlock \/ \E p \in PolicyVersions : Restart(p)
    PROVE  DriftInv'
<1>1. UNCHANGED proofLocks
  BY DEF WorldChanges, CodeChanges, FinalizeBlock, Restart, vars
<1>2. TypeOK'
  BY DEF WorldChanges, CodeChanges, FinalizeBlock, Restart, vars, DriftInv, TypeOK
<1>3. WalletsOK'
  <2>1. CASE WorldChanges
    BY <2>1 DEF WorldChanges, DriftInv, WalletsOK
  <2>2. CASE FinalizeBlock
    BY <2>2 DEF FinalizeBlock, View, DriftInv, WalletsOK
  <2>3. CASE \E p \in PolicyVersions : Restart(p)
    BY <2>3 DEF Restart, DriftInv, WalletsOK
  <2>. QED
    BY <2>1, <2>2, <2>3
<1>4. checks' \in [Checks -> Check] /\ \A c \in Checks : Compared(checks'[c], proofLocks[checks'[c].key])
  <2>1. CASE UNCHANGED checks
    BY <2>1 DEF DriftInv
  <2>2. CASE \E p \in PolicyVersions : Restart(p)
    <3>1. ASSUME NEW c \in Checks
          PROVE  checks'[c] \in Check /\ Compared(checks'[c], proofLocks[checks'[c].key])
      <4>1. checks[c] \in Check /\ Compared(checks[c], proofLocks[checks[c].key])
        BY DEF DriftInv
      <4>2. CASE checks'[c] = NoCheck
        BY <4>2 DEF NoCheck, Check, Marks, Answers, Keys, Compared
      <4>3. CASE checks'[c] = [checks[c] EXCEPT !.pc = "done", !.answer = "failed"]
        BY <4>1, <4>3 DEF Check, Marks, Answers, Compared
      <4>. QED
        BY <2>2, <4>2, <4>3 DEF Restart
    <3>2. checks' = [c \in Checks |-> checks'[c]]
      BY <2>2 DEF Restart
    <3>. QED
      BY <3>1, <3>2
  <2>. QED
    BY <2>1, <2>2 DEF WorldChanges, FinalizeBlock
<1>. QED
  BY <1>1, <1>2, <1>3, <1>4 DEF DriftInv

LEMMA DriftInvInit == DriftInit => DriftInv
<1>. SUFFICES ASSUME DriftInit PROVE DriftInv
  OBVIOUS
<1>1. TypeOK
  BY TypeInit DEF DriftInit
<1>2. WalletsOK
  BY DEF DriftInit, View, WalletsOK
<1>3. NoCheck \in Check /\ NoCheck.version = 0
  BY DEF NoCheck, Check, Marks, Answers, Keys
<1>. QED
  BY <1>1, <1>2, <1>3 DEF DriftInit, DriftInv, Compared

LEMMA DriftInvStep == DriftInv /\ [DriftNext]_driftVars => DriftInv'
<1>1. DriftInv /\ UNCHANGED driftVars => DriftInv'
  BY DEF driftVars, vars, worldVars, DriftInv, TypeOK, WalletsOK, Compared
<1>. QED
  BY <1>1, ChecksKeep, MarkKeeps, ChainKeeps, WorldKeeps DEF DriftNext

-----------------------------------------------------------------------------
LEMMA MinedIsCompared ==
    ASSUME DriftInv, [DriftNext]_driftVars, NEW c \in Checks,
           checks[c].tx = "pending", checks'[c].tx = "mined"
    PROVE  /\ proofLocks[checks[c].key].evidence = checks[c].sealed
           /\ proofLocks'[checks[c].key].stateReason = checks[c].reason
<1>1. checks \in [Checks -> Check] /\ checks[c] \in Check /\ checks[c].key \in Keys
  BY DEF DriftInv, Check
<1>2. MineMark(c)
  <2>1. ASSUME NEW d \in Checks, CheckStep(d)
        PROVE  FALSE
    <3>1. CheckStep(c) => checks'[c].tx # "mined"
      <4>1. \A what : Answer(c, what) => checks'[c].tx = "pending"
        BY <1>1 DEF Answer, Check
      <4>2. (\E key \in IdentityKeys, mark \in BOOLEAN : Request(c, key, mark)) => checks'[c].tx = "none"
        BY <1>1 DEF Request, NoCheck
      <4>3. ReadSealedSnapshot(c) \/ ResolveCurrent(c) => checks'[c].tx = "pending"
        BY <1>1, <4>1 DEF ReadSealedSnapshot, ResolveCurrent, Check
      <4>4. SendMark(c) => checks'[c].tx = "pending"
        BY <1>1, <4>1 DEF SendMark, Check
      <4>5. Confirmed(c) => checks'[c].tx = "pending"
        BY <1>1 DEF Confirmed, Check
      <4>6. NotConfirmed(c) \/ ReadMarkBack(c) \/ CheckFails(c) => checks'[c].tx = "pending"
        BY <4>1 DEF NotConfirmed, ReadMarkBack, CheckFails
      <4>. QED
        BY <4>2, <4>3, <4>4, <4>5, <4>6 DEF CheckStep
    <3>2. d # c => checks'[c] = checks[c]
      BY <1>1, <2>1 DEF CheckStep, Request, ReadSealedSnapshot, ResolveCurrent, SendMark,
         Confirmed, NotConfirmed, ReadMarkBack, CheckFails, Answer
    <3>. QED
      BY <2>1, <3>1, <3>2
  <2>2. ASSUME NEW d \in Checks, MineMark(d) \/ DropMark(d), ~MineMark(c)
        PROVE  FALSE
    BY <1>1, <2>2 DEF MineMark, DropMark, Check
  <2>3. CASE UNCHANGED checks
    BY <2>3
  <2>4. ASSUME NEW p \in PolicyVersions, Restart(p)
        PROVE  FALSE
    BY <1>1, <2>4 DEF Restart, Check
  <2>. QED
    BY <2>1, <2>2, <2>3, <2>4 DEF DriftNext, GuardianRevokes, SealFinalized, GuardianLeaves,
       WorldChanges, FinalizeBlock, driftVars
<1>3. MarkDrift(Guardian, checks[c].key, checks[c].reason, checks[c].version)
  BY <1>1, <1>2 DEF MineMark, Check
<1>4. /\ proofLocks[checks[c].key].version = checks[c].version /\ checks[c].version # 0
      /\ proofLocks'[checks[c].key].stateReason = checks[c].reason
  BY <1>1, <1>3, GuardianSucceeds DEF DriftInv
<1>. QED
  BY <1>4 DEF DriftInv, Compared

\* Whatever is sealed, changed or restarted between the awaits, and however many
\* checks run, a mined mark falls on the lease whose evidence the check compared,
\* for the reason that it found (drift.ts:106-122, SentinelRegistryV2.sol:133-143).
THEOREM MarksWhatItCompared == DriftSpec => OnlyComparedLeaseIsMarked
<1>1. ASSUME DriftInv, [DriftNext]_driftVars
      PROVE  \A c \in Checks : checks[c].tx = "pending" /\ checks'[c].tx = "mined" =>
               /\ proofLocks[checks[c].key].evidence = checks[c].sealed
               /\ proofLocks'[checks[c].key].stateReason = checks[c].reason
  BY <1>1, MinedIsCompared
<1>. QED
  BY <1>1, DriftInvInit, DriftInvStep, PTL DEF DriftSpec, OnlyComparedLeaseIsMarked

-----------------------------------------------------------------------------
(* The registry beneath the checks.  What a check sends is a call that the  *)
(* contract may get from anyone: a reason it was given, a version there is. *)

VersionsBounded == \A key \in Keys : proofLocks[key].version <= MaxVersion

\* A mark that is about to be sent, or was, has a reason.
HasReason(check) == check.pc = "sending" \/ check.tx = "pending" => check.reason \in {3, 5, 6}

CallsInv == DriftInv /\ VersionsBounded /\ \A c \in Checks : HasReason(checks[c])

LEMMA VersionsStayBounded ==
    ASSUME TypeOK, VersionsBounded, [Next]_vars
    PROVE  VersionsBounded'
<1>1. CASE ScannerStep
  <2>1. PICK caller \in Accounts, key \in Keys, input \in LockInputs,
             subject \in Addresses \cup {ZeroAddress} :
          \/ Seal(caller, key, subject, input)
          \/ \E v \in 0..MaxVersion : Reseal(caller, key, subject, v, input)
    BY <1>1 DEF ScannerStep
  <2>2. PICK lock : /\ proofLocks' = [proofLocks EXCEPT ![key] = lock]
                    /\ lock.version <= MaxVersion
    <3>1. CASE Seal(caller, key, subject, input)
      <4>1. CreateProof(key, subject, input, 1).version <= MaxVersion
        BY RegistryAssumption DEF CreateProof, RegistryAssumption
      <4>. QED
        BY <3>1, <4>1 DEF Seal
    <3>2. ASSUME NEW v \in 0..MaxVersion, Reseal(caller, key, subject, v, input)
          PROVE  \E lock : /\ proofLocks' = [proofLocks EXCEPT ![key] = lock]
                           /\ lock.version <= MaxVersion
      <4>1. proofLocks[key].version \in Nat /\ proofLocks[key].version < MaxVersion
        BY <3>2 DEF Reseal, TypeOK, ProofLock
      <4>2. CreateProof(key, subject, input, proofLocks[key].version + 1).version <= MaxVersion
        BY <4>1, RegistryAssumption DEF CreateProof, RegistryAssumption
      <4>. QED
        BY <3>2, <4>2 DEF Reseal
    <3>. QED
      BY <2>1, <3>1, <3>2
  <2>. QED
    BY <2>2 DEF VersionsBounded, TypeOK
<1>2. CASE GuardianStep
  <2>1. PICK key \in Keys, reason \in 1..16, state \in {STATE_REVOKED, STATE_DRIFTED} :
          proofLocks' = [proofLocks EXCEPT ![key] = Withdrawn(@, state, reason)]
    BY <1>2, GuardianWithdraws
  <2>2. Withdrawn(proofLocks[key], state, reason).version = proofLocks[key].version
    BY DEF Withdrawn, TypeOK, ProofLock
  <2>. QED
    BY <2>1, <2>2 DEF VersionsBounded, TypeOK
<1>3. CASE RoleStep \/ CodeStep \/ Tick \/ UNCHANGED vars
  BY <1>3 DEF RoleStep, GrantRole, DropRole, CodeStep, CodeChanges, Tick, vars, VersionsBounded
<1>. QED
  BY <1>1, <1>2, <1>3 DEF Next

LEMMA MarkIsCall ==
    ASSUME CallsInv, NEW c \in Checks, MineMark(c)
    PROVE  [Next]_vars
<1>. DEFINE key == checks[c].key
            version == checks[c].version
            reason == checks[c].reason
<1>1. key \in Keys /\ Guardian \in Accounts /\ reason \in Reasons
  BY DriftAssumption DEF CallsInv, DriftInv, Check, HasReason, MineMark, DriftAssumption
<1>2. CASE MarkDrift(Guardian, key, reason, version)
  <2>1. version = proofLocks[key].version
    BY <1>2 DEF MarkDrift, Current
  <2>2. version \in 0..MaxVersion
    BY <1>1, <2>1, RegistryAssumption
       DEF CallsInv, VersionsBounded, DriftInv, TypeOK, ProofLock, RegistryAssumption
  <2>. QED
    BY <1>1, <1>2, <2>2 DEF GuardianStep, Next
<1>. QED
  BY <1>2 DEF MineMark

LEMMA OperatorCalls ==
    ASSUME CallsInv,
           \/ \E key \in IdentityKeys : GuardianRevokes(key) \/ \E input \in LockInputs : SealFinalized(key, input)
           \/ GuardianLeaves
    PROVE  Next
<1>1. {Scanner, Guardian} \subseteq Accounts /\ 3 \in Reasons
  BY DriftAssumption DEF DriftAssumption
<1>2. ASSUME NEW key \in IdentityKeys
      PROVE  key \in Keys /\ proofLocks[key].version \in 0..MaxVersion
  BY <1>2, RegistryAssumption
     DEF CallsInv, VersionsBounded, DriftInv, TypeOK, ProofLock, Keys, RegistryAssumption
<1>3. ASSUME NEW key \in IdentityKeys, GuardianRevokes(key)
      PROVE  GuardianStep
  BY <1>1, <1>2, <1>3 DEF GuardianRevokes, GuardianStep
<1>4. ASSUME NEW key \in IdentityKeys, NEW input \in LockInputs, SealFinalized(key, input)
      PROVE  ScannerStep
  <2>1. CurrentFingerprint(key).agentWallet \in Addresses \cup {ZeroAddress}
    BY DEF CurrentFingerprint, CallsInv, DriftInv, WalletsOK
  <2>2. PICK wallet \in Addresses \cup {ZeroAddress} :
          \/ Seal(Scanner, key, wallet, input)
          \/ Reseal(Scanner, key, wallet, proofLocks[key].version, input)
    BY <1>4, <2>1 DEF SealFinalized
  <2>. QED
    BY <1>1, <1>2, <2>2 DEF ScannerStep
<1>5. ASSUME GuardianLeaves
      PROVE  RoleStep
  BY <1>1, <1>5 DEF GuardianLeaves, RoleStep, Roles
<1>. QED
  BY <1>3, <1>4, <1>5 DEF Next

LEMMA StepIsCall == ASSUME CallsInv, [DriftNext]_driftVars PROVE [Next]_vars
<1>1. ASSUME NEW c \in Checks, CheckStep(c) \/ DropMark(c)
      PROVE  UNCHANGED vars
  <2>1. OnlyCheck
    BY <1>1 DEF CheckStep, Request, ReadSealedSnapshot, ResolveCurrent, SendMark, Confirmed,
       NotConfirmed, ReadMarkBack, CheckFails, DropMark
  <2>. QED
    BY <2>1 DEF OnlyCheck, vars
<1>2. ASSUME WorldChanges
      PROVE  [Next]_vars
  BY <1>2 DEF WorldChanges, Next, CodeStep
<1>3. ASSUME FinalizeBlock \/ (\E p \in PolicyVersions : Restart(p)) \/ UNCHANGED driftVars
      PROVE  UNCHANGED vars
  BY <1>3 DEF FinalizeBlock, Restart, driftVars, vars
<1>. QED
  BY <1>1, <1>2, <1>3, MarkIsCall, OperatorCalls DEF DriftNext

LEMMA OthersRest ==
    ASSUME checks \in [Checks -> Check], NEW c \in Checks, NEW d \in Checks, c # d, CheckStep(c)
    PROVE  checks'[d] = checks[d]
<1>1. \A what : Answer(c, what) => checks'[d] = checks[d]
  BY DEF Answer
<1>2. ASSUME NEW key \in IdentityKeys, NEW mark \in BOOLEAN, Request(c, key, mark)
      PROVE  checks'[d] = checks[d]
  BY <1>2 DEF Request
<1>3. ReadSealedSnapshot(c) \/ ResolveCurrent(c) \/ SendMark(c) => checks'[d] = checks[d]
  BY <1>1 DEF ReadSealedSnapshot, ResolveCurrent, SendMark
<1>4. Confirmed(c) \/ NotConfirmed(c) \/ ReadMarkBack(c) \/ CheckFails(c) => checks'[d] = checks[d]
  BY <1>1 DEF Confirmed, NotConfirmed, ReadMarkBack, CheckFails
<1>. QED
  BY <1>2, <1>3, <1>4 DEF CheckStep

LEMMA ReasonsKept ==
    ASSUME CallsInv, [DriftNext]_driftVars, NEW d \in Checks
    PROVE  HasReason(checks'[d])
<1>1. checks \in [Checks -> Check] /\ checks[d] \in Check /\ HasReason(checks[d])
  BY DEF CallsInv, DriftInv
<1>2. ASSUME NEW c \in Checks, CheckStep(c)
      PROVE  HasReason(checks'[d])
  <2>1. CASE c # d
    BY <1>1, <1>2, <2>1, OthersRest
  <2>2. CASE c = d
    <3>1. \A what : Answer(d, what) => HasReason(checks'[d])
      BY <1>1 DEF Answer, HasReason, Check
    <3>2. ASSUME NEW key \in IdentityKeys, NEW mark \in BOOLEAN, Request(d, key, mark)
          PROVE  HasReason(checks'[d])
      BY <1>1, <3>2 DEF Request, NoCheck, HasReason, Check
    <3>3. CASE ReadSealedSnapshot(d)
      BY <1>1, <3>1, <3>3 DEF ReadSealedSnapshot, HasReason, Check
    <3>4. CASE ResolveCurrent(d)
      <4>1. PICK reason \in {3, 5, 6} :
              \/ \E what \in {"failed", "unmarked"} : Answer(d, what)
              \/ checks' = [checks EXCEPT ![d].pc = "sending", ![d].reason = reason]
        BY <3>4, ReasonIsNumber DEF ResolveCurrent
      <4>. QED
        BY <1>1, <3>1, <4>1 DEF HasReason, Check
    <3>5. CASE SendMark(d)
      BY <1>1, <3>1, <3>5 DEF SendMark, At, HasReason, Check
    <3>6. CASE Confirmed(d)
      BY <1>1, <3>6 DEF Confirmed, HasReason, Check
    <3>7. CASE NotConfirmed(d) \/ ReadMarkBack(d) \/ CheckFails(d)
      BY <3>1, <3>7 DEF NotConfirmed, ReadMarkBack, CheckFails
    <3>. QED
      BY <1>2, <2>2, <3>2, <3>3, <3>4, <3>5, <3>6, <3>7 DEF CheckStep
  <2>. QED
    BY <2>1, <2>2
<1>3. ASSUME NEW c \in Checks, MineMark(c) \/ DropMark(c)
      PROVE  HasReason(checks'[d])
  <2>1. PICK tx \in {"mined", "reverted", "dropped"} : checks' = [checks EXCEPT ![c].tx = tx]
    BY <1>3 DEF MineMark, DropMark
  <2>2. \/ checks'[d] = checks[d]
        \/ /\ checks'[d].pc = checks[d].pc /\ checks'[d].reason = checks[d].reason
           /\ checks'[d].tx # "pending"
    BY <1>1, <2>1 DEF Check
  <2>. QED
    BY <1>1, <2>2 DEF HasReason
<1>4. ASSUME NEW p \in PolicyVersions, Restart(p)
      PROVE  HasReason(checks'[d])
  <2>1. CASE checks[d].tx = "pending"
    <3>1. checks'[d] = [checks[d] EXCEPT !.pc = "done", !.answer = "failed"]
      BY <1>4, <2>1 DEF Restart
    <3>2. checks'[d].reason = checks[d].reason
      BY <1>1, <3>1 DEF Check
    <3>. QED
      BY <1>1, <2>1, <3>2 DEF HasReason
  <2>2. CASE checks[d].tx # "pending"
    <3>1. checks'[d] = NoCheck
      BY <1>4, <2>2 DEF Restart
    <3>. QED
      BY <3>1 DEF NoCheck, HasReason
  <2>. QED
    BY <2>1, <2>2
<1>5. CASE UNCHANGED checks
  BY <1>1, <1>5
<1>. QED
  BY <1>2, <1>3, <1>4, <1>5 DEF DriftNext, GuardianRevokes, SealFinalized, GuardianLeaves,
     WorldChanges, FinalizeBlock, driftVars

\* Beneath the checks, their process and the world it looks at, the registry behaves as it
\* does alone: every theorem about it holds while it is being marked (drift.ts:106-122,
\* SentinelRegistryV2.sol:95-143).
THEOREM DriftImplementsRegistry == DriftSpec => Spec
<1>1. DriftInit => Init /\ CallsInv
  <2>. SUFFICES ASSUME DriftInit PROVE Init /\ CallsInv
    OBVIOUS
  <2>1. VersionsBounded
    BY RegistryAssumption DEF DriftInit, Init, EmptyLock, VersionsBounded, RegistryAssumption
  <2>2. \A c \in Checks : HasReason(checks[c])
    BY DEF DriftInit, NoCheck, HasReason
  <2>. QED
    BY <2>1, <2>2, DriftInvInit DEF DriftInit, CallsInv
<1>2. CallsInv /\ [DriftNext]_driftVars => [Next]_vars /\ CallsInv'
  <2>. SUFFICES ASSUME CallsInv, [DriftNext]_driftVars PROVE [Next]_vars /\ CallsInv'
    OBVIOUS
  <2>1. [Next]_vars
    BY StepIsCall
  <2>2. VersionsBounded'
    BY <2>1, VersionsStayBounded DEF CallsInv, DriftInv
  <2>3. DriftInv'
    BY DriftInvStep DEF CallsInv
  <2>4. (\A c \in Checks : HasReason(checks[c]))'
    BY ReasonsKept DEF HasReason
  <2>. QED
    BY <2>1, <2>2, <2>3, <2>4 DEF CallsInv
<1>. QED
  BY <1>1, <1>2, PTL DEF DriftSpec, Spec
=============================================================================
