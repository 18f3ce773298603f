---------------------------- MODULE WriteCeremony ----------------------------
(***************************************************************************)
(* The paid ceremony that writes a lease: the runner (runner.ts), the      *)
(* registry writer it calls (chain.ts), the operation journal and the      *)
(* recovery service (recovery.ts), in one Node process that may be killed  *)
(* and restarted, against a network that delays, drops or reverts          *)
(* transactions and a registry that others write too.                      *)
(*                                                                         *)
(* JavaScript runs to completion: what a function does between two awaits  *)
(* is one step.  Separate synchronous stretches that a crash can cut are   *)
(* separate steps.                                                         *)
(***************************************************************************)
EXTENDS OperationJournal

CONSTANTS
  Recoverers,   \* concurrent calls of recover
  Requests,     \* what runs may be asked for
  Faults,       \* the faults of a configuration, out of AllFaults
  MaxCrashes    \* bound on restarts

\* rpc: an await of the runner fails or times out;
\* outage: a read of the recovery service fails, or its caller gives up;
\* drop: a transaction never reaches the network or is never included;
\* revert: it reverts for a reason the model has no state for;
\* guardian: a lease is marked drifted or revoked;
\* foreign: another scanner process writes the next version.
AllFaults == {"rpc", "outage", "drop", "revert", "guardian", "foreign"}

ASSUME CeremonyAssumption ==
  /\ Faults \subseteq AllFaults
  /\ Requests \subseteq [key : IdempotencyKeys, identity : Identities, prior : 0..MaxVersion - 1]
  /\ None \notin Runs \cup Identities \cup IdempotencyKeys
  /\ IsFiniteSet(IdempotencyKeys)
  /\ MaxVersion \in Nat \ {0} /\ MaxCrashes \in Nat
  /\ maxConcurrency \in Nat \ {0} /\ dailyCeremonyLimit \in Nat \ {0}
  /\ dailyCostUnitsLimit \in Nat \ {0}

VARIABLES
  run,      \* each runner invocation
  rec,      \* each call of recover
  tx,       \* the registry transaction of each run, on the network
  lease,    \* the registry's record of each identity
  spent,    \* history: the paid stages whose service was really called
  crashes

cvars == <<ops, run, rec, tx, lease, spent, crashes>>

RunPcs == {"idle", "checking", "admitted", "computing", "computed", "uploading",
           "uploaded", "stored", "preflight", "sending", "waiting", "readback",
           "ended"}

\* attempted, finalized, reverted and hashKnown are the runner's writeState.
RunState == [pc : RunPcs,
             key : IdempotencyKeys \cup {None},
             identity : Identities \cup {None},
             prior : 0..MaxVersion,
             attempted : BOOLEAN, finalized : BOOLEAN,
             reverted : BOOLEAN, hashKnown : BOOLEAN]

IdleRun == [pc |-> "idle", key |-> None, identity |-> None, prior |-> 0,
            attempted |-> FALSE, finalized |-> FALSE, reverted |-> FALSE,
            hashKnown |-> FALSE]

\* phase and hash are what recover read from the row before its first await.
RecState == [pc : {"idle", "inspecting", "reading"},
             key : IdempotencyKeys \cup {None},
             phase : Phases \cup {"ABSENT"},
             hash : Runs \cup {None}]

IdleRec == [pc |-> "idle", key |-> None, phase |-> "ABSENT", hash |-> None]

LeaseStates == {"NONE", "ACTIVE", "DRIFTED", "REVOKED"}
Lease == [version : 0..MaxVersion, state : LeaseStates, by : Runs \cup {None}]

CeremonyInit ==
  /\ JournalInit
  /\ run = [r \in Runs |-> IdleRun]
  /\ rec = [c \in Recoverers |-> IdleRec]
  /\ tx = [r \in Runs |-> "none"]
  /\ lease = [i \in Identities |-> [version |-> 0, state |-> "NONE", by |-> None]]
  /\ spent = [k \in IdempotencyKeys |-> {}]
  /\ crashes = 0

-----------------------------------------------------------------------------
(* The runner.                                                             *)

Goto(r, pc) == run' = [run EXCEPT ![r].pc = pc]
At(r, pc)   == run[r].pc = pc
SetRow(k, row) == ops' = [ops EXCEPT ![k] = row]

\* writeOutcome
WriteOutcome(w) ==
  IF w.reverted /\ w.hashKnown       THEN "REVERTED"
  ELSE IF w.finalized /\ w.hashKnown THEN "FINALIZED_READBACK_UNAVAILABLE"
  ELSE IF w.attempted                THEN "SUBMISSION_OUTCOME_UNKNOWN"
  ELSE "NOT_BROADCAST"

\* The catch block of run, reached with row o and write state w.
Settle(r, o, w) ==
  /\ SetRow(w.key, Complete(o, WriteOutcome(w), IF w.hashKnown THEN r ELSE None))
  /\ run' = [run EXCEPT ![r] = [w EXCEPT !.pc = "ended"]]

\* The finally block around writeChain, then the catch block.
SettleWrite(r, o, w) ==
  Settle(r, ReconcileCost(o, "REGISTRY", IF w.attempted THEN "CONSUMED" ELSE "RELEASED"), w)

\* A new call: lookup by key finds an operation, of the same request or not,
\* and the call ends with it; otherwise the unpaid stages start.
Submit(r, request) ==
  /\ At(r, "idle")
  /\ run' = [run EXCEPT ![r] =
               [IdleRun EXCEPT !.pc = IF Present(request.key) THEN "ended" ELSE "checking",
                               !.key = request.key, !.identity = request.identity,
                               !.prior = request.prior]]
  /\ UNCHANGED <<ops, rec, tx, lease, spent, crashes>>

\* The unpaid stages are over and begin is called; it may find the operation
\* another call with the same key began meanwhile, or refuse.
Admit(r) ==
  /\ At(r, "checking")
  /\ IF ~Present(run[r].key) /\ Admissible(run[r].identity)
     THEN /\ SetRow(run[r].key, Begun(r, run[r]))
          /\ Goto(r, "admitted")
     ELSE /\ Goto(r, "ended")
          /\ UNCHANGED ops
  /\ UNCHANGED <<rec, tx, lease, spent, crashes>>

\* An unpaid stage fails, or answers for another identity, subject or block than
\* the one before it: nothing was begun.
ChecksFail(r) ==
  /\ "rpc" \in Faults
  /\ At(r, "checking")
  /\ Goto(r, "ended")
  /\ UNCHANGED <<ops, rec, tx, lease, spent, crashes>>

\* paidCompute reserves and calls the provider.
StartCompute(r) ==
  LET k == run[r].key
  IN  /\ At(r, "admitted")
      /\ IF CanReserve(ops[k], "COMPUTE")
         THEN /\ SetRow(k, ReserveCost(ops[k], "COMPUTE"))
              /\ spent' = [spent EXCEPT ![k] = @ \cup {"COMPUTE"}]
              /\ Goto(r, "computing")
         ELSE Settle(r, ops[k], run[r]) /\ UNCHANGED spent
      /\ UNCHANGED <<rec, tx, lease, crashes>>

\* The provider answered: the unit is consumed, the commitment recorded.
ComputeReturns(r) ==
  LET k == run[r].key
      o == ReconcileCost(ops[k], "COMPUTE", "CONSUMED")
  IN  /\ At(r, "computing")
      /\ IF CanReconcile(ops[k], "COMPUTE") /\ CanRecordCompute(o)
         THEN SetRow(k, Advance(o, "COMPUTE_VERIFIED")) /\ Goto(r, "computed")
         ELSE Settle(r, o, run[r])
      /\ UNCHANGED <<rec, tx, lease, spent, crashes>>

ComputeFails(r) ==
  /\ "rpc" \in Faults
  /\ At(r, "computing")
  /\ Settle(r, ReconcileCost(ops[run[r].key], "COMPUTE", "CONSUMED"), run[r])
  /\ UNCHANGED <<rec, tx, lease, spent, crashes>>

\* Canonical evidence is built without waiting, then the upload starts.
\* reserveCost looks at the cost rows only, whatever the phase.
StartUpload(r) ==
  LET k == run[r].key
  IN  /\ At(r, "computed")
      /\ IF CanReserve(ops[k], "STORAGE")
         THEN /\ SetRow(k, ReserveCost(ops[k], "STORAGE"))
              /\ spent' = [spent EXCEPT ![k] = @ \cup {"STORAGE"}]
              /\ Goto(r, "uploading")
         ELSE Settle(r, ops[k], run[r]) /\ UNCHANGED spent
      /\ UNCHANGED <<rec, tx, lease, crashes>>

\* The upload is verified: storage, then the chain input, are recorded.
UploadReturns(r) ==
  LET k == run[r].key
      o == ReconcileCost(ops[k], "STORAGE", "CONSUMED")
  IN  /\ At(r, "uploading")
      /\ IF CanReconcile(ops[k], "STORAGE") /\ CanRecordStorage(o)
         THEN SetRow(k, Advance(o, "STORAGE_VERIFIED")) /\ Goto(r, "uploaded")
         ELSE Settle(r, o, run[r])
      /\ UNCHANGED <<rec, tx, lease, spent, crashes>>

UploadFails(r) ==
  /\ "rpc" \in Faults
  /\ At(r, "uploading")
  /\ Settle(r, ReconcileCost(ops[run[r].key], "STORAGE", "CONSUMED"), run[r])
  /\ UNCHANGED <<rec, tx, lease, spent, crashes>>

CommitChainInput(r) ==
  LET k == run[r].key
  IN  /\ At(r, "uploaded")
      /\ IF CanRecordChainInput(ops[k])
         THEN SetRow(k, Advance(ops[k], "CHAIN_INPUT_COMMITTED")) /\ Goto(r, "stored")
         ELSE Settle(r, ops[k], run[r])
      /\ UNCHANGED <<rec, tx, lease, spent, crashes>>

StartWrite(r) ==
  LET k == run[r].key
  IN  /\ At(r, "stored")
      /\ IF CanReserve(ops[k], "REGISTRY")
         THEN SetRow(k, ReserveCost(ops[k], "REGISTRY")) /\ Goto(r, "preflight")
         ELSE Settle(r, ops[k], run[r])
      /\ UNCHANGED <<rec, tx, lease, spent, crashes>>

\* requireWriteState: the registry has the version the request builds on.
WriteStateOk(i, prior) ==
  /\ lease[i].version = prior
  /\ prior # 0 => lease[i].state \in {"ACTIVE", "DRIFTED"}

\* A slip: the transaction leaves although the attempt could not be journaled.
PreflightUnjournaled(r) ==
  LET k == run[r].key
  IN  /\ At(r, "preflight")
      /\ IF WriteStateOk(run[r].identity, run[r].prior)
         THEN /\ SetRow(k, IF CanRecordSubmissionAttempt(ops[k])
                           THEN Advance(ops[k], "SUBMISSION_ATTEMPTED") ELSE ops[k])
              /\ run' = [run EXCEPT ![r].attempted = TRUE, ![r].pc = "sending"]
              /\ tx' = [tx EXCEPT ![r] = "sent"]
              /\ spent' = [spent EXCEPT ![k] = @ \cup {"REGISTRY"}]
         ELSE SettleWrite(r, ops[k], run[r]) /\ UNCHANGED <<tx, spent>>
      /\ UNCHANGED <<rec, lease, crashes>>

\* writeProofLock reads the record; if it is as expected, the attempt is
\* journaled before the transaction leaves, and no journal, no send.
Preflight(r) ==
  LET k == run[r].key
  IN  /\ At(r, "preflight")
      /\ IF /\ WriteStateOk(run[r].identity, run[r].prior)
            /\ CanRecordSubmissionAttempt(ops[k])
         THEN /\ SetRow(k, Advance(ops[k], "SUBMISSION_ATTEMPTED"))
              /\ run' = [run EXCEPT ![r].attempted = TRUE, ![r].pc = "sending"]
              /\ tx' = [tx EXCEPT ![r] = "sent"]
              /\ spent' = [spent EXCEPT ![k] = @ \cup {"REGISTRY"}]
         ELSE SettleWrite(r, ops[k], run[r]) /\ UNCHANGED <<tx, spent>>
      /\ UNCHANGED <<rec, lease, crashes>>

PreflightFails(r) ==
  /\ "rpc" \in Faults
  /\ At(r, "preflight")
  /\ SettleWrite(r, ops[run[r].key], run[r])
  /\ UNCHANGED <<rec, tx, lease, spent, crashes>>

\* The provider throws, whether or not the transaction went out.
SendFails(r) ==
  /\ "rpc" \in Faults
  /\ At(r, "sending")
  /\ SettleWrite(r, ops[run[r].key], run[r])
  /\ UNCHANGED <<rec, tx, lease, spent, crashes>>

SendReturns(r) ==
  LET k == run[r].key
      w == [run[r] EXCEPT !.hashKnown = TRUE]
  IN  /\ At(r, "sending")
      /\ IF CanRecordTransactionHash(ops[k])
         THEN /\ SetRow(k, RecordTransactionHash(ops[k], r))
              /\ run' = [run EXCEPT ![r] = [w EXCEPT !.pc = "waiting"]]
         ELSE SettleWrite(r, ops[k], w)
      /\ UNCHANGED <<rec, tx, lease, spent, crashes>>

ReceiptSucceeds(r) ==
  LET k == run[r].key
      w == [run[r] EXCEPT !.finalized = TRUE]
      o == RecordFinalized(ops[k], r)
  IN  /\ At(r, "waiting")
      /\ tx[r] = "mined"
      /\ IF ~CanRecordFinalized(ops[k], r) THEN SettleWrite(r, ops[k], w)
         ELSE IF ~CanReconcile(o, "REGISTRY") THEN Settle(r, o, w)
         ELSE /\ SetRow(k, ReconcileCost(o, "REGISTRY", "CONSUMED"))
              /\ run' = [run EXCEPT ![r] = [w EXCEPT !.pc = "readback"]]
      /\ UNCHANGED <<rec, tx, lease, spent, crashes>>

ReceiptReverts(r) ==
  /\ At(r, "waiting")
  /\ tx[r] = "reverted"
  /\ SettleWrite(r, ops[run[r].key], [run[r] EXCEPT !.reverted = TRUE])
  /\ UNCHANGED <<rec, tx, lease, spent, crashes>>

\* No receipt in time, of a transaction that is dropped or only slow.
ReceiptTimesOut(r) ==
  /\ "rpc" \in Faults \/ tx[r] = "dropped"
  /\ At(r, "waiting")
  /\ SettleWrite(r, ops[run[r].key], run[r])
  /\ UNCHANGED <<rec, tx, lease, spent, crashes>>

\* assertReadback, recordMatches: the record is the active lease the
\* transaction h of an operation for version prior + 1 wrote.
ReadbackMatches(i, prior, h) ==
  lease[i] = [version |-> prior + 1, state |-> "ACTIVE", by |-> h]

ReadBack(r) ==
  LET k == run[r].key
  IN  /\ At(r, "readback")
      /\ IF /\ ReadbackMatches(run[r].identity, run[r].prior, r)
            /\ CanComplete(ops[k], "SEALED", r)
         THEN SetRow(k, Complete(ops[k], "SEALED", r)) /\ Goto(r, "ended")
         ELSE Settle(r, ops[k], run[r])
      /\ UNCHANGED <<rec, tx, lease, spent, crashes>>

ReadBackFails(r) ==
  /\ "rpc" \in Faults
  /\ At(r, "readback")
  /\ Settle(r, ops[run[r].key], run[r])
  /\ UNCHANGED <<rec, tx, lease, spent, crashes>>

-----------------------------------------------------------------------------
(* The recovery service.  It runs on request only.                         *)

\* A pre-send phase that is stale: closed in one synchronous stretch.
RecoverPreSend(k) ==
  /\ ops[k].phase \in PreSend
  /\ ~ops[k].fresh
  /\ SetRow(k, Complete(ReconcileRecoveryCosts(ops[k], "RELEASED"), "NOT_BROADCAST", None))
  /\ UNCHANGED <<run, rec, tx, lease, spent, crashes>>

KnownHash(o) == IF o.transactionHash # None THEN o.transactionHash ELSE o.outcomeHash

\* A write that was attempted: recover keeps phase and hash of the row it
\* read, with the hash the caller supplies unless the row knows another.
RecoverWrite(c, k, supplied) ==
  LET o == ops[k]
  IN  /\ rec[c].pc = "idle"
      /\ Active(k) /\ o.phase \notin PreSend
      /\ None \in {supplied, KnownHash(o)} \/ supplied = KnownHash(o)
      /\ rec' = [rec EXCEPT ![c] =
                   [pc |-> "inspecting", key |-> k, phase |-> o.phase,
                    hash |-> IF supplied # None THEN supplied ELSE KnownHash(o)]]
      /\ UNCHANGED <<ops, run, tx, lease, spent, crashes>>

\* A slip: any transaction to the registry will do.
AnyCalldata(h, k) == tx[h] # "none"

\* The calldata of transaction h is the committed chain input of operation k.
ExactCalldata(h, k) == tx[h] # "none" /\ run[h].key = k

\* A slip: without a hash there is nothing to look for.
TrustedHashesKnown(c) == IF rec[c].hash # None THEN {rec[c].hash} ELSE {}

\* trustedHash: a known hash, or the one success that discovery finds.
TrustedHashes(c) ==
  IF rec[c].hash # None THEN {rec[c].hash}
  ELSE {h \in Runs : ExactCalldata(h, rec[c].key) /\ tx[h] = "mined"}

\* inspect: transaction h decides operation k with this receipt status.
Inspected(c, h, status) ==
  /\ rec[c].pc = "inspecting"
  /\ TrustedHashes(c) = {h}
  /\ ExactCalldata(h, rec[c].key)
  /\ tx[h] = status

EndRecovery(c) == rec' = [rec EXCEPT ![c] = IdleRec]

\* Nothing is decided: the reply is SUBMISSION_OUTCOME_UNKNOWN.
RecoverUnknown(c) ==
  /\ rec[c].pc = "inspecting"
  /\ \/ "outage" \in Faults
     \/ \A h \in Runs : ~Inspected(c, h, "mined") /\ ~Inspected(c, h, "reverted")
  /\ EndRecovery(c)
  /\ UNCHANGED <<ops, run, tx, lease, spent, crashes>>

\* The row after recordTransactionHash, which only a snapshot taken before
\* the hash was known calls for.
WithHash(c, o, h) ==
  IF rec[c].phase = "SUBMISSION_ATTEMPTED" THEN RecordTransactionHash(o, h) ELSE o

HashRecordable(c, o) ==
  rec[c].phase = "SUBMISSION_ATTEMPTED" => CanRecordTransactionHash(o)

RecoverReverted(c, h) ==
  LET k == rec[c].key
  IN  /\ Inspected(c, h, "reverted")
      /\ IF HashRecordable(c, ops[k])
         THEN SetRow(k, Complete(ReconcileRecoveryCosts(WithHash(c, ops[k], h), "CONSUMED"),
                                 "REVERTED", h))
         ELSE UNCHANGED ops
      /\ EndRecovery(c)
      /\ UNCHANGED <<run, tx, lease, spent, crashes>>

\* The row moved on since the snapshot: the record throws and recover ends.
RecoverFinalized(c, h) ==
  LET k == rec[c].key
      o == WithHash(c, ops[k], h)
  IN  /\ Inspected(c, h, "mined")
      /\ IF \/ ~HashRecordable(c, ops[k])
            \/ rec[c].phase # "FINALIZED" /\ ~CanRecordFinalized(o, h)
         THEN EndRecovery(c) /\ UNCHANGED ops
         ELSE /\ rec' = [rec EXCEPT ![c].pc = "reading", ![c].hash = h]
              /\ SetRow(k, ReconcileRecoveryCosts(
                             IF rec[c].phase = "FINALIZED" THEN o ELSE RecordFinalized(o, h),
                             "CONSUMED"))
      /\ UNCHANGED <<run, tx, lease, spent, crashes>>

\* The readback; complete(SEALED) that throws falls into the catch block.
RecoverReadBack(c) ==
  LET k == rec[c].key
      o == ops[k]
      h == rec[c].hash
  IN  /\ rec[c].pc = "reading"
      /\ \/ /\ ReadbackMatches(o.identity, o.prior, h)
            /\ CanComplete(o, "SEALED", h)
            /\ SetRow(k, Complete(o, "SEALED", h))
         \/ /\ \/ ~ReadbackMatches(o.identity, o.prior, h)
               \/ ~CanComplete(o, "SEALED", h)
               \/ "outage" \in Faults
            /\ SetRow(k, Complete(o, "FINALIZED_READBACK_UNAVAILABLE", h))
      /\ EndRecovery(c)
      /\ UNCHANGED <<run, tx, lease, spent, crashes>>

\* The caller's deadline fires while the readback is awaited.
RecoverAborted(c) ==
  /\ "outage" \in Faults
  /\ rec[c].pc = "reading"
  /\ EndRecovery(c)
  /\ UNCHANGED <<ops, run, tx, lease, spent, crashes>>

-----------------------------------------------------------------------------
(* The process, the clock, the network and the other users of the registry. *)

\* The process is killed and restarted: every call in flight is gone.
Killed ==
  /\ crashes < MaxCrashes
  /\ crashes' = crashes + 1
  /\ run' = [r \in Runs |-> IF At(r, "idle") THEN run[r] ELSE [run[r] EXCEPT !.pc = "ended"]]
  /\ rec' = [c \in Recoverers |-> IdleRec]
  /\ UNCHANGED <<tx, lease, spent>>

Crash == Killed /\ UNCHANGED ops

\* Killed inside RecoverPreSend, between its two transactions.
CrashInRecovery(k) ==
  /\ ops[k].phase \in PreSend
  /\ ~ops[k].fresh
  /\ SetRow(k, ReconcileRecoveryCosts(ops[k], "RELEASED"))
  /\ Killed

\* The grace period runs out while nothing is written to the row; a runner
\* that waits for nobody cannot be that slow.
GoesStale(k) ==
  /\ ops[k].phase \in PreSend
  /\ ops[k].fresh
  /\ run[ops[k].owner].pc \notin {"admitted", "computed", "uploaded", "stored"}
  /\ SetRow(k, [ops[k] EXCEPT !.fresh = FALSE])
  /\ UNCHANGED <<run, rec, tx, lease, spent, crashes>>

\* The registry executes the transaction of run r.
Mine(r) ==
  /\ tx[r] = "sent"
  /\ WriteStateOk(run[r].identity, run[r].prior)
  /\ tx' = [tx EXCEPT ![r] = "mined"]
  /\ lease' = [lease EXCEPT ![run[r].identity] =
                 [version |-> run[r].prior + 1, state |-> "ACTIVE", by |-> r]]
  /\ UNCHANGED <<ops, run, rec, spent, crashes>>

Revert(r) ==
  /\ tx[r] = "sent"
  /\ "revert" \in Faults \/ ~WriteStateOk(run[r].identity, run[r].prior)
  /\ tx' = [tx EXCEPT ![r] = "reverted"]
  /\ UNCHANGED <<ops, run, rec, lease, spent, crashes>>

Drop(r) ==
  /\ "drop" \in Faults
  /\ tx[r] = "sent"
  /\ tx' = [tx EXCEPT ![r] = "dropped"]
  /\ UNCHANGED <<ops, run, rec, lease, spent, crashes>>

GuardianWithdraws(i, state) ==
  /\ "guardian" \in Faults
  /\ \/ state = "DRIFTED" /\ lease[i].state = "ACTIVE"
     \/ state = "REVOKED" /\ lease[i].state \in {"ACTIVE", "DRIFTED"}
  /\ lease' = [lease EXCEPT ![i].state = state]
  /\ UNCHANGED <<ops, run, rec, tx, spent, crashes>>

ForeignWrite(i) ==
  /\ "foreign" \in Faults
  /\ lease[i].version < MaxVersion
  /\ lease[i].state # "REVOKED"
  /\ lease' = [lease EXCEPT ![i] =
                 [version |-> @.version + 1, state |-> "ACTIVE", by |-> None]]
  /\ UNCHANGED <<ops, run, rec, tx, spent, crashes>>

-----------------------------------------------------------------------------
RunnerStep(r) ==
  \/ Admit(r)          \/ ChecksFail(r)
  \/ StartCompute(r)   \/ ComputeReturns(r)  \/ ComputeFails(r)
  \/ StartUpload(r)    \/ UploadReturns(r)   \/ UploadFails(r)
  \/ CommitChainInput(r)
  \/ StartWrite(r)     \/ Preflight(r)       \/ PreflightFails(r)
  \/ SendReturns(r)    \/ SendFails(r)
  \/ ReceiptSucceeds(r) \/ ReceiptReverts(r) \/ ReceiptTimesOut(r)
  \/ ReadBack(r)       \/ ReadBackFails(r)

RecoveryStep(c) ==
  \/ RecoverUnknown(c) \/ RecoverReadBack(c) \/ RecoverAborted(c)
  \/ \E h \in Runs : RecoverReverted(c, h) \/ RecoverFinalized(c, h)

NetworkStep(r) == Mine(r) \/ Revert(r) \/ Drop(r)

CeremonyNext ==
  \/ \E r \in Runs : RunnerStep(r) \/ NetworkStep(r)
  \/ \E r \in Runs, request \in Requests : Submit(r, request)
  \/ \E c \in Recoverers : RecoveryStep(c)
  \/ \E c \in Recoverers, k \in IdempotencyKeys, h \in Runs \cup {None} : RecoverWrite(c, k, h)
  \/ \E k \in IdempotencyKeys : RecoverPreSend(k) \/ GoesStale(k) \/ CrashInRecovery(k)
  \/ Crash
  \/ \E i \in Identities, state \in LeaseStates : GuardianWithdraws(i, state)
  \/ \E i \in Identities : ForeignWrite(i)

CeremonySpec == CeremonyInit /\ [][CeremonyNext]_cvars

\* Calls that were accepted run on; an operator keeps asking for recovery,
\* without a hash of their own, and time passes.
FairCeremonySpec ==
  /\ CeremonySpec
  /\ \A r \in Runs : WF_cvars(RunnerStep(r))
  /\ \A c \in Recoverers : WF_cvars(RecoveryStep(c))
  /\ \A k \in IdempotencyKeys :
       /\ WF_cvars(GoesStale(k))
       /\ WF_cvars(RecoverPreSend(k))
       /\ SF_cvars(\E c \in Recoverers : RecoverWrite(c, k, None))

-----------------------------------------------------------------------------
(* Properties.                                                             *)

\* The row, the runners, the recovery calls and the registry hold values of
\* their types (operation-journal.ts:10-33, runner.ts:145-146).
CeremonyTypeOK ==
  /\ ops \in [IdempotencyKeys -> Operation]
  /\ run \in [Runs -> RunState]
  /\ rec \in [Recoverers -> RecState]
  /\ tx \in [Runs -> {"none", "sent", "mined", "reverted", "dropped"}]
  /\ lease \in [Identities -> Lease]
  /\ spent \in [IdempotencyKeys -> SUBSET PaidStages]
  /\ crashes \in 0..MaxCrashes

Fate(k) == IF ops[k].owner = None THEN "none" ELSE tx[ops[k].owner]

\* A closed operation says what became of its transaction: NOT_BROADCAST is
\* never said of one that left (state-spec.md:669), SEALED only of a success
\* and REVERTED only of a failure, with runner and recovery both writing.
SettledOutcomeIsTrue ==
  \A k \in IdempotencyKeys : ops[k].phase = "TERMINAL" =>
    <<ops[k].outcome, Fate(k)>> \in
      {<<"NOT_BROADCAST", "none">>, <<"SEALED", "mined">>, <<"REVERTED", "reverted">>}

\* A transaction whose fate is open is guarded by an operation that still
\* blocks its identity, so no second write can be started beside it, however
\* the runner that sent it died (operation-journal.ts:171).
UnsettledWriteIsGuarded ==
  \A r \in Runs : tx[r] = "sent" =>
    /\ Active(run[r].key)
    /\ ops[run[r].key].owner = r
    /\ \A k \in IdempotencyKeys :
         Active(k) /\ ops[k].identity = run[r].identity => k = run[r].key

\* Whatever was really spent is on the books when an operation is closed, and
\* a registry write that never left is not charged (recovery.test.ts:77).
CostsMatchWork ==
  \A k \in IdempotencyKeys : ops[k].phase = "TERMINAL" =>
    /\ \A s \in spent[k] : ops[k].cost[s] = "CONSUMED"
    /\ ops[k].cost["REGISTRY"] = "CONSUMED" => "REGISTRY" \in spent[k]

\* The daily ceiling bounds what was really spent, through crashes, stale
\* runners and recovery (operation-journal.ts:178-181).
SpendWithinDailyLimit == Units(spent) <= dailyCostUnitsLimit

\* A row never takes back what it said: closed stays closed, an attempted
\* submission is never pre-send again, a known hash and the request it is
\* bound to never change (state-spec.md:668-669).
JournalNeverForgets ==
  [][\A k \in IdempotencyKeys :
       LET old == ops[k]
           new == ops'[k]
       IN  /\ Present(k) => /\ new.phase # "ABSENT"
                            /\ SameDigest(new, old) /\ new.owner = old.owner
           /\ Present(k) /\ old.phase \notin PreSend => new.phase \notin PreSend
           /\ old.phase = "TERMINAL" => new.phase = "TERMINAL" /\ new.outcome = old.outcome
           /\ KnownHash(old) # None => KnownHash(new) = KnownHash(old)]_cvars

\* Per identity one writer at a time, one transaction per operation, and a
\* close that is true: the ceremony is the abstract serializer of writes.
Holder ==
  [i \in Identities |->
     IF \E k \in IdempotencyKeys : Active(k) /\ ops[k].identity = i
     THEN CHOOSE k \in IdempotencyKeys : Active(k) /\ ops[k].identity = i
     ELSE None]

Fates      == [k \in IdempotencyKeys |-> Fate(k)]
ClosedWith == [k \in IdempotencyKeys |->
                 IF ops[k].phase = "TERMINAL" THEN ops[k].outcome ELSE "none"]

Writes == INSTANCE SerializedWrites WITH
  Operations <- IdempotencyKeys, Targets <- Identities, NoOne <- None,
  holder <- Holder, fate <- Fates, outcome <- ClosedWith

ImplementsSerializedWrites == Writes!WritesSpec

\* What the ceremony, the guardian and other scanners do to a lease here is what the contract
\* lets anyone do to it (contracts/SentinelRegistryV2.sol:95-143): the same lifecycle.
Leases == [i \in Identities |-> [version |-> lease[i].version, state |-> lease[i].state]]

Lifecycle == INSTANCE LeaseLifecycle WITH Names <- Identities, record <- Leases

LeasesKeepLifecycle == Lifecycle!LifecycleSpec

\* A write that made it into a block does not stay uncertain for ever: with an
\* operator who keeps asking for recovery the operation is closed
\* (recovery.test.ts:101, "rechecks a prior uncertain terminal outcome instead
\* of freezing it forever").
MinedWriteSettles ==
  \A k \in IdempotencyKeys : Fate(k) = "mined" ~> ops[k].phase = "TERMINAL"

\* And so it is while nobody withdraws the lease that the write made before its
\* readback (recovery.ts:70-98): through crashes, lost answers and the race of
\* runner and recovery.
MinedWriteSettlesUnlessWithdrawn ==
  [](\A i \in Identities : lease[i].state \notin {"DRIFTED", "REVOKED"}) => MinedWriteSettles
=============================================================================
