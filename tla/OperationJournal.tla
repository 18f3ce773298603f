-------------------------- MODULE OperationJournal --------------------------
(***************************************************************************)
(* The durable operation journal, server/prooflock/operation-journal.ts:   *)
(* one SQLite row per idempotency key with the phase of its ceremony, the  *)
(* transaction hash, the outcome and a cost row per paid stage.            *)
(*                                                                         *)
(* Every method is one SQLite transaction that either changes the row or   *)
(* throws.  A method m is given here as a test on the row, CanM, and the   *)
(* row it leaves, M; the runner and the recovery service call several of   *)
(* them in one synchronous stretch (module WriteCeremony).                 *)
(***************************************************************************)
EXTENDS Naturals, FiniteSets

CONSTANTS
  IdempotencyKeys,      \* the caller's keys, one operation each
  Identities,           \* identity keys of the registry
  Runs,                 \* runner invocations; a run names its transaction too
  None,                 \* no transaction, no run
  MaxVersion,           \* bound on the lease versions
  maxConcurrency,       \* limits.maxConcurrency = globalMaxConcurrency
  dailyCeremonyLimit,
  dailyCostUnitsLimit   \* one day: the windows do not slide in the model

\* COMPUTE stands for COMPUTE_BEHAVIORAL and COMPUTE_CONTRACT, which are paid
\* for in the same way one after the other; a stage costs one unit.
PaidStages == {"COMPUTE", "STORAGE", "REGISTRY"}
Budget == Cardinality(PaidStages)

PreSend == {"REQUESTED", "COMPUTE_VERIFIED", "STORAGE_VERIFIED",
            "CHAIN_INPUT_COMMITTED"}
Phases  == PreSend \cup {"SUBMISSION_ATTEMPTED", "HASH_KNOWN", "FINALIZED",
                         "RECOVERY_REQUIRED", "TERMINAL"}

Uncertain == {"SUBMISSION_OUTCOME_UNKNOWN", "FINALIZED_READBACK_UNAVAILABLE"}
Definite  == {"NOT_BROADCAST", "SEALED", "REVERTED"}

Dispositions == {"RESERVED", "CONSUMED", "RELEASED"}

\* A row; "ABSENT" before begin.  prior = 0 asks for a first seal, otherwise
\* for a reseal of that version: with the identity it is the input digest.
\* fresh says that updatedAt lies within the recovery grace period.
Operation == [phase : Phases \cup {"ABSENT"},
              identity : Identities \cup {None},
              prior : 0..MaxVersion,
              owner : Runs \cup {None},
              transactionHash : Runs \cup {None},
              outcome : Uncertain \cup Definite \cup {"none"},
              outcomeHash : Runs \cup {None},
              fresh : BOOLEAN,
              cost : [PaidStages -> Dispositions \cup {"none"}]]

VARIABLE ops

NoOperation ==
  [phase |-> "ABSENT", identity |-> None, prior |-> 0, owner |-> None,
   transactionHash |-> None, outcome |-> "none", outcomeHash |-> None,
   fresh |-> FALSE, cost |-> [s \in PaidStages |-> "none"]]

JournalInit == ops = [k \in IdempotencyKeys |-> NoOperation]

Present(k) == ops[k].phase # "ABSENT"
Active(k)  == ops[k].phase \notin {"ABSENT", "TERMINAL"}

SameDigest(o, request) == o.identity = request.identity /\ o.prior = request.prior

-----------------------------------------------------------------------------
(* begin                                                                   *)

Consumed(o) == {s \in PaidStages : o.cost[s] = "CONSUMED"}

\* A slip: a live operation counts only what it has consumed so far.
CountedCostSoFar(o) == Consumed(o)

\* The stages counted: of a finished operation those it consumed, of a live one its
\* whole budget.
CountedCost(o) ==
  IF o.phase = "ABSENT" THEN {}
  ELSE IF o.phase = "TERMINAL" THEN Consumed(o) ELSE PaidStages

\* Of each operation k the stages of[k], a unit each.
Units(of) == Cardinality({u \in IdempotencyKeys \X PaidStages : u[2] \in of[u[1]]})

CostToday == Units([k \in IdempotencyKeys |-> CountedCost(ops[k])])

\* A slip: the identity of a live operation is not looked at.
AdmissibleBesideAnother(identity) ==
  /\ Cardinality({k \in IdempotencyKeys : Active(k)}) < maxConcurrency
  /\ Cardinality({k \in IdempotencyKeys : Present(k)}) < dailyCeremonyLimit
  /\ CostToday + Budget <= dailyCostUnitsLimit

\* enforceAdmission
Admissible(identity) ==
  /\ \A k \in IdempotencyKeys : Active(k) => ops[k].identity # identity
  /\ Cardinality({k \in IdempotencyKeys : Active(k)}) < maxConcurrency
  /\ Cardinality({k \in IdempotencyKeys : Present(k)}) < dailyCeremonyLimit
  /\ CostToday + Budget <= dailyCostUnitsLimit

Begun(r, request) ==
  [NoOperation EXCEPT !.phase = "REQUESTED", !.identity = request.identity,
                      !.prior = request.prior, !.owner = r, !.fresh = TRUE]

-----------------------------------------------------------------------------
(* The methods on a row; every write to the row refreshes updatedAt.       *)

CanReserve(o, stage) == o.cost[stage] = "none"

ReserveCost(o, stage) ==
  [o EXCEPT !.cost[stage] = "RESERVED", !.fresh = TRUE]

\* reconcileCost, in a finally block or not: it throws when the stage is no
\* longer reserved, and then the row stays as it is.
CanReconcile(o, stage) == o.cost[stage] = "RESERVED"

ReconcileCost(o, stage, disposition) ==
  IF CanReconcile(o, stage)
  THEN [o EXCEPT !.cost[stage] = disposition, !.fresh = TRUE] ELSE o

\* A slip: recovery gives back whatever was still reserved.
ReconcileRecoveryCostsReleased(o, registry) ==
  [o EXCEPT !.cost = [s \in PaidStages |->
                        IF o.cost[s] # "RESERVED" THEN o.cost[s] ELSE "RELEASED"],
            !.fresh = TRUE]

\* reconcileRecoveryCosts: what was reserved may have been spent, except the
\* registry transaction, of which the caller knows.
ReconcileRecoveryCosts(o, registry) ==
  [o EXCEPT !.cost = [s \in PaidStages |->
                        IF o.cost[s] # "RESERVED" THEN o.cost[s]
                        ELSE IF s = "REGISTRY" THEN registry ELSE "CONSUMED"],
            !.fresh = TRUE]

\* change: the compare-and-set every phase record goes through.
Advance(o, phase) == [o EXCEPT !.phase = phase, !.fresh = TRUE]

\* A slip: the attempt is recorded on a closed row too.
CanRecordSubmissionAttemptClosed(o) ==
  o.phase \in {"CHAIN_INPUT_COMMITTED", "TERMINAL"}

CanRecordCompute(o)           == o.phase = "REQUESTED"
CanRecordStorage(o)           == o.phase = "COMPUTE_VERIFIED"
CanRecordChainInput(o)        == o.phase = "STORAGE_VERIFIED"
CanRecordSubmissionAttempt(o) == o.phase = "CHAIN_INPUT_COMMITTED"
CanRecordTransactionHash(o)   == o.phase = "SUBMISSION_ATTEMPTED"

RecordTransactionHash(o, hash) ==
  [Advance(o, "HASH_KNOWN") EXCEPT !.transactionHash = hash]

CanRecordFinalized(o, hash) ==
  /\ o.phase \in {"RECOVERY_REQUIRED", "HASH_KNOWN"}
  /\ o.transactionHash \in {None, hash}

RecordFinalized(o, hash) ==
  [Advance(o, "FINALIZED") EXCEPT !.transactionHash = hash]

\* complete, with the phases each outcome may be reported from.
CompletableFrom(status) ==
  CASE status = "SUBMISSION_OUTCOME_UNKNOWN"     -> {"SUBMISSION_ATTEMPTED", "HASH_KNOWN"}
    [] status = "FINALIZED_READBACK_UNAVAILABLE" -> {"FINALIZED"}
    [] status = "NOT_BROADCAST"                  -> PreSend
    [] status = "SEALED"                         -> {"FINALIZED"}
    [] status = "REVERTED"                       -> {"HASH_KNOWN", "RECOVERY_REQUIRED"}

CanComplete(o, status, hash) ==
  /\ o.phase \in CompletableFrom(status)
  /\ None \in {hash, o.transactionHash} \/ hash = o.transactionHash   \* bindOutcome

\* A call of complete whose exception, if any, is swallowed or passed on.
Complete(o, status, hash) ==
  IF ~CanComplete(o, status, hash) THEN o
  ELSE [Advance(o, IF status \in Uncertain THEN "RECOVERY_REQUIRED" ELSE "TERMINAL")
          EXCEPT !.outcome = status, !.outcomeHash = hash]
=============================================================================
