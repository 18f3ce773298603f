------------------------ MODULE WriteCeremony_proof -------------------------
(***************************************************************************)
(* The safety of the write ceremony, for any number of runners, recovery   *)
(* calls, keys, identities and crashes, every set of faults and every      *)
(* ceiling: closed operations tell the truth, an open write is guarded,    *)
(* the journal takes nothing back, the ceremony implements the serializer  *)
(* of writes, and the books of an operation match the work it caused.      *)
(*                                                                         *)
(* The invariant ties three views of one write together: the row, the      *)
(* runner that owns it and the transaction on the network.  Most steps     *)
(* change one row by methods of the journal, so the first part shows of    *)
(* each method that it keeps a row sound and takes nothing back, whoever   *)
(* calls it and when; the second, of each step, that it calls them with    *)
(* what they ask for.                                                      *)
(***************************************************************************)
EXTENDS WriteCeremony, FiniteSetTheorems, TLAPS

\* What a row says of itself: who owns it, which hashes it may know in which
\* phase, and that it is closed exactly when its outcome is definite.
RowOK(o) ==
  /\ o.phase = "ABSENT" <=> o.owner = None
  /\ o.phase # "ABSENT" => o.identity # None
  /\ o.transactionHash \in {None, o.owner}
  /\ o.outcomeHash \in {None, o.owner}
  /\ o.phase \in PreSend \cup {"ABSENT", "SUBMISSION_ATTEMPTED"} => o.transactionHash = None
  /\ o.phase \notin {"RECOVERY_REQUIRED", "FINALIZED", "TERMINAL"} => o.outcomeHash = None
  /\ o.phase = "FINALIZED" => o.transactionHash = o.owner
  /\ o.phase = "TERMINAL" <=> o.outcome \in Definite

TrueOutcomes == {<<"NOT_BROADCAST", "none">>, <<"SEALED", "mined">>, <<"REVERTED", "reverted">>}

\* What a row says of the fate of its transaction.
RowTells(o, fate) ==
  /\ o.phase \in PreSend \cup {"ABSENT"} <=> fate = "none" /\ o.phase # "TERMINAL"
  /\ o.phase = "FINALIZED" => fate = "mined"
  /\ o.phase = "TERMINAL" => <<o.outcome, fate>> \in TrueOutcomes

\* Every row is well formed and true.
RowsOK == \A k \in IdempotencyKeys : RowOK(ops[k]) /\ RowTells(ops[k], Fate(k))

\* A row and its owner speak of the same request, and the owner has begun.
OwnersOK ==
  \A k \in IdempotencyKeys : Present(k) =>
    LET w == run[ops[k].owner]
    IN  /\ w.key = k /\ SameDigest(ops[k], w)
        /\ w.pc \notin {"idle", "checking"}

BeforeSend == {"idle", "checking", "admitted", "computing", "computed", "uploading",
               "uploaded", "stored", "preflight"}
AfterSend  == {"sending", "waiting", "readback"}

\* A call under way, or one that sent, owns the row of its key; its write state
\* says of its transaction only what is so.
RunOK(r) ==
  LET w == run[r]
  IN  /\ w.pc = "checking" => w.key # None /\ w.identity # None
      /\ w.pc \notin {"idle", "checking", "ended"} \/ w.attempted =>
           w.key # None /\ ops[w.key].owner = r
      /\ w.attempted <=> tx[r] # "none"
      /\ w.pc \in BeforeSend => ~w.attempted
      /\ w.pc \in AfterSend => w.attempted
      /\ w.finalized => tx[r] = "mined"
      /\ w.reverted => tx[r] = "reverted"
      /\ w.hashKnown => w.attempted
      /\ w.prior < MaxVersion

\* A recovery call has begun on an operation, and reads back only what was mined.
RecOK(c) ==
  LET call == rec[c]
  IN  call.pc # "idle" =>
        /\ call.key # None /\ Present(call.key)
        /\ call.pc = "reading" => call.hash = ops[call.key].owner /\ tx[call.hash] = "mined"

\* No two live operations on one identity.
OneWriter ==
  \A k, j \in IdempotencyKeys :
    Active(k) /\ Active(j) /\ ops[k].identity = ops[j].identity => k = j

CeremonyInv ==
  /\ CeremonyTypeOK
  /\ RowsOK
  /\ OwnersOK
  /\ \A r \in Runs : RunOK(r)
  /\ \A c \in Recoverers : RecOK(c)
  /\ OneWriter

\* What JournalNeverForgets asks of one row.
Follows(old, new) ==
  /\ new.phase # "ABSENT" /\ SameDigest(new, old) /\ new.owner = old.owner
  /\ old.phase \notin PreSend => new.phase \notin PreSend
  /\ old.phase = "TERMINAL" => new.phase = "TERMINAL" /\ new.outcome = old.outcome
  /\ KnownHash(old) # None => KnownHash(new) = KnownHash(old)

\* A row that was begun and says nothing false of the fate of its transaction.
Sound(o, fate) ==
  o \in Operation /\ o.phase # "ABSENT" /\ RowOK(o) /\ RowTells(o, fate)

-----------------------------------------------------------------------------
(* The methods of the journal keep a row sound and take nothing back.      *)

LEMMA FollowsItself ==
  ASSUME NEW o, NEW fate, Sound(o, fate)
  PROVE  Follows(o, o)
BY DEF Follows, Sound, SameDigest

LEMMA FollowsOn ==
  ASSUME NEW o, NEW p, NEW q, o.phase # "ABSENT", Follows(o, p), Follows(p, q)
  PROVE  Follows(o, q)
BY DEF Follows, SameDigest

LEMMA RowOwner ==
  ASSUME NEW o, NEW fate, Sound(o, fate), CeremonyAssumption
  PROVE  o.owner \in Runs /\ o.owner # None
BY DEF Sound, RowOK, Operation, CeremonyAssumption

LEMMA ReserveKeeps ==
  ASSUME NEW o, NEW fate, Sound(o, fate), NEW stage \in PaidStages
  PROVE  Sound(ReserveCost(o, stage), fate) /\ Follows(o, ReserveCost(o, stage))
<1>. DEFINE n == ReserveCost(o, stage)
<1>1. n \in Operation
  BY DEF ReserveCost, Sound, Operation, Dispositions
<1>2. /\ n.phase = o.phase /\ n.owner = o.owner /\ n.outcome = o.outcome
      /\ n.identity = o.identity /\ n.prior = o.prior
      /\ n.transactionHash = o.transactionHash /\ n.outcomeHash = o.outcomeHash
  BY DEF ReserveCost, Sound, Operation
<1>. QED
  BY <1>1, <1>2 DEF Sound, Follows, SameDigest, RowOK, RowTells, KnownHash

LEMMA ReconcileKeeps ==
  ASSUME NEW o, NEW fate, Sound(o, fate), NEW stage \in PaidStages,
         NEW disposition \in Dispositions
  PROVE  /\ Sound(ReconcileCost(o, stage, disposition), fate)
         /\ Follows(o, ReconcileCost(o, stage, disposition))
         /\ ReconcileCost(o, stage, disposition).phase = o.phase
<1>. DEFINE n == ReconcileCost(o, stage, disposition)
<1>1. n \in Operation
  BY DEF ReconcileCost, Sound, Operation, Dispositions
<1>2. /\ n.phase = o.phase /\ n.owner = o.owner /\ n.outcome = o.outcome
      /\ n.identity = o.identity /\ n.prior = o.prior
      /\ n.transactionHash = o.transactionHash /\ n.outcomeHash = o.outcomeHash
  BY DEF ReconcileCost, Sound, Operation
<1>. QED
  BY <1>1, <1>2 DEF Sound, Follows, SameDigest, RowOK, RowTells, KnownHash

LEMMA ReconcileRecoveryKeeps ==
  ASSUME NEW o, NEW fate, Sound(o, fate), NEW registry \in Dispositions
  PROVE  /\ Sound(ReconcileRecoveryCosts(o, registry), fate)
         /\ Follows(o, ReconcileRecoveryCosts(o, registry))
         /\ ReconcileRecoveryCosts(o, registry).phase = o.phase
<1>. DEFINE n == ReconcileRecoveryCosts(o, registry)
<1>1. n \in Operation
  BY DEF ReconcileRecoveryCosts, Sound, Operation, Dispositions
<1>2. /\ n.phase = o.phase /\ n.owner = o.owner /\ n.outcome = o.outcome
      /\ n.identity = o.identity /\ n.prior = o.prior
      /\ n.transactionHash = o.transactionHash /\ n.outcomeHash = o.outcomeHash
  BY DEF ReconcileRecoveryCosts, Sound, Operation
<1>. QED
  BY <1>1, <1>2 DEF Sound, Follows, SameDigest, RowOK, RowTells, KnownHash

\* Before the send a record only moves the phase on.
LEMMA AdvanceKeeps ==
  ASSUME NEW o, NEW fate, Sound(o, fate), o.phase \in PreSend, NEW phase \in PreSend
  PROVE  Sound(Advance(o, phase), fate) /\ Follows(o, Advance(o, phase))
<1>. DEFINE n == Advance(o, phase)
<1>1. n \in Operation
  BY DEF Advance, Sound, Operation, Phases
<1>2. /\ n.phase = phase /\ n.owner = o.owner /\ n.outcome = o.outcome
      /\ n.identity = o.identity /\ n.prior = o.prior
      /\ n.transactionHash = o.transactionHash /\ n.outcomeHash = o.outcomeHash
  BY DEF Advance, Sound, Operation
<1>. QED
  BY <1>1, <1>2 DEF Sound, Follows, SameDigest, RowOK, RowTells, KnownHash, PreSend

\* The attempt is recorded in the step that sends.
LEMMA AttemptKeeps ==
  ASSUME NEW o, NEW fate, Sound(o, fate), CanRecordSubmissionAttempt(o)
  PROVE  /\ Sound(Advance(o, "SUBMISSION_ATTEMPTED"), "sent")
         /\ Follows(o, Advance(o, "SUBMISSION_ATTEMPTED"))
<1>. DEFINE n == Advance(o, "SUBMISSION_ATTEMPTED")
<1>1. n \in Operation
  BY DEF Advance, Sound, Operation, Phases
<1>2. /\ n.phase = "SUBMISSION_ATTEMPTED" /\ n.owner = o.owner /\ n.outcome = o.outcome
      /\ n.identity = o.identity /\ n.prior = o.prior
      /\ n.transactionHash = o.transactionHash /\ n.outcomeHash = o.outcomeHash
  BY DEF Advance, Sound, Operation
<1>. QED
  BY <1>1, <1>2 DEF Sound, Follows, SameDigest, RowOK, RowTells, KnownHash, PreSend,
     CanRecordSubmissionAttempt

LEMMA HashKeeps ==
  ASSUME NEW o, NEW fate, Sound(o, fate), CanRecordTransactionHash(o), o.owner \in Runs
  PROVE  /\ Sound(RecordTransactionHash(o, o.owner), fate)
         /\ Follows(o, RecordTransactionHash(o, o.owner))
<1>. DEFINE n == RecordTransactionHash(o, o.owner)
<1>1. n \in Operation
  BY DEF RecordTransactionHash, Advance, Sound, Operation, Phases
<1>2. /\ n.phase = "HASH_KNOWN" /\ n.owner = o.owner /\ n.outcome = o.outcome
      /\ n.identity = o.identity /\ n.prior = o.prior
      /\ n.transactionHash = o.owner /\ n.outcomeHash = o.outcomeHash
  BY DEF RecordTransactionHash, Advance, Sound, Operation
<1>. QED
  BY <1>1, <1>2 DEF Sound, Follows, SameDigest, RowOK, RowTells, KnownHash, PreSend,
     CanRecordTransactionHash

LEMMA FinalizedKeeps ==
  ASSUME NEW o, Sound(o, "mined"), CanRecordFinalized(o, o.owner), o.owner \in Runs
  PROVE  /\ Sound(RecordFinalized(o, o.owner), "mined")
         /\ Follows(o, RecordFinalized(o, o.owner))
<1>. DEFINE n == RecordFinalized(o, o.owner)
<1>1. n \in Operation
  BY DEF RecordFinalized, Advance, Sound, Operation, Phases
<1>2. /\ n.phase = "FINALIZED" /\ n.owner = o.owner /\ n.outcome = o.outcome
      /\ n.identity = o.identity /\ n.prior = o.prior
      /\ n.transactionHash = o.owner /\ n.outcomeHash = o.outcomeHash
  BY DEF RecordFinalized, Advance, Sound, Operation
<1>. QED
  BY <1>1, <1>2 DEF Sound, Follows, SameDigest, RowOK, RowTells, KnownHash, PreSend,
     CanRecordFinalized

\* Whoever calls complete must know of a revert, and name the transaction then;
\* everything else the phase vouches for.
LEMMA CompleteKeeps ==
  ASSUME NEW o, NEW fate, Sound(o, fate), NEW status \in Uncertain \cup Definite,
         NEW hash \in {None, o.owner}, o.owner \in Runs,
         status = "REVERTED" => fate = "reverted" /\ hash = o.owner
  PROVE  Sound(Complete(o, status, hash), fate) /\ Follows(o, Complete(o, status, hash))
<1>1. CASE ~CanComplete(o, status, hash)
  BY <1>1, FollowsItself DEF Complete
<1>2. CASE CanComplete(o, status, hash)
  <2>. DEFINE n == Complete(o, status, hash)
  <2>1. n \in Operation
    BY ZenonT(60), <1>2 DEF Complete, Advance, Sound, Operation, Phases
  <2>2. /\ n.phase = IF status \in Uncertain THEN "RECOVERY_REQUIRED" ELSE "TERMINAL"
        /\ n.owner = o.owner /\ n.outcome = status
        /\ n.identity = o.identity /\ n.prior = o.prior
        /\ n.transactionHash = o.transactionHash /\ n.outcomeHash = hash
    BY <1>2 DEF Complete, Advance, Sound, Operation
  <2>3. o.phase \in CompletableFrom(status)
    BY <1>2 DEF CanComplete
  <2>4. CASE status = "SUBMISSION_OUTCOME_UNKNOWN"
    <3>1. o.phase \in {"SUBMISSION_ATTEMPTED", "HASH_KNOWN"}
      BY <2>3, <2>4 DEF CompletableFrom
    <3>. QED
      BY <2>1, <2>2, <2>4, <3>1 DEF Sound, Follows, SameDigest, RowOK, RowTells, KnownHash, PreSend, Uncertain, Definite
  <2>5. CASE status = "FINALIZED_READBACK_UNAVAILABLE"
    <3>1. o.phase = "FINALIZED"
      BY <2>3, <2>5 DEF CompletableFrom
    <3>. QED
      BY <2>1, <2>2, <2>5, <3>1 DEF Sound, Follows, SameDigest, RowOK, RowTells, KnownHash, PreSend, Uncertain, Definite
  <2>6. CASE status = "NOT_BROADCAST"
    <3>1. o.phase \in PreSend
      BY <2>3, <2>6 DEF CompletableFrom
    <3>. QED
      BY <2>1, <2>2, <2>6, <3>1 DEF Sound, Follows, SameDigest, RowOK, RowTells, KnownHash, PreSend, Uncertain, Definite, TrueOutcomes
  <2>7. CASE status = "SEALED"
    <3>1. o.phase = "FINALIZED"
      BY <2>3, <2>7 DEF CompletableFrom
    <3>. QED
      BY <2>1, <2>2, <2>7, <3>1 DEF Sound, Follows, SameDigest, RowOK, RowTells, KnownHash, PreSend, Uncertain, Definite, TrueOutcomes
  <2>8. CASE status = "REVERTED"
    <3>1. o.phase \in {"HASH_KNOWN", "RECOVERY_REQUIRED"}
      BY <2>3, <2>8 DEF CompletableFrom
    <3>. QED
      BY <2>1, <2>2, <2>8, <3>1 DEF Sound, Follows, SameDigest, RowOK, RowTells, KnownHash, PreSend, Uncertain, Definite, TrueOutcomes
  <2>. QED
    BY <2>4, <2>5, <2>6, <2>7, <2>8 DEF Uncertain, Definite
<1>. QED
  BY <1>1, <1>2

-----------------------------------------------------------------------------
(* The parts of the state a step can disturb.                              *)

\* No operation appears, goes or changes hands.
SameRequests ==
  \A j \in IdempotencyKeys :
    /\ ops'[j].phase = "ABSENT" <=> ops[j].phase = "ABSENT"
    /\ ops'[j].owner = ops[j].owner
    /\ SameDigest(ops'[j], ops[j])

\* Every row goes the way JournalNeverForgets allows.
RowsFollow == \A j \in IdempotencyKeys : Present(j) => Follows(ops[j], ops'[j])

LEMMA SoundRow ==
  ASSUME CeremonyAssumption, CeremonyInv, NEW k \in IdempotencyKeys, Present(k)
  PROVE  /\ Sound(ops[k], Fate(k))
         /\ ops[k].owner \in Runs /\ Fate(k) = tx[ops[k].owner]
<1>1. Sound(ops[k], Fate(k))
  BY DEF CeremonyInv, CeremonyTypeOK, RowsOK, Present, Sound
<1>. QED
  BY <1>1, RowOwner DEF Fate

LEMMA RowsStep ==
  ASSUME CeremonyAssumption, CeremonyInv, NEW k \in IdempotencyKeys, Present(k),
         NEW n, Sound(n, Fate(k)), Follows(ops[k], n),
         ops' = [ops EXCEPT ![k] = n], tx' = tx
  PROVE  /\ ops' \in [IdempotencyKeys -> Operation]
         /\ RowsOK' /\ OneWriter' /\ SameRequests /\ RowsFollow
<1>0. ops \in [IdempotencyKeys -> Operation]
  BY DEF CeremonyInv, CeremonyTypeOK
<1>1. ops' \in [IdempotencyKeys -> Operation]
  BY <1>0 DEF Sound
<1>2. ops'[k] = n /\ \A j \in IdempotencyKeys \ {k} : ops'[j] = ops[j]
  BY <1>0
<1>3. SameRequests
  BY <1>2 DEF SameRequests, SameDigest, Follows, Present
<1>4. RowsFollow
  <2>1. \A j \in IdempotencyKeys : Present(j) => Follows(ops[j], ops[j])
    BY SoundRow, FollowsItself
  <2>. QED
    BY <1>2, <2>1 DEF RowsFollow
<1>5. RowsOK'
  <2>. SUFFICES ASSUME NEW j \in IdempotencyKeys
                PROVE  RowOK(ops'[j]) /\ RowTells(ops'[j], Fate(j)')
    BY DEF RowsOK
  <2>1. Fate(j)' = Fate(j)
    BY <1>3 DEF Fate, SameRequests
  <2>2. RowOK(ops[j]) /\ RowTells(ops[j], Fate(j))
    BY DEF CeremonyInv, RowsOK
  <2>. QED
    BY <1>2, <2>1, <2>2 DEF Sound
<1>6. OneWriter'
  <2>1. \A j \in IdempotencyKeys : Active(j)' => Active(j) /\ ops'[j].identity = ops[j].identity
    BY <1>2 DEF Active, Follows, SameDigest, Present
  <2>. QED
    BY <2>1 DEF CeremonyInv, OneWriter
<1>. QED
  BY <1>1, <1>3, <1>4, <1>5, <1>6

\* What a call that has begun and is under way may become.
Continues(r, w) ==
  /\ w \in RunState
  /\ w.key = run[r].key /\ SameDigest(w, run[r])
  /\ w.attempted = run[r].attempted
  /\ w.pc \notin {"idle", "checking"}
  /\ w.pc \in BeforeSend => ~w.attempted
  /\ w.pc \in AfterSend => w.attempted
  /\ w.finalized => tx[r] = "mined"
  /\ w.reverted => tx[r] = "reverted"
  /\ w.hashKnown => w.attempted

Working(r) == run[r].pc \notin {"idle", "checking", "ended"}

LEMMA RunsStep ==
  ASSUME CeremonyAssumption, CeremonyInv, SameRequests, NEW r \in Runs, Working(r),
         NEW w, Continues(r, w), run' = [run EXCEPT ![r] = w], tx' = tx
  PROVE  run' \in [Runs -> RunState] /\ OwnersOK' /\ \A q \in Runs : RunOK(q)'
<1>0. run \in [Runs -> RunState] /\ \A q \in Runs : RunOK(q)
  BY DEF CeremonyInv, CeremonyTypeOK
<1>1. run' \in [Runs -> RunState] /\ run'[r] = w /\ \A q \in Runs \ {r} : run'[q] = run[q]
  BY <1>0 DEF Continues
<1>2. \A q \in Runs : run[q].key \in IdempotencyKeys \cup {None}
  BY <1>0 DEF RunState
<1>3. OwnersOK'
  <2>. SUFFICES ASSUME NEW k \in IdempotencyKeys, Present(k)'
                PROVE  LET v == run'[ops'[k].owner]
                       IN  /\ v.key = k /\ SameDigest(ops'[k], v)
                           /\ v.pc \notin {"idle", "checking"}
    BY DEF OwnersOK
  <2>1. Present(k) /\ ops'[k].owner = ops[k].owner /\ SameDigest(ops'[k], ops[k])
    BY DEF SameRequests, Present
  <2>2. ops[k].owner \in Runs
    BY <2>1, SoundRow
  <2>3. LET v == run[ops[k].owner]
        IN  v.key = k /\ SameDigest(ops[k], v) /\ v.pc \notin {"idle", "checking"}
    BY <2>1 DEF CeremonyInv, OwnersOK
  <2>. QED
    BY <1>1, <2>1, <2>2, <2>3 DEF SameDigest, Continues
<1>4. RunOK(r)'
  <2>1. run[r].key # None /\ ops[run[r].key].owner = r
    BY <1>0 DEF RunOK, Working
  <2>2. ops'[run[r].key].owner = r
    BY <1>2, <2>1 DEF SameRequests
  <2>. QED
    BY <1>0, <1>1, <2>1, <2>2 DEF RunOK, Continues, SameDigest
<1>5. ASSUME NEW q \in Runs \ {r}
      PROVE  RunOK(q)'
  BY <1>0, <1>1, <1>2 DEF RunOK, SameRequests
<1>. QED
  BY <1>1, <1>3, <1>4, <1>5

LEMMA RecsStep ==
  ASSUME CeremonyInv, SameRequests, tx' = tx, rec' = rec
  PROVE  rec' \in [Recoverers -> RecState] /\ \A c \in Recoverers : RecOK(c)'
<1>1. /\ rec \in [Recoverers -> RecState]
      /\ \A c \in Recoverers : RecOK(c)
  BY DEF CeremonyInv, CeremonyTypeOK
<1>. QED
  BY <1>1 DEF RecOK, RecState, SameRequests, Present

-----------------------------------------------------------------------------
(* The steps.                                                              *)

\* What a step may be for the serializer: it changes one operation that was
\* begun, or none; it begins one; it sends; or a transaction ends.
ChangesOne == tx' = tx /\ \E k \in IdempotencyKeys :
                Present(k) /\ \A j \in IdempotencyKeys \ {k} : ops'[j] = ops[j]
ChangesNone == ops' = ops /\ tx' = tx
Begins == tx' = tx /\ \E k \in IdempotencyKeys, r \in Runs, i \in Identities :
            /\ ~Present(k) /\ Admissible(i) /\ tx[r] = "none"
            /\ ops'[k].phase = "REQUESTED" /\ ops'[k].identity = i /\ ops'[k].owner = r
            /\ \A j \in IdempotencyKeys \ {k} : ops'[j] = ops[j]
Sends == \E k \in IdempotencyKeys, r \in Runs :
           /\ ops[k].phase \in PreSend /\ ops[k].owner = r /\ tx[r] = "none"
           /\ tx' = [tx EXCEPT ![r] = "sent"]
           /\ ops'[k].phase = "SUBMISSION_ATTEMPTED"
           /\ ops'[k].owner = r /\ ops'[k].identity = ops[k].identity
           /\ \A j \in IdempotencyKeys \ {k} : ops'[j] = ops[j]
Lands == ops' = ops /\ \E r \in Runs, end \in {"mined", "reverted", "dropped"} :
           tx[r] = "sent" /\ tx' = [tx EXCEPT ![r] = end]

Change == ChangesOne \/ ChangesNone \/ Begins \/ Sends \/ Lands

\* What every step keeps and does.
Kept == CeremonyInv' /\ RowsFollow /\ Change

LEMMA OwnedRow ==
  ASSUME CeremonyAssumption, CeremonyInv, NEW r \in Runs, Working(r)
  PROVE  LET k == run[r].key
         IN  /\ k \in IdempotencyKeys /\ Present(k) /\ ops[k].owner = r
             /\ Fate(k) = tx[r] /\ Sound(ops[k], tx[r])
<1>1. run[r] \in RunState /\ RunOK(r)
  BY DEF CeremonyInv, CeremonyTypeOK
<1>2. run[r].key \in IdempotencyKeys /\ ops[run[r].key].owner = r
  BY <1>1 DEF RunOK, Working, RunState
<1>3. Present(run[r].key)
  BY <1>2 DEF CeremonyInv, RowsOK, RowOK, Present, CeremonyAssumption
<1>. QED
  BY <1>2, <1>3, SoundRow

LEMMA RunnerKeeps ==
  ASSUME CeremonyAssumption, CeremonyInv, NEW r \in Runs, Working(r),
         NEW n, Sound(n, tx[r]), Follows(ops[run[r].key], n), SetRow(run[r].key, n),
         NEW w, Continues(r, w), run' = [run EXCEPT ![r] = w],
         UNCHANGED <<rec, tx, lease, crashes>>,
         spent' \in [IdempotencyKeys -> SUBSET PaidStages]
  PROVE  Kept
<1>. DEFINE k == run[r].key
<1>1. k \in IdempotencyKeys /\ Present(k) /\ Sound(n, Fate(k))
  BY OwnedRow
<1>2. ops' = [ops EXCEPT ![k] = n] /\ tx' = tx
  BY DEF SetRow
<1>3. /\ ops' \in [IdempotencyKeys -> Operation]
      /\ RowsOK' /\ OneWriter' /\ SameRequests /\ RowsFollow
  BY <1>1, <1>2, RowsStep
<1>4. run' \in [Runs -> RunState] /\ OwnersOK' /\ \A q \in Runs : RunOK(q)'
  BY <1>3, RunsStep
<1>5. rec' \in [Recoverers -> RecState] /\ \A c \in Recoverers : RecOK(c)'
  BY <1>3, RecsStep
<1>6. ChangesOne
  BY <1>1, <1>2 DEF ChangesOne, CeremonyInv, CeremonyTypeOK
<1>. QED
  BY <1>3, <1>4, <1>5, <1>6 DEF Kept, CeremonyInv, CeremonyTypeOK, Change

LEMMA SettleKeeps ==
  ASSUME CeremonyAssumption, CeremonyInv, NEW r \in Runs, Working(r),
         NEW o, Sound(o, tx[r]), Follows(ops[run[r].key], o),
         NEW w, Continues(r, [w EXCEPT !.pc = "ended"]), w \in RunState, Settle(r, o, w),
         UNCHANGED <<rec, tx, lease, crashes>>,
         spent' \in [IdempotencyKeys -> SUBSET PaidStages]
  PROVE  Kept
<1>. DEFINE k == run[r].key
            e == [w EXCEPT !.pc = "ended"]
            status == WriteOutcome(w)
            hash == IF w.hashKnown THEN r ELSE None
            n == Complete(o, status, hash)
<1>1. o.owner = r /\ ops[k].phase # "ABSENT"
  BY OwnedRow DEF Follows, Present
<1>2. w.key = k /\ (w.reverted => tx[r] = "reverted")
  BY DEF Continues, RunState
<1>3. status \in Uncertain \cup Definite /\ hash \in {None, o.owner}
  BY <1>1 DEF WriteOutcome, Uncertain, Definite
<1>4. status = "REVERTED" => tx[r] = "reverted" /\ hash = o.owner
  BY <1>1, <1>2 DEF WriteOutcome
<1>. HIDE DEF status, hash
<1>5. Sound(n, tx[r]) /\ Follows(o, n)
  BY <1>1, <1>3, <1>4, CompleteKeeps
<1>6. Follows(ops[k], n)
  BY <1>1, <1>5, FollowsOn
<1>7. SetRow(k, n) /\ run' = [run EXCEPT ![r] = e]
  BY <1>2 DEF Settle, status, hash
<1>. QED
  BY <1>5, <1>6, <1>7, RunnerKeeps

LEMMA SettleWriteKeeps ==
  ASSUME CeremonyAssumption, CeremonyInv, NEW r \in Runs, Working(r),
         NEW o, Sound(o, tx[r]), Follows(ops[run[r].key], o),
         NEW w, Continues(r, [w EXCEPT !.pc = "ended"]), w \in RunState, SettleWrite(r, o, w),
         UNCHANGED <<rec, tx, lease, crashes>>,
         spent' \in [IdempotencyKeys -> SUBSET PaidStages]
  PROVE  Kept
<1>. DEFINE d == IF w.attempted THEN "CONSUMED" ELSE "RELEASED"
            n == ReconcileCost(o, "REGISTRY", d)
<1>1. d \in Dispositions /\ "REGISTRY" \in PaidStages
  BY DEF Dispositions, PaidStages
<1>2. Settle(r, n, w)
  BY DEF SettleWrite
<1>. HIDE DEF d
<1>3. Sound(n, tx[r]) /\ Follows(o, n)
  BY <1>1, ReconcileKeeps
<1>4. Follows(ops[run[r].key], n)
  BY <1>3, OwnedRow, FollowsOn DEF Present
<1>. QED
  BY <1>2, <1>3, <1>4, SettleKeeps

\* The call as it is, ended or gone on before its send.
LEMMA CallGoesOn ==
  ASSUME CeremonyAssumption, CeremonyInv, NEW r \in Runs, Working(r)
  PROVE  /\ run[r] \in RunState
         /\ Continues(r, [run[r] EXCEPT !.pc = "ended"])
         /\ \A p \in BeforeSend \ {"idle", "checking"} : run[r].pc \in BeforeSend =>
              Continues(r, [run[r] EXCEPT !.pc = p])
<1>1. run[r] \in RunState /\ RunOK(r)
  BY DEF CeremonyInv, CeremonyTypeOK
<1>. QED
  BY <1>1 DEF Continues, RunState, RunPcs, BeforeSend, AfterSend, SameDigest, RunOK

LEMMA PaidStageKeeps ==
  ASSUME CeremonyAssumption, CeremonyInv, NEW r \in Runs, Working(r), run[r].pc \in BeforeSend,
         NEW n, Sound(n, tx[r]), Follows(ops[run[r].key], n), SetRow(run[r].key, n),
         NEW p \in BeforeSend \ {"idle", "checking"}, Goto(r, p),
         UNCHANGED <<rec, tx, lease, crashes>>,
         spent' \in [IdempotencyKeys -> SUBSET PaidStages]
  PROVE  Kept
<1>1. Continues(r, [run[r] EXCEPT !.pc = p])
  BY CallGoesOn
<1>2. run' = [run EXCEPT ![r] = [run[r] EXCEPT !.pc = p]]
  BY DEF Goto
<1>. QED
  BY <1>1, <1>2, RunnerKeeps

LEMMA SpentType ==
  ASSUME CeremonyInv, NEW k \in IdempotencyKeys, NEW stage \in PaidStages
  PROVE  /\ spent \in [IdempotencyKeys -> SUBSET PaidStages]
         /\ [spent EXCEPT ![k] = @ \cup {stage}] \in [IdempotencyKeys -> SUBSET PaidStages]
BY DEF CeremonyInv, CeremonyTypeOK

LEMMA AdmitKeeps ==
  ASSUME CeremonyAssumption, CeremonyInv, NEW r \in Runs, Admit(r) \/ ChecksFail(r)
  PROVE  Kept
<1>0. /\ run \in [Runs -> RunState] /\ ops \in [IdempotencyKeys -> Operation]
      /\ run[r].pc = "checking"
      /\ \A q \in Runs : RunOK(q)
      /\ \A j \in IdempotencyKeys : RowOK(ops[j]) /\ RowTells(ops[j], Fate(j))
      /\ rec \in [Recoverers -> RecState] /\ \A c \in Recoverers : RecOK(c)
  BY DEF Admit, ChecksFail, At, CeremonyInv, CeremonyTypeOK, RowsOK
<1>. PICK k \in IdempotencyKeys, i \in Identities : k = run[r].key /\ i = run[r].identity
  BY <1>0 DEF RunOK, RunState
<1>1. ~run[r].attempted /\ tx[r] = "none"
  BY <1>0 DEF RunOK, RunState, BeforeSend
<1>2. \A j \in IdempotencyKeys : ops[j].owner # r
  BY <1>0 DEF CeremonyInv, OwnersOK, Present, RowOK, CeremonyAssumption
<1>3. CASE ~Present(k) /\ Admissible(i) /\ SetRow(k, Begun(r, run[r])) /\ Goto(r, "admitted")
            /\ UNCHANGED <<rec, tx, lease, spent, crashes>>
  <2>. DEFINE n == Begun(r, run[r])
  <2>1. /\ n \in Operation
        /\ n.phase = "REQUESTED" /\ n.owner = r /\ n.outcome = "none"
        /\ n.identity = i /\ n.prior = run[r].prior
        /\ n.transactionHash = None /\ n.outcomeHash = None
    BY <1>0, <1>1 DEF Begun, NoOperation, Operation, Phases, PreSend, RunState
  <2>. HIDE DEF n
  <2>2. /\ ops' \in [IdempotencyKeys -> Operation]
        /\ ops'[k] = n /\ \A j \in IdempotencyKeys \ {k} : ops'[j] = ops[j]
    BY <1>0, <1>1, <1>3, <2>1 DEF SetRow, n
  <2>3. /\ run' \in [Runs -> RunState]
        /\ run'[r] = [run[r] EXCEPT !.pc = "admitted"]
        /\ \A q \in Runs \ {r} : run'[q] = run[q]
    BY <1>0, <1>3 DEF Goto, RunState, RunPcs
  <2>4. RowsOK'
    <3>1. RowOK(n) /\ RowTells(n, "none")
      BY <2>1 DEF RowOK, RowTells, PreSend, Definite, CeremonyAssumption
    <3>2. Fate(k)' = "none" /\ \A j \in IdempotencyKeys \ {k} : Fate(j)' = Fate(j)
      BY <1>1, <1>3, <2>1, <2>2 DEF Fate, CeremonyAssumption
    <3>. QED
      BY <1>0, <2>2, <3>1, <3>2 DEF RowsOK
  <2>5. OwnersOK'
    <3>1. SameDigest(n, run'[r]) /\ run'[r].key = k /\ run'[r].pc = "admitted"
      BY <1>0, <2>1, <2>3 DEF SameDigest, RunState
    <3>2. ASSUME NEW j \in IdempotencyKeys \ {k}, Present(j)'
          PROVE  ops'[j] = ops[j] /\ Present(j) /\ ops[j].owner \in Runs \ {r}
      BY <1>2, <2>2, <3>2, SoundRow DEF Present
    <3>3. ASSUME NEW j \in IdempotencyKeys \ {k}, Present(j)'
          PROVE  LET v == run'[ops'[j].owner]
                 IN  v.key = j /\ SameDigest(ops'[j], v) /\ v.pc \notin {"idle", "checking"}
      BY <2>3, <3>2, <3>3 DEF OwnersOK, CeremonyInv
    <3>. QED
      BY <2>1, <2>2, <3>1, <3>3 DEF OwnersOK
  <2>6. \A q \in Runs : RunOK(q)'
    <3>1. RunOK(r)'
      BY <1>0, <1>1, <1>3, <2>1, <2>2, <2>3 DEF RunOK, RunState, CeremonyAssumption, BeforeSend, AfterSend
    <3>2. ASSUME NEW q \in Runs \ {r}
          PROVE  RunOK(q)'
      <4>1. run[q].key = k => ops[k].owner # q
        BY <1>0, <1>1, <1>3 DEF RowOK, Present, CeremonyAssumption
      <4>2. run[q].key \in IdempotencyKeys \cup {None}
        BY <1>0 DEF RunState
      <4>. QED
        BY <1>0, <1>3, <2>2, <2>3, <4>1, <4>2 DEF RunOK
    <3>. QED
      BY <3>1, <3>2
  <2>7. \A c \in Recoverers : RecOK(c)'
    BY <1>0, <1>3, <2>2 DEF RecOK, RecState, Present
  <2>8. OneWriter'
    <3>1. \A j \in IdempotencyKeys \ {k} : Active(j)' => Active(j) /\ ops'[j].identity # i
      BY <1>3, <2>2 DEF Admissible, Active
    <3>. QED
      BY <2>1, <2>2, <3>1 DEF OneWriter, CeremonyInv, Active
  <2>9. RowsFollow
    BY <1>3, <2>2, SoundRow, FollowsItself DEF RowsFollow
  <2>10. Begins
    BY <1>1, <1>3, <2>1, <2>2 DEF Begins
  <2>. QED
    BY <1>0, <1>3, <2>2, <2>3, <2>4, <2>5, <2>6, <2>7, <2>8, <2>9, <2>10
       DEF Kept, Change, CeremonyInv, CeremonyTypeOK
<1>4. CASE Goto(r, "ended") /\ UNCHANGED <<ops, rec, tx, lease, spent, crashes>>
  <2>1. /\ run' \in [Runs -> RunState]
        /\ run'[r] = [run[r] EXCEPT !.pc = "ended"]
        /\ \A q \in Runs \ {r} : run'[q] = run[q]
    BY <1>0, <1>4 DEF Goto, RunState, RunPcs
  <2>2. OwnersOK'
    <3>1. ASSUME NEW j \in IdempotencyKeys, Present(j)
          PROVE  ops[j].owner \in Runs \ {r}
      BY <1>2, <3>1, SoundRow
    <3>. QED
      BY <1>4, <2>1, <3>1 DEF OwnersOK, CeremonyInv, Present
  <2>3. \A q \in Runs : RunOK(q)'
    BY <1>0, <1>1, <1>4, <2>1 DEF RunOK, RunState, BeforeSend, AfterSend
  <2>4. RowsOK' /\ OneWriter' /\ RowsFollow /\ \A c \in Recoverers : RecOK(c)'
    <3>1. \A j \in IdempotencyKeys : Present(j) => Follows(ops[j], ops[j])
      BY SoundRow, FollowsItself
    <3>. QED
      BY <1>4, <3>1 DEF RowsOK, Fate, OneWriter, Active, RowsFollow, RecOK, Present, CeremonyInv
  <2>5. ChangesNone
    BY <1>4 DEF ChangesNone
  <2>. QED
    BY <1>0, <1>4, <2>1, <2>2, <2>3, <2>4, <2>5 DEF Kept, Change, CeremonyInv, CeremonyTypeOK
<1>. QED
  BY <1>3, <1>4 DEF Admit, ChecksFail

LEMMA PaidStagesKeep ==
  ASSUME CeremonyAssumption, CeremonyInv, NEW r \in Runs,
         \/ StartCompute(r) \/ ComputeReturns(r) \/ ComputeFails(r)
         \/ StartUpload(r)  \/ UploadReturns(r)  \/ UploadFails(r)
         \/ CommitChainInput(r) \/ StartWrite(r)
  PROVE  Kept
<1>. PICK k : k = run[r].key
  OBVIOUS
<1>. DEFINE o == ops[k]
<1>0. Working(r) /\ run[r].pc \in BeforeSend /\ run[r] \in RunState
  BY DEF StartCompute, ComputeReturns, ComputeFails, StartUpload, UploadReturns, UploadFails,
         CommitChainInput, StartWrite, At, Working, BeforeSend, CeremonyInv, CeremonyTypeOK
<1>1. /\ k \in IdempotencyKeys /\ Present(k) /\ o.owner = r /\ o.phase # "ABSENT"
      /\ Sound(o, tx[r]) /\ Follows(o, o)
  BY <1>0, OwnedRow, FollowsItself DEF Present
<1>2. Continues(r, [run[r] EXCEPT !.pc = "ended"])
  BY <1>0, CallGoesOn
<1>3. /\ spent \in [IdempotencyKeys -> SUBSET PaidStages]
      /\ \A s \in PaidStages :
           [spent EXCEPT ![k] = @ \cup {s}] \in [IdempotencyKeys -> SUBSET PaidStages]
  <2>1. \A s \in PaidStages :
           [spent EXCEPT ![k] = @ \cup {s}] \in [IdempotencyKeys -> SUBSET PaidStages]
    BY <1>1, SpentType
  <2>. QED
    BY <2>1 DEF CeremonyInv, CeremonyTypeOK
<1>4. "COMPUTE" \in PaidStages /\ "STORAGE" \in PaidStages /\ "REGISTRY" \in PaidStages
      /\ "CONSUMED" \in Dispositions
  BY DEF PaidStages, Dispositions
<1>5. {"admitted", "computing", "computed", "uploading", "uploaded", "stored", "preflight"}
        \subseteq BeforeSend \ {"idle", "checking"}
  BY DEF BeforeSend
<1>. HIDE DEF o
<1>6. ASSUME Settle(r, o, run[r]), UNCHANGED <<rec, tx, lease, spent, crashes>>
      PROVE  Kept
  BY <1>0, <1>1, <1>2, <1>3, <1>6, SettleKeeps DEF o
<1>7. ASSUME NEW stage \in PaidStages, NEW p \in BeforeSend \ {"idle", "checking"},
             SetRow(k, ReserveCost(o, stage)), Goto(r, p), UNCHANGED <<rec, tx, lease, crashes>>,
             spent' \in [IdempotencyKeys -> SUBSET PaidStages]
      PROVE  Kept
  BY <1>0, <1>1, <1>7, ReserveKeeps, PaidStageKeeps DEF o
<1>8. ASSUME NEW stage \in PaidStages,
             Settle(r, ReconcileCost(o, stage, "CONSUMED"), run[r]),
             UNCHANGED <<rec, tx, lease, spent, crashes>>
      PROVE  Kept
  <2>1. /\ Sound(ReconcileCost(o, stage, "CONSUMED"), tx[r])
        /\ Follows(o, ReconcileCost(o, stage, "CONSUMED"))
    BY <1>1, <1>4, ReconcileKeeps
  <2>. QED
    BY <1>0, <1>2, <1>3, <1>8, <2>1, SettleKeeps DEF o
<1>9. ASSUME NEW stage \in PaidStages, o.phase \in PreSend,
             NEW phase \in PreSend, NEW p \in BeforeSend \ {"idle", "checking"},
             SetRow(k, Advance(ReconcileCost(o, stage, "CONSUMED"), phase)), Goto(r, p),
             UNCHANGED <<rec, tx, lease, spent, crashes>>
      PROVE  Kept
  <2>. DEFINE q == ReconcileCost(o, stage, "CONSUMED")
  <2>1. Sound(q, tx[r]) /\ Follows(o, q) /\ q.phase \in PreSend
    BY <1>1, <1>4, <1>9, ReconcileKeeps
  <2>2. Sound(Advance(q, phase), tx[r]) /\ Follows(q, Advance(q, phase))
    BY <2>1, AdvanceKeeps
  <2>3. Follows(o, Advance(q, phase))
    BY <1>1, <2>1, <2>2, FollowsOn
  <2>. QED
    BY <1>0, <1>3, <1>9, <2>2, <2>3, PaidStageKeeps DEF o
<1>10. CASE StartCompute(r)
  BY <1>1, <1>3, <1>4, <1>5, <1>6, <1>7, <1>10 DEF StartCompute, o
<1>11. CASE StartUpload(r)
  BY <1>1, <1>3, <1>4, <1>5, <1>6, <1>7, <1>11 DEF StartUpload, o
<1>12. CASE StartWrite(r)
  BY <1>1, <1>3, <1>4, <1>5, <1>6, <1>7, <1>12 DEF StartWrite, o
<1>13. CASE ComputeReturns(r)
  <2>1. ReconcileCost(o, "COMPUTE", "CONSUMED").phase = o.phase
    BY <1>1, <1>4, ReconcileKeeps
  <2>. QED
    BY <1>4, <1>5, <1>8, <1>9, <1>13, <2>1 DEF ComputeReturns, CanRecordCompute, PreSend, o
<1>14. CASE UploadReturns(r)
  <2>1. ReconcileCost(o, "STORAGE", "CONSUMED").phase = o.phase
    BY <1>1, <1>4, ReconcileKeeps
  <2>. QED
    BY <1>4, <1>5, <1>8, <1>9, <1>14, <2>1 DEF UploadReturns, CanRecordStorage, PreSend, o
<1>15. CASE ComputeFails(r)
  BY <1>4, <1>8, <1>15 DEF ComputeFails, o
<1>16. CASE UploadFails(r)
  BY <1>4, <1>8, <1>16 DEF UploadFails, o
<1>17. CASE CommitChainInput(r)
  <2>1. CASE CanRecordChainInput(o)
    <3>1. o.phase \in PreSend /\ "CHAIN_INPUT_COMMITTED" \in PreSend
      BY <2>1 DEF CanRecordChainInput, PreSend
    <3>2. /\ Sound(Advance(o, "CHAIN_INPUT_COMMITTED"), tx[r])
          /\ Follows(o, Advance(o, "CHAIN_INPUT_COMMITTED"))
      BY <1>1, <3>1, AdvanceKeeps
    <3>3. SetRow(k, Advance(o, "CHAIN_INPUT_COMMITTED")) /\ Goto(r, "stored")
          /\ UNCHANGED <<rec, tx, lease, spent, crashes>>
      BY <1>17, <2>1 DEF CommitChainInput, o
    <3>. QED
      BY <1>0, <1>3, <1>5, <3>2, <3>3, PaidStageKeeps DEF o
  <2>2. CASE ~CanRecordChainInput(o)
    BY <1>6, <1>17, <2>2 DEF CommitChainInput, o
  <2>. QED
    BY <2>1, <2>2
<1>. QED
  BY <1>10, <1>11, <1>12, <1>13, <1>14, <1>15, <1>16, <1>17

LEMMA PreflightKeeps ==
  ASSUME CeremonyAssumption, CeremonyInv, NEW r \in Runs, Preflight(r) \/ PreflightFails(r)
  PROVE  Kept
<1>. PICK k : k = run[r].key
  OBVIOUS
<1>0. /\ Working(r) /\ run[r].pc = "preflight" /\ run[r] \in RunState
      /\ run \in [Runs -> RunState] /\ ops \in [IdempotencyKeys -> Operation]
      /\ tx \in [Runs -> {"none", "sent", "mined", "reverted", "dropped"}]
      /\ \A q \in Runs : RunOK(q)
      /\ \A j \in IdempotencyKeys : RowOK(ops[j]) /\ RowTells(ops[j], Fate(j))
      /\ rec \in [Recoverers -> RecState] /\ \A c \in Recoverers : RecOK(c)
      /\ spent \in [IdempotencyKeys -> SUBSET PaidStages]
  BY DEF Preflight, PreflightFails, At, Working, CeremonyInv, CeremonyTypeOK, RowsOK
<1>1. /\ k \in IdempotencyKeys /\ Present(k) /\ ops[k].owner = r /\ ops[k].phase # "ABSENT"
      /\ Sound(ops[k], tx[r]) /\ Follows(ops[k], ops[k]) /\ Fate(k) = tx[r]
  BY <1>0, OwnedRow, FollowsItself DEF Present
<1>2. Continues(r, [run[r] EXCEPT !.pc = "ended"])
  BY <1>0, CallGoesOn
<1>3. CASE SettleWrite(r, ops[k], run[r]) /\ UNCHANGED <<rec, tx, lease, spent, crashes>>
  BY <1>0, <1>1, <1>2, <1>3, SettleWriteKeeps
<1>4. CASE /\ CanRecordSubmissionAttempt(ops[k])
           /\ SetRow(k, Advance(ops[k], "SUBMISSION_ATTEMPTED"))
           /\ run' = [run EXCEPT ![r].attempted = TRUE, ![r].pc = "sending"]
           /\ tx' = [tx EXCEPT ![r] = "sent"]
           /\ spent' = [spent EXCEPT ![k] = @ \cup {"REGISTRY"}]
           /\ UNCHANGED <<rec, lease, crashes>>
  <2>. DEFINE n == Advance(ops[k], "SUBMISSION_ATTEMPTED")
  <2>1. Sound(n, "sent") /\ Follows(ops[k], n)
    BY <1>1, <1>4, AttemptKeeps
  <2>2. n.phase = "SUBMISSION_ATTEMPTED" /\ n.identity = ops[k].identity /\ n.owner = r
    BY <1>1 DEF Advance, Sound, Operation
  <2>3. ops[k].phase \in PreSend /\ tx[r] = "none"
    BY <1>0, <1>1, <1>4 DEF CanRecordSubmissionAttempt, PreSend, RunOK, BeforeSend
  <2>. HIDE DEF n
  <2>4. /\ ops' \in [IdempotencyKeys -> Operation]
        /\ ops'[k] = n /\ \A j \in IdempotencyKeys \ {k} : ops'[j] = ops[j]
    BY <1>0, <1>1, <1>4, <2>1 DEF SetRow, n, Sound
  <2>5. /\ run' \in [Runs -> RunState]
        /\ run'[r] = [run[r] EXCEPT !.attempted = TRUE, !.pc = "sending"]
        /\ \A q \in Runs \ {r} : run'[q] = run[q]
    BY <1>0, <1>4 DEF RunState, RunPcs
  <2>6. /\ tx' \in [Runs -> {"none", "sent", "mined", "reverted", "dropped"}]
        /\ tx'[r] = "sent" /\ \A q \in Runs \ {r} : tx'[q] = tx[q]
    BY <1>0, <1>4
  <2>7. spent' \in [IdempotencyKeys -> SUBSET PaidStages]
    BY <1>0, <1>1, <1>4 DEF PaidStages
  <2>8. SameRequests /\ RowsFollow
    <3>1. \A j \in IdempotencyKeys : Present(j) => Follows(ops[j], ops[j])
      BY SoundRow, FollowsItself
    <3>. QED
      BY <1>1, <2>1, <2>4, <3>1 DEF SameRequests, RowsFollow, Follows, SameDigest
  <2>9. \A j \in IdempotencyKeys \ {k} : Present(j) => ops[j].owner \in Runs \ {r}
    <3>. SUFFICES ASSUME NEW j \in IdempotencyKeys \ {k}, Present(j)
                  PROVE  ops[j].owner \in Runs \ {r}
      OBVIOUS
    <3>1. ops[j].owner \in Runs
      BY SoundRow
    <3>2. run[ops[j].owner].key = j
      BY DEF CeremonyInv, OwnersOK
    <3>. QED
      BY <3>1, <3>2
  <2>10. RowsOK'
    <3>. SUFFICES ASSUME NEW j \in IdempotencyKeys
                  PROVE  RowOK(ops'[j]) /\ RowTells(ops'[j], Fate(j)')
      BY DEF RowsOK
    <3>1. CASE j = k
      <4>1. Fate(j)' = "sent"
        BY <1>1, <2>2, <2>4, <2>6, <3>1 DEF Fate, CeremonyAssumption
      <4>. QED
        BY <2>1, <2>4, <3>1, <4>1 DEF Sound
    <3>2. CASE j # k
      <4>1. Fate(j)' = Fate(j)
        BY <1>0, <2>4, <2>6, <2>9, <3>2 DEF Fate, Present, RowOK
      <4>. QED
        BY <1>0, <2>4, <3>2, <4>1
    <3>. QED
      BY <3>1, <3>2
  <2>11. OwnersOK'
    <3>. SUFFICES ASSUME NEW j \in IdempotencyKeys, Present(j)'
                  PROVE  LET v == run'[ops'[j].owner]
                         IN  v.key = j /\ SameDigest(ops'[j], v) /\ v.pc \notin {"idle", "checking"}
      BY DEF OwnersOK
    <3>1. LET v == run[ops[j].owner]
          IN  v.key = j /\ SameDigest(ops[j], v) /\ v.pc \notin {"idle", "checking"}
      BY <2>8 DEF SameRequests, Present, OwnersOK, CeremonyInv
    <3>2. ops[j].owner \in Runs /\ ops'[j].owner = ops[j].owner /\ SameDigest(ops'[j], ops[j])
      BY <2>8, SoundRow DEF SameRequests, Present
    <3>3. run'[ops[j].owner].key = run[ops[j].owner].key
          /\ SameDigest(run'[ops[j].owner], run[ops[j].owner])
          /\ (run'[ops[j].owner].pc = run[ops[j].owner].pc \/ run'[ops[j].owner].pc = "sending")
      BY ZenonT(60), <1>0, <2>5, <3>2 DEF RunState, SameDigest
    <3>. QED
      BY <3>1, <3>2, <3>3 DEF SameDigest
  <2>12. \A q \in Runs : RunOK(q)'
    <3>1. run'[r].key = k /\ run'[r].pc = "sending" /\ run'[r].attempted
          /\ ~run'[r].finalized /\ ~run'[r].reverted /\ run'[r].prior < MaxVersion
      BY <1>0, <2>3, <2>5 DEF RunState, RunOK
    <3>2. RunOK(r)'
      BY <1>1, <2>2, <2>4, <2>6, <3>1 DEF RunOK, BeforeSend, AfterSend, CeremonyAssumption, Present
    <3>3. ASSUME NEW q \in Runs \ {r}
          PROVE  RunOK(q)'
      <4>1. run[q].key \in IdempotencyKeys \cup {None}
        BY <1>0 DEF RunState
      <4>. QED
        BY <1>0, <2>5, <2>6, <2>8, <4>1 DEF RunOK, SameRequests
    <3>. QED
      BY <3>2, <3>3
  <2>13. rec' = rec /\ \A c \in Recoverers : RecOK(c)'
    BY <1>0, <1>4, <2>3, <2>6, <2>8 DEF RecOK, RecState, SameRequests, Present
  <2>14. OneWriter'
    <3>1. \A j \in IdempotencyKeys : Active(j)' => Active(j) /\ ops'[j].identity = ops[j].identity
      BY <2>2, <2>3, <2>4 DEF Active, PreSend
    <3>. QED
      BY <3>1 DEF CeremonyInv, OneWriter
  <2>15. Sends
    <3>1. /\ ops[k].phase \in PreSend /\ ops[k].owner = r /\ tx[r] = "none"
          /\ tx' = [tx EXCEPT ![r] = "sent"]
          /\ ops'[k].phase = "SUBMISSION_ATTEMPTED"
          /\ ops'[k].owner = r /\ ops'[k].identity = ops[k].identity
          /\ \A j \in IdempotencyKeys \ {k} : ops'[j] = ops[j]
      BY <1>1, <1>4, <2>2, <2>3, <2>4
    <3>. QED
      BY <1>1, <3>1, Zenon DEF Sends
  <2>. QED
    BY <1>0, <1>4, <2>4, <2>5, <2>6, <2>7, <2>8, <2>10, <2>11, <2>12, <2>13, <2>14, <2>15
       DEF Kept, Change, CeremonyInv, CeremonyTypeOK
<1>. QED
  BY <1>3, <1>4 DEF Preflight, PreflightFails

LEMMA WriteKeeps ==
  ASSUME CeremonyAssumption, CeremonyInv, NEW r \in Runs,
         \/ SendReturns(r) \/ SendFails(r)
         \/ ReceiptSucceeds(r) \/ ReceiptReverts(r) \/ ReceiptTimesOut(r)
         \/ ReadBack(r) \/ ReadBackFails(r)
  PROVE  Kept
<1>. PICK k : k = run[r].key
  OBVIOUS
<1>0. /\ Working(r) /\ run[r].pc \in AfterSend /\ run[r] \in RunState /\ RunOK(r)
      /\ run \in [Runs -> RunState]
      /\ spent' \in [IdempotencyKeys -> SUBSET PaidStages]
      /\ UNCHANGED <<rec, tx, lease, spent, crashes>>
  BY DEF SendReturns, SendFails, ReceiptSucceeds, ReceiptReverts, ReceiptTimesOut, ReadBack,
         ReadBackFails, At, Working, AfterSend, CeremonyInv, CeremonyTypeOK
<1>. DEFINE o == ops[k]
<1>1. /\ k \in IdempotencyKeys /\ o.owner = r /\ o.phase # "ABSENT"
      /\ Sound(o, tx[r]) /\ Follows(o, o)
  BY <1>0, OwnedRow, FollowsItself DEF Present
<1>2. run[r].attempted
  BY <1>0 DEF RunOK
<1>. HIDE DEF o
\* The write state as it is, or with what this step learns.
<1>3. ASSUME NEW w \in RunState, w.key = run[r].key, SameDigest(w, run[r]), w.attempted,
             w.finalized => tx[r] = "mined", w.reverted => tx[r] = "reverted"
      PROVE  /\ Continues(r, [w EXCEPT !.pc = "ended"])
             /\ \A p \in AfterSend : Continues(r, [w EXCEPT !.pc = p])
  BY ZenonT(60), <1>2, <1>3 DEF Continues, RunState, RunPcs, BeforeSend, AfterSend, SameDigest
<1>4. /\ Continues(r, [run[r] EXCEPT !.pc = "ended"])
      /\ \A p \in AfterSend : Continues(r, [run[r] EXCEPT !.pc = p])
  BY <1>0, <1>2, <1>3 DEF RunOK, SameDigest
<1>5. ASSUME NEW n, Sound(n, tx[r]), Follows(o, n), SettleWrite(r, n, run[r])
      PROVE  Kept
  BY <1>0, <1>1, <1>4, <1>5, SettleWriteKeeps DEF o
<1>6. CASE SendReturns(r)
  <2>. DEFINE w == [run[r] EXCEPT !.hashKnown = TRUE]
  <2>1. w \in RunState /\ w.key = run[r].key /\ SameDigest(w, run[r]) /\ w.attempted
        /\ (w.finalized => tx[r] = "mined") /\ (w.reverted => tx[r] = "reverted")
    BY <1>0, <1>2 DEF RunState, RunOK, SameDigest
  <2>. HIDE DEF w
  <2>2. Continues(r, [w EXCEPT !.pc = "ended"]) /\ Continues(r, [w EXCEPT !.pc = "waiting"])
    BY <1>3, <2>1 DEF AfterSend
  <2>3. CASE CanRecordTransactionHash(o) /\ SetRow(k, RecordTransactionHash(o, r))
             /\ run' = [run EXCEPT ![r] = [w EXCEPT !.pc = "waiting"]]
    <3>1. Sound(RecordTransactionHash(o, r), tx[r]) /\ Follows(o, RecordTransactionHash(o, r))
      BY <1>1, <2>3, HashKeeps
    <3>. QED
      BY <1>0, <2>2, <2>3, <3>1, RunnerKeeps DEF o
  <2>4. CASE SettleWrite(r, o, w)
    BY <1>0, <1>1, <2>1, <2>2, <2>4, SettleWriteKeeps DEF o
  <2>. QED
    BY <1>6, <2>3, <2>4 DEF SendReturns, o, w
<1>7. CASE SendFails(r) \/ ReceiptTimesOut(r)
  BY <1>1, <1>5, <1>7 DEF SendFails, ReceiptTimesOut, o
<1>8. CASE ReceiptReverts(r)
  <2>. DEFINE w == [run[r] EXCEPT !.reverted = TRUE]
  <2>1. w \in RunState /\ w.key = run[r].key /\ SameDigest(w, run[r]) /\ w.attempted
        /\ (w.finalized => tx[r] = "mined") /\ (w.reverted => tx[r] = "reverted")
    BY <1>0, <1>2, <1>8 DEF RunState, RunOK, SameDigest, ReceiptReverts
  <2>2. SettleWrite(r, o, w)
    BY <1>8 DEF ReceiptReverts, o
  <2>. HIDE DEF w
  <2>3. Continues(r, [w EXCEPT !.pc = "ended"])
    BY <1>3, <2>1
  <2>. QED
    BY <1>0, <1>1, <2>1, <2>2, <2>3, SettleWriteKeeps DEF o
<1>9. CASE ReceiptSucceeds(r)
  <2>. DEFINE w == [run[r] EXCEPT !.finalized = TRUE]
              f == RecordFinalized(o, r)
              n == ReconcileCost(f, "REGISTRY", "CONSUMED")
  <2>0. tx[r] = "mined"
    BY <1>9 DEF ReceiptSucceeds
  <2>1. w \in RunState /\ w.key = run[r].key /\ SameDigest(w, run[r]) /\ w.attempted
        /\ (w.finalized => tx[r] = "mined") /\ (w.reverted => tx[r] = "reverted")
    BY <1>0, <1>2, <2>0 DEF RunState, RunOK, SameDigest
  <2>2. \/ SettleWrite(r, o, w)
        \/ CanRecordFinalized(o, r) /\ Settle(r, f, w)
        \/ /\ CanRecordFinalized(o, r) /\ SetRow(k, n)
           /\ run' = [run EXCEPT ![r] = [w EXCEPT !.pc = "readback"]]
    BY <1>9 DEF ReceiptSucceeds, o
  <2>. HIDE DEF w
  <2>3. Continues(r, [w EXCEPT !.pc = "ended"]) /\ Continues(r, [w EXCEPT !.pc = "readback"])
    BY <1>3, <2>1 DEF AfterSend
  <2>4. CanRecordFinalized(o, r) => Sound(f, tx[r]) /\ Follows(o, f)
    BY <1>1, <2>0, FinalizedKeeps
  <2>5. CASE SettleWrite(r, o, w)
    BY <1>0, <1>1, <2>1, <2>3, <2>5, SettleWriteKeeps DEF o
  <2>6. CASE CanRecordFinalized(o, r) /\ Settle(r, f, w)
    BY <1>0, <2>1, <2>3, <2>4, <2>6, SettleKeeps DEF o
  <2>7. CASE CanRecordFinalized(o, r) /\ SetRow(k, n)
             /\ run' = [run EXCEPT ![r] = [w EXCEPT !.pc = "readback"]]
    <3>. HIDE DEF f
    <3>1. Sound(n, tx[r]) /\ Follows(f, n)
      BY <2>4, <2>7, ReconcileKeeps DEF PaidStages, Dispositions
    <3>2. Follows(o, n)
      BY <1>1, <2>4, <2>7, <3>1, FollowsOn
    <3>. HIDE DEF n
    <3>. QED
      BY <1>0, <2>3, <2>7, <3>1, <3>2, RunnerKeeps DEF o
  <2>. QED
    BY <2>2, <2>5, <2>6, <2>7
<1>10. CASE ReadBack(r) \/ ReadBackFails(r)
  <2>1. CASE Settle(r, o, run[r])
    BY <1>0, <1>1, <1>4, <2>1, SettleKeeps DEF o
  <2>2. CASE SetRow(k, Complete(o, "SEALED", r)) /\ Goto(r, "ended")
    <3>1. Sound(Complete(o, "SEALED", r), tx[r]) /\ Follows(o, Complete(o, "SEALED", r))
      BY <1>1, CompleteKeeps DEF Definite
    <3>2. run' = [run EXCEPT ![r] = [run[r] EXCEPT !.pc = "ended"]]
      BY <2>2 DEF Goto
    <3>. QED
      BY <1>0, <1>4, <2>2, <3>1, <3>2, RunnerKeeps DEF o
  <2>. QED
    BY <1>10, <2>1, <2>2 DEF ReadBack, ReadBackFails, o
<1>. QED
  BY <1>6, <1>7, <1>8, <1>9, <1>10

\* One row moves on and no runner does.
LEMMA RowKeeps ==
  ASSUME CeremonyAssumption, CeremonyInv, NEW k \in IdempotencyKeys, Present(k),
         NEW n, Sound(n, Fate(k)), Follows(ops[k], n), SetRow(k, n), run' = run, tx' = tx
  PROVE  /\ ops' \in [IdempotencyKeys -> Operation]
         /\ RowsOK' /\ OneWriter' /\ OwnersOK' /\ SameRequests /\ RowsFollow /\ Change
         /\ \A q \in Runs : RunOK(q)'
<1>1. /\ ops' \in [IdempotencyKeys -> Operation]
      /\ RowsOK' /\ OneWriter' /\ SameRequests /\ RowsFollow
  BY RowsStep DEF SetRow
<1>2. /\ run \in [Runs -> RunState] /\ OwnersOK /\ \A q \in Runs : RunOK(q)
  BY DEF CeremonyInv, CeremonyTypeOK
<1>3. OwnersOK'
  BY <1>1, <1>2 DEF OwnersOK, SameRequests, SameDigest, Present
<1>4. \A q \in Runs : RunOK(q)'
  <2>1. \A q \in Runs : run[q].key \in IdempotencyKeys \cup {None}
    BY <1>2 DEF RunState
  <2>. QED
    BY <1>1, <1>2, <2>1 DEF RunOK, SameRequests
<1>5. ChangesOne
  BY DEF ChangesOne, SetRow, CeremonyInv, CeremonyTypeOK
<1>. QED
  BY <1>1, <1>3, <1>4, <1>5 DEF Change

\* No row moves, no runner, no transaction.
LEMMA NoRowKeeps ==
  ASSUME CeremonyAssumption, CeremonyInv, ops' = ops, run' = run, tx' = tx
  PROVE  /\ ops' \in [IdempotencyKeys -> Operation]
         /\ RowsOK' /\ OneWriter' /\ OwnersOK' /\ SameRequests /\ RowsFollow /\ Change
         /\ \A q \in Runs : RunOK(q)'
<1>1. \A j \in IdempotencyKeys : Present(j) => Follows(ops[j], ops[j])
  BY SoundRow, FollowsItself
<1>. QED
  BY <1>1 DEF CeremonyInv, CeremonyTypeOK, RowsOK, Fate, OneWriter, Active, OwnersOK, Present,
     SameRequests, SameDigest, RowsFollow, Change, ChangesNone, RunOK

\* One call of recover changes.
LEMMA RecChanges ==
  ASSUME CeremonyInv, SameRequests, tx' = tx, NEW c \in Recoverers, NEW call \in RecState,
         rec' = [rec EXCEPT ![c] = call],
         call.pc # "idle" => call.key # None /\ Present(call.key),
         call.pc = "reading" => call.hash = ops[call.key].owner /\ tx[call.hash] = "mined"
  PROVE  rec' \in [Recoverers -> RecState] /\ \A d \in Recoverers : RecOK(d)'
<1>1. /\ rec \in [Recoverers -> RecState]
      /\ \A d \in Recoverers : RecOK(d)
  BY DEF CeremonyInv, CeremonyTypeOK
<1>2. rec' \in [Recoverers -> RecState] /\ rec'[c] = call
      /\ \A d \in Recoverers \ {c} : rec'[d] = rec[d]
  BY <1>1
<1>. QED
  BY <1>1, <1>2 DEF RecOK, RecState, SameRequests, Present

\* The only transaction that inspect can decide an operation by is its own.
LEMMA InspectedIsOwn ==
  ASSUME CeremonyAssumption, CeremonyInv, NEW c \in Recoverers, NEW h \in Runs,
         NEW status \in {"mined", "reverted"}, Inspected(c, h, status)
  PROVE  LET k == rec[c].key
         IN  /\ rec[c] \in RecState /\ k \in IdempotencyKeys /\ Present(k)
             /\ ops[k].owner = h /\ Sound(ops[k], status) /\ Fate(k) = status
<1>1. rec[c] \in RecState /\ RecOK(c) /\ run[h] \in RunState /\ RunOK(h)
  BY DEF CeremonyInv, CeremonyTypeOK
<1>2. rec[c].key \in IdempotencyKeys /\ Present(rec[c].key)
  BY <1>1 DEF RecOK, RecState, Inspected
<1>3. run[h].key = rec[c].key /\ tx[h] = status
  BY DEF Inspected, ExactCalldata
<1>4. ops[rec[c].key].owner = h
  BY <1>1, <1>3 DEF RunOK
<1>. QED
  BY <1>1, <1>2, <1>3, <1>4, SoundRow

LEMMA RecoveryKeeps ==
  ASSUME CeremonyAssumption, CeremonyInv, NEW c \in Recoverers, RecoveryStep(c)
  PROVE  Kept
<1>. PICK k : k = rec[c].key
  OBVIOUS
<1>0. /\ run' = run /\ tx' = tx /\ lease' = lease /\ spent' = spent /\ crashes' = crashes
      /\ rec[c] \in RecState /\ RecOK(c) /\ rec \in [Recoverers -> RecState]
  BY DEF RecoveryStep, RecoverUnknown, RecoverReadBack, RecoverAborted, RecoverReverted,
         RecoverFinalized, CeremonyInv, CeremonyTypeOK
<1>1. IdleRec \in RecState /\ IdleRec.pc = "idle"
  BY DEF IdleRec, RecState
<1>2. ASSUME UNCHANGED ops, EndRecovery(c)
      PROVE  Kept
  <2>1. /\ ops' \in [IdempotencyKeys -> Operation]
        /\ RowsOK' /\ OneWriter' /\ OwnersOK' /\ SameRequests /\ RowsFollow /\ Change
        /\ \A q \in Runs : RunOK(q)'
    BY <1>0, <1>2, NoRowKeeps
  <2>2. rec' \in [Recoverers -> RecState] /\ \A d \in Recoverers : RecOK(d)'
    BY <1>0, <1>1, <1>2, <2>1, RecChanges DEF EndRecovery
  <2>. QED
    BY <1>0, <2>1, <2>2 DEF Kept, CeremonyInv, CeremonyTypeOK
<1>3. ASSUME k \in IdempotencyKeys, Present(k), NEW n, Sound(n, Fate(k)), Follows(ops[k], n),
             SetRow(k, n), NEW call \in RecState, rec' = [rec EXCEPT ![c] = call],
             call.pc # "idle" => call.key = k,
             call.pc = "reading" => call.hash = ops[k].owner /\ tx[call.hash] = "mined"
      PROVE  Kept
  <2>1. /\ ops' \in [IdempotencyKeys -> Operation]
        /\ RowsOK' /\ OneWriter' /\ OwnersOK' /\ SameRequests /\ RowsFollow /\ Change
        /\ \A q \in Runs : RunOK(q)'
    BY <1>0, <1>3, RowKeeps
  <2>2. rec' \in [Recoverers -> RecState] /\ \A d \in Recoverers : RecOK(d)'
    BY <1>0, <1>3, <2>1, RecChanges DEF CeremonyAssumption
  <2>. QED
    BY <1>0, <2>1, <2>2 DEF Kept, CeremonyInv, CeremonyTypeOK
<1>4. CASE RecoverUnknown(c) \/ RecoverAborted(c)
  BY <1>2, <1>4 DEF RecoverUnknown, RecoverAborted
<1>5. ASSUME NEW h \in Runs, RecoverReverted(c, h)
      PROVE  Kept
  <2>. DEFINE o == WithHash(c, ops[k], h)
              p == ReconcileRecoveryCosts(o, "CONSUMED")
              n == Complete(p, "REVERTED", h)
  <2>1. /\ k \in IdempotencyKeys /\ Present(k) /\ ops[k].owner = h
        /\ Sound(ops[k], "reverted") /\ Fate(k) = "reverted"
    BY <1>5, InspectedIsOwn DEF RecoverReverted
  <2>2. CASE HashRecordable(c, ops[k]) /\ SetRow(k, n) /\ EndRecovery(c)
    <3>1. Sound(o, "reverted") /\ Follows(ops[k], o)
      BY <2>1, <2>2, HashKeeps, FollowsItself DEF WithHash, HashRecordable
    <3>. HIDE DEF o
    <3>2. Sound(p, "reverted") /\ Follows(o, p)
      BY <3>1, ReconcileRecoveryKeeps DEF Dispositions
    <3>. HIDE DEF p
    <3>3. p.owner = h
      BY <2>1, <3>1, <3>2 DEF Follows
    <3>4. Sound(n, "reverted") /\ Follows(p, n)
      BY <3>2, <3>3, CompleteKeeps DEF Definite
    <3>. HIDE DEF n
    <3>5. Follows(ops[k], n)
      BY <2>1, <3>1, <3>2, <3>4, FollowsOn DEF Present, Sound
    <3>. QED
      BY <1>1, <1>3, <2>1, <2>2, <3>4, <3>5 DEF EndRecovery
  <2>3. CASE UNCHANGED ops /\ EndRecovery(c)
    BY <1>2, <2>3
  <2>. QED
    BY <1>5, <2>2, <2>3 DEF RecoverReverted
<1>6. ASSUME NEW h \in Runs, RecoverFinalized(c, h)
      PROVE  Kept
  <2>. DEFINE o == WithHash(c, ops[k], h)
              p == IF rec[c].phase = "FINALIZED" THEN o ELSE RecordFinalized(o, h)
              n == ReconcileRecoveryCosts(p, "CONSUMED")
              call == [rec[c] EXCEPT !.pc = "reading", !.hash = h]
  <2>1. /\ k \in IdempotencyKeys /\ Present(k) /\ ops[k].owner = h
        /\ Sound(ops[k], "mined") /\ Fate(k) = "mined"
    BY <1>6, InspectedIsOwn DEF RecoverFinalized
  <2>2. CASE /\ HashRecordable(c, ops[k])
             /\ rec[c].phase = "FINALIZED" \/ CanRecordFinalized(o, h)
             /\ SetRow(k, n) /\ rec' = [rec EXCEPT ![c].pc = "reading", ![c].hash = h]
    <3>1. Sound(o, "mined") /\ Follows(ops[k], o)
      BY <2>1, <2>2, HashKeeps, FollowsItself DEF WithHash, HashRecordable
    <3>2. o.owner = h
      BY <2>1, <3>1 DEF Follows
    <3>. HIDE DEF o
    <3>3. Sound(p, "mined") /\ Follows(o, p)
      BY <2>2, <3>1, <3>2, FinalizedKeeps, FollowsItself
    <3>. HIDE DEF p
    <3>4. Sound(n, "mined") /\ Follows(p, n)
      BY <3>3, ReconcileRecoveryKeeps DEF Dispositions
    <3>. HIDE DEF n
    <3>5. Follows(ops[k], n)
      BY <2>1, <3>1, <3>3, <3>4, FollowsOn DEF Present, Sound
    <3>6. call \in RecState /\ call.pc = "reading" /\ call.key = k /\ call.hash = h
      BY <1>0 DEF RecState
    <3>7. rec' = [rec EXCEPT ![c] = call]
      BY <1>0, <2>2
    <3>8. tx[h] = "mined"
      BY <1>6 DEF RecoverFinalized, Inspected
    <3>. HIDE DEF call
    <3>. QED
      BY <1>3, <2>1, <2>2, <3>4, <3>5, <3>6, <3>7, <3>8
  <2>3. CASE UNCHANGED ops /\ EndRecovery(c)
    BY <1>2, <2>3
  <2>. QED
    BY <1>6, <2>2, <2>3 DEF RecoverFinalized
<1>7. CASE RecoverReadBack(c)
  <2>1. /\ k \in IdempotencyKeys /\ Present(k) /\ rec[c].hash = ops[k].owner
        /\ tx[ops[k].owner] = "mined"
    BY <1>0, <1>7 DEF RecoverReadBack, RecOK, RecState
  <2>2. Sound(ops[k], "mined") /\ Fate(k) = "mined" /\ ops[k].owner \in Runs
    BY <2>1, SoundRow
  <2>3. \A status \in {"SEALED", "FINALIZED_READBACK_UNAVAILABLE"} :
          LET n == Complete(ops[k], status, rec[c].hash)
          IN  Sound(n, "mined") /\ Follows(ops[k], n)
    BY <2>1, <2>2, CompleteKeeps DEF Definite, Uncertain
  <2>4. /\ EndRecovery(c)
        /\ \/ SetRow(k, Complete(ops[k], "SEALED", rec[c].hash))
           \/ SetRow(k, Complete(ops[k], "FINALIZED_READBACK_UNAVAILABLE", rec[c].hash))
    BY <1>7 DEF RecoverReadBack
  <2>. QED
    BY <1>1, <1>3, <2>1, <2>2, <2>3, <2>4 DEF EndRecovery
<1>. QED
  BY <1>4, <1>5, <1>6, <1>7 DEF RecoveryStep

\* A new call is nobody's owner, so nothing depends on what it was.
LEMMA SubmitKeeps ==
  ASSUME CeremonyAssumption, CeremonyInv, NEW r \in Runs, NEW request \in Requests,
         Submit(r, request)
  PROVE  Kept
<1>0. /\ run \in [Runs -> RunState] /\ run[r].pc = "idle" /\ \A q \in Runs : RunOK(q)
      /\ UNCHANGED <<ops, rec, tx, lease, spent, crashes>>
  BY DEF Submit, At, CeremonyInv, CeremonyTypeOK
<1>1. /\ request.key \in IdempotencyKeys /\ request.identity \in Identities
      /\ request.prior \in 0..MaxVersion /\ request.prior < MaxVersion
      /\ request.key # None /\ request.identity # None
  BY DEF CeremonyAssumption
<1>. DEFINE w == [IdleRun EXCEPT !.pc = IF Present(request.key) THEN "ended" ELSE "checking",
                                 !.key = request.key, !.identity = request.identity,
                                 !.prior = request.prior]
<1>2. /\ w \in RunState /\ w.pc \in {"ended", "checking"} /\ w.key = request.key
      /\ w.identity = request.identity /\ w.prior = request.prior
      /\ ~w.attempted /\ ~w.finalized /\ ~w.reverted /\ ~w.hashKnown
  BY <1>1 DEF IdleRun, RunState, RunPcs, CeremonyAssumption
<1>. HIDE DEF w
<1>3. /\ run' \in [Runs -> RunState] /\ run'[r] = w
      /\ \A q \in Runs \ {r} : run'[q] = run[q]
  BY <1>0, <1>2 DEF Submit, w
<1>4. tx[r] = "none"
  BY <1>0 DEF RunOK, RunState, BeforeSend
<1>5. \A j \in IdempotencyKeys : Present(j) => ops[j].owner \in Runs \ {r}
  BY <1>0, SoundRow DEF CeremonyInv, OwnersOK
<1>6. OwnersOK'
  BY <1>0, <1>3, <1>5 DEF OwnersOK, CeremonyInv, Present
<1>7. \A q \in Runs : RunOK(q)'
  BY <1>0, <1>1, <1>2, <1>3, <1>4 DEF RunOK, RunState, BeforeSend, AfterSend
<1>8. RowsOK' /\ OneWriter' /\ RowsFollow /\ Change /\ \A c \in Recoverers : RecOK(c)'
  <2>1. \A j \in IdempotencyKeys : Present(j) => Follows(ops[j], ops[j])
    BY SoundRow, FollowsItself
  <2>. QED
    BY <1>0, <2>1 DEF RowsOK, Fate, OneWriter, Active, RowsFollow, RecOK, Present, CeremonyInv,
       Change, ChangesNone
<1>. QED
  BY <1>0, <1>3, <1>6, <1>7, <1>8 DEF Kept, CeremonyInv, CeremonyTypeOK

LEMMA RequestKeeps ==
  ASSUME CeremonyAssumption, CeremonyInv,
         \/ \E c \in Recoverers, k \in IdempotencyKeys, h \in Runs \cup {None} :
              RecoverWrite(c, k, h)
         \/ \E k \in IdempotencyKeys : RecoverPreSend(k) \/ GoesStale(k)
  PROVE  Kept
<1>1. ASSUME NEW c \in Recoverers, NEW k \in IdempotencyKeys, NEW h \in Runs \cup {None},
             RecoverWrite(c, k, h)
      PROVE  Kept
  <2>. DEFINE call == [pc |-> "inspecting", key |-> k, phase |-> ops[k].phase,
                       hash |-> IF h # None THEN h ELSE KnownHash(ops[k])]
  <2>1. /\ UNCHANGED <<ops, run, tx, lease, spent, crashes>>
        /\ rec' = [rec EXCEPT ![c] = call] /\ Present(k)
    BY <1>1 DEF RecoverWrite, Active, Present
  <2>2. ops[k] \in Operation
    BY DEF CeremonyInv, CeremonyTypeOK
  <2>3. call \in RecState /\ call.pc = "inspecting" /\ call.key = k
    BY <2>2 DEF RecState, Operation, KnownHash
  <2>. HIDE DEF call
  <2>4. /\ ops' \in [IdempotencyKeys -> Operation]
        /\ RowsOK' /\ OneWriter' /\ OwnersOK' /\ SameRequests /\ RowsFollow /\ Change
        /\ \A q \in Runs : RunOK(q)'
    BY <2>1, NoRowKeeps
  <2>5. rec' \in [Recoverers -> RecState] /\ \A d \in Recoverers : RecOK(d)'
    BY <2>1, <2>3, <2>4, RecChanges DEF CeremonyAssumption
  <2>. QED
    BY <2>1, <2>4, <2>5 DEF Kept, CeremonyInv, CeremonyTypeOK
<1>2. ASSUME NEW k \in IdempotencyKeys, Present(k), NEW n, Sound(n, Fate(k)), Follows(ops[k], n),
             SetRow(k, n), UNCHANGED <<run, rec, tx, lease, spent, crashes>>
      PROVE  Kept
  <2>1. /\ ops' \in [IdempotencyKeys -> Operation]
        /\ RowsOK' /\ OneWriter' /\ OwnersOK' /\ SameRequests /\ RowsFollow /\ Change
        /\ \A q \in Runs : RunOK(q)'
    BY <1>2, RowKeeps
  <2>2. rec' \in [Recoverers -> RecState] /\ \A d \in Recoverers : RecOK(d)'
    BY <1>2, <2>1, RecsStep
  <2>. QED
    BY <1>2, <2>1, <2>2 DEF Kept, CeremonyInv, CeremonyTypeOK
<1>3. ASSUME NEW k \in IdempotencyKeys, RecoverPreSend(k)
      PROVE  Kept
  <2>. DEFINE p == ReconcileRecoveryCosts(ops[k], "RELEASED")
              n == Complete(p, "NOT_BROADCAST", None)
  <2>1. Present(k) /\ Sound(ops[k], Fate(k)) /\ ops[k].owner \in Runs
    BY <1>3, SoundRow DEF RecoverPreSend, PreSend, Present
  <2>2. Sound(p, Fate(k)) /\ Follows(ops[k], p)
    BY <2>1, ReconcileRecoveryKeeps DEF Dispositions
  <2>3. p.owner \in Runs
    BY <2>1, <2>2 DEF Follows
  <2>. HIDE DEF p
  <2>4. Sound(n, Fate(k)) /\ Follows(p, n)
    BY <2>2, <2>3, CompleteKeeps DEF Definite
  <2>5. SetRow(k, n) /\ UNCHANGED <<run, rec, tx, lease, spent, crashes>>
    BY <1>3 DEF RecoverPreSend, p
  <2>. HIDE DEF n
  <2>6. Follows(ops[k], n)
    BY <2>1, <2>2, <2>4, FollowsOn DEF Present
  <2>. QED
    BY <1>2, <2>1, <2>4, <2>5, <2>6
<1>4. ASSUME NEW k \in IdempotencyKeys, GoesStale(k)
      PROVE  Kept
  <2>. DEFINE n == [ops[k] EXCEPT !.fresh = FALSE]
  <2>1. Present(k) /\ Sound(ops[k], Fate(k))
    BY <1>4, SoundRow DEF GoesStale, PreSend, Present
  <2>2. /\ n \in Operation /\ n.phase = ops[k].phase /\ n.owner = ops[k].owner
        /\ n.outcome = ops[k].outcome /\ n.identity = ops[k].identity
        /\ n.prior = ops[k].prior /\ n.transactionHash = ops[k].transactionHash
        /\ n.outcomeHash = ops[k].outcomeHash
    BY <2>1 DEF Sound, Operation
  <2>3. SetRow(k, n) /\ UNCHANGED <<run, rec, tx, lease, spent, crashes>>
    BY <1>4 DEF GoesStale
  <2>. HIDE DEF n
  <2>4. Sound(n, Fate(k)) /\ Follows(ops[k], n)
    BY <2>1, <2>2 DEF Sound, Follows, SameDigest, RowOK, RowTells, KnownHash
  <2>. QED
    BY <1>2, <2>1, <2>3, <2>4
<1>. QED
  BY <1>1, <1>3, <1>4

LEMMA KillKeeps ==
  ASSUME CeremonyAssumption, CeremonyInv,
         Crash \/ \E k \in IdempotencyKeys : CrashInRecovery(k)
  PROVE  Kept
<1>0. /\ run \in [Runs -> RunState] /\ ops \in [IdempotencyKeys -> Operation]
      /\ OwnersOK /\ \A q \in Runs : RunOK(q)
      /\ crashes \in 0..MaxCrashes /\ Killed /\ tx' = tx
  BY DEF CeremonyInv, CeremonyTypeOK, Crash, CrashInRecovery, Killed
<1>1. /\ ops' \in [IdempotencyKeys -> Operation]
      /\ RowsOK' /\ OneWriter' /\ SameRequests /\ RowsFollow /\ Change
  <2>1. CASE UNCHANGED ops
    <3>1. \A j \in IdempotencyKeys : Present(j) => Follows(ops[j], ops[j])
      BY SoundRow, FollowsItself
    <3>. QED
      BY <1>0, <2>1, <3>1 DEF CeremonyInv, RowsOK, Fate, OneWriter, Active, SameRequests,
         SameDigest, Present, RowsFollow, Change, ChangesNone
  <2>2. ASSUME NEW k \in IdempotencyKeys, CrashInRecovery(k)
        PROVE  /\ ops' \in [IdempotencyKeys -> Operation]
               /\ RowsOK' /\ OneWriter' /\ SameRequests /\ RowsFollow /\ Change
    <3>. DEFINE n == ReconcileRecoveryCosts(ops[k], "RELEASED")
    <3>1. Present(k) /\ Sound(ops[k], Fate(k))
      BY <2>2, SoundRow DEF CrashInRecovery, PreSend, Present
    <3>2. Sound(n, Fate(k)) /\ Follows(ops[k], n)
      BY <3>1, ReconcileRecoveryKeeps DEF Dispositions
    <3>3. ops' = [ops EXCEPT ![k] = n]
      BY <2>2 DEF CrashInRecovery, SetRow
    <3>. HIDE DEF n
    <3>4. ChangesOne
      BY <1>0, <3>1, <3>3 DEF ChangesOne
    <3>. QED
      BY <1>0, <3>1, <3>2, <3>3, <3>4, RowsStep DEF Change
  <2>. QED
    BY <2>1, <2>2 DEF Crash
<1>2. /\ run' \in [Runs -> RunState]
      /\ \A q \in Runs : run'[q] = IF run[q].pc = "idle" THEN run[q]
                                   ELSE [run[q] EXCEPT !.pc = "ended"]
  BY <1>0 DEF Killed, At, RunState, RunPcs
<1>3. \A q \in Runs : /\ run'[q].key = run[q].key /\ SameDigest(run'[q], run[q])
                      /\ run'[q].pc = "ended" \/ (run'[q] = run[q] /\ run[q].pc = "idle")
                      /\ run'[q].attempted = run[q].attempted
                      /\ run'[q].finalized = run[q].finalized
                      /\ run'[q].reverted = run[q].reverted
                      /\ run'[q].hashKnown = run[q].hashKnown
  BY <1>0, <1>2 DEF RunState, SameDigest
<1>4. OwnersOK'
  <2>. SUFFICES ASSUME NEW j \in IdempotencyKeys, Present(j)'
                PROVE  LET v == run'[ops'[j].owner]
                       IN  v.key = j /\ SameDigest(ops'[j], v) /\ v.pc \notin {"idle", "checking"}
    BY DEF OwnersOK
  <2>1. Present(j) /\ ops'[j].owner = ops[j].owner /\ SameDigest(ops'[j], ops[j])
    BY <1>1 DEF SameRequests, Present
  <2>2. ops[j].owner \in Runs
    BY <2>1, SoundRow
  <2>3. LET v == run[ops[j].owner]
        IN  v.key = j /\ SameDigest(ops[j], v) /\ v.pc \notin {"idle", "checking"}
    BY <1>0, <2>1 DEF OwnersOK
  <2>. QED
    BY <1>3, <2>1, <2>2, <2>3 DEF SameDigest
<1>5. \A q \in Runs : RunOK(q)'
  <2>1. \A q \in Runs : run[q].key \in IdempotencyKeys \cup {None}
    BY <1>0 DEF RunState
  <2>. QED
    BY <1>0, <1>1, <1>3, <2>1 DEF RunOK, SameRequests, SameDigest, BeforeSend, AfterSend
<1>6. rec' \in [Recoverers -> RecState] /\ \A c \in Recoverers : RecOK(c)'
  BY <1>0 DEF Killed, IdleRec, RecState, RecOK
<1>7. crashes' \in 0..MaxCrashes /\ lease' = lease /\ spent' = spent
  BY <1>0 DEF Killed, CeremonyAssumption
<1>. QED
  BY <1>0, <1>1, <1>2, <1>4, <1>5, <1>6, <1>7 DEF Kept, CeremonyInv, CeremonyTypeOK

LEMMA NetworkKeeps ==
  ASSUME CeremonyAssumption, CeremonyInv, NEW r \in Runs, NetworkStep(r)
  PROVE  Kept
<1>0. /\ run \in [Runs -> RunState] /\ ops \in [IdempotencyKeys -> Operation]
      /\ rec \in [Recoverers -> RecState] /\ lease \in [Identities -> Lease]
      /\ tx \in [Runs -> {"none", "sent", "mined", "reverted", "dropped"}]
      /\ \A q \in Runs : RunOK(q)
      /\ \A c \in Recoverers : RecOK(c)
      /\ \A k \in IdempotencyKeys : RowOK(ops[k]) /\ RowTells(ops[k], Fate(k))
  BY DEF CeremonyInv, CeremonyTypeOK, RowsOK
<1>1. /\ tx[r] = "sent" /\ UNCHANGED <<ops, run, rec, spent, crashes>>
      /\ \/ tx' = [tx EXCEPT ![r] = "mined"]
         \/ tx' = [tx EXCEPT ![r] = "reverted"]
         \/ tx' = [tx EXCEPT ![r] = "dropped"]
  BY DEF NetworkStep, Mine, Revert, Drop
<1>2. lease' \in [Identities -> Lease]
  <2>1. CASE UNCHANGED lease
    BY <1>0, <2>1
  <2>2. CASE Mine(r)
    <3>1. run[r].attempted /\ run[r].prior \in 0..MaxVersion /\ run[r].prior < MaxVersion
      BY <1>0, <1>1 DEF RunOK, RunState
    <3>2. run[r].prior + 1 \in 0..MaxVersion
      BY <3>1 DEF CeremonyAssumption
    <3>3. [version |-> run[r].prior + 1, state |-> "ACTIVE", by |-> r] \in Lease
      BY <3>2 DEF Lease, LeaseStates
    <3>. QED
      BY <1>0, <2>2, <3>3 DEF Mine
  <2>. QED
    BY <2>1, <2>2 DEF NetworkStep, Revert, Drop
<1>3. PICK end \in {"mined", "reverted", "dropped"} : tx' = [tx EXCEPT ![r] = end]
  BY <1>1
<1>4. /\ tx' \in [Runs -> {"none", "sent", "mined", "reverted", "dropped"}]
      /\ tx'[r] = end /\ \A q \in Runs \ {r} : tx'[q] = tx[q]
  BY <1>0, <1>3
<1>5. RowsOK'
  <2>. SUFFICES ASSUME NEW k \in IdempotencyKeys
                PROVE  RowOK(ops[k]) /\ RowTells(ops[k], Fate(k)')
    BY <1>1 DEF RowsOK
  <2>1. CASE ops[k].owner # r
    <3>1. ops[k].owner \in Runs \cup {None}
      BY <1>0 DEF Operation
    <3>2. Fate(k)' = Fate(k)
      BY <1>1, <1>4, <2>1, <3>1 DEF Fate
    <3>. QED
      BY <1>0, <3>2
  <2>2. CASE ops[k].owner = r
    <3>1. Fate(k) = "sent" /\ Fate(k)' = end
      BY <1>1, <1>4, <2>2 DEF Fate, CeremonyAssumption
    <3>. QED
      BY <1>0, <3>1 DEF RowTells, TrueOutcomes
  <2>. QED
    BY <2>1, <2>2
<1>6. \A q \in Runs : RunOK(q)'
  <2>1. ~run[r].finalized /\ ~run[r].reverted /\ run[r].attempted
    BY <1>0, <1>1 DEF RunOK, RunState
  <2>. QED
    BY <1>0, <1>1, <1>4, <2>1 DEF RunOK
<1>7. \A c \in Recoverers : RecOK(c)'
  <2>1. \A c \in Recoverers : rec[c].hash \in Runs \cup {None} /\ rec[c].key \in IdempotencyKeys \cup {None}
    BY <1>0 DEF RecState
  <2>2. \A k \in IdempotencyKeys : Present(k) => ops[k].owner \in Runs
    BY SoundRow
  <2>. QED
    BY <1>0, <1>1, <1>4, <2>1, <2>2 DEF RecOK, Present
<1>8. OwnersOK' /\ OneWriter' /\ RowsFollow
  <2>1. \A j \in IdempotencyKeys : Present(j) => Follows(ops[j], ops[j])
    BY SoundRow, FollowsItself
  <2>. QED
    BY <1>1, <2>1 DEF OwnersOK, OneWriter, Active, RowsFollow, Present, CeremonyInv
<1>9. Lands
  BY <1>1, <1>3 DEF Lands
<1>. QED
  BY <1>0, <1>1, <1>2, <1>4, <1>5, <1>6, <1>7, <1>8, <1>9
     DEF Kept, Change, CeremonyInv, CeremonyTypeOK

LEMMA LeaseKeeps ==
  ASSUME CeremonyAssumption, CeremonyInv,
         \E i \in Identities : ForeignWrite(i) \/ \E s \in LeaseStates : GuardianWithdraws(i, s)
  PROVE  Kept
<1>0. UNCHANGED <<ops, run, rec, tx, spent, crashes>>
  BY DEF ForeignWrite, GuardianWithdraws
<1>1. lease \in [Identities -> Lease]
  BY DEF CeremonyInv, CeremonyTypeOK
<1>2. lease' \in [Identities -> Lease]
  <2>1. ASSUME NEW i \in Identities, ForeignWrite(i)
        PROVE  lease' \in [Identities -> Lease]
    <3>1. lease[i].version + 1 \in 0..MaxVersion
      BY <1>1, <2>1 DEF ForeignWrite, Lease, CeremonyAssumption
    <3>2. [version |-> lease[i].version + 1, state |-> "ACTIVE", by |-> None] \in Lease
      BY <3>1 DEF Lease, LeaseStates
    <3>. QED
      BY <1>1, <2>1, <3>2 DEF ForeignWrite
  <2>2. ASSUME NEW i \in Identities, NEW s \in LeaseStates, GuardianWithdraws(i, s)
        PROVE  lease' \in [Identities -> Lease]
    BY <1>1, <2>2 DEF GuardianWithdraws, Lease
  <2>. QED
    BY <2>1, <2>2
<1>3. /\ ops' \in [IdempotencyKeys -> Operation]
      /\ RowsOK' /\ OneWriter' /\ OwnersOK' /\ SameRequests /\ RowsFollow /\ Change
      /\ \A q \in Runs : RunOK(q)'
  BY <1>0, NoRowKeeps
<1>4. rec' \in [Recoverers -> RecState] /\ \A c \in Recoverers : RecOK(c)'
  BY <1>0, <1>3, RecsStep
<1>. QED
  BY <1>0, <1>2, <1>3, <1>4 DEF Kept, CeremonyInv, CeremonyTypeOK

LEMMA StepKeeps ==
  ASSUME CeremonyAssumption, CeremonyInv, CeremonyNext
  PROVE  Kept
<1>1. ASSUME NEW r \in Runs, RunnerStep(r)
      PROVE  Kept
  BY <1>1, AdmitKeeps, PaidStagesKeep, PreflightKeeps, WriteKeeps DEF RunnerStep
<1>2. ASSUME NEW r \in Runs, NetworkStep(r)
      PROVE  Kept
  BY <1>2, NetworkKeeps
<1>3. ASSUME NEW r \in Runs, NEW request \in Requests, Submit(r, request)
      PROVE  Kept
  BY <1>3, SubmitKeeps
<1>4. ASSUME NEW c \in Recoverers, RecoveryStep(c)
      PROVE  Kept
  BY <1>4, RecoveryKeeps
<1>. QED
  BY <1>1, <1>2, <1>3, <1>4, RequestKeeps, KillKeeps, LeaseKeeps DEF CeremonyNext

LEMMA StutterKeeps ==
  ASSUME CeremonyAssumption, CeremonyInv, UNCHANGED cvars
  PROVE  Kept
<1>1. /\ ops' \in [IdempotencyKeys -> Operation]
      /\ RowsOK' /\ OneWriter' /\ OwnersOK' /\ SameRequests /\ RowsFollow /\ Change
      /\ \A q \in Runs : RunOK(q)'
  BY NoRowKeeps DEF cvars
<1>2. rec' \in [Recoverers -> RecState] /\ \A c \in Recoverers : RecOK(c)'
  BY <1>1, RecsStep DEF cvars
<1>. QED
  BY <1>1, <1>2 DEF Kept, CeremonyInv, CeremonyTypeOK, cvars

LEMMA InitInv ==
  ASSUME CeremonyAssumption, CeremonyInit
  PROVE  CeremonyInv
<1>1. /\ ops = [k \in IdempotencyKeys |-> NoOperation]
      /\ NoOperation \in Operation
      /\ NoOperation.phase = "ABSENT" /\ NoOperation.owner = None
      /\ NoOperation.transactionHash = None /\ NoOperation.outcomeHash = None
      /\ NoOperation.outcome = "none"
  BY DEF CeremonyInit, JournalInit, NoOperation, Operation, CeremonyAssumption
<1>2. /\ run = [r \in Runs |-> IdleRun] /\ IdleRun \in RunState
      /\ IdleRun.pc = "idle" /\ ~IdleRun.attempted /\ ~IdleRun.finalized /\ ~IdleRun.reverted
      /\ ~IdleRun.hashKnown /\ IdleRun.prior = 0 /\ 0 < MaxVersion
  BY DEF CeremonyInit, IdleRun, RunState, RunPcs, CeremonyAssumption
<1>3. rec = [c \in Recoverers |-> IdleRec] /\ IdleRec \in RecState /\ IdleRec.pc = "idle"
  BY DEF CeremonyInit, IdleRec, RecState
<1>4. [version |-> 0, state |-> "NONE", by |-> None] \in Lease
  BY DEF Lease, LeaseStates, CeremonyAssumption
<1>5. CeremonyTypeOK
  BY <1>1, <1>2, <1>3, <1>4 DEF CeremonyTypeOK, CeremonyInit, CeremonyAssumption
<1>6. RowsOK
  BY <1>1 DEF RowsOK, RowOK, RowTells, Fate, PreSend, Definite
<1>7. OwnersOK /\ OneWriter
  BY <1>1 DEF OwnersOK, OneWriter, Active, Present
<1>8. \A r \in Runs : RunOK(r)
  BY <1>2 DEF RunOK, CeremonyInit, BeforeSend, AfterSend
<1>9. \A c \in Recoverers : RecOK(c)
  BY <1>3 DEF RecOK
<1>. QED
  BY <1>5, <1>6, <1>7, <1>8, <1>9 DEF CeremonyInv

-----------------------------------------------------------------------------
(* The theorems.                                                           *)

\* The inductive invariant holds in every state of the ceremony.
THEOREM CeremonyInvariant == CeremonySpec => []CeremonyInv
<1>1. CeremonyInit => CeremonyInv
  BY InitInv, CeremonyAssumption
<1>2. CeremonyInv /\ [CeremonyNext]_cvars => CeremonyInv'
  BY StepKeeps, StutterKeeps, CeremonyAssumption DEF Kept
<1>. QED
  BY <1>1, <1>2, PTL DEF CeremonySpec

\* Rows, runners, recovery calls and the registry keep their types.
THEOREM CeremonyTypeCorrect == CeremonySpec => []CeremonyTypeOK
<1>1. CeremonyInv => CeremonyTypeOK
  BY DEF CeremonyInv
<1>. QED
  BY <1>1, CeremonyInvariant, PTL

\* NOT_BROADCAST is said of no transaction that left, SEALED only of a mined one,
\* REVERTED only of a reverted one.
THEOREM SettledAlwaysTrue == CeremonySpec => []SettledOutcomeIsTrue
<1>1. CeremonyInv => SettledOutcomeIsTrue
  BY DEF CeremonyInv, RowsOK, RowTells, TrueOutcomes, SettledOutcomeIsTrue
<1>. QED
  BY <1>1, CeremonyInvariant, PTL

\* While the fate of a transaction is open, its operation is live and is the only
\* live one of its identity.
THEOREM UnsettledAlwaysGuarded == CeremonySpec => []UnsettledWriteIsGuarded
<1>1. CeremonyInv => UnsettledWriteIsGuarded
  <2>. SUFFICES ASSUME CeremonyInv, NEW r \in Runs, tx[r] = "sent"
                PROVE  LET k == run[r].key
                       IN  /\ Active(k) /\ ops[k].owner = r
                           /\ \A j \in IdempotencyKeys :
                                Active(j) /\ ops[j].identity = run[r].identity => j = k
    BY DEF UnsettledWriteIsGuarded
  <2>1. PICK k : k = run[r].key
    OBVIOUS
  <2>2. run[r] \in RunState /\ RunOK(r)
    BY DEF CeremonyInv, CeremonyTypeOK
  <2>3. k \in IdempotencyKeys /\ ops[k].owner = r
    BY <2>1, <2>2 DEF RunOK, RunState
  <2>4. RowOK(ops[k]) /\ RowTells(ops[k], "sent")
    BY <2>3, CeremonyAssumption DEF CeremonyInv, RowsOK, Fate, CeremonyAssumption
  <2>5. Active(k)
    BY <2>4 DEF RowTells, TrueOutcomes, Active
  <2>6. ops[k].identity = run[r].identity
    BY <2>3, <2>5 DEF CeremonyInv, OwnersOK, Active, Present, SameDigest
  <2>. QED
    BY <2>1, <2>3, <2>5, <2>6 DEF CeremonyInv, OneWriter
<1>. QED
  BY <1>1, CeremonyInvariant, PTL

\* No row goes back: not to pre-send, not from closed, not to another hash.
THEOREM JournalRemembers == CeremonySpec => JournalNeverForgets
<1>. DEFINE Remembers ==
       \A k \in IdempotencyKeys :
         LET old == ops[k]
             new == ops'[k]
         IN  /\ Present(k) => /\ new.phase # "ABSENT"
                              /\ SameDigest(new, old) /\ new.owner = old.owner
             /\ Present(k) /\ old.phase \notin PreSend => new.phase \notin PreSend
             /\ old.phase = "TERMINAL" => new.phase = "TERMINAL" /\ new.outcome = old.outcome
             /\ KnownHash(old) # None => KnownHash(new) = KnownHash(old)
<1>1. CeremonyInv /\ [CeremonyNext]_cvars => [Remembers]_cvars
  <2>. SUFFICES ASSUME CeremonyInv, CeremonyNext, NEW k \in IdempotencyKeys
                PROVE  LET old == ops[k]
                           new == ops'[k]
                       IN  /\ Present(k) => /\ new.phase # "ABSENT"
                                            /\ SameDigest(new, old) /\ new.owner = old.owner
                           /\ Present(k) /\ old.phase \notin PreSend => new.phase \notin PreSend
                           /\ old.phase = "TERMINAL" => new.phase = "TERMINAL" /\ new.outcome = old.outcome
                           /\ KnownHash(old) # None => KnownHash(new) = KnownHash(old)
    OBVIOUS
  <2>1. Present(k) => Follows(ops[k], ops'[k])
    BY StepKeeps, CeremonyAssumption DEF Kept, RowsFollow
  <2>2. ~Present(k) => KnownHash(ops[k]) = None /\ ops[k].phase = "ABSENT"
    BY DEF Present, CeremonyInv, RowsOK, RowOK, KnownHash
  <2>. QED
    BY <2>1, <2>2 DEF Follows
<1>. QED
  BY <1>1, CeremonyInvariant, PTL DEF CeremonySpec, JournalNeverForgets

-----------------------------------------------------------------------------
(* The ceremony implements the serializer.                                 *)

ActiveFor(o, k, i) == o[k].phase \notin {"ABSENT", "TERMINAL"} /\ o[k].identity = i

HolderIn(o, i) == IF \E k \in IdempotencyKeys : ActiveFor(o, k, i)
                  THEN CHOOSE k \in IdempotencyKeys : ActiveFor(o, k, i) ELSE None

LEMMA HolderIs ==
  ASSUME NEW o, NEW i,
         \A k, j \in IdempotencyKeys : ActiveFor(o, k, i) /\ ActiveFor(o, j, i) => k = j
  PROVE  /\ \A k \in IdempotencyKeys : ActiveFor(o, k, i) => HolderIn(o, i) = k
         /\ (\A k \in IdempotencyKeys : ~ActiveFor(o, k, i)) => HolderIn(o, i) = None
BY DEF HolderIn

LEMMA HolderSame ==
  ASSUME NEW o, NEW p, NEW i,
         \A k, j \in IdempotencyKeys : ActiveFor(o, k, i) /\ ActiveFor(o, j, i) => k = j,
         \A k \in IdempotencyKeys : ActiveFor(o, k, i) <=> ActiveFor(p, k, i)
  PROVE  HolderIn(p, i) = HolderIn(o, i)
<1>1. \A k, j \in IdempotencyKeys : ActiveFor(p, k, i) /\ ActiveFor(p, j, i) => k = j
  OBVIOUS
<1>. QED
  BY <1>1, HolderIs

LEMMA StepImplements ==
  ASSUME CeremonyAssumption, CeremonyInv, Kept
  PROVE  [Writes!WritesNext]_<<Holder, Fates, ClosedWith>>
<1>0. /\ OwnersOK /\ RowsFollow
      /\ \A k \in IdempotencyKeys : /\ RowOK(ops[k]) /\ RowTells(ops[k], Fate(k))
                                    /\ ops[k] \in Operation
      /\ \A k \in IdempotencyKeys : RowOK(ops'[k]) /\ RowTells(ops'[k], Fate(k)')
      /\ \A r \in Runs : RunOK(r) /\ run[r] \in RunState
  BY DEF Kept, CeremonyInv, CeremonyTypeOK, RowsOK
<1>1. \A i : \A k, j \in IdempotencyKeys : ActiveFor(ops, k, i) /\ ActiveFor(ops, j, i) => k = j
  BY DEF CeremonyInv, OneWriter, ActiveFor, Active
<1>2. \A i : \A k, j \in IdempotencyKeys : ActiveFor(ops', k, i) /\ ActiveFor(ops', j, i) => k = j
  BY DEF Kept, CeremonyInv, OneWriter, ActiveFor, Active
<1>3. /\ Holder = [i \in Identities |-> HolderIn(ops, i)]
      /\ Holder' = [i \in Identities |-> HolderIn(ops', i)]
  BY DEF Holder, HolderIn, ActiveFor, Active
<1>4. /\ Fates = [k \in IdempotencyKeys |-> Fate(k)]
      /\ Fates' = [k \in IdempotencyKeys |-> Fate(k)']
      /\ ClosedWith = [k \in IdempotencyKeys |->
                         IF ops[k].phase = "TERMINAL" THEN ops[k].outcome ELSE "none"]
      /\ ClosedWith' = [k \in IdempotencyKeys |->
                          IF ops'[k].phase = "TERMINAL" THEN ops'[k].outcome ELSE "none"]
  BY DEF Fates, ClosedWith
<1>5. \A k \in IdempotencyKeys : Present(k) => /\ ops[k].owner \in Runs
                                               /\ ops[k].identity \in Identities
                                               /\ Fate(k) = tx[ops[k].owner]
                                               /\ run[ops[k].owner].key = k
  BY <1>0 DEF RowOK, Operation, Present, OwnersOK, Fate
\* Nobody becomes active or stops being so: nothing changes but fates.
<1>6. ASSUME \A k \in IdempotencyKeys :
               /\ ops'[k].phase = "TERMINAL" <=> ops[k].phase = "TERMINAL"
               /\ ops'[k].phase = "ABSENT" <=> ops[k].phase = "ABSENT"
               /\ ops'[k].identity = ops[k].identity
               /\ ops[k].phase = "TERMINAL" => ops'[k].outcome = ops[k].outcome
      PROVE  Holder' = Holder /\ ClosedWith' = ClosedWith
  <2>1. \A i : \A k \in IdempotencyKeys : ActiveFor(ops, k, i) <=> ActiveFor(ops', k, i)
    BY <1>6 DEF ActiveFor
  <2>2. \A i \in Identities : HolderIn(ops', i) = HolderIn(ops, i)
    BY <1>1, <2>1, HolderSame
  <2>3. ClosedWith' = ClosedWith
    BY <1>4, <1>6
  <2>. QED
    BY <1>3, <2>2, <2>3
<1>7. CASE ChangesNone
  <2>1. Holder' = Holder /\ ClosedWith' = ClosedWith
    BY <1>6, <1>7 DEF ChangesNone
  <2>2. \A k \in IdempotencyKeys : Fate(k)' = Fate(k)
    BY <1>7 DEF ChangesNone, Fate
  <2>. QED
    BY <1>4, <2>1, <2>2
<1>8. CASE ChangesOne
  <2>1. PICK k \in IdempotencyKeys :
               Present(k) /\ \A j \in IdempotencyKeys \ {k} : ops'[j] = ops[j]
    BY <1>8 DEF ChangesOne
  <2>2. Follows(ops[k], ops'[k])
    BY <1>0, <2>1 DEF RowsFollow
  <2>3. \A j \in IdempotencyKeys : Fate(j)' = Fate(j)
    BY <1>8, <2>1, <2>2 DEF ChangesOne, Fate, Follows
  <2>4. Fates' = Fates
    BY <1>4, <2>3
  <2>5. CASE ops'[k].phase # "TERMINAL" \/ ops[k].phase = "TERMINAL"
    <3>1. Holder' = Holder /\ ClosedWith' = ClosedWith
      BY <1>6, <2>1, <2>2, <2>5 DEF Follows, SameDigest, Present
    <3>. QED
      BY <2>4, <3>1
  <2>6. CASE ops'[k].phase = "TERMINAL" /\ ops[k].phase # "TERMINAL"
    <3>1. PICK i \in Identities : ops[k].identity = i
      BY <1>5, <2>1
    <3>2. ActiveFor(ops, k, i)
      BY <2>1, <2>6, <3>1 DEF ActiveFor, Present
    <3>3. \A j \in IdempotencyKeys : ~ActiveFor(ops', j, i)
      BY <1>1, <2>1, <2>6, <3>2 DEF ActiveFor
    <3>4. HolderIn(ops, i) = k /\ HolderIn(ops', i) = None
      BY <1>1, <1>2, <3>2, <3>3, HolderIs
    <3>5. ASSUME NEW j \in Identities \ {i}
          PROVE  HolderIn(ops', j) = HolderIn(ops, j)
      <4>1. \A l \in IdempotencyKeys : ActiveFor(ops, l, j) <=> ActiveFor(ops', l, j)
        BY <2>1, <2>6, <3>1 DEF ActiveFor
      <4>. QED
        BY <1>1, <4>1, HolderSame
    <3>6. Holder[i] = k /\ Holder' = [Holder EXCEPT ![i] = None]
      BY <1>3, <3>4, <3>5
    <3>7. <<ops'[k].outcome, Fate(k)>> \in TrueOutcomes
      BY <1>0, <2>3, <2>6 DEF RowTells
    <3>8. Fates[k] = Fate(k) /\ ClosedWith' = [ClosedWith EXCEPT ![k] = ops'[k].outcome]
      BY <1>4, <2>1, <2>6
    <3>9. Writes!Close(k, i)
      BY <2>4, <3>6, <3>7, <3>8 DEF Writes!Close, TrueOutcomes
    <3>. QED
      BY <3>9 DEF Writes!WritesNext
  <2>. QED
    BY <2>5, <2>6
<1>9. CASE Begins
  <2>1. PICK k \in IdempotencyKeys, r \in Runs, i \in Identities :
            /\ ~Present(k) /\ Admissible(i) /\ tx[r] = "none"
            /\ ops'[k].phase = "REQUESTED" /\ ops'[k].identity = i /\ ops'[k].owner = r
            /\ \A j \in IdempotencyKeys \ {k} : ops'[j] = ops[j]
    BY <1>9 DEF Begins
  <2>2. tx' = tx /\ ops[k].owner = None /\ ops[k].phase = "ABSENT"
    BY <1>0, <1>9, <2>1 DEF Begins, Present, RowOK
  <2>3. Fate(k) = "none" /\ \A j \in IdempotencyKeys : Fate(j)' = Fate(j)
    BY <2>1, <2>2 DEF Fate
  <2>4. \A j \in IdempotencyKeys : ~ActiveFor(ops, j, i)
    BY <2>1 DEF Admissible, Active, ActiveFor
  <2>5. ActiveFor(ops', k, i)
    BY <2>1 DEF ActiveFor
  <2>6. HolderIn(ops, i) = None /\ HolderIn(ops', i) = k
    BY <1>1, <1>2, <2>4, <2>5, HolderIs
  <2>7. ASSUME NEW j \in Identities \ {i}
        PROVE  HolderIn(ops', j) = HolderIn(ops, j)
    <3>1. \A l \in IdempotencyKeys : ActiveFor(ops, l, j) <=> ActiveFor(ops', l, j)
      BY <2>1, <2>2 DEF ActiveFor
    <3>. QED
      BY <1>1, <3>1, HolderSame
  <2>8. Holder[i] = None /\ Holder' = [Holder EXCEPT ![i] = k]
    BY <1>3, <2>6, <2>7
  <2>9. Fates' = Fates /\ Fates[k] = "none" /\ ClosedWith' = ClosedWith /\ ClosedWith[k] = "none"
    BY <1>4, <2>1, <2>2, <2>3
  <2>10. Writes!Open(k, i)
    BY <2>8, <2>9 DEF Writes!Open
  <2>. QED
    BY <2>10 DEF Writes!WritesNext
<1>10. CASE Sends
  <2>1. PICK k \in IdempotencyKeys, r \in Runs :
           /\ ops[k].phase \in PreSend /\ ops[k].owner = r /\ tx[r] = "none"
           /\ tx' = [tx EXCEPT ![r] = "sent"]
           /\ ops'[k].phase = "SUBMISSION_ATTEMPTED"
           /\ ops'[k].owner = r /\ ops'[k].identity = ops[k].identity
           /\ \A j \in IdempotencyKeys \ {k} : ops'[j] = ops[j]
    BY <1>10 DEF Sends
  <2>2. Present(k) /\ ops[k].phase # "TERMINAL"
    BY <2>1 DEF PreSend, Present
  <2>3. PICK i \in Identities : ops[k].identity = i
    BY <1>5, <2>2
  <2>4. Holder' = Holder /\ ClosedWith' = ClosedWith
    BY <1>6, <2>1, <2>2 DEF Present
  <2>5. ActiveFor(ops, k, i)
    BY <2>2, <2>3 DEF ActiveFor, Present
  <2>6. Holder[i] = k
    BY <1>1, <1>3, <2>5, HolderIs
  <2>7. tx \in [Runs -> {"none", "sent", "mined", "reverted", "dropped"}]
    BY DEF CeremonyInv, CeremonyTypeOK
  <2>8. Fate(k) = "none" /\ Fate(k)' = "sent"
    BY <2>1, <2>7 DEF Fate, CeremonyAssumption
  <2>9. ASSUME NEW j \in IdempotencyKeys \ {k}
        PROVE  Fate(j)' = Fate(j)
    <3>1. ops[j].owner # r
      BY <1>0, <1>5, <2>1, <2>2 DEF Present, RowOK, CeremonyAssumption
    <3>2. ops[j].owner \in Runs \cup {None}
      BY <1>0 DEF Operation
    <3>. QED
      BY <2>1, <2>7, <3>1, <3>2 DEF Fate
  <2>10. Fates[k] = "none" /\ Fates' = [Fates EXCEPT ![k] = "sent"]
    BY <1>4, <2>8, <2>9
  <2>11. Writes!Send(k, i)
    BY <2>4, <2>6, <2>10 DEF Writes!Send
  <2>. QED
    BY <2>11 DEF Writes!WritesNext
<1>11. CASE Lands
  <2>1. PICK r \in Runs, end \in {"mined", "reverted", "dropped"} :
          tx[r] = "sent" /\ tx' = [tx EXCEPT ![r] = end]
    BY <1>11 DEF Lands
  <2>2. ops' = ops /\ Holder' = Holder /\ ClosedWith' = ClosedWith
    BY <1>6, <1>11 DEF Lands
  <2>3. tx \in [Runs -> {"none", "sent", "mined", "reverted", "dropped"}]
    BY DEF CeremonyInv, CeremonyTypeOK
  <2>4. PICK k \in IdempotencyKeys : k = run[r].key /\ ops[k].owner = r
    BY <1>0, <2>1 DEF RunOK, RunState
  <2>5. Fate(k) = "sent" /\ Fate(k)' = end
    BY <2>1, <2>2, <2>3, <2>4 DEF Fate, CeremonyAssumption
  <2>6. ASSUME NEW j \in IdempotencyKeys \ {k}
        PROVE  Fate(j)' = Fate(j)
    <3>1. ops[j].owner # r
      BY <1>0, <1>5, <2>4 DEF Present, RowOK, CeremonyAssumption
    <3>2. ops[j].owner \in Runs \cup {None}
      BY <1>0 DEF Operation
    <3>. QED
      BY <2>1, <2>2, <2>3, <3>1, <3>2 DEF Fate
  <2>7. Fates[k] = "sent" /\ Fates' = [Fates EXCEPT ![k] = end]
    BY <1>4, <2>5, <2>6
  <2>8. Writes!Land(k)
    BY <2>2, <2>7 DEF Writes!Land
  <2>. QED
    BY <2>8 DEF Writes!WritesNext
<1>. QED
  BY <1>7, <1>8, <1>9, <1>10, <1>11 DEF Kept, Change

\* Per identity one writer at a time, one transaction per operation and a true
\* close: every behaviour of the ceremony is one of the abstract serializer.
THEOREM CeremonyImplementsSerializer == CeremonySpec => ImplementsSerializedWrites
<1>1. CeremonyInit => Writes!WritesInit
  <2>. SUFFICES ASSUME CeremonyInit
                PROVE  Writes!WritesInit
    OBVIOUS
  <2>1. \A k \in IdempotencyKeys : ops[k].phase = "ABSENT" /\ ops[k].owner = None
    BY DEF CeremonyInit, JournalInit, NoOperation
  <2>2. \A k \in IdempotencyKeys : ~Active(k) /\ Fate(k) = "none"
    BY <2>1 DEF Active, Fate
  <2>3. Holder = [i \in Identities |-> None]
    BY <2>2 DEF Holder
  <2>4. Fates = [k \in IdempotencyKeys |-> "none"]
    BY <2>2 DEF Fates
  <2>5. ClosedWith = [k \in IdempotencyKeys |-> "none"]
    BY <2>1 DEF ClosedWith
  <2>. QED
    BY <2>3, <2>4, <2>5 DEF Writes!WritesInit
<1>2. CeremonyInv /\ [CeremonyNext]_cvars => [Writes!WritesNext]_<<Holder, Fates, ClosedWith>>
  BY StepKeeps, StutterKeeps, StepImplements, CeremonyAssumption
<1>3. [Writes!WritesNext]_<<Holder, Fates, ClosedWith>> <=> [Writes!WritesNext]_Writes!writeVars
  BY DEF Writes!writeVars
<1>. QED
  BY <1>1, <1>2, <1>3, CeremonyInvariant, PTL DEF CeremonySpec, ImplementsSerializedWrites, Writes!WritesSpec

-----------------------------------------------------------------------------
(***************************************************************************)
(* The books.  A stage stays reserved only while the runner waits for it,  *)
(* or after the runner died; and a runner that is about to reserve finds   *)
(* its row fresh, so that recovery cannot have closed it.                  *)
(***************************************************************************)

\* Where the owner of a row is while a stage is reserved.
Await(stage) == CASE stage = "COMPUTE"  -> {"computing"}
                  [] stage = "STORAGE"  -> {"uploading"}
                  [] stage = "REGISTRY" -> {"preflight", "sending", "waiting"}

\* Where the owner waits for nobody, with the phase its row then has.
Between == {"admitted", "computed", "uploaded", "stored"}
PhaseAt(pc) == CASE pc = "admitted" -> "REQUESTED"
                 [] pc = "computed" -> "COMPUTE_VERIFIED"
                 [] pc = "uploaded" -> "STORAGE_VERIFIED"
                 [] pc = "stored"   -> "CHAIN_INPUT_COMMITTED"

\* The cost rows of operation o, of the services that were called for it.
Charged(o, called, fate) ==
  /\ \A s \in called : o.cost[s] \in {"RESERVED", "CONSUMED"}
  /\ \A s \in PaidStages : o.cost[s] = "CONSUMED" => s \in called
  /\ \A s \in PaidStages \ {"REGISTRY"} : o.cost[s] = "RESERVED" => s \in called
  /\ "REGISTRY" \in called <=> fate # "none"

NoneReserved(o) == \A s \in PaidStages : o.cost[s] # "RESERVED"

CostRow(o, called, fate, pc) ==
  /\ Charged(o, called, fate)
  /\ o.phase = "ABSENT" => called = {}
  /\ o.phase = "TERMINAL" => NoneReserved(o)
  /\ \A s \in PaidStages : o.cost[s] = "RESERVED" => pc \in Await(s) \cup {"ended"}
  /\ pc \in Between => o.fresh /\ o.phase = PhaseAt(pc)
  /\ pc = "preflight" /\ o.phase \in PreSend => o.cost["REGISTRY"] = "RESERVED"

PcOf(k) == IF ops[k].owner = None THEN "none" ELSE run[ops[k].owner].pc

CostInv ==
  /\ \A k \in IdempotencyKeys : CostRow(ops[k], spent[k], Fate(k), PcOf(k))
  /\ \A c \in Recoverers : rec[c].pc = "reading" =>
       NoneReserved(ops[rec[c].key]) /\ ops[rec[c].key].phase \notin PreSend

\* A row with nothing under way.
Booked(o, called, fate) ==
  o \in Operation /\ o.phase # "ABSENT" /\ Charged(o, called, fate) /\ NoneReserved(o)

-----------------------------------------------------------------------------
(* The methods of the journal.                                             *)

\* Closing a row with nothing under way leaves its books as they are.
LEMMA CompleteBooked ==
  ASSUME NEW o, NEW called, NEW fate, Booked(o, called, fate),
         NEW status \in Uncertain \cup Definite, NEW hash, NEW pc, pc \notin Between,
         pc = "preflight" => Complete(o, status, hash).phase \notin PreSend
  PROVE  CostRow(Complete(o, status, hash), called, fate, pc)
<1>. DEFINE n == Complete(o, status, hash)
<1>1. n.cost = o.cost /\ n.phase # "ABSENT"
  BY DEF Complete, Advance, Booked, Operation
<1>. QED
  BY <1>1 DEF CostRow, Booked, Charged, NoneReserved

\* A recovery call may also leave such a row open.
LEMMA BookedRow ==
  ASSUME NEW o, NEW called, NEW fate, Booked(o, called, fate), NEW pc, pc \notin Between,
         o.phase \notin PreSend \/ pc = "ended"
  PROVE  CostRow(o, called, fate, pc)
BY DEF CostRow, Booked, NoneReserved

\* The stage the owner waited for is charged, as far as it was used.
LEMMA ReconcileBooks ==
  ASSUME NEW o \in Operation, NEW called \in SUBSET PaidStages, NEW fate, NEW pc,
         o.phase # "ABSENT", CostRow(o, called, fate, pc),
         NEW stage \in PaidStages, pc \in Await(stage),
         NEW disposition \in {"CONSUMED", "RELEASED"},
         disposition = "RELEASED" => stage = "REGISTRY" /\ fate = "none",
         disposition = "CONSUMED" /\ stage = "REGISTRY" => fate # "none"
  PROVE  Booked(ReconcileCost(o, stage, disposition), called, fate)
<1>. DEFINE n == ReconcileCost(o, stage, disposition)
<1>1. n \in Operation /\ n.phase = o.phase
  BY DEF ReconcileCost, Operation, Dispositions
<1>2. /\ n.cost[stage] = IF o.cost[stage] = "RESERVED" THEN disposition ELSE o.cost[stage]
      /\ \A s \in PaidStages \ {stage} : n.cost[s] = o.cost[s]
  BY DEF ReconcileCost, CanReconcile, Operation
<1>3. \A s \in PaidStages \ {stage} : o.cost[s] # "RESERVED"
  BY DEF CostRow, Await, PaidStages
<1>. QED
  BY <1>1, <1>2, <1>3 DEF Booked, CostRow, Charged, NoneReserved, PaidStages

\* An owner that waits for no stage has none reserved.
LEMMA NoStageBooks ==
  ASSUME NEW o \in Operation, NEW called, NEW fate, NEW pc,
         o.phase # "ABSENT", CostRow(o, called, fate, pc),
         pc # "ended", \A s \in PaidStages : pc \notin Await(s)
  PROVE  Booked(o, called, fate)
BY DEF Booked, CostRow, NoneReserved

\* Recovery charges what may have been used; it knows of the registry write.
LEMMA RecoveryBooks ==
  ASSUME NEW o \in Operation, NEW called \in SUBSET PaidStages, NEW fate,
         o.phase # "ABSENT", Charged(o, called, fate),
         NEW registry \in {"CONSUMED", "RELEASED"},
         registry = "RELEASED" <=> fate = "none"
  PROVE  Booked(ReconcileRecoveryCosts(o, registry), called, fate)
<1>. DEFINE n == ReconcileRecoveryCosts(o, registry)
<1>1. n \in Operation /\ n.phase = o.phase
  BY DEF ReconcileRecoveryCosts, Operation, Dispositions
<1>2. \A s \in PaidStages : n.cost[s] = IF o.cost[s] # "RESERVED" THEN o.cost[s]
                                       ELSE IF s = "REGISTRY" THEN registry ELSE "CONSUMED"
  BY DEF ReconcileRecoveryCosts, Operation
<1>. QED
  BY <1>1, <1>2 DEF Booked, Charged, NoneReserved, PaidStages

-----------------------------------------------------------------------------
(* The steps.                                                              *)

\* The books of a row whose owner, fate and calls did not move.
LEMMA OtherRow ==
  ASSUME CostInv, NEW j \in IdempotencyKeys, ops'[j] = ops[j], spent'[j] = spent[j],
         Fate(j)' = Fate(j), PcOf(j)' = PcOf(j)
  PROVE  CostRow(ops'[j], spent'[j], Fate(j)', PcOf(j)')
BY DEF CostInv

LEMMA OwnerElsewhere ==
  ASSUME CeremonyAssumption, CeremonyInv, NEW r \in Runs, NEW k \in IdempotencyKeys,
         ops[k].owner = r, NEW j \in IdempotencyKeys \ {k}
  PROVE  ops[j].owner \in (Runs \cup {None}) \ {r}
<1>1. ops[j] \in Operation /\ RowOK(ops[j]) /\ RowOK(ops[k])
  BY DEF CeremonyInv, CeremonyTypeOK, RowsOK
<1>2. Present(k) /\ run[r].key = k
  BY <1>1 DEF CeremonyInv, OwnersOK, Present, RowOK, CeremonyAssumption
<1>3. CASE Present(j)
  BY <1>1, <1>2, <1>3 DEF CeremonyInv, OwnersOK, Operation
<1>4. CASE ~Present(j)
  BY <1>1, <1>4 DEF Present, RowOK, CeremonyAssumption
<1>. QED
  BY <1>3, <1>4

\* A runner's step: only its own row, call, transaction and charges move.
LEMMA RunnerCosts ==
  ASSUME CeremonyAssumption, CeremonyInv, CostInv, Kept, NEW r \in Runs, Working(r),
         NEW k \in IdempotencyKeys, k = run[r].key, NEW n, SetRow(k, n), n.owner = r,
         NEW w, run' = [run EXCEPT ![r] = w],
         NEW fate, tx' = [tx EXCEPT ![r] = fate],
         NEW called, spent' = [spent EXCEPT ![k] = called],
         CostRow(n, called, fate, w.pc), rec' = rec,
         ops[k].phase \in PreSend \/ (NoneReserved(ops[k]) => NoneReserved(n))
  PROVE  CostInv'
<1>0. /\ ops \in [IdempotencyKeys -> Operation] /\ run \in [Runs -> RunState]
      /\ tx \in [Runs -> {"none", "sent", "mined", "reverted", "dropped"}]
      /\ spent \in [IdempotencyKeys -> SUBSET PaidStages]
      /\ rec \in [Recoverers -> RecState] /\ \A c \in Recoverers : RecOK(c)
  BY DEF CeremonyInv, CeremonyTypeOK
<1>1. ops[k].owner = r /\ Present(k)
  BY OwnedRow
<1>2. /\ ops'[k] = n /\ spent'[k] = called /\ Fate(k)' = fate /\ PcOf(k)' = w.pc
  BY <1>0 DEF SetRow, Fate, PcOf, CeremonyAssumption
<1>3. ASSUME NEW j \in IdempotencyKeys \ {k}
      PROVE  CostRow(ops'[j], spent'[j], Fate(j)', PcOf(j)')
  <2>1. ops[j].owner \in (Runs \cup {None}) \ {r}
    BY <1>1, OwnerElsewhere
  <2>2. ops'[j] = ops[j] /\ spent'[j] = spent[j]
    BY <1>0 DEF SetRow
  <2>3. Fate(j)' = Fate(j) /\ PcOf(j)' = PcOf(j)
    BY <1>0, <2>1, <2>2 DEF Fate, PcOf
  <2>. QED
    BY <2>2, <2>3, OtherRow
<1>4. ASSUME NEW c \in Recoverers, rec'[c].pc = "reading"
      PROVE  NoneReserved(ops'[rec'[c].key]) /\ ops'[rec'[c].key].phase \notin PreSend
  <2>1. PICK j \in IdempotencyKeys : j = rec[c].key
    BY <1>0, <1>4 DEF RecOK, RecState
  <2>2. NoneReserved(ops[j]) /\ ops[j].phase \notin PreSend /\ Present(j)
    BY <1>0, <1>4, <2>1 DEF CostInv, RecOK
  <2>3. ops'[j].phase \notin PreSend
    BY <2>2 DEF Kept, RowsFollow, Follows
  <2>4. NoneReserved(ops'[j])
    BY <1>0, <1>2, <2>2 DEF SetRow
  <2>. QED
    BY <2>1, <2>3, <2>4
<1>. QED
  BY <1>2, <1>3, <1>4 DEF CostInv

\* The catch block, with the stage that was under way charged.
LEMMA SettleCosts ==
  ASSUME CeremonyAssumption, CeremonyInv, CostInv, Kept, NEW r \in Runs, Working(r),
         NEW o, o.owner = r, Booked(o, spent[run[r].key], tx[r]),
         NEW w \in RunState, w.key = run[r].key, Settle(r, o, w),
         UNCHANGED <<rec, tx, spent>>
  PROVE  CostInv'
<1>0. PICK k \in IdempotencyKeys : k = run[r].key
  BY OwnedRow
<1>. DEFINE status == WriteOutcome(w)
            hash == IF w.hashKnown THEN r ELSE None
            n == Complete(o, status, hash)
            e == [w EXCEPT !.pc = "ended"]
<1>1. status \in Uncertain \cup Definite
  BY DEF WriteOutcome, Uncertain, Definite
<1>2. SetRow(k, n) /\ run' = [run EXCEPT ![r] = e]
  BY <1>0 DEF Settle
<1>3. e.pc = "ended"
  BY DEF RunState
<1>. HIDE DEF status, hash, e
<1>4. CostRow(n, spent[k], tx[r], e.pc)
  BY <1>0, <1>1, <1>3, CompleteBooked DEF Between
<1>5. n.owner = r /\ NoneReserved(n)
  BY DEF Complete, Advance, Booked, Operation, NoneReserved
<1>. DEFINE called == spent[k]
            fate == tx[r]
<1>6. tx' = [tx EXCEPT ![r] = fate] /\ spent' = [spent EXCEPT ![k] = called] /\ rec' = rec
  BY DEF CeremonyInv, CeremonyTypeOK
<1>7. CostRow(n, called, fate, e.pc)
  BY <1>4
<1>. HIDE DEF n, called, fate
<1>8. NoneReserved(ops[k]) => NoneReserved(n)
  BY <1>5
<1>. QED
  BY <1>0, <1>2, <1>5, <1>6, <1>7, <1>8, RunnerCosts

LEMMA SettleWriteCosts ==
  ASSUME CeremonyAssumption, CeremonyInv, CostInv, Kept, NEW r \in Runs, Working(r),
         run[r].pc \in Await("REGISTRY"),
         NEW w \in RunState, w.key = run[r].key, w.attempted = run[r].attempted,
         SettleWrite(r, ops[run[r].key], w), UNCHANGED <<rec, tx, spent>>
  PROVE  CostInv'
<1>0. PICK k \in IdempotencyKeys : k = run[r].key
  BY OwnedRow
<1>1. /\ ops[k].owner = r /\ ops[k].phase # "ABSENT" /\ ops[k] \in Operation
      /\ Fate(k) = tx[r] /\ PcOf(k) = run[r].pc
  BY <1>0, OwnedRow DEF Present, PcOf, Sound, CeremonyAssumption
<1>2. CostRow(ops[k], spent[k], tx[r], run[r].pc) /\ spent[k] \in SUBSET PaidStages
  BY <1>1 DEF CostInv, CeremonyInv, CeremonyTypeOK
<1>3. run[r].attempted <=> tx[r] # "none"
  BY DEF CeremonyInv, RunOK
<1>. DEFINE d == IF w.attempted THEN "CONSUMED" ELSE "RELEASED"
            q == ReconcileCost(ops[k], "REGISTRY", d)
<1>4. d \in {"CONSUMED", "RELEASED"} /\ (d = "RELEASED" <=> tx[r] = "none")
  BY <1>3
<1>5. Settle(r, q, w)
  BY <1>0 DEF SettleWrite
<1>. HIDE DEF d
<1>6. "REGISTRY" \in PaidStages
  BY DEF PaidStages
<1>7. Booked(q, spent[k], tx[r])
  BY <1>1, <1>2, <1>4, <1>6, ReconcileBooks
<1>8. q.owner = r
  BY <1>1 DEF ReconcileCost, Operation
<1>. HIDE DEF q
<1>. QED
  BY <1>0, <1>5, <1>7, <1>8, SettleCosts

LEMMA WorkingCosts ==
  ASSUME CeremonyAssumption, CeremonyInv, CostInv, Kept, NEW r \in Runs, RunnerStep(r),
         run[r].pc # "checking"
  PROVE  CostInv'
<1>0. /\ Working(r) /\ rec' = rec /\ run[r] \in RunState /\ RunOK(r)
      /\ run \in [Runs -> RunState] /\ ops \in [IdempotencyKeys -> Operation]
      /\ spent \in [IdempotencyKeys -> SUBSET PaidStages]
      /\ tx \in [Runs -> {"none", "sent", "mined", "reverted", "dropped"}]
  BY DEF RunnerStep, Admit, ChecksFail, StartCompute, ComputeReturns, ComputeFails, StartUpload,
         UploadReturns, UploadFails, CommitChainInput, StartWrite, Preflight, PreflightFails,
         SendReturns, SendFails, ReceiptSucceeds, ReceiptReverts, ReceiptTimesOut, ReadBack,
         ReadBackFails, At, Working, CeremonyInv, CeremonyTypeOK
<1>1. PICK k \in IdempotencyKeys : k = run[r].key
  BY <1>0, OwnedRow
<1>. DEFINE o == ops[k]
            called == spent[k]
<1>2. /\ o.owner = r /\ o.phase # "ABSENT" /\ o \in Operation /\ PcOf(k) = run[r].pc
      /\ Sound(o, tx[r]) /\ called \in SUBSET PaidStages
      /\ CostRow(o, called, tx[r], run[r].pc)
  BY <1>0, <1>1, OwnedRow DEF Present, PcOf, CostInv, CeremonyAssumption
<1>. HIDE DEF o, called
<1>3. "COMPUTE" \in PaidStages /\ "STORAGE" \in PaidStages /\ "REGISTRY" \in PaidStages
  BY DEF PaidStages
\* A step that leaves row n and moves the call to p, with what it called.
<1>4. ASSUME NEW n, n.owner = r, SetRow(k, n), NEW w, run' = [run EXCEPT ![r] = w],
             NEW more \in SUBSET PaidStages, spent' = [spent EXCEPT ![k] = more],
             UNCHANGED tx, CostRow(n, more, tx[r], w.pc),
             o.phase \in PreSend \/ (NoneReserved(o) => NoneReserved(n))
      PROVE  CostInv'
  <2>1. tx' = [tx EXCEPT ![r] = tx[r]]
    BY <1>0, <1>4
  <2>. QED
    BY <1>0, <1>1, <1>4, <2>1, RunnerCosts DEF o
<1>5. ASSUME NEW n, n.owner = r, SetRow(k, n), NEW p, Goto(r, p),
             NEW more \in SUBSET PaidStages, spent' = [spent EXCEPT ![k] = more],
             UNCHANGED tx, CostRow(n, more, tx[r], p),
             o.phase \in PreSend \/ (NoneReserved(o) => NoneReserved(n))
      PROVE  CostInv'
  <2>. DEFINE e == [run[r] EXCEPT !.pc = p]
  <2>1. run' = [run EXCEPT ![r] = e] /\ e.pc = p
    BY <1>0, <1>5 DEF Goto, RunState
  <2>. HIDE DEF e
  <2>. QED
    BY <1>4, <1>5, <2>1
<1>6. ASSUME UNCHANGED spent
      PROVE  spent' = [spent EXCEPT ![k] = called]
  BY <1>0, <1>6 DEF called
\* The stages that are paid before the write.
<1>7. ASSUME run[r].pc \in Between
      PROVE  /\ Booked(o, called, tx[r]) /\ o.fresh /\ o.phase = PhaseAt(run[r].pc)
             /\ tx[r] = "none" /\ o.phase \in PreSend
  <2>1. Booked(o, called, tx[r])
    BY <1>2, <1>7, NoStageBooks DEF Between, Await, PaidStages
  <2>2. tx[r] = "none"
    BY <1>0, <1>7 DEF RunOK, Between, BeforeSend
  <2>. QED
    BY <1>2, <1>7, <2>1, <2>2 DEF CostRow, PhaseAt, Between, PreSend
<1>8. ASSUME run[r].pc \in Between, Settle(r, o, run[r]), UNCHANGED <<tx, spent>>
      PROVE  CostInv'
  BY <1>0, <1>1, <1>2, <1>7, <1>8, SettleCosts DEF called
<1>9. ASSUME run[r].pc \in Between, NEW stage \in PaidStages, CanReserve(o, stage),
             SetRow(k, ReserveCost(o, stage)), NEW p \in Await(stage), Goto(r, p),
             NEW more \in SUBSET PaidStages, spent' = [spent EXCEPT ![k] = more],
             more = IF stage = "REGISTRY" THEN called ELSE called \cup {stage},
             UNCHANGED tx, p = "preflight" => stage = "REGISTRY", p \notin {"sending", "waiting"}
      PROVE  CostInv'
  <2>. DEFINE n == ReserveCost(o, stage)
  <2>1. /\ n.owner = r /\ n.phase = o.phase /\ n.cost[stage] = "RESERVED"
        /\ \A s \in PaidStages \ {stage} : n.cost[s] = o.cost[s]
    BY <1>2, <1>9 DEF ReserveCost, Operation
  <2>. HIDE DEF n
  <2>2. p \notin Between
    BY <1>9 DEF Await, Between, PaidStages
  <2>3. Charged(n, more, tx[r])
    BY <1>3, <1>7, <1>9, <2>1 DEF Booked, Charged, CanReserve
  <2>4. \A s \in PaidStages : n.cost[s] = "RESERVED" => p \in Await(s)
    BY <1>7, <1>9, <2>1 DEF Booked, NoneReserved
  <2>5. CostRow(n, more, tx[r], p)
    BY <1>2, <1>7, <1>9, <2>1, <2>2, <2>3, <2>4 DEF CostRow, PreSend
  <2>. QED
    BY <1>5, <1>7, <1>9, <2>1, <2>5 DEF n
<1>10. CASE StartCompute(r)
  <2>1. run[r].pc \in Between /\ UNCHANGED tx
    BY <1>10 DEF StartCompute, At, Between
  <2>2. CASE CanReserve(o, "COMPUTE")
    <3>1. PICK more \in SUBSET PaidStages : more = called \cup {"COMPUTE"}
      BY <1>2, <1>3
    <3>2. /\ SetRow(k, ReserveCost(o, "COMPUTE")) /\ Goto(r, "computing")
          /\ spent' = [spent EXCEPT ![k] = more]
      BY <1>1, <1>10, <2>2, <3>1 DEF StartCompute, o, called
    <3>3. PICK stage \in PaidStages : stage = "COMPUTE"
      BY <1>3
    <3>4. PICK p \in Await(stage) : p = "computing"
      BY <3>3 DEF Await
    <3>5. /\ SetRow(k, ReserveCost(o, stage)) /\ Goto(r, p) /\ CanReserve(o, stage)
          /\ more = IF stage = "REGISTRY" THEN called ELSE called \cup {stage}
      BY <2>2, <3>1, <3>2, <3>3, <3>4
    <3>6. p # "preflight" /\ p \notin {"sending", "waiting"}
      BY <3>4
    <3>. QED
      BY <1>9, <2>1, <3>2, <3>5, <3>6
  <2>3. CASE ~CanReserve(o, "COMPUTE")
    <3>1. Settle(r, o, run[r]) /\ UNCHANGED spent
      BY <1>1, <1>10, <2>3 DEF StartCompute, o
    <3>. QED
      BY <1>8, <2>1, <3>1
  <2>. QED
    BY <2>2, <2>3
<1>11. CASE StartUpload(r)
  <2>1. run[r].pc \in Between /\ UNCHANGED tx
    BY <1>11 DEF StartUpload, At, Between
  <2>2. CASE CanReserve(o, "STORAGE")
    <3>1. PICK more \in SUBSET PaidStages : more = called \cup {"STORAGE"}
      BY <1>2, <1>3
    <3>2. /\ SetRow(k, ReserveCost(o, "STORAGE")) /\ Goto(r, "uploading")
          /\ spent' = [spent EXCEPT ![k] = more]
      BY <1>1, <1>11, <2>2, <3>1 DEF StartUpload, o, called
    <3>3. PICK stage \in PaidStages : stage = "STORAGE"
      BY <1>3
    <3>4. PICK p \in Await(stage) : p = "uploading"
      BY <3>3 DEF Await
    <3>5. /\ SetRow(k, ReserveCost(o, stage)) /\ Goto(r, p) /\ CanReserve(o, stage)
          /\ more = IF stage = "REGISTRY" THEN called ELSE called \cup {stage}
      BY <2>2, <3>1, <3>2, <3>3, <3>4
    <3>6. p # "preflight" /\ p \notin {"sending", "waiting"}
      BY <3>4
    <3>. QED
      BY <1>9, <2>1, <3>2, <3>5, <3>6
  <2>3. CASE ~CanReserve(o, "STORAGE")
    <3>1. Settle(r, o, run[r]) /\ UNCHANGED spent
      BY <1>1, <1>11, <2>3 DEF StartUpload, o
    <3>. QED
      BY <1>8, <2>1, <3>1
  <2>. QED
    BY <2>2, <2>3
<1>12. CASE StartWrite(r)
  BY ZenonT(40), <1>1, <1>2, <1>3, <1>6, <1>8, <1>9, <1>12
     DEF StartWrite, At, Between, Await, o, called
<1>13. ASSUME NEW stage \in {"COMPUTE", "STORAGE"}, run[r].pc \in Await(stage)
       PROVE  LET q == ReconcileCost(o, stage, "CONSUMED")
              IN  Booked(q, called, tx[r]) /\ q.owner = r /\ q \in Operation
  <2>1. Booked(ReconcileCost(o, stage, "CONSUMED"), called, tx[r])
    BY <1>2, <1>3, <1>13, ReconcileBooks
  <2>2. ReconcileCost(o, stage, "CONSUMED").owner = r
    BY <1>2 DEF ReconcileCost, Operation
  <2>. QED
    BY <2>1, <2>2 DEF Booked
<1>14. ASSUME NEW q, Booked(q, called, tx[r]), q.owner = r, Settle(r, q, run[r]),
              UNCHANGED <<tx, spent>>
       PROVE  CostInv'
  BY <1>0, <1>1, <1>14, SettleCosts DEF called
<1>15. ASSUME NEW q, Booked(q, called, tx[r]), q.owner = r, NEW p \in Between,
              SetRow(k, Advance(q, PhaseAt(p))), Goto(r, p), UNCHANGED <<tx, spent>>
       PROVE  CostInv'
  <2>. DEFINE n == Advance(q, PhaseAt(p))
  <2>1. n.owner = r /\ n.cost = q.cost /\ n.fresh /\ n.phase = PhaseAt(p)
    BY <1>15 DEF Advance, Booked, Operation
  <2>2. PhaseAt(p) \in PreSend /\ PhaseAt(p) \notin {"ABSENT", "TERMINAL"} /\ p # "preflight"
    BY <1>15 DEF PhaseAt, Between, PreSend
  <2>. HIDE DEF n
  <2>3. CostRow(n, called, tx[r], p) /\ NoneReserved(n)
    BY <1>15, <2>1, <2>2 DEF CostRow, Booked, Charged, NoneReserved
  <2>. QED
    BY <1>2, <1>5, <1>6, <1>15, <2>1, <2>3 DEF n
<1>16. CASE ComputeReturns(r)
  <2>1. run[r].pc \in Await("COMPUTE") /\ "computed" \in Between
        /\ PhaseAt("computed") = "COMPUTE_VERIFIED"
    BY <1>16 DEF ComputeReturns, At, Await, Between, PhaseAt
  <2>. QED
    BY <1>1, <1>13, <1>14, <1>15, <1>16, <2>1 DEF ComputeReturns, o
<1>17. CASE UploadReturns(r)
  <2>1. run[r].pc \in Await("STORAGE") /\ "uploaded" \in Between
        /\ PhaseAt("uploaded") = "STORAGE_VERIFIED"
    BY <1>17 DEF UploadReturns, At, Await, Between, PhaseAt
  <2>. QED
    BY <1>1, <1>13, <1>14, <1>15, <1>17, <2>1 DEF UploadReturns, o
<1>18. CASE ComputeFails(r)
  <2>1. run[r].pc \in Await("COMPUTE")
    BY <1>18 DEF ComputeFails, At, Await
  <2>. QED
    BY <1>1, <1>13, <1>14, <1>18, <2>1 DEF ComputeFails, o
<1>19. CASE UploadFails(r)
  <2>1. run[r].pc \in Await("STORAGE")
    BY <1>19 DEF UploadFails, At, Await
  <2>. QED
    BY <1>1, <1>13, <1>14, <1>19, <2>1 DEF UploadFails, o
<1>20. CASE CommitChainInput(r)
  <2>1. run[r].pc \in Between /\ "stored" \in Between /\ PhaseAt("stored") = "CHAIN_INPUT_COMMITTED"
    BY <1>20 DEF CommitChainInput, At, Between, PhaseAt
  <2>. QED
    BY <1>1, <1>2, <1>7, <1>8, <1>15, <1>20, <2>1 DEF CommitChainInput, o
\* The write.
<1>21. ASSUME run[r].pc \in {"preflight", "sending", "waiting"}, NEW w \in RunState,
              w.key = run[r].key, w.attempted = run[r].attempted, SettleWrite(r, o, w),
              UNCHANGED <<tx, spent>>
       PROVE  CostInv'
  <2>1. run[r].pc \in Await("REGISTRY")
    BY <1>21 DEF Await
  <2>. QED
    BY <1>0, <1>1, <1>21, <2>1, SettleWriteCosts DEF o
<1>22. CASE Preflight(r) \/ PreflightFails(r)
  <2>1. run[r].pc = "preflight"
    BY <1>22 DEF Preflight, PreflightFails, At
  <2>2. CASE SettleWrite(r, o, run[r]) /\ UNCHANGED <<tx, spent>>
    BY <1>0, <1>21, <2>1, <2>2
  <2>3. CASE /\ CanRecordSubmissionAttempt(o) /\ SetRow(k, Advance(o, "SUBMISSION_ATTEMPTED"))
             /\ run' = [run EXCEPT ![r].attempted = TRUE, ![r].pc = "sending"]
             /\ tx' = [tx EXCEPT ![r] = "sent"]
             /\ spent' = [spent EXCEPT ![k] = @ \cup {"REGISTRY"}]
    <3>. DEFINE n == Advance(o, "SUBMISSION_ATTEMPTED")
                more == called \cup {"REGISTRY"}
                w == [run[r] EXCEPT !.attempted = TRUE, !.pc = "sending"]
    <3>1. n.owner = r /\ n.cost = o.cost /\ n.phase = "SUBMISSION_ATTEMPTED"
      BY <1>2 DEF Advance, Operation
    <3>2. o.phase \in PreSend /\ o.cost["REGISTRY"] = "RESERVED"
      BY <1>2, <2>1, <2>3 DEF CanRecordSubmissionAttempt, PreSend, CostRow
    <3>3. w.pc = "sending" /\ run' = [run EXCEPT ![r] = w]
      BY <1>0, <2>3 DEF RunState
    <3>4. spent' = [spent EXCEPT ![k] = more]
      BY <1>0, <2>3 DEF called
    <3>. HIDE DEF n, w
    <3>5. Charged(n, more, "sent")
      BY <1>2, <3>1, <3>2 DEF CostRow, Charged
    <3>6. \A s \in PaidStages : n.cost[s] = "RESERVED" => "sending" \in Await(s)
      BY <1>2, <2>1, <3>1 DEF CostRow, Await, PaidStages
    <3>7. CostRow(n, more, "sent", "sending")
      BY <3>1, <3>5, <3>6 DEF CostRow, Between, PreSend
    <3>8. more \in SUBSET PaidStages /\ ops[k].phase \in PreSend
      BY <1>2, <1>3, <3>2 DEF more, o
    <3>9. SetRow(k, n) /\ CostRow(n, more, "sent", w.pc) /\ tx' = [tx EXCEPT ![r] = "sent"]
      BY <2>3, <3>3, <3>7 DEF n
    <3>. HIDE DEF more
    <3>. QED
      BY <1>0, <1>1, <3>1, <3>3, <3>4, <3>8, <3>9, RunnerCosts
  <2>. QED
    BY <1>1, <1>22, <2>2, <2>3 DEF Preflight, PreflightFails, o
<1>23. CASE SendFails(r) \/ ReceiptTimesOut(r)
  BY <1>0, <1>1, <1>21, <1>23 DEF SendFails, ReceiptTimesOut, At, o
<1>24. CASE ReceiptReverts(r)
  <2>. DEFINE w == [run[r] EXCEPT !.reverted = TRUE]
  <2>1. w \in RunState /\ w.key = run[r].key /\ w.attempted = run[r].attempted
    BY <1>0 DEF RunState
  <2>. QED
    BY <1>1, <1>21, <1>24, <2>1 DEF ReceiptReverts, At, o
<1>25. CASE SendReturns(r)
  <2>. DEFINE w == [run[r] EXCEPT !.hashKnown = TRUE]
              e == [w EXCEPT !.pc = "waiting"]
              n == RecordTransactionHash(o, r)
  <2>1. w \in RunState /\ w.key = run[r].key /\ w.attempted = run[r].attempted /\ e.pc = "waiting"
    BY <1>0 DEF RunState
  <2>2. run[r].pc = "sending" /\ UNCHANGED <<tx, spent>>
    BY <1>25 DEF SendReturns, At
  <2>3. CASE SettleWrite(r, o, w)
    BY <1>21, <2>1, <2>2, <2>3
  <2>4. CASE SetRow(k, n) /\ run' = [run EXCEPT ![r] = e]
    <3>1. n.owner = r /\ n.cost = o.cost /\ n.phase = "HASH_KNOWN"
      BY <1>2 DEF RecordTransactionHash, Advance, Operation
    <3>. HIDE DEF n, e
    <3>2. \A s \in PaidStages : n.cost[s] = "RESERVED" => e.pc \in Await(s)
      BY <1>2, <2>1, <2>2, <3>1 DEF CostRow, Await, PaidStages
    <3>3. CostRow(n, called, tx[r], e.pc) /\ (NoneReserved(o) => NoneReserved(n))
      BY <1>2, <2>1, <3>1, <3>2 DEF CostRow, Charged, NoneReserved, Between
    <3>. QED
      BY <1>2, <1>4, <1>6, <2>2, <2>4, <3>1, <3>3
  <2>. QED
    BY <1>1, <1>25, <2>3, <2>4 DEF SendReturns, o
<1>26. CASE ReceiptSucceeds(r)
  <2>. DEFINE w == [run[r] EXCEPT !.finalized = TRUE]
              e == [w EXCEPT !.pc = "readback"]
              f == RecordFinalized(o, r)
              n == ReconcileCost(f, "REGISTRY", "CONSUMED")
  <2>1. w \in RunState /\ w.key = run[r].key /\ w.attempted = run[r].attempted /\ e.pc = "readback"
    BY <1>0 DEF RunState
  <2>2. run[r].pc = "waiting" /\ UNCHANGED <<tx, spent>> /\ tx[r] = "mined"
    BY <1>26 DEF ReceiptSucceeds, At
  <2>3. CASE SettleWrite(r, o, w)
    BY <1>21, <2>1, <2>2, <2>3
  <2>4. /\ f \in Operation /\ f.owner = r /\ f.cost = o.cost /\ f.phase = "FINALIZED"
    BY <1>0, <1>2 DEF RecordFinalized, Advance, Operation, Phases
  <2>. HIDE DEF f, w, e
  <2>5. \A s \in PaidStages \ {"REGISTRY"} : o.cost[s] # "RESERVED"
    BY <1>2, <2>2 DEF CostRow, Await, PaidStages
  <2>6. CASE ~CanReconcile(f, "REGISTRY") /\ Settle(r, f, w)
    <3>1. Booked(f, called, tx[r])
      BY <1>2, <2>4, <2>5, <2>6 DEF Booked, CostRow, Charged, NoneReserved, CanReconcile
    <3>. QED
      BY <1>0, <1>1, <2>1, <2>2, <2>4, <2>6, <3>1, SettleCosts DEF called
  <2>7. CASE CanReconcile(f, "REGISTRY") /\ SetRow(k, n) /\ run' = [run EXCEPT ![r] = e]
    <3>1. /\ n \in Operation /\ n.owner = r /\ n.phase = "FINALIZED"
          /\ n.cost = [f.cost EXCEPT !["REGISTRY"] = "CONSUMED"]
      BY <1>3, <2>4, <2>7 DEF ReconcileCost, Operation, Dispositions
    <3>. HIDE DEF n
    <3>2. Booked(n, called, tx[r])
      BY <1>2, <1>3, <2>2, <2>4, <2>5, <3>1
         DEF Booked, CostRow, Charged, NoneReserved, Operation
    <3>3. CostRow(n, called, tx[r], e.pc)
      BY <2>1, <3>1, <3>2, BookedRow DEF Between, PreSend
    <3>. QED
      BY <1>2, <1>4, <1>6, <2>2, <2>7, <3>1, <3>2, <3>3 DEF Booked
  <2>. QED
    BY <1>1, <1>26, <2>3, <2>6, <2>7 DEF ReceiptSucceeds, o, f, w, e
<1>27. CASE ReadBack(r) \/ ReadBackFails(r)
  <2>1. run[r].pc = "readback" /\ UNCHANGED <<tx, spent>>
    BY <1>27 DEF ReadBack, ReadBackFails, At
  <2>2. Booked(o, called, tx[r])
    BY <1>2, <2>1, NoStageBooks DEF Await, PaidStages
  <2>3. CASE Settle(r, o, run[r])
    BY <1>2, <1>14, <2>1, <2>2, <2>3
  <2>4. CASE SetRow(k, Complete(o, "SEALED", r)) /\ Goto(r, "ended")
    <3>. DEFINE n == Complete(o, "SEALED", r)
    <3>1. CostRow(n, called, tx[r], "ended")
      BY <2>2, CompleteBooked DEF Definite, Between
    <3>2. n.owner = r /\ n.cost = o.cost
      BY <1>2 DEF Complete, Advance, Operation
    <3>. HIDE DEF n
    <3>3. NoneReserved(n)
      BY <2>2, <3>2 DEF Booked, NoneReserved
    <3>. QED
      BY <1>2, <1>5, <1>6, <2>1, <2>4, <3>1, <3>2, <3>3 DEF n
  <2>. QED
    BY <1>1, <1>27, <2>3, <2>4 DEF ReadBack, ReadBackFails, o
<1>. QED
  BY <1>10, <1>11, <1>12, <1>16, <1>17, <1>18, <1>19, <1>20, <1>22, <1>23, <1>24, <1>25, <1>26, <1>27
     DEF RunnerStep, Admit, ChecksFail, At

\* Only calls of recover may change.
LEMMA SameRows ==
  ASSUME CeremonyInv, CostInv, UNCHANGED <<ops, spent>>,
         \A j \in IdempotencyKeys :
           /\ Fate(j)' = Fate(j) \/ (Fate(j)' # "none" /\ Fate(j) # "none")
           /\ PcOf(j)' \in {PcOf(j), "ended"},
         \A c \in Recoverers : rec'[c].pc = "reading" => rec'[c] = rec[c]
  PROVE  CostInv'
<1>1. ASSUME NEW j \in IdempotencyKeys
      PROVE  CostRow(ops'[j], spent'[j], Fate(j)', PcOf(j)')
  BY DEF CostInv, CostRow, Charged, Between
<1>2. \A c \in Recoverers : rec'[c].pc = "reading" =>
        NoneReserved(ops'[rec'[c].key]) /\ ops'[rec'[c].key].phase \notin PreSend
  BY DEF CostInv
<1>. QED
  BY <1>1, <1>2 DEF CostInv

\* One row and one call of recover change.
LEMMA RowCosts ==
  ASSUME CeremonyAssumption, CeremonyInv, CostInv, Kept, NEW k \in IdempotencyKeys, NEW n,
         SetRow(k, n), n.owner = ops[k].owner, UNCHANGED <<run, tx, spent>>,
         CostRow(n, spent[k], Fate(k), PcOf(k)),
         NoneReserved(ops[k]) => NoneReserved(n),
         \A c \in Recoverers : rec'[c].pc = "reading" =>
           rec'[c] = rec[c] \/ (rec'[c].key = k /\ NoneReserved(n) /\ n.phase \notin PreSend)
  PROVE  CostInv'
<1>0. ops \in [IdempotencyKeys -> Operation] /\ rec \in [Recoverers -> RecState]
      /\ \A c \in Recoverers : RecOK(c)
  BY DEF CeremonyInv, CeremonyTypeOK
<1>1. ops'[k] = n /\ \A j \in IdempotencyKeys \ {k} : ops'[j] = ops[j]
  BY <1>0 DEF SetRow
<1>2. \A j \in IdempotencyKeys : Fate(j)' = Fate(j) /\ PcOf(j)' = PcOf(j)
  BY <1>1 DEF Fate, PcOf
<1>3. ASSUME NEW j \in IdempotencyKeys
      PROVE  CostRow(ops'[j], spent'[j], Fate(j)', PcOf(j)')
  <2>1. CASE j = k
    BY <1>1, <1>2, <2>1
  <2>2. CASE j # k
    BY <1>1, <1>2, <2>2, OtherRow
  <2>. QED
    BY <2>1, <2>2
<1>4. ASSUME NEW c \in Recoverers, rec'[c].pc = "reading"
      PROVE  NoneReserved(ops'[rec'[c].key]) /\ ops'[rec'[c].key].phase \notin PreSend
  <2>1. CASE rec'[c].key = k /\ NoneReserved(n) /\ n.phase \notin PreSend
    BY <1>1, <2>1
  <2>2. CASE rec'[c] = rec[c]
    <3>1. PICK j \in IdempotencyKeys : j = rec[c].key
      BY <1>0, <1>4, <2>2 DEF RecOK, RecState
    <3>2. NoneReserved(ops[j]) /\ ops[j].phase \notin PreSend /\ Present(j)
      BY <1>0, <1>4, <2>2, <3>1 DEF CostInv, RecOK
    <3>3. ops'[j].phase \notin PreSend
      BY <3>2 DEF Kept, RowsFollow, Follows
    <3>4. NoneReserved(ops'[j])
      BY <1>1, <3>2
    <3>. QED
      BY <2>2, <3>1, <3>3, <3>4
  <2>. QED
    BY <1>4, <2>1, <2>2
<1>. QED
  BY <1>3, <1>4 DEF CostInv

\* The owner of no row changes.
LEMMA StrangerCosts ==
  ASSUME CeremonyAssumption, CeremonyInv, CostInv, NEW r \in Runs, NEW w,
         \A j \in IdempotencyKeys : ops[j].owner # r,
         run' = [run EXCEPT ![r] = w], UNCHANGED <<ops, rec, tx, spent>>
  PROVE  CostInv'
<1>1. ops \in [IdempotencyKeys -> Operation] /\ run \in [Runs -> RunState]
  BY DEF CeremonyInv, CeremonyTypeOK
<1>2. \A j \in IdempotencyKeys : Fate(j)' = Fate(j) /\ PcOf(j)' = PcOf(j)
  BY <1>1 DEF Fate, PcOf, Operation
<1>. QED
  BY <1>2, SameRows

\* A call that has not begun owns no row and sent nothing.
LEMMA NotBegun ==
  ASSUME CeremonyAssumption, CeremonyInv, NEW r \in Runs, run[r].pc \in {"idle", "checking"}
  PROVE  tx[r] = "none" /\ \A j \in IdempotencyKeys : ops[j].owner # r
<1>1. run[r] \in RunState /\ RunOK(r)
  BY DEF CeremonyInv, CeremonyTypeOK
<1>2. tx[r] = "none"
  BY <1>1 DEF RunOK, BeforeSend
<1>. QED
  BY <1>2 DEF CeremonyInv, OwnersOK, RowsOK, RowOK, Present, CeremonyAssumption

LEMMA AdmitCosts ==
  ASSUME CeremonyAssumption, CeremonyInv, CostInv, NEW r \in Runs, Admit(r) \/ ChecksFail(r)
  PROVE  CostInv'
<1>0. /\ run \in [Runs -> RunState] /\ ops \in [IdempotencyKeys -> Operation]
      /\ run[r].pc = "checking" /\ run[r] \in RunState /\ RunOK(r)
      /\ rec \in [Recoverers -> RecState] /\ \A c \in Recoverers : RecOK(c)
      /\ UNCHANGED <<rec, tx, spent>>
  BY DEF Admit, ChecksFail, At, CeremonyInv, CeremonyTypeOK
<1>1. PICK k \in IdempotencyKeys : k = run[r].key
  BY <1>0 DEF RunOK, RunState
<1>2. tx[r] = "none" /\ \A j \in IdempotencyKeys : ops[j].owner # r
  BY <1>0, NotBegun
<1>3. ASSUME NEW p, Goto(r, p)
      PROVE  \E w : run' = [run EXCEPT ![r] = w] /\ w.pc = p
  <2>. DEFINE w == [run[r] EXCEPT !.pc = p]
  <2>1. run' = [run EXCEPT ![r] = w] /\ w.pc = p
    BY <1>0, <1>3 DEF Goto, RunState
  <2>. QED
    BY <2>1
<1>4. CASE Goto(r, "ended") /\ UNCHANGED ops
  BY <1>0, <1>2, <1>3, <1>4, StrangerCosts
<1>5. CASE ~Present(k) /\ SetRow(k, Begun(r, run[r])) /\ Goto(r, "admitted")
  <2>. DEFINE n == Begun(r, run[r])
  <2>1. n.owner = r /\ n.phase = "REQUESTED" /\ n.fresh /\ \A s \in PaidStages : n.cost[s] = "none"
    BY DEF Begun, NoOperation
  <2>. HIDE DEF n
  <2>2. ops'[k] = n /\ \A j \in IdempotencyKeys \ {k} : ops'[j] = ops[j]
    BY <1>0, <1>5 DEF SetRow, n
  <2>3. PICK w : run' = [run EXCEPT ![r] = w] /\ w.pc = "admitted"
    BY <1>3, <1>5
  <2>4. spent[k] = {}
    BY <1>5 DEF CostInv, CostRow, Present
  <2>5. Fate(k)' = "none" /\ PcOf(k)' = "admitted"
    BY <1>0, <1>2, <2>1, <2>2, <2>3 DEF Fate, PcOf, CeremonyAssumption
  <2>6. CostRow(n, {}, "none", "admitted")
    BY <2>1 DEF CostRow, Charged, NoneReserved, PhaseAt, PaidStages
  <2>7. ASSUME NEW j \in IdempotencyKeys \ {k}
        PROVE  CostRow(ops'[j], spent'[j], Fate(j)', PcOf(j)')
    <3>1. Fate(j)' = Fate(j) /\ PcOf(j)' = PcOf(j)
      BY <1>0, <1>2, <2>2, <2>3 DEF Fate, PcOf, Operation
    <3>. QED
      BY <1>0, <2>2, <3>1, OtherRow
  <2>8. \A c \in Recoverers : rec[c].pc = "reading" =>
          rec[c].key \in IdempotencyKeys \ {k}
    BY <1>0, <1>5 DEF RecOK, RecState
  <2>9. \A c \in Recoverers : rec'[c].pc = "reading" =>
          NoneReserved(ops'[rec'[c].key]) /\ ops'[rec'[c].key].phase \notin PreSend
    BY <1>0, <2>2, <2>8 DEF CostInv
  <2>. QED
    BY <1>0, <2>2, <2>4, <2>5, <2>6, <2>7, <2>9 DEF CostInv
<1>. QED
  BY <1>1, <1>4, <1>5 DEF Admit, ChecksFail

\* The owner of a row whose transaction has left is behind the send.
LEMMA OwnerSent ==
  ASSUME CeremonyAssumption, CeremonyInv, NEW k \in IdempotencyKeys, Present(k),
         Fate(k) # "none"
  PROVE  PcOf(k) \notin BeforeSend /\ ops[k].phase \notin PreSend
<1>1. ops[k].owner \in Runs /\ PcOf(k) = run[ops[k].owner].pc /\ Sound(ops[k], Fate(k))
      /\ Fate(k) = tx[ops[k].owner]
  BY SoundRow DEF PcOf, CeremonyAssumption
<1>2. RunOK(ops[k].owner)
  BY <1>1 DEF CeremonyInv
<1>. QED
  BY <1>1, <1>2 DEF RunOK, Sound, RowTells

\* What recovery makes of a row whose transaction h is in a block.
LEMMA RecoveredRow ==
  ASSUME CeremonyAssumption, CeremonyInv, CostInv, NEW k \in IdempotencyKeys, Present(k),
         Fate(k) # "none", NEW o, o \in Operation, o.phase # "ABSENT", o.cost = ops[k].cost
  PROVE  LET n == ReconcileRecoveryCosts(o, "CONSUMED")
         IN  /\ Booked(n, spent[k], Fate(k)) /\ n.owner = o.owner /\ n.phase = o.phase
             /\ NoneReserved(n)
<1>1. Charged(ops[k], spent[k], Fate(k)) /\ spent[k] \in SUBSET PaidStages
  BY DEF CostInv, CostRow, CeremonyInv, CeremonyTypeOK
<1>2. Charged(o, spent[k], Fate(k))
  BY <1>1 DEF Charged
<1>3. Booked(ReconcileRecoveryCosts(o, "CONSUMED"), spent[k], Fate(k))
  BY <1>1, <1>2, RecoveryBooks
<1>4. /\ ReconcileRecoveryCosts(o, "CONSUMED").owner = o.owner
      /\ ReconcileRecoveryCosts(o, "CONSUMED").phase = o.phase
  BY DEF ReconcileRecoveryCosts, Operation
<1>. QED
  BY <1>3, <1>4 DEF Booked

LEMMA CompleteRow ==
  ASSUME NEW o \in Operation, NEW status, NEW hash
  PROVE  /\ Complete(o, status, hash).owner = o.owner
         /\ Complete(o, status, hash).cost = o.cost
         /\ NoneReserved(o) => NoneReserved(Complete(o, status, hash))
BY DEF Complete, Advance, Operation, NoneReserved

LEMMA HashRow ==
  ASSUME NEW o \in Operation, o.phase # "ABSENT", NEW c, NEW h \in Runs
  PROVE  LET n == WithHash(c, o, h)
         IN  n \in Operation /\ n.phase # "ABSENT" /\ n.cost = o.cost /\ n.owner = o.owner
BY ZenonT(60) DEF WithHash, RecordTransactionHash, Advance, Operation, Phases

LEMMA RecoveryCosts ==
  ASSUME CeremonyAssumption, CeremonyInv, CostInv, Kept, NEW c \in Recoverers, RecoveryStep(c)
  PROVE  CostInv'
<1>. PICK k : k = rec[c].key
  OBVIOUS
<1>0. /\ UNCHANGED <<run, tx, spent>>
      /\ rec[c] \in RecState /\ RecOK(c) /\ rec \in [Recoverers -> RecState]
      /\ ops \in [IdempotencyKeys -> Operation]
  BY DEF RecoveryStep, RecoverUnknown, RecoverReadBack, RecoverAborted, RecoverReverted,
         RecoverFinalized, CeremonyInv, CeremonyTypeOK
<1>1. EndRecovery(c) => \A d \in Recoverers : rec'[d].pc = "reading" => rec'[d] = rec[d]
  BY <1>0 DEF EndRecovery, IdleRec
<1>2. ASSUME UNCHANGED ops, EndRecovery(c)
      PROVE  CostInv'
  <2>1. \A j \in IdempotencyKeys : Fate(j)' = Fate(j) /\ PcOf(j)' = PcOf(j)
    BY <1>0, <1>2 DEF Fate, PcOf
  <2>. QED
    BY <1>0, <1>1, <1>2, <2>1, SameRows
\* The row ends up with nothing reserved.
<1>3. ASSUME k \in IdempotencyKeys, Present(k), Fate(k) # "none", NEW n, SetRow(k, n),
             n.owner = ops[k].owner,
             CostRow(n, spent[k], Fate(k), PcOf(k)), NoneReserved(n),
             EndRecovery(c) \/ rec' = [rec EXCEPT ![c].pc = "reading", ![c].hash = ops[k].owner],
             n.phase \notin PreSend
      PROVE  CostInv'
  <2>1. \A d \in Recoverers : rec'[d].pc = "reading" =>
           rec'[d] = rec[d] \/ (rec'[d].key = k /\ NoneReserved(n) /\ n.phase \notin PreSend)
    BY <1>0, <1>1, <1>3 DEF RecState
  <2>. QED
    BY <1>0, <1>3, <2>1, RowCosts
<1>4. CASE RecoverUnknown(c) \/ RecoverAborted(c)
  BY <1>2, <1>4 DEF RecoverUnknown, RecoverAborted
<1>5. ASSUME k \in IdempotencyKeys, Present(k), Fate(k) # "none", NEW n, SetRow(k, n)
      PROVE  n.phase \notin PreSend
  <2>1. ops'[k] = n
    BY <1>0, <1>5 DEF SetRow
  <2>2. ops[k].phase \notin PreSend
    BY <1>5, OwnerSent
  <2>. QED
    BY <1>5, <2>1, <2>2 DEF Kept, RowsFollow, Follows
<1>6. ASSUME NEW h \in Runs, RecoverReverted(c, h)
      PROVE  CostInv'
  <2>. DEFINE o == WithHash(c, ops[k], h)
              p == ReconcileRecoveryCosts(o, "CONSUMED")
              n == Complete(p, "REVERTED", h)
  <2>1. /\ k \in IdempotencyKeys /\ Present(k) /\ ops[k].owner = h
        /\ ops[k].phase # "ABSENT" /\ Fate(k) = "reverted"
    BY <1>6, InspectedIsOwn DEF RecoverReverted, Present
  <2>2. o \in Operation /\ o.phase # "ABSENT" /\ o.cost = ops[k].cost /\ o.owner = ops[k].owner
    BY <1>0, <2>1, HashRow
  <2>. HIDE DEF o
  <2>3. Booked(p, spent[k], Fate(k)) /\ NoneReserved(p) /\ p.owner = ops[k].owner
    BY <2>1, <2>2, RecoveredRow
  <2>. HIDE DEF p
  <2>4. n.owner = ops[k].owner /\ NoneReserved(n)
    BY <2>3, CompleteRow DEF Booked
  <2>5. PcOf(k) \notin Between /\ PcOf(k) # "preflight"
    BY <2>1, OwnerSent DEF BeforeSend, Between
  <2>6. CostRow(n, spent[k], Fate(k), PcOf(k))
    BY <2>3, <2>5, CompleteBooked DEF Definite
  <2>7. CASE SetRow(k, n) /\ EndRecovery(c)
    <3>. HIDE DEF n
    <3>. QED
      BY <1>3, <1>5, <2>1, <2>4, <2>6, <2>7
  <2>8. CASE UNCHANGED ops /\ EndRecovery(c)
    BY <1>2, <2>8
  <2>. QED
    BY <1>6, <2>7, <2>8 DEF RecoverReverted, n, p, o
<1>7. ASSUME NEW h \in Runs, RecoverFinalized(c, h)
      PROVE  CostInv'
  <2>. DEFINE o == WithHash(c, ops[k], h)
              p == IF rec[c].phase = "FINALIZED" THEN o ELSE RecordFinalized(o, h)
              n == ReconcileRecoveryCosts(p, "CONSUMED")
  <2>1. /\ k \in IdempotencyKeys /\ Present(k) /\ ops[k].owner = h
        /\ ops[k].phase # "ABSENT" /\ Fate(k) = "mined"
    BY <1>7, InspectedIsOwn DEF RecoverFinalized, Present
  <2>2. o \in Operation /\ o.phase # "ABSENT" /\ o.cost = ops[k].cost /\ o.owner = ops[k].owner
    BY <1>0, <2>1, HashRow
  <2>. HIDE DEF o
  <2>3. p \in Operation /\ p.phase # "ABSENT" /\ p.cost = ops[k].cost /\ p.owner = ops[k].owner
    BY ZenonT(60), <2>2 DEF RecordFinalized, Advance, Operation, Phases
  <2>. HIDE DEF p
  <2>4. Booked(n, spent[k], Fate(k)) /\ NoneReserved(n) /\ n.owner = ops[k].owner
    BY <2>1, <2>3, RecoveredRow
  <2>. HIDE DEF n
  <2>5. PcOf(k) \notin Between /\ PcOf(k) # "preflight"
    BY <2>1, OwnerSent DEF BeforeSend, Between
  <2>6. CASE SetRow(k, n) /\ rec' = [rec EXCEPT ![c].pc = "reading", ![c].hash = h]
    <3>1. n.phase \notin PreSend
      BY <1>5, <2>1, <2>6
    <3>2. CostRow(n, spent[k], Fate(k), PcOf(k))
      BY <2>4, <2>5, <3>1, BookedRow
    <3>. QED
      BY <1>3, <2>1, <2>4, <2>6, <3>1, <3>2
  <2>7. CASE UNCHANGED ops /\ EndRecovery(c)
    BY <1>2, <2>7
  <2>. QED
    BY <1>7, <2>6, <2>7 DEF RecoverFinalized, n, p, o
<1>8. CASE RecoverReadBack(c)
  <2>1. /\ k \in IdempotencyKeys /\ Present(k) /\ rec[c].hash = ops[k].owner
        /\ tx[ops[k].owner] = "mined" /\ ops[k] \in Operation /\ ops[k].phase # "ABSENT"
    BY <1>0, <1>8 DEF RecoverReadBack, RecOK, RecState, Present
  <2>2. Fate(k) # "none"
    BY <2>1, SoundRow
  <2>3. Booked(ops[k], spent[k], Fate(k)) /\ NoneReserved(ops[k])
    BY <1>8, <2>1 DEF CostInv, CostRow, Booked, RecoverReadBack
  <2>4. PcOf(k) \notin Between /\ PcOf(k) # "preflight"
    BY <2>1, <2>2, OwnerSent DEF BeforeSend, Between
  <2>5. ASSUME NEW status \in {"SEALED", "FINALIZED_READBACK_UNAVAILABLE"},
               SetRow(k, Complete(ops[k], status, rec[c].hash)), EndRecovery(c)
        PROVE  CostInv'
    <3>. DEFINE n == Complete(ops[k], status, rec[c].hash)
    <3>1. n.owner = ops[k].owner /\ NoneReserved(n)
      BY <2>1, <2>3, CompleteRow
    <3>2. CostRow(n, spent[k], Fate(k), PcOf(k))
      BY <2>3, <2>4, CompleteBooked DEF Definite, Uncertain
    <3>3. SetRow(k, n)
      BY <2>5
    <3>. HIDE DEF n
    <3>. QED
      BY <1>3, <1>5, <2>1, <2>2, <2>5, <3>1, <3>2, <3>3
  <2>. QED
    BY <1>8, <2>5 DEF RecoverReadBack
<1>. QED
  BY <1>4, <1>6, <1>7, <1>8 DEF RecoveryStep

\* A row that is past its grace period is closed with its books in order.
LEMMA PreSendCosts ==
  ASSUME CeremonyAssumption, CeremonyInv, CostInv, NEW k \in IdempotencyKeys,
         ops[k].phase \in PreSend, ~ops[k].fresh
  PROVE  LET p == ReconcileRecoveryCosts(ops[k], "RELEASED")
             n == Complete(p, "NOT_BROADCAST", None)
         IN  /\ Booked(p, spent[k], Fate(k)) /\ p.owner = ops[k].owner
             /\ CostRow(n, spent[k], Fate(k), PcOf(k)) /\ NoneReserved(n)
             /\ n.owner = ops[k].owner
<1>. DEFINE p == ReconcileRecoveryCosts(ops[k], "RELEASED")
            n == Complete(p, "NOT_BROADCAST", None)
<1>1. /\ ops[k] \in Operation /\ ops[k].phase # "ABSENT" /\ RowTells(ops[k], Fate(k))
      /\ CostRow(ops[k], spent[k], Fate(k), PcOf(k)) /\ spent[k] \in SUBSET PaidStages
  BY DEF CeremonyInv, CeremonyTypeOK, RowsOK, CostInv, PreSend
<1>2. Fate(k) = "none" /\ PcOf(k) \notin Between
  BY <1>1 DEF RowTells, CostRow
<1>3. Booked(p, spent[k], Fate(k))
  BY <1>1, <1>2, RecoveryBooks DEF CostRow
<1>4. p \in Operation /\ p.owner = ops[k].owner /\ p.phase \in PreSend
  BY <1>1, <1>3 DEF ReconcileRecoveryCosts, Operation, Booked
<1>. HIDE DEF p
<1>5. n.phase = "TERMINAL"
  BY <1>4 DEF Complete, CanComplete, CompletableFrom, Advance, Operation, Uncertain
<1>6. CostRow(n, spent[k], Fate(k), PcOf(k))
  BY <1>2, <1>3, <1>5, CompleteBooked DEF Definite, PreSend
<1>7. NoneReserved(n) /\ n.owner = ops[k].owner
  BY <1>3, <1>4, CompleteRow DEF Booked
<1>. QED
  BY <1>3, <1>4, <1>6, <1>7 DEF p

LEMMA RequestCosts ==
  ASSUME CeremonyAssumption, CeremonyInv, CostInv, Kept,
         \/ \E c \in Recoverers, k \in IdempotencyKeys, h \in Runs \cup {None} :
              RecoverWrite(c, k, h)
         \/ \E k \in IdempotencyKeys : RecoverPreSend(k) \/ GoesStale(k)
  PROVE  CostInv'
<1>1. ASSUME NEW c \in Recoverers, NEW k \in IdempotencyKeys, NEW h \in Runs \cup {None},
             RecoverWrite(c, k, h)
      PROVE  CostInv'
  <2>1. rec \in [Recoverers -> RecState] /\ UNCHANGED <<ops, run, tx, spent>>
    BY <1>1 DEF RecoverWrite, CeremonyInv, CeremonyTypeOK
  <2>2. \A d \in Recoverers : rec'[d].pc = "reading" => rec'[d] = rec[d]
    BY <1>1, <2>1 DEF RecoverWrite
  <2>3. \A j \in IdempotencyKeys : Fate(j)' = Fate(j) /\ PcOf(j)' = PcOf(j)
    BY <2>1 DEF Fate, PcOf
  <2>. QED
    BY <2>1, <2>2, <2>3, SameRows
<1>2. ASSUME NEW k \in IdempotencyKeys, RecoverPreSend(k)
      PROVE  CostInv'
  <2>. DEFINE n == Complete(ReconcileRecoveryCosts(ops[k], "RELEASED"), "NOT_BROADCAST", None)
  <2>1. /\ SetRow(k, n) /\ UNCHANGED <<run, rec, tx, spent>>
        /\ ops[k].phase \in PreSend /\ ~ops[k].fresh
    BY <1>2 DEF RecoverPreSend
  <2>2. /\ CostRow(n, spent[k], Fate(k), PcOf(k)) /\ NoneReserved(n)
        /\ n.owner = ops[k].owner
    BY <2>1, PreSendCosts
  <2>. HIDE DEF n
  <2>. QED
    BY <2>1, <2>2, RowCosts
<1>3. ASSUME NEW k \in IdempotencyKeys, GoesStale(k)
      PROVE  CostInv'
  <2>. DEFINE n == [ops[k] EXCEPT !.fresh = FALSE]
  <2>1. /\ SetRow(k, n) /\ UNCHANGED <<run, rec, tx, spent>> /\ ops[k] \in Operation
        /\ ops[k].phase \in PreSend /\ run[ops[k].owner].pc \notin Between
    BY <1>3 DEF GoesStale, Between, CeremonyInv, CeremonyTypeOK
  <2>2. n.owner = ops[k].owner /\ n.phase = ops[k].phase /\ n.cost = ops[k].cost
    BY <2>1 DEF Operation
  <2>. HIDE DEF n
  <2>3. PcOf(k) \notin Between
    BY <2>1 DEF PcOf, Between
  <2>4. CostRow(n, spent[k], Fate(k), PcOf(k)) /\ (NoneReserved(ops[k]) => NoneReserved(n))
    BY <2>2, <2>3 DEF CostInv, CostRow, Charged, NoneReserved
  <2>. QED
    BY <2>1, <2>2, <2>4, RowCosts
<1>. QED
  BY <1>1, <1>2, <1>3

\* Nobody waits any more for what was reserved.
LEMMA KillCosts ==
  ASSUME CeremonyAssumption, CeremonyInv, CostInv,
         Crash \/ \E k \in IdempotencyKeys : CrashInRecovery(k)
  PROVE  CostInv'
<1>0. /\ ops \in [IdempotencyKeys -> Operation] /\ run \in [Runs -> RunState]
      /\ Killed /\ UNCHANGED <<tx, spent>>
      /\ \A c \in Recoverers : rec'[c].pc # "reading"
  BY DEF CeremonyInv, CeremonyTypeOK, Crash, CrashInRecovery, Killed, IdleRec
<1>1. ASSUME NEW j \in IdempotencyKeys, Present(j), ops'[j].owner = ops[j].owner
      PROVE  PcOf(j)' = "ended" /\ Fate(j)' = Fate(j)
  <2>1. ops[j].owner \in Runs /\ ops[j].owner # None
    BY <1>1, SoundRow DEF CeremonyAssumption
  <2>2. run[ops[j].owner].pc # "idle"
    BY <1>1 DEF CeremonyInv, OwnersOK
  <2>3. run'[ops[j].owner].pc = "ended"
    BY <1>0, <2>1, <2>2 DEF Killed, At, RunState
  <2>. QED
    BY <1>0, <1>1, <2>1, <2>3 DEF PcOf, Fate
<1>2. ASSUME NEW j \in IdempotencyKeys, ops'[j] = ops[j]
      PROVE  CostRow(ops'[j], spent'[j], Fate(j)', PcOf(j)')
  <2>1. CASE Present(j)
    BY <1>0, <1>1, <1>2, <2>1 DEF CostInv, CostRow, Between
  <2>2. CASE ~Present(j)
    <3>1. ops[j].owner = None
      BY <2>2 DEF Present, CeremonyInv, RowsOK, RowOK
    <3>. QED
      BY <1>0, <1>2, <3>1, OtherRow DEF PcOf, Fate
  <2>. QED
    BY <2>1, <2>2
<1>3. CASE Crash
  BY <1>0, <1>2, <1>3 DEF Crash, CostInv
<1>4. ASSUME NEW k \in IdempotencyKeys, CrashInRecovery(k)
      PROVE  CostInv'
  <2>. DEFINE p == ReconcileRecoveryCosts(ops[k], "RELEASED")
  <2>1. SetRow(k, p) /\ ops[k].phase \in PreSend /\ ~ops[k].fresh
    BY <1>4 DEF CrashInRecovery
  <2>2. Booked(p, spent[k], Fate(k)) /\ p.owner = ops[k].owner
    BY <2>1, PreSendCosts
  <2>. HIDE DEF p
  <2>3. ops'[k] = p /\ \A j \in IdempotencyKeys \ {k} : ops'[j] = ops[j]
    BY <1>0, <2>1 DEF SetRow
  <2>4. PcOf(k)' = "ended" /\ Fate(k)' = Fate(k)
    BY <1>1, <2>1, <2>2, <2>3 DEF Present, PreSend
  <2>5. CostRow(p, spent[k], Fate(k), "ended")
    BY <2>2, BookedRow DEF Between
  <2>. QED
    BY <1>0, <1>2, <2>3, <2>4, <2>5 DEF CostInv
<1>. QED
  BY <1>3, <1>4

LEMMA NetworkCosts ==
  ASSUME CeremonyAssumption, CeremonyInv, CostInv, NEW r \in Runs, NetworkStep(r)
  PROVE  CostInv'
<1>1. /\ tx \in [Runs -> {"none", "sent", "mined", "reverted", "dropped"}]
      /\ tx[r] = "sent" /\ UNCHANGED <<ops, run, rec, spent>>
      /\ \/ tx' = [tx EXCEPT ![r] = "mined"]
         \/ tx' = [tx EXCEPT ![r] = "reverted"]
         \/ tx' = [tx EXCEPT ![r] = "dropped"]
  BY DEF NetworkStep, Mine, Revert, Drop, CeremonyInv, CeremonyTypeOK
<1>2. ops \in [IdempotencyKeys -> Operation]
  BY DEF CeremonyInv, CeremonyTypeOK
<1>3. ASSUME NEW j \in IdempotencyKeys
      PROVE  /\ Fate(j)' = Fate(j) \/ (Fate(j)' # "none" /\ Fate(j) # "none")
             /\ PcOf(j)' = PcOf(j)
  BY <1>1, <1>2 DEF Fate, PcOf, Operation
<1>. QED
  BY <1>1, <1>3, SameRows

LEMMA IdleCosts ==
  ASSUME CeremonyInv, CostInv, UNCHANGED <<ops, run, rec, tx, spent>>
  PROVE  CostInv'
<1>1. \A j \in IdempotencyKeys : Fate(j)' = Fate(j) /\ PcOf(j)' = PcOf(j)
  BY DEF Fate, PcOf
<1>. QED
  BY <1>1, SameRows

LEMMA SubmitCosts ==
  ASSUME CeremonyAssumption, CeremonyInv, CostInv, NEW r \in Runs, NEW request \in Requests,
         Submit(r, request)
  PROVE  CostInv'
<1>1. \A j \in IdempotencyKeys : ops[j].owner # r
  BY NotBegun DEF Submit, At
<1>2. PICK w : run' = [run EXCEPT ![r] = w]
  BY DEF Submit
<1>. QED
  BY <1>1, <1>2, StrangerCosts DEF Submit

LEMMA StepCosts ==
  ASSUME CeremonyAssumption, CeremonyInv, CostInv, [CeremonyNext]_cvars
  PROVE  CostInv'
<1>1. CASE UNCHANGED cvars
  BY <1>1, IdleCosts DEF cvars
<1>2. CASE CeremonyNext
  <2>0. Kept
    BY <1>2, StepKeeps
  <2>1. ASSUME NEW r \in Runs, RunnerStep(r)
        PROVE  CostInv'
    <3>1. CASE run[r].pc = "checking"
      <4>1. Admit(r) \/ ChecksFail(r)
        BY <2>1, <3>1 DEF RunnerStep, StartCompute, ComputeReturns, ComputeFails, StartUpload,
           UploadReturns, UploadFails, CommitChainInput, StartWrite, Preflight, PreflightFails,
           SendReturns, SendFails, ReceiptSucceeds, ReceiptReverts, ReceiptTimesOut, ReadBack,
           ReadBackFails, At
      <4>. QED
        BY <4>1, AdmitCosts
    <3>2. CASE run[r].pc # "checking"
      BY <2>0, <2>1, <3>2, WorkingCosts
    <3>. QED
      BY <3>1, <3>2
  <2>2. ASSUME NEW r \in Runs, NetworkStep(r)
        PROVE  CostInv'
    BY <2>2, NetworkCosts
  <2>3. ASSUME NEW r \in Runs, NEW request \in Requests, Submit(r, request)
        PROVE  CostInv'
    BY <2>3, SubmitCosts
  <2>4. ASSUME NEW c \in Recoverers, RecoveryStep(c)
        PROVE  CostInv'
    BY <2>0, <2>4, RecoveryCosts
  <2>5. ASSUME NEW i \in Identities,
               ForeignWrite(i) \/ \E state \in LeaseStates : GuardianWithdraws(i, state)
        PROVE  CostInv'
    BY <2>5, IdleCosts DEF ForeignWrite, GuardianWithdraws
  <2>. QED
    BY <1>2, <2>0, <2>1, <2>2, <2>3, <2>4, <2>5, RequestCosts, KillCosts DEF CeremonyNext
<1>. QED
  BY <1>1, <1>2

LEMMA InitCosts ==
  ASSUME CeremonyAssumption, CeremonyInit
  PROVE  CostInv
<1>1. /\ ops = [k \in IdempotencyKeys |-> NoOperation]
      /\ NoOperation.phase = "ABSENT" /\ NoOperation.owner = None
      /\ \A s \in PaidStages : NoOperation.cost[s] = "none"
  BY DEF CeremonyInit, JournalInit, NoOperation
<1>2. \A k \in IdempotencyKeys : spent[k] = {} /\ Fate(k) = "none" /\ PcOf(k) = "none"
  BY <1>1 DEF CeremonyInit, Fate, PcOf
<1>3. \A k \in IdempotencyKeys : CostRow(ops[k], spent[k], Fate(k), PcOf(k))
  BY <1>1, <1>2 DEF CostRow, Charged, NoneReserved, Between, PaidStages
<1>4. \A c \in Recoverers : rec[c].pc # "reading"
  BY DEF CeremonyInit, IdleRec
<1>. QED
  BY <1>3, <1>4 DEF CostInv

-----------------------------------------------------------------------------
\* Whatever was really spent is on the books when an operation is closed, and a
\* registry write that never left is not charged, however runner, recovery and
\* crashes fall together (recovery.test.ts:77).
THEOREM CostsAlwaysMatch == CeremonySpec => []CostsMatchWork
<1>1. CeremonyInit => CostInv
  BY InitCosts, CeremonyAssumption
<1>2. CeremonyInv /\ CostInv /\ [CeremonyNext]_cvars => CostInv'
  BY StepCosts, CeremonyAssumption
<1>3. CeremonyInv /\ CostInv => CostsMatchWork
  <2>. SUFFICES ASSUME CeremonyInv, CostInv, NEW k \in IdempotencyKeys,
                       ops[k].phase = "TERMINAL"
                PROVE  /\ \A s \in spent[k] : ops[k].cost[s] = "CONSUMED"
                       /\ ops[k].cost["REGISTRY"] = "CONSUMED" => "REGISTRY" \in spent[k]
    BY DEF CostsMatchWork
  <2>1. spent[k] \in SUBSET PaidStages
    BY DEF CeremonyInv, CeremonyTypeOK
  <2>2. Charged(ops[k], spent[k], Fate(k)) /\ NoneReserved(ops[k])
    BY DEF CostInv, CostRow
  <2>. QED
    BY <2>1, <2>2 DEF Charged, NoneReserved, PaidStages
<1>. QED
  BY <1>1, <1>2, <1>3, CeremonyInvariant, PTL DEF CeremonySpec

-----------------------------------------------------------------------------
(***************************************************************************)
(* The daily ceiling.  The units counted today never exceed it: a step     *)
(* counts no more stages of an operation that was begun, since a closed    *)
(* one was charged for what was spent on it and nothing is spent on it     *)
(* any more; and begin adds one budget, for which there is room.           *)
(***************************************************************************)

Counted == [k \in IdempotencyKeys |-> CountedCost(ops[k])]
CeilingInv == CostToday <= dailyCostUnitsLimit

LEMMA StagesAreFinite == IsFiniteSet(PaidStages) /\ Cardinality(PaidStages) \in Nat
<1>1. IsFiniteSet({"COMPUTE"}) /\ IsFiniteSet({"STORAGE"}) /\ IsFiniteSet({"REGISTRY"})
  BY FS_Singleton
<1>2. IsFiniteSet({"COMPUTE"} \cup {"STORAGE"})
  BY <1>1, FS_Union
<1>3. IsFiniteSet(({"COMPUTE"} \cup {"STORAGE"}) \cup {"REGISTRY"})
  BY <1>1, <1>2, FS_Union
<1>4. PaidStages = ({"COMPUTE"} \cup {"STORAGE"}) \cup {"REGISTRY"}
  BY DEF PaidStages
<1>. QED
  BY <1>3, <1>4, FS_CardinalityType

\* Fewer stages are no more units.
LEMMA UnitsOfFewer ==
  ASSUME CeremonyAssumption, NEW few, NEW many,
         \A k \in IdempotencyKeys : \A s \in PaidStages : s \in few[k] => s \in many[k]
  PROVE  Units(few) <= Units(many) /\ Units(few) \in Nat /\ Units(many) \in Nat
<1>1. IsFiniteSet(IdempotencyKeys \X PaidStages)
  BY StagesAreFinite, FS_Product DEF CeremonyAssumption
<1>2. PICK F : F = {u \in IdempotencyKeys \X PaidStages : u[2] \in few[u[1]]}
  OBVIOUS
<1>3. PICK M : M = {u \in IdempotencyKeys \X PaidStages : u[2] \in many[u[1]]}
  OBVIOUS
<1>4. F \subseteq M /\ M \subseteq IdempotencyKeys \X PaidStages
  BY <1>2, <1>3
<1>5. IsFiniteSet(M)
  BY <1>1, <1>4, FS_Subset
<1>6. IsFiniteSet(F) /\ Cardinality(F) <= Cardinality(M)
  BY <1>4, <1>5, FS_Subset
<1>. QED
  BY <1>2, <1>3, <1>5, <1>6, FS_CardinalityType DEF Units

\* One more operation is at most one more budget.
LEMMA UnitsOfOneMore ==
  ASSUME CeremonyAssumption, NEW old, NEW new, NEW k \in IdempotencyKeys,
         \A j \in IdempotencyKeys \ {k} : new[j] = old[j]
  PROVE  Units(new) <= Units(old) + Budget
<1>1. IsFiniteSet(IdempotencyKeys \X PaidStages)
  BY StagesAreFinite, FS_Product DEF CeremonyAssumption
<1>2. PICK O : O = {u \in IdempotencyKeys \X PaidStages : u[2] \in old[u[1]]}
  OBVIOUS
<1>3. PICK N : N = {u \in IdempotencyKeys \X PaidStages : u[2] \in new[u[1]]}
  OBVIOUS
<1>4. PICK P : P = {k} \X PaidStages
  OBVIOUS
<1>5. N \subseteq O \cup P
  BY <1>2, <1>3, <1>4
<1>6. IsFiniteSet(O) /\ Cardinality(O) \in Nat
  BY <1>1, <1>2, FS_Subset, FS_CardinalityType
<1>7. IsFiniteSet(P) /\ Cardinality(P) = Budget /\ Budget \in Nat
  <2>1. IsFiniteSet({k}) /\ Cardinality({k}) = 1
    BY FS_Singleton
  <2>2. IsFiniteSet(P) /\ Cardinality(P) = 1 * Cardinality(PaidStages)
    BY <1>4, <2>1, StagesAreFinite, FS_Product
  <2>. QED
    BY <2>2, StagesAreFinite DEF Budget
<1>8. /\ IsFiniteSet(O \cup P) /\ Cardinality(O \cap P) \in Nat
      /\ Cardinality(O \cup P) = Cardinality(O) + Cardinality(P) - Cardinality(O \cap P)
  BY <1>6, <1>7, FS_Union, FS_Intersection, FS_CardinalityType
<1>9. Cardinality(N) <= Cardinality(O \cup P) /\ Cardinality(N) \in Nat
  BY <1>5, <1>8, FS_Subset, FS_CardinalityType
<1>. QED
  BY <1>2, <1>3, <1>6, <1>7, <1>8, <1>9 DEF Units

\* Nothing is spent on a closed operation.
LEMMA ClosedSpendsNothing ==
  ASSUME CeremonyAssumption, CeremonyInv, CostInv, [CeremonyNext]_cvars,
         NEW k \in IdempotencyKeys, ops[k].phase = "TERMINAL"
  PROVE  spent'[k] = spent[k]
<1>0. spent \in [IdempotencyKeys -> SUBSET PaidStages]
  BY DEF CeremonyInv, CeremonyTypeOK
<1>1. ASSUME NEW r \in Runs, run[r].pc \in Between \/ (run[r].pc = "preflight" /\ CanRecordSubmissionAttempt(ops[run[r].key]))
      PROVE  run[r].key # k
  <2>1. Working(r)
    BY <1>1 DEF Working, Between
  <2>2. /\ run[r].key \in IdempotencyKeys /\ PcOf(run[r].key) = run[r].pc
    BY <2>1, OwnedRow DEF PcOf, CeremonyAssumption
  <2>3. CASE run[r].pc \in Between
    BY <2>2, <2>3 DEF CostInv, CostRow, Between, PhaseAt
  <2>4. CASE CanRecordSubmissionAttempt(ops[run[r].key])
    BY <2>4 DEF CanRecordSubmissionAttempt
  <2>. QED
    BY <1>1, <2>3, <2>4
<1>2. ASSUME NEW r \in Runs, StartCompute(r) PROVE spent'[k] = spent[k]
  BY <1>0, <1>1, <1>2 DEF StartCompute, At, Between
<1>3. ASSUME NEW r \in Runs, StartUpload(r) PROVE spent'[k] = spent[k]
  BY <1>0, <1>1, <1>3 DEF StartUpload, At, Between
<1>4. ASSUME NEW r \in Runs, Preflight(r) PROVE spent'[k] = spent[k]
  BY <1>0, <1>1, <1>4 DEF Preflight, At
<1>5. ASSUME NEW r \in Runs, RunnerStep(r) PROVE spent'[k] = spent[k]
  BY <1>2, <1>3, <1>4, <1>5
     DEF RunnerStep, Admit, ChecksFail, ComputeReturns, ComputeFails, UploadReturns, UploadFails,
         CommitChainInput, StartWrite, PreflightFails, SendReturns, SendFails, ReceiptSucceeds,
         ReceiptReverts, ReceiptTimesOut, ReadBack, ReadBackFails
<1>6. ASSUME NEW c \in Recoverers, RecoveryStep(c) PROVE spent'[k] = spent[k]
  BY <1>6 DEF RecoveryStep, RecoverUnknown, RecoverReadBack, RecoverAborted, RecoverReverted,
              RecoverFinalized
<1>. QED
  BY <1>5, <1>6 DEF CeremonyNext, NetworkStep, Mine, Revert, Drop, Submit, RecoverWrite, RecoverPreSend,
                    GoesStale, CrashInRecovery, Crash, Killed, GuardianWithdraws, ForeignWrite, cvars

\* A closed operation was charged for exactly what was spent on it.
LEMMA ClosedIsCharged ==
  ASSUME CeremonyInv, CostInv, NEW k \in IdempotencyKeys, ops[k].phase = "TERMINAL"
  PROVE  CountedCost(ops[k]) = spent[k]
<1>1. spent[k] \in SUBSET PaidStages
  BY DEF CeremonyInv, CeremonyTypeOK
<1>2. Charged(ops[k], spent[k], Fate(k)) /\ NoneReserved(ops[k])
  BY DEF CostInv, CostRow
<1>. QED
  BY <1>1, <1>2 DEF Charged, NoneReserved, CountedCost, Consumed

\* What was spent is counted.
LEMMA SpentIsCounted ==
  ASSUME CeremonyInv, CostInv, NEW k \in IdempotencyKeys
  PROVE  spent[k] \subseteq CountedCost(ops[k])
<1>1. spent[k] \in SUBSET PaidStages
  BY DEF CeremonyInv, CeremonyTypeOK
<1>2. CASE ops[k].phase = "TERMINAL"
  BY <1>2, ClosedIsCharged
<1>3. CASE ops[k].phase # "TERMINAL"
  BY <1>1, <1>3 DEF CostInv, CostRow, CountedCost
<1>. QED
  BY <1>2, <1>3

LEMMA CeilingKeeps ==
  ASSUME CeremonyAssumption, CeremonyInv, CostInv, CeilingInv, [CeremonyNext]_cvars
  PROVE  CeilingInv'
<1>1. Kept /\ CostInv'
  BY StepKeeps, StutterKeeps, StepCosts
<1>2. PICK old : old = Counted
  OBVIOUS
<1>3. PICK new : new = Counted'
  OBVIOUS
<1>4. /\ \A k \in IdempotencyKeys : old[k] = CountedCost(ops[k]) /\ new[k] = CountedCost(ops[k])'
      /\ CostToday = Units(old) /\ CostToday' = Units(new)
  <2>1. Units(Counted)' = Units(Counted')
    BY DEF Units
  <2>. QED
    BY <1>2, <1>3, <2>1 DEF Counted, CostToday
<1>5. ASSUME NEW k \in IdempotencyKeys, Present(k)
      PROVE  \A s \in PaidStages : s \in new[k] => s \in old[k]
  <2>1. CASE ops[k].phase = "TERMINAL"
    <3>1. ops'[k].phase = "TERMINAL"
      BY <1>1, <1>5, <2>1 DEF Kept, RowsFollow, Follows
    <3>2. CountedCost(ops[k])' = spent'[k]
      <4>1. spent'[k] \in SUBSET PaidStages
        BY <1>1 DEF Kept, CeremonyInv, CeremonyTypeOK
      <4>2. Charged(ops[k], spent[k], Fate(k))' /\ NoneReserved(ops[k])'
        BY <1>1, <3>1 DEF CostInv, CostRow
      <4>. QED
        BY <3>1, <4>1, <4>2 DEF Charged, NoneReserved, CountedCost, Consumed
    <3>3. spent'[k] = spent[k] /\ CountedCost(ops[k]) = spent[k]
      BY <2>1, ClosedSpendsNothing, ClosedIsCharged
    <3>. QED
      BY <1>4, <3>2, <3>3
  <2>2. CASE ops[k].phase # "TERMINAL"
    <3>1. CountedCost(ops[k]) = PaidStages
      BY <1>5, <2>2 DEF CountedCost, Present
    <3>. QED
      BY <1>4, <3>1
  <2>. QED
    BY <2>1, <2>2
<1>6. ASSUME NEW k \in IdempotencyKeys, ops'[k] = ops[k]
      PROVE  new[k] = old[k]
  BY <1>4, <1>6 DEF CountedCost, Consumed
<1>7. CASE \A k \in IdempotencyKeys : Present(k) \/ ops'[k] = ops[k]
  <2>1. \A k \in IdempotencyKeys : \A s \in PaidStages : s \in new[k] => s \in old[k]
    BY <1>5, <1>6, <1>7
  <2>2. Units(new) <= Units(old) /\ Units(new) \in Nat /\ Units(old) \in Nat
    BY <2>1, UnitsOfFewer
  <2>3. dailyCostUnitsLimit \in Nat
    BY DEF CeremonyAssumption
  <2>. QED
    BY <1>4, <2>2, <2>3 DEF CeilingInv
<1>8. CASE Begins
  <2>1. PICK k \in IdempotencyKeys, r \in Runs, i \in Identities :
          Admissible(i) /\ \A j \in IdempotencyKeys \ {k} : ops'[j] = ops[j]
    BY <1>8 DEF Begins
  <2>2. Units(new) <= Units(old) + Budget
    BY <1>6, <2>1, UnitsOfOneMore
  <2>3. Units(old) + Budget <= dailyCostUnitsLimit
    BY <1>4, <2>1 DEF Admissible
  <2>4. Units(new) \in Nat /\ Units(old) \in Nat
    BY UnitsOfFewer
  <2>5. Budget \in Nat /\ dailyCostUnitsLimit \in Nat
    BY StagesAreFinite DEF Budget, CeremonyAssumption
  <2>. QED
    BY <1>4, <2>2, <2>3, <2>4, <2>5 DEF CeilingInv
<1>9. CASE ChangesOne \/ ChangesNone \/ Lands
  BY <1>7, <1>9 DEF ChangesOne, ChangesNone, Lands
<1>10. CASE Sends
  <2>1. \A k \in IdempotencyKeys : ops[k].phase \in PreSend => Present(k)
    BY DEF PreSend, Present
  <2>. QED
    BY <1>7, <1>10, <2>1 DEF Sends
<1>. QED
  BY <1>1, <1>8, <1>9, <1>10 DEF Kept, Change

LEMMA CeilingStarts == ASSUME CeremonyAssumption, CeremonyInit PROVE CeilingInv
<1>1. \A k \in IdempotencyKeys : CountedCost(ops[k]) = {}
  BY DEF CeremonyInit, JournalInit, NoOperation, CountedCost
<1>2. {u \in IdempotencyKeys \X PaidStages : u[2] \in Counted[u[1]]} = {}
  BY <1>1 DEF Counted
<1>3. CostToday = 0
  BY <1>2, FS_EmptySet DEF CostToday, Units, Counted
<1>. QED
  BY <1>3 DEF CeilingInv, CeremonyAssumption

\* The daily ceiling bounds what was really spent, through crashes, stale runners and
\* recovery (operation-journal.ts:172-181).
THEOREM SpendAlwaysWithinLimit == CeremonySpec => []SpendWithinDailyLimit
<1>1. CeremonyInit => CeremonyInv /\ CostInv /\ CeilingInv
  BY InitInv, InitCosts, CeilingStarts, CeremonyAssumption
<1>2. CeremonyInv /\ CostInv /\ CeilingInv /\ [CeremonyNext]_cvars => CeremonyInv' /\ CostInv' /\ CeilingInv'
  BY StepKeeps, StutterKeeps, StepCosts, CeilingKeeps, CeremonyAssumption DEF Kept
<1>3. CeremonyInv /\ CostInv /\ CeilingInv => SpendWithinDailyLimit
  <2>. SUFFICES ASSUME CeremonyInv, CostInv, CeilingInv PROVE Units(spent) <= dailyCostUnitsLimit
    BY DEF SpendWithinDailyLimit
  <2>1. \A k \in IdempotencyKeys : \A s \in PaidStages : s \in spent[k] => s \in Counted[k]
    BY SpentIsCounted DEF Counted
  <2>2. /\ Units(spent) <= Units(Counted) /\ Units(spent) \in Nat /\ Units(Counted) \in Nat
        /\ dailyCostUnitsLimit \in Nat
    BY <2>1, UnitsOfFewer, CeremonyAssumption DEF CeremonyAssumption
  <2>. QED
    BY <2>2 DEF CeilingInv, CostToday, Counted
<1>. QED
  BY <1>1, <1>2, <1>3, PTL DEF CeremonySpec

-----------------------------------------------------------------------------
(* The leases of the ceremony are those of the contract: they take no step  *)
(* that the contract would refuse, and are spared none that it would take.  *)

UnwrittenIsEmpty == \A i \in Identities : lease[i].version = 0 => lease[i].state = "NONE"

LEMMA LeasesAre ==
  ASSUME CeremonyTypeOK
  PROVE  /\ Leases \in [Identities -> [version : 0..MaxVersion, state : LeaseStates]]
         /\ \A i \in Identities : Leases[i].version = lease[i].version
                                  /\ Leases[i].state = lease[i].state
BY DEF Leases, CeremonyTypeOK, Lease

LEMMA OneLeaseMoves ==
  ASSUME CeremonyTypeOK, NEW i \in Identities, NEW new, lease' = [lease EXCEPT ![i] = new]
  PROVE  Leases' = [Leases EXCEPT ![i] = [version |-> new.version, state |-> new.state]]
<1>1. lease' = [j \in Identities |-> IF j = i THEN new ELSE lease[j]]
  BY DEF CeremonyTypeOK
<1>2. Leases' = [j \in Identities |-> [version |-> lease'[j].version, state |-> lease'[j].state]]
  BY DEF Leases
<1>3. ASSUME NEW j \in Identities
      PROVE  [version |-> lease'[j].version, state |-> lease'[j].state]
               = IF j = i THEN [version |-> new.version, state |-> new.state] ELSE Leases[j]
  BY <1>1 DEF Leases
<1>. QED
  BY <1>2, <1>3 DEF Leases

\* A lease that was not revoked gets its next version.
LEMMA NextVersionIsWritten ==
  ASSUME CeremonyTypeOK, UnwrittenIsEmpty, NEW i \in Identities, NEW by,
         lease[i].state # "REVOKED",
         lease' = [lease EXCEPT ![i] = [version |-> lease[i].version + 1, state |-> "ACTIVE", by |-> by]]
  PROVE  Lifecycle!LifecycleNext /\ UnwrittenIsEmpty'
<1>1. Leases[i].version = lease[i].version /\ Leases[i].state = lease[i].state
      /\ lease[i].version \in Nat
  BY LeasesAre DEF CeremonyTypeOK, Lease
<1>2. PICK new : new = [version |-> lease[i].version + 1, state |-> "ACTIVE", by |-> by]
  OBVIOUS
<1>3. Leases' = [Leases EXCEPT ![i] = [version |-> new.version, state |-> new.state]]
  BY <1>2, OneLeaseMoves
<1>4. Lifecycle!Write(i)
  BY <1>1, <1>2, <1>3 DEF Lifecycle!Write
<1>5. UnwrittenIsEmpty'
  BY <1>1 DEF UnwrittenIsEmpty, CeremonyTypeOK
<1>. QED
  BY <1>4, <1>5 DEF Lifecycle!LifecycleNext

LEMMA WithdrawalIsWithdrawn ==
  ASSUME CeremonyTypeOK, UnwrittenIsEmpty, NEW i \in Identities, NEW state, GuardianWithdraws(i, state)
  PROVE  Lifecycle!LifecycleNext /\ UnwrittenIsEmpty'
<1>1. Leases[i].version = lease[i].version /\ Leases[i].state = lease[i].state
      /\ lease[i] \in Lease /\ lease \in [Identities -> Lease]
  BY LeasesAre DEF CeremonyTypeOK
<1>2. <<lease[i].state, state>> \in Lifecycle!Withdrawals /\ state \in {"DRIFTED", "REVOKED"}
  BY DEF GuardianWithdraws, Lifecycle!Withdrawals
<1>3. PICK new : new = [lease[i] EXCEPT !.state = state]
  OBVIOUS
<1>4. lease' = [lease EXCEPT ![i] = new] /\ new.version = lease[i].version /\ new.state = state
  BY <1>1, <1>3 DEF GuardianWithdraws, Lease
<1>5. Leases' = [Leases EXCEPT ![i] = [version |-> new.version, state |-> new.state]]
  BY <1>4, OneLeaseMoves
<1>6. Lifecycle!Withdraw(i, state)
  BY <1>1, <1>2, <1>4, <1>5 DEF Lifecycle!Withdraw
<1>7. UnwrittenIsEmpty'
  <2>1. lease[i].version # 0
    BY DEF GuardianWithdraws, UnwrittenIsEmpty
  <2>. QED
    BY <1>1, <1>4, <2>1 DEF UnwrittenIsEmpty
<1>. QED
  BY <1>2, <1>6, <1>7 DEF Lifecycle!LifecycleNext

LEMMA LeasesStep ==
  ASSUME CeremonyAssumption, CeremonyInv, UnwrittenIsEmpty, [CeremonyNext]_cvars
  PROVE  [Lifecycle!LifecycleNext]_Leases /\ UnwrittenIsEmpty'
<1>1. CeremonyTypeOK
  BY DEF CeremonyInv
<1>2. CASE UNCHANGED lease
  BY <1>2 DEF Leases, UnwrittenIsEmpty
<1>3. ASSUME NEW r \in Runs, Mine(r)
      PROVE  Lifecycle!LifecycleNext /\ UnwrittenIsEmpty'
  <2>1. PICK i : i = run[r].identity
    OBVIOUS
  <2>2. i \in Identities /\ run[r].prior = lease[i].version /\ lease[i].state # "REVOKED"
    <3>1. RunOK(r) /\ run[r] \in RunState /\ tx[r] = "sent"
      BY <1>3 DEF CeremonyInv, CeremonyTypeOK, Mine
    <3>2. i \in Identities
      <4>1. PICK k : k = run[r].key
        OBVIOUS
      <4>2. k \in IdempotencyKeys /\ ops[k].owner = r /\ r # None
        BY <3>1, <4>1, CeremonyAssumption DEF RunOK, RunState, CeremonyAssumption
      <4>3. ops[k] \in Operation /\ RowOK(ops[k])
        BY <4>2 DEF CeremonyInv, CeremonyTypeOK, RowsOK
      <4>4. Present(k) /\ ops[k].identity \in Identities
        BY <4>2, <4>3 DEF RowOK, Present, Operation
      <4>. QED
        BY <2>1, <4>2, <4>4 DEF CeremonyInv, OwnersOK, SameDigest
    <3>. QED
      BY <1>3, <2>1, <3>2 DEF Mine, WriteStateOk, UnwrittenIsEmpty
  <2>3. lease' = [lease EXCEPT ![i] = [version |-> lease[i].version + 1, state |-> "ACTIVE", by |-> r]]
    BY <1>3, <2>1, <2>2 DEF Mine
  <2>. QED
    BY <1>1, <2>2, <2>3, NextVersionIsWritten
<1>4. ASSUME NEW i \in Identities, ForeignWrite(i)
      PROVE  Lifecycle!LifecycleNext /\ UnwrittenIsEmpty'
  <2>1. lease' = [lease EXCEPT ![i] = [version |-> lease[i].version + 1, state |-> "ACTIVE", by |-> None]]
    BY <1>4 DEF ForeignWrite
  <2>. QED
    BY <1>1, <1>4, <2>1, NextVersionIsWritten DEF ForeignWrite
<1>5. ASSUME NEW i \in Identities, NEW state \in LeaseStates, GuardianWithdraws(i, state)
      PROVE  Lifecycle!LifecycleNext /\ UnwrittenIsEmpty'
  BY <1>1, <1>5, WithdrawalIsWithdrawn
<1>6. ASSUME NEW r \in Runs, RunnerStep(r) \/ Revert(r) \/ Drop(r)
      PROVE  UNCHANGED lease
  <2>1. CASE Revert(r) \/ Drop(r)
    BY <2>1 DEF Revert, Drop
  <2>2. CASE RunnerStep(r)
    BY <2>2 DEF RunnerStep, Admit, ChecksFail, StartCompute, ComputeReturns, ComputeFails,
       StartUpload, UploadReturns, UploadFails, CommitChainInput, StartWrite, Preflight,
       PreflightFails, SendReturns, SendFails, ReceiptSucceeds, ReceiptReverts, ReceiptTimesOut,
       ReadBack, ReadBackFails
  <2>. QED
    BY <1>6, <2>1, <2>2
<1>7. ASSUME NEW c \in Recoverers, RecoveryStep(c)
      PROVE  UNCHANGED lease
  BY <1>7 DEF RecoveryStep, RecoverUnknown, RecoverReadBack, RecoverAborted, RecoverReverted,
     RecoverFinalized
<1>8. ASSUME \/ \E r \in Runs, request \in Requests : Submit(r, request)
             \/ \E c \in Recoverers, k \in IdempotencyKeys, h \in Runs \cup {None} : RecoverWrite(c, k, h)
             \/ \E k \in IdempotencyKeys : RecoverPreSend(k) \/ GoesStale(k) \/ CrashInRecovery(k)
             \/ Crash \/ UNCHANGED cvars
      PROVE  UNCHANGED lease
  BY <1>8 DEF Submit, RecoverWrite, RecoverPreSend, GoesStale, CrashInRecovery, Crash, Killed, cvars
<1>. QED
  BY <1>2, <1>3, <1>4, <1>5, <1>6, <1>7, <1>8 DEF CeremonyNext, NetworkStep

\* No runner, recovery, guardian or foreign scanner of the ceremony does to a lease what the
\* contract would refuse (runner.ts, SentinelRegistryV2.sol:95-143).
THEOREM CeremonyKeepsLifecycle == CeremonySpec => LeasesKeepLifecycle
<1>1. CeremonyInit => CeremonyInv /\ UnwrittenIsEmpty /\ Lifecycle!LifecycleInit
  <2>1. CeremonyInit => UnwrittenIsEmpty /\ Lifecycle!LifecycleInit
    BY DEF CeremonyInit, UnwrittenIsEmpty, Lifecycle!LifecycleInit, Leases
  <2>. QED
    BY <2>1, InitInv, CeremonyAssumption
<1>2. CeremonyInv /\ UnwrittenIsEmpty /\ [CeremonyNext]_cvars
        => CeremonyInv' /\ UnwrittenIsEmpty' /\ [Lifecycle!LifecycleNext]_Leases
  BY LeasesStep, StepKeeps, StutterKeeps, CeremonyAssumption DEF Kept
<1>. QED
  BY <1>1, <1>2, PTL DEF CeremonySpec, LeasesKeepLifecycle, Lifecycle!LifecycleSpec

\* Conversely whatever the contract may do to a lease while a ceremony runs is a step of its
\* environment: guardian and foreign leave out nothing that its results could hang on.
THEOREM EnvironmentIsTheContract ==
  ASSUME CeremonyTypeOK, {"guardian", "foreign"} \subseteq Faults,
         Lifecycle!LifecycleNext, lease' \in [Identities -> Lease],
         \A i \in Identities :
           lease'[i].by = IF lease'[i].version = lease[i].version THEN lease[i].by ELSE None,
         UNCHANGED <<ops, run, rec, tx, spent, crashes>>
  PROVE  CeremonyNext
<1>1. PICK i \in Identities :
        Lifecycle!Write(i) \/ \E state \in {"DRIFTED", "REVOKED"} : Lifecycle!Withdraw(i, state)
  BY DEF Lifecycle!LifecycleNext
<1>2. /\ lease \in [Identities -> Lease]
      /\ \A j \in Identities : /\ Leases[j].version = lease[j].version
                               /\ Leases[j].state = lease[j].state
                               /\ Leases'[j].version = lease'[j].version
                               /\ Leases'[j].state = lease'[j].state
  BY DEF Leases, CeremonyTypeOK
<1>3. ASSUME NEW version, NEW state,
             Leases' = [Leases EXCEPT ![i] = [version |-> version, state |-> state]]
      PROVE  lease' = [lease EXCEPT ![i] = [version |-> version, state |-> state,
                         by |-> IF version = lease[i].version THEN lease[i].by ELSE None]]
  <2>1. Leases'[i] = [version |-> version, state |-> state]
        /\ \A j \in Identities \ {i} : Leases'[j] = Leases[j]
    BY <1>3 DEF Leases
  <2>2. ASSUME NEW j \in Identities \ {i}
        PROVE  lease'[j] = lease[j]
    BY <1>2, <2>1 DEF Lease
  <2>3. lease'[i] = [version |-> version, state |-> state,
                     by |-> IF version = lease[i].version THEN lease[i].by ELSE None]
    BY <1>2, <2>1 DEF Lease
  <2>. QED
    BY <1>2, <2>2, <2>3
<1>4. CASE Lifecycle!Write(i)
  <2>1. lease[i].version \in Nat /\ lease[i].state # "REVOKED"
    BY <1>2, <1>4 DEF Lifecycle!Write, Lease
  <2>2. lease' = [lease EXCEPT ![i] = [version |-> lease[i].version + 1, state |-> "ACTIVE", by |-> None]]
    <3>1. PICK next : next = lease[i].version + 1
      OBVIOUS
    <3>2. Leases' = [Leases EXCEPT ![i] = [version |-> next, state |-> "ACTIVE"]]
      BY <1>2, <1>4, <3>1 DEF Lifecycle!Write
    <3>3. next # lease[i].version
      BY <2>1, <3>1
    <3>. QED
      BY <1>3, <3>1, <3>2, <3>3
  <2>3. lease[i].version < MaxVersion
    <3>1. lease'[i].version = lease[i].version + 1
      BY <1>2, <2>2
    <3>2. lease'[i].version \in 0..MaxVersion
      BY DEF Lease
    <3>. QED
      BY <2>1, <3>1, <3>2, CeremonyAssumption DEF CeremonyAssumption
  <2>4. ForeignWrite(i)
    BY <2>1, <2>2, <2>3 DEF ForeignWrite
  <2>. QED
    BY <2>4 DEF CeremonyNext
<1>5. ASSUME NEW state \in {"DRIFTED", "REVOKED"}, Lifecycle!Withdraw(i, state)
      PROVE  CeremonyNext
  <2>1. lease' = [lease EXCEPT ![i] = [version |-> lease[i].version, state |-> state, by |-> lease[i].by]]
    BY <1>2, <1>3, <1>5 DEF Lifecycle!Withdraw
  <2>2. [lease[i] EXCEPT !.state = state]
          = [version |-> lease[i].version, state |-> state, by |-> lease[i].by]
    BY <1>2 DEF Lease
  <2>3. lease' = [lease EXCEPT ![i].state = state]
    BY <2>1, <2>2
  <2>4. \/ state = "DRIFTED" /\ lease[i].state = "ACTIVE"
        \/ state = "REVOKED" /\ lease[i].state \in {"ACTIVE", "DRIFTED"}
    BY <1>2, <1>5 DEF Lifecycle!Withdraw, Lifecycle!Withdrawals
  <2>5. GuardianWithdraws(i, state)
    BY <2>3, <2>4 DEF GuardianWithdraws
  <2>. QED
    BY <2>5 DEF CeremonyNext, LeaseStates
<1>. QED
  BY <1>1, <1>4, <1>5
=============================================================================
