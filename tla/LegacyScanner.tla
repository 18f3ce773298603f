---------------------------- MODULE LegacyScanner ----------------------------
(***************************************************************************)
(* The first scanner: a queue that scans one address at a time, a manual   *)
(* scan that may run beside it, two model pipelines, the evidence, and the *)
(* attestation written under one lock per process.                         *)
(***************************************************************************)
EXTENDS SourcePatterns, Sequences, FiniteSets

CONSTANTS Agents,
          HasCode,      \* the accounts that are contracts
          Published,    \* agent |-> the functions of its verified source, << >> if none
          History,      \* agent |-> its outgoing transactions, those of the last blocks, its balance
          Answers,      \* what the models answer: a label, a score, a code risk
          MaxEnqueues,  \* bound on the calls of enqueueAddresses
          MaxManual     \* bound on the scans a user asks for

VARIABLES
    pending, completedSet, failedSet, inFlight, running,  \* queue.ts
    worker,         \* where processNext waits, and for which address
    writeInFlight, scan,       \* scanner.ts: one scan of the queue, one of a user
    unconfirmed,    \* broadcast attestations no block has yet
    attested,       \* hasAttestation
    enqueues, manuals

queueVars == <<pending, completedSet, failedSet, inFlight, running, worker, enqueues>>
scanVars == <<writeInFlight, scan, manuals>>
chainVars == <<unconfirmed, attested>>

NoSubject == "none"
Unseen == [source |-> "no_history", analyzed |-> 0, drained |-> FALSE]
NaN == -1                     \* Math.round of a missing score
SAFE == 0
CAUTION == 1
FLAGGED == 2
UNKNOWN == 3                  \* any other label
Callers == {"queue", "manual"}
Idle == [pc |-> "idle", agent |-> NoSubject, source |-> << >>, given |-> FALSE, eoa |-> FALSE,
         signals |-> Unseen, score |-> 0, level |-> 0, risk |-> 0, attempt |-> 0]
At(c, pc) == scan[c].pc = pc

-----------------------------------------------------------------------------
(* queue.ts *)

\* The synchronous head of processNext, with the queue as it is then.
ProcessNext(queue) ==
    IF queue = << >>
    THEN /\ pending' = queue /\ running' = FALSE
         /\ worker' = [pc |-> "off", agent |-> NoSubject]
    ELSE /\ pending' = Tail(queue) /\ running' = TRUE
         /\ worker' = [pc |-> "check", agent |-> Head(queue)]

\* The address whose attestation is being looked up is not in flight yet: it can be added again.
EnqueueAddresses(a) ==
    LET known == a \in completedSet \cup failedSet \/ inFlight = a \/ \E i \in DOMAIN pending : pending[i] = a
        queue == IF known THEN pending ELSE Append(pending, a)
    IN /\ enqueues < MaxEnqueues /\ enqueues' = enqueues + 1
       /\ IF running THEN pending' = queue /\ UNCHANGED <<running, worker>> ELSE ProcessNext(queue)
       /\ UNCHANGED <<completedSet, failedSet, inFlight, scanVars, chainVars>>

\* A slip: the skipped address ends the worker without the next call.
SkipAndStop(a) == worker' = [pc |-> "off", agent |-> NoSubject] /\ completedSet' = completedSet \cup {a}

Skip(a) == worker' = [worker EXCEPT !.pc = "pause"] /\ completedSet' = completedSet \cup {a}

\* An answer that fails is taken for "not attested".
HasAttestation ==
    /\ worker.pc = "check"
    /\ \/ /\ worker.agent \in attested /\ Skip(worker.agent)
          /\ UNCHANGED <<inFlight, scan>>
       \/ /\ inFlight' = worker.agent /\ worker' = [worker EXCEPT !.pc = "scan"]
          /\ scan' = [scan EXCEPT !["queue"] = [Idle EXCEPT !.pc = "discover", !.agent = worker.agent]]
          /\ UNCHANGED completedSet
    /\ UNCHANGED <<pending, failedSet, running, enqueues, writeInFlight, manuals, chainVars>>

\* The delay over, the next address.
Pause ==
    /\ worker.pc = "pause" /\ ProcessNext(pending)
    /\ UNCHANGED <<completedSet, failedSet, inFlight, enqueues, scanVars, chainVars>>

\* What the end of a scan does to the one who asked for it.
Ended(c, ok) ==
    IF c = "manual" THEN UNCHANGED queueVars
    ELSE /\ worker' = [worker EXCEPT !.pc = "pause"] /\ inFlight' = NoSubject
         /\ completedSet' = IF ok THEN completedSet \cup {scan[c].agent} ELSE completedSet
         /\ failedSet' = IF ok THEN failedSet ELSE failedSet \cup {scan[c].agent}
         /\ UNCHANGED <<pending, running, enqueues>>

\* A scan that throws: outside the write the lock is not its own.
Throws(c, lock) ==
    /\ Ended(c, FALSE) /\ scan' = [scan EXCEPT ![c] = Idle] /\ writeInFlight' = lock
    /\ UNCHANGED <<manuals, chainVars>>

-----------------------------------------------------------------------------
(* scanner.ts *)

ManualScan(a) ==
    /\ At("manual", "idle") /\ manuals < MaxManual /\ manuals' = manuals + 1
    /\ scan' = [scan EXCEPT !["manual"] = [Idle EXCEPT !.pc = "discover", !.agent = a]]
    /\ UNCHANGED <<writeInFlight, queueVars, chainVars>>

\* What the model is told of the account: where it was seen, in how many transactions of one unit
\* each, and whether most of its funds have left.  Nothing seen is no history, whoever looked.
ComputeSignals(txs, source, balance) ==
    IF txs = 0 THEN Unseen
    ELSE [source |-> source, analyzed |-> txs, drained |-> 100 * txs > 80 * (balance + txs)]

\* A balance that cannot be read counts as none, so that all of it has left.
FetchExplorerTxs(a) ==
    {ComputeSignals(History[a].txs, IF History[a].txs >= 10 THEN "chain_history" ELSE "limited_history", b) :
        b \in {History[a].balance, 0}}

\* Without the explorer, the last blocks, as far as the node gives them.
BlockScanFallback(a) ==
    {ComputeSignals(txs, "limited_history", History[a].balance) : txs \in 0..History[a].recent}

FetchAgentActivity(a) == FetchExplorerTxs(a) \cup BlockScanFallback(a)

\* The explorer that does not answer, or with a page, leaves an address without source.
VerifiedContractSource(a) == {<< >>, Published[a]}

\* A code read that fails makes the address an account without code.
ReadsAsEOA(a) == {a \notin HasCode, TRUE}

Discover(c) ==
    /\ At(c, "discover")
    /\ \E source \in VerifiedContractSource(scan[c].agent), eoa \in ReadsAsEOA(scan[c].agent),
          signals \in FetchAgentActivity(scan[c].agent) :
        scan' = [scan EXCEPT ![c] = [@ EXCEPT !.pc = "infer", !.source = source, !.given = source # << >>,
                                     !.eoa = eoa, !.signals = signals]]
    /\ UNCHANGED <<writeInFlight, manuals, queueVars, chainVars>>

\* A slip: the label of the model is kept beside a score of another band.
ModelVerdict(label, score) == <<IF label = UNKNOWN THEN CAUTION ELSE label, score>>

\* The label and the score the model gave, made to agree. A missing score compares with nothing.
CrossValidated(label, score) ==
    LET level == IF label = UNKNOWN THEN CAUTION ELSE label
    IN IF score = NaN THEN <<level, NaN>>
       ELSE CASE level = FLAGGED /\ score < 60    -> <<FLAGGED, 60>>
              [] level = CAUTION /\ score < 30    -> <<CAUTION, 30>>
              [] level = CAUTION /\ score >= 60   -> <<CAUTION, 59>>
              [] level = SAFE /\ score >= 60      -> <<FLAGGED, score>>
              [] level = SAFE /\ score \in 30..59 -> <<CAUTION, score>>
              [] OTHER                            -> <<level, score>>

\* Nothing in reach is a warning; a rule's finding is a floor under the model's word.
CodeScanRisk(s, answer) ==
    IF s.given THEN Max({answer, AnalyzeSolidity(s.source)})
    ELSE IF s.eoa THEN CLEAN ELSE WARNING

\* Both pipelines, then the evidence, which takes the signals; a failed upload leaves a local hash.
Infer(c) ==
    /\ At(c, "infer")
    /\ \E answer \in Answers :
        LET verdict == CrossValidated(answer.label, answer.score)
        IN scan' = [scan EXCEPT ![c] = [@ EXCEPT !.pc = "attest", !.level = verdict[1], !.score = verdict[2],
                                        !.signals = Unseen, !.risk = CodeScanRisk(scan[c], answer.risk)]]
    /\ UNCHANGED <<writeInFlight, manuals, queueVars, chainVars>>

\* No answer from the broker and none from the router, or one that is no JSON.
InferFails(c) == At(c, "infer") /\ Throws(c, writeInFlight)

Attest(c) ==
    /\ At(c, "attest")
    /\ IF writeInFlight THEN Throws(c, writeInFlight)
       ELSE /\ writeInFlight' = TRUE
            /\ scan' = [scan EXCEPT ![c].pc = "send", ![c].attempt = 1]
            /\ UNCHANGED <<manuals, queueVars, chainVars>>

Encodable(s) == s.score # NaN

WriteAttestation(c) ==
    /\ At(c, "send") /\ Encodable(scan[c])
    /\ scan' = [scan EXCEPT ![c].pc = "wait"] /\ unconfirmed' = unconfirmed \cup {scan[c].agent}
    /\ UNCHANGED <<writeInFlight, manuals, queueVars, attested>>

\* Another transaction of the wallet took the nonce.
NonceCollision(c) ==
    /\ At(c, "send") /\ Encodable(scan[c])
    /\ IF scan[c].attempt < 3
       THEN scan' = [scan EXCEPT ![c].attempt = @ + 1] /\ UNCHANGED <<writeInFlight, manuals, queueVars, chainVars>>
       ELSE Throws(c, FALSE)

\* The value is refused, the node fails, or the timer strikes before the block.
WriteFails(c) == scan[c].pc \in {"send", "wait"} /\ Throws(c, FALSE)

Confirmed(c) ==
    /\ At(c, "wait") /\ scan[c].agent \in attested
    /\ Ended(c, TRUE) /\ scan' = [scan EXCEPT ![c] = Idle] /\ writeInFlight' = FALSE
    /\ UNCHANGED <<manuals, chainVars>>

\* A broadcast attestation is mined, also after its scan gave up.
Mined(a) ==
    /\ a \in unconfirmed /\ attested' = attested \cup {a} /\ unconfirmed' = unconfirmed \ {a}
    /\ UNCHANGED <<queueVars, scanVars>>

-----------------------------------------------------------------------------
Init ==
    /\ pending = << >> /\ completedSet = {} /\ failedSet = {} /\ inFlight = NoSubject /\ running = FALSE
    /\ worker = [pc |-> "off", agent |-> NoSubject] /\ writeInFlight = FALSE
    /\ scan = [c \in Callers |-> Idle] /\ unconfirmed = {} /\ attested = {} /\ enqueues = 0 /\ manuals = 0

RunFullScan(c) ==
    \/ Discover(c) \/ Infer(c) \/ InferFails(c) \/ Attest(c)
    \/ WriteAttestation(c) \/ NonceCollision(c) \/ WriteFails(c) \/ Confirmed(c)

Worker == HasAttestation \/ Pause \/ RunFullScan("queue")

Next ==
    \/ \E a \in Agents : EnqueueAddresses(a) \/ ManualScan(a) \/ Mined(a)
    \/ HasAttestation \/ Pause
    \/ \E c \in Callers : RunFullScan(c)

vars == <<queueVars, scanVars, chainVars>>
\* Every await of the worker ends: fetches, inference, upload and write have their timers.
Fairness == WF_vars(Worker)

\* The bands the contract holds a label to.
Consistent(score, level) ==
    CASE level = FLAGGED -> score >= 60
      [] level = CAUTION -> score >= 30 /\ score < 60
      [] OTHER           -> score < 60

\* Whatever the model answers, a broadcast verdict carries a label its score agrees with, is no
\* milder than the fixed rules on the source that was read, and is clean without source only for
\* an address that was read as having no code.
VerdictsAreEarned ==
    \A c \in Callers : At(c, "wait") =>
        /\ Consistent(scan[c].score, scan[c].level)
        /\ scan[c].given => scan[c].risk >= AnalyzeSolidity(scan[c].source)
        /\ scan[c].risk = CLEAN => scan[c].given \/ scan[c].eoa

\* An address put into the queue is done with one day: skipped, attested or failed, whatever scans
\* beside the worker, and however its own scan ends.
QueueDrains ==
    \A a \in Agents : (\E i \in DOMAIN pending : pending[i] = a) ~> (a \in completedSet \cup failedSet)
=============================================================================
