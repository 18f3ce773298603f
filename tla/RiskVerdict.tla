----------------------------- MODULE RiskVerdict -----------------------------
(***************************************************************************)
(* The verdict of a seal (server/prooflock/analysis/ and computeResult of  *)
(* production-operator.ts): evidence about the subject from the RPC, the   *)
(* explorer and the threat lists, each of which may fail to answer; fixed  *)
(* rules over what was answered; and the models, which are paid for and    *)
(* asked again when they answer out of form.  A share is a pair of         *)
(* numerator and denominator, survival is counted in ten-thousandths.      *)
(***************************************************************************)
EXTENDS Integers, Sequences, FiniteSets, FiniteSetsExt, Functions

CONSTANTS
    Dossiers,     \* what is known about a subject to whoever answers
    Selectors,    \* DANGEROUS_SELECTORS: four bytes to a flag
    ModelScores,  \* behavioural scores that the model may answer
    MaxRows,      \* rows of a list that are looked at
    DrainWindow,  \* DRAIN_BLOCK_WINDOW
    Nobody        \* the counterparty of a creation

VARIABLES
    dossier, kind,  \* kind: of the subject at the source block
    step,
    bundled,        \* whether the risk bundle was collected
    explored,       \* of each explorer call: whether it was answered
    listed,         \* of each threat source
    attempts,       \* paid calls of the stage under way
    llm,            \* the answers of the models
    verdict

vars == <<dossier, kind, step, bundled, explored, listed, attempts, llm, verdict>>

Calls == {"txlist", "tokentx", "internal", "source"}
Sources == {"OFAC", "Chainalysis", "ScamSniffer"}
NoVerdict == [score |-> 0, codeRisk |-> 0, label |-> "none"]

Init ==
    /\ dossier \in Dossiers /\ kind \in {"EOA", "CONTRACT"}
    /\ step = "floor" /\ bundled = FALSE
    /\ explored = [c \in Calls |-> "asked"] /\ listed = [s \in Sources |-> "asked"]
    /\ attempts = 0 /\ llm = [score |-> 0, code |-> 0] /\ verdict = NoVerdict

-----------------------------------------------------------------------------
(* The behaviour: risk-heuristics.ts *)

\* sortByBlockDesc, a stable sort, and slice: the rows that fewer than MaxRows come before.
Precedes(rows, j, i) == rows[j].block > rows[i].block \/ (rows[j].block = rows[i].block /\ j < i)
Newest(rows) == {i \in DOMAIN rows : Cardinality({j \in DOMAIN rows : Precedes(rows, j, i)}) < MaxRows}

\* mapTransactions, mapTokenTransfers: by their place in the answer; none where the call failed.
Rows(call) ==
    [i \in IF explored[call] = "ok" THEN Newest(dossier[call]) ELSE {} |-> dossier[call][i]]

Size(rows) == Cardinality(DOMAIN rows)
Count(rows, Test(_)) == Cardinality({i \in DOMAIN rows : Test(rows[i])})
None == <<0, 1>>

ComputeUnlimitedApprovals(rows) == <<Count(rows, LAMBDA r : r.unlimited), 3>>

ComputeFailedTxRate(rows) ==
    IF Size(rows) = 0 THEN None ELSE <<Count(rows, LAMBDA r : r.isError), Size(rows)>>

\* collectMovements: values in and out of the subject; the other end is the counterparty.
Movements == {m \in Range(Rows("txlist")) \cup Range(Rows("tokentx")) : m.amount > 0 /\ m.other # Nobody}

Drains(in, out) ==
    /\ in.inbound /\ ~out.inbound /\ out.other # in.other
    /\ out.block \in in.block..(in.block + DrainWindow)
    /\ out.amount >= (9 * in.amount) \div 10
ComputeDrainPattern == IF \E in, out \in Movements : Drains(in, out) THEN <<1, 1>> ELSE None

\* The time between the first row and the last, unit by unit: there are as many units as the
\* gaps of timingBurst add up to, and as many pairs of units in one gap as their squares do.
Units(rows) ==
    UNION {(rows[p[1]].block + 1)..rows[p[2]].block : p \in (DOMAIN rows) \X (DOMAIN rows)}
InOneGap(rows, s, t) == \A i \in DOMAIN rows : rows[i].block >= s <=> rows[i].block >= t
Root(n) == Cardinality({r \in 1..n : r * r <= n})

\* timingBurst: one minus the coefficient of variation of the gaps.
TimingBurst(rows) ==
    LET units == Units(rows)
        sum == Cardinality(units)
        squares == Cardinality({p \in units \X units : InOneGap(rows, p[1], p[2])})
    IN IF Size(rows) < 4 THEN None ELSE IF sum = 0 THEN <<1, 1>>
       ELSE <<sum - Root((Size(rows) - 1) * squares - sum * sum), sum>>

To(row) == IF row.inbound THEN "subject" ELSE row.other

\* How many rows share the most frequent key: some key has one row, has two, and so on.
Most(rows, Key(_)) ==
    Cardinality({n \in 1..Size(rows) :
                   \E i \in DOMAIN rows : Count(rows, LAMBDA r : Key(r) = Key(rows[i])) >= n})
RepetitionBurst(rows) ==
    IF Size(rows) = 0 THEN None ELSE <<Most(rows, LAMBDA r : <<r.method, To(r)>>), Size(rows)>>
Larger(p, q) == IF p[1] * q[2] >= q[1] * p[2] THEN p ELSE q

ComputeCounterpartyConcentration(rows) ==
    LET considered == [i \in {i \in DOMAIN rows : To(rows[i]) # Nobody} |-> rows[i]]
    IN IF Size(considered) = 0 THEN None ELSE <<Most(considered, To), Size(considered)>>

ComputeFreshAccount(nonce) == <<20 - nonce, 20>>
ComputeNoHistory(rows) == IF Size(rows) = 0 /\ dossier.nonce = 0 THEN <<1, 1>> ELSE None

\* signal: the share a rule found, within nothing and one.
Clamp01(share) ==
    IF share[1] >= share[2] THEN <<1, 1>> ELSE IF share[1] <= 0 THEN None ELSE share

\* What survives a rule of a weight, in hundredths, that found a share.
Left(survival, weight, share) ==
    LET value == Clamp01(share)
    IN (survival * (100 * value[2] - weight * value[1])) \div (100 * value[2])

\* computeHeuristics and scoreFrom: the rules in their order.
Survival ==
    LET rows == Rows("txlist")
        approved == Left(10000, 55, ComputeUnlimitedApprovals(rows))
        executed == Left(approved, 30, ComputeFailedTxRate(rows))
        retained == Left(executed, 70, ComputeDrainPattern)
        paced == Left(retained, 20, Larger(TimingBurst(rows), RepetitionBurst(rows)))
        spread == Left(paced, 25, ComputeCounterpartyConcentration(rows))
        settled == Left(spread, 15, ComputeFreshAccount(dossier.nonce))
    IN Left(settled, 10, ComputeNoHistory(rows))

-----------------------------------------------------------------------------
(* The code: contract-analysis.ts *)

PushData(byte) == IF byte \in 96..127 THEN byte - 95 ELSE 0

\* The positions of code that the walker takes for an opcode: the data of a push is none.
Opcodes(code) ==
    LET opcode[i \in DOMAIN code] ==
          i = 1 \/ \E j \in 1..(i - 1) : j + 1 + PushData(code[j]) = i /\ opcode[j]
    IN {i \in DOMAIN code : opcode[i]}

BuildBytecodeFlags(code) ==
    LET present == {code[i] : i \in Opcodes(code)}
        pushed == {SubSeq(code, i + 1, i + 4) : i \in {i \in Opcodes(code) : code[i] = 99 /\ i + 4 <= Len(code)}}
    IN (IF 255 \in present THEN {"SELFDESTRUCT"} ELSE {})
       \cup (IF 244 \in present \/ 242 \in present THEN {"DELEGATES"} ELSE {})
       \cup {Selectors[s] : s \in pushed \cap DOMAIN Selectors}

\* scanSource reads a verified source only, and only of what has code at the head.
Honeypot == dossier.code # << >> /\ explored["source"] = "ok" /\ dossier.source = "honeypot"

ComputeCodeRisk ==
    LET flags == BuildBytecodeFlags(dossier.code)
        fundMoving == "OWNER_CONTROLLED" \in flags /\ flags \cap {"HAS_MINT", "HAS_PAUSE", "HAS_BLACKLIST"} # {}
    IN IF "SELFDESTRUCT" \in flags \/ ("DELEGATES" \in flags /\ fundMoving) \/ Honeypot THEN 2
       ELSE IF "DELEGATES" \in flags \/ fundMoving THEN 1 ELSE 0

-----------------------------------------------------------------------------
(* Collecting the bundle *)

\* collectRpcFloor: without the nonce and the code there is no bundle, but still a verdict.
ReadFloor ==
    /\ step = "floor"
    /\ \E answers \in BOOLEAN :
         /\ bundled' = answers
         /\ step' = IF answers THEN "explorer" ELSE "behavioral"
    /\ UNCHANGED <<dossier, kind, explored, listed, attempts, llm, verdict>>

\* The calls run side by side; the source of what has no code is not asked for.
ExplorerCall(call) ==
    /\ step = "explorer" /\ explored[call] = "asked"
    /\ \E answer \in IF call = "source" /\ dossier.code = << >> THEN {"ok"} ELSE {"ok", "failed"} :
         explored' = [explored EXCEPT ![call] = answer]
    /\ UNCHANGED <<dossier, kind, step, bundled, listed, attempts, llm, verdict>>

Explored ==
    /\ step = "explorer" /\ \A c \in Calls : explored[c] # "asked"
    /\ step' = "threat"
    /\ UNCHANGED <<dossier, kind, bundled, explored, listed, attempts, llm, verdict>>

\* The OFAC list is at hand; the others are UNAVAILABLE without a key or an answer.
CheckSource(source) ==
    /\ step = "threat" /\ listed[source] = "asked"
    /\ \E answer \in {IF source \in dossier.lists THEN "HIT" ELSE "CLEAR"}
                     \cup (IF source = "OFAC" THEN {} ELSE {"UNAVAILABLE"}) :
         listed' = [listed EXCEPT ![source] = answer]
    /\ UNCHANGED <<dossier, kind, step, bundled, explored, attempts, llm, verdict>>

Listed ==
    /\ step = "threat" /\ \A s \in Sources : listed[s] # "asked"
    /\ step' = "behavioral"
    /\ UNCHANGED <<dossier, kind, bundled, explored, listed, attempts, llm, verdict>>

Hits == {s \in Sources : listed[s] = "HIT"}

\* foldThreatIntoHeuristics: a listed address has the highest score there is.
BehavioralScore == IF Hits # {} THEN 100 ELSE (10050 - Survival) \div 100

-----------------------------------------------------------------------------
(* The models and the verdict *)

\* retryTransientCompute: an answer out of form, or a provider that is down, is asked again.
TransientFailure ==
    /\ step \in {"behavioral", "contract"}
    /\ attempts' = attempts + 1
    /\ step' = IF attempts' < 3 THEN step ELSE "failed"
    /\ UNCHANGED <<dossier, kind, bundled, explored, listed, llm, verdict>>

ComputeFails ==
    /\ step \in {"behavioral", "contract"} /\ step' = "failed"
    /\ UNCHANGED <<dossier, kind, bundled, explored, listed, attempts, llm, verdict>>

ComputeBehavioral ==
    /\ step = "behavioral" /\ step' = IF kind = "EOA" THEN "verdict" ELSE "contract"
    /\ \E score \in ModelScores : llm' = [llm EXCEPT !.score = score]
    /\ attempts' = 0
    /\ UNCHANGED <<dossier, kind, bundled, explored, listed, verdict>>

\* parseContractCodeRisk: of a score, its band.
ComputeContract ==
    /\ step = "contract" /\ step' = "verdict"
    /\ \E score \in ModelScores :
         llm' = [llm EXCEPT !.code = IF score < 30 THEN 0 ELSE IF score < 60 THEN 1 ELSE 2]
    /\ UNCHANGED <<dossier, kind, bundled, explored, listed, attempts, verdict>>

\* combineBehavioralScore: never below what was computed, and high for a hard signal.
CombineBehavioralScore ==
    IF ~bundled THEN llm.score
    ELSE Max({llm.score, BehavioralScore, IF Hits # {} \/ Honeypot THEN 90 ELSE 0})

Complete == bundled /\ \A c \in Calls : explored[c] = "ok"

\* A slip: only an explorer that answered nothing lowers the verdict.
FloorScoreUnlessBlind(score) ==
    IF bundled /\ \E c \in Calls : explored[c] = "ok" THEN score ELSE Max({score, 30})

FloorScoreForCoverage(score) == IF Complete THEN score ELSE Max({score, 30})

Label(score) == IF score < 30 THEN "SAFE" ELSE IF score < 60 THEN "CAUTION" ELSE "FLAGGED"

\* combineCodeRisk: the checks of a contract that may be sealed pass, and add nothing.
CombineCodeRisk == Max({llm.code, IF bundled THEN ComputeCodeRisk ELSE 0})

ComputeResult ==
    /\ step = "verdict" /\ step' = "done"
    /\ LET score == FloorScoreForCoverage(CombineBehavioralScore) IN
         verdict' = [score |-> score, label |-> Label(score),
                     codeRisk |-> IF kind = "EOA" THEN 0 ELSE CombineCodeRisk]
    /\ UNCHANGED <<dossier, kind, bundled, explored, listed, attempts, llm>>

Next ==
    \/ ReadFloor \/ Explored \/ Listed
    \/ \E c \in Calls : ExplorerCall(c)
    \/ \E s \in Sources : CheckSource(s)
    \/ TransientFailure \/ ComputeFails \/ ComputeBehavioral \/ ComputeContract \/ ComputeResult

Spec == Init /\ [][Next]_vars

-----------------------------------------------------------------------------
(* Properties *)

\* What one of those who did answer holds against the subject.
Against ==
    \/ bundled /\ Hits # {}
    \/ bundled /\ Honeypot
    \/ \E in, out \in Movements : Drains(in, out)

\* A verdict is SAFE only on complete evidence, whoever failed to answer and whatever the model
\* made of it; an entry on a list, a honeypot in the source or funds that were taken through,
\* seen by one answer, is FLAGGED for all the model says; and the code is never milder than its
\* opcodes (production-operator.ts:335, risk-bundle.ts:19, risk-heuristics.ts:178,
\* contract-analysis.ts:37).
SealedVerdictIsEarned ==
    step = "done" =>
      /\ verdict.label = "SAFE" => Complete /\ llm.score < 30
      /\ Against => verdict.label = "FLAGGED"
      /\ kind = "CONTRACT" /\ bundled =>
           /\ (\E i \in Opcodes(dossier.code) : dossier.code[i] = 255) => verdict.codeRisk = 2
           /\ Honeypot => verdict.codeRisk = 2
      /\ llm.score >= 60 => verdict.label = "FLAGGED"
=============================================================================
