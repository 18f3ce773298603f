------------------------------ MODULE MCClients ------------------------------
(***************************************************************************)
(* Small instances of what is asked for from outside: the public scans,    *)
(* the queue of the first scanner, and the pages of the browser.  They     *)
(* share no state; part says which of them a behaviour runs, while the     *)
(* others rest.                                                            *)
(***************************************************************************)
EXTENDS PublicScan, TLC

CONSTANTS a2,
          HasCode, Published, History, ModelAnswers, MaxEnqueues, MaxManual,
          Subjects, NoAgent, MaxActs,
          Proofs, NoProof, MaxQuestions,
          Leases, NoLease, MaxCalls, MaxRoutes,
          NeedsToken, LastVersion, MaxSubmits,
          Accesses, NoAccess, Terminals, Ttl, LastTime, MaxTurns, MaxAsks

ASSUME PagesAssumption ==
    NoAgent \notin Subjects /\ NoAccess \notin Accesses /\ LastVersion \in Nat /\ Ttl \in Nat

\* What is left of a model's answer when it is read: a known label or UNKNOWN, a score within its
\* bounds or none, a code risk.
ASSUME AnswersAssumption ==
    ModelAnswers \subseteq [label : 0..3, score : {0 - 1} \cup 0..100, risk : 0..2]

VARIABLES part,
    pending, completedSet, failedSet, inFlight, running, worker,
    writeInFlight, scan, unconfirmed, attested, enqueues, manuals,
    evaluation, coordinator, loads, session, binding, write, recoveries, acts,
    view, mounted, generation, identifiers, historical, current, inflight,
    control, turned, token, busy, shown, recovering, reseal, runs, calls,
    input, card, challenge, open, resolving, run, leases, writes, submits,
    clock, route, detail, loaded, refreshGeneration, active, requests, asks

Guarded == [valueCall |-> FALSE, writesAfter |-> FALSE, selfdestruct |-> TRUE, controlled |-> TRUE,
            txOrigin |-> FALSE, rawCall |-> "none", delegate |-> "none", unchecked |-> FALSE, admin |-> FALSE]
SomeSources == [a \in Subjects |-> IF a \in HasCode THEN <<Guarded>> ELSE << >>]
\* A busy contract, and an account that never sent anything.
SomeHistories == [a \in Subjects |-> IF a \in HasCode THEN [txs |-> 10, recent |-> 0, balance |-> 10]
                                 ELSE [txs |-> 0, recent |-> 0, balance |-> 0]]
Queue == INSTANCE LegacyScanner WITH Agents <- Subjects, Answers <- ModelAnswers
\* A mild label (SAFE) with a graver score, and neither label (UNKNOWN) nor score (NaN).
SomeAnswers == {[label |-> 0, score |-> 65, risk |-> 0], [label |-> 3, score |-> 0 - 1, risk |-> 0]}

Console  == INSTANCE EvaluateConsole WITH Agents <- Subjects, state <- evaluation
Panel    == INSTANCE VerificationPanel WITH MaxStarts <- MaxQuestions
Controls == INSTANCE LifecycleControls WITH route <- control, binding <- turned, session <- reseal
ScanPage == INSTANCE ScanConsole WITH Agents <- Subjects, MaxVersion <- LastVersion,
                page <- card, token <- challenge, mounted <- open, lease <- leases
Admitted == [s \in {"identity", "lease", "gate", "consumer"} |-> "VERIFIED"]
SomeAccesses == {Admitted, [Admitted EXCEPT !["gate"] = "BLOCKED"]}
AgentPage == INSTANCE ProofPage WITH Locators <- Subjects, NoLocator <- NoAgent,
                MaxTime <- LastTime, now <- clock, state <- detail, generation <- loaded

queueVars    == <<pending, completedSet, failedSet, inFlight, running, worker,
                  writeInFlight, scan, unconfirmed, attested, enqueues, manuals>>
consoleVars  == <<evaluation, coordinator, loads, session, binding, write, recoveries, acts>>
panelVars    == <<view, mounted, generation, identifiers, historical, current, inflight>>
controlsVars == <<control, turned, token, busy, shown, recovering, reseal, runs, calls>>
scanPageVars == <<input, card, challenge, open, resolving, run, leases, writes, submits>>
pageVars     == <<clock, route, detail, loaded, refreshGeneration, active, requests, asks>>
clientsVars  == <<part, vars, queueVars, consoleVars, panelVars, controlsVars, scanPageVars, pageVars>>

First == CHOOSE a \in Subjects : TRUE
ClientsInit ==
    /\ part \in {"scan", "queue", "console", "panel", "controls", "scan page", "page"}
    /\ Init /\ (part # "scan" => \A a \in Agents : lease[a] = 0)
    /\ Queue!Init /\ Panel!Init
    /\ Console!Init /\ (part # "console" => evaluation.agent = First)
    /\ Controls!Init /\ (part # "controls" => control = CHOOSE l \in Leases : TRUE)
    /\ ScanPage!Init
    /\ (part # "scan page" => input = [agent |-> First, form |-> "id"] /\ \A a \in Subjects : leases[a] = 0)
    /\ AgentPage!Init /\ (part # "page" => route = First)

ScanStep ==
    part = "scan" /\ Next
    /\ UNCHANGED <<part, queueVars, consoleVars, panelVars, controlsVars, scanPageVars, pageVars>>
QueueStep ==
    part = "queue" /\ Queue!Next
    /\ UNCHANGED <<part, vars, consoleVars, panelVars, controlsVars, scanPageVars, pageVars>>
ConsoleStep ==
    part = "console" /\ Console!Next
    /\ UNCHANGED <<part, vars, queueVars, panelVars, controlsVars, scanPageVars, pageVars>>
PanelStep ==
    part = "panel" /\ Panel!Next
    /\ UNCHANGED <<part, vars, queueVars, consoleVars, controlsVars, scanPageVars, pageVars>>
ControlsStep ==
    part = "controls" /\ Controls!Next
    /\ UNCHANGED <<part, vars, queueVars, consoleVars, panelVars, scanPageVars, pageVars>>
ScanPageStep ==
    part = "scan page" /\ ScanPage!Next
    /\ UNCHANGED <<part, vars, queueVars, consoleVars, panelVars, controlsVars, pageVars>>
PageStep ==
    part = "page" /\ AgentPage!Next
    /\ UNCHANGED <<part, vars, queueVars, consoleVars, panelVars, controlsVars, scanPageVars>>

ClientsNext ==
    \/ ScanStep \/ QueueStep \/ ConsoleStep \/ PanelStep \/ ControlsStep \/ ScanPageStep \/ PageStep

ClientsSpec ==
    /\ ClientsInit /\ [][ClientsNext]_clientsVars
    /\ part = "queue" => Queue!Fairness

\* The scan page alone.
ScanPageSpec == ClientsInit /\ part = "scan page" /\ [][ScanPageStep]_clientsVars

VerdictsAreEarned       == Queue!VerdictsAreEarned
QueueDrains             == Queue!QueueDrains
CutScanIsReconciled     == ScanPage!CutScanIsReconciled

\* No page of the browser says of one agent, lease or scan what was found out about another, however
\* late the answers come, and none waits for an answer that cannot come.
PagesFollowTheirSubject ==
    /\ Console!OutcomeIsOfItsIdentity
    /\ Controls!ControlsAreOfTheirLease
    /\ ScanPage!ConsoleFollowsItsScan
    /\ AgentPage!PageIsOfItsAgent
    /\ Panel!PanelAnswersItsQuestion
=============================================================================
