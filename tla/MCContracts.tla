------------------------ MODULE MCContracts -----------------------------
(***************************************************************************)
(* Small instances of the registry on its own, of the first contracts and  *)
(* of the deployment.  They share no state, nor does the first agent       *)
(* registry with the attestations; part says which a behaviour runs.       *)
(***************************************************************************)
EXTENDS SentinelRegistryV2, Deployment

CONSTANTS h1, e1,
  Agents, Targets, Senders, Owner, NoAddress, TokenIds, Verdicts, DEFAULT_MAX_AGE, MaxWrites, MaxClock,
  c1, c2, c3

ASSUME FirstContractsAssumption ==
  /\ IsFiniteSet(Agents) /\ NoAddress \notin Agents /\ DEFAULT_MAX_AGE \in Nat \ {0}
  /\ Verdicts \subseteq [score : Nat, threat : Nat, code : Nat, reasoning : Nat, findings : Nat]

VARIABLES part,
  agents, agentTokenIds, agentList, deactivated,
  attestations, attestationHistory, attestedAgents, scanners, written,
  whitelistEnabled, requireCallerIsAgent, approvedTargets, executed, clock

Input(evidence, hash, ttl, coverage) ==
  [evidence |-> evidence, expectedRuntimeCodeHash |-> hash,
   validForSeconds |-> ttl, policyVersion |-> 1,
   behavioralScore |-> 10, codeRisk |-> 0, coverage |-> coverage]

\* Leases for a contract and for an account without code, of one and of two
\* units, and the inputs _validate must refuse: no evidence, no TTL, a TTL
\* that is too long, a check not done.
MCLockInputs ==
  {Input(e1, h1, 1, 0..7), Input(e1, ZeroHash, 2, 0..6),
   Input(ZeroHash, h1, 1, 0..6), Input(e1, h1, 0, 0..6),
   Input(e1, h1, MAX_TTL + 1, 0..6), Input(e1, h1, 1, 0..5)}

Verdict(score, threat, risk, reasoning) ==
  [score |-> score, threat |-> threat, code |-> risk, reasoning |-> reasoning, findings |-> 500]

\* Verdicts at both sides of 60, and those writeAttestation must refuse: a label that
\* contradicts its score, a score or a text that is too large.
SomeVerdicts ==
  {Verdict(59, 0, 1, 1000), Verdict(60, 2, 0, 0), Verdict(30, 1, 2, 0), Verdict(60, 0, 0, 0),
   Verdict(29, 1, 0, 0), Verdict(59, 2, 0, 0), Verdict(101, 2, 0, 0), Verdict(0, 0, 0, 1001)}

V1 == INSTANCE SentinelV1 WITH Writes <- Verdicts

firstVars == <<agents, agentTokenIds, agentList, deactivated,
  attestations, attestationHistory, attestedAgents, scanners, written,
  whitelistEnabled, requireCallerIsAgent, approvedTargets, executed, clock>>

\* What a run of the deployment is to be given; more confirmations, which the journal of the
\* first must refuse; and what stops a run before it pays: one account in two roles, a lease
\* that may be too old, too little to pay the graph with, another network.
Given == [roles |-> [admin |-> c1, scanner |-> c2, guardian |-> c3],
          policy |-> [maxBehavioralScore |-> 50, maxCodeRisk |-> 1, requiredCoverage |-> 127,
                      minimumPolicyVersion |-> 1, maximumAgeSeconds |-> MonthInSeconds],
          confirmations |-> 2, chainId |-> ZERO_G_MAINNET_CHAIN_ID, canonical |-> PRODUCTION_PROFILE,
          identityLive |-> TRUE, fee |-> 2, balance |-> 15]

SomeEnvironments ==
  {Given, [Given EXCEPT !.confirmations = 4],
   [Given EXCEPT !.roles.guardian = c2], [Given EXCEPT !.policy.maximumAgeSeconds = MonthInSeconds + 1],
   [Given EXCEPT !.balance = 14], [Given EXCEPT !.chainId = 16602]}

contractsVars == <<part, vars, firstVars, deployVars>>

ContractsInit ==
  /\ part \in {"v2", "agents", "gate", "deployment"}
  /\ Init /\ V1!Init /\ DeployInit
  /\ part = "deployment" =>
       ~whitelistEnabled /\ ~requireCallerIsAgent /\ \A a \in Addresses : code[a] = ZeroHash

V2Step         == part = "v2" /\ Next /\ UNCHANGED <<part, firstVars, deployVars>>
V1AgentsStep   == part = "agents" /\ V1!AgentsNext /\ UNCHANGED <<part, vars, deployVars>>
V1GateStep     == part = "gate" /\ V1!GateNext /\ UNCHANGED <<part, vars, deployVars>>
DeploymentStep == part = "deployment" /\ DeployNext /\ UNCHANGED <<part, vars, firstVars>>

\* Every run of the command has ended.
DeploymentOver ==
  /\ part = "deployment" /\ \A r \in DeployRuns : runs[r].pc \in {"done", "failed"}
  /\ UNCHANGED contractsVars

ContractsNext == V2Step \/ V1AgentsStep \/ V1GateStep \/ DeploymentStep \/ DeploymentOver
ContractsSpec == ContractsInit /\ [][ContractsNext]_contractsVars

\* What was recorded can be read back, from the lists and histories of the first contracts
\* and from the pages of the registry.
RecordsAreComplete == V1!RecordsAreComplete /\ PagesCoverEnumeration

ExecutesOnlyTheSafe == V1!ExecutesOnlyTheSafe
=============================================================================
