----------------------------- MODULE Deployment -----------------------------
(***************************************************************************)
(* The deployment of the contracts (scripts/deploy): a run of the command  *)
(* checks what it is given, creates registry, gate and consumer one after  *)
(* the other, each confirmed and journaled before the next, verifies what  *)
(* they point at and writes the artifact.  Runs die anywhere, start again  *)
(* from the journal and overlap, and the chain reorganises.                *)
(***************************************************************************)
EXTENDS Integers, Sequences, FiniteSets

CONSTANTS
    DeployRuns,         \* runs of the command
    Environments,       \* what a run may be given: environment, network, balance, fee
    Deployer,           \* the account of DEPLOYER_PRIVATE_KEY
    NoAccount,          \* a role that is not set, or set to the zero address
    LeastConfirmations, \* 3 in the code
    MaxPolicyVersion,   \* 2^32 - 1 in the code
    NoRecord, Absent,   \* what is not in the journal, a file that is not there
    Torn,               \* a file that was created and not written
    MaxHeight, MaxCreations, MaxReorgs   \* bounds: blocks, transactions, reorganisations

Names == {"registry", "gate", "consumer"}
Before == [name \in Names |-> CASE name = "registry" -> {}
                                [] name = "gate"     -> {"registry"}
                                [] name = "consumer" -> {"registry", "gate"}]

ZERO_G_MAINNET_CHAIN_ID == 16661
PRODUCTION_PROFILE == {"ZERO_G_RPC", "ZERO_G_STORAGE_INDEXER", "PROOFLOCK_STORAGE_FLOW_ADDRESS"}
MonthInSeconds == 30 * 24 * 60 * 60

\* Millions of gas for the whole graph, with a margin of a quarter.
GRAPH_GAS_ESTIMATE == 3 + 2 + 1
RequiredBalance(fee) == (GRAPH_GAS_ESTIMATE * 12500 * fee) \div 10000

-----------------------------------------------------------------------------
(* What is checked before anything is paid for *)

Custodians(env) == {env.roles.admin, env.roles.scanner, env.roles.guardian}

PolicyInBounds(policy) ==
    /\ policy.maxBehavioralScore \in 0..100 /\ policy.maxCodeRisk \in 0..2
    /\ policy.requiredCoverage = 127 /\ policy.minimumPolicyVersion \in 1..MaxPolicyVersion
    /\ policy.maximumAgeSeconds \in 1..MonthInSeconds

\* readDeploymentConfig, assertProductionProfile, assertMainnetChain, requireLiveCode,
\* assertDeployerDistinctFromRoles and assertDeploymentBalance
Preflight(env) ==
    /\ env.chainId = ZERO_G_MAINNET_CHAIN_ID /\ env.canonical = PRODUCTION_PROFILE
    /\ Cardinality(Custodians(env)) = 3 /\ NoAccount \notin Custodians(env) /\ Deployer \notin Custodians(env)
    /\ PolicyInBounds(env.policy) /\ env.confirmations \in LeastConfirmations..64
    /\ env.identityLive
    /\ env.fee > 0 /\ env.balance >= RequiredBalance(env.fee)

ReadDeploymentConfig(env) ==
    [roles |-> env.roles, policy |-> env.policy, confirmations |-> env.confirmations]

\* The constructors of SentinelRegistryV2 and AgentGateV2; a policy version has 32 bits.
ConstructorsAccept(config) ==
    /\ NoAccount \notin {config.roles.admin, config.roles.scanner, config.roles.guardian}
    /\ config.policy.maxBehavioralScore <= 100 /\ config.policy.maxCodeRisk <= 2
    /\ config.policy.requiredCoverage = 127
    /\ config.policy.minimumPolicyVersion # 0 /\ config.policy.minimumPolicyVersion <= MaxPolicyVersion
    /\ config.policy.maximumAgeSeconds # 0 /\ config.policy.maximumAgeSeconds <= MonthInSeconds

\* constructorArgs of a contract, beside those created before it
Args(name, config, contracts) ==
    CASE name = "registry" -> config.roles
      [] name = "gate"     -> [registry |-> contracts["registry"].address, policy |-> config.policy]
      [] name = "consumer" -> [gate |-> contracts["gate"].address]

-----------------------------------------------------------------------------
VARIABLES
    txs,        \* the creations that were sent, and where they are
    height,     \* the last block
    reorgs,     \* how often blocks were replaced
    journal,    \* the journal on disk
    artifacts,  \* the artifact on disk of each registry address
    runs        \* the runs of the command, with the journal each has in memory

deployVars == <<txs, height, reorgs, journal, artifacts, runs>>

\* An address is that of the nonce that created it.
Nonces == 1..MaxCreations
NoContracts == [name \in Names |-> NoRecord]
Idle == [pc |-> "idle", at |-> "registry", tx |-> 0, block |-> 0,
         config |-> Absent, status |-> "DEPLOYING", contracts |-> NoContracts,
         since |-> 0]   \* history: the reorganisations before this run

DeployInit ==
    /\ txs = << >> /\ height = 0 /\ reorgs = 0
    /\ journal = Absent /\ artifacts = [a \in Nonces |-> Absent]
    /\ runs = [r \in DeployRuns |-> Idle]

\* The contract at an address: the mined creation with its nonce.
Stands(name, address, args) ==
    \E t \in DOMAIN txs : /\ txs[t].name = name /\ txs[t].nonce = address
                          /\ txs[t].args = args /\ txs[t].block > 0

\* The nonce a signer takes: the first that no transaction has that is mined or waits.
Live(t) == txs[t].block >= 0
NextNonce(n) ==
    /\ \A t \in DOMAIN txs : Live(t) => txs[t].nonce # n
    /\ \A m \in 1..(n - 1) : \E t \in DOMAIN txs : Live(t) /\ txs[t].nonce = m

Goes(r, pc) == runs' = [runs EXCEPT ![r].pc = pc]

\* A process that ended, and what it had in memory with it.
Ended(how) == [Idle EXCEPT !.pc = how]
Disk == <<journal, artifacts>>
Chain == <<txs, height, reorgs>>

Record == [address : Nonces, tx : Nat, block : Nat \ {0}]

\* Markers are none of what they stand in for.
ASSUME DeploymentAssumption ==
    /\ LeastConfirmations \in Nat \ {0} /\ MaxPolicyVersion \in Nat
    /\ MaxHeight \in Nat /\ MaxCreations \in Nat /\ MaxReorgs \in Nat
    /\ NoRecord \notin Record /\ Absent # Torn
    /\ {Absent, Torn} \cap [roles : {env.roles : env \in Environments},
                            policy : {env.policy : env \in Environments},
                            contracts : [Names -> Record \cup {NoRecord}]] = {}

\* main, and the open of the journal: a journal of other inputs is refused.
Opened(config) ==
    IF journal = Absent THEN [config |-> config, status |-> "DEPLOYING", contracts |-> NoContracts]
    ELSE journal

StartRun(r, env) ==
    LET config == ReadDeploymentConfig(env)  file == Opened(config) IN
    /\ runs[r].pc = "idle"
    /\ IF ~Preflight(env) \/ file.config # config
       THEN runs' = [runs EXCEPT ![r] = Ended("failed")] /\ UNCHANGED journal
       ELSE /\ journal' = file
            /\ runs' = [runs EXCEPT ![r] = [Idle EXCEPT !.pc = "resolving", !.config = config,
                              !.status = file.status, !.contracts = file.contracts, !.since = reorgs]]
    /\ UNCHANGED <<Chain, artifacts>>

Following(name) == IF name = "registry" THEN "gate" ELSE "consumer"

Resolved(run) ==
    IF run.at = "consumer" THEN [run EXCEPT !.pc = "verifying", !.at = "registry"]
    ELSE [run EXCEPT !.pc = "resolving", !.at = Following(run.at)]

\* getCode
SomeCode(address) == \E t \in DOMAIN txs : txs[t].nonce = address /\ txs[t].block > 0

\* verifyRecoveredRecord: receipt, block, address, confirmations and code
RecoveredRecordValid(r, record) ==
    /\ txs[record.tx].block = record.block /\ txs[record.tx].nonce = record.address
    /\ height - record.block + 1 >= runs[r].config.confirmations

Recover(r) ==
    LET run == runs[r]  record == run.contracts[run.at] IN
    /\ run.pc = "resolving" /\ record # NoRecord
    /\ runs' = [runs EXCEPT ![r] = IF RecoveredRecordValid(r, record) THEN Resolved(run)
                                   ELSE Ended("failed")]
    /\ UNCHANGED <<Chain, Disk>>

\* factory.deploy; the constructor of the gate wants code at its registry.
Create(r) ==
    LET run == runs[r] IN
    /\ run.pc = "resolving" /\ run.contracts[run.at] = NoRecord
    /\ run.at = "gate" => SomeCode(run.contracts["registry"].address)
    /\ Len(txs) < MaxCreations
    /\ \E n \in Nonces : NextNonce(n) /\
         txs' = Append(txs, [name |-> run.at, nonce |-> n,
                             args |-> Args(run.at, run.config, run.contracts), block |-> 0])
    /\ runs' = [runs EXCEPT ![r].pc = "waiting", ![r].tx = Len(txs) + 1]
    /\ UNCHANGED <<height, reorgs, Disk>>

\* wait(confirmations)
WaitForReceipt(r) ==
    LET run == runs[r]  block == txs[run.tx].block IN
    /\ run.pc = "waiting" /\ block > 0
    /\ height - block + 1 >= run.config.confirmations
    /\ runs' = [runs EXCEPT ![r].pc = "coding", ![r].block = block]
    /\ UNCHANGED <<Chain, Disk>>

\* A slip: the contract is added to what the file holds, not to what this run knows.
SavedInto(file, run, contracts) ==
    [config |-> run.config, status |-> run.status,
     contracts |-> [name \in Names |-> IF name = run.at THEN contracts[name] ELSE file.contracts[name]]]

Saved(file, run, contracts) == [config |-> run.config, status |-> run.status, contracts |-> contracts]

\* getCode, the record and onDeployment with its save
RecordDeployment(r) ==
    LET run == runs[r]
        address == txs[run.tx].nonce
        record == [address |-> address, tx |-> run.tx, block |-> run.block]
        contracts == [run.contracts EXCEPT ![run.at] = record]
    IN /\ run.pc = "coding"
       /\ SomeCode(address)
       /\ journal' = Saved(journal, run, contracts)
       /\ runs' = [runs EXCEPT ![r] = Resolved([run EXCEPT !.contracts = contracts, !.tx = 0, !.block = 0])]
       /\ UNCHANGED <<Chain, artifacts>>

\* verifyDeployment, one contract after the other: roles, pointers and policy
VerifyDeployment(r) ==
    LET run == runs[r] IN
    /\ run.pc = "verifying"
    /\ Stands(run.at, run.contracts[run.at].address, Args(run.at, run.config, run.contracts))
    /\ runs' = [runs EXCEPT ![r] =
                  IF run.at = "consumer" THEN [run EXCEPT !.pc = "persisting"]
                  ELSE [run EXCEPT !.at = Following(run.at)]]
    /\ UNCHANGED <<Chain, Disk>>

Artifact(run) == [roles |-> run.config.roles, policy |-> run.config.policy, contracts |-> run.contracts]

\* persistArtifact: the file is created and then filled; what exists must agree.
PersistArtifact(r) ==
    LET run == runs[r]  address == run.contracts["registry"].address  existing == artifacts[address] IN
    /\ run.pc = "persisting"
    /\ \/ /\ existing = Absent
          /\ artifacts' = [artifacts EXCEPT ![address] = Torn]
          /\ Goes(r, "writing")
       \/ /\ existing # Absent
          /\ runs' = [runs EXCEPT ![r] =
                IF existing # Torn /\ existing.contracts = run.contracts /\ existing.roles = run.config.roles
                THEN [run EXCEPT !.pc = "completing"] ELSE Ended("failed")]
          /\ UNCHANGED artifacts
    /\ UNCHANGED <<Chain, journal>>

WriteArtifact(r) ==
    /\ runs[r].pc = "writing"
    /\ artifacts' = [artifacts EXCEPT ![runs[r].contracts["registry"].address] = Artifact(runs[r])]
    /\ Goes(r, "completing")
    /\ UNCHANGED <<Chain, journal>>

Complete(r) ==
    /\ runs[r].pc = "completing"
    /\ journal' = [config |-> runs[r].config, status |-> "COMPLETE", contracts |-> runs[r].contracts]
    /\ runs' = [runs EXCEPT ![r] = Ended("done")]
    /\ UNCHANGED <<Chain, artifacts>>

\* A call rejects, a contract is not what it should be, or the process dies.
RunFails(r) ==
    /\ runs[r].pc \notin {"idle", "done", "failed"}
    /\ runs' = [runs EXCEPT ![r] = Ended("failed")]
    /\ UNCHANGED <<Chain, Disk>>

-----------------------------------------------------------------------------
(* The chain *)

MineBlock(mined) ==
    /\ height < MaxHeight
    /\ height' = height + 1
    /\ txs' = [t \in DOMAIN txs |-> IF t \in mined THEN [txs[t] EXCEPT !.block = height + 1] ELSE txs[t]]
    /\ UNCHANGED <<reorgs, Disk, runs>>

\* A creation is mined when those of the lower nonces are and none of its own was.  The
\* registry of a gate has a lower nonce, so that its constructor finds code there.
Minable(t) ==
    /\ txs[t].block = 0
    /\ \A m \in 1..(txs[t].nonce - 1) : \E u \in DOMAIN txs : txs[u].nonce = m /\ txs[u].block > 0
    /\ \A u \in DOMAIN txs : txs[u].nonce = txs[t].nonce => txs[u].block <= 0

\* Blocks are replaced: what they created waits again, or is gone.
Reorg(block, gone) ==
    /\ reorgs < MaxReorgs /\ \E t \in DOMAIN txs : txs[t].block >= block
    /\ reorgs' = reorgs + 1
    /\ txs' = [t \in DOMAIN txs |-> IF txs[t].block >= block
                                    THEN [txs[t] EXCEPT !.block = IF t \in gone THEN -1 ELSE 0] ELSE txs[t]]
    /\ UNCHANGED <<height, Disk, runs>>

DeployStep(r) ==
    \/ \E env \in Environments : StartRun(r, env)
    \/ Recover(r) \/ Create(r) \/ WaitForReceipt(r) \/ RecordDeployment(r)
    \/ VerifyDeployment(r) \/ PersistArtifact(r) \/ WriteArtifact(r) \/ Complete(r) \/ RunFails(r)

DeployNext ==
    \/ \E r \in DeployRuns : DeployStep(r)
    \/ MineBlock({}) \/ \E t \in DOMAIN txs : Minable(t) /\ MineBlock({t})
    \/ \E block \in 1..height : \E gone \in SUBSET {t \in DOMAIN txs : txs[t].block >= block} : Reorg(block, gone)

DeploySpec == DeployInit /\ [][DeployNext]_deployVars

-----------------------------------------------------------------------------
(* Properties *)

\* What is named was created with these arguments: a gate on the registry beside it, a
\* consumer on the gate beside it.
OneGraph(config, contracts) ==
    \A name \in Names : contracts[name] # NoRecord =>
        /\ \A earlier \in Before[name] : contracts[earlier] # NoRecord
        /\ contracts[name].tx \in DOMAIN txs
        /\ LET t == txs[contracts[name].tx] IN
             t.name = name /\ t.nonce = contracts[name].address /\ t.args = Args(name, config, contracts)

Whole(contracts) == \A name \in Names : contracts[name] # NoRecord

Verified(r) == runs[r].pc \in {"verifying", "persisting", "writing", "completing"}

\* However runs die, are started again or overlap, the journal and every artifact name one
\* graph, made for the configuration they carry; a complete journal has its artifact, an
\* artifact is found under its registry; and a run that no reorganisation met verifies
\* contracts that stand in their blocks, confirmed, made with arguments that the
\* constructors take (deployer.ts:71-124, journal.ts:29-51, 04_deploy_prooflock_v2.ts:29-43).
DeploymentIsOneGraph ==
    /\ journal # Absent => OneGraph(journal.config, journal.contracts)
    /\ \A a \in Nonces : artifacts[a] \notin {Absent, Torn} =>
         /\ Whole(artifacts[a].contracts) /\ artifacts[a].contracts["registry"].address = a
         /\ OneGraph(artifacts[a], artifacts[a].contracts)
    /\ journal # Absent /\ journal.status = "COMPLETE" =>
         /\ Whole(journal.contracts)
         /\ artifacts[journal.contracts["registry"].address] =
              [roles |-> journal.config.roles, policy |-> journal.config.policy, contracts |-> journal.contracts]
    /\ \A r \in DeployRuns : runs[r].pc \notin {"idle", "done", "failed"} => ConstructorsAccept(runs[r].config)
    /\ \A r \in DeployRuns, name \in Names : Verified(r) /\ reorgs = runs[r].since =>
         LET record == runs[r].contracts[name] IN
         /\ record # NoRecord /\ txs[record.tx].block = record.block
         /\ height - record.block + 1 >= runs[r].config.confirmations
=============================================================================
