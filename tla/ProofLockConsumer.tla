------------------------- MODULE ProofLockConsumer --------------------------
(***************************************************************************)
(* The admission path end to end: registry, gate, identity registry and    *)
(* the consumer contract that lets an agent in,                            *)
(* contracts/ProofLockConsumerDemo.sol.  acceptAgent reads the gate and    *)
(* counts the admission in one transaction.                                *)
(***************************************************************************)
EXTENDS AgentGateV2

CONSTANT MaxAccepted   \* bound on acceptedCount (uint256 in the code)

VARIABLES
  acceptedCount, lastAcceptedAgent, lastAcceptedVersion,
  sealView   \* history: code and registrations seen by the block of each seal

consumerVars == <<acceptedCount, lastAcceptedAgent, lastAcceptedVersion>>
allVars == <<vars, identity, consumerVars, sealView>>

View(subject) ==
  [subject |-> subject,
   code |-> IF subject \in Addresses THEN code[subject] ELSE ZeroHash]

ConsumerInit ==
  /\ Init
  /\ identity \in [AgentIds -> {view \in IdentityViews : view.ownerOf = "owner"}]
  /\ acceptedCount = 0
  /\ lastAcceptedAgent = ZeroAddress
  /\ lastAcceptedVersion = 0
  /\ sealView = [key \in Keys |-> View(ZeroAddress)]

\* The history records what is on chain, not what the scanner claims.
RegistryStep ==
  /\ ScannerStep \/ GuardianStep \/ RoleStep \/ CodeStep
  /\ sealView' = [key \in Keys |->
                    IF proofLocks'[key].version # proofLocks[key].version
                    THEN View(proofLocks'[key].subject) ELSE sealView[key]]
  /\ UNCHANGED <<identity, consumerVars>>

BlockTick == Tick /\ UNCHANGED <<identity, consumerVars, sealView>>

IdentityStep ==
  /\ \E agent \in AgentIds, view \in IdentityViews : IdentityChanges(agent, view)
  /\ UNCHANGED <<consumerVars, sealView>>

\* A slip: the sender is checked and the verdict is not.
AcceptAgentRefused(sender, agent) ==
  LET verdict == CheckAgent(agent)
  IN  /\ sender = verdict.subject
      /\ acceptedCount < MaxAccepted
      /\ acceptedCount' = acceptedCount + 1
      /\ lastAcceptedAgent' = verdict.subject
      /\ lastAcceptedVersion' = verdict.version
      /\ UNCHANGED <<vars, identity, sealView>>

\* acceptAgent(agentId), called by sender
AcceptAgent(sender, agent) ==
  LET verdict == CheckAgent(agent)
  IN  /\ verdict.allowed
      /\ sender = verdict.subject
      /\ acceptedCount < MaxAccepted
      /\ acceptedCount' = acceptedCount + 1
      /\ lastAcceptedAgent' = verdict.subject
      /\ lastAcceptedVersion' = verdict.version
      /\ UNCHANGED <<vars, identity, sealView>>

ConsumerStep == \E sender \in Addresses, agent \in AgentIds : AcceptAgent(sender, agent)

ConsumerNext == RegistryStep \/ BlockTick \/ IdentityStep \/ ConsumerStep

ConsumerSpec == ConsumerInit /\ [][ConsumerNext]_allVars

\* Blocks keep coming; nobody is obliged to seal, watch or accept.
FairConsumerSpec == ConsumerSpec /\ WF_allVars(BlockTick)

-----------------------------------------------------------------------------

Allowed(agent) == CheckAgent(agent).allowed

\* Whoever the gate lets in is the very account that was examined, running
\* the very code it had in the block that sealed its lease, however wallet,
\* code and lease moved in between (AgentGateV2.sol:161-181 against
\* SentinelRegistryV2.sol:166-201).
AllowedIsWhatWasSealed ==
  \A agent \in AgentIds : Allowed(agent) =>
    LET key == KeyOf[agent]
    IN  /\ sealView[key].subject = identity[agent].wallet
        /\ sealView[key].code = code[identity[agent].wallet]
        /\ Sealed(key)

\* Once the gate reports a version revoked, drifted or expired, that version
\* never opens again: access returns only under a later one (README.md:33).
WithdrawnVersionNeverReopens ==
  [][\A agent \in AgentIds :
       /\ CheckAgent(agent).reason \in {REVOKED, DRIFTED, EXPIRED}
       /\ CheckAgent(agent)'.allowed
       => CheckAgent(agent)'.version > CheckAgent(agent).version]_allVars

\* A lease that the scanner just sealed for the agent's wallet, within the
\* limits the gate was configured with, opens the door in the same block.
FreshLeaseAdmits ==
  [][\A agent \in AgentIds :
       LET lock == proofLocks'[KeyOf[agent]]
       IN  /\ lock.version > proofLocks[KeyOf[agent]].version
           /\ identity[agent].ownerOf = "owner"
           /\ identity[agent].wallet = lock.subject
           /\ lock.policyVersion >= minimumPolicyVersion
           /\ lock.behavioralScore <= maxBehavioralScore
           /\ lock.codeRisk <= maxCodeRisk
           => Allowed(agent)']_allVars

\* A lease lapses by itself: an agent that is let in is later refused or holds
\* a newer version, with no cron and no guardian (README.md:33).
LeaseLapses ==
  \A agent \in AgentIds, v \in 1..MaxVersion :
    Allowed(agent) /\ CheckAgent(agent).version = v
      ~> ~(Allowed(agent) /\ CheckAgent(agent).version = v)

\* What the consumer contract sees is the abstract pass.
StatusOf(lock) ==
  CASE lock.state = STATE_ACTIVE  -> "open"
    [] lock.state = STATE_DRIFTED -> "suspended"
    [] lock.state = STATE_REVOKED -> "closed"
    [] lock.state = 0             -> "none"

Pass == INSTANCE AdmissionPass WITH
          Holders     <- Keys,
          status      <- [key \in Keys |-> StatusOf(proofLocks[key])],
          version     <- [key \in Keys |-> proofLocks[key].version],
          admissions  <- acceptedCount,
          lastVersion <- lastAcceptedVersion

\* Every step of the contracts is a step of the abstract pass or invisible.
ImplementsPass == Pass!PassSpec

\* README.md:33, "If the agent's identity or registration changes, the gate
\* flips to DENIED on its own": a step that rewrites the registration of an
\* agent leaves the gate closed for it.
RegistrationChangeDenies ==
  [][\A agent \in AgentIds :
       identity'[agent].registration # identity[agent].registration
         => ~Allowed(agent)']_allVars
=============================================================================
