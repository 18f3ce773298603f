------------------------------ MODULE SentinelV1 ------------------------------
(***************************************************************************)
(* The first contracts, still deployed: AgentRegistry.sol,                 *)
(* AttestationRegistry.sol and AgentGate.sol.  The gate reads the          *)
(* attestations and never the agent registry.  The call that               *)
(* executeIfSafe forwards is its last effect, so that what a reentrant     *)
(* target does is what a transaction right behind it does.                 *)
(***************************************************************************)
EXTENDS Integers, Sequences, FiniteSets, SequencesExt

CONSTANTS
    Agents, Targets, Senders, Owner, NoAddress,
    TokenIds,
    Writes,           \* the arguments of writeAttestation
    DEFAULT_MAX_AGE,
    MaxWrites, MaxClock  \* bounds: attestations in all, the block time

SAFE == 0
CAUTION == 1
FLAGGED == 2
VULNERABLE == 2
MAX_REASONING_BYTES == 1000
MAX_FINDINGS_BYTES == 500
MAX_THREAT_LEVEL == 1
MAX_CODE_RISK == 1

VARIABLES
    agents, agentTokenIds, agentList,                            \* AgentRegistry
    attestations, attestationHistory, attestedAgents, scanners,  \* AttestationRegistry
    whitelistEnabled, requireCallerIsAgent, approvedTargets,     \* AgentGate
    executed,      \* the last call that the gate forwarded
    clock,
    written,       \* history: of each agent, all that was attested
    deactivated    \* history: the agents that were deactivated

registryVars == <<agents, agentTokenIds, agentList, deactivated>>
attestationVars == <<attestations, attestationHistory, attestedAgents, scanners, written>>
gateVars == <<whitelistEnabled, requireCallerIsAgent, approvedTargets, executed>>
v1Vars == <<registryVars, attestationVars, gateVars, clock>>

None == [score |-> 0, threat |-> SAFE, code |-> 0, at |-> 0]
NoAgent == [known |-> FALSE, active |-> FALSE]

Init ==
    /\ agents = [a \in Agents |-> NoAgent] /\ agentTokenIds = [a \in Agents |-> 0]
    /\ agentList = << >> /\ deactivated = {}
    /\ attestations = [a \in Agents |-> None] /\ attestationHistory = [a \in Agents |-> << >>]
    /\ attestedAgents = << >> /\ scanners = {} /\ written = [a \in Agents |-> << >>]
    /\ whitelistEnabled \in BOOLEAN /\ requireCallerIsAgent \in BOOLEAN /\ approvedTargets = {}
    /\ executed = [n |-> 0, agent |-> NoAddress] /\ clock = 1

-----------------------------------------------------------------------------
(* AgentRegistry *)

Book == [agents |-> agents, ids |-> agentTokenIds, list |-> agentList]

\* A slip: a deactivated agent counts as absent.
UnknownOrInactive(book, a) == a # NoAddress /\ ~book.agents[a].active

Unknown(book, a) == a # NoAddress /\ ~book.agents[a].known

\* Zero addresses and duplicates are skipped, those within a batch too.
Entered(book, a, tokenId) ==
    IF Unknown(book, a)
    THEN [agents |-> [book.agents EXCEPT ![a] = [known |-> TRUE, active |-> TRUE]],
          ids |-> [book.ids EXCEPT ![a] = tokenId], list |-> Append(book.list, a)]
    ELSE book

Registered(book) ==
    /\ agents' = book.agents /\ agentTokenIds' = book.ids /\ agentList' = book.list
    /\ UNCHANGED <<deactivated, attestationVars, gateVars, clock>>

RegisterAgent(sender, a, tokenId) ==
    sender = Owner /\ a # NoAddress /\ Registered(Entered(Book, a, tokenId))

\* Bound: a batch has two entries.
RegisterAgentsBatch(sender, batch, tokenIds) ==
    /\ sender = Owner /\ Len(batch) = Len(tokenIds)
    /\ Registered(Entered(Entered(Book, batch[1], tokenIds[1]), batch[2], tokenIds[2]))

DeactivateAgent(sender, a) ==
    /\ sender = Owner /\ agents[a].known
    /\ agents' = [agents EXCEPT ![a].active = FALSE] /\ deactivated' = deactivated \cup {a}
    /\ UNCHANGED <<agentTokenIds, agentList, attestationVars, gateVars, clock>>

\* getAgentsPaged and getAttestedAgentsPaged
Page(list, offset, limit) ==
    IF offset >= Len(list) THEN << >>
    ELSE SubSeq(list, offset + 1, IF offset + limit > Len(list) THEN Len(list) ELSE offset + limit)

-----------------------------------------------------------------------------
(* AttestationRegistry *)

SetScanner(sender, scanner, allowed) ==
    /\ sender = Owner
    /\ scanners' = IF allowed THEN scanners \cup {scanner} ELSE scanners \ {scanner}
    /\ UNCHANGED <<registryVars, attestations, attestationHistory, attestedAgents, written, gateVars, clock>>

Consistent(w) == CASE w.threat = FLAGGED -> w.score >= 60
                   [] w.threat = CAUTION -> w.score >= 30 /\ w.score < 60
                   [] OTHER              -> w.score < 60

Pushed(a, att) == Append(attestationHistory[a], attestations[a])

WriteAttestation(sender, a, w) ==
    LET att == [score |-> w.score, threat |-> w.threat, code |-> w.code, at |-> clock]
        isNew == attestations[a].at = 0
    IN /\ sender = Owner \/ sender \in scanners
       /\ a # NoAddress /\ w.score <= 100 /\ w.threat <= 2 /\ w.code <= 2 /\ Consistent(w)
       /\ w.reasoning <= MAX_REASONING_BYTES /\ w.findings <= MAX_FINDINGS_BYTES
       /\ Cardinality(UNION {{b} \X DOMAIN written[b] : b \in Agents}) < MaxWrites
       /\ attestationHistory' = IF isNew THEN attestationHistory
                                ELSE [attestationHistory EXCEPT ![a] = Pushed(a, att)]
       /\ attestations' = [attestations EXCEPT ![a] = att]
       /\ attestedAgents' = IF isNew THEN Append(attestedAgents, a) ELSE attestedAgents
       /\ written' = [written EXCEPT ![a] = Append(@, att)]
       /\ UNCHANGED <<registryVars, scanners, gateVars, clock>>

\* getAttestationHistory: the newest first, all of them for a limit of 0.
GetAttestationHistory(a, limit) ==
    LET history == attestationHistory[a]
        count == IF limit = 0 \/ limit > Len(history) THEN Len(history) ELSE limit
    IN [i \in 1..count |-> history[Len(history) + 1 - i]]

-----------------------------------------------------------------------------
(* AgentGate *)

IsSafeWithAge(a, maxAge) ==
    /\ attestations[a].at > 0
    /\ ~(maxAge > 0 /\ clock - attestations[a].at > maxAge)
    /\ attestations[a].threat <= MAX_THREAT_LEVEL
    /\ attestations[a].code <= MAX_CODE_RISK

\* A slip: the age is not asked for, as in the contract's first version.
IsSafeAtAnyAge(a) == IsSafeWithAge(a, 0)

IsSafe(a) == IsSafeWithAge(a, DEFAULT_MAX_AGE)

ApproveTarget(sender, t, approved) ==
    /\ sender = Owner
    /\ approvedTargets' = IF approved THEN approvedTargets \cup {t} ELSE approvedTargets \ {t}
    /\ UNCHANGED <<registryVars, attestationVars, whitelistEnabled, requireCallerIsAgent, executed, clock>>

SetSwitches(sender, whitelist, strict) ==
    /\ sender = Owner /\ (whitelist = whitelistEnabled \/ strict = requireCallerIsAgent)
    /\ whitelistEnabled' = whitelist /\ requireCallerIsAgent' = strict
    /\ UNCHANGED <<registryVars, attestationVars, approvedTargets, executed, clock>>

\* A call whose target fails is reverted and leaves no trace.
ExecuteIfSafe(sender, a, t) ==
    /\ requireCallerIsAgent => sender = a
    /\ whitelistEnabled => t \in approvedTargets
    /\ IsSafe(a)
    /\ executed' = [n |-> 1 - executed.n, agent |-> a]
    /\ UNCHANGED <<registryVars, attestationVars, whitelistEnabled, requireCallerIsAgent, approvedTargets, clock>>

NextBlock ==
    /\ clock < MaxClock /\ clock' = clock + 1
    /\ UNCHANGED <<registryVars, attestationVars, gateVars>>

AgentsNext ==
    \/ \E s \in Senders, a \in Agents, id \in TokenIds : RegisterAgent(s, a, id)
    \/ \E s \in Senders, a, b \in Agents \cup {NoAddress}, i, j \in TokenIds :
         RegisterAgentsBatch(s, <<a, b>>, <<i, j>>)
    \/ \E s \in Senders, a \in Agents : DeactivateAgent(s, a)

GateNext ==
    \/ \E s \in Senders, a \in Agents, w \in Writes : WriteAttestation(s, a, w)
    \/ \E s \in Senders, a \in Agents, t \in Targets : ExecuteIfSafe(s, a, t)
    \/ \E s \in Senders, scanner \in Senders \ {Owner}, allowed \in BOOLEAN : SetScanner(s, scanner, allowed)
    \/ \E s \in Senders, t \in Targets, approved \in BOOLEAN : ApproveTarget(s, t, approved)
    \/ \E s \in Senders, whitelist, strict \in BOOLEAN : SetSwitches(s, whitelist, strict)
    \/ NextBlock

Next == AgentsNext \/ GateNext

Spec == Init /\ [][Next]_v1Vars

-----------------------------------------------------------------------------
(* Properties *)

Sizes == 0..(Cardinality(Agents) + 1)

\* Nothing that was recorded is lost, doubled or brought back, whatever batches,
\* rescans and deactivations come in which order: the lists name every agent once and
\* any page is a cut of them, an agent's history is all it was ever attested but the
\* current one, newest first, and a deactivated agent is never active again
\* (AgentRegistry.sol:58-101, AttestationRegistry.sol:123-143 and :191-225).
RecordsAreComplete ==
    /\ \A list \in {agentList, attestedAgents} :
         \A limit \in Sizes \ {0} : \A a \in Range(list) :
           Cardinality({o \in Sizes : \E i \in DOMAIN Page(list, o * limit, limit) :
                                        Page(list, o * limit, limit)[i] = a}) = 1
    /\ Range(agentList) = {a \in Agents : agents[a].known}
    /\ Range(attestedAgents) = {a \in Agents : written[a] # << >>}
    /\ \A a \in Agents :
         /\ agents[a].active <=> agents[a].known /\ a \notin deactivated
         /\ Reverse(GetAttestationHistory(a, 0)) \o
              (IF attestations[a].at = 0 THEN << >> ELSE <<attestations[a]>>) = written[a]
         /\ \A limit \in Sizes \ {0} :
              GetAttestationHistory(a, limit) =
                SubSeq(GetAttestationHistory(a, 0), 1, Len(GetAttestationHistory(a, limit)))

\* The gate forwards a call only for an agent whose last verdict was written in the
\* last thirty days, scores below 60 and does not call its code vulnerable, whatever
\* label it carries and whoever wrote it when (AgentGate.sol:120-176 with
\* AttestationRegistry.sol:103-116).
ExecutesOnlyTheSafe ==
    [][executed' # executed =>
         LET w == written[executed'.agent] IN
         /\ w # << >> /\ clock - Last(w).at <= DEFAULT_MAX_AGE
         /\ Last(w).score < 60 /\ Last(w).code # VULNERABLE]_v1Vars
=============================================================================
