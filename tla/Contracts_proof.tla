--------------------------- MODULE Contracts_proof ----------------------------
(***************************************************************************)
(* The contracts, old and new.  FirstInv is the inductive invariant of the *)
(* first contracts: the registry's list and its flags say the same of each *)
(* agent, and what an agent was attested is its history and its current    *)
(* attestation.  Of the lease registry it is RegistryInv.                  *)
(***************************************************************************)
EXTENDS MCContracts, SentinelRegistryV2_proof, FiniteSetTheorems, SequenceTheorems

-----------------------------------------------------------------------------
(* The first agent registry.                                                *)

\* A list that names each of its entries once.
Once(list) == \A i, j \in 1..Len(list) : list[i] = list[j] => i = j

Lists(list, a) == \E i \in 1..Len(list) : list[i] = a

\* A list that a new entry is appended to.
LEMMA OneMore ==
    ASSUME NEW old \in Seq(Agents), Once(old), NEW a \in Agents, ~Lists(old, a),
           NEW list, list = Append(old, a)
    PROVE  /\ list \in Seq(Agents) /\ Once(list)
           /\ \A c \in Agents : Lists(list, c) <=> c = a \/ Lists(old, c)
<1>0. \A i \in 1..Len(old) : old[i] # a
  BY DEF Lists
<1>1. list \in Seq(Agents) /\ Len(list) = Len(old) + 1 /\ Len(old) \in Nat
  OBVIOUS
<1>2. list[Len(list)] = a /\ \A i \in 1..Len(old) : list[i] = old[i]
  OBVIOUS
<1>3. \A i \in 1..Len(list) : i = Len(list) \/ i \in 1..Len(old)
  BY <1>1
<1>4. Once(list)
  <2>1. SUFFICES ASSUME NEW i \in 1..Len(list), NEW j \in 1..Len(list), list[i] = list[j] PROVE i = j
    BY DEF Once
  <2>2. CASE i = Len(list) /\ j \in 1..Len(old)
    BY <1>0, <1>2, <2>1, <2>2
  <2>3. CASE j = Len(list) /\ i \in 1..Len(old)
    BY <1>0, <1>2, <2>1, <2>3
  <2>4. CASE i \in 1..Len(old) /\ j \in 1..Len(old)
    BY <1>2, <2>1, <2>4 DEF Once
  <2>. QED
    BY <1>3, <2>2, <2>3, <2>4
<1>5. ASSUME NEW c \in Agents
      PROVE Lists(list, c) <=> c = a \/ Lists(old, c)
  <2>1. ASSUME NEW i \in 1..Len(list), list[i] = c
        PROVE c = a \/ \E j \in 1..Len(old) : old[j] = c
    BY <1>2, <1>3, <2>1
  <2>2. ASSUME c = a
        PROVE \E i \in 1..Len(list) : list[i] = c
    <3>1. Len(list) \in 1..Len(list)
      BY <1>1
    <3>. QED
      BY <1>2, <2>2, <3>1
  <2>3. ASSUME NEW j \in 1..Len(old), old[j] = c
        PROVE \E i \in 1..Len(list) : list[i] = c
    <3>1. j \in 1..Len(list)
      BY <1>1
    <3>. QED
      BY <1>2, <2>3, <3>1
  <2>. QED
    BY <2>1, <2>2, <2>3 DEF Lists
<1>. QED
  BY <1>1, <1>4, <1>5

BookTrue(book, gone) ==
    /\ book = [agents |-> book.agents, ids |-> book.ids, list |-> book.list]
    /\ book.agents \in [Agents -> [known : BOOLEAN, active : BOOLEAN]]
    /\ book.list \in Seq(Agents) /\ Once(book.list)
    /\ \A a \in Agents : book.agents[a].known <=> Lists(book.list, a)
    /\ \A a \in Agents : book.agents[a].active <=> book.agents[a].known /\ a \notin gone
    /\ \A a \in Agents : a \in gone => book.agents[a].known

\* An entry is new, and at the end, or leaves the book as it was.
LEMMA EntryKeeps ==
    ASSUME NEW book, NEW gone, BookTrue(book, gone), NEW a \in Agents \cup {NoAddress}, NEW tokenId
    PROVE  BookTrue(V1!Entered(book, a, tokenId), gone)
<1>1. CASE ~V1!Unknown(book, a)
  BY <1>1 DEF V1!Entered
<1>2. CASE V1!Unknown(book, a)
  <2>1. a \in Agents /\ ~book.agents[a].known
    BY <1>2 DEF V1!Unknown
  <2>2. PICK list : list = Append(book.list, a)
    OBVIOUS
  <2>3. PICK new : new = [book.agents EXCEPT ![a] = [known |-> TRUE, active |-> TRUE]]
    OBVIOUS
  <2>4. PICK b : b = V1!Entered(book, a, tokenId)
    OBVIOUS
  <2>5. b.agents = new /\ b.list = list /\ b = [agents |-> b.agents, ids |-> b.ids, list |-> b.list]
    BY <1>2, <2>2, <2>3, <2>4 DEF V1!Entered
  <2>6. /\ book.agents \in [Agents -> [known : BOOLEAN, active : BOOLEAN]]
        /\ book.list \in Seq(Agents) /\ Once(book.list)
    BY DEF BookTrue
  <2>7. /\ new \in [Agents -> [known : BOOLEAN, active : BOOLEAN]]
        /\ \A c \in Agents : new[c] = IF c = a THEN [known |-> TRUE, active |-> TRUE] ELSE book.agents[c]
    BY <2>1, <2>3, <2>6
  <2>8. ~Lists(book.list, a)
    BY <2>1 DEF BookTrue
  <2>9. /\ list \in Seq(Agents) /\ Once(list)
        /\ \A c \in Agents : Lists(list, c) <=> c = a \/ Lists(book.list, c)
    <3>1. PICK old \in Seq(Agents) : old = book.list
      BY <2>6
    <3>2. Once(old) /\ ~Lists(old, a) /\ list = Append(old, a) /\ a \in Agents
      BY <2>1, <2>2, <2>6, <2>8, <3>1
    <3>3. /\ list \in Seq(Agents) /\ Once(list)
          /\ \A c \in Agents : Lists(list, c) <=> c = a \/ Lists(old, c)
      BY <3>2, OneMore
    <3>. QED
      BY <3>1, <3>3
  <2>10. ASSUME NEW c \in Agents
         PROVE  /\ new[c].known <=> Lists(list, c)
                /\ new[c].active <=> new[c].known /\ c \notin gone
                /\ c \in gone => new[c].known
    <3>1. CASE c = a
      <4>1. new[c].known /\ new[c].active /\ c \notin gone
        BY <2>1, <2>7, <3>1 DEF BookTrue
      <4>2. Lists(list, c)
        BY <2>9, <3>1
      <4>. QED
        BY <4>1, <4>2
    <3>2. CASE c # a
      <4>1. new[c] = book.agents[c]
        BY <2>7, <3>2
      <4>2. Lists(list, c) <=> Lists(book.list, c)
        BY <2>9, <3>2
      <4>. QED
        BY <4>1, <4>2 DEF BookTrue
    <3>. QED
      BY <3>1, <3>2
  <2>. QED
    BY <2>4, <2>5, <2>7, <2>9, <2>10 DEF BookTrue
<1>. QED
  BY <1>1, <1>2

LEMMA AgentsStart == ASSUME V1!Init PROVE BookTrue(V1!Book, deactivated)
<1>1. /\ agents = [a \in Agents |-> [known |-> FALSE, active |-> FALSE]] /\ agentList = << >>
      /\ deactivated = {}
  BY DEF V1!Init, V1!NoAgent
<1>2. PICK b : b = V1!Book
  OBVIOUS
<1>3. b.agents = agents /\ b.list = agentList /\ b = [agents |-> b.agents, ids |-> b.ids, list |-> b.list]
  BY <1>2 DEF V1!Book
<1>. QED
  BY <1>1, <1>2, <1>3 DEF BookTrue, Once, Lists

LEMMA AgentsKeep ==
    ASSUME BookTrue(V1!Book, deactivated), V1!AgentsNext PROVE BookTrue(V1!Book, deactivated)'
<1>1. ASSUME NEW b, BookTrue(b, deactivated), V1!Registered(b)
      PROVE BookTrue(V1!Book, deactivated)'
  <2>1. deactivated' = deactivated /\ V1!Book' = [agents |-> b.agents, ids |-> b.ids, list |-> b.list]
    BY <1>1 DEF V1!Registered, V1!Book
  <2>2. V1!Book' = b
    BY <1>1, <2>1 DEF BookTrue
  <2>. QED
    BY <1>1, <2>1, <2>2 DEF BookTrue
<1>2. ASSUME NEW s \in Senders, NEW a \in Agents, NEW id \in TokenIds, V1!RegisterAgent(s, a, id)
      PROVE BookTrue(V1!Book, deactivated)'
  <2>1. BookTrue(V1!Entered(V1!Book, a, id), deactivated)
    BY EntryKeeps
  <2>. QED
    BY <1>1, <1>2, <2>1 DEF V1!RegisterAgent
<1>3. ASSUME NEW s \in Senders, NEW a \in Agents \cup {NoAddress}, NEW b \in Agents \cup {NoAddress},
             NEW i \in TokenIds, NEW j \in TokenIds, V1!RegisterAgentsBatch(s, <<a, b>>, <<i, j>>)
      PROVE BookTrue(V1!Book, deactivated)'
  <2>1. PICK first : first = V1!Entered(V1!Book, a, i)
    OBVIOUS
  <2>2. PICK both : both = V1!Entered(first, b, j)
    OBVIOUS
  <2>3. BookTrue(first, deactivated)
    BY <2>1, EntryKeeps
  <2>4. BookTrue(both, deactivated)
    BY <2>2, <2>3, EntryKeeps
  <2>5. V1!Registered(both)
    BY <1>3, <2>1, <2>2 DEF V1!RegisterAgentsBatch
  <2>. QED
    BY <1>1, <2>4, <2>5
<1>4. ASSUME NEW s \in Senders, NEW a \in Agents, V1!DeactivateAgent(s, a)
      PROVE BookTrue(V1!Book, deactivated)'
  <2>1. /\ agents[a].known /\ agents' = [agents EXCEPT ![a].active = FALSE]
        /\ deactivated' = deactivated \cup {a} /\ agentList' = agentList
    BY <1>4 DEF V1!DeactivateAgent
  <2>2. /\ agents \in [Agents -> [known : BOOLEAN, active : BOOLEAN]]
        /\ agentList \in Seq(Agents) /\ Once(agentList)
        /\ \A c \in Agents : agents[c].known <=> Lists(agentList, c)
        /\ \A c \in Agents : agents[c].active <=> agents[c].known /\ c \notin deactivated
        /\ \A c \in Agents : c \in deactivated => agents[c].known
    BY DEF BookTrue, V1!Book
  <2>3. /\ agents' \in [Agents -> [known : BOOLEAN, active : BOOLEAN]]
        /\ \A c \in Agents : agents'[c].known = agents[c].known
        /\ agents'[a].active = FALSE /\ \A c \in Agents : c # a => agents'[c] = agents[c]
    <3>1. PICK row : row = [agents[a] EXCEPT !.active = FALSE]
      OBVIOUS
    <3>2. row \in [known : BOOLEAN, active : BOOLEAN] /\ row.known = agents[a].known /\ row.active = FALSE
      <4>1. PICK k \in BOOLEAN, on \in BOOLEAN : agents[a] = [known |-> k, active |-> on]
        BY <2>2
      <4>2. PICK old : old = agents[a]
        OBVIOUS
      <4>3. old = [known |-> k, active |-> on] /\ row = [old EXCEPT !.active = FALSE]
        BY <3>1, <4>1, <4>2
      <4>4. row = [known |-> k, active |-> FALSE]
        BY <4>3
      <4>5. row.known = k /\ row.active = FALSE
        BY <4>4
      <4>. QED
        BY <4>1, <4>4, <4>5
    <3>3. agents' = [agents EXCEPT ![a] = row]
      BY <2>1, <2>2, <3>1
    <3>4. /\ agents' \in [Agents -> [known : BOOLEAN, active : BOOLEAN]] /\ agents'[a] = row
          /\ \A c \in Agents : c # a => agents'[c] = agents[c]
      BY <2>2, <3>2, <3>3
    <3>. QED
      BY <3>2, <3>4
  <2>4. PICK b : b = V1!Book'
    OBVIOUS
  <2>5. b.agents = agents' /\ b.list = agentList /\ b = [agents |-> b.agents, ids |-> b.ids, list |-> b.list]
    BY <2>1, <2>4 DEF V1!Book
  <2>6. BookTrue(b, deactivated')
    <3>1. \A c \in Agents : b.agents[c].known <=> Lists(b.list, c)
      BY <2>2, <2>3, <2>5
    <3>2. ASSUME NEW c \in Agents
          PROVE  /\ b.agents[c].active <=> b.agents[c].known /\ c \notin deactivated'
                 /\ c \in deactivated' => b.agents[c].known
      <4>1. CASE c = a
        BY <2>1, <2>3, <2>5, <4>1
      <4>2. CASE c # a
        BY <2>1, <2>2, <2>3, <2>5, <4>2
      <4>. QED
        BY <4>1, <4>2
    <3>. QED
      BY <2>2, <2>3, <2>5, <3>1, <3>2 DEF BookTrue
  <2>. QED
    BY <2>4, <2>6 DEF BookTrue
<1>. QED
  BY <1>2, <1>3, <1>4 DEF V1!AgentsNext

LEMMA AgentsLeaveGate ==
    ASSUME V1!AgentsNext
    PROVE  UNCHANGED <<attestations, attestationHistory, attestedAgents, written, clock, executed>>
<1>1. ASSUME NEW b, V1!Registered(b)
      PROVE UNCHANGED <<attestations, attestationHistory, attestedAgents, written, clock, executed>>
  BY <1>1 DEF V1!Registered, V1!attestationVars, V1!gateVars
<1>2. ASSUME NEW s \in Senders, NEW a \in Agents, V1!DeactivateAgent(s, a)
      PROVE UNCHANGED <<attestations, attestationHistory, attestedAgents, written, clock, executed>>
  BY <1>2 DEF V1!DeactivateAgent, V1!attestationVars, V1!gateVars
<1>3. ASSUME NEW s, NEW a, NEW b, NEW i, NEW j, V1!RegisterAgentsBatch(s, <<a, b>>, <<i, j>>)
      PROVE \E k : V1!Registered(k)
  BY <1>3 DEF V1!RegisterAgentsBatch
<1>. QED
  BY <1>1, <1>2, <1>3 DEF V1!AgentsNext, V1!RegisterAgent

-----------------------------------------------------------------------------
(* The attestations and their gate.                                         *)

Row == [score : Nat, threat : Nat, code : Nat, at : Nat]

\* A mild label goes with a mild score.
Mild(row) == row.threat <= 1 => row.score < 60

Attested(a) ==
    IF attestations[a].at = 0
    THEN written[a] = << >> /\ attestationHistory[a] = << >>
    ELSE written[a] = Append(attestationHistory[a], attestations[a]) /\ Mild(attestations[a])

AttestationsTrue ==
    /\ clock \in Nat \ {0}
    /\ attestations \in [Agents -> Row] /\ attestationHistory \in [Agents -> Seq(Row)]
    /\ written \in [Agents -> Seq(Row)]
    /\ attestedAgents \in Seq(Agents) /\ Once(attestedAgents)
    /\ \A a \in Agents : attestations[a].at # 0 <=> Lists(attestedAgents, a)
    /\ \A a \in Agents : Attested(a)

LEMMA AttestationsStart == ASSUME V1!Init PROVE AttestationsTrue
  BY DEF V1!Init, V1!None, V1!SAFE, AttestationsTrue, Attested, Row, Once, Lists

LEMMA ConsistentIsMild ==
    ASSUME NEW w \in Verdicts, V1!Consistent(w), w.threat <= 2 PROVE w.threat <= 1 => w.score < 60
<1>1. w.score \in Nat /\ w.threat \in Nat
  BY FirstContractsAssumption
<1>2. CASE w.threat = 1
  BY <1>1, <1>2 DEF V1!Consistent, V1!FLAGGED, V1!CAUTION
<1>3. CASE w.threat = 0
  BY <1>1, <1>3 DEF V1!Consistent, V1!FLAGGED, V1!CAUTION
<1>. QED
  BY <1>1, <1>2, <1>3

LEMMA WriteKeeps ==
    ASSUME AttestationsTrue, NEW s, NEW a \in Agents, NEW w \in Verdicts, V1!WriteAttestation(s, a, w)
    PROVE  AttestationsTrue'
<1>0. /\ clock \in Nat \ {0}
      /\ attestations \in [Agents -> Row] /\ attestationHistory \in [Agents -> Seq(Row)]
      /\ written \in [Agents -> Seq(Row)]
      /\ attestedAgents \in Seq(Agents) /\ Once(attestedAgents)
      /\ \A c \in Agents : attestations[c].at # 0 <=> Lists(attestedAgents, c)
      /\ \A c \in Agents : Attested(c)
  BY DEF AttestationsTrue
<1>1. PICK att : att = [score |-> w.score, threat |-> w.threat, code |-> w.code, at |-> clock]
  OBVIOUS
<1>2. /\ V1!Consistent(w) /\ w.threat <= 2 /\ clock' = clock
      /\ attestations' = [attestations EXCEPT ![a] = att]
      /\ written' = [written EXCEPT ![a] = Append(written[a], att)]
      /\ attestationHistory' = IF attestations[a].at = 0 THEN attestationHistory
           ELSE [attestationHistory EXCEPT ![a] = Append(attestationHistory[a], attestations[a])]
      /\ attestedAgents' = IF attestations[a].at = 0 THEN Append(attestedAgents, a) ELSE attestedAgents
  BY <1>0, <1>1 DEF V1!WriteAttestation, V1!Pushed
<1>3. att \in Row /\ att.at = clock /\ Mild(att)
  <2>1. w.score \in Nat /\ w.threat \in Nat /\ w.code \in Nat
    BY FirstContractsAssumption
  <2>2. w.threat <= 1 => w.score < 60
    BY <1>2, ConsistentIsMild
  <2>. QED
    BY <1>0, <1>1, <2>1, <2>2 DEF Row, Mild
<1>4. /\ attestations' \in [Agents -> Row] /\ attestations'[a] = att
      /\ \A c \in Agents : c # a => attestations'[c] = attestations[c]
  BY <1>0, <1>2, <1>3
<1>5. /\ written' \in [Agents -> Seq(Row)] /\ written'[a] = Append(written[a], att)
      /\ \A c \in Agents : c # a => written'[c] = written[c]
  <2>1. Append(written[a], att) \in Seq(Row)
    BY <1>0, <1>3
  <2>. QED
    BY <1>0, <1>2, <2>1
<1>6. /\ attestationHistory' \in [Agents -> Seq(Row)]
      /\ attestationHistory'[a] = IF attestations[a].at = 0 THEN attestationHistory[a]
                                  ELSE Append(attestationHistory[a], attestations[a])
      /\ \A c \in Agents : c # a => attestationHistory'[c] = attestationHistory[c]
  <2>1. Append(attestationHistory[a], attestations[a]) \in Seq(Row)
    BY <1>0
  <2>. QED
    BY <1>0, <1>2, <2>1
<1>7. Attested(a)'
  <2>1. written'[a] = Append(attestationHistory'[a], attestations'[a])
    BY <1>0, <1>4, <1>5, <1>6 DEF Attested
  <2>. QED
    BY <1>0, <1>3, <1>4, <2>1 DEF Attested
<1>8. \A c \in Agents : Attested(c)'
  BY <1>0, <1>4, <1>5, <1>6, <1>7 DEF Attested
<1>9. /\ attestedAgents' \in Seq(Agents) /\ Once(attestedAgents')
      /\ \A c \in Agents : attestations'[c].at # 0 <=>
           Lists(attestedAgents', c)
  <2>1. CASE attestations[a].at # 0
    <3>1. attestedAgents' = attestedAgents /\ attestations'[a].at # 0
      BY <1>0, <1>2, <1>3, <1>4, <2>1
    <3>. QED
      BY <1>0, <1>4, <2>1, <3>1
  <2>2. CASE attestations[a].at = 0
    <3>1. PICK list : list = Append(attestedAgents, a)
      OBVIOUS
    <3>2. attestedAgents' = list
      BY <1>2, <2>2, <3>1
    <3>3. ~Lists(attestedAgents, a)
      BY <1>0, <2>2
    <3>4. /\ list \in Seq(Agents) /\ Once(list)
          /\ \A c \in Agents : Lists(list, c) <=> c = a \/ Lists(attestedAgents, c)
      BY <1>0, <3>1, <3>3, OneMore
    <3>5. attestations'[a].at # 0
      BY <1>0, <1>3, <1>4
    <3>. QED
      BY <1>0, <1>4, <3>2, <3>4, <3>5
  <2>. QED
    BY <2>1, <2>2
<1>. QED
  BY <1>0, <1>2, <1>4, <1>5, <1>6, <1>8, <1>9 DEF AttestationsTrue

LEMMA AttestationsRest ==
    ASSUME AttestationsTrue, UNCHANGED <<attestations, attestationHistory, attestedAgents, written>>,
           clock' \in Nat \ {0}
    PROVE  AttestationsTrue'
  BY DEF AttestationsTrue, Attested

LEMMA AttestationsKeep == ASSUME AttestationsTrue, V1!GateNext PROVE AttestationsTrue'
<1>0. clock \in Nat \ {0}
  BY DEF AttestationsTrue
<1>1. ASSUME NEW s \in Senders, NEW a \in Agents, NEW t \in Targets, V1!ExecuteIfSafe(s, a, t)
      PROVE AttestationsTrue'
  BY <1>0, <1>1, AttestationsRest DEF V1!ExecuteIfSafe, V1!attestationVars
<1>2. ASSUME NEW s \in Senders, NEW c \in Senders, NEW allowed \in BOOLEAN, V1!SetScanner(s, c, allowed)
      PROVE AttestationsTrue'
  BY <1>0, <1>2, AttestationsRest DEF V1!SetScanner
<1>3. ASSUME NEW s \in Senders, NEW t \in Targets, NEW approved \in BOOLEAN, V1!ApproveTarget(s, t, approved)
      PROVE AttestationsTrue'
  BY <1>0, <1>3, AttestationsRest DEF V1!ApproveTarget, V1!attestationVars
<1>4. ASSUME NEW s \in Senders, NEW whitelist \in BOOLEAN, NEW strict \in BOOLEAN,
             V1!SetSwitches(s, whitelist, strict)
      PROVE AttestationsTrue'
  BY <1>0, <1>4, AttestationsRest DEF V1!SetSwitches, V1!attestationVars
<1>5. ASSUME V1!NextBlock
      PROVE AttestationsTrue'
  <2>1. clock' \in Nat \ {0}
    BY <1>0, <1>5 DEF V1!NextBlock
  <2>. QED
    BY <1>5, <2>1, AttestationsRest DEF V1!NextBlock, V1!attestationVars
<1>. QED
  BY <1>1, <1>2, <1>3, <1>4, <1>5, WriteKeeps DEF V1!GateNext

-----------------------------------------------------------------------------
(* The two together.                                                        *)

FirstInv == BookTrue(V1!Book, deactivated) /\ AttestationsTrue

LEMMA FirstStarts == ContractsInit => FirstInv
  BY AgentsStart, AttestationsStart DEF ContractsInit, FirstInv

LEMMA FirstKeeps ==
    ASSUME FirstInv, [ContractsNext]_contractsVars
    PROVE  FirstInv'
<1>1. CASE V2Step \/ DeploymentStep \/ DeploymentOver \/ UNCHANGED contractsVars
  <2>1. UNCHANGED firstVars
    BY <1>1 DEF V2Step, DeploymentStep, DeploymentOver, contractsVars
  <2>2. V1!Book' = V1!Book /\ deactivated' = deactivated
    BY <2>1 DEF firstVars, V1!Book
  <2>3. BookTrue(V1!Book, deactivated)'
    BY <2>2 DEF FirstInv, BookTrue
  <2>4. AttestationsTrue'
    BY <2>1, AttestationsRest DEF firstVars, FirstInv, AttestationsTrue
  <2>. QED
    BY <2>3, <2>4 DEF FirstInv
<1>2. CASE V1AgentsStep
  <2>1. V1!AgentsNext
    BY <1>2 DEF V1AgentsStep
  <2>2. UNCHANGED <<attestations, attestationHistory, attestedAgents, written, clock>>
    BY <2>1, AgentsLeaveGate
  <2>. QED
    BY <2>1, <2>2, AgentsKeep, AttestationsRest DEF FirstInv, AttestationsTrue
<1>3. CASE V1GateStep
  <2>1. V1!GateNext
    BY <1>3 DEF V1GateStep
  <2>2. UNCHANGED V1!registryVars
    BY <2>1 DEF V1!GateNext, V1!WriteAttestation, V1!ExecuteIfSafe, V1!SetScanner, V1!ApproveTarget,
                V1!SetSwitches, V1!NextBlock
  <2>3. V1!Book' = V1!Book /\ deactivated' = deactivated
    BY <2>2 DEF V1!registryVars, V1!Book
  <2>4. BookTrue(V1!Book, deactivated)'
    BY <2>3 DEF FirstInv, BookTrue
  <2>. QED
    BY <2>1, <2>4, AttestationsKeep DEF FirstInv
<1>. QED
  BY <1>1, <1>2, <1>3 DEF ContractsNext

LEMMA FirstInvariant == ContractsSpec => []FirstInv
<1>1. FirstInv /\ [ContractsNext]_contractsVars => FirstInv'
  BY FirstKeeps
<1>. QED
  BY <1>1, FirstStarts, PTL DEF ContractsSpec

\* The first gate forwards a call only for an agent whose last verdict was written in the last
\* thirty days, scores below 60 and does not call its code vulnerable (AgentGate.sol:111-194).
THEOREM GateExecutesOnlyTheSafe == ContractsSpec => ExecutesOnlyTheSafe
<1>1. ASSUME FirstInv, [ContractsNext]_contractsVars,
             executed' # executed
      PROVE  LET w == written[executed'.agent] IN
             /\ w # << >> /\ clock - V1!Last(w).at <= DEFAULT_MAX_AGE
             /\ V1!Last(w).score < 60 /\ V1!Last(w).code # V1!VULNERABLE
  <2>1. V1!GateNext
    <3>1. V2Step \/ DeploymentStep \/ DeploymentOver \/ UNCHANGED contractsVars => UNCHANGED executed
      BY DEF V2Step, DeploymentStep, DeploymentOver, contractsVars, firstVars
    <3>2. V1AgentsStep => UNCHANGED executed
      BY AgentsLeaveGate DEF V1AgentsStep
    <3>. QED
      BY <1>1, <3>1, <3>2 DEF V1GateStep, ContractsNext
  <2>2. PICK s \in Senders, a \in Agents, t \in Targets : V1!ExecuteIfSafe(s, a, t)
    BY <1>1, <2>1 DEF V1!GateNext, V1!WriteAttestation, V1!SetScanner, V1!ApproveTarget, V1!SetSwitches,
                      V1!NextBlock, V1!gateVars
  <2>3. executed'.agent = a /\ V1!IsSafe(a)
    BY <2>2 DEF V1!ExecuteIfSafe
  <2>4. /\ attestations[a].at > 0 /\ attestations[a].threat <= 1 /\ attestations[a].code <= 1
        /\ ~(DEFAULT_MAX_AGE > 0 /\ clock - attestations[a].at > DEFAULT_MAX_AGE)
    BY <2>3 DEF V1!IsSafe, V1!IsSafeWithAge, V1!MAX_THREAT_LEVEL, V1!MAX_CODE_RISK
  <2>5. attestations[a] \in Row /\ clock \in Nat /\ attestationHistory[a] \in Seq(Row) /\ Attested(a)
    BY <1>1 DEF FirstInv, AttestationsTrue
  <2>6. /\ attestations[a].at \in Nat /\ attestations[a].code \in Nat /\ attestations[a].threat \in Nat
        /\ attestations[a].score \in Nat
    BY <2>5 DEF Row
  <2>7. written[a] = Append(attestationHistory[a], attestations[a]) /\ Mild(attestations[a])
    BY <2>4, <2>5, <2>6 DEF Attested
  <2>8. written[a] # << >> /\ V1!Last(written[a]) = attestations[a]
    BY <2>5, <2>7 DEF V1!Last
  <2>9. clock - attestations[a].at <= DEFAULT_MAX_AGE
    BY <2>4, <2>5, <2>6, FirstContractsAssumption
  <2>. QED
    BY <2>3, <2>4, <2>6, <2>7, <2>8, <2>9 DEF Mild, V1!VULNERABLE
<1>2. FirstInv /\ [ContractsNext]_contractsVars =>
        [executed' # executed =>
           LET w == written[executed'.agent] IN
           /\ w # << >> /\ clock - V1!Last(w).at <= DEFAULT_MAX_AGE
           /\ V1!Last(w).score < 60 /\ V1!Last(w).code # V1!VULNERABLE]_V1!v1Vars
  BY <1>1
<1>. QED
  BY <1>2, FirstInvariant, PTL DEF ContractsSpec, ExecutesOnlyTheSafe, V1!ExecutesOnlyTheSafe

-----------------------------------------------------------------------------
(* The lists and histories of the first contracts, read back.               *)

\* One page shows the entry at k: the one of its number.
LEMMA OnePage ==
    ASSUME NEW limit \in Nat \ {0}, NEW k \in Nat \ {0}
    PROVE  /\ (k - 1) \div limit \in 0..k - 1
           /\ \A o \in Nat : (o * limit < k /\ k <= o * limit + limit) <=> o = (k - 1) \div limit
<1>1. PICK q : q = (k - 1) \div limit
  OBVIOUS
<1>2. q \in Nat /\ q * limit \in Nat
  BY <1>1
<1>3. q * limit < k /\ k <= q * limit + limit
  <2>1. PICK r : r = (k - 1) % limit
    OBVIOUS
  <2>2. k - 1 = limit * q + r /\ r \in 0..limit - 1
    BY <1>1, <2>1
  <2>3. limit * q = q * limit
    BY <1>2
  <2>. QED
    BY <1>2, <2>2, <2>3
<1>4. q <= q * limit
  BY <1>2
<1>5. ASSUME NEW o \in Nat, NEW p \in Nat, p < o
      PROVE p * limit + limit <= o * limit
  <2>1. PICK d \in Nat : o = p + 1 + d
    <3>1. o - p - 1 \in Nat /\ o = p + 1 + (o - p - 1)
      BY <1>5
    <3>. QED
      BY <3>1
  <2>2. o * limit = p * limit + limit + d * limit
    BY <2>1
  <2>3. d * limit \in Nat /\ p * limit \in Nat
    OBVIOUS
  <2>. QED
    BY <2>2, <2>3
<1>6. ASSUME NEW o \in Nat, o * limit < k, k <= o * limit + limit
      PROVE o = q
  <2>1. o * limit \in Nat
    OBVIOUS
  <2>2. CASE o < q
    BY <1>2, <1>3, <1>5, <1>6, <2>1, <2>2
  <2>3. CASE q < o
    BY <1>2, <1>3, <1>5, <1>6, <2>1, <2>3
  <2>. QED
    BY <1>2, <2>2, <2>3
<1>. QED
  BY <1>1, <1>2, <1>3, <1>4, <1>6

\* A page shows the entries between its offset and its end.
LEMMA ShownOnPage ==
    ASSUME NEW list \in Seq(Agents), Once(list), NEW k \in 1..Len(list), NEW limit \in Nat \ {0},
           NEW offset \in Nat
    PROVE  (\E i \in DOMAIN V1!Page(list, offset, limit) : V1!Page(list, offset, limit)[i] = list[k])
             <=> offset < k /\ k <= offset + limit
<1>1. Len(list) \in Nat /\ k \in Nat /\ k <= Len(list) /\ 1 <= k
  OBVIOUS
<1>2. CASE offset >= Len(list)
  <2>1. V1!Page(list, offset, limit) = << >>
    BY <1>2 DEF V1!Page
  <2>. QED
    BY <1>1, <1>2, <2>1
<1>3. CASE offset < Len(list)
  <2>1. PICK end : end = IF offset + limit > Len(list) THEN Len(list) ELSE offset + limit
    OBVIOUS
  <2>2. end \in Nat /\ offset < end /\ end <= Len(list) /\ end <= offset + limit
    BY <1>1, <1>3, <2>1
  <2>3. PICK page : page = V1!Page(list, offset, limit)
    OBVIOUS
  <2>4. page = SubSeq(list, offset + 1, end)
    BY <1>1, <1>3, <2>1, <2>3 DEF V1!Page
  <2>5. /\ DOMAIN page = 1..end - offset
        /\ \A i \in 1..end - offset : page[i] = list[offset + i]
    <3>1. offset + 1 \in 1..Len(list) + 1 /\ end \in offset..Len(list)
      BY <1>1, <2>2
    <3>2. end - offset \in Nat /\ end - (offset + 1) + 1 = end - offset
      BY <2>2
    <3>3. page \in Seq(Agents) /\ Len(page) = end - offset
      BY <2>2, <2>4, <3>1, <3>2
    <3>4. \A i \in 1..end - offset : page[i] = list[(offset + 1) + i - 1]
      BY <2>2, <2>4, <3>1, <3>2
    <3>5. DOMAIN page = 1..end - offset
      <4>1. DOMAIN page = 1..Len(page)
        BY <3>3
      <4>. QED
        BY <3>3, <4>1
    <3>6. ASSUME NEW i \in 1..end - offset
          PROVE  page[i] = list[offset + i]
      <4>1. (offset + 1) + i - 1 = offset + i
        BY <2>2, <3>6
      <4>. QED
        BY <3>4, <4>1
    <3>. QED
      BY <3>5, <3>6
  <2>6. ASSUME NEW i \in DOMAIN page, page[i] = list[k]
        PROVE offset < k /\ k <= offset + limit
    <3>1. i \in 1..end - offset /\ offset + i \in 1..Len(list) /\ list[offset + i] = list[k]
      BY <1>1, <2>2, <2>5, <2>6
    <3>2. offset + i = k
      BY <3>1 DEF Once
    <3>. QED
      BY <2>2, <3>1, <3>2
  <2>7. ASSUME offset < k, k <= offset + limit
        PROVE \E i \in DOMAIN page : page[i] = list[k]
    <3>1. k <= end
      BY <1>1, <2>1, <2>7
    <3>2. k - offset \in 1..end - offset /\ offset + (k - offset) = k
      BY <1>1, <2>2, <2>7, <3>1
    <3>3. page[k - offset] = list[k]
      BY <2>5, <3>2
    <3>. QED
      BY <2>5, <3>2, <3>3
  <2>. QED
    BY <2>3, <2>6, <2>7
<1>. QED
  BY <1>1, <1>2, <1>3

LEMMA SameCardinality == ASSUME NEW S PROVE V1!Cardinality(S) = Cardinality(S)
  BY DEF V1!Cardinality, Cardinality

\* A list that names each agent once is not longer than there are agents.
LEMMA ListIsShort ==
    ASSUME NEW list \in Seq(Agents), Once(list)
    PROVE  Len(list) <= Cardinality(Agents) /\ Cardinality(Agents) \in Nat
<1>1. IsFiniteSet(Agents)
  BY FirstContractsAssumption
<1>2. Len(list) \in Nat /\ IsFiniteSet(1..Len(list)) /\ Cardinality(1..Len(list)) = Len(list)
  <2>1. Len(list) \in Nat /\ 0 \in Int
    OBVIOUS
  <2>. QED
    BY <2>1, FS_Interval
<1>3. list \in Injection(1..Len(list), Agents)
  BY DEF Injection, IsInjective, Once
<1>. QED
  BY <1>1, <1>2, <1>3, FS_Injection, FS_CardinalityType

\* Page after page shows each entry on one page.
LEMMA PagesShowOnce ==
    ASSUME NEW list \in Seq(Agents), Once(list), NEW limit \in V1!Sizes \ {0}, NEW a \in V1!Range(list)
    PROVE  V1!Cardinality({o \in V1!Sizes : \E i \in DOMAIN V1!Page(list, o * limit, limit) :
                                              V1!Page(list, o * limit, limit)[i] = a}) = 1
<1>1. PICK k \in 1..Len(list) : list[k] = a
  BY DEF V1!Range
<1>2. PICK n \in Nat : n = Cardinality(Agents) /\ Len(list) <= n /\ V1!Sizes = 0..n + 1
  BY ListIsShort, SameCardinality DEF V1!Sizes
<1>3. limit \in Nat \ {0} /\ k \in Nat \ {0} /\ k <= n
  BY <1>2
<1>4. PICK q : q = (k - 1) \div limit
  OBVIOUS
<1>5. q \in 0..k - 1 /\ \A o \in Nat : (o * limit < k /\ k <= o * limit + limit) <=> o = q
  BY <1>3, <1>4, OnePage
<1>6. ASSUME NEW o \in V1!Sizes
      PROVE (\E i \in DOMAIN V1!Page(list, o * limit, limit) :
               V1!Page(list, o * limit, limit)[i] = a) <=> o = q
  <2>1. o \in Nat /\ o * limit \in Nat
    BY <1>2, <1>3
  <2>0. PICK offset \in Nat : offset = o * limit
    BY <2>1
  <2>2. (\E i \in DOMAIN V1!Page(list, o * limit, limit) :
           V1!Page(list, o * limit, limit)[i] = a) <=> o * limit < k /\ k <= o * limit + limit
    <3>1. (\E i \in DOMAIN V1!Page(list, offset, limit) : V1!Page(list, offset, limit)[i] = list[k])
             <=> offset < k /\ k <= offset + limit
      BY <1>3, ShownOnPage
    <3>. QED
      BY <1>1, <2>0, <3>1
  <2>. QED
    BY <1>5, <2>1, <2>2
<1>7. q \in V1!Sizes
  BY <1>2, <1>3, <1>5
<1>8. {o \in V1!Sizes : \E i \in DOMAIN V1!Page(list, o * limit, limit) :
                          V1!Page(list, o * limit, limit)[i] = a} = {q}
  BY <1>6, <1>7
<1>. QED
  BY <1>8, FS_Singleton, SameCardinality

\* The history is read newest first, and a limit cuts it.
LEMMA HistoryReadsBack ==
    ASSUME AttestationsTrue, NEW a \in Agents
    PROVE  /\ V1!Reverse(V1!GetAttestationHistory(a, 0)) \o
                (IF attestations[a].at = 0 THEN << >> ELSE <<attestations[a]>>) = written[a]
           /\ \A limit \in V1!Sizes \ {0} :
                V1!GetAttestationHistory(a, limit) =
                  SubSeq(V1!GetAttestationHistory(a, 0), 1, Len(V1!GetAttestationHistory(a, limit)))
<1>1. attestationHistory[a] \in Seq(Row) /\ attestations[a] \in Row /\ Attested(a)
  BY DEF AttestationsTrue
<1>2. PICK h \in Seq(Row) : h = attestationHistory[a]
  BY <1>1
<1>3. PICK n \in Nat : n = Len(h)
  OBVIOUS
<1>4. PICK all : all = V1!GetAttestationHistory(a, 0)
  OBVIOUS
<1>5. all = [i \in 1..n |-> h[n + 1 - i]]
  BY <1>2, <1>3, <1>4 DEF V1!GetAttestationHistory
<1>6. all \in Seq(Row) /\ Len(all) = n /\ \A i \in 1..n : all[i] = h[n + 1 - i]
  <2>1. \A i \in 1..n : n + 1 - i \in 1..n /\ h[n + 1 - i] \in Row
    BY <1>3
  <2>. QED
    BY <1>5, <2>1
<1>7. V1!Reverse(all) = h
  <2>1. PICK back : back = V1!Reverse(all)
    OBVIOUS
  <2>2. back = [i \in 1..n |-> all[(n - i) + 1]]
    BY <1>6, <2>1 DEF V1!Reverse
  <2>3. \A i \in 1..n : back[i] = h[i]
    <3>1. ASSUME NEW i \in 1..n PROVE back[i] = h[i]
      <4>1. (n - i) + 1 \in 1..n /\ n + 1 - ((n - i) + 1) = i
        OBVIOUS
      <4>2. all[(n - i) + 1] = h[n + 1 - ((n - i) + 1)]
        BY <1>6, <4>1
      <4>. QED
        BY <2>2, <4>1, <4>2
    <3>. QED
      BY <3>1
  <2>4. h = [i \in 1..n |-> h[i]]
    BY <1>3
  <2>5. back = [i \in 1..n |-> back[i]]
    BY <2>2
  <2>. QED
    BY <2>1, <2>3, <2>4, <2>5
<1>8. V1!Reverse(all) \o (IF attestations[a].at = 0 THEN << >> ELSE <<attestations[a]>>) = written[a]
  <2>1. CASE attestations[a].at = 0
    BY <1>1, <1>2, <1>7, <2>1 DEF Attested
  <2>2. CASE attestations[a].at # 0
    <3>1. h \o <<attestations[a]>> = Append(h, attestations[a])
      BY <1>1, AppendIsConcat
    <3>. QED
      BY <1>1, <1>2, <1>7, <2>2, <3>1 DEF Attested
  <2>. QED
    BY <2>1, <2>2
<1>9. ASSUME NEW limit \in V1!Sizes \ {0}
      PROVE V1!GetAttestationHistory(a, limit) = SubSeq(all, 1, Len(V1!GetAttestationHistory(a, limit)))
  <2>1. limit \in Nat \ {0}
    BY SameCardinality, FirstContractsAssumption, FS_CardinalityType DEF V1!Sizes
  <2>2. PICK count : count = IF limit = 0 \/ limit > n THEN n ELSE limit
    OBVIOUS
  <2>3. count \in 0..n
    BY <2>1, <2>2
  <2>4. PICK some : some = V1!GetAttestationHistory(a, limit)
    OBVIOUS
  <2>5. some = [i \in 1..count |-> h[n + 1 - i]]
    BY <1>2, <1>3, <2>2, <2>4 DEF V1!GetAttestationHistory
  <2>6. Len(some) = count
    BY <2>3, <2>5
  <2>7. SubSeq(all, 1, count) = [i \in 1..count |-> all[i]]
    BY <1>6, <2>3
  <2>8. \A i \in 1..count : all[i] = h[n + 1 - i]
    BY <1>6, <2>3
  <2>. QED
    BY <2>4, <2>5, <2>6, <2>7, <2>8
<1>. QED
  BY <1>4, <1>8, <1>9

LEMMA FirstRecords == FirstInv => V1!RecordsAreComplete
<1> SUFFICES ASSUME FirstInv PROVE V1!RecordsAreComplete
  OBVIOUS
<1>1. /\ agentList \in Seq(Agents) /\ Once(agentList)
      /\ \A a \in Agents : agents[a].known <=> Lists(agentList, a)
      /\ \A a \in Agents : agents[a].active <=> agents[a].known /\ a \notin deactivated
  BY DEF FirstInv, BookTrue, V1!Book
<1>2. /\ attestedAgents \in Seq(Agents) /\ Once(attestedAgents)
      /\ \A a \in Agents : attestations[a].at # 0 <=> Lists(attestedAgents, a)
      /\ \A a \in Agents : Attested(a)
      /\ \A a \in Agents : attestations[a] \in Row /\ attestationHistory[a] \in Seq(Row)
  BY DEF FirstInv, AttestationsTrue
<1>3. \A list \in {agentList, attestedAgents} : \A limit \in V1!Sizes \ {0} : \A a \in V1!Range(list) :
        V1!Cardinality({o \in V1!Sizes : \E i \in DOMAIN V1!Page(list, o * limit, limit) :
                                           V1!Page(list, o * limit, limit)[i] = a}) = 1
  <2>1. ASSUME NEW list \in {agentList, attestedAgents}, NEW limit \in V1!Sizes \ {0}, NEW a \in V1!Range(list)
        PROVE V1!Cardinality({o \in V1!Sizes : \E i \in DOMAIN V1!Page(list, o * limit, limit) :
                                                 V1!Page(list, o * limit, limit)[i] = a}) = 1
    <3>1. list \in Seq(Agents) /\ Once(list)
      BY <1>1, <1>2
    <3>. QED
      BY <3>1, PagesShowOnce
  <2>. QED
    BY <2>1
<1>4. V1!Range(agentList) = {a \in Agents : agents[a].known}
  BY <1>1 DEF V1!Range, Lists
<1>5. V1!Range(attestedAgents) = {a \in Agents : written[a] # << >>}
  <2>1. \A a \in Agents : written[a] # << >> <=> attestations[a].at # 0
    BY <1>2 DEF Attested
  <2>. QED
    BY <1>2, <2>1 DEF V1!Range, Lists
<1>6. AttestationsTrue
  BY DEF FirstInv
<1>. QED
  BY <1>1, <1>3, <1>4, <1>5, <1>6, HistoryReadsBack DEF V1!RecordsAreComplete

\* Whatever is registered, deactivated, attested and sealed, the lists name everyone once and any
\* page is a cut of them, histories are complete, and a deactivated agent stays inactive
\* (AgentRegistry.sol:42-101, AttestationRegistry.sol:120-225, SentinelRegistryV2.sol:149-160).
THEOREM RecordsAlwaysComplete == ContractsSpec => []RecordsAreComplete
<1>1. ContractsInit => RegistryInv
  BY InvInit DEF ContractsInit
<1>2. RegistryInv /\ [ContractsNext]_contractsVars => RegistryInv'
  <2>1. [ContractsNext]_contractsVars => [Next]_vars
    BY DEF ContractsNext, V2Step, V1AgentsStep, V1GateStep, DeploymentStep, DeploymentOver, contractsVars
  <2>. QED
    BY <2>1, InvStep
<1>3. ContractsSpec => []RegistryInv
  BY <1>1, <1>2, PTL DEF ContractsSpec
<1>4. FirstInv /\ RegistryInv => RecordsAreComplete
  BY FirstRecords, PagesCover DEF RecordsAreComplete, RegistryInv
<1>. QED
  BY <1>3, <1>4, FirstInvariant, PTL

-----------------------------------------------------------------------------
(* The deployment.  DeployInv says of every run what it has found out at its *)
(* step: its records are one graph of the creations that were sent, those    *)
(* that it went past are placed unless blocks were replaced, and the         *)
(* artifact is its own to write.                                             *)

Configs == {ReadDeploymentConfig(env) : env \in {e \in Environments : Preflight(e)}}
Contracts == [Names -> Record \cup {NoRecord}]
Arguments == {c.roles : c \in Configs}
               \cup [registry : Nonces, policy : {c.policy : c \in Configs}] \cup [gate : Nonces]
Creation == [name : Names, nonce : Nonces, args : Arguments, block : Int]
Stages == {"idle", "resolving", "waiting", "coding", "verifying", "persisting", "writing",
           "completing", "done", "failed"}
Run == [pc : Stages, at : Names, tx : Nat, block : Nat, config : Configs \cup {Absent},
        status : {"DEPLOYING", "COMPLETE"}, contracts : Contracts, since : Nat]
Journals == [config : Configs, status : {"DEPLOYING", "COMPLETE"}, contracts : Contracts]
Artifacts == [roles : {c.roles : c \in Configs}, policy : {c.policy : c \in Configs}, contracts : Contracts]

\* OneGraph, of a list of creations.
Graph(list, config, contracts) ==
    \A name \in Names : contracts[name] # NoRecord =>
        /\ \A earlier \in Before[name] : contracts[earlier] # NoRecord
        /\ contracts[name].tx \in DOMAIN list
        /\ list[contracts[name].tx].name = name
        /\ list[contracts[name].tx].nonce = contracts[name].address
        /\ list[contracts[name].tx].args = Args(name, config, contracts)

Active(run) == run.pc \notin {"idle", "done", "failed"}
Creating(run) == run.pc \in {"resolving", "waiting", "coding"}
Sent(run) == run.pc \in {"waiting", "coding"}

GraphOf(list, run) ==
    /\ run.config \in Configs
    /\ Graph(list, run.config, run.contracts)
    /\ run.status = "COMPLETE" => Whole(run.contracts)
    /\ IF Creating(run) THEN \A name \in Before[run.at] : run.contracts[name] # NoRecord
       ELSE Whole(run.contracts)
    /\ Sent(run) => /\ run.contracts[run.at] = NoRecord
                    /\ run.tx \in DOMAIN list
                    /\ list[run.tx].name = run.at
                    /\ list[run.tx].args = Args(run.at, run.config, run.contracts)
    /\ run.pc = "coding" => run.block # 0

Placed(list, top, config, tx, block) ==
    list[tx].block = block /\ top - block + 1 >= config.confirmations

Passed(run) == IF Creating(run) THEN Before[run.at] ELSE Names

PlacesOf(list, top, run) ==
    /\ \A name \in Passed(run) :
         Placed(list, top, run.config, run.contracts[name].tx, run.contracts[name].block)
    /\ run.pc = "coding" => Placed(list, top, run.config, run.tx, run.block)

OnChain(list, top, count, run) ==
    /\ run.since <= count
    /\ Active(run) => GraphOf(list, run)
    /\ Active(run) /\ run.since = count => PlacesOf(list, top, run)

Registry(contracts) == contracts["registry"].address

OnDisk(files, run) ==
    /\ run.pc = "writing" => files[Registry(run.contracts)] = Torn
    /\ run.pc = "completing" => files[Registry(run.contracts)] = Artifact(run)

JournalOf(list, files, file) ==
    /\ file \in Journals
    /\ Graph(list, file.config, file.contracts)
    /\ file.status = "COMPLETE" =>
         /\ Whole(file.contracts)
         /\ files[Registry(file.contracts)] =
              [roles |-> file.config.roles, policy |-> file.config.policy, contracts |-> file.contracts]

ArtifactOf(list, a, file) ==
    /\ file \in Artifacts
    /\ Whole(file.contracts) /\ Registry(file.contracts) = a
    /\ Graph(list, file, file.contracts)

DeployTyped ==
    /\ txs \in Seq(Creation) /\ height \in Nat /\ reorgs \in Nat
    /\ runs \in [DeployRuns -> Run]
    /\ DOMAIN artifacts = Nonces

DeployInv ==
    /\ DeployTyped
    /\ \A r \in DeployRuns : OnChain(txs, height, reorgs, runs[r]) /\ OnDisk(artifacts, runs[r])
    /\ \A r, s \in DeployRuns : r # s /\ runs[r].pc = "writing" /\ runs[s].pc = "writing" =>
         Registry(runs[r].contracts) # Registry(runs[s].contracts)
    /\ journal # Absent => JournalOf(txs, artifacts, journal)
    /\ \A a \in Nonces : artifacts[a] \notin {Absent, Torn} => ArtifactOf(txs, a, artifacts[a])

-----------------------------------------------------------------------------
(* What the steps of the chain and of other runs leave as it was.           *)

\* A creation keeps its name, its nonce and its arguments.
Extends(old, new) ==
    \A t \in DOMAIN old : /\ t \in DOMAIN new
                          /\ new[t].name = old[t].name
                          /\ new[t].nonce = old[t].nonce
                          /\ new[t].args = old[t].args

LEMMA GraphStays ==
    ASSUME NEW old, NEW new, NEW config, NEW contracts, Extends(old, new), Graph(old, config, contracts)
    PROVE  Graph(new, config, contracts)
  BY DEF Extends, Graph

\* Unless blocks are replaced, a creation that is mined stays where it is.
LEMMA OnChainStays ==
    ASSUME NEW old, NEW new, NEW top \in Nat, NEW higher \in Nat, NEW count \in Nat, NEW later \in Nat,
           NEW run \in Run, OnChain(old, top, count, run),
           Extends(old, new), top <= higher,
           \/ count < later
           \/ count = later /\ \A t \in DOMAIN old : old[t].block # 0 => new[t].block = old[t].block
    PROVE  OnChain(new, higher, later, run)
<1>1. run.since <= later
  BY DEF OnChain, Run
<1>2. ASSUME Active(run) PROVE GraphOf(new, run)
  <2>1. GraphOf(old, run)
    BY <1>2 DEF OnChain
  <2>2. Graph(new, run.config, run.contracts)
    BY <2>1, GraphStays DEF GraphOf
  <2>. QED
    BY <2>1, <2>2 DEF GraphOf, Extends
<1>3. ASSUME Active(run), run.since = later PROVE PlacesOf(new, higher, run)
  <2>1. count = later /\ \A t \in DOMAIN old : old[t].block # 0 => new[t].block = old[t].block
    BY <1>3 DEF OnChain, Run
  <2>2. GraphOf(old, run) /\ PlacesOf(old, top, run)
    BY <1>3, <2>1 DEF OnChain
  <2>3. run.config.confirmations \in Int
    BY <2>2 DEF GraphOf, Configs, ReadDeploymentConfig, Preflight
  <2>4. ASSUME NEW name \in Passed(run)
        PROVE  Placed(new, higher, run.config, run.contracts[name].tx, run.contracts[name].block)
    <3>1. name \in Names /\ run.contracts[name] # NoRecord
      BY <2>2, <2>4 DEF Passed, GraphOf, Whole, Before, Names, Run
    <3>2. run.contracts[name] \in Record
      BY <3>1 DEF Run, Contracts
    <3>3. run.contracts[name].tx \in DOMAIN old
      BY <2>2, <3>1 DEF GraphOf, Graph
    <3>4. Placed(old, top, run.config, run.contracts[name].tx, run.contracts[name].block)
      BY <2>2, <2>4 DEF PlacesOf
    <3>. QED
      BY <2>1, <2>3, <3>2, <3>3, <3>4 DEF Placed, Record
  <2>5. ASSUME run.pc = "coding" PROVE Placed(new, higher, run.config, run.tx, run.block)
    <3>1. run.tx \in DOMAIN old /\ run.block # 0 /\ run.block \in Nat
      BY <2>2, <2>5 DEF GraphOf, Sent, Run
    <3>2. Placed(old, top, run.config, run.tx, run.block)
      BY <2>2, <2>5 DEF PlacesOf
    <3>. QED
      BY <2>1, <2>3, <3>1, <3>2 DEF Placed
  <2>. QED
    BY <2>4, <2>5 DEF PlacesOf
<1>. QED
  BY <1>1, <1>2, <1>3 DEF OnChain

\* The chain moves and the runs wait.
LEMMA ChainMoves ==
    ASSUME DeployInv, UNCHANGED <<journal, artifacts, runs>>,
           txs' \in Seq(Creation), height' \in Nat, reorgs' \in Nat,
           Extends(txs, txs'), height <= height',
           \/ reorgs < reorgs'
           \/ reorgs' = reorgs /\ \A t \in DOMAIN txs : txs[t].block # 0 => txs'[t].block = txs[t].block
    PROVE  DeployInv'
<1>1. DeployTyped'
  BY DEF DeployInv, DeployTyped
<1>2. ASSUME NEW r \in DeployRuns
      PROVE  OnChain(txs', height', reorgs', runs[r]) /\ OnDisk(artifacts, runs[r])
  <2>1. runs[r] \in Run /\ OnChain(txs, height, reorgs, runs[r])
    BY <1>2 DEF DeployInv, DeployTyped
  <2>2. height \in Nat /\ reorgs \in Nat
    BY DEF DeployInv, DeployTyped
  <2>3. OnChain(txs', height', reorgs', runs[r])
    BY <2>1, <2>2, OnChainStays
  <2>. QED
    BY <2>3 DEF DeployInv
<1>3. journal # Absent => JournalOf(txs', artifacts, journal)
  BY GraphStays DEF DeployInv, JournalOf
<1>4. \A a \in Nonces : artifacts[a] \notin {Absent, Torn} => ArtifactOf(txs', a, artifacts[a])
  BY GraphStays DEF DeployInv, ArtifactOf
<1>. QED
  BY <1>1, <1>2, <1>3, <1>4 DEF DeployInv

\* One run steps and touches nothing but itself.
LEMMA RunAlone ==
    ASSUME DeployInv, NEW r \in DeployRuns, NEW run \in Run, runs' = [runs EXCEPT ![r] = run],
           UNCHANGED <<txs, height, reorgs, journal, artifacts>>, run.pc # "writing",
           OnChain(txs, height, reorgs, run), OnDisk(artifacts, run)
    PROVE  DeployInv'
<1>1. \A s \in DeployRuns : runs'[s] = IF s = r THEN run ELSE runs[s]
  BY DEF DeployInv, DeployTyped
<1>2. DeployTyped'
  BY DEF DeployInv, DeployTyped
<1>3. \A s \in DeployRuns : OnChain(txs', height', reorgs', runs'[s]) /\ OnDisk(artifacts', runs'[s])
  BY <1>1 DEF DeployInv
<1>4. \A s, u \in DeployRuns : s # u /\ runs'[s].pc = "writing" /\ runs'[u].pc = "writing" =>
         Registry(runs'[s].contracts) # Registry(runs'[u].contracts)
  BY <1>1 DEF DeployInv
<1>5. /\ journal' # Absent => JournalOf(txs', artifacts', journal')
      /\ \A a \in Nonces : artifacts'[a] \notin {Absent, Torn} => ArtifactOf(txs', a, artifacts'[a])
  BY DEF DeployInv
<1>. QED
  BY <1>2, <1>3, <1>4, <1>5 DEF DeployInv

-----------------------------------------------------------------------------
(* The steps of a run.                                                      *)

LEMMA EndedIsSound ==
    ASSUME NEW how \in {"idle", "failed", "done"}, NEW list, NEW top, NEW count \in Nat, NEW files
    PROVE  /\ Ended(how) \in Run /\ Ended(how).pc = how
           /\ OnChain(list, top, count, Ended(how)) /\ OnDisk(files, Ended(how))
<1>1. NoContracts \in Contracts
  BY DEF NoContracts, Contracts
<1>2. Ended(how) \in Run
  BY <1>1 DEF Ended, Idle, Run, Stages, Names
<1>. QED
  BY <1>2 DEF Ended, Idle, OnChain, OnDisk, Active

\* A run that has its contract goes on to the next, or to what it verifies.
LEMMA ResolvedIsSound ==
    ASSUME NEW run \in Run, NEW list, NEW top, NEW count \in Nat, Creating(run),
           run.config \in Configs, Graph(list, run.config, run.contracts),
           run.status = "COMPLETE" => Whole(run.contracts),
           run.contracts[run.at] # NoRecord, run.since <= count,
           run.since = count =>
             \A name \in Before[run.at] \cup {run.at} :
               Placed(list, top, run.config, run.contracts[name].tx, run.contracts[name].block),
           NEW next, next = Resolved(run)
    PROVE  /\ next \in Run /\ next.pc \in {"resolving", "verifying"}
           /\ OnChain(list, top, count, next)
<1>1. /\ next \in Run /\ next.config = run.config /\ next.contracts = run.contracts
      /\ next.status = run.status /\ next.since = run.since
      /\ IF run.at = "consumer" THEN next.pc = "verifying" ELSE next.pc = "resolving" /\ next.at = Following(run.at)
  BY DEF Resolved, Following, Run, Stages, Names
<1>2. run.at \in Names /\ \A name \in Before[run.at] \cup {run.at} : run.contracts[name] # NoRecord
  BY DEF Graph, Run
<1>3. /\ Before["registry"] = {} /\ Before["gate"] = {"registry"} /\ Before["consumer"] = {"registry", "gate"}
  BY DEF Before, Names
<1>4. /\ Passed(next) = Before[run.at] \cup {run.at}
      /\ Creating(next) <=> run.at # "consumer"
      /\ next.pc \in {"resolving", "verifying"}
  BY <1>1, <1>2, <1>3 DEF Passed, Creating, Following, Names
<1>5. GraphOf(list, next)
  <2>1. IF Creating(next) THEN \A name \in Before[next.at] : next.contracts[name] # NoRecord ELSE Whole(next.contracts)
    BY <1>1, <1>2, <1>3, <1>4 DEF Whole, Names, Following
  <2>. QED
    BY <1>1, <1>4, <2>1 DEF GraphOf, Sent
<1>6. next.since = count => PlacesOf(list, top, next)
  BY <1>1, <1>4 DEF PlacesOf
<1>. QED
  BY <1>1, <1>4, <1>5, <1>6 DEF OnChain

\* What the invariant says of a run that is at work.
LEMMA AtWork ==
    ASSUME DeployInv, NEW r \in DeployRuns, NEW run, run = runs[r], run.pc \notin {"idle", "done", "failed"}
    PROVE  /\ run \in Run /\ run.at \in Names /\ run.since <= reorgs /\ run.since \in Nat /\ reorgs \in Nat
           /\ height \in Nat
           /\ GraphOf(txs, run) /\ run.config \in Configs
           /\ run.since = reorgs => PlacesOf(txs, height, run)
           /\ OnDisk(artifacts, run)
  BY DEF DeployInv, DeployTyped, OnChain, Active, GraphOf, Run

LEMMA RunFailsKeeps ==
    ASSUME DeployInv, NEW r \in DeployRuns, runs' = [runs EXCEPT ![r] = Ended("failed")],
           UNCHANGED <<txs, height, reorgs, journal, artifacts>>
    PROVE  DeployInv'
<1>1. PICK run : run = Ended("failed")
  OBVIOUS
<1>2. reorgs \in Nat
  BY DEF DeployInv, DeployTyped
<1>3. run \in Run /\ run.pc = "failed" /\ OnChain(txs, height, reorgs, run) /\ OnDisk(artifacts, run)
  BY <1>1, <1>2, EndedIsSound
<1>. QED
  BY <1>1, <1>3, RunAlone

LEMMA RecoverKeeps ==
    ASSUME DeployInv, NEW r \in DeployRuns, Recover(r)
    PROVE  DeployInv'
<1>1. PICK run : run = runs[r]
  OBVIOUS
<1>2. PICK record : record = run.contracts[run.at]
  OBVIOUS
<1>3. /\ run.pc = "resolving" /\ record # NoRecord /\ UNCHANGED <<txs, height, reorgs, journal, artifacts>>
      /\ runs' = [runs EXCEPT ![r] = IF RecoveredRecordValid(r, record) THEN Resolved(run) ELSE Ended("failed")]
  BY <1>1, <1>2 DEF Recover, Chain, Disk
<1>4. CASE ~RecoveredRecordValid(r, record)
  BY <1>3, <1>4, RunFailsKeeps
<1>5. CASE RecoveredRecordValid(r, record)
  <2>1. PICK next : next = Resolved(run)
    OBVIOUS
  <2>2. Placed(txs, height, run.config, record.tx, record.block)
    BY <1>1, <1>5 DEF RecoveredRecordValid, Placed
  <2>3. /\ run \in Run /\ Creating(run) /\ run.since <= reorgs /\ reorgs \in Nat
        /\ GraphOf(txs, run) /\ (run.since = reorgs => PlacesOf(txs, height, run))
    BY <1>1, <1>3, AtWork DEF Creating
  <2>4. run.since = reorgs => \A name \in Before[run.at] \cup {run.at} :
               Placed(txs, height, run.config, run.contracts[name].tx, run.contracts[name].block)
    BY <1>2, <2>2, <2>3 DEF PlacesOf, Passed
  <2>5. next \in Run /\ next.pc \in {"resolving", "verifying"} /\ OnChain(txs, height, reorgs, next)
    BY <1>2, <1>3, <2>1, <2>3, <2>4, ResolvedIsSound DEF GraphOf
  <2>6. runs' = [runs EXCEPT ![r] = next]
    BY <1>3, <1>5, <2>1
  <2>7. OnDisk(artifacts, next) /\ next.pc # "writing"
    BY <2>5 DEF OnDisk
  <2>. QED
    BY <1>3, <2>5, <2>6, <2>7, RunAlone
<1>. QED
  BY <1>4, <1>5

LEMMA WaitKeeps ==
    ASSUME DeployInv, NEW r \in DeployRuns, WaitForReceipt(r)
    PROVE  DeployInv'
<1>1. PICK run : run = runs[r]
  OBVIOUS
<1>2. PICK block : block = txs[run.tx].block
  OBVIOUS
<1>3. PICK next : next = [run EXCEPT !.pc = "coding", !.block = block]
  OBVIOUS
<1>4. /\ run.pc = "waiting" /\ block > 0 /\ height - block + 1 >= run.config.confirmations
      /\ runs' = [runs EXCEPT ![r].pc = "coding", ![r].block = block]
      /\ UNCHANGED <<txs, height, reorgs, journal, artifacts>>
  BY <1>1, <1>2 DEF WaitForReceipt, Chain, Disk
<1>5. /\ run \in Run /\ run.since <= reorgs
      /\ GraphOf(txs, run) /\ (run.since = reorgs => PlacesOf(txs, height, run))
  BY <1>1, <1>4, AtWork
<1>6. block \in Nat /\ block # 0
  <2>1. run.tx \in DOMAIN txs /\ txs \in Seq(Creation)
    BY <1>4, <1>5 DEF GraphOf, Sent, DeployInv, DeployTyped
  <2>2. txs[run.tx] \in Creation
    BY <2>1
  <2>. QED
    BY <1>2, <1>4, <2>2 DEF Creation
<1>7. /\ next \in Run /\ next.pc = "coding" /\ next.block = block /\ next.at = run.at /\ next.tx = run.tx
      /\ next.config = run.config /\ next.contracts = run.contracts /\ next.since = run.since
      /\ next.status = run.status
  BY <1>3, <1>5, <1>6 DEF Run, Stages
<1>8. runs' = [runs EXCEPT ![r] = next]
  BY <1>1, <1>3, <1>4 DEF DeployInv, DeployTyped
<1>9. GraphOf(txs, next)
  BY <1>4, <1>5, <1>6, <1>7 DEF GraphOf, Creating, Sent
<1>10. next.since = reorgs => PlacesOf(txs, height, next)
  BY <1>2, <1>4, <1>5, <1>7 DEF PlacesOf, Passed, Creating, Placed
<1>11. OnChain(txs, height, reorgs, next) /\ OnDisk(artifacts, next) /\ next.pc # "writing"
  BY <1>5, <1>7, <1>9, <1>10 DEF OnChain, OnDisk
<1>. QED
  BY <1>4, <1>7, <1>8, <1>11, RunAlone

LEMMA VerifyKeeps ==
    ASSUME DeployInv, NEW r \in DeployRuns, VerifyDeployment(r)
    PROVE  DeployInv'
<1>1. PICK run : run = runs[r]
  OBVIOUS
<1>2. PICK next : next = IF run.at = "consumer" THEN [run EXCEPT !.pc = "persisting"]
                         ELSE [run EXCEPT !.at = Following(run.at)]
  OBVIOUS
<1>3. /\ run.pc = "verifying" /\ runs' = [runs EXCEPT ![r] = next]
      /\ UNCHANGED <<txs, height, reorgs, journal, artifacts>>
  BY <1>1, <1>2 DEF VerifyDeployment, Chain, Disk
<1>4. /\ run \in Run /\ run.since <= reorgs
      /\ GraphOf(txs, run) /\ (run.since = reorgs => PlacesOf(txs, height, run))
  BY <1>1, <1>3, AtWork
<1>5. /\ next \in Run /\ next.pc \in {"verifying", "persisting"}
      /\ next.config = run.config /\ next.contracts = run.contracts /\ next.since = run.since
      /\ next.status = run.status
  BY <1>2, <1>3, <1>4 DEF Run, Stages, Following, Names
<1>6. GraphOf(txs, next)
  BY <1>3, <1>4, <1>5 DEF GraphOf, Creating, Sent
<1>7. next.since = reorgs => PlacesOf(txs, height, next)
  BY <1>3, <1>4, <1>5 DEF PlacesOf, Passed, Creating
<1>8. OnChain(txs, height, reorgs, next) /\ OnDisk(artifacts, next) /\ next.pc # "writing"
  BY <1>4, <1>5, <1>6, <1>7 DEF OnChain, OnDisk
<1>. QED
  BY <1>3, <1>5, <1>8, RunAlone

\* A run sends a creation: the others find it behind what was sent before.
LEMMA CreateKeeps ==
    ASSUME DeployInv, NEW r \in DeployRuns, Create(r)
    PROVE  DeployInv'
<1>1. PICK run : run = runs[r]
  OBVIOUS
<1>2. PICK n \in Nonces :
        txs' = Append(txs, [name |-> run.at, nonce |-> n,
                            args |-> Args(run.at, run.config, run.contracts), block |-> 0])
  BY <1>1 DEF Create
<1>3. PICK t : t = Len(txs) + 1
  OBVIOUS
<1>4. PICK next : next = [run EXCEPT !.pc = "waiting", !.tx = t]
  OBVIOUS
<1>5. /\ run.pc = "resolving" /\ run.contracts[run.at] = NoRecord
      /\ runs' = [runs EXCEPT ![r].pc = "waiting", ![r].tx = t]
      /\ UNCHANGED <<height, reorgs, journal, artifacts>>
  BY <1>1, <1>3 DEF Create, Disk
<1>6. /\ run \in Run /\ run.at \in Names /\ run.since <= reorgs /\ reorgs \in Nat /\ height \in Nat
      /\ run.config \in Configs
      /\ GraphOf(txs, run) /\ (run.since = reorgs => PlacesOf(txs, height, run))
  BY <1>1, <1>5, AtWork
<1>7. PICK args : args = Args(run.at, run.config, run.contracts)
  OBVIOUS
<1>8. args \in Arguments
  <2>1. \A name \in Before[run.at] : run.contracts[name] \in Record
    BY <1>5, <1>6 DEF GraphOf, Creating, Run, Contracts, Before, Names
  <2>2. CASE run.at = "registry"
    BY <1>6, <1>7, <2>2 DEF Args, Arguments
  <2>3. CASE run.at = "gate"
    <3>1. run.contracts["registry"].address \in Nonces
      BY <2>1, <2>3 DEF Before, Names, Record
    <3>2. args = [registry |-> run.contracts["registry"].address, policy |-> run.config.policy]
      BY <1>7, <2>3 DEF Args
    <3>. QED
      BY <1>6, <3>1, <3>2 DEF Arguments
  <2>4. CASE run.at = "consumer"
    <3>1. run.contracts["gate"].address \in Nonces
      BY <2>1, <2>4 DEF Before, Names, Record
    <3>2. args = [gate |-> run.contracts["gate"].address]
      BY <1>7, <2>4 DEF Args
    <3>. QED
      BY <3>1, <3>2 DEF Arguments
  <2>. QED
    BY <1>6, <2>2, <2>3, <2>4 DEF Names
<1>9. PICK creation : creation = [name |-> run.at, nonce |-> n, args |-> args, block |-> 0]
  OBVIOUS
<1>10. creation \in Creation
  BY <1>2, <1>6, <1>8, <1>9 DEF Creation
<1>11. txs \in Seq(Creation) /\ txs' = Append(txs, creation)
  BY <1>2, <1>7, <1>9 DEF DeployInv, DeployTyped
<1>12. /\ txs' \in Seq(Creation) /\ t \in DOMAIN txs' /\ txs'[t] = creation /\ t \in Nat
       /\ \A u \in DOMAIN txs : u \in DOMAIN txs' /\ txs'[u] = txs[u]
  BY <1>3, <1>10, <1>11
<1>13. Extends(txs, txs')
  BY <1>12 DEF Extends
<1>14. /\ next \in Run /\ next.pc = "waiting" /\ next.at = run.at /\ next.tx = t
       /\ next.config = run.config /\ next.contracts = run.contracts /\ next.since = run.since
       /\ next.status = run.status
  BY <1>4, <1>6, <1>12 DEF Run, Stages
<1>15. runs' = [runs EXCEPT ![r] = next]
  BY <1>1, <1>4, <1>5 DEF DeployInv, DeployTyped
<1>16. OnChain(txs', height, reorgs, run)
  <2>1. OnChain(txs, height, reorgs, run)
    BY <1>1 DEF DeployInv
  <2>. QED
    BY <1>6, <1>12, <1>13, <2>1, OnChainStays
<1>17. GraphOf(txs', next)
  <2>1. GraphOf(txs', run)
    BY <1>5, <1>16 DEF OnChain, Active
  <2>2. txs'[t].name = run.at /\ txs'[t].args = Args(run.at, run.config, run.contracts)
    BY <1>7, <1>9, <1>12
  <2>. QED
    BY <1>5, <1>12, <1>14, <2>1, <2>2 DEF GraphOf, Creating, Sent
<1>18. next.since = reorgs => PlacesOf(txs', height, next)
  BY <1>5, <1>14, <1>16 DEF OnChain, Active, PlacesOf, Passed, Creating
<1>19. OnChain(txs', height, reorgs, next) /\ OnDisk(artifacts, next)
  BY <1>6, <1>14, <1>17, <1>18 DEF OnChain, OnDisk
<1>20. \A s \in DeployRuns : runs'[s] = IF s = r THEN next ELSE runs[s]
  BY <1>15 DEF DeployInv, DeployTyped
<1>21. DeployTyped'
  <2>1. runs' \in [DeployRuns -> Run]
    BY <1>14, <1>15 DEF DeployInv, DeployTyped
  <2>2. txs' \in Seq(Creation) /\ height' \in Nat /\ reorgs' \in Nat /\ DOMAIN artifacts' = Nonces
    BY <1>5, <1>12 DEF DeployInv, DeployTyped
  <2>. QED
    BY <2>1, <2>2 DEF DeployTyped
<1>22. \A s \in DeployRuns : OnChain(txs', height', reorgs', runs'[s]) /\ OnDisk(artifacts', runs'[s])
  <2>1. ASSUME NEW s \in DeployRuns, s # r PROVE OnChain(txs', height, reorgs, runs[s])
    <3>1. runs[s] \in Run /\ OnChain(txs, height, reorgs, runs[s])
      BY DEF DeployInv, DeployTyped
    <3>. QED
      BY <1>6, <1>12, <1>13, <3>1, OnChainStays
  <2>. QED
    BY <1>5, <1>19, <1>20, <2>1 DEF DeployInv
<1>23. \A s, u \in DeployRuns : s # u /\ runs'[s].pc = "writing" /\ runs'[u].pc = "writing" =>
         Registry(runs'[s].contracts) # Registry(runs'[u].contracts)
  BY <1>14, <1>20 DEF DeployInv
<1>24. journal' # Absent => JournalOf(txs', artifacts', journal')
  BY <1>5, <1>13, GraphStays DEF DeployInv, JournalOf
<1>25. \A a \in Nonces : artifacts'[a] \notin {Absent, Torn} => ArtifactOf(txs', a, artifacts'[a])
  BY <1>5, <1>13, GraphStays DEF DeployInv, ArtifactOf
<1>. QED
  BY <1>21, <1>22, <1>23, <1>24, <1>25 DEF DeployInv

\* One run steps and saves the journal.
LEMMA RunSaves ==
    ASSUME DeployInv, NEW r \in DeployRuns, NEW run \in Run, runs' = [runs EXCEPT ![r] = run],
           UNCHANGED <<txs, height, reorgs, artifacts>>, run.pc # "writing",
           OnChain(txs, height, reorgs, run), OnDisk(artifacts, run),
           journal' # Absent => JournalOf(txs, artifacts, journal')
    PROVE  DeployInv'
<1>1. \A s \in DeployRuns : runs'[s] = IF s = r THEN run ELSE runs[s]
  BY DEF DeployInv, DeployTyped
<1>2. DeployTyped'
  BY DEF DeployInv, DeployTyped
<1>3. \A s \in DeployRuns : OnChain(txs', height', reorgs', runs'[s]) /\ OnDisk(artifacts', runs'[s])
  BY <1>1 DEF DeployInv
<1>4. \A s, u \in DeployRuns : s # u /\ runs'[s].pc = "writing" /\ runs'[u].pc = "writing" =>
         Registry(runs'[s].contracts) # Registry(runs'[u].contracts)
  BY <1>1 DEF DeployInv
<1>5. \A a \in Nonces : artifacts'[a] \notin {Absent, Torn} => ArtifactOf(txs', a, artifacts'[a])
  BY DEF DeployInv
<1>6. journal' # Absent => JournalOf(txs', artifacts', journal')
  OBVIOUS
<1>. QED
  BY <1>2, <1>3, <1>4, <1>5, <1>6 DEF DeployInv

LEMMA StartKeeps ==
    ASSUME DeployInv, NEW r \in DeployRuns, NEW env \in Environments, StartRun(r, env)
    PROVE  DeployInv'
<1>1. PICK config : config = ReadDeploymentConfig(env)
  OBVIOUS
<1>2. PICK file : file = Opened(config)
  OBVIOUS
<1>3. UNCHANGED <<txs, height, reorgs, artifacts>>
  BY DEF StartRun, Chain
<1>4. CASE ~Preflight(env) \/ file.config # config
  BY <1>1, <1>2, <1>3, <1>4, RunFailsKeeps DEF StartRun
<1>5. CASE Preflight(env) /\ file.config = config
  <2>1. PICK run : run = [Idle EXCEPT !.pc = "resolving", !.config = config,
                            !.status = file.status, !.contracts = file.contracts, !.since = reorgs]
    OBVIOUS
  <2>2. journal' = file /\ runs' = [runs EXCEPT ![r] = run]
    BY <1>1, <1>2, <1>5, <2>1 DEF StartRun
  <2>3. config \in Configs /\ reorgs \in Nat
    BY <1>1, <1>5 DEF Configs, DeployInv, DeployTyped
  <2>4. JournalOf(txs, artifacts, file)
    <3>1. CASE journal = Absent
      <4>1. file = [config |-> config, status |-> "DEPLOYING", contracts |-> NoContracts]
        BY <1>2, <3>1 DEF Opened
      <4>2. NoContracts \in Contracts /\ \A name \in Names : NoContracts[name] = NoRecord
        BY DEF NoContracts, Contracts
      <4>3. Graph(txs, config, NoContracts)
        BY <4>2 DEF Graph
      <4>. QED
        BY <2>3, <4>1, <4>2, <4>3 DEF JournalOf, Journals
    <3>2. CASE journal # Absent
      BY <1>2, <3>2 DEF Opened, DeployInv
    <3>. QED
      BY <3>1, <3>2
  <2>5. file \in Journals /\ file.config = config
    BY <1>5, <2>4 DEF JournalOf
  <2>6. /\ run \in Run /\ run.pc = "resolving" /\ run.at = "registry" /\ run.config = config
        /\ run.status = file.status /\ run.contracts = file.contracts /\ run.since = reorgs
    BY <2>1, <2>3, <2>5 DEF Idle, Run, Stages, Journals, Names
  <2>7. Before["registry"] = {}
    BY DEF Before, Names
  <2>8. GraphOf(txs, run) /\ PlacesOf(txs, height, run)
    BY <2>3, <2>4, <2>5, <2>6, <2>7 DEF JournalOf, GraphOf, PlacesOf, Passed, Creating, Sent
  <2>9. OnChain(txs, height, reorgs, run) /\ OnDisk(artifacts, run) /\ run.pc # "writing"
    BY <2>3, <2>6, <2>8 DEF OnChain, OnDisk
  <2>. QED
    BY <1>3, <2>2, <2>4, <2>6, <2>9, RunSaves
<1>. QED
  BY <1>4, <1>5

\* A new record stands behind those it was made with.
IsNext(list, config, old, at, record) ==
    /\ old \in Contracts /\ at \in Names /\ record \in Record /\ record # NoRecord
    /\ Graph(list, config, old) /\ old[at] = NoRecord
    /\ \A name \in Before[at] : old[name] # NoRecord
    /\ record.tx \in DOMAIN list /\ list[record.tx].name = at
    /\ list[record.tx].nonce = record.address /\ list[record.tx].args = Args(at, config, old)

With(old, at, record) == [old EXCEPT ![at] = record]

LEMMA GraphGrows ==
    ASSUME NEW list, NEW config, NEW old, NEW at, NEW record, IsNext(list, config, old, at, record),
           NEW contracts, contracts = With(old, at, record)
    PROVE  /\ contracts \in Contracts /\ contracts[at] = record
           /\ \A name \in Names \ {at} : contracts[name] = old[name]
           /\ Graph(list, config, contracts)
<1>0. /\ old \in Contracts /\ at \in Names /\ record \in Record /\ record # NoRecord
      /\ Graph(list, config, old) /\ old[at] = NoRecord
      /\ \A name \in Before[at] : old[name] # NoRecord
      /\ record.tx \in DOMAIN list /\ list[record.tx].name = at
      /\ list[record.tx].nonce = record.address /\ list[record.tx].args = Args(at, config, old)
  BY DEF IsNext
<1>1. /\ contracts \in Contracts /\ contracts[at] = record
      /\ \A name \in Names \ {at} : contracts[name] = old[name]
  BY <1>0 DEF Contracts, With
<1>2. \A name \in Names : Before[name] \subseteq Names /\ name \notin Before[name]
  BY DEF Before, Names
<1>3. ASSUME NEW name \in Names, \A earlier \in Before[name] : contracts[earlier] = old[earlier]
      PROVE  Args(name, config, contracts) = Args(name, config, old)
  BY <1>3 DEF Args, Before, Names
<1>4. ASSUME NEW name \in Names, contracts[name] # NoRecord
      PROVE  /\ \A earlier \in Before[name] : contracts[earlier] # NoRecord
             /\ contracts[name].tx \in DOMAIN list
             /\ list[contracts[name].tx].name = name
             /\ list[contracts[name].tx].nonce = contracts[name].address
             /\ list[contracts[name].tx].args = Args(name, config, contracts)
  <2>1. CASE name = at
    <3>1. \A earlier \in Before[at] : contracts[earlier] = old[earlier]
      BY <1>0, <1>1, <1>2
    <3>. QED
      BY <1>0, <1>1, <1>3, <2>1, <3>1
  <2>2. CASE name # at
    <3>1. old[name] # NoRecord /\ contracts[name] = old[name]
      BY <1>1, <1>4, <2>2
    <3>2. \A earlier \in Before[name] : old[earlier] # NoRecord
      BY <1>0, <3>1 DEF Graph
    <3>3. \A earlier \in Before[name] : earlier # at /\ contracts[earlier] = old[earlier]
      BY <1>0, <1>1, <1>2, <3>2
    <3>4. Args(name, config, contracts) = Args(name, config, old)
      BY <1>3, <3>3
    <3>. QED
      BY <1>0, <3>1, <3>2, <3>3, <3>4 DEF Graph
  <2>. QED
    BY <2>1, <2>2
<1>. QED
  BY <1>1, <1>4 DEF Graph

LEMMA RecordKeeps ==
    ASSUME DeployInv, NEW r \in DeployRuns, RecordDeployment(r)
    PROVE  DeployInv'
<1>1. PICK run : run = runs[r]
  OBVIOUS
<1>2. PICK record : record = [address |-> txs[run.tx].nonce, tx |-> run.tx, block |-> run.block]
  OBVIOUS
<1>3. PICK contracts : contracts = [run.contracts EXCEPT ![run.at] = record]
  OBVIOUS
<1>4. PICK kept : kept = [run EXCEPT !.contracts = contracts, !.tx = 0, !.block = 0]
  OBVIOUS
<1>5. PICK next : next = Resolved(kept)
  OBVIOUS
<1>6. /\ run.pc = "coding" /\ UNCHANGED <<txs, height, reorgs, artifacts>>
      /\ journal' = [config |-> run.config, status |-> run.status, contracts |-> contracts]
      /\ runs' = [runs EXCEPT ![r] = next]
  BY <1>1, <1>2, <1>3, <1>4, <1>5 DEF RecordDeployment, Saved, Chain
<1>7. /\ run \in Run /\ run.at \in Names /\ run.since <= reorgs /\ reorgs \in Nat /\ height \in Nat
      /\ run.config \in Configs
      /\ GraphOf(txs, run) /\ (run.since = reorgs => PlacesOf(txs, height, run))
  BY <1>1, <1>6, AtWork
<1>8. /\ Creating(run) /\ Sent(run) /\ run.block # 0
      /\ run.contracts[run.at] = NoRecord /\ run.tx \in DOMAIN txs
      /\ txs[run.tx].name = run.at /\ txs[run.tx].args = Args(run.at, run.config, run.contracts)
      /\ Graph(txs, run.config, run.contracts)
      /\ \A name \in Before[run.at] : run.contracts[name] # NoRecord
  BY <1>6, <1>7 DEF GraphOf, Creating, Sent
<1>9. record \in Record /\ record # NoRecord /\ record.tx = run.tx /\ record.block = run.block
      /\ record.address = txs[run.tx].nonce
  <2>1. txs[run.tx] \in Creation
    BY <1>8 DEF DeployInv, DeployTyped
  <2>2. run.tx \in Nat /\ run.block \in Nat \ {0} /\ txs[run.tx].nonce \in Nonces
    BY <1>7, <1>8, <2>1 DEF Run, Creation
  <2>. QED
    BY <1>2, <2>2, DeploymentAssumption DEF Record
<1>10. /\ contracts \in Contracts /\ contracts[run.at] = record
       /\ \A name \in Names \ {run.at} : contracts[name] = run.contracts[name]
       /\ Graph(txs, run.config, contracts)
  <2>1. PICK old : old = run.contracts
    OBVIOUS
  <2>2. PICK at : at = run.at
    OBVIOUS
  <2>3. /\ old \in Contracts /\ Graph(txs, run.config, old) /\ at \in Names /\ old[at] = NoRecord
        /\ \A name \in Before[at] : old[name] # NoRecord
        /\ record \in Record /\ record # NoRecord
    BY <1>7, <1>8, <1>9, <2>1, <2>2 DEF Run
  <2>4. /\ record.tx \in DOMAIN txs /\ txs[record.tx].name = at
        /\ txs[record.tx].nonce = record.address /\ txs[record.tx].args = Args(at, run.config, old)
    BY <1>8, <1>9, <2>1, <2>2
  <2>5. contracts = With(old, at, record)
    BY <1>3, <2>1, <2>2 DEF With
  <2>6. IsNext(txs, run.config, old, at, record)
    BY <2>3, <2>4 DEF IsNext
  <2>7. /\ contracts \in Contracts /\ contracts[at] = record
        /\ \A name \in Names \ {at} : contracts[name] = old[name]
        /\ Graph(txs, run.config, contracts)
    BY <2>5, <2>6, GraphGrows
  <2>. QED
    BY <2>1, <2>2, <2>7
<1>11. run.status = "DEPLOYING"
  BY <1>7, <1>8 DEF GraphOf, Whole, Run
<1>12. /\ kept \in Run /\ Creating(kept) /\ kept.at = run.at /\ kept.config = run.config
       /\ kept.contracts = contracts /\ kept.since = run.since /\ kept.status = "DEPLOYING"
  BY <1>4, <1>6, <1>7, <1>10, <1>11 DEF Run, Creating
<1>13. kept.since = reorgs => \A name \in Before[kept.at] \cup {kept.at} :
          Placed(txs, height, kept.config, kept.contracts[name].tx, kept.contracts[name].block)
  <2>1. Before[run.at] \subseteq Names /\ run.at \notin Before[run.at]
    BY <1>7 DEF Before, Names
  <2>. QED
    BY <1>6, <1>7, <1>8, <1>9, <1>10, <1>12, <2>1 DEF PlacesOf, Passed
<1>14. next \in Run /\ next.pc \in {"resolving", "verifying"} /\ OnChain(txs, height, reorgs, next)
  BY <1>5, <1>7, <1>9, <1>10, <1>12, <1>13, ResolvedIsSound
<1>15. OnDisk(artifacts, next) /\ next.pc # "writing"
  BY <1>14 DEF OnDisk
<1>16. JournalOf(txs, artifacts, journal')
  BY <1>6, <1>7, <1>10, <1>11 DEF JournalOf, Journals
<1>. QED
  BY <1>6, <1>14, <1>15, <1>16, RunSaves

\* What a run writes is none of the markers.
LEMMA ArtifactOfRun ==
    ASSUME NEW run \in Run, run.config \in Configs, NEW list, Graph(list, run.config, run.contracts),
           Whole(run.contracts), NEW file, file = Artifact(run)
    PROVE  /\ file \in Artifacts /\ file # Absent /\ file # Torn
           /\ file.contracts = run.contracts
           /\ ArtifactOf(list, Registry(run.contracts), file)
<1>1. /\ file = [roles |-> run.config.roles, policy |-> run.config.policy, contracts |-> run.contracts]
      /\ run.contracts \in Contracts
  BY DEF Artifact, Run
<1>2. file \in Artifacts
  BY <1>1 DEF Artifacts
<1>3. PICK env \in Environments : run.config = ReadDeploymentConfig(env)
  BY DEF Configs
<1>4. run.config.roles = env.roles /\ run.config.policy = env.policy
  BY <1>3 DEF ReadDeploymentConfig
<1>5. file \in [roles : {e.roles : e \in Environments}, policy : {e.policy : e \in Environments},
                contracts : [Names -> Record \cup {NoRecord}]]
  BY <1>1, <1>4 DEF Contracts
<1>6. file # Absent /\ file # Torn
  BY <1>5, DeploymentAssumption
<1>7. file.roles = run.config.roles /\ file.policy = run.config.policy /\ file.contracts = run.contracts
  BY <1>1
<1>8. Graph(list, file, file.contracts)
  <2>1. PICK contracts : contracts = run.contracts
    OBVIOUS
  <2>2. \A name \in Names : Args(name, file, contracts) = Args(name, run.config, contracts)
    BY <1>7 DEF Args, Names
  <2>3. Graph(list, run.config, contracts)
    BY <2>1
  <2>4. Graph(list, file, contracts)
    BY <2>2, <2>3 DEF Graph
  <2>. QED
    BY <1>7, <2>1, <2>4
<1>. QED
  BY <1>2, <1>6, <1>7, <1>8 DEF ArtifactOf

\* A complete journal has its artifact.
LEMMA CompleteIsWritten ==
    ASSUME NEW list, NEW files, NEW file, JournalOf(list, files, file), file.status = "COMPLETE",
           NEW kept, kept = files[Registry(file.contracts)]
    PROVE  kept # Absent /\ kept # Torn /\ Registry(file.contracts) \in Nonces
<1>1. /\ file \in Journals /\ Whole(file.contracts)
      /\ kept = [roles |-> file.config.roles, policy |-> file.config.policy, contracts |-> file.contracts]
  BY DEF JournalOf
<1>2. PICK env \in Environments : file.config = ReadDeploymentConfig(env)
  BY <1>1 DEF Journals, Configs
<1>3. kept \in [roles : {e.roles : e \in Environments}, policy : {e.policy : e \in Environments},
                    contracts : [Names -> Record \cup {NoRecord}]]
  BY <1>1, <1>2 DEF Journals, Contracts, ReadDeploymentConfig
<1>4. file.contracts["registry"] \in Record
  BY <1>1 DEF Journals, Whole, Contracts, Names
<1>. QED
  BY <1>3, <1>4, DeploymentAssumption DEF Registry, Record

LEMMA PersistKeeps ==
    ASSUME DeployInv, NEW r \in DeployRuns, PersistArtifact(r)
    PROVE  DeployInv'
<1>1. PICK run : run = runs[r]
  OBVIOUS
<1>2. PICK address : address = Registry(run.contracts)
  OBVIOUS
<1>3. PICK existing : existing = artifacts[address]
  OBVIOUS
<1>4. run.pc = "persisting" /\ UNCHANGED <<txs, height, reorgs, journal>>
  BY <1>1 DEF PersistArtifact, Chain
<1>5. /\ run \in Run /\ run.since <= reorgs /\ reorgs \in Nat /\ run.config \in Configs
      /\ GraphOf(txs, run) /\ (run.since = reorgs => PlacesOf(txs, height, run))
  BY <1>1, <1>4, AtWork
<1>6. Whole(run.contracts) /\ Graph(txs, run.config, run.contracts)
  BY <1>4, <1>5 DEF GraphOf, Creating
<1>7. \A name \in Names : run.contracts[name] \in Record /\ run.contracts[name] # NoRecord
  BY <1>5, <1>6 DEF Whole, Run, Contracts
<1>8. address \in Nonces
  BY <1>2, <1>7 DEF Registry, Record, Names
\* The file is not there: it is created.
<1>9. CASE /\ existing = Absent
           /\ artifacts' = [artifacts EXCEPT ![address] = Torn]
           /\ Goes(r, "writing")
  <2>1. PICK next : next = [run EXCEPT !.pc = "writing"]
    OBVIOUS
  <2>2. /\ next \in Run /\ next.pc = "writing" /\ next.contracts = run.contracts
        /\ next.config = run.config /\ next.since = run.since /\ next.status = run.status
    BY <1>5, <2>1 DEF Run, Stages
  <2>3. \A s \in DeployRuns : runs'[s] = IF s = r THEN next ELSE runs[s]
    BY <1>1, <1>9, <2>1 DEF Goes, DeployInv, DeployTyped
  <2>4. \A a \in Nonces : artifacts'[a] = IF a = address THEN Torn ELSE artifacts[a]
    BY <1>8, <1>9 DEF DeployInv, DeployTyped
  <2>5. artifacts[address] # Torn /\ artifacts[address] = Absent
    BY <1>3, <1>9, DeploymentAssumption
  <2>6. DeployTyped'
    <3>1. runs' = [runs EXCEPT ![r] = next]
      BY <1>1, <1>9, <2>1 DEF Goes, DeployInv, DeployTyped
    <3>2. runs' \in [DeployRuns -> Run]
      BY <2>2, <3>1 DEF DeployInv, DeployTyped
    <3>3. DOMAIN artifacts' = Nonces
      BY <1>9 DEF DeployInv, DeployTyped
    <3>. QED
      BY <1>4, <3>2, <3>3 DEF DeployInv, DeployTyped
  <2>7. OnChain(txs, height, reorgs, next)
    <3>1. GraphOf(txs, next)
      BY <1>4, <1>5, <1>6, <2>2 DEF GraphOf, Creating, Sent
    <3>2. next.since = reorgs => PlacesOf(txs, height, next)
      BY <1>4, <1>5, <2>2 DEF PlacesOf, Passed, Creating
    <3>. QED
      BY <1>5, <2>2, <3>1, <3>2 DEF OnChain
  <2>8. OnDisk(artifacts', next)
    BY <1>2, <1>8, <2>2, <2>4 DEF OnDisk
  <2>9. ASSUME NEW s \in DeployRuns, s # r PROVE OnDisk(artifacts', runs[s])
    <3>1. OnDisk(artifacts, runs[s]) /\ runs[s] \in Run
      BY DEF DeployInv, DeployTyped
    <3>2. ASSUME runs[s].pc = "writing"
          PROVE  artifacts'[Registry(runs[s].contracts)] = Torn
      <4>1. GraphOf(txs, runs[s])
        BY <3>2 DEF DeployInv, OnChain, Active
      <4>2. runs[s].contracts["registry"] \in Record
        BY <3>1, <3>2, <4>1 DEF GraphOf, Creating, Whole, Run, Contracts, Names
      <4>3. Registry(runs[s].contracts) \in Nonces
        BY <4>2 DEF Registry, Record
      <4>. QED
        BY <2>4, <3>1, <3>2, <4>3 DEF OnDisk
    <3>3. ASSUME runs[s].pc = "completing"
          PROVE  artifacts'[Registry(runs[s].contracts)] = Artifact(runs[s])
      <4>1. GraphOf(txs, runs[s])
        BY <3>3 DEF DeployInv, OnChain, Active
      <4>2. runs[s].contracts["registry"] \in Record
        BY <3>1, <3>3, <4>1 DEF GraphOf, Creating, Whole, Run, Contracts, Names
      <4>3. Registry(runs[s].contracts) \in Nonces
        BY <4>2 DEF Registry, Record
      <4>4. PICK file : file = Artifact(runs[s])
        OBVIOUS
      <4>5. file # Absent
        BY <3>1, <3>3, <4>1, <4>4, ArtifactOfRun DEF GraphOf, Creating
      <4>6. artifacts[Registry(runs[s].contracts)] = file
        BY <3>1, <3>3, <4>4 DEF OnDisk
      <4>. QED
        BY <2>4, <2>5, <4>3, <4>4, <4>5, <4>6
    <3>. QED
      BY <3>2, <3>3 DEF OnDisk
  <2>10. \A s \in DeployRuns : OnChain(txs', height', reorgs', runs'[s]) /\ OnDisk(artifacts', runs'[s])
    BY <1>4, <2>3, <2>7, <2>8, <2>9 DEF DeployInv
  <2>11. \A s \in DeployRuns : s # r /\ runs[s].pc = "writing" => Registry(runs[s].contracts) # address
    BY <2>5 DEF DeployInv, OnDisk
  <2>12. \A s, u \in DeployRuns : s # u /\ runs'[s].pc = "writing" /\ runs'[u].pc = "writing" =>
           Registry(runs'[s].contracts) # Registry(runs'[u].contracts)
    BY <1>2, <2>2, <2>3, <2>11 DEF DeployInv
  <2>13. journal' # Absent => JournalOf(txs', artifacts', journal')
    <3>1. ASSUME journal # Absent, journal.status = "COMPLETE"
          PROVE  artifacts'[Registry(journal.contracts)] = artifacts[Registry(journal.contracts)]
      <4>1. JournalOf(txs, artifacts, journal)
        BY <3>1 DEF DeployInv
      <4>2. /\ artifacts[Registry(journal.contracts)] # Absent
            /\ Registry(journal.contracts) \in Nonces
        BY <3>1, <4>1, CompleteIsWritten
      <4>. QED
        BY <2>4, <2>5, <4>2
    <3>. QED
      BY <1>4, <3>1 DEF DeployInv, JournalOf
  <2>14. \A a \in Nonces : artifacts'[a] \notin {Absent, Torn} => ArtifactOf(txs', a, artifacts'[a])
    BY <1>4, <2>4 DEF DeployInv
  <2>. QED
    BY <2>6, <2>10, <2>12, <2>13, <2>14 DEF DeployInv
\* The file is there: it must agree.
<1>10. CASE UNCHANGED artifacts /\ runs' = [runs EXCEPT ![r] = Ended("failed")]
  BY <1>4, <1>10, RunFailsKeeps
<1>11. CASE /\ existing \notin {Absent, Torn} /\ UNCHANGED artifacts
            /\ existing.contracts = run.contracts /\ existing.roles = run.config.roles
            /\ runs' = [runs EXCEPT ![r] = [run EXCEPT !.pc = "completing"]]
  <2>1. PICK next : next = [run EXCEPT !.pc = "completing"]
    OBVIOUS
  <2>2. /\ next \in Run /\ next.pc = "completing" /\ next.contracts = run.contracts
        /\ next.config = run.config /\ next.since = run.since /\ next.status = run.status
    BY <1>5, <2>1 DEF Run, Stages
  <2>3. GraphOf(txs, next)
    BY <1>4, <1>5, <1>6, <2>2 DEF GraphOf, Creating, Sent
  <2>4. next.since = reorgs => PlacesOf(txs, height, next)
    BY <1>4, <1>5, <2>2 DEF PlacesOf, Passed, Creating
  <2>5. OnChain(txs, height, reorgs, next)
    BY <1>5, <2>2, <2>3, <2>4 DEF OnChain
  <2>6. ArtifactOf(txs, address, existing)
    BY <1>3, <1>8, <1>11 DEF DeployInv
  \* The gate of both is one creation, whose arguments hold the policy.
  <2>7. existing.policy = run.config.policy
    <3>1. PICK gate : gate = run.contracts["gate"]
      OBVIOUS
    <3>2. /\ txs[gate.tx].args = Args("gate", existing, run.contracts)
          /\ txs[gate.tx].args = Args("gate", run.config, run.contracts)
      BY <1>6, <1>7, <1>11, <2>6, <3>1 DEF ArtifactOf, Graph, Names
    <3>3. /\ txs[gate.tx].args.policy = existing.policy
          /\ txs[gate.tx].args.policy = run.config.policy
      BY <3>2 DEF Args
    <3>. QED
      BY <3>3
  <2>8. existing = Artifact(next)
    BY <1>11, <2>2, <2>6, <2>7 DEF Artifact, ArtifactOf, Artifacts
  <2>9. OnDisk(artifacts, next) /\ next.pc # "writing"
    BY <1>2, <1>3, <2>2, <2>8 DEF OnDisk
  <2>10. runs' = [runs EXCEPT ![r] = next]
    BY <1>11, <2>1
  <2>. QED
    BY <1>4, <1>11, <2>2, <2>5, <2>9, <2>10, RunAlone
<1>. QED
  BY <1>1, <1>2, <1>3, <1>9, <1>10, <1>11 DEF PersistArtifact, Registry

\* A run fills the artifact: nobody else writes it, and nobody has relied on it.
LEMMA WriteArtifactKeeps ==
    ASSUME DeployInv, NEW r \in DeployRuns, WriteArtifact(r)
    PROVE  DeployInv'
<1>1. PICK run : run = runs[r]
  OBVIOUS
<1>2. PICK address : address = Registry(run.contracts)
  OBVIOUS
<1>3. PICK file : file = Artifact(run)
  OBVIOUS
<1>4. PICK next : next = [run EXCEPT !.pc = "completing"]
  OBVIOUS
<1>5. /\ run.pc = "writing" /\ UNCHANGED <<txs, height, reorgs, journal>>
      /\ artifacts' = [artifacts EXCEPT ![address] = file] /\ Goes(r, "completing")
  BY <1>1, <1>2, <1>3 DEF WriteArtifact, Chain, Registry
<1>6. /\ run \in Run /\ run.since <= reorgs /\ reorgs \in Nat /\ run.config \in Configs
      /\ GraphOf(txs, run) /\ (run.since = reorgs => PlacesOf(txs, height, run))
      /\ OnDisk(artifacts, run)
  BY <1>1, <1>5, AtWork
<1>7. Whole(run.contracts) /\ Graph(txs, run.config, run.contracts)
  BY <1>5, <1>6 DEF GraphOf, Creating
<1>8. address \in Nonces /\ artifacts[address] = Torn
  <2>1. run.contracts["registry"] \in Record
    BY <1>6, <1>7 DEF Whole, Run, Contracts, Names
  <2>. QED
    BY <1>2, <1>5, <1>6, <2>1 DEF Registry, Record, OnDisk
<1>9. file # Torn /\ ArtifactOf(txs, address, file)
  BY <1>2, <1>3, <1>6, <1>7, ArtifactOfRun
<1>10. /\ next \in Run /\ next.pc = "completing" /\ next.contracts = run.contracts
       /\ next.config = run.config /\ next.since = run.since /\ next.status = run.status
  BY <1>4, <1>6 DEF Run, Stages
<1>11. runs' = [runs EXCEPT ![r] = next]
  BY <1>1, <1>4, <1>5 DEF Goes, DeployInv, DeployTyped
<1>12. \A s \in DeployRuns : runs'[s] = IF s = r THEN next ELSE runs[s]
  BY <1>11 DEF DeployInv, DeployTyped
<1>13. \A a \in Nonces : artifacts'[a] = IF a = address THEN file ELSE artifacts[a]
  BY <1>5, <1>8 DEF DeployInv, DeployTyped
<1>14. DeployTyped'
  <2>1. runs' \in [DeployRuns -> Run]
    BY <1>10, <1>11 DEF DeployInv, DeployTyped
  <2>2. DOMAIN artifacts' = Nonces
    BY <1>5 DEF DeployInv, DeployTyped
  <2>. QED
    BY <1>5, <2>1, <2>2 DEF DeployInv, DeployTyped
<1>15. OnChain(txs, height, reorgs, next)
  <2>1. GraphOf(txs, next)
    BY <1>5, <1>6, <1>7, <1>10 DEF GraphOf, Creating, Sent
  <2>2. next.since = reorgs => PlacesOf(txs, height, next)
    BY <1>5, <1>6, <1>10 DEF PlacesOf, Passed, Creating
  <2>. QED
    BY <1>6, <1>10, <2>1, <2>2 DEF OnChain
<1>16. OnDisk(artifacts', next)
  <2>1. Artifact(next) = file
    BY <1>3, <1>10 DEF Artifact
  <2>. QED
    BY <1>2, <1>8, <1>10, <1>13, <2>1 DEF OnDisk
<1>17. ASSUME NEW s \in DeployRuns, s # r PROVE OnDisk(artifacts', runs[s])
  <2>1. OnDisk(artifacts, runs[s]) /\ runs[s] \in Run
    BY DEF DeployInv, DeployTyped
  <2>2. ASSUME runs[s].pc \in {"writing", "completing"}
        PROVE  /\ Registry(runs[s].contracts) \in Nonces
               /\ GraphOf(txs, runs[s])
    <3>1. GraphOf(txs, runs[s])
      BY <2>2 DEF DeployInv, OnChain, Active
    <3>2. runs[s].contracts["registry"] \in Record
      BY <2>1, <2>2, <3>1 DEF GraphOf, Creating, Whole, Run, Contracts, Names
    <3>. QED
      BY <3>1, <3>2 DEF Registry, Record
  <2>3. ASSUME runs[s].pc = "writing"
        PROVE  artifacts'[Registry(runs[s].contracts)] = Torn
    <3>1. Registry(runs[s].contracts) # address
      BY <1>1, <1>2, <1>5, <1>17, <2>3 DEF DeployInv
    <3>. QED
      BY <1>13, <2>1, <2>2, <2>3, <3>1 DEF OnDisk
  <2>4. ASSUME runs[s].pc = "completing"
        PROVE  artifacts'[Registry(runs[s].contracts)] = Artifact(runs[s])
    <3>1. PICK other : other = Artifact(runs[s])
      OBVIOUS
    <3>2. other # Torn
      BY <2>1, <2>2, <2>4, <3>1, ArtifactOfRun DEF GraphOf, Creating
    <3>3. artifacts[Registry(runs[s].contracts)] = other
      BY <2>1, <2>4, <3>1 DEF OnDisk
    <3>. QED
      BY <1>8, <1>13, <2>2, <2>4, <3>1, <3>2, <3>3
  <2>. QED
    BY <2>3, <2>4 DEF OnDisk
<1>18. \A s \in DeployRuns : OnChain(txs', height', reorgs', runs'[s]) /\ OnDisk(artifacts', runs'[s])
  BY <1>5, <1>12, <1>15, <1>16, <1>17 DEF DeployInv
<1>19. \A s, u \in DeployRuns : s # u /\ runs'[s].pc = "writing" /\ runs'[u].pc = "writing" =>
         Registry(runs'[s].contracts) # Registry(runs'[u].contracts)
  BY <1>10, <1>12 DEF DeployInv
<1>20. journal' # Absent => JournalOf(txs', artifacts', journal')
  <2>1. ASSUME journal # Absent, journal.status = "COMPLETE"
        PROVE  artifacts'[Registry(journal.contracts)] = artifacts[Registry(journal.contracts)]
    <3>1. JournalOf(txs, artifacts, journal)
      BY <2>1 DEF DeployInv
    <3>2. artifacts[Registry(journal.contracts)] # Torn /\ Registry(journal.contracts) \in Nonces
      BY <2>1, <3>1, CompleteIsWritten
    <3>. QED
      BY <1>8, <1>13, <3>2
  <2>. QED
    BY <1>5, <2>1 DEF DeployInv, JournalOf
<1>21. \A a \in Nonces : artifacts'[a] \notin {Absent, Torn} => ArtifactOf(txs', a, artifacts'[a])
  BY <1>5, <1>9, <1>13 DEF DeployInv
<1>. QED
  BY <1>14, <1>18, <1>19, <1>20, <1>21 DEF DeployInv

LEMMA CompleteKeeps ==
    ASSUME DeployInv, NEW r \in DeployRuns, Complete(r)
    PROVE  DeployInv'
<1>1. PICK run : run = runs[r]
  OBVIOUS
<1>2. PICK next : next = Ended("done")
  OBVIOUS
<1>3. /\ run.pc = "completing" /\ UNCHANGED <<txs, height, reorgs, artifacts>>
      /\ journal' = [config |-> run.config, status |-> "COMPLETE", contracts |-> run.contracts]
      /\ runs' = [runs EXCEPT ![r] = next]
  BY <1>1, <1>2 DEF Complete, Chain
<1>4. /\ run \in Run /\ reorgs \in Nat /\ run.config \in Configs /\ GraphOf(txs, run) /\ OnDisk(artifacts, run)
  BY <1>1, <1>3, AtWork
<1>5. /\ Whole(run.contracts) /\ Graph(txs, run.config, run.contracts) /\ run.contracts \in Contracts
      /\ artifacts[Registry(run.contracts)] = Artifact(run)
  BY <1>3, <1>4 DEF GraphOf, Creating, OnDisk, Run
<1>6. JournalOf(txs, artifacts, journal')
  BY <1>3, <1>4, <1>5 DEF JournalOf, Journals, Artifact
<1>7. next \in Run /\ next.pc = "done" /\ OnChain(txs, height, reorgs, next) /\ OnDisk(artifacts, next)
  BY <1>2, <1>4, EndedIsSound
<1>. QED
  BY <1>3, <1>6, <1>7, RunSaves

LEMMA MineKeeps ==
    ASSUME DeployInv, NEW mined, mined \subseteq {t \in DOMAIN txs : txs[t].block = 0}, MineBlock(mined)
    PROVE  DeployInv'
<1>1. txs \in Seq(Creation) /\ height \in Nat /\ reorgs \in Nat
  BY DEF DeployInv, DeployTyped
<1>2. /\ height' = height + 1 /\ UNCHANGED <<reorgs, journal, artifacts, runs>>
      /\ txs' = [t \in DOMAIN txs |-> IF t \in mined THEN [txs[t] EXCEPT !.block = height + 1] ELSE txs[t]]
  BY DEF MineBlock, Disk
<1>3. \A t \in DOMAIN txs : txs[t] \in Creation
  BY <1>1
<1>4. ASSUME NEW t \in DOMAIN txs
      PROVE  /\ txs'[t] \in Creation /\ txs'[t].name = txs[t].name
             /\ txs'[t].nonce = txs[t].nonce /\ txs'[t].args = txs[t].args
             /\ txs[t].block # 0 => txs'[t].block = txs[t].block
  <2>1. CASE t \in mined
    <3>1. txs[t].block = 0 /\ txs'[t] = [txs[t] EXCEPT !.block = height + 1]
      BY <1>2, <2>1
    <3>2. PICK old : old = txs[t]
      OBVIOUS
    <3>3. PICK new : new = [old EXCEPT !.block = height + 1]
      OBVIOUS
    <3>4. old \in Creation /\ height + 1 \in Int
      BY <1>1, <1>3, <3>2
    <3>5. new \in Creation /\ new.name = old.name /\ new.nonce = old.nonce /\ new.args = old.args
      BY <3>3, <3>4 DEF Creation
    <3>. QED
      BY <3>1, <3>2, <3>3, <3>5
  <2>2. CASE t \notin mined
    BY <1>2, <1>3, <2>2 DEF Creation
  <2>. QED
    BY <2>1, <2>2
<1>5. txs' \in Seq(Creation) /\ DOMAIN txs' = DOMAIN txs
  <2>1. PICK n \in Nat : DOMAIN txs = 1..n
    BY <1>1
  <2>2. txs' \in [1..n -> Creation]
    BY <1>2, <1>4, <2>1
  <2>. QED
    BY <2>1, <2>2, SeqDef
<1>6. Extends(txs, txs')
  BY <1>4, <1>5 DEF Extends
<1>. QED
  BY <1>1, <1>2, <1>4, <1>5, <1>6, ChainMoves

LEMMA ReorgKeeps ==
    ASSUME DeployInv, NEW block, NEW gone, Reorg(block, gone)
    PROVE  DeployInv'
<1>1. txs \in Seq(Creation) /\ height \in Nat /\ reorgs \in Nat
  BY DEF DeployInv, DeployTyped
<1>2. /\ reorgs' = reorgs + 1 /\ UNCHANGED <<height, journal, artifacts, runs>>
      /\ txs' = [t \in DOMAIN txs |-> IF txs[t].block >= block
                                    THEN [txs[t] EXCEPT !.block = IF t \in gone THEN -1 ELSE 0] ELSE txs[t]]
  BY DEF Reorg, Disk
<1>3. \A t \in DOMAIN txs : txs[t] \in Creation
  BY <1>1
<1>4. \A t \in DOMAIN txs : /\ txs'[t] \in Creation /\ txs'[t].name = txs[t].name
                            /\ txs'[t].nonce = txs[t].nonce /\ txs'[t].args = txs[t].args
  BY <1>2, <1>3 DEF Creation
<1>5. txs' \in Seq(Creation) /\ DOMAIN txs' = DOMAIN txs
  <2>1. PICK n \in Nat : DOMAIN txs = 1..n
    BY <1>1
  <2>2. txs' \in [1..n -> Creation]
    BY <1>2, <1>4, <2>1
  <2>. QED
    BY <2>1, <2>2, SeqDef
<1>6. Extends(txs, txs')
  BY <1>4, <1>5 DEF Extends
<1>. QED
  BY <1>1, <1>2, <1>5, <1>6, ChainMoves

-----------------------------------------------------------------------------
(* The deployment, whole.                                                   *)

LEMMA DeployStarts == DeployInit => DeployInv
<1>. SUFFICES ASSUME DeployInit PROVE DeployInv
  OBVIOUS
<1>1. /\ txs = << >> /\ height = 0 /\ reorgs = 0 /\ journal = Absent
      /\ artifacts = [a \in Nonces |-> Absent] /\ runs = [r \in DeployRuns |-> Idle]
  BY DEF DeployInit
<1>2. Ended("idle") = Idle
  BY DEF Ended, Idle
<1>3. PICK run : run = Idle
  OBVIOUS
<1>4. run \in Run /\ run.pc = "idle" /\ OnChain(txs, height, reorgs, run) /\ OnDisk(artifacts, run)
  BY <1>1, <1>2, <1>3, EndedIsSound
<1>5. \A r \in DeployRuns : runs[r] = run
  BY <1>1, <1>3
<1>6. DeployTyped
  BY <1>1, <1>3, <1>4 DEF DeployTyped
<1>. QED
  BY <1>1, <1>4, <1>5, <1>6 DEF DeployInv

LEMMA DeployKeeps ==
    ASSUME DeployInv, [ContractsNext]_contractsVars
    PROVE  DeployInv'
<1>1. CASE DeploymentStep
  <2>1. DeployNext
    BY <1>1 DEF DeploymentStep
  <2>2. CASE \E r \in DeployRuns : DeployStep(r)
    <3>1. PICK r \in DeployRuns : DeployStep(r)
      BY <2>2
    <3>2. RunFails(r) => DeployInv'
      BY RunFailsKeeps DEF RunFails, Chain, Disk
    <3>. QED
      BY <3>1, <3>2, StartKeeps, RecoverKeeps, CreateKeeps, WaitKeeps, RecordKeeps, VerifyKeeps,
         PersistKeeps, WriteArtifactKeeps, CompleteKeeps DEF DeployStep
  <2>3. CASE MineBlock({})
    BY <2>3, MineKeeps
  <2>4. CASE \E t \in DOMAIN txs : Minable(t) /\ MineBlock({t})
    <3>1. PICK t \in DOMAIN txs : txs[t].block = 0 /\ MineBlock({t})
      BY <2>4 DEF Minable
    <3>. QED
      BY <3>1, MineKeeps
  <2>5. CASE \E block \in 1..height :
               \E gone \in SUBSET {t \in DOMAIN txs : txs[t].block >= block} : Reorg(block, gone)
    BY <2>5, ReorgKeeps
  <2>. QED
    BY <2>1, <2>2, <2>3, <2>4, <2>5 DEF DeployNext
<1>2. CASE V2Step \/ V1AgentsStep \/ V1GateStep \/ DeploymentOver \/ UNCHANGED contractsVars
  <2>1. UNCHANGED deployVars
    <3>1. V2Step => UNCHANGED deployVars
      BY DEF V2Step
    <3>2. V1AgentsStep => UNCHANGED deployVars
      BY DEF V1AgentsStep
    <3>3. V1GateStep => UNCHANGED deployVars
      BY DEF V1GateStep
    <3>4. DeploymentOver \/ UNCHANGED contractsVars => UNCHANGED deployVars
      BY DEF DeploymentOver, contractsVars
    <3>. QED
      BY <1>2, <3>1, <3>2, <3>3, <3>4
  <2>. QED
    BY <2>1 DEF deployVars, DeployInv, DeployTyped
<1>. QED
  BY <1>1, <1>2 DEF ContractsNext

LEMMA DeployShows == DeployInv => DeploymentIsOneGraph
<1>. SUFFICES ASSUME DeployInv PROVE DeploymentIsOneGraph
  OBVIOUS
<1>1. \A config, contracts : Graph(txs, config, contracts) => OneGraph(config, contracts)
  BY DEF Graph, OneGraph
<1>2. journal # Absent => OneGraph(journal.config, journal.contracts)
  BY <1>1 DEF DeployInv, JournalOf
<1>3. \A a \in Nonces : artifacts[a] \notin {Absent, Torn} =>
         /\ Whole(artifacts[a].contracts) /\ artifacts[a].contracts["registry"].address = a
         /\ OneGraph(artifacts[a], artifacts[a].contracts)
  BY <1>1 DEF DeployInv, ArtifactOf, Registry
<1>4. journal # Absent /\ journal.status = "COMPLETE" =>
         /\ Whole(journal.contracts)
         /\ artifacts[journal.contracts["registry"].address] =
              [roles |-> journal.config.roles, policy |-> journal.config.policy, contracts |-> journal.contracts]
  BY DEF DeployInv, JournalOf, Registry
<1>5. ASSUME NEW r \in DeployRuns, runs[r].pc \notin {"idle", "done", "failed"}
      PROVE  ConstructorsAccept(runs[r].config)
  <2>1. PICK env \in Environments : Preflight(env) /\ runs[r].config = ReadDeploymentConfig(env)
    BY <1>5, AtWork DEF Configs
  <2>2. runs[r].config.roles = env.roles /\ runs[r].config.policy = env.policy
    BY <2>1 DEF ReadDeploymentConfig
  <2>3. NoAccount \notin {env.roles.admin, env.roles.scanner, env.roles.guardian}
    BY <2>1 DEF Preflight, Custodians
  <2>4. PICK policy : policy = env.policy
    OBVIOUS
  <2>5. PolicyInBounds(policy) /\ MaxPolicyVersion \in Nat /\ MonthInSeconds \in Nat
    BY <2>1, <2>4, DeploymentAssumption DEF Preflight, MonthInSeconds
  <2>6. /\ policy.maxBehavioralScore <= 100 /\ policy.maxCodeRisk <= 2 /\ policy.requiredCoverage = 127
        /\ policy.minimumPolicyVersion # 0 /\ policy.minimumPolicyVersion <= MaxPolicyVersion
        /\ policy.maximumAgeSeconds # 0 /\ policy.maximumAgeSeconds <= MonthInSeconds
    BY <2>5 DEF PolicyInBounds
  <2>. QED
    BY <2>2, <2>3, <2>4, <2>6 DEF ConstructorsAccept
<1>6. ASSUME NEW r \in DeployRuns, NEW name \in Names, Verified(r), reorgs = runs[r].since
      PROVE  LET record == runs[r].contracts[name] IN
             /\ record # NoRecord /\ txs[record.tx].block = record.block
             /\ height - record.block + 1 >= runs[r].config.confirmations
  <2>1. PICK run : run = runs[r]
    OBVIOUS
  <2>2. run.pc \in {"verifying", "persisting", "writing", "completing"}
    BY <1>6, <2>1 DEF Verified
  <2>3. GraphOf(txs, run) /\ PlacesOf(txs, height, run)
    BY <1>6, <2>1, <2>2, AtWork
  <2>4. Whole(run.contracts) /\ Passed(run) = Names
    BY <2>2, <2>3 DEF GraphOf, Creating, Passed
  <2>. QED
    BY <2>1, <2>3, <2>4 DEF Whole, PlacesOf, Placed
<1>. QED
  BY <1>2, <1>3, <1>4, <1>5, <1>6 DEF DeploymentIsOneGraph

\* However runs of the deployment die, start again or overlap and blocks are replaced, the journal
\* and every artifact name one graph, made for the configuration they carry; a complete journal has
\* its artifact; what a run creates, the constructors take; and what it verifies without a
\* reorganisation stands in its blocks, confirmed
\* (prooflock-v2-deployer.ts:64-160, prooflock-v2-journal.ts:28-51, 04_deploy_prooflock_v2.ts:13-59).
THEOREM DeploymentAlwaysOneGraph == ContractsSpec => []DeploymentIsOneGraph
<1>1. ContractsInit => DeployInv
  <2>1. ContractsInit => DeployInit
    BY DEF ContractsInit
  <2>. QED
    BY <2>1, DeployStarts
<1>2. DeployInv /\ [ContractsNext]_contractsVars => DeployInv'
  BY DeployKeeps
<1>. QED
  BY <1>1, <1>2, DeployShows, PTL DEF ContractsSpec
=============================================================================
