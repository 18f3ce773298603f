----------------------------- MODULE Reads_proof ------------------------------
(***************************************************************************)
(* The reads, for any chains, agents, answers and bounds: a fetch stays    *)
(* within its limits, the locator answers for what it was asked, a report  *)
(* and the details of a proof are of one block and one moment, an access   *)
(* snapshot says what the chain said, a list is of one chain, and what is  *)
(* about to be sealed is earned by its evidence.  One inductive invariant  *)
(* for each part; the parts share no state.                                *)
(***************************************************************************)
EXTENDS MCReads, FiniteSetTheorems, SequenceTheorems, TLAPS

-----------------------------------------------------------------------------
(* Fetches from hosts that others name.                                     *)

Hops == IF client = "card" THEN MaxRedirects ELSE 0

FetchTypeOK ==
    /\ client \in {"card", "compute"}
    /\ pc \in {"validate", "resolve", "head", "body", "settled"}
    /\ url \in Urls \cup {BadUrl}
    /\ visited \in SUBSET Urls /\ IsFiniteSet(visited)
    /\ received \in Nat /\ aborted \in BOOLEAN
    /\ opened \in Seq([url : Urls, to : Public])
    /\ response.status = "redirect" => response.location \in Urls \cup {BadUrl}

\* A connection is to a URL that was visited, and a name that is being resolved has none yet.
OpenedOnce ==
    /\ \A i \in 1..Len(opened) : opened[i].url \in visited
    /\ \A i, j \in 1..Len(opened) : i # j => opened[i].url # opened[j].url
    /\ pc = "resolve" => url \in visited /\ \A i \in 1..Len(opened) : opened[i].url # url

\* The URLs that were visited bound the connections, and the redirects bound the URLs.
HopsBounded ==
    /\ Len(opened) <= Cardinality(visited) /\ Cardinality(visited) <= Hops + 1
    /\ pc = "resolve" => Len(opened) < Cardinality(visited)
    /\ pc = "validate" => Cardinality(visited) <= Hops

SettlesOnce ==
    /\ pc = "settled" <=> outcome # "none"
    /\ transport.open => pc \in {"head", "body"}
    /\ pc \in {"head", "body"} => ~aborted
    /\ pc = "body" => received <= MaxBytes
    /\ outcome = "delivered" =>
         /\ received <= MaxBytes /\ ~aborted
         /\ client = "card" => response.status = "ok" /\ response.json

FetchInv == FetchTypeOK /\ OpenedOnce /\ HopsBounded /\ SettlesOnce

\* The operators of a standard module that an instance has are those of the module itself.
LEMMA CardinalityOfFetch ==
    ASSUME NEW S PROVE Fetch!Cardinality(S) = Cardinality(S)
  BY DEF Fetch!Cardinality, Cardinality

LEMMA FetchStarts == Fetch!Init => FetchInv
<1>. SUFFICES ASSUME Fetch!Init PROVE FetchInv
  OBVIOUS
<1>1. opened = << >> /\ visited = {} /\ pc = "validate" /\ outcome = "none"
      /\ client \in {"card", "compute"} /\ url \in Urls \cup {BadUrl} /\ received = 0
      /\ aborted = FALSE /\ transport = [open |-> FALSE]
  BY DEF Fetch!Init, Fetch!Closed
<1>2. IsFiniteSet(visited) /\ Cardinality(visited) = 0
  BY <1>1, FS_EmptySet
<1>3. FetchTypeOK
  <2>1. response.status = "none"
    BY DEF Fetch!Init, Fetch!NoResponse
  <2>2. opened \in Seq([url : Urls, to : Public])
    BY <1>1
  <2>. QED
    BY <1>1, <1>2, <2>1, <2>2 DEF FetchTypeOK
<1>4. OpenedOnce /\ SettlesOnce
  BY <1>1 DEF OpenedOnce, SettlesOnce
<1>5. HopsBounded
  BY <1>1, <1>2, FetchAssumption DEF HopsBounded, Hops
<1>. QED
  BY <1>3, <1>4, <1>5 DEF FetchInv

\* The steps that open no connection and visit no URL.
LEMMA FetchMoves ==
    ASSUME FetchInv, UNCHANGED <<client, visited, opened>>, url' \in Urls \cup {BadUrl},
           pc' \in {"validate", "head", "body", "settled"}, received' \in Nat, aborted' \in BOOLEAN,
           pc' = "validate" => Cardinality(visited) <= Hops,
           response'.status = "redirect" => response'.location \in Urls \cup {BadUrl},
           SettlesOnce'
    PROVE  FetchInv'
<1>1. FetchTypeOK'
  BY DEF FetchInv, FetchTypeOK
<1>2. OpenedOnce'
  BY DEF FetchInv, OpenedOnce
<1>3. HopsBounded'
  BY DEF FetchInv, HopsBounded, Hops
<1>. QED
  BY <1>1, <1>2, <1>3 DEF FetchInv

LEMMA FetchStepKeeps == FetchInv /\ [Fetch!Next]_fetchVars => FetchInv'
<1>. SUFFICES ASSUME FetchInv, [Fetch!Next]_fetchVars PROVE FetchInv'
  OBVIOUS
<1>. USE DEF Fetch!At, Fetch!Settle, Fetch!Closed
<1>1. CASE Fetch!Validate
  <2>1. pc = "validate" /\ Cardinality(visited) <= Hops /\ outcome = "none"
        /\ UNCHANGED <<client, url, opened, received, aborted, response>> /\ ~transport.open
    BY <1>1 DEF Fetch!Validate, FetchInv, HopsBounded, SettlesOnce
  <2>2. CASE url = BadUrl \/ url \in visited
    <3>1. pc' = "settled" /\ UNCHANGED visited /\ SettlesOnce'
      BY <1>1, <2>2 DEF Fetch!Validate, SettlesOnce
    <3>. QED
      BY <2>1, <3>1, FetchMoves DEF FetchInv, FetchTypeOK
  <2>3. CASE url # BadUrl /\ url \notin visited
    <3>1. pc' = "resolve" /\ visited' = visited \cup {url} /\ UNCHANGED <<outcome, transport>>
      BY <1>1, <2>3 DEF Fetch!Validate
    <3>2. IsFiniteSet(visited') /\ Cardinality(visited') = Cardinality(visited) + 1
          /\ Cardinality(visited) \in Nat
      BY <2>3, <3>1, FS_AddElement, FS_CardinalityType DEF FetchInv, FetchTypeOK
    <3>3. FetchTypeOK'
      BY <2>1, <2>3, <3>1, <3>2 DEF FetchInv, FetchTypeOK
    <3>4. OpenedOnce'
      BY <2>1, <2>3, <3>1 DEF FetchInv, OpenedOnce
    <3>5. HopsBounded'
      <4>1. Len(opened) \in Nat /\ Len(opened) <= Cardinality(visited) /\ Hops \in Nat /\ Hops' = Hops
        BY <2>1, FetchAssumption DEF FetchInv, FetchTypeOK, HopsBounded, Hops
      <4>. QED
        BY <2>1, <3>1, <3>2, <4>1 DEF HopsBounded
    <3>6. SettlesOnce'
      BY <2>1, <3>1 DEF FetchInv, SettlesOnce
    <3>. QED
      BY <3>3, <3>4, <3>5, <3>6 DEF FetchInv
  <2>. QED
    BY <2>2, <2>3
<1>2. CASE Fetch!CollectBody
  <2>1. /\ pc = "body" /\ received' = received + 1 /\ received \in Nat /\ ~aborted /\ outcome = "none"
        /\ UNCHANGED <<client, url, visited, opened, aborted, response>>
    BY <1>2 DEF Fetch!CollectBody, FetchInv, FetchTypeOK, SettlesOnce
  <2>2. \/ received' > MaxBytes /\ pc' = "settled" /\ outcome' = "rejected" /\ ~transport'.open
        \/ received' <= MaxBytes /\ UNCHANGED <<pc, transport, outcome>>
    BY <1>2, <2>1, FetchAssumption DEF Fetch!CollectBody
  <2>3. SettlesOnce'
    BY <2>1, <2>2 DEF FetchInv, SettlesOnce
  <2>. QED
    BY <2>1, <2>2, <2>3, FetchMoves DEF FetchInv, FetchTypeOK
<1>3. CASE Fetch!BodyEnds
  <2>1. pc = "body" /\ received <= MaxBytes /\ ~aborted /\ outcome = "none"
        /\ UNCHANGED <<client, visited, opened, aborted, response, received>>
    BY <1>3 DEF Fetch!BodyEnds, FetchInv, SettlesOnce
  <2>2. ASSUME UNCHANGED url, pc' = "settled", outcome' # "none", ~transport'.open,
               outcome' = "delivered" /\ client = "card" => response.status = "ok" /\ response.json
        PROVE  FetchInv'
    <3>1. SettlesOnce'
      BY <2>1, <2>2 DEF SettlesOnce
    <3>. QED
      BY <2>1, <2>2, <3>1, FetchMoves DEF FetchInv, FetchTypeOK
  <2>3. CASE client = "compute"
    BY <1>3, <2>2, <2>3 DEF Fetch!BodyEnds
  <2>4. CASE client # "compute" /\ response.status = "redirect"
    <3>0. IF response.location \in visited \cup {BadUrl} \/ Cardinality(visited) > MaxRedirects
          THEN pc' = "settled" /\ outcome' = "rejected" /\ transport' = [open |-> FALSE] /\ UNCHANGED url
          ELSE pc' = "validate" /\ transport' = [open |-> FALSE] /\ url' = response.location
               /\ UNCHANGED outcome
      <4>1. response.status = "redirect" => client = "compute" \/
              (IF response.location \in visited \cup {BadUrl} \/ Cardinality(visited) > MaxRedirects
               THEN pc' = "settled" /\ outcome' = "rejected" /\ transport' = [open |-> FALSE] /\ UNCHANGED url
               ELSE pc' = "validate" /\ transport' = [open |-> FALSE] /\ url' = response.location
                    /\ UNCHANGED outcome)
        BY <1>3, CardinalityOfFetch DEF Fetch!BodyEnds
      <4>. QED
        BY <2>4, <4>1
    <3>1. CASE response.location \in visited \cup {BadUrl} \/ Cardinality(visited) > MaxRedirects
      BY <2>2, <3>0, <3>1
    <3>2. CASE ~(response.location \in visited \cup {BadUrl} \/ Cardinality(visited) > MaxRedirects)
      <4>1. pc' = "validate" /\ url' = response.location /\ UNCHANGED outcome /\ ~transport'.open
        BY <3>0, <3>2
      <4>2. Cardinality(visited) <= Hops
        <5>1. client = "card" /\ IsFiniteSet(visited)
          BY <2>4 DEF FetchInv, FetchTypeOK
        <5>2. Cardinality(visited) \in Nat
          BY <5>1, FS_CardinalityType
        <5>. QED
          BY <3>2, <5>1, <5>2, FetchAssumption DEF Hops
      <4>3. SettlesOnce'
        BY <2>1, <4>1 DEF SettlesOnce
      <4>. QED
        BY <2>1, <2>4, <4>1, <4>2, <4>3, FetchMoves DEF FetchInv, FetchTypeOK
    <3>. QED
      BY <3>1, <3>2
  <2>5. CASE client # "compute" /\ response.status # "redirect"
    <3>1. CASE response.status = "ok" /\ response.json
      BY <1>3, <2>2, <2>5, <3>1 DEF Fetch!BodyEnds
    <3>2. CASE ~(response.status = "ok" /\ response.json)
      <4>1. outcome' \in {"retryable", "rejected"} /\ pc' = "settled" /\ ~transport'.open /\ UNCHANGED url
        BY <1>3, <2>5, <3>2 DEF Fetch!BodyEnds
      <4>. QED
        BY <2>2, <4>1
    <3>. QED
      BY <3>1, <3>2
  <2>. QED
    BY <2>3, <2>4, <2>5
<1>4. CASE Fetch!FetchFails
  <2>1. UNCHANGED <<client, url, visited, opened, aborted, response, received>>
        /\ pc' = "settled" /\ outcome' = "retryable" /\ ~transport'.open
    BY <1>4 DEF Fetch!FetchFails
  <2>2. SettlesOnce'
    BY <2>1 DEF SettlesOnce
  <2>. QED
    BY <2>1, <2>2, FetchMoves DEF FetchInv, FetchTypeOK
<1>5. CASE Fetch!DeadlineStrikes
  <2>1. UNCHANGED <<client, url, visited, opened, response, received>> /\ pc # "settled" /\ aborted' = TRUE
    BY <1>5 DEF Fetch!DeadlineStrikes
  <2>2. CASE client = "card" \/ pc \in {"head", "body"}
    <3>1. pc' = "settled" /\ outcome' = "aborted" /\ ~transport'.open
      BY <1>5, <2>2 DEF Fetch!DeadlineStrikes
    <3>2. SettlesOnce'
      BY <3>1 DEF SettlesOnce
    <3>. QED
      BY <2>1, <3>1, <3>2, FetchMoves DEF FetchInv, FetchTypeOK
  <2>3. CASE ~(client = "card" \/ pc \in {"head", "body"})
    <3>1. UNCHANGED <<pc, outcome, transport>> /\ outcome = "none"
      BY <1>5, <2>1, <2>3 DEF Fetch!DeadlineStrikes, FetchInv, SettlesOnce
    <3>2. FetchTypeOK'
      BY <2>1, <3>1 DEF FetchInv, FetchTypeOK
    <3>3. OpenedOnce' /\ HopsBounded'
      BY <2>1, <3>1 DEF FetchInv, OpenedOnce, HopsBounded, Hops
    <3>4. SettlesOnce'
      BY <2>1, <2>3, <3>1 DEF FetchInv, SettlesOnce
    <3>. QED
      BY <3>2, <3>3, <3>4 DEF FetchInv
  <2>. QED
    BY <2>2, <2>3
<1>6. ASSUME NEW answer \in Fetch!Answers, Fetch!ResolveAddresses(answer)
      PROVE  FetchInv'
  <2>1. pc = "resolve" /\ url \in visited /\ ~transport.open /\ outcome = "none"
        /\ UNCHANGED <<client, url, visited, aborted, response, received>>
    BY <1>6 DEF Fetch!ResolveAddresses, FetchInv, OpenedOnce, SettlesOnce
  <2>2. CASE aborted \/ ~Fetch!AllAddressesPublic(answer)
    <3>1. pc' = "settled" /\ outcome' \in {"aborted", "rejected"} /\ ~transport'.open /\ UNCHANGED opened
      BY <1>6, <2>2 DEF Fetch!ResolveAddresses
    <3>2. SettlesOnce'
      BY <3>1 DEF SettlesOnce
    <3>. QED
      BY <2>1, <3>1, <3>2, FetchMoves DEF FetchInv, FetchTypeOK
  <2>3. CASE ~aborted /\ Fetch!AllAddressesPublic(answer)
    <3>. DEFINE o == [url |-> url, to |-> answer[1]]
    <3>1. pc' = "head" /\ opened' = Append(opened, o) /\ UNCHANGED outcome
      BY <1>6, <2>3 DEF Fetch!ResolveAddresses
    <3>2. o \in [url : Urls, to : Public] /\ o.url = url
      <4>1. answer[1] \in Public
        <5>1. PICK n \in 0..2 : answer \in [1..n -> Fetch!IpAddresses]
          BY <1>6 DEF Fetch!Answers
        <5>2. n # 0
          <6>1. answer # << >>
            BY <2>3 DEF Fetch!AllAddressesPublic
          <6>. QED
            BY <5>1, <6>1
        <5>3. 1 \in DOMAIN answer
          BY <5>1, <5>2
        <5>. QED
          BY <2>3, <5>3 DEF Fetch!AllAddressesPublic
      <4>. QED
        BY <2>1, <4>1 DEF FetchInv, FetchTypeOK
    <3>. HIDE DEF o
    <3>3. /\ opened' \in Seq([url : Urls, to : Public]) /\ Len(opened') = Len(opened) + 1
          /\ opened'[Len(opened) + 1] = o /\ \A i \in 1..Len(opened) : opened'[i] = opened[i]
          /\ Len(opened) \in Nat
      <4>1. opened \in Seq([url : Urls, to : Public])
        BY DEF FetchInv, FetchTypeOK
      <4>. QED
        BY <3>1, <3>2, <4>1, AppendProperties
    <3>4. FetchTypeOK'
      BY <2>1, <3>1, <3>3 DEF FetchInv, FetchTypeOK
    <3>5. OpenedOnce'
      <4>1. \A i \in 1..Len(opened') : i \in 1..Len(opened) \/ i = Len(opened) + 1
        BY <3>3
      <4>2. \A i \in 1..Len(opened) : opened[i].url # url /\ opened[i].url \in visited
        BY <2>1 DEF FetchInv, OpenedOnce
      <4>3. \A i \in 1..Len(opened') : opened'[i].url \in visited'
        BY <2>1, <3>2, <3>3, <4>1, <4>2
      <4>4. \A i, j \in 1..Len(opened') : i # j => opened'[i].url # opened'[j].url
        BY <3>2, <3>3, <4>1, <4>2 DEF FetchInv, OpenedOnce
      <4>. QED
        BY <3>1, <4>3, <4>4 DEF OpenedOnce
    <3>6. HopsBounded'
      <4>1. Cardinality(visited) \in Nat /\ Len(opened) < Cardinality(visited) /\ Hops' = Hops
        BY <2>1, FS_CardinalityType DEF FetchInv, FetchTypeOK, HopsBounded, Hops
      <4>. QED
        BY <2>1, <3>1, <3>3, <4>1 DEF FetchInv, HopsBounded
    <3>7. SettlesOnce'
      BY <2>1, <2>3, <3>1 DEF SettlesOnce
    <3>. QED
      BY <3>4, <3>5, <3>6, <3>7 DEF FetchInv
  <2>. QED
    BY <2>2, <2>3
<1>7. ASSUME NEW head \in Fetch!Responses, Fetch!ReceiveHead(head)
      PROVE  FetchInv'
  <2>1. pc = "head" /\ ~aborted /\ outcome = "none" /\ received' = 0 /\ response' = head
        /\ UNCHANGED <<client, url, visited, opened, aborted>>
    BY <1>7 DEF Fetch!ReceiveHead, FetchInv, SettlesOnce
  <2>2. \/ pc' = "settled" /\ outcome' = "rejected" /\ ~transport'.open
        \/ pc' = "body" /\ UNCHANGED <<outcome, transport>>
    BY <1>7 DEF Fetch!ReceiveHead
  <2>3. head.status = "redirect" => head.location \in Urls \cup {BadUrl}
    BY <1>7 DEF Fetch!Responses
  <2>4. SettlesOnce'
    BY <2>1, <2>2, FetchAssumption DEF SettlesOnce
  <2>. QED
    BY <2>1, <2>2, <2>3, <2>4, FetchMoves DEF FetchInv, FetchTypeOK
<1>8. CASE UNCHANGED fetchVars
  BY <1>8 DEF fetchVars, FetchInv, FetchTypeOK, OpenedOnce, HopsBounded, Hops, SettlesOnce
<1>. QED
  BY <1>1, <1>2, <1>3, <1>4, <1>5, <1>6, <1>7, <1>8 DEF Fetch!Next

\* What the invariant says of a fetch in plain terms.
LEMMA FetchIsInBounds == FetchInv => FetchStaysInBounds
<1>. SUFFICES ASSUME FetchInv PROVE Fetch!FetchStaysInBounds
  BY DEF FetchStaysInBounds
<1>1. DOMAIN opened = 1..Len(opened) /\ \A i \in 1..Len(opened) : opened[i].to \in Public
  <2>1. opened \in Seq([url : Urls, to : Public])
    BY DEF FetchInv, FetchTypeOK
  <2>2. DOMAIN opened = 1..Len(opened)
    BY <2>1
  <2>3. \A i \in 1..Len(opened) : opened[i] \in [url : Urls, to : Public]
    BY <2>1, ElementOfSeq
  <2>. QED
    BY <2>2, <2>3
<1>2. Len(opened) <= 1 + (IF client = "card" THEN MaxRedirects ELSE 0)
  <2>1. Len(opened) \in Nat /\ Cardinality(visited) \in Nat /\ Hops \in Nat
    BY FS_CardinalityType, FetchAssumption DEF FetchInv, FetchTypeOK, Hops
  <2>. QED
    BY <2>1 DEF FetchInv, HopsBounded, Hops
<1>. QED
  BY <1>1, <1>2 DEF FetchInv, OpenedOnce, SettlesOnce, Fetch!FetchStaysInBounds

LEMMA FetchInvariant == ReadsSpec => []FetchInv
<1>1. ReadsInit => FetchInv
  BY FetchStarts DEF ReadsInit
<1>2. FetchInv /\ [ReadsNext]_<<part, chainVars, locatorVars, discoverVars, sealedVars,
                                subjectVars, riskVars, fetchVars>> => FetchInv'
  BY FetchStepKeeps DEF ReadsNext, AccessStep, LocatorStep, DiscoverStep, SealedStep, SubjectStep,
     RiskStep, FetchStep
<1>. QED
  BY <1>1, <1>2, PTL DEF ReadsSpec

\* Through any redirects, names, lengths and deadlines, a fetch connects to public
\* addresses only, asks no URL twice, and delivers no more than it may
\* (card.ts:112-193, safe-https.ts:73-150).
THEOREM FetchAlwaysInBounds == ReadsSpec => []FetchStaysInBounds
  BY FetchInvariant, FetchIsInBounds, PTL

-----------------------------------------------------------------------------
(* The transaction that sealed a proof.                                     *)

Sealable == SealedProofs \cup {NoProof}

Calls == [pc : Locator!Pcs, proof : Sealable, hint : Sealable, finalized : Nat, lower : Nat,
          end : Nat, queries : Nat, match : Nat \X Nat, steady : BOOLEAN, answer : Locator!Answers]

Remembers == [proof : Sealable, kind : {"NOT_FOUND", "HINT_REQUIRED"}, left : Nat]

LocatorTypeOK ==
    /\ seals \in Seq(Sealable) /\ forks \in Seq(Nat) /\ Len(forks) = Len(seals)
    /\ reorgs \in Nat /\ call \in Calls
    /\ cache \in Seq(Remembers)

\* A chain seals a proof once, and its hashes are of the reorganisations so far.
OneSealEach ==
    /\ \A m, n \in 1..Len(seals) : m # n /\ seals[m] = seals[n] => seals[m] = NoProof
    /\ \A n \in 1..Len(forks) : forks[n] <= reorgs

\* What a search has not read yet holds a proof that stood unmoved, and its budget is enough for that.
SearchCovers ==
    /\ call.pc = "idle" => ~call.steady
    /\ call.pc = "scan" =>
         /\ call.proof # NoProof /\ call.hint = NoProof
         /\ 1 <= call.lower /\ call.end <= call.finalized /\ call.finalized <= Len(seals)
         /\ call.queries <= QueryBudget
         /\ call.end + 1 - call.lower <= ChunkBlocks * (QueryBudget - call.queries)
         /\ call.steady => \E n \in call.lower..call.end : seals[n] = call.proof

\* A receipt is of a finalized block that seals the proof, unless that block was replaced.
ReceiptStands ==
    call.pc = "block" =>
      /\ call.match[1] \in 1..Len(seals) /\ call.match[1] <= call.finalized
      /\ call.match[2] <= reorgs
      /\ forks[call.match[1]] = call.match[2] => seals[call.match[1]] = call.proof

LocatorInv == LocatorTypeOK /\ OneSealEach /\ SearchCovers /\ ReceiptStands

LEMMA LocatorRestsWell == LocatorRests \/ Locator!Init => LocatorInv
<1>. SUFFICES ASSUME LocatorRests \/ Locator!Init PROVE LocatorInv
  OBVIOUS
<1>1. call = Locator!Idle /\ reorgs = 0 /\ cache = << >>
  BY DEF LocatorRests, Locator!Init
<1>2. call \in Calls /\ call.pc = "idle" /\ ~call.steady
  BY <1>1 DEF Locator!Idle, Calls, Sealable, Locator!Pcs, Locator!Answers
<1>3. CASE LocatorRests
  <2>1. seals \in Seq(Sealable) /\ forks \in Seq(Nat) /\ Len(forks) = Len(seals) /\ Len(seals) = 0
    BY <1>3 DEF LocatorRests
  <2>. QED
    BY <1>1, <1>2, <2>1 DEF LocatorInv, LocatorTypeOK, OneSealEach, SearchCovers, ReceiptStands
<1>4. CASE Locator!Init
  <2>1. seals \in [1..FirstBlock -> Sealable] /\ forks = [n \in 1..FirstBlock |-> 0]
        /\ \A m, n \in DOMAIN seals : m # n /\ seals[m] = seals[n] => seals[m] = NoProof
    BY <1>4 DEF Locator!Init, Sealable
  <2>2. seals \in Seq(Sealable) /\ forks \in Seq(Nat) /\ Len(forks) = Len(seals)
        /\ Len(seals) = FirstBlock /\ DOMAIN seals = 1..Len(seals)
    BY <2>1, LocatorAssumption
  <2>3. OneSealEach
    BY <1>1, <2>1, <2>2 DEF OneSealEach
  <2>. QED
    BY <1>1, <1>2, <2>2, <2>3 DEF LocatorInv, LocatorTypeOK, SearchCovers, ReceiptStands
<1>. QED
  BY <1>3, <1>4

\* A step of a call leaves the chain alone.
LEMMA LocatorReads ==
    ASSUME LocatorInv, UNCHANGED <<seals, forks, reorgs>>, call' \in Calls, SearchCovers', ReceiptStands',
           cache' \in Seq(Remembers)
    PROVE  LocatorInv'
  BY DEF LocatorInv, LocatorTypeOK, OneSealEach

LEMMA LocatorEnds ==
    ASSUME LocatorInv, UNCHANGED <<seals, forks, reorgs>>, NEW answer \in Locator!Answers, Locator!End(answer),
           cache' \in Seq(Remembers)
    PROVE  LocatorInv' /\ call'.pc = "done" /\ call'.answer = answer
<1>1. call' = [call EXCEPT !.pc = "done", !.answer = answer] /\ call \in Calls
  BY DEF Locator!End, LocatorInv, LocatorTypeOK
<1>2. call' \in Calls /\ call'.pc = "done" /\ call'.answer = answer
  BY <1>1 DEF Calls, Locator!Pcs
<1>. QED
  BY <1>2, LocatorReads DEF SearchCovers, ReceiptStands

\* What a step of a call answers, and that it keeps the invariant.
TrueAnswer ==
    call.pc # "done" /\ call'.pc = "done" =>
      /\ call'.answer = "FOUND" =>
           /\ call.match[1] <= call.finalized
           /\ call.match[1] <= Len(seals) /\ seals[call.match[1]] = call.proof
      /\ call'.answer \in {"NOT_FOUND", "HINT_REQUIRED"} /\ call.hint = NoProof => ~call.steady

LEMMA ForgottenOK ==
    ASSUME cache \in Seq(Remembers), NEW p
    PROVE  Locator!Forgotten(p) \in Seq(Remembers)
<1>. DEFINE lapsed == {i \in DOMAIN cache : cache[i].proof = p /\ cache[i].left = 0}
<1>1. CASE lapsed = {}
  BY <1>1 DEF Locator!Forgotten
<1>2. CASE lapsed # {}
  <2>1. PICK i : i = CHOOSE x \in lapsed : TRUE
    OBVIOUS
  <2>2. i \in 1..Len(cache)
    BY <1>2, <2>1
  <2>3. SubSeq(cache, 1, i - 1) \in Seq(Remembers) /\ SubSeq(cache, i + 1, Len(cache)) \in Seq(Remembers)
    <3>1. Len(cache) \in Nat /\ \A n \in 1..(i - 1) : n \in 1..Len(cache)
      BY <2>2
    <3>2. \A n \in (i + 1)..Len(cache) : n \in 1..Len(cache)
      BY <2>2
    <3>. QED
      BY <2>2, <3>1, <3>2, SubSeqProperties
  <2>4. Locator!Forgotten(p) = Locator!RemoveAt(cache, i)
    BY <1>2, <2>1 DEF Locator!Forgotten
  <2>. QED
    BY <2>3, <2>4, ConcatProperties DEF Locator!RemoveAt
<1>. QED
  BY <1>1, <1>2

LEMMA RememberedOK ==
    ASSUME cache \in Seq(Remembers), NEW p \in Sealable, NEW denial \in {"NOT_FOUND", "HINT_REQUIRED"}
    PROVE  Locator!Remembered(p, denial) \in Seq(Remembers)
<1>1. PICK kept : kept = IF Len(cache) >= NegativeMax THEN Tail(cache) ELSE cache
  OBVIOUS
<1>2. PICK entry : entry = [proof |-> p, kind |-> denial, left |-> NegativeTtl]
  OBVIOUS
<1>3. entry \in Remembers
  BY <1>2, LocatorAssumption DEF Remembers
<1>4. kept \in Seq(Remembers)
  <2>1. CASE Len(cache) >= NegativeMax
    <3>1. cache # << >>
      BY <2>1, LocatorAssumption
    <3>. QED
      BY <1>1, <2>1, <3>1, HeadTailProperties
  <2>2. CASE ~(Len(cache) >= NegativeMax)
    BY <1>1, <2>2
  <2>. QED
    BY <2>1, <2>2
<1>5. Locator!Remembered(p, denial) =
        IF \E i \in DOMAIN kept : kept[i].proof = p
        THEN [i \in DOMAIN kept |-> IF kept[i].proof = p THEN entry ELSE kept[i]] ELSE Append(kept, entry)
  BY <1>1, <1>2 DEF Locator!Remembered
<1>6. [i \in DOMAIN kept |-> IF kept[i].proof = p THEN entry ELSE kept[i]] \in Seq(Remembers)
  <2>1. DOMAIN kept = 1..Len(kept) /\ Len(kept) \in Nat
    BY <1>4
  <2>2. \A i \in 1..Len(kept) : kept[i] \in Remembers
    BY <1>4, ElementOfSeq
  <2>3. \A i \in 1..Len(kept) : (IF kept[i].proof = p THEN entry ELSE kept[i]) \in Remembers
    BY <1>3, <2>2
  <2>. QED
    BY <2>1, <2>3
<1>. QED
  BY <1>3, <1>4, <1>5, <1>6, AppendProperties

LEMMA LocateKeeps ==
    ASSUME LocatorInv, NEW p \in SealedProofs, NEW hint \in Sealable, Locator!Locate(p, hint)
    PROVE  LocatorInv' /\ TrueAnswer
<1>1. PICK finalized : finalized = IF Len(seals) + 1 > Confirmations THEN Len(seals) + 1 - Confirmations ELSE 0
  OBVIOUS
<1>2. PICK lower : lower = Locator!Max2(FirstBlock, finalized + 1 - Lookback)
  OBVIOUS
<1>3. PICK steady : steady = (Locator!Where(p) \cap lower..finalized # {})
  OBVIOUS
<1>4. PICK begun : begun = [Locator!Idle EXCEPT !.proof = p, !.hint = hint, !.finalized = finalized,
                             !.lower = lower, !.end = finalized, !.steady = steady]
  OBVIOUS
<1>5. /\ call.pc \in {"idle", "done"} /\ UNCHANGED <<seals, forks, reorgs>>
      /\ cache' \in {cache, Locator!Forgotten(p)}
      /\ \/ call' = [begun EXCEPT !.pc = "done", !.answer = "UNAVAILABLE"]
         \/ call' = [begun EXCEPT !.pc = "receipt"]
         \/ \E e \in DOMAIN cache :
              call' = [begun EXCEPT !.pc = "done", !.steady = FALSE, !.answer = cache[e].kind]
         \/ hint = NoProof /\ finalized >= FirstBlock /\ call' = [begun EXCEPT !.pc = "scan"]
  <2>1. call.pc \in {"idle", "done"} /\ UNCHANGED <<seals, forks, reorgs>>
        /\ cache' \in {cache, Locator!Forgotten(p)}
    BY DEF Locator!Locate, Locator!Reading
  <2>2. call' = IF finalized < FirstBlock
                THEN [begun EXCEPT !.pc = "done", !.answer = "UNAVAILABLE"]
                ELSE IF hint # NoProof THEN [begun EXCEPT !.pc = "receipt"]
                ELSE IF Locator!Live(p) # {}
                THEN [begun EXCEPT !.pc = "done", !.steady = FALSE,
                                   !.answer = cache[CHOOSE i \in Locator!Live(p) : TRUE].kind]
                ELSE [begun EXCEPT !.pc = "scan"]
    BY <1>1, <1>2, <1>3, <1>4 DEF Locator!Locate, Locator!Latest
  <2>3. Locator!Live(p) \subseteq DOMAIN cache
    BY DEF Locator!Live
  <2>4. finalized \in Nat
    BY <1>1, LocatorAssumption DEF LocatorInv, LocatorTypeOK
  <2>5. CASE finalized < FirstBlock \/ hint # NoProof
    BY <2>1, <2>2, <2>5
  <2>6. CASE finalized >= FirstBlock /\ hint = NoProof /\ Locator!Live(p) # {}
    <3>1. PICK e : e = CHOOSE i \in Locator!Live(p) : TRUE
      OBVIOUS
    <3>2. e \in DOMAIN cache
      BY <2>3, <2>6, <3>1
    <3>3. call' = [begun EXCEPT !.pc = "done", !.steady = FALSE, !.answer = cache[e].kind]
      <4>1. ~(finalized < FirstBlock)
        BY <2>4, <2>6, LocatorAssumption
      <4>. QED
        BY <2>2, <2>6, <3>1, <4>1
    <3>. QED
      BY <2>1, <3>2, <3>3
  <2>7. CASE finalized >= FirstBlock /\ hint = NoProof /\ Locator!Live(p) = {}
    <3>1. ~(finalized < FirstBlock)
      BY <2>4, <2>7, LocatorAssumption
    <3>. QED
      BY <2>1, <2>2, <2>7, <3>1
  <2>8. finalized < FirstBlock \/ finalized >= FirstBlock
    BY <2>4, LocatorAssumption
  <2>. QED
    BY <2>5, <2>6, <2>7, <2>8
<1>5a. call.pc \in {"idle", "done"} /\ UNCHANGED <<seals, forks, reorgs>>
  BY <1>5
<1>5b. cache' \in {cache, Locator!Forgotten(p)}
  BY <1>5
<1>5c. \/ call' = [begun EXCEPT !.pc = "done", !.answer = "UNAVAILABLE"]
       \/ call' = [begun EXCEPT !.pc = "receipt"]
       \/ \E e \in DOMAIN cache :
            call' = [begun EXCEPT !.pc = "done", !.steady = FALSE, !.answer = cache[e].kind]
       \/ hint = NoProof /\ finalized >= FirstBlock /\ call' = [begun EXCEPT !.pc = "scan"]
  BY <1>5
<1>6. finalized \in Nat /\ lower \in Nat /\ lower >= 1 /\ lower >= finalized + 1 - Lookback
      /\ finalized <= Len(seals)
  BY <1>1, <1>2, LocatorAssumption DEF LocatorInv, LocatorTypeOK, Locator!Max2
<1>7. cache \in Seq(Remembers) /\ cache' \in Seq(Remembers)
  BY <1>5b, ForgottenOK DEF LocatorInv, LocatorTypeOK
<1>8. begun \in Calls /\ begun.queries = 0 /\ begun.proof = p /\ begun.hint = hint /\ begun.lower = lower
      /\ begun.end = finalized /\ begun.finalized = finalized /\ begun.steady = steady
  BY <1>3, <1>4, <1>6 DEF Locator!Idle, Calls, Sealable, Locator!Pcs, Locator!Answers
<1>9. \A e \in DOMAIN cache : cache[e].kind \in {"NOT_FOUND", "HINT_REQUIRED"}
  <2>1. DOMAIN cache = 1..Len(cache)
    BY <1>7
  <2>2. \A e \in DOMAIN cache : cache[e] \in Remembers
    BY <1>7, <2>1, ElementOfSeq
  <2>. QED
    BY <2>2 DEF Remembers
<1>10. /\ call' \in Calls /\ call'.answer # "FOUND"
       /\ call'.pc \in {"done", "receipt", "scan"}
       /\ call'.pc = "scan" => call'.hint = NoProof /\ call'.proof = p /\ call'.lower = lower
            /\ call'.end = finalized /\ call'.finalized = finalized /\ call'.steady = steady /\ call'.queries = 0
  <2>1. begun.answer = "none"
    BY <1>4 DEF Locator!Idle
  <2>2. CASE call' = [begun EXCEPT !.pc = "done", !.answer = "UNAVAILABLE"]
    BY <1>8, <2>2 DEF Calls, Locator!Pcs, Locator!Answers
  <2>3. CASE call' = [begun EXCEPT !.pc = "receipt"]
    BY <1>8, <2>1, <2>3 DEF Calls, Locator!Pcs, Locator!Answers
  <2>4. ASSUME NEW e \in DOMAIN cache,
               call' = [begun EXCEPT !.pc = "done", !.steady = FALSE, !.answer = cache[e].kind]
        PROVE  call' \in Calls /\ call'.answer # "FOUND" /\ call'.pc = "done"
    <3>1. cache[e].kind \in {"NOT_FOUND", "HINT_REQUIRED"}
      BY <1>9
    <3>. QED
      BY <1>8, <2>4, <3>1 DEF Calls, Locator!Pcs, Locator!Answers
  <2>5. CASE hint = NoProof /\ call' = [begun EXCEPT !.pc = "scan"]
    <3>1. call'.answer = "none" /\ call'.pc = "scan" /\ call' \in Calls
      BY <1>8, <2>1, <2>5 DEF Calls, Locator!Pcs
    <3>2. call'.hint = NoProof /\ call'.proof = p /\ call'.lower = lower
          /\ call'.end = finalized /\ call'.finalized = finalized /\ call'.queries = 0
      BY <1>8, <2>5 DEF Calls
    <3>3. call'.steady = begun.steady
      BY <1>8, <2>5 DEF Calls
    <3>. QED
      BY <1>8, <3>1, <3>2, <3>3
  <2>. QED
    BY <1>5c, <2>2, <2>3, <2>4, <2>5
<1>11. steady => \E n \in lower..finalized : seals[n] = p
  BY <1>3 DEF Locator!Where
<1>12. finalized + 1 - lower <= ChunkBlocks * (QueryBudget - 0) /\ 0 <= QueryBudget
  BY <1>6, LocatorAssumption
<1>13. SearchCovers' /\ ReceiptStands'
  <2>1. p # NoProof /\ Len(seals') = Len(seals) /\ Len(seals) \in Nat
    BY <1>5a, LocatorAssumption DEF LocatorInv, LocatorTypeOK
  <2>. QED
    BY <1>5a, <1>6, <1>10, <1>11, <1>12, <2>1 DEF SearchCovers, ReceiptStands
<1>14. LocatorInv'
  BY <1>5a, <1>7, <1>10, <1>13, LocatorReads
<1>15. TrueAnswer
  <2>1. call'.answer # "FOUND"
    BY <1>10
  <2>2. call.pc # "done" => ~call.steady
    BY <1>5a DEF LocatorInv, SearchCovers
  <2>. QED
    BY <2>1, <2>2 DEF TrueAnswer
<1>. QED
  BY <1>14, <1>15

LEMMA ScanNextKeeps == LocatorInv /\ Locator!ScanNext => LocatorInv' /\ TrueAnswer
<1>. SUFFICES ASSUME LocatorInv, Locator!ScanNext PROVE LocatorInv' /\ TrueAnswer
  OBVIOUS
<1>1. PICK start : start = Locator!Max2(call.lower, call.end + 1 - ChunkBlocks)
  OBVIOUS
<1>2. /\ call.pc = "scan" /\ call.end >= call.lower /\ call.queries < QueryBudget
      /\ UNCHANGED <<cache, seals, forks, reorgs>>
  BY DEF Locator!ScanNext, Locator!Reading
<1>3. PICK found : found = Locator!Matches(start, call.end)
  OBVIOUS
<1>4. /\ call \in Calls /\ call.lower \in Nat /\ call.end \in Nat /\ call.queries \in Nat /\ call.lower >= 1
      /\ ChunkBlocks \in Nat /\ QueryBudget \in Nat
  BY <1>2, LocatorAssumption DEF LocatorInv, LocatorTypeOK, Calls, SearchCovers
<1>5. start \in Nat /\ start >= call.lower /\ start >= call.end + 1 - ChunkBlocks
      /\ start <= call.end + 1 /\ (start = call.lower \/ start = call.end + 1 - ChunkBlocks)
  BY <1>1, <1>2, <1>4 DEF Locator!Max2
<1>6. CASE found # {}
  <2>1. PICK n : n = CHOOSE x \in found : TRUE
    OBVIOUS
  <2>2. n \in 1..Len(seals)
    <3>1. n \in found
      BY <1>6, <2>1
    <3>. QED
      BY <1>3, <1>4, <1>5, <3>1 DEF Locator!Matches, Locator!Latest
  <2>3. call' = [call EXCEPT !.pc = "receipt", !.match = <<n, forks[n]>>]
    BY <1>1, <1>3, <1>6, <2>1 DEF Locator!ScanNext
  <2>4. <<n, forks[n]>> \in Nat \X Nat
    <3>1. forks[n] \in Nat
      BY <2>2, ElementOfSeq DEF LocatorInv, LocatorTypeOK
    <3>. QED
      BY <2>2, <3>1
  <2>5. call' \in Calls /\ call'.pc = "receipt"
    BY <1>4, <2>3, <2>4 DEF Calls, Locator!Pcs
  <2>6. LocatorInv'
    <3>1. SearchCovers' /\ ReceiptStands' /\ cache' \in Seq(Remembers)
      BY <1>2, <2>5 DEF SearchCovers, ReceiptStands, LocatorInv, LocatorTypeOK
    <3>. QED
      BY <1>2, <2>5, <3>1, LocatorReads
  <2>. QED
    BY <2>5, <2>6 DEF TrueAnswer
<1>7. CASE found = {}
  <2>1. call' = [call EXCEPT !.end = start - 1, !.queries = @ + 1]
    BY <1>1, <1>3, <1>7 DEF Locator!ScanNext
  <2>2. start - 1 \in Nat /\ call.queries + 1 \in Nat
    BY <1>4, <1>5
  <2>3. call' \in Calls /\ call'.end = start - 1 /\ call'.queries = call.queries + 1 /\ call'.pc = "scan"
        /\ call'.proof = call.proof /\ call'.hint = call.hint /\ call'.lower = call.lower
        /\ call'.finalized = call.finalized
    BY <1>2, <1>4, <2>1, <2>2 DEF Calls
  <2>4. call'.steady = call.steady
    BY <1>4, <2>1 DEF Calls
  <2>5. call.finalized \in Nat /\ Len(seals) \in Nat
    BY <1>4 DEF Calls, LocatorInv, LocatorTypeOK
  <2>6. start - 1 + 1 - call.lower <= ChunkBlocks * (QueryBudget - (call.queries + 1))
    <3>1. call.end + 1 - call.lower <= ChunkBlocks * (QueryBudget - call.queries)
      BY <1>2 DEF LocatorInv, SearchCovers
    <3>2. PICK left \in Nat : left = QueryBudget - (call.queries + 1)
      BY <1>2, <1>4
    <3>3. ChunkBlocks * (QueryBudget - call.queries) = ChunkBlocks * left + ChunkBlocks
          /\ ChunkBlocks * left \in Nat
      <4>1. QueryBudget - call.queries = left + 1
        BY <1>4, <3>2
      <4>2. ChunkBlocks * (left + 1) = ChunkBlocks * left + ChunkBlocks /\ ChunkBlocks * left \in Nat
        BY <1>4
      <4>. QED
        BY <4>1, <4>2
    <3>4. PICK room \in Nat : room = ChunkBlocks * left
      BY <3>3
    <3>5. start - 1 + 1 - call.lower <= room
      BY <1>4, <1>5, <3>1, <3>3, <3>4
    <3>. QED
      BY <3>2, <3>4, <3>5
  <2>7. call.steady => \E n \in call.lower..(start - 1) : seals[n] = call.proof
    <3>1. SUFFICES ASSUME call.steady PROVE \E n \in call.lower..(start - 1) : seals[n] = call.proof
      OBVIOUS
    <3>2. PICK n \in call.lower..call.end : seals[n] = call.proof
      BY <1>2, <3>1 DEF LocatorInv, SearchCovers
    <3>3. n <= Len(seals) /\ n \in Nat
      BY <1>2, <1>4, <2>5 DEF LocatorInv, SearchCovers
    <3>4. ~(n \in start..call.end)
      BY <1>3, <1>7, <3>2, <3>3 DEF Locator!Matches, Locator!Latest
    <3>5. n \in call.lower..(start - 1)
      BY <1>4, <1>5, <3>2, <3>4
    <3>. QED
      BY <3>2, <3>5
  <2>8. SearchCovers'
    <3>1. call.proof # NoProof /\ call.hint = NoProof /\ call.end <= call.finalized /\ call.finalized <= Len(seals)
      BY <1>2 DEF LocatorInv, SearchCovers
    <3>2. call'.end <= call'.finalized /\ call'.queries <= QueryBudget
      <4>1. start - 1 <= call.end /\ call.queries + 1 <= QueryBudget
        BY <1>2, <1>4, <1>5
      <4>2. start - 1 <= call.finalized
        BY <1>4, <2>2, <2>5, <3>1, <4>1
      <4>. QED
        BY <2>3, <4>1, <4>2
    <3>3. call'.end + 1 - call'.lower <= ChunkBlocks * (QueryBudget - call'.queries)
      BY <2>3, <2>6
    <3>4. call'.steady => \E n \in call'.lower..call'.end : seals'[n] = call'.proof
      BY <1>2, <2>3, <2>4, <2>7
    <3>. QED
      BY <1>2, <1>4, <2>3, <3>1, <3>2, <3>3, <3>4 DEF SearchCovers
  <2>9. ReceiptStands' /\ cache' \in Seq(Remembers)
    BY <1>2, <2>3 DEF ReceiptStands, LocatorInv, LocatorTypeOK
  <2>10. LocatorInv'
    BY <1>2, <2>3, <2>8, <2>9, LocatorReads
  <2>. QED
    BY <2>3, <2>10 DEF TrueAnswer
<1>. QED
  BY <1>6, <1>7

LEMMA ScanEndsKeeps == LocatorInv /\ Locator!ScanEnds => LocatorInv' /\ TrueAnswer
<1>. SUFFICES ASSUME LocatorInv, Locator!ScanEnds PROVE LocatorInv' /\ TrueAnswer
  OBVIOUS
<1>1. PICK denial \in {"NOT_FOUND", "HINT_REQUIRED"} :
        cache' = Locator!Remembered(call.proof, denial) /\ Locator!End(denial)
  <2>1. PICK denial : denial = IF call.lower > FirstBlock THEN "HINT_REQUIRED" ELSE "NOT_FOUND"
    OBVIOUS
  <2>. QED
    BY <2>1 DEF Locator!ScanEnds
<1>2. /\ call.pc = "scan" /\ (call.end < call.lower \/ call.queries = QueryBudget)
      /\ UNCHANGED <<seals, forks, reorgs>>
  BY DEF Locator!ScanEnds, Locator!Reading
<1>3. cache' \in Seq(Remembers)
  BY <1>1, RememberedOK DEF LocatorInv, LocatorTypeOK, Calls
<1>4. LocatorInv' /\ call'.answer = denial
  BY <1>1, <1>2, <1>3, LocatorEnds DEF Locator!Answers
<1>5. call.end < call.lower
  <2>1. call.end \in Nat /\ call.lower \in Nat /\ QueryBudget \in Nat /\ ChunkBlocks \in Nat
    BY LocatorAssumption DEF LocatorInv, LocatorTypeOK, Calls
  <2>2. call.end + 1 - call.lower <= ChunkBlocks * (QueryBudget - call.queries)
    BY <1>2 DEF LocatorInv, SearchCovers
  <2>3. CASE call.queries = QueryBudget
    <3>1. ChunkBlocks * (QueryBudget - call.queries) = 0
      BY <2>1, <2>3
    <3>. QED
      BY <2>1, <2>2, <3>1
  <2>. QED
    BY <1>2, <2>3
<1>6. ~call.steady
  <2>1. call.steady => \E n \in call.lower..call.end : TRUE
    BY <1>2 DEF LocatorInv, SearchCovers
  <2>2. call.end \in Nat /\ call.lower \in Nat
    BY DEF LocatorInv, LocatorTypeOK, Calls
  <2>. QED
    BY <1>5, <2>1, <2>2
<1>. QED
  BY <1>1, <1>4, <1>6 DEF TrueAnswer

LEMMA GetReceiptKeeps == LocatorInv /\ Locator!GetReceipt => LocatorInv' /\ TrueAnswer
<1>. SUFFICES ASSUME LocatorInv, Locator!GetReceipt PROVE LocatorInv' /\ TrueAnswer
  OBVIOUS
<1>1. PICK tx : tx = IF call.hint = NoProof THEN call.proof ELSE call.hint
  OBVIOUS
<1>2. PICK n : n = CHOOSE x \in Locator!Where(tx) : TRUE
  OBVIOUS
<1>3. PICK match : match = IF call.hint = NoProof THEN call.match ELSE <<n, forks[n]>>
  OBVIOUS
<1>4. /\ call.pc = "receipt" /\ UNCHANGED <<cache, seals, forks, reorgs>>
  BY DEF Locator!GetReceipt, Locator!Reading
<1>5. cache' \in Seq(Remembers)
  BY <1>4 DEF LocatorInv, LocatorTypeOK
<1>6. IF Locator!Where(tx) = {} \/ tx # call.proof
      THEN Locator!End(IF call.hint = NoProof THEN "UNAVAILABLE" ELSE "NOT_FOUND")
      ELSE IF match[1] > call.finalized THEN Locator!End("UNAVAILABLE")
      ELSE IF match # <<n, forks[n]>> THEN Locator!End("MISMATCH")
      ELSE call' = [call EXCEPT !.pc = "block", !.match = match]
  BY <1>1, <1>2, <1>3 DEF Locator!GetReceipt
<1>7. ASSUME NEW answer \in {"UNAVAILABLE", "NOT_FOUND", "MISMATCH"}, Locator!End(answer),
             answer = "NOT_FOUND" => call.hint # NoProof
      PROVE  LocatorInv' /\ TrueAnswer
  <2>1. LocatorInv' /\ call'.answer = answer
    BY <1>4, <1>5, <1>7, LocatorEnds DEF Locator!Answers
  <2>. QED
    BY <1>7, <2>1 DEF TrueAnswer
<1>8. CASE Locator!Where(tx) = {} \/ tx # call.proof
  BY <1>6, <1>7, <1>8
<1>9. CASE ~(Locator!Where(tx) = {} \/ tx # call.proof) /\ (match[1] > call.finalized \/ match # <<n, forks[n]>>)
  BY <1>6, <1>7, <1>9
<1>10. CASE /\ ~(Locator!Where(tx) = {} \/ tx # call.proof)
            /\ ~(match[1] > call.finalized) /\ match = <<n, forks[n]>>
  <2>1. call' = [call EXCEPT !.pc = "block", !.match = <<n, forks[n]>>]
    BY <1>6, <1>10
  <2>2. n \in 1..Len(seals) /\ seals[n] = call.proof
    <3>1. n \in Locator!Where(tx)
      BY <1>2, <1>10
    <3>. QED
      BY <1>10, <3>1 DEF Locator!Where, Locator!Latest
  <2>3. Len(forks) = Len(seals) /\ Len(seals) \in Nat /\ call \in Calls /\ call.finalized \in Nat
    BY DEF LocatorInv, LocatorTypeOK, Calls
  <2>4. forks[n] \in Nat /\ forks[n] <= reorgs
    BY <2>2, <2>3, ElementOfSeq DEF LocatorInv, LocatorTypeOK, OneSealEach
  <2>5. call' \in Calls /\ call'.pc = "block" /\ call'.match = <<n, forks[n]>> /\ call'.proof = call.proof
        /\ call'.finalized = call.finalized
    <3>1. <<n, forks[n]>> \in Nat \X Nat
      BY <2>2, <2>4
    <3>. QED
      BY <2>1, <2>3, <3>1 DEF Calls, Locator!Pcs
  <2>6. n <= call.finalized
    BY <1>10, <2>2, <2>3
  <2>7. ReceiptStands'
    BY <1>4, <2>2, <2>4, <2>5, <2>6 DEF ReceiptStands
  <2>8. SearchCovers'
    BY <2>5 DEF SearchCovers
  <2>9. LocatorInv'
    BY <1>4, <1>5, <2>5, <2>7, <2>8, LocatorReads
  <2>. QED
    BY <2>5, <2>9 DEF TrueAnswer
<1>. QED
  BY <1>8, <1>9, <1>10

LEMMA GetBlockKeeps == LocatorInv /\ (Locator!GetBlock \/ Locator!ReadFails) => LocatorInv' /\ TrueAnswer
<1>. SUFFICES ASSUME LocatorInv, Locator!GetBlock \/ Locator!ReadFails PROVE LocatorInv' /\ TrueAnswer
  OBVIOUS
<1>1. UNCHANGED <<cache, seals, forks, reorgs>> /\ cache' \in Seq(Remembers)
  BY DEF Locator!GetBlock, Locator!ReadFails, Locator!Reading, LocatorInv, LocatorTypeOK
<1>2. PICK answer \in {"UNAVAILABLE", "MISMATCH", "FOUND"} :
        /\ Locator!End(answer)
        /\ answer = "FOUND" => /\ call.pc = "block" /\ ~(call.match[1] > Len(seals))
                              /\ forks[call.match[1]] = call.match[2]
  BY DEF Locator!GetBlock, Locator!ReadFails, Locator!Latest
<1>3. LocatorInv' /\ call'.answer = answer
  BY <1>1, <1>2, LocatorEnds DEF Locator!Answers
<1>4. answer = "FOUND" => /\ call.match[1] <= call.finalized /\ call.match[1] <= Len(seals)
                         /\ seals[call.match[1]] = call.proof
  BY <1>2 DEF LocatorInv, ReceiptStands
<1>. QED
  BY <1>2, <1>3, <1>4 DEF TrueAnswer

LEMMA NewBlockKeeps ==
    ASSUME LocatorInv, NEW p \in Sealable, Locator!NewBlock(p)
    PROVE  LocatorInv' /\ UNCHANGED call
<1>1. /\ seals' = Append(seals, p) /\ forks' = Append(forks, reorgs) /\ UNCHANGED <<call, cache, reorgs>>
      /\ p # NoProof => Locator!Where(p) = {}
  BY DEF Locator!NewBlock
<1>2. /\ seals \in Seq(Sealable) /\ forks \in Seq(Nat) /\ Len(forks) = Len(seals) /\ reorgs \in Nat
      /\ Len(seals) \in Nat
  BY DEF LocatorInv, LocatorTypeOK
<1>3. /\ seals' \in Seq(Sealable) /\ Len(seals') = Len(seals) + 1 /\ seals'[Len(seals) + 1] = p
      /\ \A i \in 1..Len(seals) : seals'[i] = seals[i]
  BY <1>1, <1>2, AppendProperties
<1>4. /\ forks' \in Seq(Nat) /\ Len(forks') = Len(seals') /\ forks'[Len(seals) + 1] = reorgs
      /\ \A i \in 1..Len(seals) : forks'[i] = forks[i]
  BY <1>1, <1>2, <1>3, AppendProperties
<1>5. \A i \in 1..Len(seals') : i \in 1..Len(seals) \/ i = Len(seals) + 1
  BY <1>2, <1>3
<1>6. LocatorTypeOK'
  BY <1>1, <1>3, <1>4 DEF LocatorInv, LocatorTypeOK
<1>7. OneSealEach'
  <2>1. \A m, n \in 1..Len(seals) : m # n /\ seals[m] = seals[n] => seals[m] = NoProof
    BY DEF LocatorInv, OneSealEach
  <2>2. p # NoProof => \A i \in 1..Len(seals) : seals[i] # p
    BY <1>1 DEF Locator!Where, Locator!Latest
  <2>3. \A m, n \in 1..Len(seals') : m # n /\ seals'[m] = seals'[n] => seals'[m] = NoProof
    BY <1>3, <1>5, <2>1, <2>2
  <2>4. \A i \in 1..Len(forks') : forks'[i] <= reorgs'
    BY <1>1, <1>2, <1>4, <1>5 DEF LocatorInv, OneSealEach
  <2>. QED
    BY <2>3, <2>4 DEF OneSealEach
<1>8. SearchCovers'
  <2>1. CASE call.pc # "scan"
    BY <1>1, <2>1 DEF LocatorInv, SearchCovers
  <2>2. CASE call.pc = "scan"
    <3>1. call.lower \in Nat /\ call.end \in Nat /\ call.finalized \in Nat
      BY DEF LocatorInv, LocatorTypeOK, Calls
    <3>2. /\ 1 <= call.lower /\ call.end <= call.finalized /\ call.finalized <= Len(seals)
          /\ call.steady => \E n \in call.lower..call.end : seals[n] = call.proof
      BY <2>2 DEF LocatorInv, SearchCovers
    <3>3. call.finalized <= Len(seals')
      BY <1>2, <1>3, <3>1, <3>2
    <3>4. \A n \in call.lower..call.end : seals'[n] = seals[n]
      BY <1>2, <1>3, <3>1, <3>2
    <3>. QED
      BY <1>1, <2>2, <3>2, <3>3, <3>4 DEF LocatorInv, SearchCovers
  <2>. QED
    BY <2>1, <2>2
<1>9. ReceiptStands'
  BY <1>1, <1>2, <1>3, <1>4 DEF LocatorInv, ReceiptStands
<1>. QED
  BY <1>1, <1>6, <1>7, <1>8, <1>9 DEF LocatorInv

LEMMA ReorgKeeps ==
    ASSUME LocatorInv, NEW n \in 1..Len(seals), NEW contents \in [n..Len(seals) -> Sealable],
           Locator!Reorg(n, contents)
    PROVE  LocatorInv' /\ call'.pc = call.pc
<1>1. /\ reorgs' = reorgs + 1 /\ UNCHANGED cache
      /\ seals' = [m \in 1..Len(seals) |-> IF m < n THEN seals[m] ELSE contents[m]]
      /\ forks' = [m \in 1..Len(seals) |-> IF m < n THEN forks[m] ELSE reorgs + 1]
      /\ \A i, j \in 1..Len(seals) : i # j /\ seals'[i] = seals'[j] => seals'[i] = NoProof
      /\ call' = [call EXCEPT !.steady = @ /\ \E m \in call.lower..call.finalized :
                                                  m < n /\ seals[m] = call.proof]
  BY DEF Locator!Reorg, Locator!Latest
<1>2. /\ seals \in Seq(Sealable) /\ forks \in Seq(Nat) /\ Len(forks) = Len(seals) /\ reorgs \in Nat
      /\ Len(seals) \in Nat /\ call \in Calls
  BY DEF LocatorInv, LocatorTypeOK
<1>3. seals' \in Seq(Sealable) /\ Len(seals') = Len(seals)
  <2>1. \A m \in 1..Len(seals) : (IF m < n THEN seals[m] ELSE contents[m]) \in Sealable
    <3>1. \A m \in 1..Len(seals) : seals[m] \in Sealable
      BY <1>2, ElementOfSeq
    <3>2. \A m \in 1..Len(seals) : ~(m < n) => contents[m] \in Sealable
      BY <1>2
    <3>. QED
      BY <3>1, <3>2
  <2>. QED
    BY <1>1, <1>2, <2>1
<1>4. forks' \in Seq(Nat) /\ Len(forks') = Len(seals)
  <2>1. \A m \in 1..Len(seals) : (IF m < n THEN forks[m] ELSE reorgs + 1) \in Nat
    BY <1>2, ElementOfSeq
  <2>. QED
    BY <1>1, <1>2, <2>1
<1>5. /\ call' \in Calls /\ call'.pc = call.pc /\ call'.proof = call.proof /\ call'.hint = call.hint
      /\ call'.lower = call.lower /\ call'.end = call.end /\ call'.finalized = call.finalized
      /\ call'.queries = call.queries /\ call'.match = call.match
  BY <1>1, <1>2 DEF Calls
<1>6. call'.steady => call.steady /\ \E m \in call.lower..call.finalized : m < n /\ seals[m] = call.proof
  BY <1>1, <1>2 DEF Calls
<1>7. LocatorTypeOK'
  BY <1>1, <1>2, <1>3, <1>4, <1>5 DEF LocatorInv, LocatorTypeOK
<1>8. OneSealEach'
  <2>1. \A m \in 1..Len(forks) : forks[m] <= reorgs /\ forks[m] \in Nat
    BY <1>2, ElementOfSeq DEF LocatorInv, OneSealEach
  <2>2. \A m \in 1..Len(forks') : forks'[m] <= reorgs'
    BY <1>1, <1>2, <1>4, <2>1
  <2>. QED
    BY <1>1, <1>3, <2>2 DEF OneSealEach
<1>9. SearchCovers'
  <2>1. CASE call.pc # "scan"
    BY <1>5, <1>6, <2>1 DEF LocatorInv, SearchCovers
  <2>2. CASE call.pc = "scan"
    <3>1. call.lower \in Nat /\ call.end \in Nat /\ call.finalized \in Nat
      BY <1>2 DEF Calls
    <3>2. /\ 1 <= call.lower /\ call.end <= call.finalized /\ call.finalized <= Len(seals)
          /\ call.proof # NoProof
          /\ call.steady => \E m \in call.lower..call.end : seals[m] = call.proof
      BY <2>2 DEF LocatorInv, SearchCovers
    <3>3. ASSUME call'.steady PROVE \E m \in call.lower..call.end : seals'[m] = call.proof
      <4>1. PICK m \in call.lower..call.finalized : m < n /\ seals[m] = call.proof
        BY <1>6, <3>3
      <4>2. PICK k \in call.lower..call.end : seals[k] = call.proof
        BY <1>6, <3>2, <3>3
      <4>3. m \in 1..Len(seals) /\ k \in 1..Len(seals)
        BY <1>2, <3>1, <3>2
      <4>4. m = k
        BY <3>2, <4>1, <4>2, <4>3 DEF LocatorInv, OneSealEach
      <4>5. seals'[k] = seals[k]
        BY <1>1, <4>1, <4>3, <4>4
      <4>. QED
        BY <4>2, <4>5
    <3>. QED
      BY <1>3, <1>5, <2>2, <3>3 DEF LocatorInv, SearchCovers
  <2>. QED
    BY <2>1, <2>2
<1>10. ReceiptStands'
  <2>1. SUFFICES ASSUME call.pc = "block" PROVE ReceiptStands'
    BY <1>5 DEF ReceiptStands
  <2>2. PICK k : k = call.match[1]
    OBVIOUS
  <2>3. /\ k \in 1..Len(seals) /\ k <= call.finalized /\ call.match[2] <= reorgs
        /\ forks[k] = call.match[2] => seals[k] = call.proof
    BY <2>1, <2>2 DEF LocatorInv, ReceiptStands
  <2>4. call.match[2] \in Nat
    BY <1>2 DEF Calls
  <2>5. forks'[k] = call.match[2] => seals'[k] = call.proof
    <3>1. CASE k < n
      BY <1>1, <2>3, <3>1
    <3>2. CASE ~(k < n)
      BY <1>1, <1>2, <2>3, <2>4, <3>2
    <3>. QED
      BY <3>1, <3>2
  <2>6. call.match[2] <= reorgs'
    BY <1>1, <1>2, <2>3, <2>4
  <2>. QED
    BY <1>3, <1>5, <2>2, <2>3, <2>5, <2>6 DEF ReceiptStands
<1>. QED
  BY <1>5, <1>7, <1>8, <1>9, <1>10 DEF LocatorInv

LEMMA TickKeeps == LocatorInv /\ Locator!Tick => LocatorInv' /\ UNCHANGED call
<1>. SUFFICES ASSUME LocatorInv, Locator!Tick PROVE LocatorInv' /\ UNCHANGED call
  OBVIOUS
<1>1. /\ UNCHANGED <<call, seals, forks, reorgs>>
      /\ cache' = [i \in DOMAIN cache |-> [cache[i] EXCEPT !.left = IF @ = 0 THEN 0 ELSE @ - 1]]
  BY DEF Locator!Tick, Locator!Reading
<1>2. cache' \in Seq(Remembers)
  <2>1. DOMAIN cache = 1..Len(cache) /\ Len(cache) \in Nat /\ cache \in Seq(Remembers)
    BY DEF LocatorInv, LocatorTypeOK
  <2>2. \A i \in 1..Len(cache) : [cache[i] EXCEPT !.left = IF @ = 0 THEN 0 ELSE @ - 1] \in Remembers
    <3>1. \A i \in 1..Len(cache) : cache[i] \in Remembers
      BY <2>1, ElementOfSeq
    <3>. QED
      BY <3>1 DEF Remembers
  <2>. QED
    BY <1>1, <2>1, <2>2
<1>3. call' \in Calls /\ SearchCovers' /\ ReceiptStands'
  BY <1>1 DEF LocatorInv, LocatorTypeOK, SearchCovers, ReceiptStands
<1>. QED
  BY <1>1, <1>2, <1>3, LocatorReads

LEMMA LocatorStepKeeps == LocatorInv /\ [Locator!Next]_locatorVars => LocatorInv' /\ TrueAnswer
<1>. SUFFICES ASSUME LocatorInv, [Locator!Next]_locatorVars PROVE LocatorInv' /\ TrueAnswer
  OBVIOUS
<1>1. CASE Locator!CallStep
  BY <1>1, LocateKeeps, ScanNextKeeps, ScanEndsKeeps, GetReceiptKeeps, GetBlockKeeps
     DEF Locator!CallStep, Sealable
<1>2. CASE Locator!Network
  <2>1. LocatorInv' /\ call'.pc = call.pc
    BY <1>2, NewBlockKeeps, ReorgKeeps DEF Locator!Network, Locator!Latest, Sealable
  <2>. QED
    BY <2>1 DEF TrueAnswer
<1>3. CASE Locator!Tick
  BY <1>3, TickKeeps DEF TrueAnswer
<1>4. CASE UNCHANGED locatorVars
  <2>1. UNCHANGED <<seals, forks, reorgs, call>> /\ call' \in Calls /\ cache' \in Seq(Remembers)
    BY <1>4 DEF locatorVars, LocatorInv, LocatorTypeOK
  <2>2. SearchCovers' /\ ReceiptStands'
    BY <2>1 DEF LocatorInv, SearchCovers, ReceiptStands
  <2>. QED
    BY <2>1, <2>2, LocatorReads DEF TrueAnswer
<1>. QED
  BY <1>1, <1>2, <1>3, <1>4 DEF Locator!Next

LEMMA ReadsStepOfLocator ==
    [ReadsNext]_<<part, chainVars, locatorVars, discoverVars, sealedVars,
                  subjectVars, riskVars, fetchVars>> => [Locator!Next]_locatorVars
  BY DEF ReadsNext, AccessStep, LocatorStep, DiscoverStep, SealedStep, SubjectStep, RiskStep, FetchStep

\* Whatever the chain does between the reads of the locator, a proof that it found is in
\* a finalized block of the chain it just looked at, and a proof that it denies after a
\* search did not stand unmoved in the blocks it searched (read-api.ts:383-467).
THEOREM LocatorAnswersTruly == ReadsSpec => AnswersTruly
<1>1. ReadsInit => LocatorInv
  BY LocatorRestsWell DEF ReadsInit
<1>2. LocatorInv /\ [ReadsNext]_<<part, chainVars, locatorVars, discoverVars, sealedVars,
                                  subjectVars, riskVars, fetchVars>> => LocatorInv'
  BY ReadsStepOfLocator, LocatorStepKeeps
<1>3. LocatorInv /\ [ReadsNext]_<<part, chainVars, locatorVars, discoverVars, sealedVars,
                                  subjectVars, riskVars, fetchVars>> => [TrueAnswer]_Locator!vars
  BY ReadsStepOfLocator, LocatorStepKeeps
<1>4. AnswersTruly <=> [][TrueAnswer]_Locator!vars
  BY DEF AnswersTruly, Locator!AnswersTruly, TrueAnswer, Locator!Latest
<1>. QED
  BY <1>1, <1>2, <1>3, <1>4, PTL DEF ReadsSpec

-----------------------------------------------------------------------------
(* The subject at its block.                                                *)

Reporting  == {"report", "refused", "sealable"}
Inspecting == {"inspect"} \cup Reporting
Classified == {"classified", "recheck"} \cup Inspecting

SubjectShape ==
    /\ sourced \in BOOLEAN /\ swapped \in BOOLEAN /\ options \in [metadata : BOOLEAN, source : BOOLEAN]
    /\ resolved = [wallet |-> resolved.wallet, cardVerified |-> resolved.cardVerified]
    /\ classified = [address |-> classified.address, kind |-> classified.kind, code |-> classified.code,
                     delegation |-> classified.delegation]
    /\ account = [r \in Subject!AccountReads |-> account[r]]
    /\ walk = [at |-> walk.at, kind |-> walk.kind, beacon |-> walk.beacon, beaconCode |-> walk.beaconCode,
               implementation |-> walk.implementation, code |-> walk.code,
               confirmed |-> walk.confirmed, source |-> walk.source]

\* The chain is replaced once, and a report comes out only where its block stands.
SourceHolds ==
    /\ sourced => swapped
    /\ stop = "block" => ~sourced
    /\ stop \in Reporting => sourced = swapped
    /\ stop \notin Inspecting \cup {"failed"} => account = Subject!NoAccount /\ walk = Subject!NoWalk
    /\ stop \in Inspecting /\ classified.kind = "EOA" => walk = Subject!NoWalk

OfIdentity(c) ==
    /\ stop \notin {"block", "owner"} => c.minted
    /\ stop \notin {"block", "owner", "wallet"} => resolved.wallet = c.wallet

OfSubject(c) ==
    /\ stop \in Classified \cup {"delegation"} =>
         /\ classified.address = c.wallet /\ classified.code = c.code[c.wallet]
         /\ classified.kind = Subject!KindOf(classified.code)
    /\ stop = "delegation" => Subject!Delegated
    /\ stop \in Classified /\ Subject!Delegated => classified.delegation = c.code[classified.code.to]

OfAccount(c) ==
    /\ \A r \in Subject!AccountReads : account[r] # Subject!NotRead =>
         account[r] \in {c.nonce[c.wallet]} \cup (IF r = "history" THEN {Subject!Unknown} ELSE {})
    /\ stop \in Reporting => Subject!AccountDone /\ Subject!WalkDone

\* What the walk has read so far decides what is behind the address.
OfWalk(c) ==
    LET at == Subject!Inspected  held == Subject!InspectedCode
        proxy == Subject!ProxyOf(c, at, held)
    IN stop \in Inspecting /\ classified.kind # "EOA" =>
         /\ walk.at \in {"detect", "beacon", "beaconCode", "call", "code", "bind", "source", "done"}
         /\ walk.at \in {"detect", "beacon"} =>
              /\ walk.kind = "none" /\ walk.implementation = ZeroAddress /\ walk.beacon = ZeroAddress
              /\ walk.code = Subject!Missing
         /\ walk.at \in {"beacon", "beaconCode", "call"} =>
              held.form # "minimal" /\ c.slot[at] = ZeroAddress
         /\ walk.at \in {"beaconCode", "call"} =>
              /\ walk.kind = "EIP1967_BEACON" /\ walk.beacon = c.beaconSlot[at]
              /\ walk.beacon # ZeroAddress
         /\ walk.at = "code" => proxy = <<walk.kind, walk.implementation, c.code[walk.implementation]>>
         /\ walk.at \in {"bind", "source", "done"} =>
              proxy = <<walk.kind, walk.implementation, walk.code>>
         /\ walk.at \notin {"detect", "beacon", "beaconCode"} /\ walk.beacon # ZeroAddress =>
              walk.beacon = c.beaconSlot[at] /\ walk.beaconCode = c.code[walk.beacon]
         /\ walk.at \in {"source", "done"} =>
              /\ walk.kind = "EIP1167_MINIMAL" => walk.confirmed
              /\ options.metadata /\ walk.kind # "none" => walk.confirmed

Describes(c) == OfIdentity(c) /\ OfSubject(c) /\ OfAccount(c) /\ OfWalk(c)

SubjectInv ==
    /\ SubjectShape /\ SourceHolds
    /\ stop # "failed" /\ sourced = swapped => Describes(Subject!Shown)

LEMMA SubjectStarts == Subject!Init => SubjectInv
<1>. SUFFICES ASSUME Subject!Init PROVE SubjectInv
  OBVIOUS
<1>1. /\ stop = "block" /\ sourced = FALSE /\ swapped = FALSE /\ resolved = Subject!NoIdentity
      /\ classified = Subject!NoSubject /\ account = Subject!NoAccount /\ walk = Subject!NoWalk
      /\ options \in [metadata : BOOLEAN, source : BOOLEAN]
  BY DEF Subject!Init
<1>2. SubjectShape
  BY <1>1 DEF SubjectShape, Subject!NoIdentity, Subject!NoSubject, Subject!NoAccount, Subject!NoWalk
<1>3. SourceHolds
  BY <1>1 DEF SourceHolds, Reporting, Inspecting
<1>4. Describes(Subject!Shown)
  BY <1>1 DEF Describes, OfIdentity, OfSubject, OfAccount, OfWalk, Reporting, Inspecting, Classified,
     Subject!NoAccount
<1>. QED
  BY <1>2, <1>3, <1>4 DEF SubjectInv

SubjectWorld == <<source, forked, swapped, options>>

\* A step that fails leaves nothing to describe.
LEMMA SubjectFails ==
    ASSUME SubjectInv, stop # "block", stop' = "failed", SubjectShape', UNCHANGED <<sourced, swapped>>
    PROVE  SubjectInv'
  BY DEF SubjectInv, SourceHolds, Reporting, Inspecting

\* The steps of the walk.
LEMMA WalkStepKeeps ==
    ASSUME SubjectInv, stop = "inspect", UNCHANGED <<SubjectWorld, sourced, resolved, classified, account>>,
           SubjectShape', stop' \in {"inspect", "failed"}, walk.at # "rest",
           stop' = "inspect" /\ OfWalk(Subject!Shown) => OfWalk(Subject!Shown)'
    PROVE  SubjectInv'
<1>1. CASE stop' = "failed"
  BY <1>1, SubjectFails DEF SubjectWorld
<1>2. CASE stop' = "inspect"
  <2>1. classified.kind # "EOA"
    BY DEF SubjectInv, SourceHolds, Inspecting, Subject!NoWalk
  <2>2. SourceHolds'
    BY <1>2, <2>1 DEF SubjectInv, SourceHolds, SubjectWorld, Reporting, Inspecting
  <2>3. ASSUME sourced' = swapped' PROVE Describes(Subject!Shown)'
    <3>1. Describes(Subject!Shown)
      BY <2>3 DEF SubjectInv, SubjectWorld
    <3>2. OfIdentity(Subject!Shown)' /\ OfSubject(Subject!Shown)' /\ OfAccount(Subject!Shown)'
      BY <1>2, <3>1 DEF Describes, OfIdentity, OfSubject, OfAccount, SubjectWorld, Subject!Shown,
         Subject!Delegated, Reporting
    <3>. QED
      BY <1>2, <3>1, <3>2 DEF Describes
  <2>. QED
    BY <2>2, <2>3 DEF SubjectInv
<1>. QED
  BY <1>1, <1>2

LEMMA WalkKeeps == SubjectInv /\ Subject!InspectContract => SubjectInv'
<1>. SUFFICES ASSUME SubjectInv, Subject!InspectContract PROVE SubjectInv'
  OBVIOUS
<1>. DEFINE Elsewhere == UNCHANGED <<SubjectWorld, sourced, resolved, classified, account>>
            Steps(ok, next) == walk' = next /\ stop' = IF ok THEN stop ELSE "failed"
<1>. PICK at : at = Subject!Inspected
  OBVIOUS
<1>. PICK held : held = Subject!InspectedCode
  OBVIOUS
<1>0. SubjectShape
  BY DEF SubjectInv
<1>k. ASSUME NEW ok, NEW next, Elsewhere, stop = "inspect", walk.at # "rest", Steps(ok, next),
             next = [at |-> next.at, kind |-> next.kind, beacon |-> next.beacon,
                     beaconCode |-> next.beaconCode, implementation |-> next.implementation,
                     code |-> next.code, confirmed |-> next.confirmed, source |-> next.source],
             ok /\ OfWalk(Subject!Shown) => OfWalk(Subject!Shown)'
      PROVE  SubjectInv'
  <2>1. SubjectShape'
    BY <1>0, <1>k DEF SubjectShape, SubjectWorld
  <2>. QED
    BY <1>k, <2>1, WalkStepKeeps
<1>u. Elsewhere => UNCHANGED <<Subject!Inspected, Subject!InspectedCode, Subject!Shown>>
  BY DEF SubjectWorld, Subject!Inspected, Subject!InspectedCode, Subject!Shown, Subject!Delegated
<1>w. ASSUME Elsewhere, stop = "inspect", stop' = "inspect"
      PROVE  UNCHANGED <<Subject!Inspected, Subject!InspectedCode, Subject!Shown, classified, options, stop>>
  BY <1>u, <1>w DEF SubjectWorld
<1>1. CASE Subject!DetectMinimalProxy
  <2>1. Elsewhere /\ stop = "inspect" /\ walk.at = "detect" /\ Subject!InspectedCode.form = "minimal"
    BY <1>1 DEF Subject!DetectMinimalProxy, Subject!Walks, Subject!At, Subject!World, SubjectWorld
  <2>2. PICK next : next = [walk EXCEPT !.at = "code", !.kind = "EIP1167_MINIMAL",
                                        !.implementation = Subject!InspectedCode.to]
    OBVIOUS
  <2>3. /\ next = [at |-> "code", kind |-> "EIP1167_MINIMAL", beacon |-> walk.beacon,
                   beaconCode |-> walk.beaconCode, implementation |-> Subject!InspectedCode.to,
                   code |-> walk.code, confirmed |-> walk.confirmed, source |-> walk.source]
    BY <1>0, <2>2 DEF SubjectShape
  <2>4. PICK ok : ok = Subject!Target(Subject!InspectedCode.to)
    OBVIOUS
  <2>5. Steps(ok, next)
    BY <1>1, <2>2, <2>4 DEF Subject!DetectMinimalProxy, Subject!StepWalk
  <2>6. ASSUME ok, OfWalk(Subject!Shown) PROVE OfWalk(Subject!Shown)'
    <3>1. stop' = "inspect" /\ walk' = next
      BY <2>1, <2>5, <2>6
    <3>. QED
      BY <1>w, <2>1, <2>3, <2>6, <3>1 DEF OfWalk, Subject!ProxyOf, Inspecting
  <2>. QED
    BY <1>k, <2>1, <2>3, <2>5, <2>6
<1>2. CASE Subject!ReadImplementationSlot
  <2>1. Elsewhere /\ stop = "inspect" /\ walk.at = "detect" /\ Subject!InspectedCode.form # "minimal"
    BY <1>2 DEF Subject!ReadImplementationSlot, Subject!Walks, Subject!At, Subject!World, SubjectWorld
  <2>2. CASE Subject!Shown.slot[Subject!Inspected] = ZeroAddress
    <3>1. PICK next : next = [walk EXCEPT !.at = "beacon"]
      OBVIOUS
    <3>2. next = [at |-> "beacon", kind |-> walk.kind, beacon |-> walk.beacon, beaconCode |-> walk.beaconCode, implementation |-> walk.implementation, code |-> walk.code, confirmed |-> walk.confirmed, source |-> walk.source]
      BY <1>0, <3>1 DEF SubjectShape
    <3>3. PICK ok : ok = (TRUE)
      OBVIOUS
    <3>4. Steps(ok, next)
      BY <1>2, <2>2, <3>1, <3>3 DEF Subject!ReadImplementationSlot, Subject!StepWalk
    <3>5. ASSUME ok, OfWalk(Subject!Shown) PROVE OfWalk(Subject!Shown)'
      <4>1. stop' = "inspect" /\ walk' = next
        BY <2>1, <3>4, <3>5
      <4>. QED
        BY <1>w, <2>1, <2>2, <3>2, <3>3, <3>5, <4>1 DEF OfWalk, Subject!ProxyOf, Subject!Target, Inspecting
    <3>. QED
      BY <1>k, <2>1, <3>2, <3>4, <3>5
  <2>3. CASE Subject!Shown.slot[Subject!Inspected] # ZeroAddress
    <3>1. PICK next : next = [walk EXCEPT !.at = "code", !.kind = "EIP1967_IMPLEMENTATION", !.implementation = Subject!Shown.slot[Subject!Inspected]]
      OBVIOUS
    <3>2. next = [at |-> "code", kind |-> "EIP1967_IMPLEMENTATION", beacon |-> walk.beacon, beaconCode |-> walk.beaconCode, implementation |-> Subject!Shown.slot[Subject!Inspected], code |-> walk.code, confirmed |-> walk.confirmed, source |-> walk.source]
      BY <1>0, <3>1 DEF SubjectShape
    <3>3. PICK ok : ok = (Subject!Target(Subject!Shown.slot[Subject!Inspected]))
      OBVIOUS
    <3>4. Steps(ok, next)
      BY <1>2, <2>3, <3>1, <3>3 DEF Subject!ReadImplementationSlot, Subject!StepWalk
    <3>5. ASSUME ok, OfWalk(Subject!Shown) PROVE OfWalk(Subject!Shown)'
      <4>1. stop' = "inspect" /\ walk' = next
        BY <2>1, <3>4, <3>5
      <4>. QED
        BY <1>w, <2>1, <2>3, <3>2, <3>3, <3>5, <4>1 DEF OfWalk, Subject!ProxyOf, Subject!Target, Inspecting
    <3>. QED
      BY <1>k, <2>1, <3>2, <3>4, <3>5
  <2>. QED
    BY <2>2, <2>3
<1>3. CASE Subject!ReadBeaconSlot
  <2>1. Elsewhere /\ stop = "inspect" /\ walk.at = "beacon"
    BY <1>3 DEF Subject!ReadBeaconSlot, Subject!Walks, Subject!At, Subject!World, SubjectWorld
  <2>2. CASE Subject!Shown.beaconSlot[Subject!Inspected] = ZeroAddress
    <3>1. PICK next : next = [walk EXCEPT !.at = "source"]
      OBVIOUS
    <3>2. next = [at |-> "source", kind |-> walk.kind, beacon |-> walk.beacon, beaconCode |-> walk.beaconCode, implementation |-> walk.implementation, code |-> walk.code, confirmed |-> walk.confirmed, source |-> walk.source]
      BY <1>0, <3>1 DEF SubjectShape
    <3>3. PICK ok : ok = (TRUE)
      OBVIOUS
    <3>4. Steps(ok, next)
      BY <1>3, <2>2, <3>1, <3>3 DEF Subject!ReadBeaconSlot, Subject!StepWalk
    <3>5. ASSUME ok, OfWalk(Subject!Shown) PROVE OfWalk(Subject!Shown)'
      <4>1. stop' = "inspect" /\ walk' = next
        BY <2>1, <3>4, <3>5
      <4>. QED
        BY <1>w, <2>1, <2>2, <3>2, <3>3, <3>5, <4>1 DEF OfWalk, Subject!ProxyOf, Subject!Target, Inspecting
    <3>. QED
      BY <1>k, <2>1, <3>2, <3>4, <3>5
  <2>3. CASE Subject!Shown.beaconSlot[Subject!Inspected] # ZeroAddress
    <3>1. PICK next : next = [walk EXCEPT !.at = "beaconCode", !.kind = "EIP1967_BEACON", !.beacon = Subject!Shown.beaconSlot[Subject!Inspected]]
      OBVIOUS
    <3>2. next = [at |-> "beaconCode", kind |-> "EIP1967_BEACON", beacon |-> Subject!Shown.beaconSlot[Subject!Inspected], beaconCode |-> walk.beaconCode, implementation |-> walk.implementation, code |-> walk.code, confirmed |-> walk.confirmed, source |-> walk.source]
      BY <1>0, <3>1 DEF SubjectShape
    <3>3. PICK ok : ok = (Subject!Target(Subject!Shown.beaconSlot[Subject!Inspected]))
      OBVIOUS
    <3>4. Steps(ok, next)
      BY <1>3, <2>3, <3>1, <3>3 DEF Subject!ReadBeaconSlot, Subject!StepWalk
    <3>5. ASSUME ok, OfWalk(Subject!Shown) PROVE OfWalk(Subject!Shown)'
      <4>1. stop' = "inspect" /\ walk' = next
        BY <2>1, <3>4, <3>5
      <4>. QED
        BY <1>w, <2>1, <2>3, <3>2, <3>3, <3>5, <4>1 DEF OfWalk, Subject!ProxyOf, Subject!Target, Inspecting
    <3>. QED
      BY <1>k, <2>1, <3>2, <3>4, <3>5
  <2>. QED
    BY <2>2, <2>3
<1>4. CASE Subject!ReadBeaconCode
  <2>1. Elsewhere /\ stop = "inspect" /\ walk.at = "beaconCode"
    BY <1>4 DEF Subject!ReadBeaconCode, Subject!Walks, Subject!At, Subject!World, SubjectWorld
  <2>2. PICK next : next = [walk EXCEPT !.at = "call", !.beaconCode = Subject!Shown.code[walk.beacon]]
    OBVIOUS
  <2>3. next = [at |-> "call", kind |-> walk.kind, beacon |-> walk.beacon, beaconCode |-> Subject!Shown.code[walk.beacon], implementation |-> walk.implementation, code |-> walk.code, confirmed |-> walk.confirmed, source |-> walk.source]
    BY <1>0, <2>2 DEF SubjectShape
  <2>4. PICK ok : ok = (Subject!Shown.code[walk.beacon] # Subject!Missing)
    OBVIOUS
  <2>5. Steps(ok, next)
    BY <1>4, <2>2, <2>4 DEF Subject!ReadBeaconCode, Subject!StepWalk
  <2>6. ASSUME ok, OfWalk(Subject!Shown) PROVE OfWalk(Subject!Shown)'
    <3>1. stop' = "inspect" /\ walk' = next
      BY <2>1, <2>5, <2>6
    <3>. QED
      BY <1>w, <2>1, <2>3, <2>4, <2>6, <3>1 DEF OfWalk, Subject!ProxyOf, Subject!Target, Inspecting
  <2>. QED
    BY <1>k, <2>1, <2>3, <2>5, <2>6
<1>5. CASE Subject!CallBeacon
  <2>1. Elsewhere /\ stop = "inspect" /\ walk.at = "call"
    BY <1>5 DEF Subject!CallBeacon, Subject!Walks, Subject!At, Subject!World, SubjectWorld
  <2>2. PICK next : next = [walk EXCEPT !.at = "code", !.implementation = Subject!Shown.answer[walk.beacon]]
    OBVIOUS
  <2>3. next = [at |-> "code", kind |-> walk.kind, beacon |-> walk.beacon, beaconCode |-> walk.beaconCode, implementation |-> Subject!Shown.answer[walk.beacon], code |-> walk.code, confirmed |-> walk.confirmed, source |-> walk.source]
    BY <1>0, <2>2 DEF SubjectShape
  <2>4. PICK ok : ok = (Subject!Target(Subject!Shown.answer[walk.beacon]) /\ Subject!Shown.answer[walk.beacon] # walk.beacon)
    OBVIOUS
  <2>5. Steps(ok, next)
    BY <1>5, <2>2, <2>4 DEF Subject!CallBeacon, Subject!StepWalk
  <2>6. ASSUME ok, OfWalk(Subject!Shown) PROVE OfWalk(Subject!Shown)'
    <3>1. stop' = "inspect" /\ walk' = next
      BY <2>1, <2>5, <2>6
    <3>. QED
      BY <1>w, <2>1, <2>3, <2>4, <2>6, <3>1 DEF OfWalk, Subject!ProxyOf, Subject!Target, Inspecting
  <2>. QED
    BY <1>k, <2>1, <2>3, <2>5, <2>6
<1>6. CASE Subject!ReadImplementationCode
  <2>1. Elsewhere /\ stop = "inspect" /\ walk.at = "code"
    BY <1>6 DEF Subject!ReadImplementationCode, Subject!Walks, Subject!At, Subject!World, SubjectWorld
  <2>2. PICK next : next = [walk EXCEPT !.at = "bind", !.code = Subject!Shown.code[walk.implementation]]
    OBVIOUS
  <2>3. next = [at |-> "bind", kind |-> walk.kind, beacon |-> walk.beacon, beaconCode |-> walk.beaconCode, implementation |-> walk.implementation, code |-> Subject!Shown.code[walk.implementation], confirmed |-> walk.confirmed, source |-> walk.source]
    BY <1>0, <2>2 DEF SubjectShape
  <2>4. PICK ok : ok = (Subject!Shown.code[walk.implementation] # Subject!Missing)
    OBVIOUS
  <2>5. Steps(ok, next)
    BY <1>6, <2>2, <2>4 DEF Subject!ReadImplementationCode, Subject!StepWalk
  <2>6. ASSUME ok, OfWalk(Subject!Shown) PROVE OfWalk(Subject!Shown)'
    <3>1. stop' = "inspect" /\ walk' = next
      BY <2>1, <2>5, <2>6
    <3>. QED
      BY <1>w, <2>1, <2>3, <2>4, <2>6, <3>1 DEF OfWalk, Subject!ProxyOf, Subject!Target, Inspecting
  <2>. QED
    BY <1>k, <2>1, <2>3, <2>5, <2>6
<1>7. CASE Subject!BindProxy
  <2>1. Elsewhere /\ stop = "inspect" /\ walk.at = "bind"
    BY <1>7 DEF Subject!BindProxy, Subject!Walks, Subject!At, Subject!World, SubjectWorld
  <2>2. PICK ok \in BOOLEAN, sure \in BOOLEAN :
          /\ Steps(ok, [walk EXCEPT !.at = "source", !.confirmed = sure])
          /\ walk.kind = "EIP1167_MINIMAL" \/ options.metadata => sure
    <3>1. CASE walk.kind # "EIP1167_MINIMAL" /\ options.metadata
      <4>1. PICK seen \in {sourced, ~sourced} :
              Steps(/\ seen = sourced
                    /\ Subject!ProxyOf(IF seen THEN forked ELSE source, Subject!Inspected, Subject!InspectedCode)
                         = <<walk.kind, walk.implementation, walk.code>>,
                    [walk EXCEPT !.at = "source", !.confirmed = TRUE])
        BY <1>7, <3>1 DEF Subject!BindProxy, Subject!StepWalk
      <4>. QED
        BY <4>1
    <3>2. CASE ~(walk.kind # "EIP1167_MINIMAL" /\ options.metadata)
      <4>1. Steps(TRUE, [walk EXCEPT !.at = "source", !.confirmed = (walk.kind = "EIP1167_MINIMAL")])
        BY <1>7, <3>2 DEF Subject!BindProxy, Subject!StepWalk
      <4>2. PICK sure \in BOOLEAN : sure = (walk.kind = "EIP1167_MINIMAL")
        OBVIOUS
      <4>. QED
        BY <3>2, <4>1, <4>2
    <3>. QED
      BY <3>1, <3>2
  <2>3. PICK next : next = [walk EXCEPT !.at = "source", !.confirmed = sure]
    OBVIOUS
  <2>4. next = [at |-> "source", kind |-> walk.kind, beacon |-> walk.beacon, beaconCode |-> walk.beaconCode,
                implementation |-> walk.implementation, code |-> walk.code,
                confirmed |-> sure, source |-> walk.source]
    BY <1>0, <2>3 DEF SubjectShape
  <2>5. ASSUME ok, OfWalk(Subject!Shown) PROVE OfWalk(Subject!Shown)'
    <3>1. stop' = "inspect" /\ walk' = next
      BY <2>1, <2>2, <2>3, <2>5
    <3>. QED
      BY <1>w, <2>1, <2>2, <2>4, <2>5, <3>1 DEF OfWalk, Inspecting
  <2>6. Steps(ok, next)
    BY <2>2, <2>3
  <2>. QED
    BY <1>k, <2>1, <2>4, <2>5, <2>6
<1>8. CASE Subject!ResolveVerifiedSource
  <2>1. Elsewhere /\ stop = "inspect" /\ walk.at = "source"
    BY <1>8 DEF Subject!ResolveVerifiedSource, Subject!Walks, Subject!At, Subject!World, SubjectWorld
  <2>2. PICK next : next = [walk EXCEPT !.at = "done", !.source = options.source]
    OBVIOUS
  <2>3. PICK ok : Steps(ok, next)
    BY <1>8, <2>2 DEF Subject!ResolveVerifiedSource, Subject!StepWalk
  <2>4. next = [at |-> "done", kind |-> walk.kind, beacon |-> walk.beacon, beaconCode |-> walk.beaconCode,
                implementation |-> walk.implementation, code |-> walk.code,
                confirmed |-> walk.confirmed, source |-> options.source]
    BY <1>0, <2>2 DEF SubjectShape
  <2>5. ASSUME ok, OfWalk(Subject!Shown) PROVE OfWalk(Subject!Shown)'
    <3>1. stop' = "inspect" /\ walk' = next
      BY <2>1, <2>3, <2>5
    <3>. QED
      BY <1>w, <2>1, <2>4, <2>5, <3>1 DEF OfWalk, Inspecting
  <2>. QED
    BY <1>k, <2>1, <2>3, <2>4, <2>5
<1>. QED
  BY <1>1, <1>2, <1>3, <1>4, <1>5, <1>6, <1>7, <1>8 DEF Subject!InspectContract

\* A step before the inspection that reads the chain, or compares its block.
LEMMA EarlyStepKeeps ==
    ASSUME SubjectInv, UNCHANGED <<SubjectWorld, account, walk>>, SubjectShape',
           stop \notin Inspecting \cup {"failed"}, stop' \notin Inspecting \cup {"failed"},
           stop' = "block" => ~sourced', sourced' => swapped,
           (sourced = swapped /\ Describes(Subject!Shown)) \/ stop = "block" =>
             OfIdentity(Subject!Shown)' /\ OfSubject(Subject!Shown)',
           stop # "block" => UNCHANGED sourced
    PROVE  SubjectInv'
<1>1. SourceHolds'
  BY DEF SubjectInv, SourceHolds, SubjectWorld, Reporting, Inspecting
<1>2. ASSUME sourced' = swapped' PROVE Describes(Subject!Shown)'
  <2>1. OfIdentity(Subject!Shown)' /\ OfSubject(Subject!Shown)'
    BY <1>2 DEF SubjectInv, SubjectWorld
  <2>2. OfAccount(Subject!Shown)'
    <3>1. account' = Subject!NoAccount
      BY DEF SubjectInv, SourceHolds
    <3>. QED
      BY <3>1 DEF OfAccount, Subject!NoAccount, Inspecting, Reporting
  <2>3. OfWalk(Subject!Shown)'
    BY DEF OfWalk
  <2>. QED
    BY <2>1, <2>2, <2>3 DEF Describes
<1>. QED
  BY <1>1, <1>2 DEF SubjectInv

LEMMA EarlyKeeps ==
    SubjectInv /\ (Subject!Identify \/ Subject!Classify \/ Subject!RunSubjectChecks
                   \/ Subject!RecheckDelegation) => SubjectInv'
<1>. SUFFICES ASSUME SubjectInv, Subject!Identify \/ Subject!Classify \/ Subject!RunSubjectChecks
                                 \/ Subject!RecheckDelegation
              PROVE SubjectInv'
  OBVIOUS
<1>. USE DEF Subject!At, Subject!World, Subject!GoIf
<1>0. SubjectShape
  BY DEF SubjectInv
<1>1. CASE Subject!LoadSourceBlock
  <2>1. /\ stop = "block" /\ stop' = "owner" /\ sourced' = swapped
        /\ UNCHANGED <<SubjectWorld, resolved, classified, account, walk>>
    BY <1>1 DEF Subject!LoadSourceBlock, SubjectWorld
  <2>2. SubjectShape'
    BY <1>0, <2>1 DEF SubjectShape, SubjectWorld
  <2>3. OfIdentity(Subject!Shown)' /\ OfSubject(Subject!Shown)'
    BY <2>1 DEF OfIdentity, OfSubject, Classified, Inspecting, Reporting
  <2>. QED
    BY <2>1, <2>2, <2>3, EarlyStepKeeps DEF Inspecting, Reporting
<1>2. CASE Subject!ReadOwner
  <2>1. /\ stop = "owner" /\ UNCHANGED <<SubjectWorld, sourced, resolved, classified, account, walk>>
        /\ stop' = IF Subject!Shown.minted THEN "wallet" ELSE "failed"
    BY <1>2 DEF Subject!ReadOwner, SubjectWorld
  <2>2. SubjectShape' /\ Subject!Shown' = Subject!Shown
    BY <1>0, <2>1 DEF SubjectShape, SubjectWorld, Subject!Shown
  <2>3. CASE Subject!Shown.minted
    <3>1. OfIdentity(Subject!Shown)' /\ OfSubject(Subject!Shown)'
      BY <2>1, <2>2, <2>3 DEF OfIdentity, OfSubject, Classified, Inspecting, Reporting
    <3>. QED
      BY <2>1, <2>2, <2>3, <3>1, EarlyStepKeeps DEF Inspecting, Reporting, SubjectInv, SourceHolds
  <2>4. CASE ~Subject!Shown.minted
    BY <2>1, <2>2, <2>4, SubjectFails DEF SubjectWorld
  <2>. QED
    BY <2>3, <2>4
<1>3. CASE Subject!ReadAgentWallet
  <2>1. /\ stop = "wallet" /\ UNCHANGED <<SubjectWorld, sourced, classified, account, walk>>
        /\ stop' = IF Subject!Shown.wallet # ZeroAddress THEN "card" ELSE "failed"
        /\ resolved' = [resolved EXCEPT !.wallet = Subject!Shown.wallet]
    BY <1>3 DEF Subject!ReadAgentWallet, SubjectWorld
  <2>2. resolved' = [wallet |-> Subject!Shown.wallet, cardVerified |-> resolved.cardVerified]
    BY <1>0, <2>1 DEF SubjectShape
  <2>3. SubjectShape' /\ Subject!Shown' = Subject!Shown
    BY <1>0, <2>1, <2>2 DEF SubjectShape, SubjectWorld, Subject!Shown
  <2>4. CASE Subject!Shown.wallet # ZeroAddress
    <3>1. Describes(Subject!Shown) => OfIdentity(Subject!Shown)'
      BY <2>1, <2>2, <2>3, <2>4 DEF Describes, OfIdentity
    <3>2. OfSubject(Subject!Shown)'
      BY <2>1, <2>4 DEF OfSubject, Classified, Inspecting, Reporting
    <3>. QED
      BY <2>1, <2>3, <2>4, <3>1, <3>2, EarlyStepKeeps DEF Inspecting, Reporting, SubjectInv, SourceHolds
  <2>5. CASE ~(Subject!Shown.wallet # ZeroAddress)
    BY <2>1, <2>3, <2>5, SubjectFails DEF SubjectWorld
  <2>. QED
    BY <2>4, <2>5
<1>4. CASE Subject!ResolveRegistrationCard
  <2>1. /\ stop = "card" /\ UNCHANGED <<SubjectWorld, sourced, classified, account, walk>>
        /\ stop' = IF Subject!SameSourceBlock THEN "code" ELSE "failed"
        /\ \E loads \in BOOLEAN : resolved' = [resolved EXCEPT !.cardVerified = loads]
    BY <1>4 DEF Subject!ResolveRegistrationCard, SubjectWorld
  <2>2. PICK loads : resolved' = [wallet |-> resolved.wallet, cardVerified |-> loads]
    BY <1>0, <2>1 DEF SubjectShape
  <2>3. SubjectShape' /\ Subject!Shown' = Subject!Shown
    BY <1>0, <2>1, <2>2 DEF SubjectShape, SubjectWorld, Subject!Shown
  <2>4. CASE Subject!SameSourceBlock
    <3>1. Describes(Subject!Shown) => OfIdentity(Subject!Shown)'
      BY <2>1, <2>2, <2>3, <2>4 DEF Describes, OfIdentity
    <3>2. OfSubject(Subject!Shown)'
      BY <2>1, <2>4 DEF OfSubject, Classified, Inspecting, Reporting
    <3>. QED
      BY <2>1, <2>3, <2>4, <3>1, <3>2, EarlyStepKeeps DEF Inspecting, Reporting, SubjectInv, SourceHolds
  <2>5. CASE ~Subject!SameSourceBlock
    BY <2>1, <2>3, <2>5, SubjectFails DEF SubjectWorld
  <2>. QED
    BY <2>4, <2>5
<1>5. CASE Subject!ReadRuntimeCode
  <2>1. PICK held : held = Subject!Shown.code[resolved.wallet]
    OBVIOUS
  <2>2. /\ stop = "code" /\ UNCHANGED <<SubjectWorld, sourced, resolved, account, walk>>
        /\ classified' = [Subject!NoSubject EXCEPT !.address = resolved.wallet,
                                                   !.kind = Subject!KindOf(held), !.code = held]
        /\ IF held.form = "delegates"
           THEN stop' = IF held.to \notin {ZeroAddress, resolved.wallet} THEN "delegation" ELSE "failed"
           ELSE stop' = "classified"
    BY <1>5, <2>1 DEF Subject!ReadRuntimeCode, SubjectWorld
  <2>3. classified' = [address |-> resolved.wallet, kind |-> Subject!KindOf(held), code |-> held,
                       delegation |-> Subject!Missing]
    BY <2>2 DEF Subject!NoSubject
  <2>4. SubjectShape' /\ Subject!Shown' = Subject!Shown
    BY <1>0, <2>2, <2>3 DEF SubjectShape, SubjectWorld, Subject!Shown
  <2>5. CASE stop' = "failed"
    BY <2>2, <2>4, <2>5, SubjectFails DEF SubjectWorld
  <2>6. CASE stop' # "failed"
    <3>1. stop' \in {"delegation", "classified"}
          /\ (stop' = "delegation" <=> Subject!KindOf(held) = "EIP7702_DELEGATED_EOA")
      <4>1. Subject!KindOf(held) = "EIP7702_DELEGATED_EOA" <=> held.form = "delegates"
        <5>1. CASE held.form = "empty"
          BY <5>1 DEF Subject!KindOf
        <5>2. CASE held.form = "delegates"
          BY <5>2 DEF Subject!KindOf
        <5>3. CASE held.form \notin {"empty", "delegates"}
          BY <5>3 DEF Subject!KindOf
        <5>. QED
          BY <5>1, <5>2, <5>3
      <4>. QED
        BY <2>2, <2>6, <4>1
    <3>2. Describes(Subject!Shown) => OfIdentity(Subject!Shown)' /\ OfSubject(Subject!Shown)'
      <4>1. ASSUME Describes(Subject!Shown) PROVE OfIdentity(Subject!Shown)' /\ resolved.wallet = Subject!Shown.wallet
        BY <2>2, <2>4, <3>1, <4>1 DEF Describes, OfIdentity
      <4>2. ASSUME resolved.wallet = Subject!Shown.wallet PROVE OfSubject(Subject!Shown)'
        BY <2>1, <2>3, <2>4, <3>1, <4>2 DEF OfSubject, Subject!Delegated, Classified, Inspecting, Reporting
      <4>. QED
        BY <4>1, <4>2
    <3>. QED
      BY <2>2, <2>4, <3>1, <3>2, EarlyStepKeeps DEF Inspecting, Reporting, SubjectInv, SourceHolds
  <2>. QED
    BY <2>5, <2>6
<1>6. CASE Subject!ReadDelegationCode
  <2>1. PICK held : held = Subject!Shown.code[classified.code.to]
    OBVIOUS
  <2>2. /\ stop = "delegation" /\ UNCHANGED <<SubjectWorld, sourced, resolved, account, walk>>
        /\ classified' = [classified EXCEPT !.delegation = held] /\ stop' \in {"classified", "failed"}
    BY <1>6, <2>1 DEF Subject!ReadDelegationCode, SubjectWorld
  <2>3. classified' = [address |-> classified.address, kind |-> classified.kind, code |-> classified.code,
                       delegation |-> held]
    BY <1>0, <2>2 DEF SubjectShape
  <2>4. SubjectShape' /\ Subject!Shown' = Subject!Shown
    BY <1>0, <2>2, <2>3 DEF SubjectShape, SubjectWorld, Subject!Shown
  <2>5. CASE stop' = "failed"
    BY <2>2, <2>4, <2>5, SubjectFails DEF SubjectWorld
  <2>6. CASE stop' = "classified"
    <3>1. Describes(Subject!Shown) => OfIdentity(Subject!Shown)'
      BY <2>2, <2>4, <2>6 DEF Describes, OfIdentity
    <3>2. Describes(Subject!Shown) => OfSubject(Subject!Shown)'
      BY <2>1, <2>2, <2>3, <2>4, <2>6 DEF Describes, OfSubject, Subject!Delegated, Classified, Inspecting, Reporting
    <3>. QED
      BY <2>2, <2>4, <2>6, <3>1, <3>2, EarlyStepKeeps DEF Inspecting, Reporting, SubjectInv, SourceHolds
  <2>. QED
    BY <2>2, <2>5, <2>6
<1>7. ASSUME NEW next \in {"failed", "recheck", "inspect"}, Subject!Inspect(next),
             stop \in {"classified", "recheck"}, next = "recheck" => Subject!Delegated,
             UNCHANGED <<SubjectWorld, sourced, resolved, classified, account>>
      PROVE  SubjectInv'
  <2>1. /\ stop' = next
        /\ walk' = IF next = "inspect" /\ classified.kind # "EOA" THEN [Subject!NoWalk EXCEPT !.at = "detect"] ELSE walk
    BY <1>7 DEF Subject!Inspect
  <2>2. walk = Subject!NoWalk /\ account = Subject!NoAccount
    BY <1>7 DEF SubjectInv, SourceHolds, Inspecting, Reporting
  <2>3. SubjectShape' /\ Subject!Shown' = Subject!Shown
    BY <1>0, <1>7, <2>1, <2>2 DEF SubjectShape, SubjectWorld, Subject!NoWalk, Subject!Shown
  <2>4. CASE next = "failed"
    BY <1>7, <2>1, <2>3, <2>4, SubjectFails DEF SubjectWorld
  <2>5. CASE next # "failed"
    <3>1. SourceHolds'
      BY <1>7, <2>1, <2>2, <2>5 DEF SubjectInv, SourceHolds, SubjectWorld, Inspecting, Reporting
    <3>2. ASSUME Describes(Subject!Shown) PROVE Describes(Subject!Shown)'
      <4>1. OfIdentity(Subject!Shown)'
        BY <1>7, <2>1, <2>3, <3>2 DEF Describes, OfIdentity
      <4>2. OfSubject(Subject!Shown)'
        BY <1>7, <2>1, <2>3, <3>2 DEF Describes, OfSubject, Subject!Delegated, Classified, Inspecting, Reporting
      <4>3. OfAccount(Subject!Shown)'
        BY <1>7, <2>1, <2>2 DEF OfAccount, Subject!NoAccount, Reporting
      <4>4. OfWalk(Subject!Shown)'
        BY <1>7, <2>1, <2>5 DEF OfWalk, Subject!NoWalk, Inspecting, Reporting
      <4>. QED
        BY <4>1, <4>2, <4>3, <4>4 DEF Describes
    <3>. QED
      BY <1>7, <2>1, <2>3, <3>1, <3>2 DEF SubjectInv, SubjectWorld
  <2>. QED
    BY <2>4, <2>5
<1>8. CASE Subject!RunSubjectChecks
  BY <1>7, <1>8 DEF Subject!RunSubjectChecks, SubjectWorld
<1>9. CASE Subject!RecheckDelegation
  BY <1>7, <1>9 DEF Subject!RecheckDelegation, SubjectWorld
<1>. QED
  BY <1>1, <1>2, <1>3, <1>4, <1>5, <1>6, <1>8, <1>9 DEF Subject!Identify, Subject!Classify

LEMMA AccountKeeps == SubjectInv /\ Subject!InspectEoa => SubjectInv'
<1>. SUFFICES ASSUME SubjectInv, Subject!InspectEoa PROVE SubjectInv'
  OBVIOUS
<1>0. SubjectShape
  BY DEF SubjectInv
<1>. DEFINE ReadsAs(r, seen) ==
              /\ stop = "inspect" /\ account' = [account EXCEPT ![r] = seen]
              /\ UNCHANGED <<SubjectWorld, stop, sourced, resolved, classified, walk>>
              /\ seen = Subject!Shown.nonce[classified.address] \/ (r = "history" /\ seen = Subject!Unknown)
<1>r. PICK r \in Subject!AccountReads : \E seen : ReadsAs(r, seen)
  <2>1. CASE Subject!HistoryFails
    <3>1. ReadsAs("history", Subject!Unknown) /\ "history" \in Subject!AccountReads
      BY <2>1 DEF Subject!HistoryFails, Subject!At, Subject!World, SubjectWorld, Subject!AccountReads
    <3>. QED
      BY <3>1
  <2>2. ASSUME NEW read \in Subject!AccountReads, Subject!ReadAccount(read)
        PROVE  \E r \in Subject!AccountReads : \E seen : ReadsAs(r, seen)
    <3>1. PICK seen : seen = Subject!Shown.nonce[classified.address]
      OBVIOUS
    <3>2. stop = "inspect" /\ UNCHANGED <<SubjectWorld, stop, sourced, resolved, classified, walk>>
      BY <2>2 DEF Subject!ReadAccount, Subject!At, Subject!World, SubjectWorld
    <3>3. account' = [account EXCEPT ![read] = seen]
      BY <2>2, <3>1 DEF Subject!ReadAccount
    <3>4. ReadsAs(read, seen)
      BY <3>1, <3>2, <3>3 DEF SubjectWorld
    <3>. QED
      BY <3>4
  <2>. QED
    BY <2>1, <2>2 DEF Subject!InspectEoa
<1>s. PICK seen : ReadsAs(r, seen)
  BY <1>r
<1>1. /\ stop = "inspect" /\ account' = [account EXCEPT ![r] = seen]
      /\ UNCHANGED <<SubjectWorld, stop, sourced, resolved, classified, walk>>
      /\ seen = Subject!Shown.nonce[classified.address] \/ (r = "history" /\ seen = Subject!Unknown)
  BY <1>s
<1>. HIDE DEF ReadsAs
<1>2. account' = [x \in Subject!AccountReads |-> IF x = r THEN seen ELSE account[x]]
  BY <1>0, <1>1 DEF SubjectShape
<1>3. SubjectShape' /\ Subject!Shown' = Subject!Shown
  BY <1>0, <1>1, <1>2 DEF SubjectShape, SubjectWorld, Subject!Shown
<1>4. SourceHolds'
  BY <1>1 DEF SubjectInv, SourceHolds, SubjectWorld, Inspecting, Reporting
<1>5. ASSUME Describes(Subject!Shown) PROVE Describes(Subject!Shown)'
  <2>1. OfIdentity(Subject!Shown)' /\ OfSubject(Subject!Shown)'
    BY <1>1, <1>3, <1>5 DEF Describes, OfIdentity, OfSubject, Subject!Delegated
  <2>2. OfAccount(Subject!Shown)'
    <3>1. classified.address = Subject!Shown.wallet
      BY <1>1, <1>5 DEF Describes, OfSubject, Classified, Inspecting
    <3>2. \A x \in Subject!AccountReads : account'[x] # Subject!NotRead =>
            account'[x] \in {Subject!Shown.nonce[Subject!Shown.wallet]}
                            \cup (IF x = "history" THEN {Subject!Unknown} ELSE {})
      BY <1>1, <1>2, <1>5, <3>1 DEF Describes, OfAccount
    <3>. QED
      BY <1>1, <1>3, <3>2 DEF OfAccount, Reporting
  <2>3. OfWalk(Subject!Shown)'
    BY <1>1, <1>3, <1>5 DEF Describes, OfWalk, SubjectWorld, Subject!Inspected, Subject!InspectedCode, Subject!Delegated
  <2>. QED
    BY <2>1, <2>2, <2>3 DEF Describes
<1>. QED
  BY <1>1, <1>3, <1>4, <1>5 DEF SubjectInv, SubjectWorld

LEMMA SubjectStepKeeps ==
    SubjectInv /\ [Subject!Next]_subjectVars => SubjectInv'
<1>. SUFFICES ASSUME SubjectInv, [Subject!Next]_subjectVars PROVE SubjectInv'
  OBVIOUS
<1>0. SubjectShape
  BY DEF SubjectInv
<1>1. ASSUME UNCHANGED <<SubjectWorld, sourced, resolved, classified, account, walk>>, stop' \in Reporting,
             sourced = swapped, stop \in Inspecting,
             Describes(Subject!Shown) => Subject!AccountDone /\ Subject!WalkDone
      PROVE  SubjectInv'
  <2>1. SubjectShape' /\ Subject!Shown' = Subject!Shown
    BY <1>0, <1>1 DEF SubjectShape, SubjectWorld, Subject!Shown
  <2>2. SourceHolds'
    BY <1>1 DEF SubjectInv, SourceHolds, SubjectWorld, Inspecting, Reporting
  <2>3. Describes(Subject!Shown)
    BY <1>1 DEF SubjectInv, Inspecting, Reporting
  <2>4. OfIdentity(Subject!Shown)' /\ OfSubject(Subject!Shown)'
    BY <1>1, <2>1, <2>3 DEF Describes, OfIdentity, OfSubject, Subject!Delegated, Classified, Inspecting, Reporting
  <2>5. OfAccount(Subject!Shown)'
    BY <1>1, <2>1, <2>3 DEF Describes, OfAccount, Subject!AccountDone, Subject!WalkDone
  <2>6. OfWalk(Subject!Shown)'
    BY <1>1, <2>1, <2>3 DEF Describes, OfWalk, SubjectWorld, Subject!Inspected, Subject!InspectedCode,
       Subject!Delegated, Inspecting
  <2>. QED
    BY <2>1, <2>2, <2>4, <2>5, <2>6 DEF SubjectInv, Describes
<1>2. CASE Subject!ReportChecks
  <2>1. /\ UNCHANGED <<SubjectWorld, sourced, resolved, classified, account, walk>> /\ stop = "inspect"
        /\ Subject!AccountDone /\ Subject!WalkDone
        /\ stop' = IF sourced = swapped THEN "report" ELSE "failed"
    BY <1>2 DEF Subject!ReportChecks, Subject!At, Subject!World, SubjectWorld, Subject!GoIf, Subject!SameSourceBlock
  <2>2. CASE sourced = swapped
    BY <1>1, <2>1, <2>2 DEF Inspecting, Reporting
  <2>3. CASE sourced # swapped
    <3>1. SubjectShape'
      BY <1>0, <2>1 DEF SubjectShape, SubjectWorld
    <3>. QED
      BY <2>1, <2>3, <3>1, SubjectFails DEF SubjectWorld
  <2>. QED
    BY <2>2, <2>3
<1>3. CASE Subject!AssertSealable
  <2>1. /\ UNCHANGED <<SubjectWorld, sourced, resolved, classified, account, walk>> /\ stop = "report"
        /\ stop' \in Reporting
    BY <1>3 DEF Subject!AssertSealable, Subject!At, Subject!World, SubjectWorld, Reporting
  <2>2. sourced = swapped /\ stop \in Inspecting /\ (Describes(Subject!Shown) => Subject!AccountDone /\ Subject!WalkDone)
    BY <2>1 DEF SubjectInv, SourceHolds, Describes, OfAccount, Inspecting, Reporting
  <2>. QED
    BY <1>1, <2>1, <2>2
<1>4. CASE Subject!ReadFails
  <2>1. /\ UNCHANGED <<SubjectWorld, sourced, resolved, classified, account, walk>> /\ stop' = "failed"
    BY <1>4 DEF Subject!ReadFails, Subject!World, SubjectWorld
  <2>2. SubjectShape'
    BY <1>0, <2>1 DEF SubjectShape, SubjectWorld
  <2>3. SourceHolds'
    BY <2>1 DEF SubjectInv, SourceHolds, SubjectWorld, Inspecting, Reporting
  <2>. QED
    BY <2>1, <2>2, <2>3 DEF SubjectInv
<1>5. CASE Subject!Reorg
  <2>1. /\ UNCHANGED <<stop, options, sourced, resolved, classified, account, walk>> /\ ~swapped /\ swapped' = TRUE
        /\ stop \notin Reporting
    BY <1>5 DEF Subject!Reorg, Subject!Ended, Reporting
  <2>2. SubjectShape'
    BY <1>0, <2>1 DEF SubjectShape
  <2>3. SourceHolds' /\ sourced' # swapped'
    BY <1>0, <2>1 DEF SubjectInv, SubjectShape, SourceHolds, Inspecting, Reporting
  <2>. QED
    BY <2>2, <2>3 DEF SubjectInv
<1>6. CASE UNCHANGED subjectVars
  <2>1. UNCHANGED <<SubjectWorld, stop, sourced, resolved, classified, account, walk>>
    BY <1>6 DEF subjectVars, SubjectWorld
  <2>2. SubjectShape' /\ SourceHolds'
    BY <2>1 DEF SubjectInv, SubjectShape, SourceHolds, SubjectWorld
  <2>3. Describes(Subject!Shown) => Describes(Subject!Shown)'
    <3>1. Subject!Shown' = Subject!Shown
      BY <2>1 DEF SubjectWorld, Subject!Shown
    <3>. QED
      BY <2>1, <3>1 DEF Describes, OfIdentity, OfSubject, OfAccount, OfWalk, Subject!Delegated, SubjectWorld,
         Subject!AccountDone, Subject!WalkDone, Subject!Inspected, Subject!InspectedCode
  <2>. QED
    BY <2>1, <2>2, <2>3 DEF SubjectInv, SubjectWorld
<1>. QED
  BY EarlyKeeps, WalkKeeps, AccountKeeps, <1>2, <1>3, <1>4, <1>5, <1>6 DEF Subject!Next

\* What may be sealed: an account or a contract that nobody confirmed to be a proxy.
SealsItsOwnCode == stop = "sealable" => ~Subject!Nested

LEMMA SealableIsOwn == SubjectInv /\ SealsItsOwnCode => ReportIsOfItsBlock
<1>. SUFFICES ASSUME SubjectInv, SealsItsOwnCode, stop \in Reporting PROVE Subject!ReportIsOfItsBlock
  BY DEF Subject!ReportIsOfItsBlock, ReportIsOfItsBlock, Reporting
<1>1. PICK c : c = Subject!Shown
  OBVIOUS
<1>2. sourced = swapped /\ Describes(c) /\ c = IF sourced THEN forked ELSE source
  BY <1>1 DEF SubjectInv, SourceHolds, Subject!Shown, Reporting
<1>3. /\ c.minted /\ classified.address = c.wallet /\ classified.code = c.code[c.wallet]
      /\ classified.kind = Subject!KindOf(c.code[c.wallet])
      /\ Subject!Delegated => classified.delegation = c.code[c.code[c.wallet].to]
  BY <1>2 DEF Describes, OfIdentity, OfSubject, Classified, Inspecting, Reporting
<1>4. classified.kind # "CONTRACT" =>
        \A r \in Subject!AccountReads : account[r] \in {c.nonce[c.wallet]} \cup
          (IF r = "history" THEN {Subject!Unknown} ELSE {})
  BY <1>2 DEF Describes, OfAccount, Subject!AccountDone
<1>5. classified.kind # "EOA" =>
        /\ Subject!ProxyOf(c, Subject!Inspected, Subject!InspectedCode) = <<walk.kind, walk.implementation, walk.code>>
        /\ walk.kind = "EIP1167_MINIMAL" => walk.confirmed
        /\ options.metadata /\ walk.kind # "none" => walk.confirmed
        /\ walk.beacon # ZeroAddress => walk.beacon = c.beaconSlot[Subject!Inspected] /\ walk.beaconCode = c.code[walk.beacon]
  BY <1>2 DEF Describes, OfAccount, OfWalk, Subject!WalkDone, Inspecting, Reporting
<1>6. classified.kind = "EOA" => walk.beacon = ZeroAddress
  BY DEF SubjectInv, SourceHolds, Inspecting, Subject!NoWalk
<1>7. stop = "sealable" =>
        /\ c.code[c.wallet].form \notin {"delegates", "minimal"}
        /\ classified.kind = "CONTRACT" /\ options.metadata =>
             Subject!ProxyOf(c, Subject!Inspected, Subject!InspectedCode)[1] = "none"
  <2>1. SUFFICES ASSUME stop = "sealable"
                 PROVE  /\ c.code[c.wallet].form \notin {"delegates", "minimal"}
                        /\ classified.kind = "CONTRACT" /\ options.metadata =>
                             Subject!ProxyOf(c, Subject!Inspected, Subject!InspectedCode)[1] = "none"
    OBVIOUS
  <2>2. ~Subject!Delegated /\ ~walk.confirmed
    BY <2>1 DEF SealsItsOwnCode, Subject!Nested
  <2>3. c.code[c.wallet].form # "delegates"
    BY <1>3, <2>2 DEF Subject!KindOf, Subject!Delegated
  <2>4. c.code[c.wallet].form # "minimal"
    <3>1. SUFFICES ASSUME c.code[c.wallet].form = "minimal" PROVE FALSE
      OBVIOUS
    <3>2. classified.kind = "CONTRACT"
      BY <1>3, <3>1 DEF Subject!KindOf
    <3>3. Subject!InspectedCode = c.code[c.wallet]
      BY <1>3, <2>2 DEF Subject!InspectedCode
    <3>4. walk.kind = "EIP1167_MINIMAL"
      BY <1>5, <3>1, <3>2, <3>3 DEF Subject!ProxyOf
    <3>. QED
      BY <1>5, <2>2, <3>2, <3>4
  <2>5. classified.kind = "CONTRACT" /\ options.metadata => walk.kind = "none"
    BY <1>5, <2>2
  <2>. QED
    BY <1>5, <2>3, <2>4, <2>5
<1>. QED
  BY <1>2, <1>3, <1>4, <1>5, <1>6, <1>7 DEF Subject!ReportIsOfItsBlock

LEMMA SealsItsOwn == SealsItsOwnCode /\ [Subject!Next]_subjectVars => SealsItsOwnCode'
<1>. SUFFICES ASSUME SealsItsOwnCode, [Subject!Next]_subjectVars, stop' = "sealable" PROVE ~Subject!Nested'
  BY DEF SealsItsOwnCode
<1>. USE DEF Subject!At, Subject!World, Subject!GoIf
<1>1. CASE Subject!AssertSealable
  BY <1>1 DEF Subject!AssertSealable, Subject!Nested, Subject!Delegated
<1>2. CASE UNCHANGED subjectVars
  BY <1>2 DEF subjectVars, SealsItsOwnCode, Subject!Nested, Subject!Delegated
<1>3. ~Subject!Identify
  BY DEF Subject!Identify, Subject!LoadSourceBlock, Subject!ReadOwner, Subject!ReadAgentWallet,
     Subject!ResolveRegistrationCard
<1>4. ~Subject!Classify
  BY DEF Subject!Classify, Subject!ReadRuntimeCode, Subject!ReadDelegationCode
<1>5. ~Subject!RunSubjectChecks /\ ~Subject!RecheckDelegation /\ ~Subject!ReportChecks
  BY DEF Subject!RunSubjectChecks, Subject!RecheckDelegation, Subject!ReportChecks, Subject!Inspect
<1>6. ~Subject!InspectEoa
  BY DEF Subject!InspectEoa, Subject!HistoryFails, Subject!ReadAccount
<1>7. ~Subject!InspectContract
  BY DEF Subject!InspectContract, Subject!DetectMinimalProxy, Subject!ReadImplementationSlot,
     Subject!ReadBeaconSlot, Subject!ReadBeaconCode, Subject!CallBeacon, Subject!ReadImplementationCode,
     Subject!BindProxy, Subject!ResolveVerifiedSource, Subject!Walks, Subject!StepWalk
<1>8. ~Subject!ReadFails /\ ~Subject!Reorg
  BY DEF Subject!ReadFails, Subject!Reorg, Subject!Ended
<1>. QED
  BY <1>1, <1>2, <1>3, <1>4, <1>5, <1>6, <1>7, <1>8 DEF Subject!Next

LEMMA ReadsStepOfSubject ==
    [ReadsNext]_<<part, chainVars, locatorVars, discoverVars, sealedVars,
                  subjectVars, riskVars, fetchVars>> => [Subject!Next]_subjectVars
  BY DEF ReadsNext, AccessStep, LocatorStep, DiscoverStep, SealedStep, SubjectStep, RiskStep, FetchStep

\* The report that comes out describes the one block whose hash it carries, wherever a
\* reorganisation falls between the reads, and what may be sealed runs no code but its own
\* (classify.ts:74, contract.ts:364, delegated-eoa.ts:39, production-operator.ts:326).
THEOREM ReportsAreOfTheirBlock == ReadsSpec => []ReportIsOfItsBlock
<1>1. ReadsInit => SubjectInv /\ SealsItsOwnCode
  BY SubjectStarts DEF ReadsInit, Subject!Init, SealsItsOwnCode
<1>2. SubjectInv /\ SealsItsOwnCode
      /\ [ReadsNext]_<<part, chainVars, locatorVars, discoverVars, sealedVars,
                       subjectVars, riskVars, fetchVars>> => (SubjectInv /\ SealsItsOwnCode)'
  BY ReadsStepOfSubject, SubjectStepKeeps, SealsItsOwn
<1>3. SubjectInv /\ SealsItsOwnCode => ReportIsOfItsBlock
  BY SealableIsOwn
<1>. QED
  BY <1>1, <1>2, <1>3, PTL DEF ReadsSpec

-----------------------------------------------------------------------------
(* The sealed detail and the verification of an old proof.                  *)

RequestShape ==
    request = [kind |-> request.kind, pc |-> request.pc, record |-> request.record, bytes |-> request.bytes,
               wallet |-> request.wallet, gate |-> request.gate, checked |-> request.checked,
               detail |-> request.detail, access |-> request.access, answer |-> request.answer]

\* A request under way knows what the chain, and the service, say now.
SeenSince ==
    /\ moments # {} => Detail!Moment(lease, wallet) \in moments
    /\ signers # {} => signer \in signers
    /\ request.pc \notin {"idle", "answered"} => IF request.kind = "verify" THEN signers # {} ELSE moments # {}
    /\ request.answer = "200" => request.pc = "answered"

AnsweredFor(g, w) ==
    g # Detail!Unknown => g \in moments /\ g.version = request.record.version /\ g.wallet = w

DetailBinds ==
    /\ request.pc \in {"record", "evidence", "identity", "gate"} => request.gate = Detail!Unknown
    /\ request.pc \in {"identity", "gate", "consumer"} => Detail!EnvelopeBinds(request.bytes, request.record)
    /\ request.pc = "consumer" => AnsweredFor(request.gate, request.wallet)
    /\ request.pc \notin {"detailed", "answered"} => request.detail = Detail!NoDetail
    /\ request.detail.status = "VERIFIED" =>
         /\ Detail!EnvelopeBinds(request.bytes, request.record)
         /\ AnsweredFor(request.detail.gate, request.detail.wallet)
         /\ AnsweredFor(request.detail.consumer, request.detail.wallet)

VerifyBinds ==
    /\ request.pc \in {"record", "evidence", "identity", "gate", "consumer", "detailed"} => request.kind # "verify"
    /\ request.pc \in {"locate", "bytes", "compute"} => request.kind = "verify"
    /\ request.pc \in {"locate", "bytes"} => request.checked = {}
    /\ request.pc = "compute" =>
         /\ Detail!EnvelopeBinds(request.bytes, request.record)
         /\ request.checked # {} => request.bytes.signer \in signers
    /\ request.kind = "verify" /\ request.answer = "200" =>
         Detail!EnvelopeBinds(request.bytes, request.record) /\ request.bytes.signer \in signers

SealedInv == RequestShape /\ SeenSince /\ DetailBinds /\ VerifyBinds

LEMMA IdleIsSealed ==
    ASSUME request = [Detail!Idle EXCEPT !.pc = request.pc, !.answer = request.answer],
           request.pc = "idle" \/ request.pc = "answered", request.answer # "200",
           moments = {}, signers = {}
    PROVE  SealedInv
<1>1. request = [kind |-> "sealed", pc |-> request.pc, record |-> Detail!NoLease, bytes |-> Detail!NoBytes,
                 wallet |-> NoWallet, gate |-> Detail!Unknown, checked |-> {}, detail |-> Detail!NoDetail,
                 access |-> "none", answer |-> request.answer]
  BY DEF Detail!Idle
<1>2. request.kind = "sealed" /\ request.detail.status # "VERIFIED"
  BY <1>1 DEF Detail!NoDetail
<1>3. RequestShape
  BY <1>1 DEF RequestShape
<1>4. SeenSince
  BY DEF SeenSince
<1>5. DetailBinds
  BY <1>1, <1>2 DEF DetailBinds
<1>6. VerifyBinds
  BY <1>1, <1>2 DEF VerifyBinds
<1>. QED
  BY <1>3, <1>4, <1>5, <1>6 DEF SealedInv

LEMMA SealedStarts == SealedRests \/ Detail!Init => SealedInv
<1>. SUFFICES ASSUME SealedRests \/ Detail!Init PROVE SealedInv
  OBVIOUS
<1>1. request = Detail!Idle /\ moments = {} /\ signers = {}
  BY DEF SealedRests, Detail!Init
<1>2. request = [Detail!Idle EXCEPT !.pc = request.pc, !.answer = request.answer]
      /\ request.pc = "idle" /\ request.answer # "200"
  BY <1>1 DEF Detail!Idle
<1>. QED
  BY <1>1, <1>2, IdleIsSealed

LEMMA SealedFails == Detail!Fails => SealedInv'
<1>. SUFFICES ASSUME Detail!Fails PROVE SealedInv'
  OBVIOUS
<1>1. request' = [Detail!Idle EXCEPT !.pc = "answered", !.answer = "error"] /\ moments' = {} /\ signers' = {}
  BY DEF Detail!Fails
<1>2. request' = [kind |-> "sealed", pc |-> "answered", record |-> Detail!NoLease, bytes |-> Detail!NoBytes,
                 wallet |-> NoWallet, gate |-> Detail!Unknown, checked |-> {}, detail |-> Detail!NoDetail,
                 access |-> "none", answer |-> "error"]
  BY <1>1 DEF Detail!Idle
<1>3. request'.kind = "sealed" /\ request'.detail.status # "VERIFIED" /\ request'.pc = "answered"
      /\ request'.answer = "error"
  BY <1>2 DEF Detail!NoDetail
<1>4. RequestShape'
  BY <1>2 DEF RequestShape
<1>5. SeenSince'
  BY <1>1, <1>3 DEF SeenSince
<1>6. DetailBinds'
  BY <1>3 DEF DetailBinds
<1>7. VerifyBinds'
  BY <1>3 DEF VerifyBinds
<1>. QED
  BY <1>4, <1>5, <1>6, <1>7 DEF SealedInv

LEMMA SealedStepKeeps == SealedInv /\ [Detail!Next]_sealedVars => SealedInv'
<1>. SUFFICES ASSUME SealedInv, [Detail!Next]_sealedVars PROVE SealedInv'
  OBVIOUS
<1>. USE DEF Detail!At
<1>0. RequestShape
  BY DEF SealedInv
<1>d. ASSUME NEW detail, Detail!Detailed(detail), request.pc \in {"evidence", "identity", "gate", "consumer"},
             detail.status = "VERIFIED" =>
               /\ Detail!EnvelopeBinds(request.bytes, request.record)
               /\ AnsweredFor(detail.gate, detail.wallet) /\ AnsweredFor(detail.consumer, detail.wallet)
      PROVE  SealedInv'
  <2>1. request' = [kind |-> request.kind, pc |-> "detailed", record |-> request.record, bytes |-> request.bytes, wallet |-> request.wallet,
           gate |-> request.gate, checked |-> request.checked, detail |-> detail, access |-> request.access, answer |-> request.answer]
        /\ Detail!World
    BY <1>0, <1>d DEF RequestShape, Detail!Detailed
  <2>2. SeenSince' /\ VerifyBinds'
    BY <1>d, <2>1 DEF SealedInv, SeenSince, VerifyBinds, Detail!World
  <2>3. DetailBinds'
    BY <1>d, <2>1 DEF SealedInv, DetailBinds, AnsweredFor, Detail!World
  <2>. QED
    BY <2>1, <2>2, <2>3 DEF SealedInv, RequestShape
<1>1. ASSUME NEW asked \in Detail!Kinds, Detail!Ask(asked)
      PROVE  SealedInv'
  <2>1. /\ request' = [kind |-> asked, pc |-> IF asked = "verify" THEN "locate" ELSE "record", record |-> Detail!NoLease,
                       bytes |-> Detail!NoBytes, wallet |-> NoWallet, gate |-> Detail!Unknown, checked |-> {},
                       detail |-> Detail!NoDetail, access |-> "none", answer |-> "none"]
    BY <1>1 DEF Detail!Ask, Detail!Idle
  <2>2. /\ moments' = IF asked = "verify" THEN {} ELSE {Detail!Moment(lease, wallet)}
        /\ signers' = IF asked = "verify" THEN {signer} ELSE {}
        /\ UNCHANGED <<lease, wallet, signer>>
    BY <1>1 DEF Detail!Ask
  <2>3. request'.detail.status # "VERIFIED" /\ request'.answer = "none"
    BY <2>1 DEF Detail!NoDetail
  <2>4. SeenSince'
    BY <2>1, <2>2, <2>3 DEF SeenSince
  <2>5. DetailBinds' /\ VerifyBinds'
    BY <2>1, <2>3 DEF DetailBinds, VerifyBinds
  <2>. QED
    BY <2>1, <2>4, <2>5 DEF SealedInv, RequestShape
<1>2. CASE Detail!ReadProofLock
  <2>1. /\ request' = [kind |-> request.kind, pc |-> "evidence", record |-> lease, bytes |-> request.bytes, wallet |-> request.wallet,
           gate |-> request.gate, checked |-> request.checked, detail |-> request.detail, access |-> request'.access, answer |-> request.answer]
        /\ Detail!World /\ request.pc = "record"
    BY <1>0, <1>2 DEF RequestShape, Detail!ReadProofLock
  <2>2. SeenSince' /\ VerifyBinds'
    BY <2>1 DEF SealedInv, SeenSince, VerifyBinds, Detail!World
  <2>3. DetailBinds'
    BY <2>1 DEF SealedInv, DetailBinds, AnsweredFor, Detail!World, Detail!NoDetail
  <2>. QED
    BY <2>1, <2>2, <2>3 DEF SealedInv, RequestShape
<1>3. ASSUME NEW b \in Detail!Bytes, Detail!RecoverDetailEnvelope(b)
      PROVE  SealedInv'
  <2>1. CASE Detail!EnvelopeBinds(b, request.record) /\ b.wallet = request.record.subject
    <3>1. /\ request' = [kind |-> request.kind, pc |-> "identity", record |-> request.record, bytes |-> b, wallet |-> request.wallet,
           gate |-> request.gate, checked |-> request.checked, detail |-> request.detail, access |-> request.access, answer |-> request.answer]
          /\ Detail!World /\ request.pc = "evidence"
      BY <1>0, <1>3, <2>1 DEF RequestShape, Detail!RecoverDetailEnvelope
    <3>2. SeenSince' /\ VerifyBinds'
      BY <3>1 DEF SealedInv, SeenSince, VerifyBinds, Detail!World
    <3>3. DetailBinds'
      BY <2>1, <3>1 DEF SealedInv, DetailBinds, Detail!NoDetail
    <3>. QED
      BY <3>1, <3>2, <3>3 DEF SealedInv, RequestShape
  <2>2. CASE ~(Detail!EnvelopeBinds(b, request.record) /\ b.wallet = request.record.subject)
    BY <1>3, <1>d, <2>2 DEF Detail!RecoverDetailEnvelope, Detail!Unavailable
  <2>. QED
    BY <2>1, <2>2
<1>4. CASE Detail!ResolveDetailIdentity
  <2>1. CASE wallet = NoWallet
    BY <1>4, <1>d, <2>1 DEF Detail!ResolveDetailIdentity, Detail!Unavailable
  <2>2. CASE wallet # NoWallet
    <3>1. /\ request' = [kind |-> request.kind, pc |-> "gate", record |-> request.record, bytes |-> request.bytes, wallet |-> wallet,
           gate |-> request.gate, checked |-> request.checked, detail |-> request.detail, access |-> request.access, answer |-> request.answer]
          /\ Detail!World /\ request.pc = "identity"
      BY <1>0, <1>4, <2>2 DEF RequestShape, Detail!ResolveDetailIdentity
    <3>2. SeenSince' /\ VerifyBinds'
      BY <3>1 DEF SealedInv, SeenSince, VerifyBinds, Detail!World
    <3>3. DetailBinds'
      BY <3>1 DEF SealedInv, DetailBinds, Detail!NoDetail
    <3>. QED
      BY <3>1, <3>2, <3>3 DEF SealedInv, RequestShape
  <2>. QED
    BY <2>1, <2>2
<1>5. CASE Detail!ReadGateDetail
  <2>1. PICK result : result = Detail!Moment(lease, wallet)
    OBVIOUS
  <2>2. PICK g : g = IF Detail!ValidGateResult(result) THEN result ELSE Detail!Unknown
    OBVIOUS
  <2>3. /\ request' = [kind |-> request.kind, pc |-> "consumer", record |-> request.record, bytes |-> request.bytes, wallet |-> request.wallet,
           gate |-> g, checked |-> request.checked, detail |-> request.detail, access |-> request.access, answer |-> request.answer]
        /\ Detail!World /\ request.pc = "gate"
    BY <1>0, <1>5, <2>1, <2>2 DEF RequestShape, Detail!ReadGateDetail
  <2>4. AnsweredFor(g, request.wallet)
    <3>1. result \in moments
      BY <2>1, <2>3 DEF SealedInv, SeenSince, VerifyBinds
    <3>. QED
      BY <2>2, <3>1 DEF AnsweredFor, Detail!ValidGateResult
  <2>5. SeenSince' /\ VerifyBinds'
    BY <2>3 DEF SealedInv, SeenSince, VerifyBinds, Detail!World
  <2>6. DetailBinds'
    BY <2>3, <2>4 DEF SealedInv, DetailBinds, AnsweredFor, Detail!World, Detail!NoDetail
  <2>. QED
    BY <2>3, <2>5, <2>6 DEF SealedInv, RequestShape
<1>v. ASSUME request.pc = "consumer", NEW consumer, consumer \in {request.gate, Detail!Unknown},
             Detail!Detailed(Detail!Verified(consumer))
      PROVE  SealedInv'
  <2>1. AnsweredFor(request.gate, request.wallet) /\ AnsweredFor(consumer, request.wallet)
        /\ Detail!EnvelopeBinds(request.bytes, request.record)
    BY <1>v DEF SealedInv, DetailBinds, AnsweredFor
  <2>. QED
    BY <1>d, <1>v, <2>1 DEF Detail!Verified
<1>6. CASE Detail!ReadConsumerDetail
  BY <1>6, <1>v DEF Detail!ReadConsumerDetail
<1>7. CASE Detail!DetailReadFails
  <2>1. CASE request.pc \in {"evidence", "identity"}
    BY <1>7, <1>d, <2>1 DEF Detail!DetailReadFails, Detail!Unavailable
  <2>2. CASE request.pc = "gate"
    <3>1. /\ request' = [kind |-> request.kind, pc |-> "consumer", record |-> request.record, bytes |-> request.bytes, wallet |-> request.wallet,
           gate |-> request.gate, checked |-> request.checked, detail |-> request.detail, access |-> request.access, answer |-> request.answer]
          /\ Detail!World
      BY <1>0, <1>7, <2>2 DEF RequestShape, Detail!DetailReadFails, Detail!Goto
    <3>2. SeenSince' /\ VerifyBinds'
      BY <2>2, <3>1 DEF SealedInv, SeenSince, VerifyBinds, Detail!World
    <3>3. DetailBinds'
      BY <2>2, <3>1 DEF SealedInv, DetailBinds, AnsweredFor, Detail!NoDetail
    <3>. QED
      BY <3>1, <3>2, <3>3 DEF SealedInv, RequestShape
  <2>3. CASE request.pc = "consumer"
    BY <1>7, <1>v, <2>3 DEF Detail!DetailReadFails
  <2>. QED
    BY <1>7, <2>1, <2>2, <2>3 DEF Detail!DetailReadFails
<1>8. CASE Detail!DetailTimesOut
  BY <1>8, <1>d DEF Detail!DetailTimesOut, Detail!Enriching, Detail!Unavailable
<1>9. ASSUME NEW settles \in {"ok", "failed"}, Detail!AccessSettles(settles)
      PROVE  SealedInv'
  <2>1. CASE settles = "failed"
    BY <1>9, <2>1, SealedFails DEF Detail!AccessSettles
  <2>2. CASE settles # "failed"
    <3>1. /\ request' = [kind |-> request.kind, pc |-> request.pc, record |-> request.record, bytes |-> request.bytes, wallet |-> request.wallet,
           gate |-> request.gate, checked |-> request.checked, detail |-> request.detail, access |-> "ok", answer |-> request.answer]
          /\ Detail!World
      BY <1>0, <1>9, <2>2 DEF RequestShape, Detail!AccessSettles
    <3>2. SeenSince' /\ VerifyBinds'
      BY <3>1 DEF SealedInv, SeenSince, VerifyBinds, Detail!World
    <3>3. DetailBinds'
      BY <3>1 DEF SealedInv, DetailBinds, AnsweredFor, Detail!World
    <3>. QED
      BY <3>1, <3>2, <3>3 DEF SealedInv, RequestShape
  <2>. QED
    BY <2>1, <2>2
<1>10. CASE Detail!Respond
  <2>1. /\ request' = [kind |-> request.kind, pc |-> "answered", record |-> request.record, bytes |-> request.bytes, wallet |-> request.wallet,
           gate |-> request.gate, checked |-> request.checked, detail |-> request.detail, access |-> request.access, answer |-> "200"]
        /\ Detail!World /\ request.pc = "detailed"
    BY <1>0, <1>10 DEF RequestShape, Detail!Respond
  <2>2. SeenSince' /\ VerifyBinds'
    BY <2>1 DEF SealedInv, SeenSince, VerifyBinds, Detail!World
  <2>3. DetailBinds'
    BY <2>1 DEF SealedInv, DetailBinds, AnsweredFor, Detail!World, Detail!NoDetail
  <2>. QED
    BY <2>1, <2>2, <2>3 DEF SealedInv, RequestShape
<1>11. ASSUME NEW v \in Detail!Versions, NEW w \in Wallets, Detail!ReadProofById(v, w)
       PROVE  SealedInv'
  <2>1. /\ request' = [kind |-> request.kind, pc |-> "bytes", record |-> [version |-> v, active |-> TRUE, subject |-> w], bytes |-> request.bytes, wallet |-> request.wallet,
           gate |-> request.gate, checked |-> request.checked, detail |-> request.detail, access |-> request.access, answer |-> request.answer]
        /\ Detail!World /\ request.pc = "locate"
    BY <1>0, <1>11 DEF RequestShape, Detail!ReadProofById
  <2>2. SeenSince' /\ VerifyBinds'
    BY <2>1 DEF SealedInv, SeenSince, VerifyBinds, Detail!World
  <2>3. DetailBinds'
    BY <2>1 DEF SealedInv, DetailBinds, AnsweredFor, Detail!World, Detail!NoDetail
  <2>. QED
    BY <2>1, <2>2, <2>3 DEF SealedInv, RequestShape
<1>12. ASSUME NEW b \in Detail!Bytes, Detail!DownloadProofEvidence(b)
       PROVE  SealedInv'
  <2>1. CASE Detail!EnvelopeBinds(b, request.record)
    <3>1. /\ request' = [kind |-> request.kind, pc |-> "compute", record |-> request.record, bytes |-> b, wallet |-> request.wallet,
           gate |-> request.gate, checked |-> request.checked, detail |-> request.detail, access |-> request.access, answer |-> request.answer]
          /\ Detail!World /\ request.pc = "bytes"
      BY <1>0, <1>12, <2>1 DEF RequestShape, Detail!DownloadProofEvidence
    <3>2. SeenSince' /\ VerifyBinds'
      BY <2>1, <3>1 DEF SealedInv, SeenSince, VerifyBinds, Detail!World
    <3>3. DetailBinds'
      BY <3>1 DEF SealedInv, DetailBinds, Detail!NoDetail
    <3>. QED
      BY <3>1, <3>2, <3>3 DEF SealedInv, RequestShape
  <2>2. CASE ~Detail!EnvelopeBinds(b, request.record)
    BY <1>12, <2>2, SealedFails DEF Detail!DownloadProofEvidence
  <2>. QED
    BY <2>1, <2>2
<1>13. ASSUME NEW p \in Detail!Proofs, Detail!ResolveService(p)
       PROVE  SealedInv'
  <2>1. CASE request.bytes.signer = signer
    <3>1. /\ request' = [kind |-> request.kind, pc |-> request.pc, record |-> request.record, bytes |-> request.bytes, wallet |-> request.wallet,
           gate |-> request.gate, checked |-> request.checked \cup {p}, detail |-> request.detail, access |-> request.access, answer |-> request.answer]
          /\ Detail!World /\ request.pc = "compute"
      BY <1>0, <1>13, <2>1 DEF RequestShape, Detail!ResolveService
    <3>2. signer \in signers
      BY <3>1 DEF SealedInv, SeenSince, VerifyBinds
    <3>3. SeenSince' /\ VerifyBinds'
      BY <2>1, <3>1, <3>2 DEF SealedInv, SeenSince, VerifyBinds, Detail!World
    <3>4. DetailBinds'
      BY <3>1 DEF SealedInv, DetailBinds, Detail!NoDetail
    <3>. QED
      BY <3>1, <3>3, <3>4 DEF SealedInv, RequestShape
  <2>2. CASE request.bytes.signer # signer
    BY <1>13, <2>2, SealedFails DEF Detail!ResolveService
  <2>. QED
    BY <2>1, <2>2
<1>14. ASSUME NEW artifact \in Detail!Versions, Detail!RecoverCommitment(artifact)
       PROVE  SealedInv'
  <2>1. CASE artifact = request.record.version
    <3>1. /\ request' = [kind |-> request.kind, pc |-> "answered", record |-> request.record, bytes |-> request.bytes, wallet |-> request.wallet,
           gate |-> request.gate, checked |-> request.checked, detail |-> request.detail, access |-> request.access, answer |-> "200"]
          /\ Detail!World /\ request.pc = "compute" /\ request.checked # {}
      BY <1>0, <1>14, <2>1 DEF RequestShape, Detail!RecoverCommitment, Detail!Proofs
    <3>2. SeenSince' /\ VerifyBinds'
      BY <3>1 DEF SealedInv, SeenSince, VerifyBinds, Detail!World
    <3>3. DetailBinds'
      BY <3>1 DEF SealedInv, DetailBinds, Detail!NoDetail
    <3>. QED
      BY <3>1, <3>2, <3>3 DEF SealedInv, RequestShape
  <2>2. CASE artifact # request.record.version
    BY <1>14, <2>2, SealedFails DEF Detail!RecoverCommitment
  <2>. QED
    BY <2>1, <2>2
<1>15. CASE Detail!Aborts
  BY <1>15, SealedFails DEF Detail!Aborts
<1>16. ASSUME NEW l, NEW w, NEW s, Detail!Changed(l, w, s)
       PROVE  SealedInv'
  <2>1. /\ UNCHANGED request /\ lease' = l /\ wallet' = w /\ signer' = s
        /\ moments' = IF moments = {} THEN {} ELSE moments \cup {Detail!Moment(l, w)}
        /\ signers' = IF signers = {} THEN {} ELSE signers \cup {s}
    BY <1>16 DEF Detail!Changed
  <2>2. SeenSince'
    BY <2>1 DEF SealedInv, SeenSince
  <2>3. moments \subseteq moments' /\ signers \subseteq signers'
    BY <2>1
  <2>4. DetailBinds' /\ VerifyBinds'
    BY <2>1, <2>3 DEF SealedInv, DetailBinds, VerifyBinds, AnsweredFor
  <2>. QED
    BY <2>1, <2>2, <2>4 DEF SealedInv, RequestShape
<1>17. CASE Detail!Reseal \/ Detail!Withdraw
  BY <1>16, <1>17 DEF Detail!Reseal, Detail!Withdraw
<1>18. ASSUME NEW w, Detail!SetWallet(w)
       PROVE  SealedInv'
  BY <1>16, <1>18 DEF Detail!SetWallet
<1>19. ASSUME NEW s, Detail!RotateSigner(s)
       PROVE  SealedInv'
  BY <1>16, <1>19 DEF Detail!RotateSigner
<1>20. CASE UNCHANGED sealedVars
  BY <1>20 DEF sealedVars, SealedInv, RequestShape, SeenSince, DetailBinds, VerifyBinds, AnsweredFor
<1>. QED
  BY <1>1, <1>2, <1>3, <1>4, <1>5, <1>6, <1>7, <1>8, <1>9, <1>10, <1>11, <1>12, <1>13, <1>14, <1>15,
     <1>17, <1>18, <1>19, <1>20 DEF Detail!Next

LEMMA ReadsStepOfDetail ==
    [ReadsNext]_<<part, chainVars, locatorVars, discoverVars, sealedVars,
                  subjectVars, riskVars, fetchVars>> => [Detail!Next]_sealedVars
  BY DEF ReadsNext, AccessStep, LocatorStep, DiscoverStep, SealedStep, SubjectStep, RiskStep, FetchStep

\* Whatever is resealed, withdrawn or renamed between the reads, the gate and the consumer
\* that are shown beside a lease answered, at one moment of the request, for its version and
\* its wallet, and evidence that is shown or called verified is that of this lease
\* (read-api.ts:188-204, :316-355 and :666-675).
THEOREM DetailsAreOfOneMoment == ReadsSpec => []ShownIsOfOneMoment
<1>1. ReadsInit => SealedInv
  BY SealedStarts DEF ReadsInit
<1>2. SealedInv /\ [ReadsNext]_<<part, chainVars, locatorVars, discoverVars, sealedVars,
                                 subjectVars, riskVars, fetchVars>> => SealedInv'
  BY ReadsStepOfDetail, SealedStepKeeps
<1>3. SealedInv => ShownIsOfOneMoment
  BY DEF SealedInv, DetailBinds, VerifyBinds, AnsweredFor, ShownIsOfOneMoment, Detail!ShownIsOfOneMoment
<1>. QED
  BY <1>1, <1>2, <1>3, PTL DEF ReadsSpec

-----------------------------------------------------------------------------
(* The current access.                                                      *)

Wallet == ResolveIdentity(agent).wallet
Lease  == proofLocks[KeyOf[agent]]
Known  == ResolveIdentity(agent).reason = ALLOWED

\* The chain at the pinned block is one that there may be.
PinnedView ==
    /\ agent \in AgentIds /\ reorged \in BOOLEAN
    /\ identity[agent] \in Identity
    /\ Lease \in ProofLock /\ Kept(Lease) /\ Lease.identityKey \in {ZeroHash, KeyOf[agent]}
    /\ now \in Nat

TrueWallet   == Ok([wallet |-> Wallet, reorged |-> FALSE])
TrueConsumer == Ok([subject |-> Wallet, version |-> Lease.version, accepted |-> CheckAgent(agent).allowed])

\* Until a reorganisation every read that settled is what the pinned block answers.
ReadsAreTrue ==
    /\ reads = [n \in Names |-> reads[n]]
    /\ ~reorged =>
         /\ \A n \in {"identity", "subject"} :
              reads[n] \in {NoRead, Failed} \/ (reads[n] = TrueWallet /\ Known)
         /\ reads["lease"] \in {NoRead, Failed, Ok(Lease)}
         /\ reads["version"] \in {NoRead, Failed, Ok(Lease.version)}
         /\ reads["gate"] \in {NoRead, Failed, Ok(CheckAgent(agent))}
         /\ reads["consumer"] \in {NoRead, Failed} \/ (reads["consumer"] = TrueConsumer /\ Known)
    /\ step = "confirm" => AllSettled
    /\ snapshot # NoRead => step = "done"

AccessInv == PinnedView /\ ReadsAreTrue /\ SnapshotIsTrue

\* What the gate answers, by the identity and by the lease.
LEMMA GateReasons ==
    ASSUME PinnedView
    PROVE  /\ CheckAgent(agent).subject = Wallet
           /\ CheckAgent(agent).reason \in 0..16
           /\ CheckAgent(agent).allowed = (CheckAgent(agent).reason = ALLOWED)
           /\ CheckAgent(agent).allowed <=> CheckAgent(agent).reason = ALLOWED
           /\ Known => /\ Wallet \in Addresses /\ CheckAgent(agent).version = Lease.version
                       /\ CheckAgent(agent).reason = Evaluate(KeyOf[agent], Wallet, Lease)
                       /\ CheckAgent(agent).reason \notin IdentityFailures
           /\ ~Known => /\ Wallet = ZeroAddress /\ CheckAgent(agent).version = 0
                        /\ CheckAgent(agent).reason \in IdentityFailures
<1>. USE DEF ALLOWED, NO_PROOF, REVOKED, DRIFTED, EXPIRED, SUBJECT_CHANGED, RUNTIME_CODE_DRIFT, POLICY_TOO_OLD,
     COVERAGE_INCOMPLETE, COMPUTE_UNVERIFIED, STORAGE_UNVERIFIED, BEHAVIORAL_RISK, CODE_RISK,
     IDENTITY_UNAVAILABLE, AGENT_NOT_FOUND, AGENT_WALLET_UNSET, IDENTITY_MISMATCH
<1>1. ReadOwner(agent) \in {ALLOWED, AGENT_NOT_FOUND, IDENTITY_UNAVAILABLE}
  <2>1. identity[agent].ownerOf \in OwnerReplies
    BY DEF PinnedView, Identity
  <2>. QED
    BY <2>1 DEF ReadOwner, OwnerReplies
<1>2. /\ ReadWallet(agent) \in {ALLOWED, AGENT_WALLET_UNSET, IDENTITY_UNAVAILABLE}
      /\ ReadWallet(agent) = ALLOWED => identity[agent].wallet \in Addresses
  <2>1. identity[agent].wallet \in Addresses \cup {ZeroAddress, Unreadable}
    BY DEF PinnedView, Identity
  <2>. QED
    BY <2>1, GateAssumption DEF ReadWallet
<1>3. /\ ResolveIdentity(agent).reason \in {ALLOWED} \cup IdentityFailures
      /\ Known => Wallet \in Addresses
      /\ ~Known => Wallet = ZeroAddress
  <2>1. CASE ReadOwner(agent) # ALLOWED
    <3>1. ResolveIdentity(agent) = [reason |-> ReadOwner(agent), wallet |-> ZeroAddress]
      BY <2>1 DEF ResolveIdentity
    <3>. QED
      BY <1>1, <2>1, <3>1 DEF Known, Wallet, IdentityFailures
  <2>2. CASE ReadOwner(agent) = ALLOWED
    <3>1. ResolveIdentity(agent) = [reason |-> ReadWallet(agent),
            wallet |-> IF ReadWallet(agent) = ALLOWED THEN identity[agent].wallet ELSE ZeroAddress]
      BY <2>2 DEF ResolveIdentity
    <3>. QED
      BY <1>2, <3>1 DEF Known, Wallet, IdentityFailures
  <2>. QED
    BY <2>1, <2>2
<1>4. PICK reason : reason = IF Known THEN Evaluate(KeyOf[agent], Wallet, Lease) ELSE ResolveIdentity(agent).reason
  OBVIOUS
<1>5. CheckAgent(agent) = [allowed |-> reason = ALLOWED, reason |-> reason, subject |-> Wallet,
                           version |-> IF ~Known THEN 0 ELSE Lease.version]
  BY <1>4 DEF CheckAgent, Known, Wallet, Lease
<1>6. Evaluate(KeyOf[agent], Wallet, Lease) \in 0..16 \ IdentityFailures
  BY DEF Evaluate, IdentityFailures
<1>7. reason \in 0..16 /\ (Known => reason \notin IdentityFailures) /\ (~Known => reason \in IdentityFailures)
  BY <1>3, <1>4, <1>6 DEF IdentityFailures, Known
<1>8. CheckAgent(agent).allowed <=> reason = ALLOWED
  <2>1. CheckAgent(agent).allowed = (reason = ALLOWED)
    BY <1>5
  <2>. QED
    BY <2>1, Zenon
<1>. QED
  BY <1>3, <1>4, <1>5, <1>7, <1>8

\* The comparison of the gate with the lease takes a true answer for one.
LEMMA TrueGateMatchesLease ==
    ASSUME PinnedView, Known PROVE GateMatchesLease(CheckAgent(agent), Lease)
<1>. USE DEF ALLOWED, NO_PROOF, REVOKED, DRIFTED, EXPIRED, SUBJECT_CHANGED, RUNTIME_CODE_DRIFT, POLICY_TOO_OLD,
     COVERAGE_INCOMPLETE, COMPUTE_UNVERIFIED, STORAGE_UNVERIFIED, BEHAVIORAL_RISK, CODE_RISK,
     IDENTITY_UNAVAILABLE, AGENT_NOT_FOUND, AGENT_WALLET_UNSET, IDENTITY_MISMATCH
<1>1. PICK gate : gate = CheckAgent(agent)
  OBVIOUS
<1>2. gate.subject = Wallet /\ gate.version = Lease.version /\ gate.reason = Evaluate(KeyOf[agent], Wallet, Lease)
  BY <1>1, GateReasons
<1>3. Lease.version # 0 => /\ Lease.identityKey = KeyOf[agent] /\ REQUIRED_COVERAGE \subseteq Lease.coverage
                          /\ BEHAVIORAL_COMPUTE_BIT \in Lease.coverage /\ STORAGE_BIT \in Lease.coverage
  BY DEF PinnedView, Kept, REQUIRED_COVERAGE, BEHAVIORAL_COMPUTE_BIT, STORAGE_BIT
<1>4. IntrinsicGateReason(gate, Lease) =
        IF Lease.version = 0 THEN NO_PROOF ELSE IF Lease.subject # Wallet THEN SUBJECT_CHANGED
        ELSE IF Lease.state = STATE_REVOKED THEN REVOKED ELSE IF Lease.state = STATE_DRIFTED THEN DRIFTED
        ELSE IF Lease.state # STATE_ACTIVE THEN IDENTITY_MISMATCH
        ELSE IF Lease.issuedAt > now \/ Lease.validUntil <= now THEN EXPIRED ELSE ALLOWED
  BY <1>2, <1>3 DEF IntrinsicGateReason
<1>5. gate.reason =
        IF Lease.version = 0 THEN NO_PROOF ELSE IF Lease.subject # Wallet THEN SUBJECT_CHANGED
        ELSE IF Lease.state = STATE_REVOKED THEN REVOKED ELSE IF Lease.state = STATE_DRIFTED THEN DRIFTED
        ELSE IF Lease.state # STATE_ACTIVE THEN IDENTITY_MISMATCH
        ELSE IF IsExpired(Lease) THEN EXPIRED
        ELSE IF Lease.policyVersion < minimumPolicyVersion THEN POLICY_TOO_OLD
        ELSE IF Lease.behavioralScore > maxBehavioralScore THEN BEHAVIORAL_RISK
        ELSE IF Lease.codeRisk > maxCodeRisk THEN CODE_RISK
        ELSE IF Lease.runtimeCodeHash # code[Wallet] THEN RUNTIME_CODE_DRIFT ELSE ALLOWED
  BY <1>2, <1>3 DEF Evaluate
<1>6. Lease.issuedAt > now \/ Lease.validUntil <= now => IsExpired(Lease)
  BY DEF IsExpired
<1>7. IF IntrinsicGateReason(gate, Lease) # ALLOWED THEN gate.reason = IntrinsicGateReason(gate, Lease)
      ELSE gate.reason \notin {NO_PROOF, REVOKED, DRIFTED, SUBJECT_CHANGED, COVERAGE_INCOMPLETE,
                               COMPUTE_UNVERIFIED, STORAGE_UNVERIFIED, IDENTITY_MISMATCH}
  BY <1>4, <1>5, <1>6
<1>. QED
  BY <1>1, <1>2, <1>7 DEF GateMatchesLease

\* A wallet that the gate's answer, or its refusal, does not explain.
LEMMA AllowedHasSubject ==
    ASSUME PinnedView, Known, Lease.subject # Wallet
    PROVE  CheckAgent(agent).reason \in {NO_PROOF, SUBJECT_CHANGED} /\ ~CheckAgent(agent).allowed
<1>. USE DEF ALLOWED, NO_PROOF, SUBJECT_CHANGED
<1>1. Lease.version # 0 => Lease.identityKey = KeyOf[agent]
  BY DEF PinnedView, Kept
<1>2. CheckAgent(agent).reason = Evaluate(KeyOf[agent], Wallet, Lease)
      /\ (CheckAgent(agent).allowed <=> CheckAgent(agent).reason = ALLOWED)
  BY GateReasons
<1>3. Evaluate(KeyOf[agent], Wallet, Lease) \in {NO_PROOF, SUBJECT_CHANGED}
  BY <1>1 DEF Evaluate
<1>. QED
  BY <1>2, <1>3

LEMMA WithdrawnIsRefused ==
    ASSUME PinnedView,
           \/ Lease.state \in {STATE_REVOKED, STATE_DRIFTED}
           \/ Lease.state = STATE_ACTIVE /\ Lease.validUntil <= now
    PROVE  ~CheckAgent(agent).allowed
<1>. USE DEF ALLOWED, NO_PROOF, REVOKED, DRIFTED, EXPIRED, SUBJECT_CHANGED, IDENTITY_MISMATCH
<1>1. CASE Known
  <2>1. Evaluate(KeyOf[agent], Wallet, Lease) # ALLOWED
    BY DEF Evaluate, IsExpired, STATE_ACTIVE, STATE_REVOKED, STATE_DRIFTED
  <2>. QED
    BY <1>1, <2>1, GateReasons
<1>2. CASE ~Known
  BY <1>2, GateReasons DEF IdentityFailures, IDENTITY_UNAVAILABLE, AGENT_NOT_FOUND, AGENT_WALLET_UNSET
<1>. QED
  BY <1>1, <1>2

\* What the settled reads hold.
Settled ==
    /\ Have("identity") => Val("identity") = [wallet |-> Wallet, reorged |-> FALSE] /\ Known
    /\ Have("lease") => Val("lease") = Lease
    /\ Have("gate") => Val("gate") = CheckAgent(agent)
    /\ Have("consumer") => /\ Known /\ Val("consumer") = [subject |-> Wallet, version |-> Lease.version,
                                                          accepted |-> CheckAgent(agent).allowed]

LEMMA SettledReads == ASSUME ReadsAreTrue, ~reorged, AllSettled PROVE Settled
<1>1. \A n \in Names : reads[n] # NoRead
  BY DEF AllSettled
<1>2. /\ reads["identity"] = Failed \/ (reads["identity"] = TrueWallet /\ Known)
      /\ reads["lease"] \in {Failed, Ok(Lease)} /\ reads["gate"] \in {Failed, Ok(CheckAgent(agent))}
      /\ reads["consumer"] = Failed \/ (reads["consumer"] = TrueConsumer /\ Known)
  BY <1>1 DEF ReadsAreTrue, Names
<1>3. Failed.status # "fulfilled" /\ \A v : Ok(v).value = v
  BY DEF Failed, Ok
<1>. QED
  BY <1>2, <1>3 DEF Settled, Have, Val, TrueWallet, TrueConsumer

LEMMA SnapshotIsBuiltTrue ==
    ASSUME PinnedView, Settled, snapshot' = BuildSnapshot, UNCHANGED <<vars, identity, agent, reads>>
    PROVE  SnapshotIsTrue'
<1>1. snapshot'.identity.reason = "OBSERVED" => snapshot'.identity.value = Wallet
  BY DEF BuildSnapshot, Unavailable, Settled
<1>2. LeaseEntry.reason # "MISMATCH"
  <2>1. Have("lease") /\ Lease.version # 0 => Val("lease").identityKey = KeyOf[agent]
    BY DEF Settled, PinnedView, Kept
  <2>2. Have("lease") => Val("lease") = Lease
    BY DEF Settled
  <2>3. LeaseBlockReason(Lease) # "MISMATCH"
    BY DEF LeaseBlockReason
  <2>4. CASE ~Have("lease")
    BY <2>4 DEF LeaseEntry, Unavailable
  <2>5. CASE Have("lease") /\ Lease.version = 0
    BY <2>2, <2>5 DEF LeaseEntry
  <2>6. CASE Have("lease") /\ Lease.version # 0
    BY <2>1, <2>2, <2>3, <2>6 DEF LeaseEntry
  <2>. QED
    BY <2>4, <2>5, <2>6
<1>3. /\ snapshot'.lease = LeaseEntry /\ snapshot'.gate = GateEntry /\ snapshot'.consumer = ConsumerEntry
  BY DEF BuildSnapshot
<1>4. Have("lease") => Val("lease") = Lease
  BY DEF Settled
<1>5. LeaseEntry.value # NoRead => LeaseEntry.value = Lease
  BY <1>4 DEF LeaseEntry, Unavailable, Mismatch
<1>6. LeaseEntry.reason \in {"REVOKED", "DRIFTED", "EXPIRED"} => ~CheckAgent(agent).allowed
  <2>1. LeaseEntry.reason \in {"REVOKED", "DRIFTED", "EXPIRED"} => LeaseEntry.reason = LeaseBlockReason(Lease)
    BY <1>4 DEF LeaseEntry, Unavailable, Mismatch
  <2>2. LeaseBlockReason(Lease) \in {"REVOKED", "DRIFTED", "EXPIRED"} =>
          \/ Lease.state \in {STATE_REVOKED, STATE_DRIFTED}
          \/ Lease.state = STATE_ACTIVE /\ Lease.validUntil <= now
    BY DEF LeaseBlockReason
  <2>. QED
    BY <2>1, <2>2, WithdrawnIsRefused
<1>7. LeaseEntry.reason = "NO_PROOF" => Lease.version = 0
  <2>1. LeaseBlockReason(Lease) # "NO_PROOF"
    BY DEF LeaseBlockReason
  <2>. QED
    BY <1>4, <2>1 DEF LeaseEntry, Unavailable, Mismatch
<1>8. GateEntry \in {Unavailable, [reason |-> "OBSERVED", value |-> CheckAgent(agent)]}
  <2>1. CASE Have("gate")
    <3>1. PICK gate : gate = CheckAgent(agent)
      OBVIOUS
    <3>2. Val("gate") = gate
      BY <2>1, <3>1 DEF Settled
    <3>3. ValidGate(gate)
      <4>1. gate.reason \in 0..16 /\ gate.allowed = (gate.reason = ALLOWED)
        BY <3>1, GateReasons
      <4>2. IF gate.reason \in IdentityFailures THEN gate.subject = ZeroAddress /\ gate.version = 0
            ELSE gate.subject # ZeroAddress
        <5>1. Known => gate.reason \notin IdentityFailures /\ gate.subject = Wallet /\ Wallet # ZeroAddress
          BY <3>1, GateReasons, RegistryAssumption
        <5>2. ~Known => gate.reason \in IdentityFailures /\ gate.subject = ZeroAddress /\ gate.version = 0
          BY <3>1, GateReasons
        <5>. QED
          BY <5>1, <5>2
      <4>. QED
        BY <4>1, <4>2 DEF ValidGate
    <3>4. PairMatches
      <4>1. Have("consumer") => /\ Known
                                /\ Val("consumer").subject = Wallet /\ Val("consumer").version = Lease.version
                                /\ Val("consumer").accepted = gate.allowed
        BY <3>1 DEF Settled
      <4>2. Known => gate.subject = Wallet /\ gate.version = Lease.version
        BY <3>1, GateReasons
      <4>. QED
        BY <3>2, <4>1, <4>2 DEF PairMatches
    <3>5. CASE gate.reason \in IdentityFailures
      <4>1. ~Known
        BY <3>1, <3>5, GateReasons
      <4>2. ~Have("identity")
        BY <4>1 DEF Settled
      <4>. QED
        BY <2>1, <3>1, <3>2, <3>3, <3>4, <3>5, <4>2 DEF GateEntry, GateProvenanceConsistent
    <3>6. CASE gate.reason \notin IdentityFailures
      <4>1. Known /\ gate.subject = Wallet
        BY <3>1, <3>6, GateReasons
      <4>2. Have("identity") => gate.subject = Val("identity").wallet
        BY <4>1 DEF Settled
      <4>3. Have("lease") => GateMatchesLease(gate, Val("lease"))
        BY <1>4, <3>1, <4>1, TrueGateMatchesLease
      <4>. QED
        BY <2>1, <3>1, <3>2, <3>3, <3>4, <3>6, <4>2, <4>3 DEF GateEntry, GateProvenanceConsistent
    <3>. QED
      BY <3>5, <3>6
  <2>2. CASE ~Have("gate")
    BY <2>2 DEF GateEntry
  <2>. QED
    BY <2>1, <2>2
<1>9. PICK consumer : consumer = [subject |-> Wallet, version |-> Lease.version,
                                  accepted |-> CheckAgent(agent).allowed]
  OBVIOUS
<1>10. \/ ConsumerEntry \in {Unavailable, [reason |-> "OBSERVED", value |-> consumer]}
       \/ ConsumerEntry = Mismatch /\ LeaseOfAnother
  <2>1. CASE Have("consumer")
    <3>1. Known /\ Val("consumer") = consumer
      BY <1>9, <2>1 DEF Settled
    <3>2. consumer.subject = Wallet /\ consumer.version = Lease.version /\ consumer.accepted = CheckAgent(agent).allowed
      BY <1>9
    <3>3. Have("identity") => consumer.subject = Val("identity").wallet
      BY <3>2 DEF Settled
    <3>4. Have("gate") => PairMatches
      <4>1. Have("gate") => Val("gate") = CheckAgent(agent)
        BY DEF Settled
      <4>2. CheckAgent(agent).subject = Wallet /\ CheckAgent(agent).version = Lease.version
        BY <3>1, GateReasons
      <4>. QED
        BY <3>1, <3>2, <4>1, <4>2 DEF PairMatches
    <3>5. CASE Have("lease") /\ ConsumerSubjectContradictsLease
      <4>1. Lease.subject # Wallet
        BY <1>4, <3>1, <3>2, <3>5 DEF ConsumerSubjectContradictsLease
      <4>2. CheckAgent(agent).reason \in {NO_PROOF, SUBJECT_CHANGED} /\ ~consumer.accepted
        BY <3>1, <3>2, <4>1, AllowedHasSubject
      <4>3. ~Have("gate")
        BY <3>1, <3>5, <4>2 DEF ConsumerSubjectContradictsLease, Settled
      <4>4. LeaseOfAnother
        BY <1>4, <2>1, <3>1, <3>2, <3>5, <4>1, <4>3 DEF LeaseOfAnother
      <4>. QED
        BY <2>1, <3>1, <4>4 DEF ConsumerEntry
    <3>6. CASE ~(Have("lease") /\ ConsumerSubjectContradictsLease)
      <4>1. ConsumerProvenanceConsistent
        BY <1>4, <3>1, <3>2, <3>3, <3>4, <3>6 DEF ConsumerProvenanceConsistent
      <4>. QED
        BY <2>1, <3>1, <4>1 DEF ConsumerEntry
    <3>. QED
      BY <3>5, <3>6
  <2>2. CASE ~Have("consumer")
    BY <2>2 DEF ConsumerEntry
  <2>. QED
    BY <2>1, <2>2
<1>11. /\ Wallet' = Wallet /\ Lease' = Lease /\ CheckAgent(agent)' = CheckAgent(agent)
       /\ Unavailable' = Unavailable /\ Mismatch' = Mismatch /\ LeaseOfAnother' = LeaseOfAnother
  BY DEF vars, Wallet, Lease, ResolveIdentity, ReadOwner, ReadWallet, CheckAgent, Evaluate, IsExpired,
         Unavailable, Mismatch, LeaseOfAnother, Have, Val
<1>12. SnapshotIsTrue' =
         (snapshot' # NoRead =>
           /\ snapshot'.identity.reason = "OBSERVED" => snapshot'.identity.value = Wallet
           /\ snapshot'.lease.reason # "MISMATCH"
           /\ snapshot'.lease.value # NoRead => snapshot'.lease.value = Lease
           /\ snapshot'.lease.reason \in {"REVOKED", "DRIFTED", "EXPIRED"} => ~CheckAgent(agent).allowed
           /\ snapshot'.lease.reason = "NO_PROOF" => Lease.version = 0
           /\ snapshot'.gate \in {Unavailable, [reason |-> "OBSERVED", value |-> CheckAgent(agent)]}
           /\ \/ snapshot'.consumer \in {Unavailable,
                   [reason |-> "OBSERVED", value |->
                      [subject |-> Wallet, version |-> Lease.version, accepted |-> CheckAgent(agent).allowed]]}
              \/ snapshot'.consumer = Mismatch /\ LeaseOfAnother)
  BY <1>11 DEF SnapshotIsTrue, Wallet, Lease
<1>. QED
  BY <1>1, <1>2, <1>3, <1>5, <1>6, <1>7, <1>8, <1>9, <1>10, <1>12

LEMMA AccessStarts == ASSUME AccessInit PROVE AccessInv
<1>1. PICK view \in Views : view.lock.identityKey \in {ZeroHash, KeyOf[agent]} /\ Shows(view, agent)
  BY DEF AccessInit
<1>2. view \in View /\ Kept(view.lock) /\ agent \in AgentIds
  BY AccessAssumption DEF AccessInit
<1>3. KeyOf[agent] \in Keys
  BY <1>2, GateAssumption DEF Keys
<1>4. Lease = view.lock /\ identity[agent] = view.identity /\ now = view.now
  BY <1>1, <1>2, <1>3 DEF Shows, Lease
<1>5. PinnedView
  <2>1. view.lock \in ProofLock /\ view.identity \in Identity /\ view.now \in Nat
    BY <1>2 DEF View
  <2>. QED
    BY <1>1, <1>2, <1>4, <2>1 DEF PinnedView, AccessInit
<1>6. ReadsAreTrue
  <2>1. reads = [n \in Names |-> NoRead] /\ step = "pin" /\ snapshot = NoRead
    BY DEF AccessInit
  <2>2. \A n \in Names : reads[n] = NoRead
    BY <2>1
  <2>3. reads = [n \in Names |-> reads[n]]
    BY <2>1
  <2>. QED
    BY <2>1, <2>2, <2>3 DEF ReadsAreTrue, Names
<1>7. SnapshotIsTrue
  BY DEF AccessInit, SnapshotIsTrue
<1>. QED
  BY <1>5, <1>6, <1>7 DEF AccessInv

\* The chain at the pinned block stands still.
LEMMA PinnedStands ==
    ASSUME Rest
    PROVE  /\ Wallet' = Wallet /\ Lease' = Lease /\ CheckAgent(agent)' = CheckAgent(agent) /\ (Known <=> Known')
           /\ TrueWallet' = TrueWallet /\ TrueConsumer' = TrueConsumer
           /\ PinnedView /\ reorged' \in BOOLEAN => PinnedView'
<1>1. Wallet' = Wallet /\ Lease' = Lease /\ CheckAgent(agent)' = CheckAgent(agent) /\ (Known <=> Known')
  BY DEF Rest, vars, Wallet, Lease, Known, ResolveIdentity, ReadOwner, ReadWallet, CheckAgent, Evaluate, IsExpired
<1>2. TrueWallet' = TrueWallet /\ TrueConsumer' = TrueConsumer
  BY <1>1 DEF TrueWallet, TrueConsumer, Ok
<1>3. PinnedView /\ reorged' \in BOOLEAN => PinnedView'
  BY <1>1 DEF Rest, vars, PinnedView, Kept
<1>. QED
  BY <1>1, <1>2, <1>3

\* A read that settles with what the pinned block answers, or fails.
LEMMA ReadSettles ==
    ASSUME AccessInv, NEW n \in Names, NEW result, Reads(n, result) \/ (result = Failed /\ ReadFails(n)),
           ~reorged =>
             /\ n \in {"identity", "subject"} => result = Failed \/ (result = TrueWallet /\ Known)
             /\ n = "lease" => result \in {Failed, Ok(Lease)}
             /\ n = "version" => result \in {Failed, Ok(Lease.version)}
             /\ n = "gate" => result \in {Failed, Ok(CheckAgent(agent))}
             /\ n = "consumer" => result = Failed \/ (result = TrueConsumer /\ Known)
    PROVE  AccessInv'
<1>1. /\ reads' = [reads EXCEPT ![n] = result] /\ UNCHANGED <<reorged, step, snapshot>> /\ Rest /\ step = "reads"
  BY DEF Reads, ReadFails
<1>2. PinnedView'
  BY <1>1, PinnedStands DEF AccessInv, PinnedView
<1>3. snapshot' = NoRead
  BY <1>1 DEF AccessInv, ReadsAreTrue
<1>4. SnapshotIsTrue'
  BY <1>3 DEF SnapshotIsTrue
<1>5. /\ reads = [m \in Names |-> reads[m]]
      /\ \A m \in Names : reads'[m] = IF m = n THEN result ELSE reads[m]
      /\ reads' = [m \in Names |-> reads'[m]]
  BY <1>1 DEF AccessInv, ReadsAreTrue
<1>6. ReadsAreTrue'
  <2>1. ~reorged' =>
         /\ \A m \in {"identity", "subject"} :
              reads'[m] \in {NoRead, Failed} \/ (reads'[m] = TrueWallet /\ Known)
         /\ reads'["lease"] \in {NoRead, Failed, Ok(Lease)}
         /\ reads'["version"] \in {NoRead, Failed, Ok(Lease.version)}
         /\ reads'["gate"] \in {NoRead, Failed, Ok(CheckAgent(agent))}
         /\ reads'["consumer"] \in {NoRead, Failed} \/ (reads'["consumer"] = TrueConsumer /\ Known)
    BY <1>1, <1>5 DEF AccessInv, ReadsAreTrue, Names
  <2>2. /\ Failed' = Failed /\ Ok(Lease)' = Ok(Lease) /\ Ok(Lease.version)' = Ok(Lease.version)
        /\ Ok(CheckAgent(agent))' = Ok(CheckAgent(agent))
    BY <1>1, PinnedStands DEF Failed, Ok
  <2>. QED
    BY <1>1, <1>3, <1>5, <2>1, <2>2, PinnedStands DEF ReadsAreTrue
<1>. QED
  BY <1>2, <1>4, <1>6 DEF AccessInv

\* A step that settles no read and publishes nothing.
LEMMA AccessMoves ==
    ASSUME AccessInv, Rest, UNCHANGED <<reads, snapshot>>, reorged' \in BOOLEAN, reorged => reorged',
           step' = "confirm" => AllSettled,
           snapshot # NoRead => step' = "done"
    PROVE  AccessInv'
<1>1. PinnedView'
  BY PinnedStands DEF AccessInv
<1>2. /\ Failed' = Failed /\ Ok(Lease)' = Ok(Lease) /\ Ok(Lease.version)' = Ok(Lease.version)
      /\ Ok(CheckAgent(agent))' = Ok(CheckAgent(agent))
  BY PinnedStands DEF Failed, Ok
<1>3. ReadsAreTrue'
  BY <1>2, PinnedStands DEF AccessInv, ReadsAreTrue, AllSettled
<1>4. SnapshotIsTrue'
  <2>1. Unavailable' = Unavailable /\ Mismatch' = Mismatch /\ (LeaseOfAnother' <=> LeaseOfAnother)
    BY DEF Unavailable, Mismatch, LeaseOfAnother, Have, Val
  <2>. QED
    BY <2>1, PinnedStands DEF AccessInv, SnapshotIsTrue, Wallet, Lease
<1>. QED
  BY <1>1, <1>3, <1>4 DEF AccessInv

LEMMA AccessStepKeeps ==
    ASSUME AccessInv, [AccessNext]_<<vars, identity, accessVars>>
    PROVE  AccessInv'
<1>0. PinnedView /\ ReadsAreTrue
  BY DEF AccessInv
<1>1. CASE PinFinalizedBlock
  BY <1>0, <1>1, AccessMoves DEF PinFinalizedBlock, Goto, PinnedView, ReadsAreTrue
<1>2. Resolution = Failed \/ (~reorged => Resolution = TrueWallet /\ Known)
  <2>. SUFFICES ASSUME ~reorged, Resolution # Failed
                PROVE  Resolution = TrueWallet /\ Known
    OBVIOUS
  <2>1. reorged = FALSE
    BY <1>0 DEF PinnedView
  <2>2. Resolved = ResolveIdentity(agent)
    BY DEF Resolved
  <2>3. Known /\ Resolution = Ok([wallet |-> Wallet, reorged |-> reorged])
    BY <2>2 DEF Resolution, Known, Wallet
  <2>. QED
    BY <2>1, <2>3 DEF TrueWallet
<1>3. CASE ReadIdentity
  BY <1>2, <1>3, ReadSettles DEF ReadIdentity, Names
<1>4. CASE ReadSubject
  BY <1>2, <1>4, ReadSettles DEF ReadSubject, Names
<1>5. ~reorged => Lock = Lease /\ Gate = CheckAgent(agent)
  BY DEF Lock, Lease, Gate
<1>6. CASE ReadLease
  BY <1>5, <1>6, ReadSettles DEF ReadLease, Names
<1>7. CASE ReadGate
  BY <1>5, <1>7, ReadSettles DEF ReadGate, Names
<1>8. CASE ReadVersion
  BY <1>5, <1>8, ReadSettles DEF ReadVersion, Names
<1>9. CASE SimulateConsumer
  <2>1. PICK result : /\ Reads("consumer", result)
                      /\ reads["subject"] # NoRead /\ reads["version"] # NoRead
                      /\ result = IF Failed \in {reads["subject"], reads["version"]} THEN Failed
                                  ELSE Ok([subject |-> reads["subject"].value.wallet,
                                           version |-> reads["version"].value,
                                           accepted |-> Gate.allowed /\ Gate.subject = reads["subject"].value.wallet])
    BY <1>9 DEF SimulateConsumer
  <2>2. ASSUME ~reorged, result # Failed
        PROVE  result = TrueConsumer /\ Known
    <3>1. reads["subject"] = TrueWallet /\ Known /\ reads["version"] = Ok(Lease.version)
      BY <1>0, <2>1, <2>2 DEF ReadsAreTrue
    <3>2. reads["subject"].value.wallet = Wallet /\ reads["version"].value = Lease.version
      BY <3>1 DEF TrueWallet, Ok
    <3>3. Gate = CheckAgent(agent)
      BY <1>5, <2>2
    <3>4. PICK accepted \in BOOLEAN : accepted = CheckAgent(agent).allowed
      BY <1>0, GateReasons
    <3>5. CheckAgent(agent).subject = Wallet
      BY <1>0, GateReasons
    <3>6. (Gate.allowed /\ Gate.subject = Wallet) = accepted
      BY <3>3, <3>4, <3>5
    <3>7. result = Ok([subject |-> Wallet, version |-> Lease.version,
                       accepted |-> (Gate.allowed /\ Gate.subject = Wallet)])
      BY <2>1, <2>2, <3>2
    <3>. QED
      BY <3>1, <3>4, <3>6, <3>7 DEF TrueConsumer
  <2>. QED
    BY <2>1, <2>2, ReadSettles DEF Names
<1>10. ASSUME NEW n \in Names, ReadFails(n) PROVE AccessInv'
  BY <1>10, ReadSettles
<1>11. CASE AssertResolvedBinding
  BY <1>0, <1>11, AccessMoves DEF AssertResolvedBinding, Goto, PinnedView, ReadsAreTrue
<1>12. CASE ConfirmPinnedBlock
  <2>1. CASE reorged
    BY <1>0, <1>12, <2>1, AccessMoves DEF ConfirmPinnedBlock, Goto, PinnedView, ReadsAreTrue
  <2>2. CASE ~reorged
    <3>1. /\ snapshot' = BuildSnapshot /\ step' = "done" /\ UNCHANGED <<reorged, reads>> /\ Rest
          /\ step = "confirm"
      BY <1>12, <2>2 DEF ConfirmPinnedBlock, Goto
    <3>2. Settled
      BY <1>0, <2>2, <3>1, SettledReads DEF ReadsAreTrue
    <3>3. SnapshotIsTrue'
      BY <1>0, <3>1, <3>2, SnapshotIsBuiltTrue DEF Rest
    <3>4. PinnedView'
      BY <1>0, <3>1, PinnedStands DEF PinnedView
    <3>5. /\ Failed' = Failed /\ Ok(Lease)' = Ok(Lease) /\ Ok(Lease.version)' = Ok(Lease.version)
          /\ Ok(CheckAgent(agent))' = Ok(CheckAgent(agent))
      BY <3>1, PinnedStands DEF Failed, Ok
    <3>6. ReadsAreTrue'
      BY <1>0, <3>1, <3>5, PinnedStands DEF ReadsAreTrue
    <3>. QED
      BY <3>3, <3>4, <3>6 DEF AccessInv
  <2>. QED
    BY <2>1, <2>2
<1>13. CASE Rejects
  BY <1>0, <1>13, AccessMoves DEF Rejects, Goto, PinnedView, ReadsAreTrue
<1>14. CASE Reorg
  BY <1>0, <1>14, AccessMoves DEF Reorg, PinnedView, ReadsAreTrue
<1>15. CASE UNCHANGED <<vars, identity, accessVars>>
  BY <1>0, <1>15, AccessMoves DEF accessVars, Rest, PinnedView, ReadsAreTrue
<1>. QED
  BY <1>1, <1>3, <1>4, <1>6, <1>7, <1>8, <1>9, <1>10, <1>11, <1>12, <1>13, <1>14, <1>15 DEF AccessNext

AccessRestsOrInv == IF part = "access" THEN AccessInv ELSE snapshot = NoRead

\* A snapshot that is published shows the pinned block and nothing else, for every lease, every
\* identity and every code there may be, whatever fails or reorganises meanwhile
\* (current-observations.ts:76-98 and :305-375).
THEOREM SnapshotsAreTrue == ReadsSpec => []SnapshotIsTrue
<1>1. ReadsInit => AccessRestsOrInv
  BY AccessStarts DEF ReadsInit, AccessRests, AccessRestsOrInv
<1>2. AccessRestsOrInv /\ [ReadsNext]_<<part, chainVars, locatorVars, discoverVars, sealedVars,
                                        subjectVars, riskVars, fetchVars>> => AccessRestsOrInv'
  <2>. SUFFICES ASSUME AccessRestsOrInv,
                       [ReadsNext]_<<part, chainVars, locatorVars, discoverVars, sealedVars,
                                     subjectVars, riskVars, fetchVars>>
                PROVE  AccessRestsOrInv'
    OBVIOUS
  <2>1. part' = part /\ (\/ part = "access" /\ AccessNext
                         \/ UNCHANGED <<vars, identity, accessVars>>)
    BY DEF ReadsNext, AccessStep, LocatorStep, DiscoverStep, SealedStep, SubjectStep, RiskStep, FetchStep, chainVars
  <2>2. CASE part = "access"
    BY <2>1, <2>2, AccessStepKeeps DEF AccessRestsOrInv
  <2>3. CASE part # "access"
    BY <2>1, <2>3 DEF AccessRestsOrInv, accessVars
  <2>. QED
    BY <2>2, <2>3
<1>3. AccessRestsOrInv => SnapshotIsTrue
  BY DEF AccessRestsOrInv, AccessInv, SnapshotIsTrue
<1>. QED
  BY <1>1, <1>2, <1>3, PTL DEF ReadsSpec

-----------------------------------------------------------------------------
(* The list of sealed agents.                                               *)

LEMMA CardinalityOfDiscovery ==
    ASSUME NEW S PROVE Discover!Cardinality(S) = Cardinality(S)
  BY DEF Discover!Cardinality, Cardinality

\* How many elements of a set are newer than a block of it.
Newer(S, n) == Cardinality({m \in S : m > n})

LEMMA NewerFalls ==
    ASSUME NEW S, S \subseteq Int, IsFiniteSet(S), NEW m \in S, NEW n \in S, m > n
    PROVE  Newer(S, m) < Newer(S, n) /\ Newer(S, m) \in Nat /\ Newer(S, n) \in Nat
<1>1. PICK M, N : M = {k \in S : k > m} /\ N = {k \in S : k > n}
  OBVIOUS
<1>2. M \subseteq N /\ m \in N /\ m \notin M /\ N \subseteq S
  <2>1. m \in Int /\ n \in Int /\ \A k \in S : k \in Int
    OBVIOUS
  <2>2. \A k \in S : k > m => k > n
    BY <2>1
  <2>3. m \in N /\ m \notin M /\ N \subseteq S
    BY <1>1, <2>1
  <2>4. M \subseteq N
    BY <1>1, <2>2
  <2>. QED
    BY <2>3, <2>4
<1>3. IsFiniteSet(N) /\ IsFiniteSet(M) /\ Cardinality(M) <= Cardinality(N) /\ (Cardinality(N) = Cardinality(M) => N = M)
  BY <1>2, FS_Subset
<1>4. Cardinality(M) \in Nat /\ Cardinality(N) \in Nat /\ Cardinality(M) # Cardinality(N)
  BY <1>2, <1>3, FS_CardinalityType
<1>. QED
  BY <1>1, <1>3, <1>4 DEF Newer

\* Each count below the size of a set is that of one block: the blocks are ranked.
LEMMA Ranked ==
    ASSUME NEW S, S \subseteq Int, IsFiniteSet(S)
    PROVE  /\ Cardinality(S) \in Nat
           /\ \A n \in S : Newer(S, n) \in 0..(Cardinality(S) - 1)
           /\ \A m, n \in S : Newer(S, m) = Newer(S, n) => m = n
           /\ \A k \in 0..(Cardinality(S) - 1) : \E n \in S : Newer(S, n) = k
<1>1. Cardinality(S) \in Nat
  BY FS_CardinalityType
<1>2. ASSUME NEW n \in S PROVE Newer(S, n) \in 0..(Cardinality(S) - 1)
  <2>1. PICK N : N = {k \in S : k > n}
    OBVIOUS
  <2>2. N \subseteq S /\ n \notin N
    BY <2>1
  <2>3. IsFiniteSet(N) /\ Cardinality(N) <= Cardinality(S) /\ (Cardinality(S) = Cardinality(N) => S = N)
    BY <2>2, FS_Subset
  <2>4. Cardinality(N) \in Nat /\ Cardinality(N) # Cardinality(S)
    BY <2>2, <2>3, FS_CardinalityType
  <2>. QED
    BY <1>1, <2>1, <2>3, <2>4 DEF Newer
<1>3. ASSUME NEW m \in S, NEW n \in S, Newer(S, m) = Newer(S, n) PROVE m = n
  <2>1. ASSUME m > n PROVE FALSE
    <3>1. Newer(S, m) < Newer(S, n) /\ Newer(S, m) \in Nat /\ Newer(S, n) \in Nat
      BY <2>1, NewerFalls
    <3>. QED
      BY <1>3, <3>1
  <2>2. ASSUME n > m PROVE FALSE
    <3>1. Newer(S, n) < Newer(S, m) /\ Newer(S, m) \in Nat /\ Newer(S, n) \in Nat
      BY <2>2, NewerFalls
    <3>. QED
      BY <1>3, <3>1
  <2>. QED
    BY <2>1, <2>2
<1>4. ASSUME NEW k \in 0..(Cardinality(S) - 1) PROVE \E n \in S : Newer(S, n) = k
  <2>. SUFFICES ASSUME \A n \in S : Newer(S, n) # k
                PROVE  FALSE
    OBVIOUS
  <2>1. PICK T : T = (0..(Cardinality(S) - 1)) \ {k}
    OBVIOUS
  <2>2. IsFiniteSet(0..(Cardinality(S) - 1)) /\ Cardinality(0..(Cardinality(S) - 1)) = Cardinality(S)
    <3>1. PICK last \in Int : last = Cardinality(S) - 1
      BY <1>1
    <3>2. IsFiniteSet(0..last) /\ Cardinality(0..last) = IF 0 > last THEN 0 ELSE last - 0 + 1
      BY FS_Interval
    <3>. QED
      BY <1>1, <3>1, <3>2
  <2>3. IsFiniteSet(T) /\ Cardinality(T) = Cardinality(S) - 1
    <3>1. PICK ranks : ranks = 0..(Cardinality(S) - 1)
      OBVIOUS
    <3>2. IsFiniteSet(ranks) /\ k \in ranks /\ T = ranks \ {k}
      BY <2>1, <2>2, <3>1
    <3>3. IsFiniteSet(ranks \ {k}) /\ Cardinality(ranks \ {k}) = Cardinality(ranks) - 1
      BY <3>2, FS_RemoveElement
    <3>. QED
      BY <2>2, <3>1, <3>2, <3>3
  <2>4. PICK f : f = [n \in S |-> Newer(S, n)]
    OBVIOUS
  <2>5. f \in [S -> T]
    BY <1>2, <2>1, <2>4
  <2>6. Cardinality(T) < Cardinality(S)
    BY <1>1, <2>3
  <2>7. \E m, n \in S : m # n /\ f[m] = f[n]
    BY <2>3, <2>5, <2>6, FS_PigeonHole
  <2>. QED
    BY <1>3, <2>4, <2>7
<1>. QED
  BY <1>1, <1>2, <1>3, <1>4

LEMMA NewestIsRanked ==
    ASSUME NEW S, S \subseteq Int, IsFiniteSet(S)
    PROVE  /\ \A i \in 1..Cardinality(S) :
                Discover!Newest(S, i) \in S /\ Newer(S, Discover!Newest(S, i)) = i - 1
           /\ \A n \in S : \E i \in 1..Cardinality(S) : n = Discover!Newest(S, i)
<1>0. /\ Cardinality(S) \in Nat
      /\ \A n \in S : Newer(S, n) \in 0..(Cardinality(S) - 1)
      /\ \A m, n \in S : Newer(S, m) = Newer(S, n) => m = n
      /\ \A k \in 0..(Cardinality(S) - 1) : \E n \in S : Newer(S, n) = k
  BY Ranked
<1>1. ASSUME NEW i \in 1..Cardinality(S)
      PROVE  Discover!Newest(S, i) \in S /\ Newer(S, Discover!Newest(S, i)) = i - 1
  <2>1. \A n \in S : Discover!Cardinality({m \in S : m > n}) = Newer(S, n)
    BY CardinalityOfDiscovery DEF Newer
  <2>2. i - 1 \in 0..(Cardinality(S) - 1)
    BY <1>0
  <2>3. \E n \in S : Discover!Cardinality({m \in S : m > n}) = i - 1
    BY <1>0, <2>1, <2>2
  <2>4. /\ Discover!Newest(S, i) \in S
        /\ Discover!Cardinality({m \in S : m > Discover!Newest(S, i)}) = i - 1
    BY <2>3 DEF Discover!Newest
  <2>. QED
    BY <2>1, <2>4
<1>2. ASSUME NEW n \in S PROVE \E i \in 1..Cardinality(S) : n = Discover!Newest(S, i)
  <2>1. PICK i : i = Newer(S, n) + 1
    OBVIOUS
  <2>2. i \in 1..Cardinality(S) /\ Newer(S, n) = i - 1
    BY <1>0, <2>1
  <2>3. Discover!Newest(S, i) \in S /\ Newer(S, Discover!Newest(S, i)) = Newer(S, n)
    BY <1>1, <2>2
  <2>. QED
    BY <1>0, <2>2, <2>3
<1>. QED
  BY <1>1, <1>2

\* The events of a window on a chain, and the newest of each identity.
EventsOf(c) == {n \in Discover!FromBlock..Discover!ToBlock : c[n] # NoSeal}
NewestOf(c) == {n \in EventsOf(c) : \A m \in EventsOf(c) : m > n => c[m] # c[n]}

LEMMA WindowIsOfTheChain ==
    /\ Discover!ToBlock \in Int /\ Discover!FromBlock \in Int /\ Discover!FromBlock >= 1
<1>1. Discover!ToBlock \in Int
  BY LocatorAssumption, DiscoveryAssumption DEF Discover!ToBlock
<1>2. Discover!Floor \in Nat /\ Discover!Floor >= 1
  BY DiscoveryAssumption DEF Discover!Floor
<1>. QED
  BY <1>1, <1>2, DiscoveryAssumption DEF Discover!FromBlock

LEMMA EventsAreFinite ==
    ASSUME NEW c
    PROVE  /\ IsFiniteSet(EventsOf(c)) /\ EventsOf(c) \subseteq Int
           /\ IsFiniteSet(NewestOf(c)) /\ NewestOf(c) \subseteq Int
<1>1. IsFiniteSet(Discover!FromBlock..Discover!ToBlock)
  BY WindowIsOfTheChain, FS_Interval
<1>2. EventsOf(c) \subseteq Discover!FromBlock..Discover!ToBlock /\ NewestOf(c) \subseteq EventsOf(c)
  BY DEF EventsOf, NewestOf
<1>3. IsFiniteSet(EventsOf(c)) /\ IsFiniteSet(NewestOf(c))
  BY <1>1, <1>2, FS_Subset
<1>. QED
  BY <1>2, <1>3, WindowIsOfTheChain

\* Each announced identity has its newest event.
LEMMA EachHasItsNewest ==
    ASSUME NEW c, NEW n \in EventsOf(c)
    PROVE  \E m \in NewestOf(c) : c[m] = c[n]
<1>1. PICK S : S = {m \in EventsOf(c) : c[m] = c[n]}
  OBVIOUS
<1>2. S \subseteq EventsOf(c) /\ n \in S
  BY <1>1
<1>3. IsFiniteSet(S) /\ S \subseteq Int
  BY <1>2, EventsAreFinite, FS_Subset
<1>4. Cardinality(S) \in Nat /\ Cardinality(S) # 0
  BY <1>2, <1>3, FS_CardinalityType, FS_EmptySet
<1>5. PICK m \in S : Newer(S, m) = 0
  <2>1. \A k \in 0..(Cardinality(S) - 1) : \E m \in S : Newer(S, m) = k
    BY <1>3, Ranked
  <2>. QED
    BY <1>4, <2>1
<1>6. {k \in S : k > m} = {}
  <2>1. IsFiniteSet({k \in S : k > m})
    BY <1>3, FS_Subset
  <2>. QED
    BY <1>5, <2>1, FS_EmptySet DEF Newer
<1>7. m \in NewestOf(c)
  BY <1>1, <1>2, <1>5, <1>6 DEF NewestOf
<1>. QED
  BY <1>1, <1>5, <1>7

LEMMA AnnouncedOnce ==
    ASSUME NEW c
    PROVE  /\ Discover!Announced(c) = {c[n] : n \in NewestOf(c)}
           /\ Discover!Cardinality(Discover!Announced(c)) = Cardinality(NewestOf(c))
           /\ \A m, n \in NewestOf(c) : c[m] = c[n] => m = n
<1>1. Discover!Announced(c) = {c[n] : n \in EventsOf(c)}
  BY DEF Discover!Announced, EventsOf
<1>2. NewestOf(c) \subseteq EventsOf(c)
  BY DEF NewestOf
<1>3. Discover!Announced(c) = {c[n] : n \in NewestOf(c)}
  BY <1>1, <1>2, EachHasItsNewest
<1>4. \A m, n \in NewestOf(c) : c[m] = c[n] => m = n
  <2>. SUFFICES ASSUME NEW m \in NewestOf(c), NEW n \in NewestOf(c), c[m] = c[n], m # n
                PROVE  FALSE
    OBVIOUS
  <2>1. m > n \/ n > m
    BY EventsAreFinite
  <2>. QED
    BY <2>1 DEF NewestOf
<1>5. PICK f : f = [n \in NewestOf(c) |-> c[n]]
  OBVIOUS
<1>6. f \in Bijection(NewestOf(c), Discover!Announced(c))
  BY <1>3, <1>4, <1>5 DEF Bijection, Injection, Surjection, IsInjective
<1>7. Cardinality(Discover!Announced(c)) = Cardinality(NewestOf(c))
  BY <1>6, EventsAreFinite, FS_Bijection DEF ExistsBijection
<1>. QED
  BY <1>3, <1>4, <1>7, CardinalityOfDiscovery

\* No later block of the window touches the identity, so its version is still the same.
LEMMA NewestIsCurrent ==
    ASSUME NEW c, NEW n \in NewestOf(c)
    PROVE  Discover!VersionAt(c, c[n], n) = Discover!VersionAt(c, c[n], Discover!ToBlock)
<1>1. n \in Discover!FromBlock..Discover!ToBlock /\ n \in Int /\ n >= 1 /\ n <= Discover!ToBlock
  BY WindowIsOfTheChain DEF NewestOf, EventsOf
<1>2. \A m \in 1..Discover!ToBlock : c[m] = c[n] => m <= n
  <2>. SUFFICES ASSUME NEW m \in 1..Discover!ToBlock, c[m] = c[n], ~(m <= n)
                PROVE  FALSE
    OBVIOUS
  <2>1. m \in Discover!FromBlock..Discover!ToBlock /\ m > n
    BY <1>1, WindowIsOfTheChain
  <2>2. m \in EventsOf(c)
    BY <2>1 DEF EventsOf, NewestOf
  <2>. QED
    BY <2>1, <2>2 DEF NewestOf
<1>3. {m \in 1..n : c[m] = c[n]} = {m \in 1..Discover!ToBlock : c[m] = c[n]}
  BY <1>1, <1>2, WindowIsOfTheChain
<1>. QED
  BY <1>3 DEF Discover!VersionAt

Statuses == {"lock", "detail", "VERIFIED", "ENRICHMENT_UNAVAILABLE"}

\* What a chain makes of the list.
Listed(c) == IF Cardinality(NewestOf(c)) < Cap THEN Cardinality(NewestOf(c)) ELSE Cap
ListOf(c) == [i \in 1..Listed(c) |->
                LET n == Discover!Newest(NewestOf(c), i) IN
                [id |-> c[n], block |-> n, version |-> Discover!VersionAt(c, c[n], n)]]

\* The chain that the hash of the boundary is of.
Chain == IF boundary THEN other ELSE chain

ListTypeOK ==
    /\ boundary \in BOOLEAN /\ replaced \in BOOLEAN /\ (boundary => replaced)
    /\ results \in Seq([status : Statuses, version : Nat])
    /\ stage \in {"boundary", "logs", "same"} => results = << >>
    /\ \A i \in failed : i \in DOMAIN results /\ results[i].status = "ENRICHMENT_UNAVAILABLE"
    /\ stage \in {"again", "done"} => /\ Len(results) = Len(candidates)
                                      /\ \A i \in DOMAIN results : results[i].status \notin {"lock", "detail"}

\* As long as the boundary is of the chain that the server sees, the list is of this chain.
ListHolds ==
    stage \in {"same", "enrich", "again", "done"} /\ (replaced = boundary \/ stage = "done") =>
      /\ candidates = ListOf(Chain) /\ Len(results) <= Len(candidates)
      /\ \A i \in DOMAIN results : results[i].status = "ENRICHMENT_UNAVAILABLE" => i \in failed

DiscoverInv == ListTypeOK /\ ListHolds

LEMMA ListOfElement ==
    ASSUME NEW c, NEW i \in DOMAIN ListOf(c)
    PROVE  /\ Discover!Newest(NewestOf(c), i) \in NewestOf(c)
           /\ Newer(NewestOf(c), Discover!Newest(NewestOf(c), i)) = i - 1
           /\ ListOf(c)[i].id = c[Discover!Newest(NewestOf(c), i)]
           /\ ListOf(c)[i].version = Discover!VersionAt(c, ListOf(c)[i].id, Discover!ToBlock)
<1>1. IsFiniteSet(NewestOf(c)) /\ NewestOf(c) \subseteq Int /\ Cardinality(NewestOf(c)) \in Nat
  BY EventsAreFinite, FS_CardinalityType
<1>2. i \in 1..Cardinality(NewestOf(c))
  BY <1>1, DiscoveryAssumption DEF ListOf, Listed
<1>3. PICK n : n = Discover!Newest(NewestOf(c), i)
  OBVIOUS
<1>4. n \in NewestOf(c) /\ Newer(NewestOf(c), n) = i - 1
  BY <1>1, <1>2, <1>3, NewestIsRanked
<1>5. ListOf(c)[i] = [id |-> c[n], block |-> n, version |-> Discover!VersionAt(c, c[n], n)]
  BY <1>3 DEF ListOf
<1>6. ListOf(c)[i].id = c[n] /\ ListOf(c)[i].version = Discover!VersionAt(c, c[n], n)
  BY <1>5
<1>. QED
  BY <1>3, <1>4, <1>6, NewestIsCurrent

LEMMA LengthOfList ==
    ASSUME NEW c PROVE /\ DOMAIN ListOf(c) = 1..Listed(c) /\ Listed(c) \in Nat /\ Len(ListOf(c)) = Listed(c)
<1>1. Cardinality(NewestOf(c)) \in Nat
  BY EventsAreFinite, FS_CardinalityType
<1>2. Listed(c) \in Nat
  BY <1>1, DiscoveryAssumption DEF Listed
<1>3. DOMAIN ListOf(c) = 1..Listed(c)
  BY DEF ListOf
<1>. QED
  BY <1>2, <1>3

LEMMA VersionsAreNaturals ==
    ASSUME NEW c, NEW id PROVE Discover!VersionAt(c, id, Discover!ToBlock) \in Nat
<1>1. PICK S : S = {n \in 1..Discover!ToBlock : c[n] = id}
  OBVIOUS
<1>2. IsFiniteSet(1..Discover!ToBlock) /\ S \subseteq 1..Discover!ToBlock
  BY <1>1, WindowIsOfTheChain, FS_Interval
<1>3. Cardinality(S) \in Nat
  BY <1>2, FS_Subset, FS_CardinalityType
<1>. QED
  BY <1>1, <1>3, CardinalityOfDiscovery DEF Discover!VersionAt

\* A worker settles a candidate.
LEMMA ResultSettles ==
    ASSUME DiscoverInv, NEW i, NEW status \in Statuses, NEW version \in Nat,
           Discover!At(i, "lock") \/ Discover!At(i, "detail"), Discover!Settle(i, status, version),
           failed' = failed \/ (status = "ENRICHMENT_UNAVAILABLE" /\ failed' = failed \cup {i}),
           replaced = boundary /\ status = "ENRICHMENT_UNAVAILABLE" => i \in failed'
    PROVE  DiscoverInv'
<1>1. /\ i \in DOMAIN results /\ stage = "enrich" /\ stage' = stage /\ results[i].status \in {"lock", "detail"}
      /\ UNCHANGED <<boundary, candidates, chain, other, replaced>>
      /\ results' = [results EXCEPT ![i] = [status |-> status, version |-> version]]
  BY DEF Discover!At, Discover!Settle, Discover!World
<1>2. results \in Seq([status : Statuses, version : Nat])
  BY DEF DiscoverInv, ListTypeOK
<1>3. PICK result : result = [status |-> status, version |-> version]
  OBVIOUS
<1>4. result \in [status : Statuses, version : Nat] /\ result.status = status
  BY <1>3
<1>5. /\ results' \in Seq([status : Statuses, version : Nat]) /\ DOMAIN results' = DOMAIN results
      /\ Len(results') = Len(results)
  BY <1>1, <1>2, <1>3, <1>4, ExceptSeq
<1>6. \A j \in DOMAIN results : results'[j] = IF j = i THEN result ELSE results[j]
  BY <1>1, <1>2, <1>3
<1>7. \A j \in failed' : j \in DOMAIN results' /\ results'[j].status = "ENRICHMENT_UNAVAILABLE"
  BY <1>1, <1>4, <1>5, <1>6 DEF DiscoverInv, ListTypeOK
<1>8. ListTypeOK'
  BY <1>1, <1>5, <1>7 DEF DiscoverInv, ListTypeOK
<1>9. ListHolds'
  <2>1. ListOf(Chain)' = ListOf(Chain) /\ Chain' = Chain
    BY <1>1 DEF ListOf, Listed, NewestOf, EventsOf, Chain
  <2>. QED
    BY <1>1, <1>4, <1>5, <1>6, <2>1 DEF DiscoverInv, ListHolds
<1>. QED
  BY <1>8, <1>9 DEF DiscoverInv

LEMMA DiscoverStepKeeps ==
    ASSUME DiscoverInv, [Discover!Next]_discoverVars
    PROVE  DiscoverInv'
<1>0. ListTypeOK /\ ListHolds
  BY DEF DiscoverInv
<1>1. UNCHANGED <<chain, other, boundary>> =>
        /\ Chain' = Chain /\ ListOf(Chain)' = ListOf(Chain)
  BY DEF ListOf, Listed, NewestOf, EventsOf, Chain
<1>2. CASE Discover!StableBoundary
  <2>1. stage = "boundary" /\ stage' = "logs" /\ boundary' = replaced
        /\ UNCHANGED <<candidates, results, failed, chain, other, replaced>>
    BY <1>2 DEF Discover!StableBoundary, Discover!World
  <2>. QED
    BY <1>0, <2>1 DEF DiscoverInv, ListTypeOK, ListHolds
<1>3. CASE Discover!GetLogs
  <2>1. /\ stage = "logs" /\ stage' = "same"
        /\ UNCHANGED <<boundary, results, failed, chain, other, replaced>>
    BY <1>3 DEF Discover!GetLogs, Discover!World
  <2>2. Discover!Events = EventsOf(Discover!Shown)
    BY DEF Discover!Events, EventsOf
  <2>3. Discover!UniqueProofLocks = NewestOf(Discover!Shown)
    BY <2>2 DEF Discover!UniqueProofLocks, NewestOf
  <2>4. candidates' = ListOf(Discover!Shown)
    <3>1. PICK c : c = Discover!Shown
      OBVIOUS
    <3>2. Discover!UniqueProofLocks = NewestOf(c) /\ Discover!Cardinality(NewestOf(c)) = Cardinality(NewestOf(c))
      BY <2>3, <3>1, CardinalityOfDiscovery
    <3>3. candidates' = [i \in 1..Listed(c) |-> Discover!Candidate(Discover!Newest(NewestOf(c), i))]
      BY <1>3, <3>2 DEF Discover!GetLogs, Listed
    <3>4. \A n : Discover!Candidate(n) = [id |-> c[n], block |-> n, version |-> Discover!VersionAt(c, c[n], n)]
      BY <3>1 DEF Discover!Candidate
    <3>. QED
      BY <3>1, <3>3, <3>4 DEF ListOf
  <2>5. replaced = boundary => Discover!Shown = Chain
    BY DEF Discover!Shown, Chain
  <2>6. replaced' = boundary' => candidates' = ListOf(Chain)'
    BY <1>1, <2>1, <2>4, <2>5
  <2>7. results' = << >> /\ Len(results') <= Len(ListOf(Discover!Shown))
    <3>1. results' = << >>
      BY <1>0, <2>1 DEF ListTypeOK
    <3>2. Len(results') = 0
      BY <3>1
    <3>. QED
      BY <3>1, <3>2, LengthOfList
  <2>. QED
    BY <1>0, <2>1, <2>4, <2>6, <2>7 DEF DiscoverInv, ListTypeOK, ListHolds
<1>4. CASE Discover!AssertSameBoundary
  <2>1. /\ UNCHANGED <<boundary, candidates, results, failed, chain, other, replaced>>
        /\ stage \in {"same", "again"}
        /\ stage' = IF boundary # replaced THEN "unavailable" ELSE IF stage = "same" THEN "enrich" ELSE "done"
    BY <1>4 DEF Discover!AssertSameBoundary, Discover!World
  <2>. QED
    BY <1>0, <1>1, <2>1 DEF DiscoverInv, ListTypeOK, ListHolds
<1>5. CASE Discover!Take
  <2>1. /\ UNCHANGED <<stage, boundary, candidates, failed, chain, other, replaced>> /\ stage = "enrich"
        /\ results' = Append(results, [status |-> "lock", version |-> 0]) /\ Len(results) < Len(candidates)
    BY <1>5 DEF Discover!Take, Discover!World
  <2>2. PICK result : result = [status |-> "lock", version |-> 0]
    OBVIOUS
  <2>3. result \in [status : Statuses, version : Nat] /\ result.status = "lock"
    BY <2>2 DEF Statuses
  <2>4. results \in Seq([status : Statuses, version : Nat]) /\ results' = Append(results, result)
    BY <1>0, <2>1, <2>2 DEF ListTypeOK
  <2>5. /\ results' \in Seq([status : Statuses, version : Nat])
        /\ Len(results') = Len(results) + 1
        /\ \A i \in 1..Len(results) : results'[i] = results[i]
        /\ results'[Len(results) + 1] = result
    BY <2>3, <2>4, AppendProperties
  <2>6. /\ DOMAIN results = 1..Len(results) /\ Len(results) \in Nat
        /\ DOMAIN results' = 1..(Len(results) + 1)
    BY <2>4, <2>5, LenProperties
  <2>7. /\ \A i \in DOMAIN results : i \in DOMAIN results' /\ results'[i] = results[i]
        /\ \A i \in DOMAIN results' : i \in DOMAIN results \/ results'[i].status = "lock"
    BY <2>3, <2>5, <2>6
  <2>8. ListTypeOK'
    BY <1>0, <2>1, <2>5, <2>7 DEF ListTypeOK
  <2>9. replaced = boundary => Len(results') <= Len(candidates)
    <3>1. replaced = boundary => Len(candidates) \in Nat
      BY <1>0, <2>1, LengthOfList DEF ListHolds
    <3>. QED
      BY <2>1, <2>5, <2>6, <3>1
  <2>10. ListHolds'
    BY <1>0, <1>1, <2>1, <2>7, <2>9 DEF ListHolds
  <2>. QED
    BY <2>8, <2>10 DEF DiscoverInv
<1>6. ASSUME NEW i, Discover!ReadProofLock(i) PROVE DiscoverInv'
  <2>1. PICK version : version = Discover!VersionAt(Discover!Shown, candidates[i].id, Discover!ToBlock)
    OBVIOUS
  <2>2. version \in Nat
    BY <2>1, VersionsAreNaturals
  <2>3. CASE version = candidates[i].version
    BY <1>6, <2>1, <2>2, <2>3, ResultSettles DEF Discover!ReadProofLock, Statuses
  <2>4. CASE version # candidates[i].version
    <3>1. Discover!At(i, "lock") /\ Discover!Settle(i, "ENRICHMENT_UNAVAILABLE", 0) /\ failed' = failed
      BY <1>6, <2>1, <2>4 DEF Discover!ReadProofLock
    <3>2. stage = "enrich" /\ i \in DOMAIN results
      BY <3>1 DEF Discover!At
    <3>3. replaced # boundary
      <4>. SUFFICES ASSUME replaced = boundary
                    PROVE  FALSE
        OBVIOUS
      <4>1. candidates = ListOf(Chain) /\ Discover!Shown = Chain
        BY <1>0, <3>2 DEF ListHolds, Discover!Shown, Chain
      <4>2. i \in DOMAIN ListOf(Chain)
        <5>1. i \in 1..Len(results) /\ Len(results) \in Nat /\ Len(results) <= Len(candidates)
          BY <1>0, <3>2, LenProperties DEF ListTypeOK, ListHolds
        <5>. QED
          BY <4>1, <5>1, LengthOfList
      <4>. QED
        BY <2>1, <2>4, <4>1, <4>2, ListOfElement
    <3>. QED
      BY <3>1, <3>3, ResultSettles DEF Statuses
  <2>. QED
    BY <2>3, <2>4
<1>7. ASSUME NEW i, Discover!ReadProofLockDetail(i) PROVE DiscoverInv'
  <2>1. Discover!At(i, "detail") /\ Discover!Settle(i, "VERIFIED", results[i].version) /\ failed' = failed
    BY <1>7 DEF Discover!ReadProofLockDetail
  <2>2. i \in DOMAIN results /\ results \in Seq([status : Statuses, version : Nat])
    BY <1>0, <2>1 DEF Discover!At, ListTypeOK
  <2>3. results[i] \in [status : Statuses, version : Nat]
    BY <2>2, ElementOfSeq, LenProperties
  <2>. QED
    BY <2>1, <2>3, ResultSettles DEF Statuses
<1>8. ASSUME NEW i, Discover!EnrichFails(i) PROVE DiscoverInv'
  BY <1>8, ResultSettles DEF Discover!EnrichFails, Statuses
<1>9. CASE Discover!Enriched
  <2>1. /\ UNCHANGED <<boundary, candidates, results, failed, chain, other, replaced>>
        /\ stage = "enrich" /\ stage' = "again" /\ Len(results) = Len(candidates)
        /\ \A i \in DOMAIN results : results[i].status \notin {"lock", "detail"}
    BY <1>9 DEF Discover!Enriched, Discover!World, Discover!Busy
  <2>. QED
    BY <1>0, <1>1, <2>1 DEF DiscoverInv, ListTypeOK, ListHolds
<1>10. CASE Discover!Unavailable
  <2>1. /\ UNCHANGED <<boundary, candidates, results, failed, chain, other, replaced>> /\ stage' = "unavailable"
    BY <1>10 DEF Discover!Unavailable, Discover!World
  <2>. QED
    BY <1>0, <2>1 DEF DiscoverInv, ListTypeOK, ListHolds
<1>11. CASE Discover!Reorg
  <2>1. /\ UNCHANGED <<boundary, candidates, results, failed, chain, stage>> /\ replaced' = TRUE /\ ~replaced
    BY <1>11 DEF Discover!Reorg
  <2>2. boundary = FALSE
    BY <1>0, <2>1 DEF ListTypeOK
  <2>3. Chain' = Chain /\ ListOf(Chain)' = ListOf(Chain)
    BY <2>1, <2>2 DEF ListOf, Listed, NewestOf, EventsOf, Chain
  <2>4. replaced = boundary
    BY <1>0, <2>1, <2>2 DEF ListTypeOK
  <2>. QED
    BY <1>0, <2>1, <2>2, <2>3, <2>4 DEF DiscoverInv, ListTypeOK, ListHolds
<1>12. CASE UNCHANGED discoverVars
  BY <1>0, <1>1, <1>12 DEF discoverVars, DiscoverInv, ListTypeOK, ListHolds
<1>. QED
  BY <1>2, <1>3, <1>4, <1>5, <1>6, <1>7, <1>8, <1>9, <1>10, <1>11, <1>12 DEF Discover!Next

LEMMA DiscoverStarts ==
    ASSUME Discover!Init \/ DiscoverRests PROVE DiscoverInv
<1>1. /\ replaced = FALSE /\ stage \in {"boundary", "rest"} /\ boundary = FALSE
      /\ results = << >> /\ failed = {}
  BY DEF Discover!Init, DiscoverRests
<1>2. results \in Seq([status : Statuses, version : Nat])
  BY <1>1
<1>. QED
  BY <1>1, <1>2 DEF DiscoverInv, ListTypeOK, ListHolds

LEMMA ListIsRight ==
    ASSUME DiscoverInv, stage = "done"
    PROVE  ListIsOfOneChain
<1>0. /\ candidates = ListOf(Chain) /\ Len(results) = Len(candidates)
      /\ results \in Seq([status : Statuses, version : Nat])
  BY DEF DiscoverInv, ListTypeOK, ListHolds
<1>1. PICK c : c = IF boundary THEN other ELSE chain
  OBVIOUS
<1>2. candidates = ListOf(c) /\ DOMAIN candidates = 1..Listed(c)
  BY <1>0, <1>1 DEF Chain, ListOf
<1>3. /\ IsFiniteSet(NewestOf(c)) /\ NewestOf(c) \subseteq Int /\ Cardinality(NewestOf(c)) \in Nat
      /\ Listed(c) \in Nat
  BY EventsAreFinite, FS_CardinalityType, DiscoveryAssumption DEF Listed
<1>4. Len(candidates) = Listed(c)
  BY <1>2, <1>3 DEF ListOf
<1>5. \A i, j \in DOMAIN candidates : i # j => candidates[i].id # candidates[j].id
  <2>. SUFFICES ASSUME NEW i \in DOMAIN candidates, NEW j \in DOMAIN candidates, i # j,
                       candidates[i].id = candidates[j].id
                PROVE  FALSE
    OBVIOUS
  <2>1. PICK m, n : m = Discover!Newest(NewestOf(c), i) /\ n = Discover!Newest(NewestOf(c), j)
    OBVIOUS
  <2>2. /\ m \in NewestOf(c) /\ Newer(NewestOf(c), m) = i - 1 /\ candidates[i].id = c[m]
        /\ n \in NewestOf(c) /\ Newer(NewestOf(c), n) = j - 1 /\ candidates[j].id = c[n]
    BY <1>2, <2>1, ListOfElement
  <2>3. m # n
    BY <1>2, <1>3, <2>2
  <2>. QED
    BY <2>2, <2>3, AnnouncedOnce
<1>6. \/ {candidates[i].id : i \in DOMAIN candidates} = Discover!Announced(c)
      \/ Len(candidates) = Cap /\ Discover!Cardinality(Discover!Announced(c)) > Cap
  <2>1. CASE Cardinality(NewestOf(c)) > Cap
    BY <1>3, <1>4, <2>1, AnnouncedOnce, DiscoveryAssumption DEF Listed
  <2>2. CASE ~(Cardinality(NewestOf(c)) > Cap)
    <3>1. Listed(c) = Cardinality(NewestOf(c))
      BY <1>3, <2>2, DiscoveryAssumption DEF Listed
    <3>2. \A n \in NewestOf(c) : \E i \in DOMAIN candidates : n = Discover!Newest(NewestOf(c), i)
      BY <1>2, <1>3, <3>1, NewestIsRanked
    <3>3. \A i \in DOMAIN candidates : /\ Discover!Newest(NewestOf(c), i) \in NewestOf(c)
                                       /\ candidates[i].id = c[Discover!Newest(NewestOf(c), i)]
      BY <1>2, ListOfElement
    <3>4. {candidates[i].id : i \in DOMAIN candidates} = {c[n] : n \in NewestOf(c)}
      BY <3>2, <3>3
    <3>. QED
      BY <3>4, AnnouncedOnce
  <2>. QED
    BY <2>1, <2>2
<1>7. ASSUME NEW i \in DOMAIN results
      PROVE  /\ candidates[i].version = Discover!VersionAt(c, candidates[i].id, Discover!ToBlock)
             /\ results[i].status = IF i \in failed THEN "ENRICHMENT_UNAVAILABLE" ELSE "VERIFIED"
  <2>1. i \in DOMAIN candidates
    BY <1>0, <1>2, <1>4, LenProperties
  <2>2. candidates[i].version = Discover!VersionAt(c, candidates[i].id, Discover!ToBlock)
    BY <1>2, <2>1, ListOfElement
  <2>3. results[i] \in [status : Statuses, version : Nat]
    BY <1>0, ElementOfSeq, LenProperties
  <2>4. results[i].status \in Statuses \ {"lock", "detail"}
    BY <2>3 DEF DiscoverInv, ListTypeOK
  <2>5. results[i].status = "ENRICHMENT_UNAVAILABLE" <=> i \in failed
    BY DEF DiscoverInv, ListTypeOK, ListHolds
  <2>. QED
    BY <2>2, <2>4, <2>5 DEF Statuses
<1>8. Discover!ListIsOfOneChain
  BY <1>0, <1>1, <1>5, <1>6, <1>7 DEF Discover!ListIsOfOneChain
<1>. QED
  BY <1>8 DEF ListIsOfOneChain

LEMMA ReadsStepOfDiscover ==
    [ReadsNext]_<<part, chainVars, locatorVars, discoverVars, sealedVars,
                  subjectVars, riskVars, fetchVars>> => [Discover!Next]_discoverVars
  BY DEF ReadsNext, AccessStep, LocatorStep, DiscoverStep, SealedStep, SubjectStep, RiskStep, FetchStep

\* Whatever block is replaced and however the workers interleave, a list that is answered is
\* that of one chain: each identity of its window once, at its version, none missing but those
\* beyond the cap, for every chain, window, cap and number of workers (discovery.ts:39-66).
THEOREM ListsAreOfOneChain == ReadsSpec => []ListIsOfOneChain
<1>1. ReadsInit => DiscoverInv
  BY DiscoverStarts DEF ReadsInit
<1>2. DiscoverInv /\ [ReadsNext]_<<part, chainVars, locatorVars, discoverVars, sealedVars,
                                   subjectVars, riskVars, fetchVars>> => DiscoverInv'
  BY ReadsStepOfDiscover, DiscoverStepKeeps
<1>3. DiscoverInv => ListIsOfOneChain
  BY ListIsRight DEF ListIsOfOneChain, Discover!ListIsOfOneChain
<1>. QED
  BY <1>1, <1>2, <1>3, PTL DEF ReadsSpec
-----------------------------------------------------------------------------
(* The verdict before a seal.                                               *)

LEMMA CardinalityOfRisk ==
    ASSUME NEW S PROVE Risk!Cardinality(S) = Cardinality(S)
  BY DEF Risk!Cardinality, Cardinality

LEMMA RiskCounts ==
    ASSUME NEW S, IsFiniteSet(S), NEW T \in SUBSET S
    PROVE  Risk!Cardinality(T) \in Nat
<1>1. IsFiniteSet(T)
  BY FS_Subset
<1>2. Cardinality(T) \in Nat
  BY <1>1, FS_CardinalityType
<1>. QED
  BY <1>2, CardinalityOfRisk

\* Rows as the rules take them: finitely many, each of a block.
AreRows(rows) == IsFiniteSet(DOMAIN rows) /\ \A i \in DOMAIN rows : rows[i].block \in Nat

LEMMA RowsAreRows ==
    ASSUME dossier \in Dossiers, NEW list \in {"txlist", "tokentx"}
    PROVE  AreRows(Risk!Rows(list))
<1>1. PICK all : all = dossier[list]
  OBVIOUS
<1>2. IsFiniteSet(DOMAIN all) /\ \A i \in DOMAIN all : all[i].block \in Nat
  BY <1>1, RiskAssumption
<1>3. PICK chosen : chosen = IF explored[list] = "ok" THEN Risk!Newest(all) ELSE {}
  OBVIOUS
<1>4. chosen \subseteq DOMAIN all
  BY <1>3 DEF Risk!Newest
<1>5. Risk!Rows(list) = [i \in chosen |-> all[i]]
  BY <1>1, <1>3 DEF Risk!Rows
<1>6. IsFiniteSet(chosen)
  BY <1>2, <1>4, FS_Subset
<1>7. PICK rows : rows = [i \in chosen |-> all[i]]
  OBVIOUS
<1>8. AreRows(rows)
  BY <1>2, <1>4, <1>6, <1>7 DEF AreRows
<1>. QED
  BY <1>5, <1>7, <1>8

\* A value within nothing and one, whatever the share.
LEMMA ClampedWithin ==
    ASSUME NEW share \in Int \X Int
    PROVE  /\ Risk!Clamp01(share)[1] \in Nat /\ Risk!Clamp01(share)[2] \in Nat
           /\ Risk!Clamp01(share)[2] > 0 /\ Risk!Clamp01(share)[1] <= Risk!Clamp01(share)[2]
<1>1. PICK p \in Int, q \in Int : share = <<p, q>>
  OBVIOUS
<1>2. CASE p >= q
  BY <1>1, <1>2 DEF Risk!Clamp01
<1>3. CASE p < q /\ p <= 0
  BY <1>1, <1>3 DEF Risk!Clamp01, Risk!None
<1>4. CASE p < q /\ p > 0
  BY <1>1, <1>4 DEF Risk!Clamp01
<1>. QED
  BY <1>1, <1>2, <1>3, <1>4

LEMMA QuotientWithin ==
    ASSUME NEW s \in Nat, NEW m \in Nat, NEW d \in Nat, d > 0, m <= d
    PROVE  (s * m) \div d \in Nat /\ (s * m) \div d <= s
<1>1. PICK a \in Nat : a = s * m
  OBVIOUS
<1>2. a <= s * d
  BY <1>1
<1>3. PICK q : q = a \div d
  OBVIOUS
<1>4. q \in Int /\ q * d <= a /\ a < (q + 1) * d
  BY <1>1, <1>3
<1>5. q >= 0
  <2>. SUFFICES ASSUME q <= -1 PROVE FALSE
    BY <1>4
  <2>1. (q + 1) * d <= 0
    BY <1>4
  <2>. QED
    BY <1>1, <1>4, <2>1
<1>6. q <= s
  <2>. SUFFICES ASSUME q >= s + 1 PROVE FALSE
    BY <1>4
  <2>1. q * d >= (s + 1) * d
    BY <1>4
  <2>2. (s + 1) * d = s * d + d
    OBVIOUS
  <2>3. s * d \in Nat
    OBVIOUS
  <2>4. q * d \in Int
    BY <1>4
  <2>. QED
    BY <1>2, <1>4, <2>1, <2>2, <2>3, <2>4
<1>. QED
  BY <1>1, <1>3, <1>4, <1>5, <1>6

\* No rule makes a survival larger.
LEMMA LeftFalls ==
    ASSUME NEW survival \in Nat, NEW weight \in 0..100, NEW share \in Int \X Int
    PROVE  Risk!Left(survival, weight, share) \in Nat /\ Risk!Left(survival, weight, share) <= survival
<1>1. PICK p, q : p = Risk!Clamp01(share)[1] /\ q = Risk!Clamp01(share)[2]
  OBVIOUS
<1>2. p \in Nat /\ q \in Nat /\ q > 0 /\ p <= q
  BY <1>1, ClampedWithin
<1>3. PICK m, d : m = 100 * q - weight * p /\ d = 100 * q
  OBVIOUS
<1>4. m \in Nat /\ d \in Nat /\ d > 0 /\ m <= d
  <2>1. weight * p \in Nat /\ weight * p <= 100 * p
    BY <1>2
  <2>. QED
    BY <1>2, <1>3, <2>1
<1>5. Risk!Left(survival, weight, share) = (survival * m) \div d
  BY <1>1, <1>3 DEF Risk!Left
<1>. QED
  BY <1>4, <1>5, QuotientWithin

LEMMA DrainLeavesLittle ==
    ASSUME NEW survival \in Nat, survival <= 10000
    PROVE  Risk!Left(survival, 70, <<1, 1>>) \in Nat /\ Risk!Left(survival, 70, <<1, 1>>) <= 3000
<1>1. Risk!Clamp01(<<1, 1>>) = <<1, 1>>
  BY DEF Risk!Clamp01
<1>2. Risk!Left(survival, 70, <<1, 1>>) = (survival * 30) \div 100
  BY <1>1 DEF Risk!Left
<1>. QED
  BY <1>2

LEMMA ApprovalsShare ==
    ASSUME NEW rows, AreRows(rows) PROVE Risk!ComputeUnlimitedApprovals(rows) \in Int \X Int
<1>1. PICK T : T = {i \in DOMAIN rows : rows[i].unlimited}
  OBVIOUS
<1>2. Risk!Cardinality(T) \in Nat
  BY <1>1, RiskCounts DEF AreRows
<1>3. Risk!ComputeUnlimitedApprovals(rows) = <<Risk!Cardinality(T), 3>>
  BY <1>1 DEF Risk!ComputeUnlimitedApprovals, Risk!Count
<1>. QED
  BY <1>2, <1>3

LEMMA SizeIsNatural == ASSUME NEW rows, AreRows(rows) PROVE Risk!Size(rows) \in Nat
  BY RiskCounts DEF AreRows, Risk!Size

LEMMA FailuresShare ==
    ASSUME NEW rows, AreRows(rows) PROVE Risk!ComputeFailedTxRate(rows) \in Int \X Int
<1>1. PICK T : T = {i \in DOMAIN rows : rows[i].isError}
  OBVIOUS
<1>2. Risk!Cardinality(T) \in Nat
  BY <1>1, RiskCounts DEF AreRows
<1>3. Risk!ComputeFailedTxRate(rows)
        = IF Risk!Size(rows) = 0 THEN <<0, 1>> ELSE <<Risk!Cardinality(T), Risk!Size(rows)>>
  BY <1>1 DEF Risk!ComputeFailedTxRate, Risk!Count, Risk!None
<1>. QED
  BY <1>2, <1>3, SizeIsNatural

LEMMA RootIsNatural == ASSUME NEW n \in Int PROVE Risk!Root(n) \in Nat
<1>1. PICK T : T = {r \in 1..n : r * r <= n}
  OBVIOUS
<1>2. IsFiniteSet(1..n) /\ T \subseteq 1..n
  BY <1>1, FS_Interval
<1>3. Risk!Cardinality(T) \in Nat
  BY <1>2, RiskCounts
<1>. QED
  BY <1>1, <1>3 DEF Risk!Root

\* Finitely many rows span finitely many units of time.
Spans(rows, pairs) == UNION {(rows[p[1]].block + 1)..rows[p[2]].block : p \in pairs}

LEMMA SpansAreFinite ==
    ASSUME NEW rows, NEW pairs, IsFiniteSet(pairs),
           \A p \in pairs : rows[p[1]].block \in Int /\ rows[p[2]].block \in Int
    PROVE  IsFiniteSet(Spans(rows, pairs))
<1>1. PICK f : f = [p \in pairs |-> (rows[p[1]].block + 1)..rows[p[2]].block]
  OBVIOUS
<1>2. PICK spans : spans = {(rows[p[1]].block + 1)..rows[p[2]].block : p \in pairs}
  OBVIOUS
<1>3. f \in Surjection(pairs, spans)
  <2>1. f \in [pairs -> spans]
    BY <1>1, <1>2
  <2>2. \A t \in spans : \E p \in pairs : f[p] = t
    BY <1>1, <1>2
  <2>. QED
    BY <2>1, <2>2 DEF Surjection
<1>4. IsFiniteSet(spans)
  BY <1>3, FS_Surjection
<1>5. ASSUME NEW t \in spans PROVE IsFiniteSet(t)
  <2>1. PICK p \in pairs : t = (rows[p[1]].block + 1)..rows[p[2]].block
    BY <1>2
  <2>2. PICK a \in Int, b \in Int : a = rows[p[1]].block + 1 /\ b = rows[p[2]].block
    OBVIOUS
  <2>3. IsFiniteSet(a..b)
    BY FS_Interval
  <2>. QED
    BY <2>1, <2>2, <2>3
<1>6. IsFiniteSet(UNION spans)
  BY <1>4, <1>5, FS_UNION
<1>. QED
  BY <1>2, <1>6 DEF Spans

LEMMA UnitsAreFinite == ASSUME NEW rows, AreRows(rows) PROVE IsFiniteSet(Risk!Units(rows))
<1>1. PICK D : D = DOMAIN rows
  OBVIOUS
<1>2. IsFiniteSet(D) /\ \A i \in D : rows[i].block \in Nat
  BY <1>1 DEF AreRows
<1>3. PICK pairs : pairs = D \X D
  OBVIOUS
<1>4. IsFiniteSet(pairs) /\ \A p \in pairs : rows[p[1]].block \in Int /\ rows[p[2]].block \in Int
  BY <1>2, <1>3, FS_Product
<1>5. IsFiniteSet(Spans(rows, pairs))
  BY <1>4, SpansAreFinite
<1>6. Risk!Units(rows) = Spans(rows, (DOMAIN rows) \X (DOMAIN rows))
  BY DEF Risk!Units, Spans
<1>7. Spans(rows, (DOMAIN rows) \X (DOMAIN rows)) = Spans(rows, pairs)
  BY <1>1, <1>3
<1>. QED
  BY <1>5, <1>6, <1>7

LEMMA TimingShare == ASSUME NEW rows, AreRows(rows) PROVE Risk!TimingBurst(rows) \in Int \X Int
<1>1. PICK units : units = Risk!Units(rows)
  OBVIOUS
<1>2. IsFiniteSet(units) /\ IsFiniteSet(units \X units)
  BY <1>1, UnitsAreFinite, FS_Product
<1>3. PICK same : same = {p \in units \X units : Risk!InOneGap(rows, p[1], p[2])}
  OBVIOUS
<1>4. PICK sum, squares : sum = Risk!Cardinality(units) /\ squares = Risk!Cardinality(same)
  OBVIOUS
<1>5. sum \in Nat
  BY <1>2, <1>4, RiskCounts
<1>6. squares \in Nat
  BY <1>2, <1>3, <1>4, RiskCounts
<1>7. PICK size \in Nat : size = Risk!Size(rows)
  BY SizeIsNatural
<1>8. PICK n \in Int : n = (size - 1) * squares - sum * sum
  BY <1>5, <1>6
<1>9. Risk!Root(n) \in Nat
  BY RootIsNatural
<1>10. Risk!TimingBurst(rows)
         = IF size < 4 THEN <<0, 1>> ELSE IF sum = 0 THEN <<1, 1>> ELSE <<sum - Risk!Root(n), sum>>
  BY <1>1, <1>3, <1>4, <1>7, <1>8 DEF Risk!TimingBurst, Risk!None
<1>. QED
  BY <1>5, <1>9, <1>10

LEMMA LevelsAreFinite ==
    ASSUME NEW size \in Nat, NEW T \in SUBSET (1..size) PROVE Risk!Cardinality(T) \in Nat
<1>1. IsFiniteSet(1..size)
  BY FS_Interval
<1>. QED
  BY <1>1, RiskCounts

LEMMA RepetitionShare == ASSUME NEW rows, AreRows(rows) PROVE Risk!RepetitionBurst(rows) \in Int \X Int
<1>1. PICK size \in Nat : size = Risk!Size(rows)
  BY SizeIsNatural
<1>2. PICK T : T = {n \in 1..size :
                      \E i \in DOMAIN rows :
                        Risk!Cardinality({j \in DOMAIN rows : <<rows[j].method, Risk!To(rows[j])>>
                                            = <<rows[i].method, Risk!To(rows[i])>>}) >= n}
  OBVIOUS
<1>3. Risk!Cardinality(T) \in Nat
  BY <1>2, LevelsAreFinite
<1>4. Risk!RepetitionBurst(rows) = IF size = 0 THEN <<0, 1>> ELSE <<Risk!Cardinality(T), size>>
  BY <1>1, <1>2 DEF Risk!RepetitionBurst, Risk!Most, Risk!Count, Risk!None
<1>. QED
  BY <1>3, <1>4

LEMMA ConcentrationShare ==
    ASSUME NEW rows, AreRows(rows) PROVE Risk!ComputeCounterpartyConcentration(rows) \in Int \X Int
<1>1. PICK considered : considered = [i \in {i \in DOMAIN rows : Risk!To(rows[i]) # Nobody} |-> rows[i]]
  OBVIOUS
<1>2. DOMAIN considered \in SUBSET (DOMAIN rows)
  BY <1>1
<1>3. PICK size : size = Risk!Size(considered)
  OBVIOUS
<1>4. size \in Nat
  BY <1>2, <1>3, RiskCounts DEF AreRows, Risk!Size
<1>5. PICK T : T = {n \in 1..size :
                      \E i \in DOMAIN considered :
                        Risk!Cardinality({j \in DOMAIN considered :
                                            Risk!To(considered[j]) = Risk!To(considered[i])}) >= n}
  OBVIOUS
<1>6. Risk!Cardinality(T) \in Nat
  BY <1>4, <1>5, LevelsAreFinite
<1>7. Risk!ComputeCounterpartyConcentration(rows)
        = IF size = 0 THEN <<0, 1>> ELSE <<Risk!Cardinality(T), size>>
  BY <1>1, <1>3, <1>5 DEF Risk!ComputeCounterpartyConcentration, Risk!Most, Risk!Count, Risk!None
<1>. QED
  BY <1>4, <1>6, <1>7

LEMMA FreshShare == ASSUME dossier \in Dossiers PROVE Risk!ComputeFreshAccount(dossier.nonce) \in Int \X Int
  BY RiskAssumption DEF Risk!ComputeFreshAccount

LEMMA HistoryShare == ASSUME NEW rows PROVE Risk!ComputeNoHistory(rows) \in Int \X Int
  BY DEF Risk!ComputeNoHistory, Risk!None

LEMMA DrainShare ==
    /\ Risk!ComputeDrainPattern \in Int \X Int
    /\ (\E in, out \in Risk!Movements : Risk!Drains(in, out)) => Risk!ComputeDrainPattern = <<1, 1>>
  BY DEF Risk!ComputeDrainPattern, Risk!None

\* Whatever the history, a survival is within nothing and all; funds that were taken through
\* leave at most three tenths of it, and no other rule gives any of it back.
LEMMA SurvivalWithin ==
    ASSUME dossier \in Dossiers
    PROVE  /\ Risk!Survival \in 0..10000
           /\ (\E in, out \in Risk!Movements : Risk!Drains(in, out)) => Risk!Survival <= 3000
<1>1. PICK rows : rows = Risk!Rows("txlist")
  OBVIOUS
<1>2. AreRows(rows)
  BY <1>1, RowsAreRows
<1>3. PICK s1 : s1 = Risk!Left(10000, 55, Risk!ComputeUnlimitedApprovals(rows))
  OBVIOUS
<1>4. s1 \in Nat /\ s1 <= 10000
  BY <1>2, <1>3, ApprovalsShare, LeftFalls
<1>5. PICK s2 : s2 = Risk!Left(s1, 30, Risk!ComputeFailedTxRate(rows))
  OBVIOUS
<1>6. s2 \in Nat /\ s2 <= s1
  BY <1>2, <1>4, <1>5, FailuresShare, LeftFalls
<1>7. PICK s3 : s3 = Risk!Left(s2, 70, Risk!ComputeDrainPattern)
  OBVIOUS
<1>8. s3 \in Nat /\ s3 <= s2
  BY <1>6, <1>7, DrainShare, LeftFalls
<1>9. (\E in, out \in Risk!Movements : Risk!Drains(in, out)) => s3 <= 3000
  <2>. SUFFICES ASSUME \E in, out \in Risk!Movements : Risk!Drains(in, out) PROVE s3 <= 3000
    OBVIOUS
  <2>1. s3 = Risk!Left(s2, 70, <<1, 1>>)
    BY <1>7, DrainShare
  <2>2. s2 <= 10000
    BY <1>4, <1>6
  <2>. QED
    BY <1>6, <2>1, <2>2, DrainLeavesLittle
<1>10. PICK s4 : s4 = Risk!Left(s3, 20, Risk!Larger(Risk!TimingBurst(rows), Risk!RepetitionBurst(rows)))
  OBVIOUS
<1>11. s4 \in Nat /\ s4 <= s3
  <2>1. Risk!Larger(Risk!TimingBurst(rows), Risk!RepetitionBurst(rows)) \in Int \X Int
    BY <1>2, TimingShare, RepetitionShare DEF Risk!Larger
  <2>. QED
    BY <1>8, <1>10, <2>1, LeftFalls
<1>12. PICK s5 : s5 = Risk!Left(s4, 25, Risk!ComputeCounterpartyConcentration(rows))
  OBVIOUS
<1>13. s5 \in Nat /\ s5 <= s4
  BY <1>2, <1>11, <1>12, ConcentrationShare, LeftFalls
<1>14. PICK s6 : s6 = Risk!Left(s5, 15, Risk!ComputeFreshAccount(dossier.nonce))
  OBVIOUS
<1>15. s6 \in Nat /\ s6 <= s5
  <2>1. PICK share \in Int \X Int : share = Risk!ComputeFreshAccount(dossier.nonce)
    BY FreshShare
  <2>. QED
    BY <1>13, <1>14, <2>1, LeftFalls
<1>16. PICK s7 : s7 = Risk!Left(s6, 10, Risk!ComputeNoHistory(rows))
  OBVIOUS
<1>17. s7 \in Nat /\ s7 <= s6
  BY <1>15, <1>16, HistoryShare, LeftFalls
<1>18. Risk!Survival = s7
  BY <1>1, <1>3, <1>5, <1>7, <1>10, <1>12, <1>14, <1>16 DEF Risk!Survival
<1>19. s7 \in 0..10000 /\ s7 <= s3
  BY <1>4, <1>6, <1>8, <1>11, <1>13, <1>15, <1>17
<1>20. (\E in, out \in Risk!Movements : Risk!Drains(in, out)) => s7 <= 3000
  <2>1. s3 <= 3000 => s7 <= 3000
    BY <1>8, <1>19
  <2>. QED
    BY <1>9, <2>1
<1>. QED
  BY <1>18, <1>19, <1>20

LEMMA LargestOfThree ==
    ASSUME NEW a \in Int, NEW b \in Int, NEW c \in Int
    PROVE  /\ Risk!Max({a, b, c}) \in {a, b, c}
           /\ Risk!Max({a, b, c}) >= a /\ Risk!Max({a, b, c}) >= b /\ Risk!Max({a, b, c}) >= c
<1>1. PICK S : S = {a, b, c}
  OBVIOUS
<1>2. \E x \in S : \A y \in S : x >= y
  <2>1. CASE a >= b /\ a >= c
    BY <1>1, <2>1
  <2>2. CASE b >= a /\ b >= c
    BY <1>1, <2>2
  <2>3. CASE c >= a /\ c >= b
    BY <1>1, <2>3
  <2>. QED
    BY <2>1, <2>2, <2>3
<1>3. Risk!Max(S) \in S /\ \A y \in S : Risk!Max(S) >= y
  BY <1>2 DEF Risk!Max
<1>. QED
  BY <1>1, <1>3

LEMMA LargestOfTwo ==
    ASSUME NEW a \in Int, NEW b \in Int
    PROVE  Risk!Max({a, b}) \in {a, b} /\ Risk!Max({a, b}) >= a /\ Risk!Max({a, b}) >= b
<1>1. PICK S : S = {a, b}
  OBVIOUS
<1>2. \E x \in S : \A y \in S : x >= y
  BY <1>1
<1>3. Risk!Max(S) \in S /\ \A y \in S : Risk!Max(S) >= y
  BY <1>2 DEF Risk!Max
<1>. QED
  BY <1>1, <1>3

\* The score of a listed address is the highest there is; that of taken funds is high.
LEMMA BehaviorScored ==
    ASSUME dossier \in Dossiers
    PROVE  /\ Risk!BehavioralScore \in 0..100
           /\ Risk!Hits # {} => Risk!BehavioralScore = 100
           /\ (\E in, out \in Risk!Movements : Risk!Drains(in, out)) => Risk!BehavioralScore >= 70
<1>1. PICK s : s = Risk!Survival
  OBVIOUS
<1>2. s \in 0..10000 /\ ((\E in, out \in Risk!Movements : Risk!Drains(in, out)) => s <= 3000)
  BY <1>1, SurvivalWithin
<1>3. Risk!BehavioralScore = IF Risk!Hits # {} THEN 100 ELSE (10050 - s) \div 100
  BY <1>1 DEF Risk!BehavioralScore
<1>4. (10050 - s) \div 100 \in 0..100 /\ (s <= 3000 => (10050 - s) \div 100 >= 70)
  BY <1>2
<1>. QED
  BY <1>2, <1>3, <1>4

\* Without a bundle nothing was asked of the explorer; the models answered in form.
RiskInv ==
    /\ dossier \in Dossiers
    /\ llm \in [score : 0..100, code : 0..2]
    /\ bundled \in BOOLEAN
    /\ phase = "floor" => ~bundled
    /\ phase \in {"explorer", "threat"} => bundled
    /\ ~bundled => \A c \in Risk!Calls : explored[c] = "asked"

\* Neither the models nor a source that failed to answer lowers the score.
LEMMA ScoreStands ==
    ASSUME RiskInv
    PROVE  LET combined == Risk!CombineBehavioralScore
               score == Risk!FloorScoreForCoverage(combined)
           IN  /\ combined \in 0..100 /\ score \in 0..100 /\ score >= combined
               /\ combined >= llm.score
               /\ ~Risk!Complete => score >= 30
               /\ Risk!Against => combined >= 60
<1>1. PICK l \in 0..100 : l = llm.score
  BY DEF RiskInv
<1>2. PICK b \in 0..100 : b = Risk!BehavioralScore
  BY BehaviorScored DEF RiskInv
<1>3. PICK h \in {0, 90} : h = IF Risk!Hits # {} \/ Risk!Honeypot THEN 90 ELSE 0
  OBVIOUS
<1>4. PICK combined : combined = Risk!CombineBehavioralScore
  OBVIOUS
<1>5. combined = IF ~bundled THEN l ELSE Risk!Max({l, b, h})
  BY <1>1, <1>2, <1>3, <1>4 DEF Risk!CombineBehavioralScore
<1>6. Risk!Max({l, b, h}) \in {l, b, h} /\ Risk!Max({l, b, h}) >= l
      /\ Risk!Max({l, b, h}) >= b /\ Risk!Max({l, b, h}) >= h
  <2>1. l \in Int /\ b \in Int /\ h \in Int
    OBVIOUS
  <2>. QED
    BY <2>1, LargestOfThree
<1>7. combined \in 0..100 /\ combined >= l /\ (bundled => combined >= b /\ combined >= h)
  BY <1>5, <1>6
<1>8. PICK score : score = Risk!FloorScoreForCoverage(combined)
  OBVIOUS
<1>9. score \in 0..100 /\ score >= combined /\ (~Risk!Complete => score >= 30)
  <2>1. score = IF Risk!Complete THEN combined ELSE Risk!Max({combined, 30})
    BY <1>8 DEF Risk!FloorScoreForCoverage
  <2>2. Risk!Max({combined, 30}) \in {combined, 30} /\ Risk!Max({combined, 30}) >= combined
        /\ Risk!Max({combined, 30}) >= 30
    BY <1>7, LargestOfTwo
  <2>. QED
    BY <1>7, <2>1, <2>2
<1>10. ASSUME Risk!Against PROVE combined >= 60
  <2>1. CASE bundled /\ (Risk!Hits # {} \/ Risk!Honeypot)
    BY <1>3, <1>7, <2>1
  <2>2. CASE \E in, out \in Risk!Movements : Risk!Drains(in, out)
    <3>1. bundled
      <4>. SUFFICES ASSUME ~bundled PROVE FALSE
        BY DEF RiskInv
      <4>1. explored["txlist"] = "asked" /\ explored["tokentx"] = "asked"
        BY DEF RiskInv, Risk!Calls
      <4>2. Risk!Movements = {}
        BY <4>1 DEF Risk!Movements, Risk!Range, Risk!Rows
      <4>. QED
        BY <2>2, <4>2
    <3>2. b >= 70
      BY <1>2, <2>2, BehaviorScored DEF RiskInv
    <3>. QED
      BY <1>7, <3>1, <3>2
  <2>. QED
    BY <1>10, <2>1, <2>2 DEF Risk!Against
<1>. QED
  BY <1>1, <1>4, <1>7, <1>8, <1>9, <1>10

\* Nor do they make the code milder than its opcodes and its source.
LEMMA CodeStands ==
    ASSUME RiskInv, bundled,
           Risk!Honeypot \/ \E i \in Risk!Opcodes(dossier.code) : dossier.code[i] = 255
    PROVE  Risk!CombineCodeRisk = 2
<1>1. Risk!ComputeCodeRisk = 2
  <2>1. CASE Risk!Honeypot
    BY <2>1 DEF Risk!ComputeCodeRisk
  <2>2. CASE \E i \in Risk!Opcodes(dossier.code) : dossier.code[i] = 255
    <3>1. 255 \in {dossier.code[i] : i \in Risk!Opcodes(dossier.code)}
      BY <2>2
    <3>2. "SELFDESTRUCT" \in Risk!BuildBytecodeFlags(dossier.code)
      BY <3>1 DEF Risk!BuildBytecodeFlags
    <3>. QED
      BY <3>2 DEF Risk!ComputeCodeRisk
  <2>. QED
    BY <2>1, <2>2
<1>2. PICK c \in 0..2 : c = llm.code
  BY DEF RiskInv
<1>3. Risk!CombineCodeRisk = Risk!Max({c, 2})
  BY <1>1, <1>2 DEF Risk!CombineCodeRisk
<1>4. Risk!Max({c, 2}) \in {c, 2} /\ Risk!Max({c, 2}) >= 2
  BY LargestOfTwo
<1>. QED
  BY <1>3, <1>4

\* What was answered says the same after a step that leaves it alone.
LEMMA EvidenceStands ==
    ASSUME UNCHANGED <<dossier, bundled, explored, listed>>
    PROVE  /\ Risk!Complete' <=> Risk!Complete
           /\ Risk!Honeypot' <=> Risk!Honeypot
           /\ Risk!Hits' = Risk!Hits
           /\ Risk!Movements' = Risk!Movements
           /\ Risk!Against' <=> Risk!Against
<1>1. Risk!Complete' <=> Risk!Complete
  BY DEF Risk!Complete
<1>2. Risk!Honeypot' <=> Risk!Honeypot
  BY DEF Risk!Honeypot
<1>3. Risk!Hits' = Risk!Hits
  BY DEF Risk!Hits
<1>4. Risk!Movements' = Risk!Movements
  BY DEF Risk!Movements, Risk!Rows
<1>5. Risk!Against' <=> Risk!Against
  BY <1>2, <1>3, <1>4 DEF Risk!Against
<1>. QED
  BY <1>1, <1>2, <1>3, <1>4, <1>5

LEMMA VerdictIsDue == ASSUME RiskInv, Risk!ComputeResult PROVE Risk!SealedVerdictIsEarned'
<1>1. PICK combined, score : /\ combined = Risk!CombineBehavioralScore
                             /\ score = Risk!FloorScoreForCoverage(combined)
  OBVIOUS
<1>2. /\ combined \in 0..100 /\ score \in 0..100 /\ score >= combined /\ combined >= llm.score
      /\ ~Risk!Complete => score >= 30
      /\ Risk!Against => combined >= 60
  BY <1>1, ScoreStands
<1>3. /\ verdict'.label = Risk!Label(score)
      /\ verdict'.codeRisk = IF kind = "EOA" THEN 0 ELSE Risk!CombineCodeRisk
      /\ UNCHANGED <<dossier, kind, bundled, explored, listed, llm>>
  BY <1>1 DEF Risk!ComputeResult
<1>4. llm.score \in 0..100
  BY DEF RiskInv
<1>5. verdict'.label = "SAFE" => score < 30
  BY <1>2, <1>3 DEF Risk!Label
<1>6. score >= 60 => verdict'.label = "FLAGGED"
  BY <1>2, <1>3 DEF Risk!Label
<1>7. kind = "CONTRACT" /\ bundled =>
        /\ (\E i \in Risk!Opcodes(dossier.code) : dossier.code[i] = 255) => verdict'.codeRisk = 2
        /\ Risk!Honeypot => verdict'.codeRisk = 2
  BY <1>3, CodeStands
<1>8. /\ verdict'.label = "SAFE" => Risk!Complete /\ llm.score < 30
      /\ Risk!Against => verdict'.label = "FLAGGED"
      /\ llm.score >= 60 => verdict'.label = "FLAGGED"
  BY <1>2, <1>4, <1>5, <1>6
<1>9. (Risk!Complete' <=> Risk!Complete) /\ (Risk!Honeypot' <=> Risk!Honeypot) /\ (Risk!Against' <=> Risk!Against)
  BY <1>3, EvidenceStands
<1>. QED
  BY <1>3, <1>7, <1>8, <1>9 DEF Risk!SealedVerdictIsEarned

LEMMA VerdictRests ==
    ASSUME Risk!SealedVerdictIsEarned, UNCHANGED riskVars PROVE Risk!SealedVerdictIsEarned'
<1>1. UNCHANGED <<dossier, kind, phase, bundled, explored, listed, llm, verdict>>
  BY DEF riskVars
<1>2. (Risk!Complete' <=> Risk!Complete) /\ (Risk!Honeypot' <=> Risk!Honeypot) /\ (Risk!Against' <=> Risk!Against)
  BY <1>1, EvidenceStands
<1>. QED
  BY <1>1, <1>2 DEF Risk!SealedVerdictIsEarned

LEMMA RiskStarts == Risk!Init => RiskInv /\ Risk!SealedVerdictIsEarned
<1>. SUFFICES ASSUME Risk!Init PROVE RiskInv /\ Risk!SealedVerdictIsEarned
  OBVIOUS
<1>1. llm = [score |-> 0, code |-> 0] /\ phase = "floor"
  BY DEF Risk!Init
<1>2. dossier \in Dossiers /\ bundled = FALSE /\ \A c \in Risk!Calls : explored[c] = "asked"
  BY DEF Risk!Init
<1>3. llm \in [score : 0..100, code : 0..2]
  BY <1>1
<1>4. RiskInv
  BY <1>1, <1>2, <1>3 DEF RiskInv
<1>. QED
  BY <1>1, <1>4 DEF Risk!SealedVerdictIsEarned

LEMMA RiskStepKeeps ==
    RiskInv /\ Risk!SealedVerdictIsEarned /\ [Risk!Next]_riskVars
      => RiskInv' /\ Risk!SealedVerdictIsEarned'
<1>. SUFFICES ASSUME RiskInv, Risk!SealedVerdictIsEarned, [Risk!Next]_riskVars
              PROVE  RiskInv' /\ Risk!SealedVerdictIsEarned'
  OBVIOUS
<1>. USE DEF RiskInv
<1>1. CASE Risk!ReadFloor
  BY <1>1 DEF Risk!ReadFloor, Risk!Calls, Risk!SealedVerdictIsEarned
<1>2. CASE Risk!Explored
  BY <1>2 DEF Risk!Explored, Risk!Calls, Risk!SealedVerdictIsEarned
<1>3. CASE Risk!Listed
  BY <1>3 DEF Risk!Listed, Risk!Calls, Risk!SealedVerdictIsEarned
<1>4. ASSUME NEW c \in Risk!Calls, Risk!ExplorerCall(c) PROVE RiskInv' /\ Risk!SealedVerdictIsEarned'
  BY <1>4 DEF Risk!ExplorerCall, Risk!Calls, Risk!SealedVerdictIsEarned
<1>5. ASSUME NEW s \in Risk!Sources, Risk!CheckSource(s) PROVE RiskInv' /\ Risk!SealedVerdictIsEarned'
  BY <1>5 DEF Risk!CheckSource, Risk!Calls, Risk!SealedVerdictIsEarned
<1>6. CASE Risk!TransientFailure
  BY <1>6 DEF Risk!TransientFailure, Risk!Calls, Risk!SealedVerdictIsEarned
<1>7. CASE Risk!ComputeFails
  BY <1>7 DEF Risk!ComputeFails, Risk!Calls, Risk!SealedVerdictIsEarned
<1>8. CASE Risk!ComputeBehavioral
  BY <1>8, RiskAssumption DEF Risk!ComputeBehavioral, Risk!Calls, Risk!SealedVerdictIsEarned
<1>9. CASE Risk!ComputeContract
  <2>1. PICK band \in 0..2 : llm' = [llm EXCEPT !.code = band]
    <3>1. PICK score \in ModelScores :
            llm' = [llm EXCEPT !.code = IF score < 30 THEN 0 ELSE IF score < 60 THEN 1 ELSE 2]
      BY <1>9 DEF Risk!ComputeContract
    <3>2. PICK band : band = IF score < 30 THEN 0 ELSE IF score < 60 THEN 1 ELSE 2
      OBVIOUS
    <3>. QED
      BY <3>1, <3>2
  <2>2. phase' = "verdict" /\ UNCHANGED <<dossier, bundled, explored>>
    BY <1>9 DEF Risk!ComputeContract
  <2>. QED
    BY <2>1, <2>2 DEF Risk!Calls, Risk!SealedVerdictIsEarned
<1>10. CASE Risk!ComputeResult
  <2>1. RiskInv'
    BY <1>10 DEF Risk!ComputeResult, Risk!Calls
  <2>. QED
    BY <1>10, <2>1, VerdictIsDue
<1>11. CASE UNCHANGED riskVars
  <2>1. RiskInv'
    BY <1>11 DEF riskVars, Risk!Calls
  <2>. QED
    BY <1>11, <2>1, VerdictRests
<1>. QED
  BY <1>1, <1>2, <1>3, <1>4, <1>5, <1>6, <1>7, <1>8, <1>9, <1>10, <1>11 DEF Risk!Next

LEMMA ReadsStepOfRisk ==
    [ReadsNext]_<<part, chainVars, locatorVars, discoverVars, sealedVars,
                  subjectVars, riskVars, fetchVars>> => [Risk!Next]_riskVars
  BY DEF ReadsNext, AccessStep, LocatorStep, DiscoverStep, SealedStep, SubjectStep, RiskStep, FetchStep

\* Whoever failed to answer and whatever the models made of it, a verdict is SAFE only on
\* complete evidence, what one answer holds against the subject is FLAGGED, and code is never
\* milder than its opcodes and its source, for every history, list, code and number of rows
\* that are looked at (production-operator.ts:335-378, risk-heuristics.ts:178-199, 273-277).
THEOREM SealedVerdictsAreEarned == ReadsSpec => []SealedVerdictIsEarned
<1>1. ReadsInit => RiskInv /\ Risk!SealedVerdictIsEarned
  BY RiskStarts DEF ReadsInit
<1>2. RiskInv /\ Risk!SealedVerdictIsEarned
      /\ [ReadsNext]_<<part, chainVars, locatorVars, discoverVars, sealedVars,
                        subjectVars, riskVars, fetchVars>> => RiskInv' /\ Risk!SealedVerdictIsEarned'
  BY ReadsStepOfRisk, RiskStepKeeps
<1>3. Risk!SealedVerdictIsEarned => SealedVerdictIsEarned
  BY DEF SealedVerdictIsEarned
<1>. QED
  BY <1>1, <1>2, <1>3, PTL DEF ReadsSpec
=============================================================================
