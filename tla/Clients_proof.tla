---------------------------- MODULE Clients_proof -----------------------------
(***************************************************************************)
(* What is asked for from outside, for any number of requests, agents,     *)
(* pages and answers.  The public scan endpoint: the limiter is exceeded   *)
(* by no more than the other requests under way, and no request turns      *)
(* into a seal over a lease.  The pages of the browser: none says of one   *)
(* subject what is true of another.  The first scanner: what it            *)
(* broadcasts is earned.                                                   *)
(***************************************************************************)
EXTENDS MCClients, FiniteSetTheorems, SequenceTheorems, TLAPS

-----------------------------------------------------------------------------
(* The public scan endpoint.                                                *)

\* The requests that passed the limiter and are not counted yet.
Waiting == {"body", "resolving", "challenge", "lease"}
UnderWay(t) == {c \in Calls : call[c].pc \in Waiting /\ call[c].stamp \in t..(t + Window)}

CallRow == [pc : Pcs, agent : Agents, stamp : Nat, answer : Answers, aborted : BOOLEAN,
            mode : {"none", "SEAL", "RESEAL"}, version : Nat, events : Seq(Event), found : Nat]

ScanTypeOK ==
    /\ now \in Nat
    /\ hits \in Seq(Nat)
    /\ starts \in Seq([arrived : Nat, started : Nat])
    /\ call \in [Calls -> CallRow]
    /\ lease \in [Agents -> Nat]

\* How many of the counted scans the limiter has forgotten.
Forgotten == Len(starts) - Len(hits)

\* The limiter remembers the last of them, and what it forgot is out of the window.
HitsAreLast ==
    /\ Len(hits) <= Len(starts)
    /\ \A j \in 1..Len(hits) : hits[j] = starts[Forgotten + j].arrived
    /\ \A i \in 1..Forgotten : starts[i].arrived + Window < now

\* Who was let in counts as much as who was counted.
WindowsBounded ==
    \A t \in Nat : Cardinality(ArrivedIn(t)) + Cardinality(UnderWay(t)) <= Max + Cardinality(Calls) - 1

\* What a request knows of the lease of its agent, of which no version is lost.
ModeOK(w) ==
    /\ w.found <= lease[w.agent]
    /\ w.mode # "none" => /\ w.mode = "SEAL" <=> w.version = 0
                          /\ w.version >= w.found

ScanInv ==
    /\ ScanTypeOK
    /\ HitsAreLast
    /\ WindowsBounded
    /\ \A c \in Calls : ModeOK(call[c])

-----------------------------------------------------------------------------
(* Counting.                                                                *)

LEMMA Least ==
    ASSUME NEW S \in SUBSET Nat, S # {}
    PROVE  \E x \in S : \A y \in S : x <= y
<1>1. PICK x \in S : \A y \in S : ~ (<<y, x>> \in OpToRel(<, Nat))
  BY NatLessThanWellFounded, WFMin
<1>2. \A y \in S : ~(y < x)
  BY <1>1 DEF OpToRel
<1>. QED
  BY <1>2

LEMMA Finite ==
    ASSUME ScanTypeOK, NEW t
    PROVE  /\ IsFiniteSet(ArrivedIn(t)) /\ Cardinality(ArrivedIn(t)) \in Nat
           /\ IsFiniteSet(UnderWay(t)) /\ Cardinality(UnderWay(t)) \in Nat
           /\ Cardinality(Calls) \in Nat /\ Cardinality(UnderWay(t)) <= Cardinality(Calls)
<1>1. IsFiniteSet(1..Len(starts)) /\ ArrivedIn(t) \in SUBSET (1..Len(starts))
  BY FS_Interval DEF ScanTypeOK, ArrivedIn
<1>2. IsFiniteSet(Calls) /\ UnderWay(t) \in SUBSET Calls
  BY ScanAssumption DEF ScanAssumption, UnderWay
<1>. QED
  BY <1>1, <1>2, FS_Subset, FS_CardinalityType

\* What the limiter drops is out of the window, and the rest keeps its order.
LEMMA PrunedIsLast ==
    ASSUME ScanTypeOK
    PROVE  \E m \in 0..Len(hits) :
             /\ Pruned(now) \in Seq(Nat) /\ Len(Pruned(now)) = Len(hits) - m
             /\ \A j \in 1..Len(hits) - m : Pruned(now)[j] = hits[m + j]
             /\ \A i \in 1..m : hits[i] + Window < now
<1>. DEFINE kept == {i \in 1..Len(hits) : hits[i] + Window >= now}
<1>0. now \in Nat /\ hits \in Seq(Nat) /\ Len(hits) \in Nat /\ Window \in Nat
  BY ScanAssumption DEF ScanTypeOK, ScanAssumption
<1>1. CASE kept = {}
  <2>1. Pruned(now) = << >>
    BY <1>1 DEF Pruned
  <2>2. \A i \in 1..Len(hits) : hits[i] + Window < now
    BY <1>0, <1>1
  <2>. QED
    BY <1>0, <2>1, <2>2
<1>2. CASE kept # {}
  <2>. DEFINE x == CHOOSE i \in kept : \A j \in kept : i <= j
  <2>1. x \in kept /\ \A j \in kept : x <= j
    <3>1. kept \in SUBSET Nat
      OBVIOUS
    <3>. QED
      BY <1>2, <3>1, Least
  <2>2. Pruned(now) = SubSeq(hits, x, Len(hits))
    BY <1>2 DEF Pruned
  <2>. HIDE DEF x
  <2>3. x \in 1..Len(hits) /\ \A i \in 1..x - 1 : hits[i] + Window < now
    <3>1. x \in 1..Len(hits)
      BY <2>1
    <3>2. ASSUME NEW i \in 1..x - 1
          PROVE  hits[i] + Window < now
      <4>1. i \in 1..Len(hits) /\ hits[i] \in Nat /\ ~(x <= i)
        BY <1>0, <3>1, <3>2
      <4>2. i \notin kept
        BY <2>1, <4>1
      <4>. QED
        BY <1>0, <4>1, <4>2
    <3>. QED
      BY <3>1, <3>2
  <2>4. /\ Pruned(now) \in Seq(Nat) /\ Len(Pruned(now)) = Len(hits) - (x - 1)
        /\ \A j \in 1..Len(hits) - (x - 1) : Pruned(now)[j] = hits[(x - 1) + j]
    <3>1. \A i \in x..Len(hits) : hits[i] \in Nat
      BY <1>0, <2>3
    <3>2. /\ SubSeq(hits, x, Len(hits)) \in Seq(Nat)
          /\ Len(SubSeq(hits, x, Len(hits))) = Len(hits) - x + 1
          /\ \A j \in 1..Len(hits) - x + 1 : SubSeq(hits, x, Len(hits))[j] = hits[x + j - 1]
      BY <1>0, <2>3, <3>1, SubSeqProperties
    <3>. QED
      BY <1>0, <2>2, <2>3, <3>2
  <2>5. x - 1 \in 0..Len(hits)
    BY <1>0, <2>3
  <2>. WITNESS x - 1 \in 0..Len(hits)
  <2>. QED
    BY <2>3, <2>4
<1>. QED
  BY <1>1, <1>2

\* A scan that arrived in a window that is not over is one the limiter remembers: of
\* what was counted, ss, it holds the last, of the length of hs.
LEMMA RememberedBounds ==
    ASSUME NEW hs \in Seq(Nat), NEW ss \in Seq([arrived : Nat, started : Nat]), NEW n \in Nat,
           Len(hs) <= Len(ss), \A i \in 1..Len(ss) - Len(hs) : ss[i].arrived + Window < n,
           NEW t \in Nat, n <= t + Window
    PROVE  Cardinality({i \in 1..Len(ss) : ss[i].arrived \in t..(t + Window)}) <= Len(hs)
<1>. DEFINE first == Len(ss) - Len(hs) + 1
            recent == first..Len(ss)
            inside == {i \in 1..Len(ss) : ss[i].arrived \in t..(t + Window)}
<1>1. Len(ss) \in Nat /\ Len(hs) \in Nat /\ Window \in Nat /\ first \in Int
  BY ScanAssumption DEF ScanAssumption
<1>2. inside \in SUBSET recent
  <2>1. ASSUME NEW i \in inside
        PROVE  i \in recent
    <3>1. ss[i] \in [arrived : Nat, started : Nat]
      BY <2>1, ElementOfSeq
    <3>2. i \in 1..Len(ss) /\ ss[i].arrived \in Nat /\ ss[i].arrived >= t
      BY <2>1, <3>1
    <3>3. i \notin 1..Len(ss) - Len(hs)
      <4>. DEFINE x == ss[i].arrived
      <4>0. x \in Nat /\ x >= t
        BY <3>2
      <4>. HIDE DEF x
      <4>1. ~(x + Window < n)
        BY <1>1, <4>0
      <4>. QED
        BY <4>1 DEF x
    <3>. QED
      BY <1>1, <3>2, <3>3
  <2>. QED
    BY <2>1
<1>3. IsFiniteSet(recent) /\ Cardinality(recent) = Len(hs)
  <2>1. first \in Int /\ Len(ss) \in Int
    BY <1>1
  <2>2. /\ IsFiniteSet(recent)
        /\ Cardinality(recent) = IF first > Len(ss) THEN 0 ELSE Len(ss) - first + 1
    <3>. HIDE DEF first
    <3>. QED
      BY <2>1, FS_Interval
  <2>. QED
    BY <1>1, <2>2
<1>. QED
  BY <1>2, <1>3, FS_Subset

-----------------------------------------------------------------------------
(* The steps.                                                               *)

LEMMA InitInv == Init => ScanInv
<1>. SUFFICES ASSUME Init PROVE ScanInv
  OBVIOUS
<1>1. PICK a \in Agents :
        call = [c \in Calls |-> [pc |-> "idle", agent |-> a, stamp |-> 0, answer |-> "none",
                                 aborted |-> FALSE, mode |-> "none", version |-> 0,
                                 events |-> <<>>, found |-> 0]]
  BY DEF Init
<1>2. ScanTypeOK
  <2>1. call \in [Calls -> CallRow]
    BY <1>1 DEF CallRow, Pcs, Answers
  <2>2. lease \in [Agents -> Nat]
    BY DEF Init
  <2>3. now \in Nat /\ hits \in Seq(Nat) /\ starts \in Seq([arrived : Nat, started : Nat])
    BY DEF Init
  <2>. QED
    BY <2>1, <2>2, <2>3 DEF ScanTypeOK
<1>3. HitsAreLast
  BY DEF Init, HitsAreLast, Forgotten
<1>4. WindowsBounded
  <2>1. ASSUME NEW t \in Nat
        PROVE  Cardinality(ArrivedIn(t)) + Cardinality(UnderWay(t)) <= Max + Cardinality(Calls) - 1
    <3>1. ArrivedIn(t) = {} /\ UnderWay(t) = {}
      BY <1>1 DEF Init, ArrivedIn, UnderWay, Waiting
    <3>2. Cardinality({}) = 0
      BY FS_EmptySet
    <3>3. Cardinality(Calls) \in Nat /\ Max \in Nat /\ Max # 0
      BY ScanAssumption, FS_CardinalityType DEF ScanAssumption
    <3>. HIDE DEF ArrivedIn, UnderWay
    <3>. QED
      BY <3>1, <3>2, <3>3
  <2>. QED
    BY <2>1 DEF WindowsBounded
<1>5. \A c \in Calls : ModeOK(call[c])
  BY <1>1 DEF Init, ModeOK
<1>. QED
  BY <1>2, <1>3, <1>4, <1>5 DEF ScanInv

\* A step that only moves a request on, or out, and may seal a version.
LEMMA RowMoves ==
    ASSUME ScanInv, NEW c \in Calls, NEW w \in CallRow, call' = [call EXCEPT ![c] = w],
           w.stamp = call[c].stamp, w.agent = call[c].agent, w.found = call[c].found,
           w.mode = call[c].mode, w.version = call[c].version,
           w.pc \in Waiting => call[c].pc \in Waiting,
           lease' \in [Agents -> Nat], \A a \in Agents : lease[a] <= lease'[a],
           UNCHANGED <<now, hits, starts>>
    PROVE  ScanInv'
<1>1. ScanTypeOK'
  BY DEF ScanInv, ScanTypeOK
<1>2. HitsAreLast'
  BY DEF ScanInv, HitsAreLast, Forgotten
<1>3. WindowsBounded'
  <2>1. ASSUME NEW t \in Nat
        PROVE  Cardinality(ArrivedIn(t)') + Cardinality(UnderWay(t)') <= Max + Cardinality(Calls) - 1
    <3>1. ArrivedIn(t)' = ArrivedIn(t)
      BY DEF ArrivedIn
    <3>2. UnderWay(t)' \in SUBSET UnderWay(t)
      BY DEF ScanInv, ScanTypeOK, UnderWay
    <3>3. Cardinality(UnderWay(t)') <= Cardinality(UnderWay(t)) /\ Cardinality(UnderWay(t)') \in Nat
      <4>1. IsFiniteSet(UnderWay(t))
        BY Finite DEF ScanInv
      <4>. QED
        BY <3>2, <4>1, FS_Subset, FS_CardinalityType
    <3>4. Cardinality(ArrivedIn(t)) \in Nat /\ Cardinality(UnderWay(t)) \in Nat
          /\ Cardinality(Calls) \in Nat /\ Max \in Nat
      BY Finite, ScanAssumption DEF ScanInv, ScanAssumption
    <3>5. Cardinality(ArrivedIn(t)) + Cardinality(UnderWay(t)) <= Max + Cardinality(Calls) - 1
      BY DEF ScanInv, WindowsBounded
    <3>. QED
      BY <3>1, <3>3, <3>4, <3>5
  <2>. QED
    BY <2>1 DEF WindowsBounded
<1>4. ASSUME NEW d \in Calls
      PROVE  ModeOK(call[d])'
  <2>1. call[d] \in CallRow /\ ModeOK(call[d]) /\ call'[d].agent = call[d].agent
        /\ call'[d].found = call[d].found /\ call'[d].mode = call[d].mode
        /\ call'[d].version = call[d].version
    BY DEF ScanInv, ScanTypeOK
  <2>2. lease[call[d].agent] <= lease'[call[d].agent] /\ lease[call[d].agent] \in Nat
        /\ lease'[call[d].agent] \in Nat /\ call[d].found \in Nat
    BY <2>1 DEF CallRow, ScanInv, ScanTypeOK
  <2>. QED
    BY <2>1, <2>2 DEF ModeOK
<1>. QED
  BY <1>1, <1>2, <1>3, <1>4 DEF ScanInv

LEMMA UnchangedKeeps == ScanInv /\ UNCHANGED vars => ScanInv'
BY DEF vars, ScanInv, ScanTypeOK, HitsAreLast, Forgotten, WindowsBounded, ArrivedIn, UnderWay, ModeOK

LEMMA TickKeeps == ScanInv /\ Tick => ScanInv'
<1>. SUFFICES ASSUME ScanInv, Tick PROVE ScanInv'
  OBVIOUS
<1>1. ScanTypeOK'
  BY DEF Tick, ScanInv, ScanTypeOK
<1>2. HitsAreLast'
  <2>1. now \in Nat /\ Window \in Nat /\ Forgotten \in Nat /\ Forgotten' = Forgotten
        /\ Len(starts) \in Nat /\ Forgotten <= Len(starts)
    BY ScanAssumption DEF ScanAssumption, Tick, ScanInv, ScanTypeOK, HitsAreLast, Forgotten
  <2>2. ASSUME NEW i \in 1..Forgotten
        PROVE  starts[i].arrived + Window < now /\ starts[i].arrived \in Nat
    <3>1. starts[i] \in [arrived : Nat, started : Nat]
      <4>1. i \in 1..Len(starts)
        BY <2>1
      <4>. QED
        BY <4>1, ElementOfSeq DEF ScanInv, ScanTypeOK
    <3>. QED
      BY <3>1 DEF ScanInv, HitsAreLast
  <2>. QED
    BY <2>1, <2>2 DEF Tick, ScanInv, HitsAreLast
<1>3. WindowsBounded' /\ (\A c \in Calls : ModeOK(call[c]))'
  BY DEF Tick, ScanInv, WindowsBounded, ArrivedIn, UnderWay, ModeOK
<1>. QED
  BY <1>1, <1>2, <1>3 DEF ScanInv

\* A request that comes is let in only while the window that is open has room.
LEMMA ArriveKeeps ==
    ASSUME ScanInv, NEW c \in Calls, NEW a \in Agents, Arrive(c, a)
    PROVE  ScanInv'
<1>. DEFINE full == Len(hits') >= Max
            w == [pc |-> IF full THEN "done" ELSE "body", agent |-> a, stamp |-> now,
                  answer |-> IF full THEN "RATE_LIMIT" ELSE "none",
                  aborted |-> FALSE, mode |-> "none", version |-> 0,
                  events |-> <<>>, found |-> lease[a]]
<1>0. call' = [call EXCEPT ![c] = w] /\ hits' = Pruned(now) /\ UNCHANGED <<now, lease, starts>>
  BY DEF Arrive
<1>1. ScanTypeOK /\ HitsAreLast /\ WindowsBounded /\ now \in Nat /\ Len(hits) \in Nat
      /\ Len(starts) \in Nat /\ Window \in Nat /\ Max \in Nat
  BY ScanAssumption DEF ScanInv, ScanTypeOK, ScanAssumption
<1>2. PICK m \in 0..Len(hits) :
        /\ hits' \in Seq(Nat) /\ Len(hits') = Len(hits) - m
        /\ \A j \in 1..Len(hits) - m : hits'[j] = hits[m + j]
        /\ \A i \in 1..m : hits[i] + Window < now
  BY <1>0, <1>1, PrunedIsLast
<1>3. w \in CallRow /\ ModeOK(w)
  <2>1. lease[a] \in Nat
    BY <1>1 DEF ScanTypeOK
  <2>2. w \in CallRow
    BY <1>1, <2>1 DEF CallRow, Pcs, Answers
  <2>. QED
    BY <2>1, <2>2 DEF ModeOK
<1>. HIDE DEF w
<1>4. ScanTypeOK'
  BY <1>0, <1>1, <1>2, <1>3 DEF ScanTypeOK
<1>5. HitsAreLast'
  <2>1. Forgotten' = Forgotten + m /\ Forgotten \in Nat /\ Len(starts) = Forgotten + Len(hits)
        /\ m \in Nat /\ m <= Len(hits)
    BY <1>0, <1>1, <1>2 DEF Forgotten, HitsAreLast
  <2>2. Len(hits') <= Len(starts')
    BY <1>0, <1>1, <1>2, <2>1
  <2>3. ASSUME NEW j \in 1..Len(hits')
        PROVE  hits'[j] = starts'[Forgotten' + j].arrived
    <3>1. j \in 1..Len(hits) - m /\ m + j \in 1..Len(hits) /\ Forgotten' + j = Forgotten + (m + j)
      BY <1>1, <1>2, <2>1
    <3>2. hits'[j] = hits[m + j] /\ hits[m + j] = starts[Forgotten + (m + j)].arrived
      BY <1>1, <1>2, <3>1 DEF HitsAreLast
    <3>. QED
      BY <1>0, <3>1, <3>2
  <2>4. ASSUME NEW i \in 1..Forgotten'
        PROVE  starts'[i].arrived + Window < now'
    <3>1. CASE i \in 1..Forgotten
      BY <1>0, <1>1, <3>1 DEF HitsAreLast
    <3>2. CASE i \notin 1..Forgotten
      <4>1. i - Forgotten \in 1..m /\ i - Forgotten \in 1..Len(hits) /\ Forgotten + (i - Forgotten) = i
        BY <1>1, <2>1, <3>2
      <4>2. hits[i - Forgotten] = starts[i].arrived /\ hits[i - Forgotten] + Window < now
        BY <1>1, <1>2, <4>1 DEF HitsAreLast
      <4>. QED
        BY <1>0, <4>2
    <3>. QED
      BY <3>1, <3>2
  <2>. QED
    BY <2>2, <2>3, <2>4 DEF HitsAreLast
<1>6. WindowsBounded'
  <2>1. ASSUME NEW t \in Nat
        PROVE  Cardinality(ArrivedIn(t)') + Cardinality(UnderWay(t)') <= Max + Cardinality(Calls) - 1
    <3>1. ArrivedIn(t)' = ArrivedIn(t)
      BY <1>0 DEF ArrivedIn
    <3>2. /\ Cardinality(ArrivedIn(t)) \in Nat /\ Cardinality(UnderWay(t)) \in Nat
          /\ Cardinality(Calls) \in Nat /\ IsFiniteSet(UnderWay(t))
      BY <1>1, Finite
    <3>3. Cardinality(UnderWay(t)') \in Nat /\ Cardinality(UnderWay(t)') <= Cardinality(Calls)
      <4>1. UnderWay(t)' \in SUBSET Calls /\ IsFiniteSet(Calls)
        BY ScanAssumption DEF ScanAssumption, UnderWay
      <4>. QED
        BY <4>1, FS_Subset, FS_CardinalityType
    <3>4. Cardinality(ArrivedIn(t)) + Cardinality(UnderWay(t)) <= Max + Cardinality(Calls) - 1
      BY <1>1 DEF WindowsBounded
    <3>5. CASE full \/ now \notin t..(t + Window)
      <4>1. UnderWay(t)' \in SUBSET UnderWay(t)
        <5>1. ~(w.pc \in Waiting /\ w.stamp \in t..(t + Window))
          BY <3>5 DEF w, Waiting
        <5>2. \A d \in Calls : call'[d] = IF d = c THEN w ELSE call[d]
          BY <1>0, <1>1 DEF ScanTypeOK
        <5>. QED
          BY <5>1, <5>2 DEF UnderWay
      <4>2. Cardinality(UnderWay(t)') <= Cardinality(UnderWay(t))
        BY <3>2, <4>1, FS_Subset
      <4>. QED
        BY <1>1, <3>1, <3>2, <3>3, <3>4, <4>2
    <3>6. CASE ~full /\ now \in t..(t + Window)
      <4>1. Cardinality(ArrivedIn(t)') <= Len(hits')
        <5>1. now <= t + Window
          BY <1>1, <3>6
        <5>2. \A i \in 1..Len(starts) - Len(hits') : starts[i].arrived + Window < now
          BY <1>0, <1>5 DEF HitsAreLast, Forgotten
        <5>3. starts \in Seq([arrived : Nat, started : Nat]) /\ Len(hits') <= Len(starts)
          BY <1>0, <1>1, <1>5 DEF ScanTypeOK, HitsAreLast
        <5>4. Cardinality({i \in 1..Len(starts) : starts[i].arrived \in t..(t + Window)}) <= Len(hits')
          BY <1>1, <1>2, <5>1, <5>2, <5>3, RememberedBounds
        <5>. QED
          BY <1>0, <5>4 DEF ArrivedIn
      <4>2. Len(hits') \in Nat /\ Len(hits') < Max
        BY <1>1, <1>2, <3>6
      <4>. QED
        BY <1>1, <3>1, <3>2, <3>3, <4>1, <4>2
    <3>. QED
      BY <3>5, <3>6
  <2>. QED
    BY <2>1 DEF WindowsBounded
<1>7. ASSUME NEW d \in Calls
      PROVE  ModeOK(call[d])'
  <2>1. call'[d] = IF d = c THEN w ELSE call[d]
    BY <1>0, <1>1 DEF ScanTypeOK
  <2>2. ModeOK(call[d]) /\ ModeOK(w)
    BY <1>3 DEF ScanInv
  <2>. QED
    BY <1>0, <2>1, <2>2 DEF ModeOK
<1>. QED
  BY <1>4, <1>5, <1>6, <1>7 DEF ScanInv

\* Counting a request moves it from those under way to those that count.
LEMMA ReadLeaseKeeps ==
    ASSUME ScanInv, NEW c \in Calls, ReadLease(c)
    PROVE  ScanInv'
<1>. DEFINE s == [arrived |-> call[c].stamp, started |-> now]
            w == [call[c] EXCEPT !.pc = "running", !.answer = "stream", !.mode = Mode(c),
                                 !.version = lease[call[c].agent]]
<1>0. /\ call' = [call EXCEPT ![c] = w] /\ hits' = Append(hits, call[c].stamp)
      /\ starts' = Append(starts, s) /\ UNCHANGED <<now, lease>> /\ call[c].pc = "lease"
  BY DEF ReadLease, Counted, At
<1>1. ScanTypeOK /\ HitsAreLast /\ WindowsBounded /\ now \in Nat /\ Len(hits) \in Nat
      /\ Len(starts) \in Nat /\ Window \in Nat /\ Max \in Nat
  BY ScanAssumption DEF ScanInv, ScanTypeOK, ScanAssumption
<1>2. call[c] \in CallRow /\ call[c].stamp \in Nat /\ lease[call[c].agent] \in Nat /\ ModeOK(call[c])
      /\ call[c].found \in Nat
  BY <1>1 DEF ScanInv, ScanTypeOK, CallRow
<1>3. w \in CallRow /\ w.stamp = call[c].stamp /\ w.pc = "running" /\ ModeOK(w)
  <2>1. w \in CallRow /\ w.stamp = call[c].stamp /\ w.pc = "running" /\ w.mode = Mode(c)
        /\ w.version = lease[call[c].agent] /\ w.found = call[c].found /\ w.agent = call[c].agent
    BY <1>2 DEF CallRow, Pcs, Answers, Mode
  <2>. HIDE DEF w
  <2>. QED
    BY <1>2, <2>1 DEF ModeOK, Mode
<1>. HIDE DEF w
<1>4. /\ s \in [arrived : Nat, started : Nat]
      /\ starts' \in Seq([arrived : Nat, started : Nat]) /\ Len(starts') = Len(starts) + 1
      /\ starts'[Len(starts) + 1] = s /\ \A i \in 1..Len(starts) : starts'[i] = starts[i]
  <2>1. s \in [arrived : Nat, started : Nat]
    BY <1>1, <1>2
  <2>. HIDE DEF s
  <2>2. starts \in Seq([arrived : Nat, started : Nat])
    BY <1>1 DEF ScanTypeOK
  <2>. QED
    BY <1>0, <2>1, <2>2, AppendProperties
<1>5. /\ hits' \in Seq(Nat) /\ Len(hits') = Len(hits) + 1
      /\ hits'[Len(hits) + 1] = call[c].stamp /\ \A i \in 1..Len(hits) : hits'[i] = hits[i]
  <2>1. hits \in Seq(Nat)
    BY <1>1 DEF ScanTypeOK
  <2>. QED
    BY <1>0, <1>2, <2>1, AppendProperties
<1>6. ScanTypeOK'
  BY <1>0, <1>1, <1>3, <1>4, <1>5 DEF ScanTypeOK
<1>7. HitsAreLast'
  <2>1. Forgotten' = Forgotten /\ Forgotten \in Nat /\ Len(starts) = Forgotten + Len(hits)
    BY <1>1, <1>4, <1>5 DEF Forgotten, HitsAreLast
  <2>2. ASSUME NEW j \in 1..Len(hits')
        PROVE  hits'[j] = starts'[Forgotten' + j].arrived
    <3>1. CASE j \in 1..Len(hits)
      <4>1. Forgotten + j \in 1..Len(starts)
        BY <1>1, <2>1, <3>1
      <4>2. hits'[j] = hits[j] /\ starts'[Forgotten' + j] = starts[Forgotten + j]
        BY <1>4, <1>5, <2>1, <3>1, <4>1
      <4>. QED
        BY <1>1, <3>1, <4>2 DEF HitsAreLast
    <3>2. CASE j \notin 1..Len(hits)
      <4>1. j = Len(hits) + 1 /\ Forgotten' + j = Len(starts) + 1
        <5>1. j \in Nat /\ 1 <= j /\ j <= Len(hits) + 1
          BY <1>1, <1>5
        <5>2. ~(j <= Len(hits))
          BY <3>2, <5>1
        <5>. QED
          BY <1>1, <2>1, <5>1, <5>2
      <4>. HIDE DEF s
      <4>2. hits'[j] = call[c].stamp
        BY <1>5, <4>1
      <4>3. starts'[Forgotten' + j] = s
        BY <1>4, <4>1
      <4>4. s.arrived = call[c].stamp
        BY DEF s
      <4>. QED
        BY <4>2, <4>3, <4>4
    <3>. QED
      BY <3>1, <3>2
  <2>3. ASSUME NEW i \in 1..Forgotten'
        PROVE  starts'[i].arrived + Window < now'
    <3>1. i \in 1..Forgotten /\ i \in 1..Len(starts)
      BY <1>1, <2>1
    <3>. QED
      BY <1>0, <1>1, <1>4, <3>1 DEF HitsAreLast
  <2>4. Len(hits') <= Len(starts')
    BY <1>1, <1>4, <1>5 DEF HitsAreLast
  <2>. QED
    BY <2>2, <2>3, <2>4 DEF HitsAreLast
<1>8. WindowsBounded'
  <2>1. ASSUME NEW t \in Nat
        PROVE  Cardinality(ArrivedIn(t)') + Cardinality(UnderWay(t)') <= Max + Cardinality(Calls) - 1
    <3>. DEFINE new == Len(starts) + 1
    <3>1. /\ Cardinality(ArrivedIn(t)) \in Nat /\ Cardinality(UnderWay(t)) \in Nat
          /\ Cardinality(Calls) \in Nat /\ IsFiniteSet(UnderWay(t)) /\ IsFiniteSet(ArrivedIn(t))
      BY <1>1, Finite
    <3>2. Cardinality(ArrivedIn(t)) + Cardinality(UnderWay(t)) <= Max + Cardinality(Calls) - 1
      BY <1>1 DEF WindowsBounded
    <3>3. UnderWay(t)' = UnderWay(t) \ {c}
      <4>1. \A d \in Calls : call'[d] = IF d = c THEN w ELSE call[d]
        BY <1>0, <1>1 DEF ScanTypeOK
      <4>2. w.pc \notin Waiting
        BY <1>3 DEF Waiting
      <4>. QED
        BY <4>1, <4>2 DEF UnderWay
    <3>4. CASE call[c].stamp \in t..(t + Window)
      <4>1. c \in UnderWay(t)
        BY <1>0, <3>4 DEF UnderWay, Waiting
      <4>2. ArrivedIn(t)' = ArrivedIn(t) \cup {new} /\ new \notin ArrivedIn(t)
        <5>1. 1..Len(starts') = (1..Len(starts)) \cup {new} /\ new \notin 1..Len(starts)
          BY <1>1, <1>4
        <5>2. starts'[new].arrived = call[c].stamp
          BY <1>4
        <5>. DEFINE window == t..(t + Window)
        <5>3. /\ ArrivedIn(t)  = {i \in 1..Len(starts)  : starts[i].arrived  \in window}
              /\ ArrivedIn(t)' = {i \in 1..Len(starts') : starts'[i].arrived \in window}
          BY DEF ArrivedIn
        <5>4. \A i \in 1..Len(starts) : starts'[i].arrived = starts[i].arrived
          BY <1>4
        <5>5. starts'[new].arrived \in window
          BY <3>4, <5>2
        <5>. HIDE DEF new, window
        <5>. QED
          BY <5>1, <5>3, <5>4, <5>5
      <4>3. Cardinality(ArrivedIn(t)') = Cardinality(ArrivedIn(t)) + 1
        BY <3>1, <4>2, FS_AddElement
      <4>4. Cardinality(UnderWay(t)') = Cardinality(UnderWay(t)) - 1
        <5>. HIDE DEF UnderWay, ArrivedIn
        <5>1. Cardinality(UnderWay(t) \ {c}) = Cardinality(UnderWay(t)) - 1
          BY <3>1, <4>1, FS_RemoveElement
        <5>. QED
          BY <3>3, <5>1
      <4>. QED
        BY <1>1, <3>1, <3>2, <4>3, <4>4
    <3>5. CASE call[c].stamp \notin t..(t + Window)
      <4>1. ArrivedIn(t)' = ArrivedIn(t)
        <5>1. 1..Len(starts') = (1..Len(starts)) \cup {new} /\ new \notin 1..Len(starts)
          BY <1>1, <1>4
        <5>2. starts'[new].arrived = call[c].stamp
          BY <1>4
        <5>. DEFINE window == t..(t + Window)
        <5>3. /\ ArrivedIn(t)  = {i \in 1..Len(starts)  : starts[i].arrived  \in window}
              /\ ArrivedIn(t)' = {i \in 1..Len(starts') : starts'[i].arrived \in window}
          BY DEF ArrivedIn
        <5>4. \A i \in 1..Len(starts) : starts'[i].arrived = starts[i].arrived
          BY <1>4
        <5>5. starts'[new].arrived \notin window
          BY <3>5, <5>2
        <5>. HIDE DEF new, window
        <5>. QED
          BY <5>1, <5>3, <5>4, <5>5
      <4>2. UnderWay(t)' = UnderWay(t)
        BY <3>3, <3>5 DEF UnderWay
      <4>. QED
        BY <3>2, <4>1, <4>2
    <3>. QED
      BY <3>4, <3>5
  <2>. QED
    BY <2>1 DEF WindowsBounded
<1>9. ASSUME NEW d \in Calls
      PROVE  ModeOK(call[d])'
  <2>1. call'[d] = IF d = c THEN w ELSE call[d]
    BY <1>0, <1>1 DEF ScanTypeOK
  <2>2. ModeOK(call[d]) /\ ModeOK(w)
    BY <1>3 DEF ScanInv
  <2>. QED
    BY <1>0, <2>1, <2>2 DEF ModeOK
<1>. QED
  BY <1>6, <1>7, <1>8, <1>9 DEF ScanInv

\* The other steps of a request move it on, or out.
LEMMA CallStepKeeps ==
    ASSUME ScanInv, NEW c \in Calls, CallStep(c)
    PROVE  ScanInv'
<1>. DEFINE Moved(pc, answer, events, aborted) ==
              [call[c] EXCEPT !.pc = pc, !.answer = answer, !.events = events, !.aborted = aborted]
<1>0. /\ call \in [Calls -> CallRow] /\ call[c] \in CallRow /\ lease \in [Agents -> Nat]
      /\ call[c].agent \in Agents /\ call[c].answer \in Answers /\ call[c].events \in Seq(Event)
      /\ call[c].aborted \in BOOLEAN
      /\ call[c] = [pc |-> call[c].pc, agent |-> call[c].agent, stamp |-> call[c].stamp,
                    answer |-> call[c].answer, aborted |-> call[c].aborted, mode |-> call[c].mode,
                    version |-> call[c].version, events |-> call[c].events, found |-> call[c].found]
  BY DEF ScanInv, ScanTypeOK, CallRow
<1>1. ASSUME NEW pc \in Pcs, NEW answer \in Answers, NEW events \in Seq(Event), NEW aborted \in BOOLEAN,
             call' = [call EXCEPT ![c] = Moved(pc, answer, events, aborted)],
             pc \in Waiting => call[c].pc \in Waiting,
             lease' \in [Agents -> Nat], \A a \in Agents : lease[a] <= lease'[a],
             UNCHANGED <<now, hits, starts>>
      PROVE  ScanInv'
  <2>1. PICK w : w = Moved(pc, answer, events, aborted)
    OBVIOUS
  <2>2. /\ w \in CallRow /\ w.stamp = call[c].stamp /\ w.agent = call[c].agent
        /\ w.found = call[c].found /\ w.mode = call[c].mode /\ w.version = call[c].version
        /\ w.pc = pc
    BY <1>0, <2>1 DEF CallRow
  <2>3. call' = [call EXCEPT ![c] = w] /\ (w.pc \in Waiting => call[c].pc \in Waiting)
    BY <1>1, <2>1, <2>2
  <2>. HIDE DEF Moved
  <2>. QED
    BY <1>1, <2>2, <2>3, RowMoves
<1>2. ASSUME NEW pc \in Pcs, NEW answer \in Answers, pc \in Waiting => call[c].pc \in Waiting,
             call' = [call EXCEPT ![c].pc = pc, ![c].answer = answer],
             UNCHANGED <<now, hits, lease, starts>>
      PROVE  ScanInv'
  <2>1. call' = [call EXCEPT ![c] = Moved(pc, answer, call[c].events, call[c].aborted)]
    BY <1>0, <1>2
  <2>2. lease' \in [Agents -> Nat] /\ \A a \in Agents : lease[a] <= lease'[a]
    BY <1>0, <1>2
  <2>3. call[c].events \in Seq(Event) /\ call[c].aborted \in BOOLEAN
    BY <1>0
  <2>. HIDE DEF Moved
  <2>. QED
    BY <1>1, <1>2, <2>1, <2>2, <2>3
<1>3. ASSUME NEW pc \in Pcs, pc \in Waiting => call[c].pc \in Waiting, Goto(c, pc),
             UNCHANGED <<now, hits, lease, starts>>
      PROVE  ScanInv'
  <2>1. call' = [call EXCEPT ![c].pc = pc, ![c].answer = call[c].answer]
    BY <1>0, <1>3 DEF Goto
  <2>. QED
    BY <1>0, <1>2, <1>3, <2>1
<1>4. ASSUME NEW answer \in Answers, End(c, answer), UNCHANGED <<now, hits, lease, starts>>
      PROVE  ScanInv'
  <2>1. "done" \in Pcs /\ "done" \notin Waiting
    BY DEF Pcs, Waiting
  <2>. QED
    BY <1>2, <1>4, <2>1 DEF End
<1>5. ASSUME NEW event \in Event
      PROVE  Send(c, event) \in Seq(Event)
  BY <1>0, AppendProperties DEF Send
<1>a. ASSUME NEW a \in Agents, Arrive(c, a)
      PROVE  ScanInv'
  BY <1>a, ArriveKeeps
<1>b. CASE ReadBody(c)
  <2>1. "resolving" \in Pcs /\ "challenge" \in Pcs /\ "lease" \in Pcs /\ "INVALID_INPUT" \in Answers
        /\ "body" \in Waiting
    BY DEF Pcs, Answers, Waiting
  <2>2. call[c].pc \in Waiting /\ UNCHANGED <<now, hits, lease, starts>>
    BY <1>b, <2>1 DEF ReadBody, At
  <2>3. \/ Goto(c, "resolving") \/ Goto(c, "challenge") \/ Goto(c, "lease")
        \/ End(c, "INVALID_INPUT")
    BY <1>b DEF ReadBody
  <2>. QED
    BY <1>3, <1>4, <2>1, <2>2, <2>3
<1>c. CASE ResolveAddress(c)
  <2>1. "challenge" \in Pcs /\ "lease" \in Pcs /\ "AGENT_NOT_FOUND" \in Answers
        /\ "resolving" \in Waiting
    BY DEF Pcs, Answers, Waiting
  <2>2. call[c].pc \in Waiting /\ UNCHANGED <<now, hits, lease, starts>>
    BY <1>c, <2>1 DEF ResolveAddress, At
  <2>3. Goto(c, "challenge") \/ Goto(c, "lease") \/ End(c, "AGENT_NOT_FOUND")
    BY <1>c DEF ResolveAddress
  <2>. QED
    BY <1>3, <1>4, <2>1, <2>2, <2>3
<1>d. CASE VerifyTurnstile(c)
  <2>1. "lease" \in Pcs /\ "CHALLENGE_FAILED" \in Answers /\ "challenge" \in Waiting
    BY DEF Pcs, Answers, Waiting
  <2>2. call[c].pc \in Waiting /\ UNCHANGED <<now, hits, lease, starts>>
    BY <1>d, <2>1 DEF VerifyTurnstile, At
  <2>3. Goto(c, "lease") \/ End(c, "CHALLENGE_FAILED")
    BY <1>d DEF VerifyTurnstile
  <2>. QED
    BY <1>3, <1>4, <2>1, <2>2, <2>3
<1>e. CASE CallFails(c)
  <2>1. "DEPENDENCY_UNAVAILABLE" \in Answers
    BY DEF Answers
  <2>. QED
    BY <1>4, <1>e, <2>1 DEF CallFails
<1>f. CASE ReadLease(c)
  BY <1>f, ReadLeaseKeeps
<1>g. CASE ReportStage(c)
  <2>. DEFINE pc == IF call[c].aborted THEN "done" ELSE "running"
  <2>1. pc \in Pcs /\ pc \notin Waiting /\ "stage" \in Event
    BY DEF Pcs, Waiting, Event
  <2>2. call' = [call EXCEPT ![c] = Moved(pc, call[c].answer, Send(c, "stage"), call[c].aborted)]
    BY <1>0, <1>g DEF ReportStage
  <2>3. lease' \in [Agents -> Nat] /\ (\A a \in Agents : lease[a] <= lease'[a])
        /\ UNCHANGED <<now, hits, starts>>
    BY <1>0, <1>g DEF ReportStage
  <2>. HIDE DEF Moved, pc
  <2>. QED
    BY <1>0, <1>1, <1>5, <2>1, <2>2, <2>3
<1>h. CASE RunnerSeals(c)
  <2>1. "done" \in Pcs /\ "done" \notin Waiting /\ "complete" \in Event
    BY DEF Pcs, Waiting, Event
  <2>2. call' = [call EXCEPT ![c] = Moved("done", call[c].answer, Send(c, "complete"), call[c].aborted)]
    BY <1>0, <1>h DEF RunnerSeals
  <2>3. lease' \in [Agents -> Nat] /\ (\A a \in Agents : lease[a] <= lease'[a])
        /\ UNCHANGED <<now, hits, starts>>
    BY <1>0, <1>h DEF RunnerSeals
  <2>. HIDE DEF Moved
  <2>. QED
    BY <1>0, <1>1, <1>5, <2>1, <2>2, <2>3
<1>i. CASE RunnerFails(c)
  <2>1. "done" \in Pcs /\ "done" \notin Waiting /\ "error" \in Event
    BY DEF Pcs, Waiting, Event
  <2>2. call' = [call EXCEPT ![c] = Moved("done", call[c].answer, Send(c, "error"), call[c].aborted)]
    BY <1>0, <1>i DEF RunnerFails
  <2>3. lease' \in [Agents -> Nat] /\ (\A a \in Agents : lease[a] <= lease'[a])
        /\ UNCHANGED <<now, hits, starts>>
    BY <1>0, <1>i DEF RunnerFails
  <2>. HIDE DEF Moved
  <2>. QED
    BY <1>0, <1>1, <1>5, <2>1, <2>2, <2>3
<1>j. CASE Disconnect(c)
  <2>1. call[c].pc \in Pcs
    BY <1>0 DEF CallRow
  <2>2. call' = [call EXCEPT ![c] = Moved(call[c].pc, call[c].answer, call[c].events, TRUE)]
    BY <1>0, <1>j DEF Disconnect
  <2>3. lease' \in [Agents -> Nat] /\ (\A a \in Agents : lease[a] <= lease'[a])
        /\ UNCHANGED <<now, hits, starts>>
    BY <1>0, <1>j DEF Disconnect
  <2>. HIDE DEF Moved
  <2>. QED
    BY <1>0, <1>1, <2>1, <2>2, <2>3
<1>. QED
  BY <1>a, <1>b, <1>c, <1>d, <1>e, <1>f, <1>g, <1>h, <1>i, <1>j DEF CallStep

LEMMA ScanInvariant == Spec => []ScanInv
<1>1. Init => ScanInv
  BY InitInv
<1>2. ScanInv /\ [Next]_vars => ScanInv'
  BY CallStepKeeps, TickKeeps, UnchangedKeeps DEF Next
<1>. QED
  BY <1>1, <1>2, PTL DEF Spec

-----------------------------------------------------------------------------
(* The theorems.                                                            *)

\* However the awaits of the requests interleave, the scans counted in a window of the
\* limiter exceed its limit by no more than the other requests that can be under way
\* (api.ts:186-247).
THEOREM OvershootAlwaysBounded == Spec => []OvershootBounded
<1>1. ScanInv => OvershootBounded
  <2>. SUFFICES ASSUME ScanInv, NEW t \in 0..MaxTime
                PROVE  Cardinality(ArrivedIn(t)) <= Max + Cardinality(Calls) - 1
    BY DEF OvershootBounded
  <2>1. t \in Nat
    BY ScanAssumption DEF ScanAssumption
  <2>2. /\ Cardinality(ArrivedIn(t)) \in Nat /\ Cardinality(UnderWay(t)) \in Nat
        /\ Cardinality(Calls) \in Nat /\ Max \in Nat
    BY Finite, ScanAssumption DEF ScanInv, ScanAssumption
  <2>3. Cardinality(ArrivedIn(t)) + Cardinality(UnderWay(t)) <= Max + Cardinality(Calls) - 1
    BY <2>1 DEF ScanInv, WindowsBounded
  <2>. QED
    BY <2>2, <2>3
<1>. QED
  BY <1>1, ScanInvariant, PTL

\* A request becomes a seal only where its agent had no lease when it came, and a
\* reseal names no version older than that (api.ts:232-255).
THEOREM NeverSealsOverLease == Spec => []NeverDowngraded
<1>1. ScanInv => NeverDowngraded
  <2>. SUFFICES ASSUME ScanInv, NEW c \in Calls, call[c].mode # "none"
                PROVE  /\ call[c].mode = "SEAL" <=> call[c].version = 0
                       /\ call[c].mode = "SEAL" => call[c].found = 0
                       /\ call[c].version >= call[c].found
    BY DEF NeverDowngraded
  <2>1. call[c].found \in Nat /\ call[c].version \in Nat
    BY DEF ScanInv, ScanTypeOK, CallRow
  <2>. QED
    BY <2>1 DEF ScanInv, ModeOK
<1>. QED
  BY <1>1, ScanInvariant, PTL

-----------------------------------------------------------------------------
(* The verification panel.                                                  *)

\* The page is of the last generation, and a plane that is open belongs to it.
PanelShape ==
    /\ generation \in Nat
    /\ historical \in {0, generation} /\ current \in {0, generation}
    /\ view = [gen |-> view.gen, historical |-> view.historical, current |-> view.current,
               proof |-> view.proof, read |-> view.read]
    /\ view.gen \in Nat /\ view.gen <= generation /\ (mounted => view.gen = generation)

\* An answer of this generation was asked for the proof that the page stands for.
QuestionsAreOfTheProof ==
    \A r \in inflight : r.gen \in Nat /\ r.gen <= generation /\ (r.gen = generation => r.proof = identifiers)

PanelShows ==
    /\ view.current = "READING" => view.historical = "MATCH"
    /\ view.read # NoProof => view.historical = "MATCH"
    /\ mounted =>
         /\ view.historical = "MATCH" => view.proof = identifiers
         /\ view.read \in {NoProof, identifiers}
         /\ view.historical \in Panel!Busy => historical = generation
         /\ view.current = "READING" => current = generation

PanelInv == PanelShape /\ QuestionsAreOfTheProof /\ PanelShows

LEMMA PanelStarts == ASSUME Panel!Init PROVE PanelInv
  BY DEF Panel!Init, Panel!Blank, PanelInv, PanelShape, QuestionsAreOfTheProof, PanelShows, Panel!Busy

\* What the page becomes by an answer of its generation on the first plane.
LEMMA HistoricalSettles ==
    ASSUME PanelInv, mounted, NEW status, status \notin Panel!Busy, NEW proof,
           status = "MATCH" => proof = identifiers,
           NEW v, v = Panel!HistoricalShown(view, generation, status, proof)
    PROVE  /\ v = [gen |-> view.gen, historical |-> v.historical, current |-> v.current,
                   proof |-> v.proof, read |-> view.read]
           /\ v.gen = view.gen /\ v.read = view.read
           /\ v.historical \notin Panel!Busy
           /\ v.historical = "MATCH" => v.proof = identifiers
           /\ v.read # NoProof => v.historical = "MATCH"
           /\ v.current = "READING" => v.historical = "MATCH" /\ current = generation
<1>0. /\ view = [gen |-> view.gen, historical |-> view.historical, current |-> view.current,
                 proof |-> view.proof, read |-> view.read]
      /\ view.gen = generation /\ PanelShows
  BY DEF PanelInv, PanelShape
<1>1. CASE view.historical \in Panel!Busy
  <2>1. view.read = NoProof
    BY <1>0, <1>1 DEF PanelShows, Panel!Busy
  <2>2. v = [gen |-> view.gen, historical |-> status, current |-> "IDLE", proof |-> proof, read |-> view.read]
    BY <1>0, <1>1 DEF Panel!HistoricalShown
  <2>. QED
    BY <2>1, <2>2
<1>2. CASE view.historical \notin Panel!Busy
  <2>1. v = view
    BY <1>2 DEF Panel!HistoricalShown
  <2>. QED
    BY <1>0, <1>2, <2>1 DEF PanelShows
<1>. QED
  BY <1>1, <1>2

LEMMA PanelStepKeeps ==
    ASSUME PanelInv, [Panel!Next]_panelVars
    PROVE  PanelInv'
<1>0. PanelShape /\ QuestionsAreOfTheProof /\ PanelShows
  BY DEF PanelInv
<1>1. ASSUME NEW p, Panel!SetIdentifiers(p) PROVE PanelInv'
  <2>1. CASE mounted /\ identifiers = p
    <3>1. mounted' = TRUE /\ mounted /\ UNCHANGED <<view, generation, identifiers, historical, current, inflight>>
      BY <1>1, <2>1 DEF Panel!SetIdentifiers
    <3>2. PanelShape'
      BY <1>0, <3>1 DEF PanelShape
    <3>3. PanelShows'
      BY <1>0, <3>1 DEF PanelShows
    <3>. QED
      BY <1>0, <3>1, <3>2, <3>3 DEF PanelInv, QuestionsAreOfTheProof
  <2>2. CASE ~(mounted /\ identifiers = p)
    <3>1. /\ mounted' = TRUE /\ historical' = 0 /\ current' = 0 /\ identifiers' = p
          /\ generation' = generation + 1 /\ inflight' = inflight
          /\ view' = Panel!Blank(generation + 1)
      BY <1>0, <1>1, <2>2 DEF Panel!SetIdentifiers, Panel!AbortAll, Panel!Reset, PanelShape
    <3>2. view' = [gen |-> generation', historical |-> "IDLE", current |-> "IDLE", proof |-> NoProof, read |-> NoProof]
      BY <3>1 DEF Panel!Blank
    <3>3. PanelShape'
      BY <1>0, <3>1, <3>2 DEF PanelShape
    <3>4. PanelShows'
      BY <3>1, <3>2 DEF PanelShows, Panel!Busy
    <3>5. QuestionsAreOfTheProof'
      BY <1>0, <3>1 DEF QuestionsAreOfTheProof, PanelShape
    <3>. QED
      BY <3>3, <3>4, <3>5 DEF PanelInv
  <2>. QED
    BY <2>1, <2>2
<1>2. ASSUME NEW retry, Panel!Start(retry) PROVE PanelInv'
  <2>1. /\ mounted /\ mounted' = mounted /\ identifiers' = identifiers
        /\ generation' = generation + 1 /\ historical' = generation' /\ current' = 0
        /\ inflight' = inflight \cup {[plane |-> "historical", gen |-> generation', proof |-> identifiers]}
    BY <1>2 DEF Panel!Start, Panel!Open
  <2>2. PICK status \in Panel!Busy : status = IF retry THEN "RETRYING" ELSE "VERIFYING"
    BY DEF Panel!Busy
  <2>3. view' = [Panel!Blank(generation') EXCEPT !.historical = status]
    BY <1>0, <1>2, <2>1, <2>2 DEF Panel!Start, Panel!Started, PanelShape
  <2>4. view' = [gen |-> generation', historical |-> status, current |-> "IDLE", proof |-> NoProof, read |-> NoProof]
    BY <2>3 DEF Panel!Blank
  <2>5. PanelShape'
    BY <1>0, <2>1, <2>4 DEF PanelShape
  <2>6. PanelShows'
    BY <2>1, <2>4, <2>2 DEF PanelShows, Panel!Busy
  <2>7. QuestionsAreOfTheProof'
    BY <1>0, <2>1 DEF QuestionsAreOfTheProof, PanelShape
  <2>. QED
    BY <2>5, <2>6, <2>7 DEF PanelInv
<1>3. CASE Panel!Dispose
  <2>1. /\ mounted' = FALSE /\ generation' = generation + 1 /\ historical' = 0 /\ current' = 0
        /\ UNCHANGED <<view, identifiers, inflight>>
    BY <1>3 DEF Panel!Dispose, Panel!AbortAll
  <2>2. PanelShape'
    BY <1>0, <2>1 DEF PanelShape
  <2>3. QuestionsAreOfTheProof'
    BY <1>0, <2>1 DEF QuestionsAreOfTheProof, PanelShape
  <2>. QED
    BY <1>0, <2>1, <2>2, <2>3 DEF PanelInv, PanelShows
<1>4. ASSUME NEW r, NEW status \in Panel!HistoricalFailures \cup {"MATCH"}, Panel!HistoricalAnswers(r, status)
      PROVE  PanelInv'
  <2>1. r \in inflight /\ UNCHANGED <<mounted, generation, identifiers>>
    BY <1>4 DEF Panel!HistoricalAnswers
  <2>2. CASE ~Panel!Active("historical", r.gen)
    <3>1. UNCHANGED <<view, historical, current>> /\ inflight' = inflight \ {r}
      BY <1>4, <2>2 DEF Panel!HistoricalAnswers
    <3>. QED
      BY <1>0, <2>1, <3>1 DEF PanelInv, PanelShape, QuestionsAreOfTheProof, PanelShows
  <2>3. CASE Panel!Active("historical", r.gen)
    <3>1. mounted /\ r.gen = generation /\ r.proof = identifiers /\ historical' = 0
      BY <1>0, <1>4, <2>1, <2>3 DEF Panel!HistoricalAnswers, Panel!Active, QuestionsAreOfTheProof
    <3>2. status \notin Panel!Busy
      BY DEF Panel!HistoricalFailures, Panel!Busy
    <3>3. CASE status = "MATCH"
      <4>1. PICK v : v = Panel!HistoricalShown(view, generation, "MATCH", identifiers)
        OBVIOUS
      <4>2. /\ v = [gen |-> view.gen, historical |-> v.historical, current |-> v.current,
                    proof |-> v.proof, read |-> view.read]
            /\ v.gen = view.gen /\ v.read = view.read /\ v.historical \notin Panel!Busy
            /\ v.historical = "MATCH" => v.proof = identifiers
            /\ v.read # NoProof => v.historical = "MATCH"
            /\ v.current = "READING" => v.historical = "MATCH" /\ current = generation
        BY <3>1, <3>2, <3>3, <4>1, HistoricalSettles
      <4>3. /\ view' = Panel!CurrentStarted(v, generation) /\ current' = generation
            /\ inflight' = (inflight \ {r}) \cup {[plane |-> "current", gen |-> generation, proof |-> identifiers]}
        BY <1>4, <2>3, <3>1, <3>3, <4>1 DEF Panel!HistoricalAnswers
      <4>4. /\ view' = [gen |-> view.gen, historical |-> v.historical, current |-> view'.current,
                        proof |-> v.proof, read |-> view.read]
            /\ view'.current = "READING" => v.historical = "MATCH"
        BY <4>2, <4>3 DEF Panel!CurrentStarted
      <4>5. PanelShape'
        BY <1>0, <2>1, <3>1, <4>3, <4>4 DEF PanelShape
      <4>6. PanelShows'
        BY <1>0, <2>1, <3>1, <4>2, <4>3, <4>4 DEF PanelShows
      <4>7. QuestionsAreOfTheProof'
        BY <1>0, <2>1, <3>1, <4>3 DEF QuestionsAreOfTheProof, PanelShape
      <4>. QED
        BY <4>5, <4>6, <4>7 DEF PanelInv
    <3>4. CASE status # "MATCH"
      <4>1. PICK v : v = Panel!HistoricalShown(view, generation, status, NoProof)
        OBVIOUS
      <4>2. /\ v = [gen |-> view.gen, historical |-> v.historical, current |-> v.current,
                    proof |-> v.proof, read |-> view.read]
            /\ v.gen = view.gen /\ v.read = view.read /\ v.historical \notin Panel!Busy
            /\ v.historical = "MATCH" => v.proof = identifiers
            /\ v.read # NoProof => v.historical = "MATCH"
            /\ v.current = "READING" => v.historical = "MATCH" /\ current = generation
        BY <3>1, <3>2, <3>4, <4>1, HistoricalSettles
      <4>3. view' = v /\ inflight' = inflight \ {r} /\ current' = current
        BY <1>4, <2>3, <3>1, <3>4, <4>1 DEF Panel!HistoricalAnswers
      <4>5. PanelShape'
        BY <1>0, <2>1, <3>1, <4>2, <4>3 DEF PanelShape
      <4>6. PanelShows'
        BY <1>0, <2>1, <3>1, <4>2, <4>3 DEF PanelShows
      <4>7. QuestionsAreOfTheProof'
        BY <1>0, <2>1, <4>3 DEF QuestionsAreOfTheProof
      <4>. QED
        BY <4>5, <4>6, <4>7 DEF PanelInv
    <3>. QED
      BY <3>3, <3>4
  <2>. QED
    BY <2>2, <2>3
<1>5. ASSUME NEW status, status # "READING", NEW proof, proof \in {NoProof, identifiers},
             view' = Panel!CurrentShown(view, generation, status, proof), current' = 0,
             UNCHANGED <<mounted, generation, identifiers, historical>>, inflight' \subseteq inflight
      PROVE  PanelInv'
  <2>1. /\ view' = [gen |-> view.gen, historical |-> view.historical, current |-> view'.current,
                    proof |-> view.proof, read |-> view'.read]
        /\ \/ view' = view /\ (mounted => view.current # "READING")
           \/ view.historical = "MATCH" /\ view'.current = status /\ view'.read = proof
    BY <1>0, <1>5 DEF Panel!CurrentShown, PanelShape, PanelShows
  <2>2. PanelShape'
    BY <1>0, <1>5, <2>1 DEF PanelShape
  <2>3. PanelShows'
    BY <1>0, <1>5, <2>1 DEF PanelShows, Panel!Busy
  <2>4. QuestionsAreOfTheProof'
    BY <1>0, <1>5 DEF QuestionsAreOfTheProof
  <2>. QED
    BY <2>2, <2>3, <2>4 DEF PanelInv
<1>6. ASSUME NEW r, NEW status \in Panel!CurrentResults, Panel!CurrentAnswers(r, status)
      PROVE  PanelInv'
  <2>1. /\ r \in inflight /\ UNCHANGED <<mounted, generation, identifiers, historical>> /\ inflight' = inflight \ {r}
        /\ status # "READING"
    BY <1>6 DEF Panel!CurrentAnswers, Panel!CurrentResults
  <2>2. CASE Panel!Active("current", r.gen)
    <3>1. r.gen = generation /\ r.proof = identifiers
      BY <1>0, <2>1, <2>2 DEF Panel!Active, QuestionsAreOfTheProof
    <3>2. current' = 0 /\ view' = Panel!CurrentShown(view, generation, status, identifiers)
      BY <1>6, <2>2, <3>1 DEF Panel!CurrentAnswers
    <3>. QED
      BY <1>5, <2>1, <3>2
  <2>3. CASE ~Panel!Active("current", r.gen)
    <3>1. UNCHANGED <<view, current>>
      BY <1>6, <2>3 DEF Panel!CurrentAnswers
    <3>. QED
      BY <1>0, <2>1, <3>1 DEF PanelInv, PanelShape, QuestionsAreOfTheProof, PanelShows
  <2>. QED
    BY <2>2, <2>3
<1>7. ASSUME NEW plane \in {"historical", "current"}, NEW status \in {"TIMEOUT", "CANCELED"}, Panel!Gives(plane, status)
      PROVE  PanelInv'
  <2>1. UNCHANGED <<mounted, generation, identifiers, inflight>> /\ Panel!Closed(plane, status) /\ mounted
    BY <1>7 DEF Panel!Gives, Panel!Active
  <2>2. CASE plane = "current"
    <3>1. current' = 0 /\ view' = Panel!CurrentShown(view, generation, status, NoProof) /\ historical' = historical
      BY <2>1, <2>2 DEF Panel!Closed
    <3>. QED
      BY <1>5, <2>1, <3>1
  <2>3. CASE plane = "historical"
    <3>1. historical' = 0 /\ view' = Panel!HistoricalShown(view, generation, status, NoProof) /\ current' = current
      BY <2>1, <2>3 DEF Panel!Closed
    <3>2. PICK v : v = Panel!HistoricalShown(view, generation, status, NoProof)
      OBVIOUS
    <3>3. status \notin Panel!Busy /\ status # "MATCH"
      BY DEF Panel!Busy
    <3>4. /\ v = [gen |-> view.gen, historical |-> v.historical, current |-> v.current,
                  proof |-> v.proof, read |-> view.read]
          /\ v.gen = view.gen /\ v.read = view.read /\ v.historical \notin Panel!Busy
          /\ v.historical = "MATCH" => v.proof = identifiers
          /\ v.read # NoProof => v.historical = "MATCH"
          /\ v.current = "READING" => v.historical = "MATCH" /\ current = generation
      BY <2>1, <3>2, <3>3, HistoricalSettles
    <3>5. PanelShape'
      BY <1>0, <2>1, <3>1, <3>2, <3>4 DEF PanelShape
    <3>6. PanelShows'
      BY <1>0, <2>1, <3>1, <3>2, <3>4 DEF PanelShows
    <3>. QED
      BY <1>0, <2>1, <3>5, <3>6 DEF PanelInv, QuestionsAreOfTheProof
  <2>. QED
    BY <2>2, <2>3
<1>8. CASE UNCHANGED panelVars
  BY <1>0, <1>8 DEF panelVars, PanelInv, PanelShape, QuestionsAreOfTheProof, PanelShows
<1>. QED
  BY <1>1, <1>2, <1>3, <1>4, <1>6, <1>7, <1>8 DEF Panel!Next

LEMMA PanelIsRight == ASSUME PanelInv PROVE Panel!PanelAnswersItsQuestion
  BY DEF PanelInv, PanelShape, PanelShows, Panel!PanelAnswersItsQuestion, Panel!Active

-----------------------------------------------------------------------------
(* The page of the public scan.                                             *)

Streams == card.phase \in {"streaming", "reconciling"}

ScanPageShape ==
    /\ card = [phase |-> card.phase, sealed |-> card.sealed, error |-> card.error, writing |-> card.writing]
    /\ run = [pc |-> run.pc, agent |-> run.agent, reached |-> run.reached, seals |-> run.seals, id |-> run.id]
    /\ input.agent \in Subjects /\ leases \in [Subjects -> Nat]

\* While the page is there one scan at a time is under way, of the agent in its field.
OneScan ==
    open =>
      /\ resolving # NoAgent => resolving = input.agent /\ card.phase = "streaming" /\ run.pc = "none"
      /\ run.pc # "none" => run.agent = input.agent /\ Streams
      /\ card.phase = "streaming" => run.pc # "none" \/ resolving # NoAgent
      /\ card.phase = "reconciling" => run.pc = "reconcile"

SealedCardIsTrue ==
    open /\ card.phase = "sealed" =>
      card.sealed.agent = input.agent /\ card.sealed.version \in 1..leases[card.sealed.agent]

ScanPageInv == ScanPageShape /\ OneScan /\ SealedCardIsTrue

LEMMA ScanPageStarts == ASSUME ScanPage!Init PROVE ScanPageInv
<1>1. /\ card = [phase |-> "idle", sealed |-> ScanPage!Nothing, error |-> "none", writing |-> FALSE]
      /\ run = [pc |-> "none", agent |-> NoAgent, reached |-> FALSE, seals |-> FALSE, id |-> 0]
      /\ input \in [agent : Subjects, form : {"id", "wallet"}] /\ leases \in [Subjects -> {0, 1}]
      /\ resolving = NoAgent
  BY DEF ScanPage!Init, ScanPage!Page, ScanPage!NoRun
<1>2. card.phase = "idle" /\ run.pc = "none" /\ input.agent \in Subjects /\ leases \in [Subjects -> Nat]
  BY <1>1
<1>3. /\ card = [phase |-> card.phase, sealed |-> card.sealed, error |-> card.error, writing |-> card.writing]
      /\ run = [pc |-> run.pc, agent |-> run.agent, reached |-> run.reached, seals |-> run.seals, id |-> run.id]
  BY <1>1, Zenon
<1>. QED
  BY <1>1, <1>2, <1>3 DEF ScanPageInv, ScanPageShape, OneScan, SealedCardIsTrue, Streams

\* A failure is shown, and what was sealed before is not.
LEMMA FailedCard ==
    ASSUME ScanPageShape, NEW error, card' = ScanPage!Failed(error)
    PROVE  /\ card'.phase = "error"
           /\ card' = [phase |-> card'.phase, sealed |-> card'.sealed, error |-> card'.error, writing |-> card'.writing]
<1>1. card' = [phase |-> "error", sealed |-> card.sealed, error |-> error, writing |-> run.reached]
  BY DEF ScanPageShape, ScanPage!Failed
<1>. QED
  BY <1>1

\* A run is over, or was refused: nothing streams any more.
LEMMA ScanEnds ==
    ASSUME ScanPageInv, run' = ScanPage!NoRun, UNCHANGED <<input, open, leases>>,
           resolving' = NoAgent \/ (resolving' = resolving /\ run.pc # "none"),
           \/ ~open /\ card' = card
           \/ \E error : card' = ScanPage!Failed(error)
           \/ open /\ run.pc = "reconcile" /\ leases[run.agent] # 0
              /\ card' = [ScanPage!Page("sealed") EXCEPT !.sealed = [agent |-> run.agent, version |-> leases[run.agent]]]
    PROVE  ScanPageInv'
<1>0. ScanPageShape /\ OneScan /\ SealedCardIsTrue
  BY DEF ScanPageInv
<1>1. /\ run' = [pc |-> run'.pc, agent |-> run'.agent, reached |-> run'.reached, seals |-> run'.seals, id |-> run'.id]
      /\ run'.pc = "none"
  BY DEF ScanPage!NoRun
<1>2. open => resolving' = NoAgent
  BY <1>0 DEF OneScan
<1>3. CASE ~open /\ card' = card
  BY <1>0, <1>1, <1>3 DEF ScanPageInv, ScanPageShape, OneScan, SealedCardIsTrue
<1>4. CASE \E error : card' = ScanPage!Failed(error)
  <2>1. /\ card'.phase = "error"
        /\ card' = [phase |-> card'.phase, sealed |-> card'.sealed, error |-> card'.error, writing |-> card'.writing]
    BY <1>0, <1>4, FailedCard
  <2>. QED
    BY <1>0, <1>1, <1>2, <2>1 DEF ScanPageInv, ScanPageShape, OneScan, SealedCardIsTrue, Streams
<1>5. CASE /\ open /\ run.pc = "reconcile" /\ leases[run.agent] # 0
           /\ card' = [ScanPage!Page("sealed") EXCEPT !.sealed = [agent |-> run.agent, version |-> leases[run.agent]]]
  <2>1. card' = [phase |-> "sealed", sealed |-> [agent |-> run.agent, version |-> leases[run.agent]],
                 error |-> "none", writing |-> FALSE]
    BY <1>5 DEF ScanPage!Page
  <2>2. /\ card'.phase = "sealed" /\ card'.sealed.agent = run.agent /\ card'.sealed.version = leases[run.agent]
    BY <2>1
  <2>3. card' = [phase |-> card'.phase, sealed |-> card'.sealed, error |-> card'.error, writing |-> card'.writing]
    BY <2>1
  <2>4. run.agent = input.agent /\ leases[run.agent] \in Nat
    BY <1>0, <1>5 DEF OneScan, ScanPageShape
  <2>. QED
    BY <1>0, <1>1, <1>2, <1>5, <2>2, <2>3, <2>4 DEF ScanPageInv, ScanPageShape, OneScan, SealedCardIsTrue, Streams
<1>. QED
  BY <1>3, <1>4, <1>5

LEMMA ScanPageStepKeeps ==
    ASSUME ScanPageInv, [ScanPage!Next]_scanPageVars
    PROVE  ScanPageInv'
<1>0. ScanPageShape /\ OneScan /\ SealedCardIsTrue
  BY DEF ScanPageInv
<1>1. ASSUME NEW agent \in Subjects, NEW form, ScanPage!Edit(agent, form) PROVE ScanPageInv'
  <2>1. /\ open /\ ~Streams /\ UNCHANGED <<open, resolving, run, leases>>
        /\ input' = [agent |-> agent, form |-> form] /\ card' = ScanPage!Page("idle")
    BY <1>1 DEF ScanPage!Edit, ScanPage!Busy, ScanPage!Dispatch, Streams
  <2>2. /\ card'.phase = "idle" /\ input'.agent \in Subjects
        /\ card' = [phase |-> card'.phase, sealed |-> card'.sealed, error |-> card'.error, writing |-> card'.writing]
    BY <2>1 DEF ScanPage!Page
  <2>3. run.pc = "none" /\ resolving = NoAgent
    BY <1>0, <2>1 DEF OneScan, Streams
  <2>. QED
    BY <1>0, <2>1, <2>2, <2>3 DEF ScanPageInv, ScanPageShape, OneScan, SealedCardIsTrue
<1>2. CASE ScanPage!OnToken
  BY <1>0, <1>2 DEF ScanPage!OnToken, ScanPageInv, ScanPageShape, OneScan, SealedCardIsTrue, Streams
<1>3. CASE ScanPage!Submit
  <2>1. /\ open /\ ~Streams /\ UNCHANGED <<input, open, leases>> /\ card' = ScanPage!Page("streaming")
        /\ \/ run' = [ScanPage!NoRun EXCEPT !.pc = "fetch", !.agent = input.agent, !.id = submits + 1]
              /\ resolving' = resolving
           \/ resolving' = input.agent /\ run' = run
    BY <1>3 DEF ScanPage!Submit, ScanPage!Busy, ScanPage!Dispatch, ScanPage!Scan, Streams
  <2>2. /\ card'.phase = "streaming"
        /\ card' = [phase |-> card'.phase, sealed |-> card'.sealed, error |-> card'.error, writing |-> card'.writing]
    BY <2>1 DEF ScanPage!Page
  <2>3. run.pc = "none" /\ resolving = NoAgent
    BY <1>0, <2>1 DEF OneScan, Streams
  <2>4. /\ run' = [pc |-> run'.pc, agent |-> run'.agent, reached |-> run'.reached, seals |-> run'.seals, id |-> run'.id]
        /\ \/ run'.pc = "fetch" /\ run'.agent = input.agent /\ resolving' = NoAgent
           \/ run'.pc = "none" /\ resolving' = input.agent
    BY <1>0, <2>1, <2>3 DEF ScanPage!NoRun, ScanPageShape
  <2>. QED
    BY <1>0, <2>1, <2>2, <2>4, PagesAssumption DEF ScanPageInv, ScanPageShape, OneScan, SealedCardIsTrue, Streams
<1>4. CASE ScanPage!Resolved
  <2>1. /\ resolving # NoAgent /\ resolving' = NoAgent /\ UNCHANGED <<input, open, leases>>
        /\ run' = [ScanPage!NoRun EXCEPT !.pc = "fetch", !.agent = resolving, !.id = submits]
        /\ card' = IF open THEN ScanPage!Page("streaming") ELSE card
    BY <1>4 DEF ScanPage!Resolved, ScanPage!Dispatch, ScanPage!Scan
  <2>2. /\ open => card'.phase = "streaming"
        /\ card' = [phase |-> card'.phase, sealed |-> card'.sealed, error |-> card'.error, writing |-> card'.writing]
    BY <1>0, <2>1 DEF ScanPage!Page, ScanPageShape
  <2>3. /\ run' = [pc |-> run'.pc, agent |-> run'.agent, reached |-> run'.reached, seals |-> run'.seals, id |-> run'.id]
        /\ run'.pc = "fetch" /\ run'.agent = resolving
    BY <2>1 DEF ScanPage!NoRun
  <2>. QED
    BY <1>0, <2>1, <2>2, <2>3 DEF ScanPageInv, ScanPageShape, OneScan, SealedCardIsTrue, Streams
<1>5. ASSUME NEW error, ScanPage!NotResolved(error) PROVE ScanPageInv'
  <2>1. /\ resolving # NoAgent /\ resolving' = NoAgent /\ UNCHANGED <<input, open, run, leases>>
        /\ card' = IF open THEN ScanPage!Failed(error) ELSE card
    BY <1>5 DEF ScanPage!NotResolved, ScanPage!Dispatch
  <2>2. /\ open => card'.phase = "error"
        /\ card' = [phase |-> card'.phase, sealed |-> card'.sealed, error |-> card'.error, writing |-> card'.writing]
    BY <1>0, <2>1, FailedCard DEF ScanPageShape
  <2>. QED
    BY <1>0, <2>1, <2>2 DEF ScanPageInv, ScanPageShape, OneScan, SealedCardIsTrue, Streams
<1>6. CASE ScanPage!Leave
  <2>1. open' = FALSE /\ run' = ScanPage!NoRun /\ UNCHANGED <<input, card, leases>>
    BY <1>6 DEF ScanPage!Leave
  <2>2. run' = [pc |-> run'.pc, agent |-> run'.agent, reached |-> run'.reached, seals |-> run'.seals, id |-> run'.id]
    BY <2>1 DEF ScanPage!NoRun
  <2>. QED
    BY <1>0, <2>1, <2>2 DEF ScanPageInv, ScanPageShape, OneScan, SealedCardIsTrue
<1>7. ASSUME run.pc \in {"fetch", "stream"}, run'.pc \in {"stream", "reconcile"}, run'.agent = run.agent,
             run' = [pc |-> run'.pc, agent |-> run'.agent, reached |-> run'.reached, seals |-> run'.seals, id |-> run'.id],
             UNCHANGED <<input, open, leases, resolving>>,
             \/ card' = card
             \/ run'.pc = "reconcile" /\ card' = IF open THEN [card EXCEPT !.phase = "reconciling"] ELSE card
      PROVE  ScanPageInv'
  <2>1. /\ card' = [phase |-> card'.phase, sealed |-> card'.sealed, error |-> card'.error, writing |-> card'.writing]
        /\ \/ card' = card
           \/ run'.pc = "reconcile" /\ (open => card'.phase = "reconciling")
    BY <1>0, <1>7 DEF ScanPageShape
  <2>2. open => Streams /\ run.agent = input.agent /\ card.phase # "reconciling"
    BY <1>0, <1>7 DEF OneScan
  <2>. QED
    BY <1>0, <1>7, <2>1, <2>2 DEF ScanPageInv, ScanPageShape, OneScan, SealedCardIsTrue, Streams
<1>8. CASE ScanPage!Admitted
  <2>1. /\ run.pc = "fetch" /\ run' = [run EXCEPT !.pc = "stream"]
        /\ UNCHANGED <<input, open, leases, resolving, card>>
    BY <1>8 DEF ScanPage!Admitted
  <2>2. run' = [pc |-> "stream", agent |-> run.agent, reached |-> run.reached, seals |-> run.seals, id |-> run.id]
    BY <1>0, <2>1 DEF ScanPageShape
  <2>. QED
    BY <1>7, <2>1, <2>2
<1>9. CASE ScanPage!WritingChain
  <2>1. /\ run.pc = "stream" /\ run' = [run EXCEPT !.reached = TRUE]
        /\ UNCHANGED <<input, open, leases, resolving, card>>
    BY <1>9 DEF ScanPage!WritingChain
  <2>2. run' = [pc |-> run.pc, agent |-> run.agent, reached |-> TRUE, seals |-> run.seals, id |-> run.id]
    BY <1>0, <2>1 DEF ScanPageShape
  <2>. QED
    BY <1>7, <2>1, <2>2
<1>10. ASSUME NEW w, ScanPage!Mined(w) PROVE ScanPageInv'
  <2>1. /\ leases' = [leases EXCEPT ![w.agent] = leases[w.agent] + 1]
        /\ run' = run \/ run' = [run EXCEPT !.seals = TRUE]
        /\ UNCHANGED <<input, open, resolving, card>>
    BY <1>10 DEF ScanPage!Mined
  <2>2. leases' \in [Subjects -> Nat] /\ \A a \in Subjects : leases'[a] \in Nat /\ leases[a] \in Nat /\ leases'[a] >= leases[a]
    <3>1. PICK agent : agent = w.agent
      OBVIOUS
    <3>2. leases \in [Subjects -> Nat] /\ leases' = [leases EXCEPT ![agent] = leases[agent] + 1]
      BY <1>0, <2>1, <3>1 DEF ScanPageShape
    <3>3. \A a \in Subjects : leases[a] \in Nat /\ leases'[a] = IF a = agent THEN leases[a] + 1 ELSE leases[a]
      BY <3>2
    <3>4. \A a \in Subjects : leases'[a] \in Nat /\ leases'[a] >= leases[a]
      BY <3>3
    <3>. QED
      BY <3>2, <3>3, <3>4
  <2>3. /\ run' = [pc |-> run'.pc, agent |-> run'.agent, reached |-> run'.reached, seals |-> run'.seals, id |-> run'.id]
        /\ run'.pc = run.pc /\ run'.agent = run.agent
    BY <1>0, <2>1 DEF ScanPageShape
  <2>4. SealedCardIsTrue'
    BY <1>0, <2>1, <2>2 DEF SealedCardIsTrue, ScanPageShape
  <2>. QED
    BY <1>0, <2>1, <2>2, <2>3, <2>4 DEF ScanPageInv, ScanPageShape, OneScan, Streams
<1>11. ASSUME NEW w, ScanPage!Reverted(w) PROVE ScanPageInv'
  BY <1>0, <1>11 DEF ScanPage!Reverted, ScanPageInv, ScanPageShape, OneScan, SealedCardIsTrue, Streams
<1>12. ASSUME NEW error, ScanPage!Refused(error) PROVE ScanPageInv'
  <2>1. /\ run.pc = "fetch" /\ run' = ScanPage!NoRun /\ UNCHANGED <<input, open, resolving, leases>>
        /\ \/ ~open /\ card' = card
           \/ card' = ScanPage!Failed(error)
    BY <1>12 DEF ScanPage!Refused, ScanPage!Over, ScanPage!Dispatch
  <2>. QED
    BY <2>1, ScanEnds
<1>13. CASE ScanPage!SealedFrame
  <2>1. /\ run.pc = "stream" /\ run' = [run EXCEPT !.pc = "reconcile"]
        /\ UNCHANGED <<input, open, leases, resolving, card>>
    BY <1>13 DEF ScanPage!SealedFrame, ScanPage!Reconcile
  <2>2. run' = [pc |-> "reconcile", agent |-> run.agent, reached |-> run.reached, seals |-> run.seals, id |-> run.id]
    BY <1>0, <2>1 DEF ScanPageShape
  <2>. QED
    BY <1>7, <2>1, <2>2
<1>14. ASSUME NEW error, ScanPage!ErrorFrame(error) PROVE ScanPageInv'
  <2>1. run.pc = "stream" /\ ScanPage!StreamEnds(error) /\ UNCHANGED <<input, open, resolving, leases>>
    BY <1>14 DEF ScanPage!ErrorFrame
  <2>2. CASE run.reached
    <3>1. /\ run' = [run EXCEPT !.pc = "reconcile"]
          /\ card' = IF open THEN [card EXCEPT !.phase = "reconciling"] ELSE card
      BY <2>1, <2>2 DEF ScanPage!StreamEnds, ScanPage!Reconcile, ScanPage!Dispatch
    <3>2. run' = [pc |-> "reconcile", agent |-> run.agent, reached |-> run.reached, seals |-> run.seals, id |-> run.id]
      BY <1>0, <3>1 DEF ScanPageShape
    <3>. QED
      BY <1>7, <2>1, <3>1, <3>2
  <2>3. CASE ~run.reached
    <3>1. /\ run' = ScanPage!NoRun
          /\ \/ ~open /\ card' = card
             \/ card' = ScanPage!Failed(error)
      BY <2>1, <2>3 DEF ScanPage!StreamEnds, ScanPage!Over, ScanPage!Dispatch
    <3>. QED
      BY <2>1, <3>1, ScanEnds
  <2>. QED
    BY <2>2, <2>3
<1>15. CASE ScanPage!StreamBreaks
  <2>1. /\ run.pc # "none" /\ run' = ScanPage!NoRun /\ UNCHANGED <<input, open, resolving, leases>>
        /\ \/ ~open /\ card' = card
           \/ card' = ScanPage!Failed("stopped safely")
    BY <1>15 DEF ScanPage!StreamBreaks, ScanPage!Over, ScanPage!Dispatch
  <2>. QED
    BY <2>1, ScanEnds
<1>16. CASE ScanPage!ReconcileScan
  <2>1. /\ run.pc = "reconcile" /\ run' = ScanPage!NoRun /\ UNCHANGED <<input, open, resolving, leases>>
        /\ \/ ~open /\ card' = card
           \/ card' = ScanPage!Failed("unconfirmed")
           \/ open /\ leases[run.agent] # 0
              /\ card' = [ScanPage!Page("sealed") EXCEPT !.sealed = [agent |-> run.agent, version |-> leases[run.agent]]]
    BY <1>16 DEF ScanPage!ReconcileScan, ScanPage!Over, ScanPage!Dispatch
  <2>. QED
    BY <2>1, ScanEnds
<1>17. CASE ScanPage!ReconcileFails
  <2>1. /\ run.pc = "reconcile" /\ run' = ScanPage!NoRun /\ UNCHANGED <<input, open, resolving, leases>>
        /\ \/ ~open /\ card' = card
           \/ card' = ScanPage!Failed("read-back unavailable")
    BY <1>17 DEF ScanPage!ReconcileFails, ScanPage!Over, ScanPage!Dispatch
  <2>. QED
    BY <2>1, ScanEnds
<1>18. CASE UNCHANGED scanPageVars
  BY <1>0, <1>18 DEF scanPageVars, ScanPageInv, ScanPageShape, OneScan, SealedCardIsTrue, Streams
<1>. QED
  BY <1>1, <1>2, <1>3, <1>4, <1>5, <1>6, <1>8, <1>9, <1>10, <1>11, <1>12, <1>13, <1>14, <1>15,
     <1>16, <1>17, <1>18 DEF ScanPage!Next

LEMMA ScanPageIsRight == ASSUME ScanPageInv PROVE ScanPage!ConsoleFollowsItsScan
  BY DEF ScanPageInv, OneScan, SealedCardIsTrue, ScanPage!ConsoleFollowsItsScan, ScanPage!Busy

-----------------------------------------------------------------------------
(* The operator's controls.                                                 *)

LEMMA CardinalityOfControls ==
    ASSUME NEW S PROVE Controls!Cardinality(S) = Cardinality(S)
  BY DEF Controls!Cardinality, Cardinality

\* A call under way that the page of now made.
Ours(r) == r \in runs /\ r.binding = turned

ControlsShape ==
    /\ turned \in Nat /\ turned # 0 /\ busy \in {"no", "drift", "reseal"} /\ recovering \in {0, turned}
    /\ \A r \in runs : r.binding \in Nat /\ r.binding <= turned /\ r.kind \in {"drift", "reseal", "recover"}
    /\ shown.outcome # "none" => shown.of = control

\* The page is locked by the one call that it has under way, and by no other.
LockedByOne ==
    /\ \A r, s : Ours(r) /\ Ours(s) => r = s
    /\ \A r : Ours(r) => /\ r.of = control
                         /\ r.kind = "recover" => recovering # 0 /\ busy = "no"
                         /\ r.kind # "recover" => recovering = 0 /\ busy = r.kind
    /\ busy # "no" => \E r : Ours(r) /\ r.kind = busy
    /\ recovering # 0 => \E r : Ours(r) /\ r.kind = "recover"

ControlsInv == ControlsShape /\ LockedByOne

LEMMA ControlsStart == ASSUME Controls!Init PROVE ControlsInv
<1>1. /\ turned = 1 /\ busy = "no" /\ shown = [binding |-> 0, outcome |-> "none", of |-> NoLease]
      /\ recovering = 0 /\ runs = {}
  BY DEF Controls!Init, Controls!Nothing
<1>. QED
  BY <1>1 DEF ControlsInv, ControlsShape, LockedByOne, Ours

\* A call is made while none is under way.
LEMMA CallLocks ==
    ASSUME ControlsInv, NEW kind \in {"drift", "reseal", "recover"}, Controls!Unlocked, Controls!Call(kind),
           UNCHANGED <<control, turned>>,
           shown' = shown \/ shown' = Controls!Nothing,
           IF kind = "recover" THEN recovering' = turned /\ busy' = busy ELSE recovering' = recovering /\ busy' = kind
    PROVE  ControlsInv'
<1>1. busy = "no" /\ recovering = 0
  BY DEF ControlsInv, ControlsShape, Controls!Unlocked
<1>2. \A r : ~Ours(r)
  BY <1>1 DEF ControlsInv, LockedByOne, ControlsShape, Ours
<1>3. PICK run2 : run2 = [kind |-> kind, id |-> calls + 1, binding |-> turned, of |-> control]
  OBVIOUS
<1>4. run2.kind = kind /\ run2.binding = turned /\ run2.of = control
  BY <1>3
<1>5. runs' = runs \cup {run2}
  BY <1>3 DEF Controls!Call
<1>6. \A r : Ours(r)' <=> r = run2
  BY <1>2, <1>4, <1>5 DEF Ours
<1>7. turned \in Nat /\ turned # 0
  BY DEF ControlsInv, ControlsShape
<1>8. ControlsShape'
  BY <1>4, <1>5, <1>1 DEF ControlsInv, ControlsShape, Controls!Nothing
<1>9. LockedByOne'
  BY <1>1, <1>4, <1>6, <1>7 DEF LockedByOne
<1>. QED
  BY <1>8, <1>9 DEF ControlsInv

LEMMA ControlsStepKeeps ==
    ASSUME ControlsInv, [Controls!Next]_controlsVars
    PROVE  ControlsInv'
<1>0. ControlsShape /\ LockedByOne
  BY DEF ControlsInv
<1>1. ASSUME NEW l, Controls!Turn(l) PROVE ControlsInv'
  <2>1. /\ turned' = turned + 1 /\ busy' = "no" /\ shown' = Controls!Nothing /\ recovering' = 0 /\ runs' = runs
    BY <1>1 DEF Controls!Turn
  <2>2. shown'.outcome = "none"
    BY <2>1 DEF Controls!Nothing
  <2>3. \A r : ~Ours(r)'
    BY <1>0, <2>1 DEF Ours, ControlsShape
  <2>4. ControlsShape'
    BY <1>0, <2>1, <2>2 DEF ControlsShape
  <2>. QED
    BY <2>1, <2>3, <2>4 DEF ControlsInv, LockedByOne
<1>2. ASSUME UNCHANGED <<control, turned, busy, recovering, runs>>,
             shown' = shown \/ shown'.of = control
      PROVE  ControlsInv'
  <2>1. \A r : Ours(r)' <=> Ours(r)
    BY <1>2 DEF Ours
  <2>2. ControlsShape'
    BY <1>0, <1>2 DEF ControlsShape
  <2>3. LockedByOne'
    BY <1>0, <1>2, <2>1 DEF LockedByOne
  <2>. QED
    BY <2>2, <2>3 DEF ControlsInv
<1>3. CASE Controls!EditToken
  BY <1>2, <1>3 DEF Controls!EditToken
<1>4. CASE Controls!CheckDrift
  BY <1>4, CallLocks DEF Controls!CheckDrift
<1>5. CASE Controls!Reseal
  BY <1>5, CallLocks DEF Controls!Reseal
<1>6. CASE Controls!Observe
  BY <1>2, <1>6 DEF Controls!Observe
<1>7. CASE Controls!CancelReseal
  BY <1>2, <1>7 DEF Controls!CancelReseal, Controls!Outcome
<1>8. CASE Controls!Recover
  BY <1>8, CallLocks DEF Controls!Recover
<1>9. ASSUME NEW r \in runs, NEW outcome \in Controls!Outcomes, Controls!Answered(r, outcome)
      PROVE  ControlsInv'
  <2>1. runs' = runs \ {r} /\ UNCHANGED <<control, turned>>
    BY <1>9 DEF Controls!Answered
  <2>2. \A s : Ours(s)' <=> Ours(s) /\ s # r
    BY <2>1 DEF Ours
  <2>3. CASE r.binding # turned
    <3>1. UNCHANGED <<busy, shown, recovering>>
      BY <1>9, <2>3 DEF Controls!Answered
    <3>2. \A s : Ours(s)' <=> Ours(s)
      BY <2>2, <2>3 DEF Ours
    <3>3. ControlsShape'
      BY <1>0, <2>1, <3>1 DEF ControlsShape
    <3>4. LockedByOne'
      BY <1>0, <2>1, <3>1, <3>2 DEF LockedByOne
    <3>. QED
      BY <3>3, <3>4 DEF ControlsInv
  <2>4. CASE r.binding = turned
    <3>1. Ours(r)
      BY <2>4 DEF Ours
    <3>2. \A s : ~Ours(s)'
      BY <1>0, <2>2, <3>1 DEF LockedByOne
    <3>3. /\ busy' = "no" /\ recovering' = 0
          /\ shown' = shown \/ shown' = Controls!Outcome(turned, outcome, r.of)
      <4>1. CASE r.kind = "drift"
        BY <1>0, <1>9, <2>4, <3>1, <4>1 DEF Controls!Answered, LockedByOne
      <4>2. CASE r.kind = "reseal"
        BY <1>0, <1>9, <2>4, <3>1, <4>2 DEF Controls!Answered, LockedByOne
      <4>3. CASE r.kind = "recover"
        BY <1>0, <1>9, <2>4, <3>1, <4>3 DEF Controls!Answered, LockedByOne
      <4>. QED
        BY <1>0, <4>1, <4>2, <4>3 DEF ControlsShape
    <3>4. r.of = control
      BY <1>0, <3>1 DEF LockedByOne
    <3>5. ControlsShape'
      BY <1>0, <2>1, <3>3, <3>4 DEF ControlsShape, Controls!Outcome
    <3>. QED
      BY <3>2, <3>3, <3>5 DEF ControlsInv, LockedByOne
  <2>. QED
    BY <2>3, <2>4
<1>10. CASE UNCHANGED controlsVars
  BY <1>2, <1>10 DEF controlsVars
<1>. QED
  BY <1>1, <1>3, <1>4, <1>5, <1>6, <1>7, <1>8, <1>9, <1>10 DEF Controls!Next

LEMMA ControlsAreRight == ASSUME ControlsInv PROVE Controls!ControlsAreOfTheirLease
<1>0. ControlsShape /\ LockedByOne
  BY DEF ControlsInv
<1>1. PICK S : S = {r \in runs : r.binding = turned}
  OBVIOUS
<1>2. \A r, s \in S : r = s
  BY <1>0, <1>1 DEF LockedByOne, Ours
<1>3. Cardinality(S) <= 1
  <2>1. CASE S = {}
    <3>1. Cardinality({}) = 0
      BY FS_EmptySet
    <3>. QED
      BY <2>1, <3>1
  <2>2. CASE S # {}
    <3>1. PICK r \in S : TRUE
      BY <2>2
    <3>2. S = {r}
      BY <1>2, <3>1
    <3>3. Cardinality({r}) = 1
      BY FS_Singleton
    <3>. QED
      BY <3>2, <3>3
  <2>. QED
    BY <2>1, <2>2
<1>4. Controls!Cardinality({r \in runs : r.binding = turned}) <= 1
  BY <1>1, <1>3, CardinalityOfControls
<1>. QED
  BY <1>0, <1>4 DEF ControlsShape, LockedByOne, Ours, Controls!ControlsAreOfTheirLease

(***************************************************************************)
(* The operator's console.  A binding names the agent that was shown when  *)
(* it was made, and everything that answers late carries its binding.      *)
(***************************************************************************)
Told == {"resolved", "failed", "running", "completed"}

PageTrue(s) ==
    /\ s = [phase |-> s.phase, gen |-> s.gen, agent |-> s.agent, shown |-> s.shown, token |-> s.token,
            refresh |-> s.refresh, sealed |-> s.sealed]
    /\ s.phase \in Told => s.shown = s.agent
    /\ s.phase = "completed" => s.sealed = s.shown
    /\ s.shown \in {NoAgent, s.agent}

SessionTrue ==
    /\ session = [pc |-> session.pc, agent |-> session.agent, accepted |-> session.accepted,
                  binding |-> session.binding]
    /\ session.pc # "none" => /\ evaluation.phase = "running"
                              /\ session.agent = evaluation.agent
                              /\ session.binding.key = session.agent

WriteTrue == write.outcome # "none" => write.of = write.binding.key
RecoveriesTrue == \A r \in recoveries : r.of = r.binding.key

ConsoleInv ==
    PageTrue(evaluation) /\ binding.key = evaluation.shown /\ SessionTrue /\ WriteTrue /\ RecoveriesTrue

LEMMA ConsoleStarts == ASSUME Console!Init PROVE ConsoleInv
  BY DEF Console!Init, Console!IdleState, Console!NoSession, Console!NoWrite, Console!NoRequest,
         ConsoleInv, PageTrue, SessionTrue, WriteTrue, RecoveriesTrue, Told

\* A page that is shown is bound to what it shows.
LEMMA ShownIsBound ==
    ASSUME NEW s, Console!Show(s) PROVE evaluation' = s /\ binding'.key = s.shown
  BY DEF Console!Show, Console!Bound

LEMMA IdlePages == ASSUME NEW agent, NEW gen
    PROVE PageTrue(Console!IdleState(agent, gen)) /\ Console!IdleState(agent, gen).phase = "idle"
  BY DEF PageTrue, Console!IdleState, Told

\* What the reducer makes of a page leaves it true, and a running page runs on.
LEMMA Reduced ==
    ASSUME NEW s, PageTrue(s), NEW agent, NEW gen, NEW r, NEW of, NEW phase \in {"failed", "resolved"},
           NEW ok \in BOOLEAN
    PROVE  /\ PageTrue(Console!EditIdentity(s, agent, gen))
           /\ PageTrue(Console!BeginResolve(s, gen))
           /\ PageTrue(Console!ResolveSucceeded(s, r)) /\ PageTrue(Console!ResolveFailed(s, r))
           /\ PageTrue(Console!ClearToken(s))
           /\ PageTrue(Console!RunStopped(s, phase))
           /\ of = s.shown => /\ PageTrue(Console!RunSucceeded(s, of))
                              /\ PageTrue(Console!RecoverySucceeded(s, of))
           /\ PageTrue(Console!RecoveryDefinitive(s))
           /\ PageTrue(Console!BeginCompletionRefresh(s, gen))
           /\ PageTrue(Console!CompleteRefresh(s, r, ok))
<1>1. PageTrue(Console!EditIdentity(s, agent, gen))
  BY IdlePages DEF Console!EditIdentity
<1>2. PageTrue(Console!BeginResolve(s, gen))
  BY DEF PageTrue, Console!BeginResolve, Console!IdleState, Told
<1>3. PageTrue(Console!ResolveSucceeded(s, r))
  BY DEF PageTrue, Console!ResolveSucceeded, Console!IdleState, Told
<1>4. PageTrue(Console!ResolveFailed(s, r))
  BY DEF PageTrue, Console!ResolveFailed, Console!IdleState, Told
<1>5. PageTrue(Console!ClearToken(s))
  <2>1. PICK t : t = [s EXCEPT !.token = FALSE]
    OBVIOUS
  <2>2. PageTrue(t)
    BY <2>1 DEF PageTrue
  <2>. QED
    BY <2>1, <2>2 DEF Console!ClearToken
<1>6. PageTrue(Console!RunStopped(s, phase))
  BY DEF PageTrue, Console!RunStopped, Console!ClearToken, Told
<1>7. ASSUME of = s.shown
      PROVE PageTrue(Console!RunSucceeded(s, of)) /\ PageTrue(Console!RecoverySucceeded(s, of))
  BY <1>7 DEF PageTrue, Console!RunSucceeded, Console!RecoverySucceeded, Console!ClearToken, Told
<1>8. PageTrue(Console!RecoveryDefinitive(s))
  BY DEF PageTrue, Console!RecoveryDefinitive, Told
<1>9. PageTrue(Console!BeginCompletionRefresh(s, gen))
  BY DEF PageTrue, Console!BeginCompletionRefresh, Told
<1>10. PageTrue(Console!CompleteRefresh(s, r, ok))
  BY DEF PageTrue, Console!CompleteRefresh, Told
<1>. QED
  BY <1>1, <1>2, <1>3, <1>4, <1>5, <1>6, <1>7, <1>8, <1>9, <1>10

\* A page a run is on keeps its agent through everything but the end of the run.
LEMMA RunningPage ==
    ASSUME NEW s, s = [phase |-> s.phase, gen |-> s.gen, agent |-> s.agent, shown |-> s.shown,
                       token |-> s.token, refresh |-> s.refresh, sealed |-> s.sealed],
           s.phase = "running", NEW gen, NEW r, NEW of, NEW ok \in BOOLEAN
    PROVE  /\ Console!ResolveSucceeded(s, r) = s /\ Console!ResolveFailed(s, r) = s
           /\ Console!CompleteRefresh(s, r, ok) = s /\ Console!BeginCompletionRefresh(s, gen) = s
           /\ Console!RecoverySucceeded(s, of) = s /\ Console!RecoveryDefinitive(s) = s
           /\ Console!ClearToken(s).phase = "running" /\ Console!ClearToken(s).agent = s.agent
  BY DEF Console!ResolveSucceeded, Console!ResolveFailed, Console!MatchesResolve, Console!CompleteRefresh,
         Console!BeginCompletionRefresh, Console!RecoverySucceeded, Console!RecoveryDefinitive,
         Console!ClearToken

\* A refresh shows the page it is given, at most a generation later.
LEMMA Refreshed ==
    ASSUME NEW s, PageTrue(s), NEW agent, Console!Refresh(s, agent)
    PROVE  /\ PageTrue(evaluation') /\ binding'.key = evaluation'.shown
           /\ s.phase = "running" => evaluation' = s
<1>1. PICK gen : gen = coordinator.generation + 1
  OBVIOUS
<1>2. CASE Console!Show(Console!BeginCompletionRefresh(s, gen))
  <2>1. PageTrue(Console!BeginCompletionRefresh(s, gen))
    BY Reduced
  <2>2. s.phase = "running" => Console!BeginCompletionRefresh(s, gen) = s
    BY DEF Console!BeginCompletionRefresh
  <2>. QED
    BY <1>2, <2>1, <2>2, ShownIsBound
<1>3. CASE Console!Show(s)
  BY <1>3, ShownIsBound
<1>. QED
  BY <1>1, <1>2, <1>3 DEF Console!Refresh

LEMMA PublishKeeps ==
    ASSUME NEW b, NEW outcome, NEW of, WriteTrue, of = b.key, Console!Publish(b, outcome, of)
    PROVE  WriteTrue'
  BY DEF Console!Publish, Console!SameBinding, WriteTrue

LEMMA ConsoleStepKeeps ==
    ASSUME ConsoleInv, [Console!Next]_consoleVars PROVE ConsoleInv'
<1>0. PageTrue(evaluation) /\ binding.key = evaluation.shown /\ SessionTrue /\ WriteTrue /\ RecoveriesTrue
  BY DEF ConsoleInv
<1>1. ASSUME NEW agent \in Subjects, Console!Edit(agent)
      PROVE ConsoleInv'
  <2>1. PICK gen : gen = coordinator.generation + 1
    OBVIOUS
  <2>2. PageTrue(Console!EditIdentity(evaluation, agent, gen))
    BY <1>0, Reduced
  <2>3. PageTrue(evaluation') /\ binding'.key = evaluation'.shown
    BY <1>0, <1>1, <2>1, <2>2 DEF Console!Edit, Console!Bound
  <2>4. WriteTrue' /\ RecoveriesTrue'
    BY <1>0, <1>1 DEF Console!Edit, Console!NoWrite, WriteTrue, RecoveriesTrue
  <2>5. evaluation.phase # "running" /\ session' = session
    BY <1>1 DEF Console!Edit, Console!IdentityLocked
  <2>6. SessionTrue'
    BY <1>0, <2>5 DEF SessionTrue
  <2>. QED
    BY <2>3, <2>4, <2>6 DEF ConsoleInv
<1>2. ASSUME Console!Resolve
      PROVE ConsoleInv'
  <2>1. PICK gen : gen = coordinator.generation + 1
    OBVIOUS
  <2>2. PageTrue(Console!BeginResolve(evaluation, gen))
    BY <1>0, Reduced
  <2>3. Console!Show(Console!BeginResolve(evaluation, gen))
    BY <1>2, <2>1 DEF Console!Resolve
  <2>4. PageTrue(evaluation') /\ binding'.key = evaluation'.shown
    BY <2>2, <2>3, ShownIsBound
  <2>5. evaluation.phase # "running" /\ session' = session /\ write' = write /\ recoveries' = recoveries
    BY <1>2 DEF Console!Resolve, Console!IdentityLocked
  <2>. QED
    BY <1>0, <2>4, <2>5 DEF ConsoleInv, SessionTrue, WriteTrue, RecoveriesTrue
<1>3. ASSUME Console!CancelResolve
      PROVE ConsoleInv'
  <2>1. PICK s : s = IF evaluation.gen = coordinator.active.gen
                     THEN Console!IdleState(evaluation.agent, evaluation.gen) ELSE evaluation
    OBVIOUS
  <2>2. Console!Show(s)
    BY <1>3, <2>1 DEF Console!CancelResolve
  <2>3. PageTrue(s)
    BY <1>0, <2>1, IdlePages
  <2>4. PageTrue(evaluation') /\ binding'.key = evaluation'.shown
    BY <2>2, <2>3, ShownIsBound
  <2>5. evaluation.phase # "running" /\ session' = session /\ write' = write /\ recoveries' = recoveries
    BY <1>3 DEF Console!CancelResolve
  <2>. QED
    BY <1>0, <2>4, <2>5 DEF ConsoleInv, SessionTrue, WriteTrue, RecoveriesTrue
<1>4. ASSUME Console!RefreshCurrent
      PROVE ConsoleInv'
  <2>1. /\ PageTrue(evaluation') /\ binding'.key = evaluation'.shown
        /\ evaluation.phase = "running" => evaluation' = evaluation
    BY <1>0, <1>4, Refreshed DEF Console!RefreshCurrent
  <2>2. session' = session /\ write' = write /\ recoveries' = recoveries
    BY <1>4 DEF Console!RefreshCurrent
  <2>. QED
    BY <1>0, <2>1, <2>2 DEF ConsoleInv, SessionTrue, WriteTrue, RecoveriesTrue
<1>5. ASSUME NEW r \in loads, NEW ok \in BOOLEAN, Console!Settle(r, ok)
      PROVE ConsoleInv'
  <2>1. session' = session /\ write' = write /\ recoveries' = recoveries
    BY <1>5 DEF Console!Settle
  <2>2. PICK s : s = IF r.kind = "refresh" THEN Console!CompleteRefresh(evaluation, r, ok)
                     ELSE IF ok THEN Console!ResolveSucceeded(evaluation, r)
                     ELSE Console!ResolveFailed(evaluation, r)
    OBVIOUS
  <2>3. PageTrue(s) /\ (evaluation.phase = "running" => s = evaluation)
    <3>1. /\ PageTrue(Console!CompleteRefresh(evaluation, r, ok))
          /\ PageTrue(Console!ResolveSucceeded(evaluation, r))
          /\ PageTrue(Console!ResolveFailed(evaluation, r))
      BY <1>0, Reduced
    <3>2. evaluation.phase = "running" =>
            /\ Console!CompleteRefresh(evaluation, r, ok) = evaluation
            /\ Console!ResolveSucceeded(evaluation, r) = evaluation
            /\ Console!ResolveFailed(evaluation, r) = evaluation
      BY <1>0, RunningPage DEF PageTrue
    <3>3. CASE r.kind = "refresh"
      BY <2>2, <3>1, <3>2, <3>3
    <3>4. CASE r.kind # "refresh" /\ ok
      BY <2>2, <3>1, <3>2, <3>4
    <3>5. CASE r.kind # "refresh" /\ ~ok
      BY <2>2, <3>1, <3>2, <3>5
    <3>. QED
      BY <3>3, <3>4, <3>5
  <2>4. CASE coordinator.active = r
    <3>1. Console!Show(s)
      BY <1>5, <2>2, <2>4 DEF Console!Settle
    <3>2. evaluation' = s /\ binding'.key = s.shown
      BY <3>1, ShownIsBound
    <3>. QED
      BY <1>0, <2>1, <2>3, <3>2 DEF ConsoleInv, SessionTrue, WriteTrue, RecoveriesTrue
  <2>5. CASE coordinator.active # r
    <3>1. evaluation' = evaluation /\ binding' = binding
      BY <1>5, <2>5 DEF Console!Settle
    <3>. QED
      BY <1>0, <2>1, <3>1 DEF ConsoleInv, SessionTrue, WriteTrue, RecoveriesTrue
  <2>. QED
    BY <2>4, <2>5
<1>6. ASSUME Console!EditToken
      PROVE ConsoleInv'
  <2>1. PICK s : s = [evaluation EXCEPT !.token = TRUE]
    OBVIOUS
  <2>2. PageTrue(s) /\ s.phase = evaluation.phase
    BY <1>0, <2>1 DEF PageTrue
  <2>3. Console!Show(s)
    BY <1>6, <2>1 DEF Console!EditToken
  <2>4. evaluation' = s /\ binding'.key = s.shown
    BY <2>3, ShownIsBound
  <2>5. evaluation.phase # "running" /\ session' = session /\ write' = write /\ recoveries' = recoveries
    BY <1>6 DEF Console!EditToken
  <2>. QED
    BY <1>0, <2>2, <2>4, <2>5 DEF ConsoleInv, SessionTrue, WriteTrue, RecoveriesTrue
<1>7. ASSUME Console!Evaluate
      PROVE ConsoleInv'
  <2>1. PICK s : s = [evaluation EXCEPT !.phase = "running"]
    OBVIOUS
  <2>2. evaluation.shown = evaluation.agent
    BY <1>0, <1>7 DEF Console!Evaluate, Console!CanStartPaidRun, PageTrue, Told
  <2>3. PageTrue(s) /\ s.phase = "running" /\ s.agent = evaluation.agent
    BY <1>0, <2>1, <2>2 DEF PageTrue
  <2>4. Console!Show(s)
    BY <1>7, <2>1 DEF Console!Evaluate
  <2>5. evaluation' = s /\ binding'.key = s.shown
    BY <2>4, ShownIsBound
  <2>6. /\ session' = [pc |-> "running", agent |-> evaluation.agent, accepted |-> FALSE, binding |-> binding]
        /\ write' = Console!NoWrite /\ recoveries' = recoveries
    BY <1>7 DEF Console!Evaluate
  <2>7. SessionTrue'
    BY <1>0, <2>2, <2>3, <2>5, <2>6 DEF SessionTrue
  <2>8. WriteTrue' /\ RecoveriesTrue'
    BY <1>0, <2>6 DEF Console!NoWrite, WriteTrue, RecoveriesTrue
  <2>. QED
    BY <2>3, <2>5, <2>7, <2>8 DEF ConsoleInv
<1>8. ASSUME Console!Observe
      PROVE ConsoleInv'
  BY <1>0, <1>8 DEF Console!Observe, ConsoleInv, SessionTrue, WriteTrue, RecoveriesTrue
<1>9. ASSUME Console!CancelRun
      PROVE ConsoleInv'
  <2>1. /\ PageTrue(evaluation) /\ evaluation.phase = "running"
        /\ session.agent = evaluation.agent /\ evaluation.shown = evaluation.agent
    BY <1>0, <1>9 DEF Console!CancelRun, SessionTrue, PageTrue, Told
  <2>2. Console!Show(Console!ClearToken(evaluation))
    BY <1>9 DEF Console!CancelRun
  <2>3. evaluation' = Console!ClearToken(evaluation) /\ binding'.key = evaluation'.shown
    BY <2>2, ShownIsBound
  <2>4. PageTrue(evaluation')
    BY <2>1, <2>3, Reduced
  <2>5. evaluation'.phase = "running" /\ evaluation'.agent = evaluation.agent
    BY <2>1, <2>3, RunningPage DEF PageTrue
  <2>6. session' = [session EXCEPT !.pc = "canceled"] /\ recoveries' = recoveries
    BY <1>9 DEF Console!CancelRun
  <2>7. PICK outcome : Console!Publish(binding, outcome, session.agent)
    BY <1>9 DEF Console!CancelRun
  <2>8. WriteTrue'
    BY <1>0, <2>1, <2>7, PublishKeeps
  <2>9. SessionTrue'
    BY <1>0, <1>9, <2>1, <2>5, <2>6 DEF Console!CancelRun, SessionTrue
  <2>. QED
    BY <1>0, <2>3, <2>4, <2>6, <2>8, <2>9 DEF ConsoleInv, RecoveriesTrue
<1>10. ASSUME NEW outcome \in Console!Outcomes \cup {"refused"}, Console!RunEnds(outcome)
       PROVE ConsoleInv'
  <2>1. /\ session.agent = session.binding.key /\ session.agent = evaluation.agent
        /\ evaluation.shown = evaluation.agent
    BY <1>0, <1>10 DEF Console!RunEnds, SessionTrue, PageTrue, Told
  <2>2. session' = Console!NoSession /\ recoveries' = recoveries
    BY <1>10 DEF Console!RunEnds
  <2>3. WriteTrue'
    <3>1. CASE outcome = "refused"
      BY <1>0, <1>10, <3>1 DEF Console!RunEnds, WriteTrue
    <3>2. CASE outcome # "refused"
      <4>1. Console!Publish(session.binding, outcome, session.agent)
        BY <1>10, <3>2 DEF Console!RunEnds
      <4>. QED
        BY <1>0, <2>1, <4>1, PublishKeeps
    <3>. QED
      BY <3>1, <3>2
  <2>4. PageTrue(evaluation') /\ binding'.key = evaluation'.shown
    <3>1. CASE outcome = "sealed"
      <4>1. PageTrue(Console!RunSucceeded(evaluation, session.agent))
        BY <1>0, <2>1, Reduced
      <4>2. Console!Refresh(Console!RunSucceeded(evaluation, session.agent), evaluation.agent)
        BY <1>10, <3>1 DEF Console!RunEnds
      <4>. QED
        BY <4>1, <4>2, Refreshed
    <3>2. CASE outcome # "sealed"
      <4>1. PageTrue(Console!RunStopped(evaluation, "failed"))
        BY <1>0, Reduced
      <4>2. Console!Show(Console!RunStopped(evaluation, "failed"))
        BY <1>10, <3>2 DEF Console!RunEnds
      <4>. QED
        BY <4>1, <4>2, ShownIsBound
    <3>. QED
      BY <3>1, <3>2
  <2>5. SessionTrue' /\ RecoveriesTrue'
    BY <1>0, <2>2 DEF SessionTrue, RecoveriesTrue, Console!NoSession
  <2>. QED
    BY <2>3, <2>4, <2>5 DEF ConsoleInv
<1>11. ASSUME Console!RunInterrupted
       PROVE ConsoleInv'
  <2>1. Console!Show(Console!RunStopped(evaluation, "resolved"))
    BY <1>11 DEF Console!RunInterrupted
  <2>2. PageTrue(Console!RunStopped(evaluation, "resolved"))
    BY <1>0, Reduced
  <2>3. PageTrue(evaluation') /\ binding'.key = evaluation'.shown
    BY <2>1, <2>2, ShownIsBound
  <2>4. session' = Console!NoSession /\ write' = write /\ recoveries' = recoveries
    BY <1>11 DEF Console!RunInterrupted
  <2>. QED
    BY <1>0, <2>3, <2>4 DEF ConsoleInv, SessionTrue, WriteTrue, RecoveriesTrue, Console!NoSession
<1>12. ASSUME Console!Recover
       PROVE ConsoleInv'
  <2>1. /\ Console!Show(Console!ClearToken(evaluation))
        /\ recoveries' = recoveries \cup {[binding |-> write.binding, of |-> write.of]}
        /\ write.outcome = "recoverable" /\ session' = session /\ write' = write
    BY <1>12 DEF Console!Recover
  <2>2. evaluation' = Console!ClearToken(evaluation) /\ binding'.key = evaluation'.shown
    BY <2>1, ShownIsBound
  <2>3. PageTrue(evaluation')
    BY <1>0, <2>2, Reduced
  <2>4. evaluation'.phase = evaluation.phase /\ evaluation'.agent = evaluation.agent
    BY <1>0, <2>2 DEF Console!ClearToken, PageTrue
  <2>5. write.of = write.binding.key
    BY <1>0, <2>1 DEF WriteTrue
  <2>6. RecoveriesTrue'
    BY <1>0, <2>1, <2>5 DEF RecoveriesTrue
  <2>7. SessionTrue' /\ WriteTrue'
    BY <1>0, <2>1, <2>4 DEF SessionTrue, WriteTrue
  <2>. QED
    BY <2>2, <2>3, <2>6, <2>7 DEF ConsoleInv
<1>13. ASSUME NEW r \in recoveries, Console!RecoveryFails(r)
       PROVE ConsoleInv'
  BY <1>0, <1>13 DEF Console!RecoveryFails, ConsoleInv, SessionTrue, WriteTrue, RecoveriesTrue
<1>14. ASSUME NEW r \in recoveries, NEW outcome \in Console!Outcomes \ {"interrupted"},
              Console!RecoveryAnswers(r, outcome)
       PROVE ConsoleInv'
  <2>1. /\ recoveries' = recoveries \ {r} /\ session' = session
        /\ Console!Publish(r.binding, outcome, r.of)
    BY <1>14 DEF Console!RecoveryAnswers
  <2>2. r.of = r.binding.key
    BY <1>0 DEF RecoveriesTrue
  <2>3. WriteTrue' /\ RecoveriesTrue'
    BY <1>0, <2>1, <2>2, PublishKeeps DEF RecoveriesTrue
  <2>4. /\ PageTrue(evaluation') /\ binding'.key = evaluation'.shown
        /\ evaluation.phase = "running" => evaluation' = evaluation
    <3>1. CASE binding # r.binding
      <4>0. ~Console!SameBinding(binding, r.binding)
        BY <3>1 DEF Console!SameBinding
      <4>1. evaluation' = evaluation /\ binding' = binding
        BY <1>14, <4>0 DEF Console!RecoveryAnswers
      <4>. QED
        BY <1>0, <4>1
    <3>2. CASE binding = r.binding /\ outcome = "sealed"
      <4>1. r.of = evaluation.shown
        BY <1>0, <2>2, <3>2
      <4>2. PageTrue(Console!RecoverySucceeded(evaluation, r.of))
        BY <1>0, <4>1, Reduced
      <4>3. Console!Refresh(Console!RecoverySucceeded(evaluation, r.of), evaluation.agent)
        BY <1>14, <3>2 DEF Console!RecoveryAnswers, Console!SameBinding
      <4>4. evaluation.phase = "running" => Console!RecoverySucceeded(evaluation, r.of) = evaluation
        BY DEF Console!RecoverySucceeded
      <4>. QED
        BY <4>2, <4>3, <4>4, Refreshed
    <3>3. CASE binding = r.binding /\ outcome # "sealed"
      <4>1. PageTrue(Console!RecoveryDefinitive(evaluation))
        BY <1>0, Reduced
      <4>2. Console!Show(Console!RecoveryDefinitive(evaluation))
        BY <1>14, <3>3 DEF Console!RecoveryAnswers, Console!SameBinding
      <4>3. evaluation.phase = "running" => Console!RecoveryDefinitive(evaluation) = evaluation
        BY DEF Console!RecoveryDefinitive
      <4>. QED
        BY <4>1, <4>2, <4>3, ShownIsBound
    <3>. QED
      BY <3>1, <3>2, <3>3
  <2>5. SessionTrue'
    BY <1>0, <2>1, <2>4 DEF SessionTrue
  <2>. QED
    BY <2>3, <2>4, <2>5 DEF ConsoleInv
<1>15. CASE UNCHANGED consoleVars
  BY <1>0, <1>15 DEF consoleVars, ConsoleInv, SessionTrue, WriteTrue, RecoveriesTrue
<1>. QED
  BY <1>1, <1>2, <1>3, <1>4, <1>5, <1>6, <1>7, <1>8, <1>9, <1>10, <1>11, <1>12, <1>13, <1>14, <1>15
  DEF Console!Next, Console!User, Console!Server

LEMMA ConsoleIsRight == ASSUME ConsoleInv PROVE Console!OutcomeIsOfItsIdentity
<1>1. Console!Visible => write.of = evaluation.shown
  BY DEF Console!Visible, Console!SameBinding, ConsoleInv, WriteTrue
<1>. QED
  BY <1>1 DEF ConsoleInv, PageTrue, Console!OutcomeIsOfItsIdentity

(***************************************************************************)
(* The page of one agent.  A request is of the generation it was made in,  *)
(* and the last refresh that was asked for is of the agent on the page.    *)
(***************************************************************************)
DetailTrue ==
    /\ detail = [key |-> detail.key, gen |-> detail.gen, base |-> detail.base, route |-> detail.route,
                 historical |-> detail.historical, snapshot |-> detail.snapshot,
                 refresh |-> detail.refresh, shownAt |-> detail.shownAt]
    /\ detail.gen = loaded /\ active \in {NoAgent, detail.key}
    /\ detail.base \in {NoAgent, detail.key} /\ detail.snapshot.of \in {NoAgent, detail.key}

\* A page that waits for its refresh has asked for it.
RefreshTrue ==
    /\ detail.refresh \in {"IDLE", "FAILED", "LOADING", "REFRESHING"}
    /\ detail.refresh = "IDLE" => detail.snapshot.asked = refreshGeneration
    /\ detail.snapshot.access # NoAccess => detail.refresh # "LOADING"
    /\ detail.refresh = "REFRESHING" => \E r \in requests : r.kind = "refresh" /\ r.asked = refreshGeneration

AskedTrue(r) ==
    /\ r = [kind |-> r.kind, of |-> r.of, gen |-> r.gen, asked |-> r.asked, at |-> r.at]
    /\ r.gen \in Nat /\ r.asked \in Nat /\ r.gen <= loaded /\ r.asked <= refreshGeneration
    /\ r.gen = loaded => r.of = detail.key
    /\ r.kind = "refresh" /\ r.asked = refreshGeneration => r.gen = loaded
    /\ r.kind = "load" /\ r.gen = loaded => active = NoAgent /\ r.asked = refreshGeneration

LoadsOnce ==
    \A r, s \in requests :
        r.kind = "load" /\ s.kind = "load" /\ r.gen = loaded /\ s.gen = loaded => r = s

PageInv ==
    /\ loaded \in Nat /\ refreshGeneration \in Nat
    /\ DetailTrue /\ RefreshTrue /\ LoadsOnce
    /\ \A r \in requests : AskedTrue(r)

LEMMA PageStarts == ASSUME AgentPage!Init PROVE PageInv
  BY DEF AgentPage!Init, AgentPage!InitialState, AgentPage!NoSnapshot, PageInv, DetailTrue, RefreshTrue,
         LoadsOnce, AskedTrue

\* What the reducer makes of an answer that is heard.
LEMMA Settles ==
    ASSUME NEW s, NEW r, NEW access,
           s = [key |-> s.key, gen |-> s.gen, base |-> s.base, route |-> s.route, historical |-> s.historical,
                snapshot |-> s.snapshot, refresh |-> s.refresh, shownAt |-> s.shownAt],
           s.key = r.of, s.gen = r.gen
    PROVE  /\ AgentPage!CurrentSucceeded(s, r, access) =
                [key |-> s.key, gen |-> s.gen, base |-> s.base, route |-> s.route, historical |-> s.historical,
                 snapshot |-> [of |-> r.of, access |-> access, expires |-> r.at + Ttl, asked |-> r.asked],
                 refresh |-> "IDLE", shownAt |-> clock]
           /\ AgentPage!CurrentFailed(s, r) =
                [key |-> s.key, gen |-> s.gen, base |-> s.base, route |-> s.route, historical |-> s.historical,
                 snapshot |-> s.snapshot, refresh |-> "FAILED", shownAt |-> s.shownAt]
           /\ AgentPage!CurrentStarted(s, r) =
                [key |-> s.key, gen |-> s.gen, base |-> s.base, route |-> s.route, historical |-> s.historical,
                 snapshot |-> s.snapshot, shownAt |-> s.shownAt,
                 refresh |-> IF s.snapshot.access = NoAccess THEN "LOADING" ELSE "REFRESHING"]
  BY DEF AgentPage!CurrentSucceeded, AgentPage!CurrentFailed, AgentPage!CurrentStarted, AgentPage!Heard

\* An answer settles what was asked for last: nothing is waited for any more.
LEMMA SettlingKeeps ==
    ASSUME NEW s, NEW r, NEW access, PageInv, r.asked = refreshGeneration, r.of = detail.key, r.gen = loaded,
           s = [key |-> s.key, gen |-> s.gen, base |-> s.base, route |-> s.route, historical |-> s.historical,
                snapshot |-> s.snapshot, refresh |-> s.refresh, shownAt |-> s.shownAt],
           s.key = detail.key, s.gen = detail.gen, s.base \in {NoAgent, detail.key}, s.snapshot = detail.snapshot,
           active' \in {NoAgent, detail.key}, loaded' = loaded, refreshGeneration' = refreshGeneration,
           detail' = IF access = NoAccess THEN AgentPage!CurrentFailed(s, r)
                     ELSE AgentPage!CurrentSucceeded(s, r, access)
    PROVE  DetailTrue' /\ RefreshTrue' /\ detail'.key = detail.key
<1>1. s.key = r.of /\ s.gen = r.gen
  BY DEF PageInv, DetailTrue
<1>2. CASE access = NoAccess
  <2>1. detail' = [key |-> s.key, gen |-> s.gen, base |-> s.base, route |-> s.route,
                   historical |-> s.historical, snapshot |-> s.snapshot, refresh |-> "FAILED",
                   shownAt |-> s.shownAt]
    BY <1>1, <1>2, Settles
  <2>. QED
    BY <2>1 DEF PageInv, DetailTrue, RefreshTrue
<1>3. CASE access # NoAccess
  <2>1. detail' = [key |-> s.key, gen |-> s.gen, base |-> s.base, route |-> s.route,
                   historical |-> s.historical,
                   snapshot |-> [of |-> r.of, access |-> access, expires |-> r.at + Ttl, asked |-> r.asked],
                   refresh |-> "IDLE", shownAt |-> clock]
    BY <1>1, <1>3, Settles
  <2>2. DetailTrue'
    BY <1>1, <2>1 DEF PageInv, DetailTrue
  <2>3. RefreshTrue'
    BY <2>1 DEF RefreshTrue
  <2>. QED
    BY <1>1, <2>1, <2>2, <2>3
<1>. QED
  BY <1>2, <1>3

LEMMA AskingKeeps == ASSUME PageInv, AgentPage!RefreshCurrent, UNCHANGED <<clock, loaded, active>>
    PROVE PageInv'
<1>0. DetailTrue /\ RefreshTrue /\ LoadsOnce /\ loaded \in Nat /\ refreshGeneration \in Nat
      /\ \A r \in requests : AskedTrue(r)
  BY DEF PageInv
<1>1. PICK s : s = AgentPage!ClockTick(detail)
  OBVIOUS
<1>2. s = [key |-> detail.key, gen |-> detail.gen, base |-> detail.base, route |-> detail.route,
           historical |-> detail.historical, snapshot |-> detail.snapshot, refresh |-> detail.refresh,
           shownAt |-> clock]
  BY <1>0, <1>1 DEF DetailTrue, AgentPage!ClockTick
<1>3. CASE active = NoAgent
  <2>1. detail' = s /\ refreshGeneration' = refreshGeneration /\ requests' = requests
    BY <1>1, <1>3 DEF AgentPage!RefreshCurrent
  <2>2. DetailTrue'
    BY <1>0, <1>2, <2>1 DEF DetailTrue
  <2>3. RefreshTrue'
    BY <1>0, <1>2, <2>1 DEF RefreshTrue
  <2>4. LoadsOnce' /\ \A r \in requests' : AskedTrue(r)'
    BY <1>0, <1>2, <2>1 DEF LoadsOnce, AskedTrue
  <2>. QED
    BY <1>0, <2>1, <2>2, <2>3, <2>4 DEF PageInv
<1>4. CASE active # NoAgent
  <2>1. PICK r : r = AgentPage!Request("refresh", active, loaded, refreshGeneration + 1)
    OBVIOUS
  <2>2. r = [kind |-> "refresh", of |-> active, gen |-> loaded, asked |-> refreshGeneration + 1, at |-> clock]
    BY <2>1 DEF AgentPage!Request
  <2>3. /\ refreshGeneration' = refreshGeneration + 1 /\ requests' = requests \cup {r}
        /\ detail' = AgentPage!CurrentStarted(s, r)
    BY <1>1, <1>4, <2>1 DEF AgentPage!RefreshCurrent
  <2>4. s.key = r.of /\ s.gen = r.gen
    BY <1>0, <1>2, <1>4, <2>2 DEF DetailTrue
  <2>5. detail' = [key |-> s.key, gen |-> s.gen, base |-> s.base, route |-> s.route,
                   historical |-> s.historical, snapshot |-> s.snapshot, shownAt |-> s.shownAt,
                   refresh |-> IF s.snapshot.access = NoAccess THEN "LOADING" ELSE "REFRESHING"]
    <3>1. s = [key |-> s.key, gen |-> s.gen, base |-> s.base, route |-> s.route, historical |-> s.historical,
               snapshot |-> s.snapshot, refresh |-> s.refresh, shownAt |-> s.shownAt]
      BY <1>2
    <3>. QED
      BY <2>3, <2>4, <3>1, Settles
  <2>6. DetailTrue'
    BY <1>0, <1>2, <2>5 DEF DetailTrue
  <2>7. RefreshTrue'
    BY <2>2, <2>3, <2>5 DEF RefreshTrue
  <2>8. \A q \in requests' : AskedTrue(q)'
    <3>1. SUFFICES ASSUME NEW q \in requests'
          PROVE AskedTrue(q)'
      OBVIOUS
    <3>2. detail'.key = detail.key
      BY <1>2, <2>5
    <3>3. CASE q \in requests
      <4>1. AskedTrue(q)
        BY <1>0, <3>3
      <4>2. q.asked # refreshGeneration + 1 /\ q.asked <= refreshGeneration + 1
        BY <1>0, <4>1 DEF AskedTrue
      <4>3. q.kind = "load" => q.gen # loaded
        BY <1>4, <4>1 DEF AskedTrue
      <4>. QED
        BY <2>3, <3>2, <4>1, <4>2, <4>3 DEF AskedTrue
    <3>4. CASE q = r
      BY <1>0, <1>2, <2>2, <2>3, <2>4, <3>2, <3>4 DEF AskedTrue, DetailTrue
    <3>. QED
      BY <2>3, <3>1, <3>3, <3>4
  <2>9. LoadsOnce'
    BY <1>0, <2>2, <2>3 DEF LoadsOnce
  <2>. QED
    BY <1>0, <2>3, <2>6, <2>7, <2>8, <2>9 DEF PageInv
<1>. QED
  BY <1>3, <1>4

LEMMA PageStepKeeps == ASSUME PageInv, [AgentPage!Next]_pageVars PROVE PageInv'
<1>0. DetailTrue /\ RefreshTrue /\ LoadsOnce /\ loaded \in Nat /\ refreshGeneration \in Nat
      /\ \A r \in requests : AskedTrue(r)
  BY DEF PageInv
<1>1. ASSUME NEW l \in Subjects, AgentPage!Turn(l)
      PROVE PageInv'
  BY <1>0, <1>1 DEF AgentPage!Turn, PageInv, DetailTrue, RefreshTrue, LoadsOnce, AskedTrue
<1>2. ASSUME AgentPage!Start
      PROVE PageInv'
  <2>1. PICK r : r = AgentPage!Request("load", route, loaded + 1, refreshGeneration + 1)
    OBVIOUS
  <2>2. r = [kind |-> "load", of |-> route, gen |-> loaded + 1, asked |-> refreshGeneration + 1, at |-> clock]
    BY <2>1 DEF AgentPage!Request
  <2>3. /\ loaded' = loaded + 1 /\ refreshGeneration' = refreshGeneration + 1 /\ active' = NoAgent
        /\ requests' = requests \cup {r}
        /\ detail' = AgentPage!InitialState(route, loaded + 1, clock)
    BY <1>2, <2>1 DEF AgentPage!Start
  <2>4. DetailTrue' /\ RefreshTrue' /\ detail'.key = route
    BY <2>3 DEF AgentPage!InitialState, AgentPage!NoSnapshot, DetailTrue, RefreshTrue
  <2>5. \A q \in requests' : AskedTrue(q)'
    <3>1. SUFFICES ASSUME NEW q \in requests'
          PROVE AskedTrue(q)'
      OBVIOUS
    <3>2. CASE q \in requests
      <4>1. AskedTrue(q)
        BY <1>0, <3>2
      <4>2. /\ q.asked # refreshGeneration + 1 /\ q.asked <= refreshGeneration + 1
            /\ q.gen # loaded + 1 /\ q.gen <= loaded + 1
        BY <1>0, <4>1 DEF AskedTrue
      <4>. QED
        BY <2>3, <4>1, <4>2 DEF AskedTrue
    <3>3. CASE q = r
      BY <1>0, <2>2, <2>3, <2>4, <3>3 DEF AskedTrue
    <3>. QED
      BY <2>3, <3>1, <3>2, <3>3
  <2>6. LoadsOnce'
    <3>1. \A q \in requests : q.gen # loaded + 1
      BY <1>0 DEF AskedTrue
    <3>. QED
      BY <2>3, <3>1 DEF LoadsOnce
  <2>. QED
    BY <1>0, <2>3, <2>4, <2>5, <2>6 DEF PageInv
<1>3. ASSUME AgentPage!VisitorRefreshes \/ AgentPage!TimerFires
      PROVE PageInv'
  <2>1. AgentPage!RefreshCurrent /\ UNCHANGED <<clock, loaded, active>>
    BY <1>3 DEF AgentPage!VisitorRefreshes, AgentPage!TimerFires
  <2>. QED
    BY <2>1, AskingKeeps
<1>4. ASSUME AgentPage!Tick
      PROVE PageInv'
  BY <1>0, <1>4 DEF AgentPage!Tick, PageInv, DetailTrue, RefreshTrue, LoadsOnce, AskedTrue
<1>5. ASSUME NEW r \in requests, AgentPage!LoadFails(r)
      PROVE PageInv'
  <2>1. /\ r.kind # "refresh" /\ requests' = requests \ {r} /\ UNCHANGED <<loaded, refreshGeneration, active>>
        /\ \/ detail' = [detail EXCEPT !.route = "ERROR"]
           \/ detail' = detail
    BY <1>5 DEF AgentPage!LoadFails
  <2>2. DetailTrue' /\ detail'.key = detail.key
    BY <1>0, <2>1 DEF DetailTrue
  <2>3. detail'.refresh = detail.refresh /\ detail'.snapshot = detail.snapshot
    BY <1>0, <2>1 DEF DetailTrue
  <2>4. RefreshTrue'
    BY <1>0, <2>1, <2>3 DEF RefreshTrue
  <2>5. LoadsOnce' /\ \A q \in requests' : AskedTrue(q)'
    BY <1>0, <2>1, <2>2 DEF LoadsOnce, AskedTrue
  <2>. QED
    BY <1>0, <2>1, <2>2, <2>4, <2>5 DEF PageInv
<1>6. ASSUME NEW r \in requests, NEW access \in Accesses \cup {NoAccess}, AgentPage!BaseReady(r, access)
      PROVE PageInv'
  <2>0. r.kind = "load" /\ UNCHANGED <<loaded, refreshGeneration>>
    BY <1>6 DEF AgentPage!BaseReady
  <2>1. CASE r.gen # loaded
    <3>1. requests' = requests \ {r} /\ detail' = detail /\ active' = active
      BY <1>6, <2>0, <2>1 DEF AgentPage!BaseReady, AgentPage!Newest
    <3>2. RefreshTrue'
      BY <1>0, <2>0, <3>1 DEF RefreshTrue
    <3>3. DetailTrue' /\ LoadsOnce' /\ \A q \in requests' : AskedTrue(q)'
      BY <1>0, <2>0, <3>1 DEF DetailTrue, LoadsOnce, AskedTrue
    <3>. QED
      BY <1>0, <2>0, <3>2, <3>3 DEF PageInv
  <2>2. CASE r.gen = loaded
    <3>1. PICK s : s = [detail EXCEPT !.route = "READY", !.base = r.of]
      OBVIOUS
    <3>2. PICK v : v = [r EXCEPT !.kind = "verify"]
      OBVIOUS
    <3>3. /\ active' = r.of /\ requests' = (requests \ {r}) \cup {v}
          /\ detail' = IF access = NoAccess THEN AgentPage!CurrentFailed(s, r)
                       ELSE AgentPage!CurrentSucceeded(s, r, access)
      BY <1>6, <2>0, <2>2, <3>1, <3>2 DEF AgentPage!BaseReady, AgentPage!Newest
    <3>4. AskedTrue(r)
      BY <1>0
    <3>5. r.of = detail.key /\ r.asked = refreshGeneration
      BY <2>0, <2>2, <3>4 DEF AskedTrue
    <3>6. s = [key |-> detail.key, gen |-> detail.gen, base |-> r.of, route |-> "READY",
               historical |-> detail.historical, snapshot |-> detail.snapshot, refresh |-> detail.refresh,
               shownAt |-> detail.shownAt]
      BY <1>0, <3>1 DEF DetailTrue
    <3>7. s = [key |-> s.key, gen |-> s.gen, base |-> s.base, route |-> s.route, historical |-> s.historical,
               snapshot |-> s.snapshot, refresh |-> s.refresh, shownAt |-> s.shownAt]
      BY <3>6
    <3>8. s.key = detail.key /\ s.gen = detail.gen /\ s.base = r.of /\ s.snapshot = detail.snapshot
      BY <3>6
    <3>9. DetailTrue' /\ RefreshTrue' /\ detail'.key = detail.key
      BY <2>0, <2>2, <3>3, <3>5, <3>7, <3>8, SettlingKeeps
    <3>10. v = [kind |-> "verify", of |-> r.of, gen |-> r.gen, asked |-> r.asked, at |-> r.at]
      BY <3>2, <3>4 DEF AskedTrue
    <3>11. \A q \in requests' : AskedTrue(q)'
      <4>1. SUFFICES ASSUME NEW q \in requests'
            PROVE AskedTrue(q)'
        OBVIOUS
      <4>2. CASE q = v
        BY <2>0, <2>2, <3>4, <3>5, <3>9, <3>10, <4>2 DEF AskedTrue
      <4>3. CASE q \in requests /\ q # r
        <5>1. AskedTrue(q)
          BY <1>0, <4>3
        <5>2. q.kind = "load" => q.gen # loaded
          BY <1>0, <2>0, <2>2, <4>3 DEF LoadsOnce
        <5>. QED
          BY <2>0, <3>9, <5>1, <5>2 DEF AskedTrue
      <4>. QED
        BY <3>3, <4>1, <4>2, <4>3
    <3>12. LoadsOnce'
      BY <1>0, <2>0, <3>3, <3>10 DEF LoadsOnce
    <3>. QED
      BY <1>0, <2>0, <3>9, <3>11, <3>12 DEF PageInv
  <2>. QED
    BY <2>1, <2>2
<1>7. ASSUME NEW r \in requests, NEW access \in Accesses \cup {NoAccess}, AgentPage!RefreshAnswers(r, access)
      PROVE PageInv'
  <2>1. /\ r.kind = "refresh" /\ requests' = requests \ {r} /\ UNCHANGED <<loaded, refreshGeneration, active>>
    BY <1>7 DEF AgentPage!RefreshAnswers
  <2>2. CASE r.asked # refreshGeneration
    <3>1. detail' = detail
      BY <1>7, <2>1, <2>2 DEF AgentPage!RefreshAnswers, AgentPage!Newest
    <3>2. RefreshTrue'
      BY <1>0, <2>1, <2>2, <3>1 DEF RefreshTrue
    <3>3. DetailTrue' /\ LoadsOnce' /\ \A q \in requests' : AskedTrue(q)'
      BY <1>0, <2>1, <3>1 DEF DetailTrue, LoadsOnce, AskedTrue
    <3>. QED
      BY <1>0, <2>1, <3>2, <3>3 DEF PageInv
  <2>3. CASE r.asked = refreshGeneration
    <3>1. detail' = IF access = NoAccess THEN AgentPage!CurrentFailed(detail, r)
                    ELSE AgentPage!CurrentSucceeded(detail, r, access)
      BY <1>7, <2>1, <2>3 DEF AgentPage!RefreshAnswers, AgentPage!Newest
    <3>2. AskedTrue(r)
      BY <1>0
    <3>3. r.gen = loaded /\ r.of = detail.key
      BY <2>1, <2>3, <3>2 DEF AskedTrue
    <3>4. /\ detail = [key |-> detail.key, gen |-> detail.gen, base |-> detail.base, route |-> detail.route,
                       historical |-> detail.historical, snapshot |-> detail.snapshot,
                       refresh |-> detail.refresh, shownAt |-> detail.shownAt]
          /\ detail.base \in {NoAgent, detail.key} /\ active' \in {NoAgent, detail.key}
      BY <1>0, <2>1 DEF DetailTrue
    <3>5. DetailTrue' /\ RefreshTrue' /\ detail'.key = detail.key
      BY <2>1, <2>3, <3>1, <3>3, <3>4, SettlingKeeps
    <3>6. LoadsOnce' /\ \A q \in requests' : AskedTrue(q)'
      BY <1>0, <2>1, <3>5 DEF LoadsOnce, AskedTrue
    <3>. QED
      BY <1>0, <2>1, <3>5, <3>6 DEF PageInv
  <2>. QED
    BY <2>2, <2>3
<1>8. ASSUME NEW r \in requests, NEW status \in Terminals, AgentPage!HistoricalSettled(r, status)
      PROVE PageInv'
  <2>1. /\ r.kind # "refresh" /\ requests' = requests \ {r} /\ UNCHANGED <<loaded, refreshGeneration, active>>
        /\ \/ detail' = [detail EXCEPT !.historical = status]
           \/ detail' = detail
    BY <1>8 DEF AgentPage!HistoricalSettled
  <2>2. DetailTrue' /\ detail'.key = detail.key
    BY <1>0, <2>1 DEF DetailTrue
  <2>3. detail'.refresh = detail.refresh /\ detail'.snapshot = detail.snapshot
    BY <1>0, <2>1 DEF DetailTrue
  <2>4. RefreshTrue'
    BY <1>0, <2>1, <2>3 DEF RefreshTrue
  <2>5. LoadsOnce' /\ \A q \in requests' : AskedTrue(q)'
    BY <1>0, <2>1, <2>2 DEF LoadsOnce, AskedTrue
  <2>. QED
    BY <1>0, <2>1, <2>2, <2>4, <2>5 DEF PageInv
<1>9. CASE UNCHANGED pageVars
  BY <1>0, <1>9 DEF pageVars, PageInv, DetailTrue, RefreshTrue, LoadsOnce, AskedTrue
<1>. QED
  BY <1>1, <1>2, <1>3, <1>4, <1>5, <1>6, <1>7, <1>8, <1>9 DEF AgentPage!Next

LEMMA PageIsRight == ASSUME PageInv PROVE AgentPage!PageIsOfItsAgent
<1>0. DetailTrue /\ RefreshTrue /\ \A r \in requests : AskedTrue(r)
  BY DEF PageInv
<1>1. SUFFICES ASSUME detail.key = route
      PROVE /\ detail.base \in {NoAgent, route} /\ detail.snapshot.of \in {NoAgent, route}
            /\ detail.refresh = "IDLE" => detail.snapshot.asked = refreshGeneration
            /\ AgentPage!HasSnapshot => \/ AgentPage!Armed \/ detail.refresh = "FAILED"
                                        \/ \E r \in requests : /\ r.kind = "refresh" /\ AgentPage!Newest(r)
                                                               /\ AgentPage!Heard(detail, r)
  BY DEF AgentPage!PageIsOfItsAgent, AgentPage!Visible
<1>2. ASSUME AgentPage!HasSnapshot, ~AgentPage!Armed, detail.refresh # "FAILED"
      PROVE \E r \in requests : r.kind = "refresh" /\ AgentPage!Newest(r) /\ AgentPage!Heard(detail, r)
  <2>1. detail.refresh = "REFRESHING"
    BY <1>0, <1>2 DEF AgentPage!HasSnapshot, AgentPage!Armed, RefreshTrue
  <2>2. PICK r \in requests : r.kind = "refresh" /\ r.asked = refreshGeneration
    BY <1>0, <2>1 DEF RefreshTrue
  <2>3. AskedTrue(r)
    BY <1>0
  <2>. QED
    BY <1>0, <2>2, <2>3 DEF AskedTrue, DetailTrue, AgentPage!Newest, AgentPage!Heard
<1>. QED
  BY <1>0, <1>1, <1>2 DEF DetailTrue, RefreshTrue

(***************************************************************************)
(* The first scanner.  From the moment the models have answered, a scan    *)
(* holds a verdict that is earned; it waits only for a score that exists.  *)
(***************************************************************************)
Judged == {"attest", "send", "wait"}
QueueShape ==
    /\ scan = [c \in Queue!Callers |-> scan[c]]
    /\ \A c \in Queue!Callers : scan[c] =
         [pc |-> scan[c].pc, agent |-> scan[c].agent, source |-> scan[c].source, given |-> scan[c].given,
          eoa |-> scan[c].eoa, signals |-> scan[c].signals, score |-> scan[c].score,
          level |-> scan[c].level, risk |-> scan[c].risk, attempt |-> scan[c].attempt]

Earned(s) ==
    /\ s.score = Queue!NaN \/ Queue!Consistent(s.score, s.level)
    /\ s.given => s.risk >= Queue!AnalyzeSolidity(s.source)
    /\ s.risk = Queue!CLEAN => s.given \/ s.eoa

QueueInv ==
    /\ QueueShape
    /\ \A c \in Queue!Callers :
         /\ scan[c].pc \in Judged => Earned(scan[c])
         /\ scan[c].pc = "wait" => scan[c].score # Queue!NaN

\* The gravest of a few risks is one of them, and no milder than any.
LEMMA GravestRisk ==
    ASSUME NEW S \in SUBSET (0..2), 0 \in S
    PROVE  Queue!Max(S) \in 0..2 /\ \A x \in S : x <= Queue!Max(S)
<1>1. \E m \in S : \A x \in S : x <= m
  <2>1. CASE 2 \in S
    BY <2>1
  <2>2. CASE 2 \notin S /\ 1 \in S
    BY <2>2
  <2>3. CASE 2 \notin S /\ 1 \notin S
    BY <2>3
  <2>. QED
    BY <2>1, <2>2, <2>3
<1>2. PICK m : m = CHOOSE y \in S : \A x \in S : y >= x
  OBVIOUS
<1>3. \E y \in S : \A x \in S : y >= x
  BY <1>1
<1>4. m \in S /\ \A x \in S : m >= x
  BY <1>2, <1>3
<1>5. Queue!Max(S) = m
  BY <1>2 DEF Queue!Max
<1>. QED
  BY <1>4, <1>5

LEMMA RuleRisks == ASSUME NEW fn, NEW f \in Queue!RulesOn(fn) PROVE f.risk \in 0..2
<1>1. ASSUME NEW hit, NEW id, NEW risk \in 0..2, f \in Queue!Finding(hit, id, risk)
      PROVE f.risk \in 0..2
  BY <1>1 DEF Queue!Finding
<1>2. f \in Queue!CheckReentrancy(fn) => f.risk \in 0..2
  BY <1>1 DEF Queue!CheckReentrancy, Queue!VULNERABLE
<1>3. f \in Queue!CheckSelfdestruct(fn) => f.risk \in 0..2
  BY <1>1 DEF Queue!CheckSelfdestruct, Queue!VULNERABLE, Queue!WARNING
<1>4. f \in Queue!CheckTxOrigin(fn) => f.risk \in 0..2
  BY <1>1 DEF Queue!CheckTxOrigin, Queue!WARNING
<1>5. f \in Queue!CheckArbitraryCall(fn) => f.risk \in 0..2
  BY <1>1 DEF Queue!CheckArbitraryCall, Queue!VULNERABLE, Queue!WARNING
<1>6. f \in Queue!CheckUncheckedCall(fn) => f.risk \in 0..2
  BY <1>1 DEF Queue!CheckUncheckedCall, Queue!WARNING
<1>. QED
  BY <1>2, <1>3, <1>4, <1>5, <1>6 DEF Queue!RulesOn

LEMMA AnalysisIsARisk == ASSUME NEW source PROVE Queue!AnalyzeSolidity(source) \in 0..2
<1>1. PICK S : S = {0} \cup {f.risk : f \in Queue!RunLegacyRules(source)}
  OBVIOUS
<1>2. S \in SUBSET (0..2) /\ 0 \in S
  BY <1>1, RuleRisks DEF Queue!RunLegacyRules
<1>. QED
  BY <1>1, <1>2, GravestRisk DEF Queue!AnalyzeSolidity, Queue!Summarize, Queue!CLEAN

\* A label and a score that were made to agree.
LEMMA MadeToAgree ==
    ASSUME NEW label \in 0..3, NEW score \in {0 - 1} \cup 0..100,
           NEW v, v = Queue!CrossValidated(label, score)
    PROVE  v[2] = Queue!NaN \/ Queue!Consistent(v[2], v[1])
<1>1. PICK level : level = IF label = 3 THEN 1 ELSE label
  OBVIOUS
<1>2. level \in 0..2
  BY <1>1
<1>3. CASE score = 0 - 1
  BY <1>1, <1>3 DEF Queue!CrossValidated, Queue!NaN, Queue!UNKNOWN, Queue!CAUTION
<1>4. CASE score # 0 - 1
  <2>0. score \in 0..100
    BY <1>4
  <2>1. v = CASE level = 2 /\ score < 60     -> <<2, 60>>
              [] level = 1 /\ score < 30     -> <<1, 30>>
              [] level = 1 /\ score >= 60    -> <<1, 59>>
              [] level = 0 /\ score >= 60    -> <<2, score>>
              [] level = 0 /\ score \in 30..59 -> <<1, score>>
              [] OTHER                       -> <<level, score>>
    BY <1>1, <1>4 DEF Queue!CrossValidated, Queue!NaN, Queue!UNKNOWN, Queue!CAUTION, Queue!SAFE, Queue!FLAGGED
  <2>2. CASE level = 2
    BY <2>0, <2>1, <2>2 DEF Queue!Consistent, Queue!FLAGGED, Queue!CAUTION
  <2>3. CASE level = 1
    BY <2>0, <2>1, <2>3 DEF Queue!Consistent, Queue!FLAGGED, Queue!CAUTION
  <2>4. CASE level = 0
    <3>1. CASE score >= 60
      <4>1. v = <<2, score>>
        BY <2>0, <2>1, <2>4, <3>1
      <4>2. v[1] = 2 /\ v[2] = score
        BY <4>1
      <4>. QED
        BY <2>0, <3>1, <4>2 DEF Queue!Consistent, Queue!FLAGGED, Queue!CAUTION
    <3>2. CASE score >= 30 /\ score < 60
      <4>1. v = <<1, score>>
        BY <2>0, <2>1, <2>4, <3>2
      <4>2. v[1] = 1 /\ v[2] = score
        BY <4>1
      <4>. QED
        BY <2>0, <3>2, <4>2 DEF Queue!Consistent, Queue!FLAGGED, Queue!CAUTION
    <3>3. CASE score < 30
      <4>1. v = <<level, score>>
        BY <2>0, <2>1, <2>4, <3>3
      <4>. QED
        BY <2>0, <2>4, <3>3, <4>1 DEF Queue!Consistent, Queue!FLAGGED, Queue!CAUTION
    <3>. QED
      BY <2>0, <3>1, <3>2, <3>3
  <2>. QED
    BY <1>2, <2>2, <2>3, <2>4
<1>. QED
  BY <1>3, <1>4

LEMMA RiskIsEarned ==
    ASSUME NEW s, NEW answer \in 0..2, NEW risk, risk = Queue!CodeScanRisk(s, answer)
    PROVE  /\ s.given => risk >= Queue!AnalyzeSolidity(s.source)
           /\ risk = Queue!CLEAN => s.given \/ s.eoa
<1>1. CASE s.given
  <2>1. PICK rules : rules = Queue!AnalyzeSolidity(s.source)
    OBVIOUS
  <2>2. rules \in 0..2
    BY <2>1, AnalysisIsARisk
  <2>3. risk = Queue!Max({answer, rules})
    BY <1>1, <2>1 DEF Queue!CodeScanRisk
  <2>4. \E y \in {answer, rules} : \A x \in {answer, rules} : y >= x
    BY <2>2
  <2>5. risk >= rules
    BY <2>3, <2>4 DEF Queue!Max
  <2>. QED
    BY <1>1, <2>1, <2>5
<1>2. CASE ~s.given
  BY <1>2 DEF Queue!CodeScanRisk, Queue!WARNING, Queue!CLEAN
<1>. QED
  BY <1>1, <1>2

LEMMA QueueStarts == ASSUME Queue!Init PROVE QueueInv
  BY DEF Queue!Init, Queue!Idle, Queue!Callers, QueueInv, QueueShape, Judged

\* A scan that moves, alone, to a row that is in order.
LEMMA RowKeeps ==
    ASSUME QueueInv, NEW c \in Queue!Callers, NEW s, scan' = [scan EXCEPT ![c] = s],
           s = [pc |-> s.pc, agent |-> s.agent, source |-> s.source, given |-> s.given, eoa |-> s.eoa,
                signals |-> s.signals, score |-> s.score, level |-> s.level, risk |-> s.risk,
                attempt |-> s.attempt],
           s.pc \in Judged => Earned(s), s.pc = "wait" => s.score # Queue!NaN
    PROVE  QueueInv'
<1>1. QueueShape
  BY DEF QueueInv
<1>2. scan' = [d \in Queue!Callers |-> IF d = c THEN s ELSE scan[d]]
  BY <1>1 DEF QueueShape
<1>3. \A d \in Queue!Callers : scan'[d] = IF d = c THEN s ELSE scan[d]
  BY <1>2
<1>4. QueueShape'
  BY <1>1, <1>2, <1>3 DEF QueueShape
<1>. QED
  BY <1>3, <1>4 DEF QueueInv, Earned

LEMMA BlankKeeps ==
    ASSUME QueueInv, NEW c \in Queue!Callers, scan' = [scan EXCEPT ![c] = Queue!Idle] PROVE QueueInv'
<1>1. PICK s : s = Queue!Idle
  OBVIOUS
<1>2. /\ s = [pc |-> s.pc, agent |-> s.agent, source |-> s.source, given |-> s.given, eoa |-> s.eoa,
              signals |-> s.signals, score |-> s.score, level |-> s.level, risk |-> s.risk,
              attempt |-> s.attempt]
      /\ s.pc = "idle"
  BY <1>1 DEF Queue!Idle
<1>. QED
  BY <1>1, <1>2, RowKeeps DEF Judged

LEMMA BegunKeeps == ASSUME QueueInv, NEW c \in Queue!Callers, NEW agent,
                           scan' = [scan EXCEPT ![c] = [Queue!Idle EXCEPT !.pc = "discover", !.agent = agent]]
                    PROVE  QueueInv'
<1>1. PICK s : s = [Queue!Idle EXCEPT !.pc = "discover", !.agent = agent]
  OBVIOUS
<1>2. /\ s = [pc |-> s.pc, agent |-> s.agent, source |-> s.source, given |-> s.given, eoa |-> s.eoa,
              signals |-> s.signals, score |-> s.score, level |-> s.level, risk |-> s.risk,
              attempt |-> s.attempt]
      /\ s.pc = "discover"
  BY <1>1 DEF Queue!Idle
<1>. QED
  BY <1>1, <1>2, RowKeeps DEF Judged

LEMMA RestKeeps == ASSUME QueueInv, UNCHANGED scan PROVE QueueInv'
  BY DEF QueueInv, QueueShape, Earned

LEMMA ThrowKeeps ==
    ASSUME QueueInv, NEW c \in Queue!Callers, NEW lock, Queue!Throws(c, lock) PROVE QueueInv'
<1>1. scan' = [scan EXCEPT ![c] = Queue!Idle]
  BY DEF Queue!Throws
<1>. QED
  BY <1>1, BlankKeeps

LEMMA QueueScanKeeps ==
    ASSUME QueueInv, NEW c \in Queue!Callers, Queue!RunFullScan(c) PROVE QueueInv'
<1>0. /\ QueueShape
      /\ scan[c].pc \in Judged => Earned(scan[c])
      /\ scan[c] = [pc |-> scan[c].pc, agent |-> scan[c].agent, source |-> scan[c].source,
                    given |-> scan[c].given, eoa |-> scan[c].eoa, signals |-> scan[c].signals,
                    score |-> scan[c].score, level |-> scan[c].level, risk |-> scan[c].risk,
                    attempt |-> scan[c].attempt]
  BY DEF QueueInv, QueueShape
<1>1. ASSUME Queue!Discover(c)
      PROVE QueueInv'
  <2>1. PICK source \in Queue!VerifiedContractSource(scan[c].agent), eoa \in Queue!ReadsAsEOA(scan[c].agent),
             signals \in Queue!FetchAgentActivity(scan[c].agent) :
          scan' = [scan EXCEPT ![c] = [@ EXCEPT !.pc = "infer", !.source = source, !.given = source # << >>,
                                       !.eoa = eoa, !.signals = signals]]
    BY <1>1, ZenonT(40) DEF Queue!Discover
  <2>2. PICK given \in BOOLEAN : given = (source # << >>)
    OBVIOUS
  <2>3. PICK s : s = [scan[c] EXCEPT !.pc = "infer", !.source = source, !.given = given,
                                     !.eoa = eoa, !.signals = signals]
    OBVIOUS
  <2>4. scan' = [scan EXCEPT ![c] = s]
    BY <1>0, <2>1, <2>2, <2>3 DEF QueueShape
  <2>5. /\ s = [pc |-> s.pc, agent |-> s.agent, source |-> s.source, given |-> s.given, eoa |-> s.eoa,
                signals |-> s.signals, score |-> s.score, level |-> s.level, risk |-> s.risk,
                attempt |-> s.attempt]
        /\ s.pc = "infer"
    BY <1>0, <2>3
  <2>. QED
    BY <2>4, <2>5, RowKeeps DEF Judged
<1>2. ASSUME Queue!Infer(c)
      PROVE QueueInv'
  <2>1. PICK answer \in ModelAnswers :
          scan' = [scan EXCEPT ![c] = [@ EXCEPT !.pc = "attest",
                     !.level = Queue!CrossValidated(answer.label, answer.score)[1],
                     !.score = Queue!CrossValidated(answer.label, answer.score)[2],
                     !.signals = Queue!Unseen, !.risk = Queue!CodeScanRisk(scan[c], answer.risk)]]
    BY <1>2 DEF Queue!Infer
  <2>2. answer.label \in 0..3 /\ answer.score \in {0 - 1} \cup 0..100 /\ answer.risk \in 0..2
    BY AnswersAssumption
  <2>3. PICK v : v = Queue!CrossValidated(answer.label, answer.score)
    OBVIOUS
  <2>4. v[2] = Queue!NaN \/ Queue!Consistent(v[2], v[1])
    BY <2>2, <2>3, MadeToAgree
  <2>5. PICK risk : risk = Queue!CodeScanRisk(scan[c], answer.risk)
    OBVIOUS
  <2>6. /\ scan[c].given => risk >= Queue!AnalyzeSolidity(scan[c].source)
        /\ risk = Queue!CLEAN => scan[c].given \/ scan[c].eoa
    BY <2>2, <2>5, RiskIsEarned
  <2>7. PICK s : s = [scan[c] EXCEPT !.pc = "attest", !.level = v[1], !.score = v[2],
                                     !.signals = Queue!Unseen, !.risk = risk]
    OBVIOUS
  <2>8. scan' = [scan EXCEPT ![c] = s]
    BY <1>0, <2>1, <2>3, <2>5, <2>7 DEF QueueShape
  <2>9. s = [pc |-> "attest", agent |-> scan[c].agent, source |-> scan[c].source, given |-> scan[c].given,
             eoa |-> scan[c].eoa, signals |-> Queue!Unseen, score |-> v[2], level |-> v[1], risk |-> risk,
             attempt |-> scan[c].attempt]
    BY <1>0, <2>7
  <2>10. Earned(s)
    BY <2>4, <2>6, <2>9 DEF Earned
  <2>11. /\ s = [pc |-> s.pc, agent |-> s.agent, source |-> s.source, given |-> s.given, eoa |-> s.eoa,
                 signals |-> s.signals, score |-> s.score, level |-> s.level, risk |-> s.risk,
                 attempt |-> s.attempt]
         /\ s.pc = "attest"
    BY <2>9
  <2>. QED
    BY <2>8, <2>10, <2>11, RowKeeps
<1>3. ASSUME Queue!InferFails(c) \/ Queue!WriteFails(c)
      PROVE QueueInv'
  BY <1>3, ThrowKeeps DEF Queue!InferFails, Queue!WriteFails
<1>4. ASSUME NEW pc \in {"send", "wait"}, NEW attempt, scan[c].pc \in Judged,
             pc = "wait" => scan[c].score # Queue!NaN,
             NEW s, s = [scan[c] EXCEPT !.pc = pc, !.attempt = attempt], scan' = [scan EXCEPT ![c] = s]
      PROVE QueueInv'
  <2>1. s = [pc |-> pc, agent |-> scan[c].agent, source |-> scan[c].source, given |-> scan[c].given,
             eoa |-> scan[c].eoa, signals |-> scan[c].signals, score |-> scan[c].score,
             level |-> scan[c].level, risk |-> scan[c].risk, attempt |-> attempt]
    BY <1>0, <1>4
  <2>2. Earned(s)
    BY <1>0, <1>4, <2>1 DEF Earned
  <2>3. /\ s = [pc |-> s.pc, agent |-> s.agent, source |-> s.source, given |-> s.given, eoa |-> s.eoa,
                signals |-> s.signals, score |-> s.score, level |-> s.level, risk |-> s.risk,
                attempt |-> s.attempt]
        /\ s.pc = pc /\ s.score = scan[c].score
    BY <2>1
  <2>. QED
    BY <1>4, <2>2, <2>3, RowKeeps
<1>5. ASSUME Queue!Attest(c)
      PROVE QueueInv'
  <2>1. CASE writeInFlight
    BY <1>5, <2>1, ThrowKeeps DEF Queue!Attest
  <2>2. CASE ~writeInFlight
    <3>1. scan' = [scan EXCEPT ![c].pc = "send", ![c].attempt = 1] /\ scan[c].pc = "attest"
      BY <1>5, <2>2 DEF Queue!Attest, Queue!At
    <3>2. PICK s : s = [scan[c] EXCEPT !.pc = "send", !.attempt = 1]
      OBVIOUS
    <3>3. scan' = [scan EXCEPT ![c] = s]
      BY <1>0, <3>1, <3>2 DEF QueueShape
    <3>4. scan[c].pc \in Judged
      BY <3>1 DEF Judged
    <3>. QED
      BY <1>4, <3>2, <3>3, <3>4
  <2>. QED
    BY <2>1, <2>2
<1>6. ASSUME Queue!WriteAttestation(c)
      PROVE QueueInv'
  <2>1. scan' = [scan EXCEPT ![c].pc = "wait"] /\ scan[c].pc = "send" /\ scan[c].score # Queue!NaN
    BY <1>6 DEF Queue!WriteAttestation, Queue!At, Queue!Encodable
  <2>2. PICK attempt : attempt = scan[c].attempt
    OBVIOUS
  <2>3. PICK s : s = [scan[c] EXCEPT !.pc = "wait", !.attempt = attempt]
    OBVIOUS
  <2>4. s = [scan[c] EXCEPT !.pc = "wait"]
    BY <1>0, <2>2, <2>3
  <2>5. scan' = [scan EXCEPT ![c] = s]
    BY <1>0, <2>1, <2>4 DEF QueueShape
  <2>6. scan[c].pc \in Judged
    BY <2>1 DEF Judged
  <2>. QED
    BY <1>4, <2>1, <2>3, <2>5, <2>6
<1>7. ASSUME Queue!NonceCollision(c)
      PROVE QueueInv'
  <2>1. CASE scan[c].attempt < 3
    <3>1. PICK attempt : scan' = [scan EXCEPT ![c].attempt = attempt]
      BY <1>0, <1>7, <2>1 DEF Queue!NonceCollision, QueueShape
    <3>2. scan[c].pc = "send"
      BY <1>7 DEF Queue!NonceCollision, Queue!At
    <3>3. PICK s : s = [scan[c] EXCEPT !.pc = "send", !.attempt = attempt]
      OBVIOUS
    <3>4. s = [scan[c] EXCEPT !.attempt = attempt]
      BY <1>0, <3>2, <3>3
    <3>5. scan' = [scan EXCEPT ![c] = s]
      BY <1>0, <3>1, <3>4 DEF QueueShape
    <3>6. scan[c].pc \in Judged
      BY <3>2 DEF Judged
    <3>. QED
      BY <1>4, <3>3, <3>5, <3>6
  <2>2. CASE ~(scan[c].attempt < 3)
    BY <1>7, <2>2, ThrowKeeps DEF Queue!NonceCollision
  <2>. QED
    BY <2>1, <2>2
<1>8. ASSUME Queue!Confirmed(c)
      PROVE QueueInv'
  <2>1. scan' = [scan EXCEPT ![c] = Queue!Idle]
    BY <1>8 DEF Queue!Confirmed
  <2>. QED
    BY <2>1, BlankKeeps
<1>. QED
  BY <1>1, <1>2, <1>3, <1>5, <1>6, <1>7, <1>8 DEF Queue!RunFullScan

LEMMA QueueStepKeeps == ASSUME QueueInv, [Queue!Next]_queueVars PROVE QueueInv'
<1>1. ASSUME NEW a \in Subjects, Queue!EnqueueAddresses(a) \/ Queue!Mined(a)
      PROVE QueueInv'
  BY <1>1, RestKeeps DEF Queue!EnqueueAddresses, Queue!Mined, Queue!scanVars
<1>2. ASSUME NEW a \in Subjects, Queue!ManualScan(a)
      PROVE QueueInv'
  <2>1. scan' = [scan EXCEPT !["manual"] = [Queue!Idle EXCEPT !.pc = "discover", !.agent = a]]
    BY <1>2 DEF Queue!ManualScan
  <2>. QED
    BY <2>1, BegunKeeps DEF Queue!Callers
<1>3. ASSUME Queue!HasAttestation
      PROVE QueueInv'
  <2>1. \/ UNCHANGED scan
        \/ scan' = [scan EXCEPT !["queue"] = [Queue!Idle EXCEPT !.pc = "discover", !.agent = worker.agent]]
    BY <1>3 DEF Queue!HasAttestation
  <2>. QED
    BY <2>1, RestKeeps, BegunKeeps DEF Queue!Callers
<1>4. ASSUME Queue!Pause
      PROVE QueueInv'
  BY <1>4, RestKeeps DEF Queue!Pause, Queue!scanVars
<1>5. CASE UNCHANGED queueVars
  BY <1>5, RestKeeps DEF queueVars
<1>. QED
  BY <1>1, <1>2, <1>3, <1>4, <1>5, QueueScanKeeps DEF Queue!Next

LEMMA QueueIsRight == ASSUME QueueInv PROVE Queue!VerdictsAreEarned
  BY DEF QueueInv, Earned, Judged, Queue!VerdictsAreEarned, Queue!At

-----------------------------------------------------------------------------
(* The parts share no state: a step of one is a step of it, and the others rest. *)

BrowserInv == ConsoleInv /\ PanelInv /\ ControlsInv /\ ScanPageInv /\ PageInv

LEMMA BrowserStarts == ClientsInit => BrowserInv /\ QueueInv
  BY ConsoleStarts, PanelStarts, ControlsStart, ScanPageStarts, PageStarts, QueueStarts
  DEF ClientsInit, BrowserInv

LEMMA StepsOfParts ==
    ASSUME [ClientsNext]_clientsVars
    PROVE  /\ [Console!Next]_consoleVars /\ [Panel!Next]_panelVars /\ [Controls!Next]_controlsVars
           /\ [ScanPage!Next]_scanPageVars /\ [AgentPage!Next]_pageVars /\ [Queue!Next]_queueVars
<1>1. CASE ConsoleStep
  BY <1>1 DEF ConsoleStep
<1>2. CASE PanelStep
  BY <1>2 DEF PanelStep
<1>3. CASE ControlsStep
  BY <1>3 DEF ControlsStep
<1>4. CASE ScanPageStep
  BY <1>4 DEF ScanPageStep
<1>5. CASE PageStep
  BY <1>5 DEF PageStep
<1>6. CASE QueueStep
  BY <1>6 DEF QueueStep
<1>7. CASE ScanStep
  BY <1>7 DEF ScanStep
<1>8. CASE UNCHANGED clientsVars
  BY <1>8 DEF clientsVars
<1>. QED
  BY <1>1, <1>2, <1>3, <1>4, <1>5, <1>6, <1>7, <1>8 DEF ClientsNext

LEMMA ClientsStepKeeps ==
    ASSUME BrowserInv, QueueInv, [ClientsNext]_clientsVars PROVE BrowserInv' /\ QueueInv'
  BY StepsOfParts, ConsoleStepKeeps, PanelStepKeeps, ControlsStepKeeps, ScanPageStepKeeps, PageStepKeeps,
     QueueStepKeeps DEF BrowserInv

LEMMA ClientsInvariant == ClientsSpec => [](BrowserInv /\ QueueInv)
<1>1. BrowserInv /\ QueueInv /\ [ClientsNext]_clientsVars => (BrowserInv /\ QueueInv)'
  BY ClientsStepKeeps
<1>. QED
  BY <1>1, BrowserStarts, PTL DEF ClientsSpec

\* The console, the controls of a lease, the scan page, the page of an agent and the panel that
\* verifies its proof: whatever answers late, none says of its subject what is true of another.
THEOREM PagesAlwaysFollow == ClientsSpec => []PagesFollowTheirSubject
<1>1. BrowserInv => PagesFollowTheirSubject
  BY ConsoleIsRight, PanelIsRight, ControlsAreRight, ScanPageIsRight, PageIsRight
  DEF BrowserInv, PagesFollowTheirSubject
<1>. QED
  BY <1>1, ClientsInvariant, PTL

\* Whatever the models answer, the first scanner broadcasts no label its score contradicts and no
\* risk milder than the fixed rules on the source it read.
THEOREM VerdictsAlwaysEarned == ClientsSpec => []VerdictsAreEarned
<1>1. QueueInv => VerdictsAreEarned
  BY QueueIsRight DEF VerdictsAreEarned
<1>. QED
  BY <1>1, ClientsInvariant, PTL
=============================================================================
