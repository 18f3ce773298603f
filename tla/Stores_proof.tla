----------------------------- MODULE Stores_proof -----------------------------
(***************************************************************************)
(* What the server keeps or finds on disk and on chain, for any number of  *)
(* calls, receipts, roots, transactions, blocks, faults and crashes.  A    *)
(* receipt is accepted once per retention: the invariant is the type       *)
(* invariant together with AcceptanceIsRemembered, which is inductive as   *)
(* it stands, and the action properties follow from it.  A broadcast the   *)
(* upload journal took is never forgotten, and a commitment that was       *)
(* handed out is never replaced: both rest on what the await a call is at  *)
(* says of the journal file of its root.  The search for an upload answers *)
(* as one pass over the chain would.                                       *)
(***************************************************************************)
EXTENDS MCStores, Integers, TLAPS

-----------------------------------------------------------------------------
(* The receipt claims.                                                      *)

Invariant == TypeOK /\ AcceptanceIsRemembered

\* What collection leaves of a row: the row while it has time left.
LEMMA CollectedKeepsLiveRows ==
  ASSUME TypeOK
  PROVE  /\ Collected \in [Receipts -> Rows]
         /\ \A r \in Receipts : rows[r].left > 0 => Collected[r] = rows[r]
         /\ \A r \in Receipts : Collected[r] = rows[r] \/ Collected[r] = Absent
<1>1. \A r \in Receipts : rows[r] \in Rows
  BY DEF TypeOK
<1>2. Absent \in Rows
  BY DEF Absent, Rows, RowStates
<1>3. Collected \in [Receipts -> Rows]
  BY <1>1, <1>2 DEF Collected
<1>4. \A r \in Receipts : rows[r].left > 0 => rows[r].left # 0
  BY <1>1 DEF Rows
<1>. QED
  BY <1>3, <1>4 DEF Collected

\* A transaction leaves one row as given and the others as collected.
LEMMA StoreChangesOneRow ==
  ASSUME TypeOK, NEW c \in Calls, NEW row \in Rows, Store(c, row)
  PROVE  /\ rows' \in [Receipts -> Rows]
         /\ rows'[call[c].receipt] = row
         /\ \A r \in Receipts \ {call[c].receipt} : rows'[r] = Collected[r]
<1>1. call[c].receipt \in Receipts
  BY DEF TypeOK, CallStates
<1>. QED
  BY <1>1, CollectedKeepsLiveRows DEF Store

\* The catch block leaves a well-formed call, and it leaves the other calls.
LEMMA FailIsWellTyped ==
  ASSUME TypeOK, NEW c \in Calls, Fail(c)
  PROVE  /\ call' \in [Calls -> CallStates]
         /\ call'[c].pc \in {"failed", "releasing"}
<1>1. call[c] \in CallStates
  BY DEF TypeOK
<1>2. call' = [call EXCEPT ![c] =
                 [call[c] EXCEPT
                    !.pc = IF call[c].release = "settled" THEN "failed"
                           ELSE "releasing",
                    !.release = IF call[c].release = "none" THEN "pending"
                                ELSE call[c].release]]
  BY <1>1 DEF Fail, TypeOK, CallStates
<1>. DEFINE after == [call[c] EXCEPT
                    !.pc = IF call[c].release = "settled" THEN "failed"
                           ELSE "releasing",
                    !.release = IF call[c].release = "none" THEN "pending"
                                ELSE call[c].release]
<1>3. after \in CallStates /\ after.pc \in {"failed", "releasing"}
  BY <1>1 DEF CallStates, Steps
<1>. QED
  BY <1>2, <1>3 DEF TypeOK

LEMMA GotoIsWellTyped ==
  ASSUME TypeOK, NEW c \in Calls, NEW pc \in Steps, Goto(c, pc)
  PROVE  /\ call' \in [Calls -> CallStates]
         /\ call'[c].pc = pc
<1>1. [call[c] EXCEPT !.pc = pc] \in CallStates
  BY DEF TypeOK, CallStates
<1>. QED
  BY <1>1 DEF Goto, TypeOK, CallStates

LEMMA ProceedIsWellTyped ==
  ASSUME TypeOK, NEW c \in Calls, NEW pc \in Steps, Proceed(c, pc)
  PROVE  /\ call' \in [Calls -> CallStates]
         /\ call'[c].pc \in {pc, "failed", "releasing"}
  BY FailIsWellTyped, GotoIsWellTyped DEF Proceed

\* The steps that settle a release: it landed, or the store failed it.
LEMMA SettledIsWellTyped ==
  ASSUME TypeOK, NEW c \in Calls,
         call' = [call EXCEPT ![c].release = "settled",
                              ![c].pc = IF @ = "releasing" THEN "failed" ELSE @]
  PROVE  call' \in [Calls -> CallStates] /\ call'[c].release = "settled"
<1>1. call[c] \in CallStates
  BY DEF TypeOK
<1>. DEFINE after == [call[c] EXCEPT !.release = "settled",
                        !.pc = IF @ = "releasing" THEN "failed" ELSE @]
<1>2. after \in CallStates /\ after.release = "settled"
  BY <1>1 DEF CallStates, Steps
<1>3. call' = [call EXCEPT ![c] = after]
  BY <1>1 DEF TypeOK, CallStates
<1>. QED
  BY <1>2, <1>3 DEF TypeOK

LEMMA RowsWellTyped ==
  \A c \in Calls : Claimed(c) \in Rows /\ Committed(c) \in Rows /\ Absent \in Rows
  BY DurationsAssumption DEF Claimed, Committed, Absent, Rows, RowStates

LEMMA LessIsNat == \A n \in Nat : Less(n) \in Nat /\ Less(n) <= n
  BY DEF Less

\* A row whose acceptance still binds is not collected.
LEMMA BoundRowIsKept ==
  ASSUME Invariant, NEW r \in Receipts, spent[r] > 0
  PROVE  /\ Collected[r] = rows[r]
         /\ Collected[r].state = "COMMITTED"
         /\ Collected[r] # Absent
<1>1. rows[r].left > 0
  BY DEF Invariant, TypeOK, Rows, AcceptanceIsRemembered
<1>2. rows[r].state = "COMMITTED"
  BY DEF Invariant, AcceptanceIsRemembered
<1>. QED
  BY <1>1, <1>2, CollectedKeepsLiveRows DEF Invariant, Absent

\* Collecting, as every transaction does, keeps the bound rows.
LEMMA CollectingRemembers ==
  ASSUME Invariant, rows' = Collected, UNCHANGED spent
  PROVE  AcceptanceIsRemembered'
  BY BoundRowIsKept DEF AcceptanceIsRemembered, Invariant

\* So does replacing a row whose acceptance does not bind.
LEMMA StoringRemembers ==
  ASSUME Invariant, NEW c \in Calls, NEW row \in Rows, Store(c, row),
         UNCHANGED spent, Collected[call[c].receipt].state # "COMMITTED"
  PROVE  AcceptanceIsRemembered'
<1>1. SUFFICES ASSUME NEW r \in Receipts, spent[r] > 0
               PROVE  rows'[r] = rows[r]
  BY DEF AcceptanceIsRemembered, Invariant
<1>2. r # call[c].receipt
  BY <1>1, BoundRowIsKept
<1>. QED
  BY <1>1, <1>2, BoundRowIsKept, StoreChangesOneRow DEF Invariant

-----------------------------------------------------------------------------

LEMMA InitInvariant == Init => Invariant
<1>. SUFFICES ASSUME Init PROVE Invariant
  OBVIOUS
<1>1. rows \in [Receipts -> Rows]
  BY DEF Init, Absent, Rows, RowStates
<1>2. call \in [Calls -> CallStates]
  <2>1. \A r \in Receipts : [pc |-> "idle", receipt |-> r, timedOut |-> FALSE,
                             release |-> "none"] \in CallStates
    BY DEF CallStates, Steps
  <2>. QED
    BY <2>1 DEF Init
<1>3. spent \in [Receipts -> Nat] /\ \A r \in Receipts : ~ (spent[r] > 0)
  BY DEF Init
<1>. QED
  BY <1>1, <1>2, <1>3 DEF Invariant, TypeOK, AcceptanceIsRemembered

LEMMA NextInvariant == Invariant /\ [Next]_vars => Invariant'
<1>. SUFFICES ASSUME Invariant, [Next]_vars PROVE Invariant'
  OBVIOUS
<1>. USE DEF Invariant
<1>1. CASE UNCHANGED vars
  BY <1>1 DEF vars, TypeOK, AcceptanceIsRemembered
<1>2. CASE Tick
  <2>1. \A r \in Receipts : rows'[r] = [rows[r] EXCEPT !.left = Less(rows[r].left)]
    BY <1>2 DEF Tick
  <2>2. \A r \in Receipts : /\ rows'[r] \in Rows
                            /\ rows'[r].state = rows[r].state
                            /\ rows'[r].left = Less(rows[r].left)
    <3>. SUFFICES ASSUME NEW r \in Receipts
                  PROVE  /\ rows'[r] \in Rows
                         /\ rows'[r].state = rows[r].state
                         /\ rows'[r].left = Less(rows[r].left)
      OBVIOUS
    <3>1. rows[r] \in Rows
      BY DEF TypeOK
    <3>2. Less(rows[r].left) \in Nat
      BY <3>1, LessIsNat DEF Rows
    <3>. QED
      BY <2>1, <3>1, <3>2 DEF Rows
  <2>3. TypeOK'
    BY <1>2, <2>2, LessIsNat DEF Tick, TypeOK
  <2>4. AcceptanceIsRemembered'
    <3>. SUFFICES ASSUME NEW r \in Receipts, spent'[r] > 0
                  PROVE  rows'[r].state = "COMMITTED" /\ rows'[r].left >= spent'[r]
      BY DEF AcceptanceIsRemembered
    <3>1. spent'[r] = Less(spent[r])
      BY <1>2 DEF Tick
    <3>2. spent[r] \in Nat /\ rows[r].left \in Nat
      BY DEF TypeOK, Rows
    <3>3. spent[r] > 0
      BY <3>1, <3>2, LessIsNat
    <3>4. rows[r].state = "COMMITTED" /\ rows[r].left >= spent[r]
      BY <3>3 DEF AcceptanceIsRemembered
    <3>. QED
      BY <2>2, <3>1, <3>2, <3>3, <3>4 DEF Less
  <2>. QED
    BY <2>3, <2>4
<1>3. ASSUME NEW c \in Calls, CallStep(c) PROVE Invariant'
  <2>0. call[c].receipt \in Receipts
    BY DEF TypeOK, CallStates
  <2>1. CASE Begin(c)
    BY <2>1, GotoIsWellTyped DEF Begin, Steps, Awaiting, TypeOK, AcceptanceIsRemembered
  <2>2. CASE Claim(c)
    <3>1. TypeOK'
      BY <2>2, RowsWellTyped, StoreChangesOneRow, GotoIsWellTyped
         DEF Claim, TypeOK, Steps, Awaiting
    <3>2. Collected[call[c].receipt].state # "COMMITTED"
      BY <2>2 DEF Claim, Absent
    <3>. QED
      BY <2>2, <3>1, <3>2, RowsWellTyped, StoringRemembers DEF Claim
  <2>3. CASE ClaimRefused(c)
    <3>1. TypeOK'
      BY <2>3, CollectedKeepsLiveRows, GotoIsWellTyped DEF ClaimRefused, TypeOK, Steps
    <3>2. AcceptanceIsRemembered'
      BY <2>3, CollectingRemembers DEF ClaimRefused, AcceptanceIsRemembered
    <3>. QED
      BY <3>1, <3>2
  <2>4. CASE Renew(c)
    <3>1. TypeOK'
      BY <2>4, RowsWellTyped, StoreChangesOneRow, ProceedIsWellTyped
         DEF Renew, TypeOK, Steps, Awaiting
    <3>2. Collected[call[c].receipt].state # "COMMITTED"
      BY <2>4 DEF Renew, Pending
    <3>. QED
      BY <2>4, <3>1, <3>2, RowsWellTyped, StoringRemembers DEF Renew
  <2>5. CASE Verify(c)
    BY <2>5, ProceedIsWellTyped, FailIsWellTyped
       DEF Verify, Steps, Awaiting, TypeOK, AcceptanceIsRemembered
  <2>6. CASE Commit(c)
    <3>1. TypeOK'
      BY <2>6, RowsWellTyped, StoreChangesOneRow, ProceedIsWellTyped, DurationsAssumption
         DEF Commit, TypeOK, Steps
    <3>2. AcceptanceIsRemembered'
      <4>. SUFFICES ASSUME NEW r \in Receipts, spent'[r] > 0
                    PROVE  rows'[r].state = "COMMITTED" /\ rows'[r].left >= spent'[r]
        BY DEF AcceptanceIsRemembered
      <4>1. CASE r = call[c].receipt
        BY <2>6, <4>1, RowsWellTyped, StoreChangesOneRow, DurationsAssumption
           DEF Commit, Committed, TypeOK
      <4>2. CASE r # call[c].receipt
        <5>1. spent'[r] = spent[r] /\ rows'[r] = Collected[r]
          BY <2>6, <4>2, RowsWellTyped, StoreChangesOneRow DEF Commit, TypeOK
        <5>. QED
          BY <5>1, BoundRowIsKept DEF AcceptanceIsRemembered
      <4>. QED
        BY <4>1, <4>2
    <3>. QED
      BY <3>1, <3>2
  <2>7. CASE ClaimLost(c)
    BY <2>7, FailIsWellTyped DEF ClaimLost, TypeOK, AcceptanceIsRemembered
  <2>8. CASE Release(c)
    <3>1. call' \in [Calls -> CallStates]
      BY <2>8, SettledIsWellTyped DEF Release
    <3>2. CASE Pending(c)
      <4>1. Collected[call[c].receipt].state # "COMMITTED"
        BY <3>2 DEF Pending
      <4>2. Store(c, Absent) /\ UNCHANGED spent
        BY <2>8, <3>2 DEF Release
      <4>3. TypeOK'
        BY <3>1, <4>2, RowsWellTyped, StoreChangesOneRow DEF TypeOK
      <4>. QED
        BY <4>1, <4>2, <4>3, RowsWellTyped, StoringRemembers
    <3>3. CASE ~ Pending(c)
      <4>1. rows' = Collected /\ UNCHANGED spent
        BY <2>8, <3>3 DEF Release
      <4>2. TypeOK'
        BY <3>1, <4>1, CollectedKeepsLiveRows DEF TypeOK
      <4>. QED
        BY <4>1, <4>2, CollectingRemembers
    <3>. QED
      BY <3>2, <3>3
  <2>9. CASE StopWaiting(c)
    BY <2>9, GotoIsWellTyped DEF StopWaiting, Steps, TypeOK, AcceptanceIsRemembered
  <2>10. CASE StoreFault(c)
    <3>1. call' \in [Calls -> CallStates]
      BY <2>10, GotoIsWellTyped, FailIsWellTyped, SettledIsWellTyped
         DEF StoreFault, Steps
    <3>. QED
      BY <2>10, <3>1 DEF StoreFault, TypeOK, AcceptanceIsRemembered
  <2>11. CASE Timeout(c)
    <3>1. call[c] \in CallStates
      BY DEF TypeOK
    <3>. DEFINE after == [call[c] EXCEPT !.timedOut = TRUE,
                   !.release = IF call[c].pc = "claiming" THEN @ ELSE "pending"]
    <3>2. after \in CallStates
      BY <3>1 DEF CallStates
    <3>3. call' = [call EXCEPT ![c] = after]
      BY <2>11, <3>1 DEF Timeout, At, TypeOK, CallStates
    <3>. HIDE DEF after
    <3>4. call' \in [Calls -> CallStates] /\ UNCHANGED rows
      BY <2>11, <3>2, <3>3 DEF Timeout, TypeOK
    <3>. QED
      BY <2>11, <3>4 DEF Timeout, TypeOK, AcceptanceIsRemembered
  <2>12. CASE Crash(c)
    BY <2>12, GotoIsWellTyped DEF Crash, Steps, TypeOK, AcceptanceIsRemembered
  <2>. QED
    BY <1>3, <2>1, <2>2, <2>3, <2>4, <2>5, <2>6, <2>7, <2>8, <2>9, <2>10, <2>11,
       <2>12 DEF CallStep
<1>. QED
  BY <1>1, <1>2, <1>3 DEF Next

LEMMA InvariantHolds == Spec => []Invariant
  BY InitInvariant, NextInvariant, PTL DEF Spec

\* The store, the calls and the history stay well formed.
THEOREM ClaimsTypeCorrect == Spec => []TypeOK
<1>1. Invariant => TypeOK
  BY DEF Invariant
<1>. QED
  BY <1>1, InvariantHolds, PTL

\* An acceptance is remembered for the retention, whatever races with it.
THEOREM AcceptanceAlwaysRemembered == Spec => []AcceptanceIsRemembered
<1>1. Invariant => AcceptanceIsRemembered
  BY DEF Invariant
<1>. QED
  BY <1>1, InvariantHolds, PTL

\* A receipt is accepted at most once in a retention (receipt-store.ts:127-167).
THEOREM AcceptedOnce == Spec => ReceiptAcceptedOnce
<1>1. ASSUME Invariant, NEW r \in Receipts, Accepts(r) PROVE spent[r] = 0
  BY <1>1 DEF Accepts, Invariant, TypeOK, AcceptanceIsRemembered
<1>2. Invariant /\ [Next]_vars => [\A r \in Receipts : Accepts(r) => spent[r] = 0]_vars
  BY <1>1
<1>. QED
  BY <1>2, InvariantHolds, PTL DEF Spec, ReceiptAcceptedOnce

-----------------------------------------------------------------------------
(* Rows answer to their token.                                             *)

Answers(r) ==
  /\ rows[r].left > 0
  /\ \/ rows'[r].state # rows[r].state
     \/ rows'[r].token # rows[r].token
     \/ rows'[r].left > rows[r].left
  => call'[rows[r].token] # call[rows[r].token]

\* A step that only collects changes no row that has time left.
LEMMA UntouchedRowAnswers ==
  ASSUME TypeOK, NEW r \in Receipts, rows'[r] = Collected[r] \/ rows'[r] = rows[r]
  PROVE  Answers(r)
<1>1. rows[r].left \in Nat
  BY DEF TypeOK, Rows
<1>. QED
  BY <1>1, CollectedKeepsLiveRows DEF Answers

\* A transaction that writes a row writes its own claim, or an absent row.
LEMMA StoredRowAnswers ==
  ASSUME TypeOK, NEW c \in Calls, NEW row \in Rows, Store(c, row),
         Pending(c) \/ Collected[call[c].receipt] = Absent,
         call'[c] # call[c], NEW r \in Receipts
  PROVE  Answers(r)
<1>1. CASE r # call[c].receipt
  BY <1>1, StoreChangesOneRow, UntouchedRowAnswers
<1>2. CASE r = call[c].receipt
  <2>. SUFFICES ASSUME rows[r].left > 0 PROVE rows[r].token = c
    BY DEF Answers
  <2>1. Collected[r] = rows[r]
    BY CollectedKeepsLiveRows
  <2>2. rows[r] # Absent
    BY DEF Absent
  <2>. QED
    BY <1>2, <2>1, <2>2 DEF Pending
<1>. QED
  BY <1>1, <1>2

\* A row that has not run out changes hands, or gets more time, only by a step
\* of the call whose token it carries.
THEOREM RowsAlwaysAnswer == Spec => RowsAnswerToTheirToken
<1>1. ASSUME TypeOK, [Next]_vars, NEW r \in Receipts PROVE Answers(r)
  <2>1. CASE UNCHANGED vars
    BY <1>1, <2>1, UntouchedRowAnswers DEF vars
  <2>2. CASE Tick
    <3>1. rows[r] \in Rows
      BY <1>1 DEF TypeOK
    <3>2. rows'[r] = [rows[r] EXCEPT !.left = Less(rows[r].left)]
      BY <2>2 DEF Tick
    <3>3. /\ rows'[r].state = rows[r].state
          /\ rows'[r].token = rows[r].token
          /\ rows'[r].left = Less(rows[r].left)
      BY <3>1, <3>2 DEF Rows
    <3>4. Less(rows[r].left) <= rows[r].left /\ Less(rows[r].left) \in Nat
      BY <3>1, LessIsNat DEF Rows
    <3>5. ~ (rows'[r].left > rows[r].left)
      BY <3>1, <3>3, <3>4 DEF Rows
    <3>. QED
      BY <3>3, <3>5 DEF Answers
  <2>3. ASSUME NEW c \in Calls, CallStep(c) PROVE Answers(r)
    <3>1. CASE UNCHANGED rows \/ rows' = Collected
      BY <1>1, <3>1, UntouchedRowAnswers
    <3>2. CASE Claim(c)
      <4>1. call'[c].pc # "claiming"
        BY <1>1, <3>2, GotoIsWellTyped DEF Claim, Steps, Awaiting
      <4>2. call'[c] # call[c]
        BY <3>2, <4>1 DEF Claim, At
      <4>. QED
        BY <1>1, <3>2, <4>2, RowsWellTyped, StoredRowAnswers DEF Claim
    <3>3. CASE Renew(c)
      <4>1. call'[c].pc # "renewing"
        BY <1>1, <3>3, ProceedIsWellTyped DEF Renew, Steps, Awaiting
      <4>2. call'[c] # call[c]
        BY <3>3, <4>1 DEF Renew, At
      <4>. QED
        BY <1>1, <3>3, <4>2, RowsWellTyped, StoredRowAnswers DEF Renew
    <3>4. CASE Commit(c)
      <4>1. call'[c].pc # "committing"
        BY <1>1, <3>4, ProceedIsWellTyped DEF Commit, Steps
      <4>2. call'[c] # call[c]
        BY <3>4, <4>1 DEF Commit, At
      <4>. QED
        BY <1>1, <3>4, <4>2, RowsWellTyped, StoredRowAnswers DEF Commit
    <3>5. CASE Release(c) /\ Pending(c)
      <4>1. call'[c].release = "settled"
        BY <1>1, <3>5, SettledIsWellTyped DEF Release
      <4>2. call'[c] # call[c]
        BY <3>5, <4>1 DEF Release
      <4>. QED
        BY <1>1, <3>5, <4>2, RowsWellTyped, StoredRowAnswers DEF Release
    <3>. QED
      BY <2>3, <3>1, <3>2, <3>3, <3>4, <3>5
         DEF CallStep, Begin, ClaimRefused, Verify, ClaimLost, Release, StopWaiting,
             StoreFault, Timeout, Crash
  <2>. QED
    BY <1>1, <2>1, <2>2, <2>3 DEF Next
<1>2. TypeOK /\ [Next]_vars => [\A r \in Receipts : Answers(r)]_vars
  BY <1>1
<1>3. [\A r \in Receipts : Answers(r)]_vars
      <=> [\A r \in Receipts :
             /\ rows[r].left > 0
             /\ \/ rows'[r].state # rows[r].state
                \/ rows'[r].token # rows[r].token
                \/ rows'[r].left > rows[r].left
             => call'[rows[r].token] # call[rows[r].token]]_vars
  BY DEF Answers
<1>. QED
  BY <1>2, <1>3, ClaimsTypeCorrect, PTL DEF Spec, RowsAnswerToTheirToken

-----------------------------------------------------------------------------
(* The upload journal.                                                      *)

Held(entry) == entry.status \in {"SUBMITTED", "FINALIZED"}

\* A journaled transaction is one of this root that was heard of, and final
\* means mined.
EntryOK(r) ==
    LET entry == journal[r]
    IN  /\ Held(entry) <=> entry.tx # NoTx
        /\ Held(entry) => flow[entry.tx].root = r /\ flow[entry.tx].heard
        /\ entry.status = "FINALIZED" => flow[entry.tx].state = "mined"

TxOK(t) ==
    /\ flow[t].state = "unused" => flow[t].root = NoRoot
    /\ flow[t].heard => /\ flow[t].root # NoRoot
                        /\ journal[flow[t].root].tx = t /\ Held(journal[flow[t].root])

\* What the await of a call says of the journal file of its root.
CallOK(c) ==
    LET w == upload[c]
    IN  /\ w.pc = "idle" <=> w.root = NoRoot
        /\ w.pc \in {"preparing", "uploading", "sent"} => ~Held(journal[w.root])
        /\ w.pc = "sent" => w.tx # NoTx /\ flow[w.tx].root = w.root
        /\ w.pc = "draining" => journal[w.root] = [status |-> "SUBMITTED", tx |-> w.tx]
        /\ w.pc = "confirming" => Held(journal[w.root]) /\ journal[w.root].tx = w.tx
        /\ w.pc = "retrieving" \/ w.ok => journal[w.root] = [status |-> "FINALIZED", tx |-> w.tx]
        /\ w.ok => w.pc = "cleaning"

OneCall == \A c, d \in Uploads : Root(c) = Root(d) /\ Root(c) # NoRoot => c = d

UploadInv ==
    /\ UploadTypeOK
    /\ \A r \in Roots : EntryOK(r)
    /\ \A t \in Txs : TxOK(t)
    /\ \A c \in Uploads : CallOK(c)
    /\ OneCall
    /\ CommitmentIsFinal

-----------------------------------------------------------------------------
(* A step touches one call, one entry, one transaction at most.            *)

\* Whose root a call works on, and that the calls of other roots are others.
LEMMA OwnRoot ==
    ASSUME UploadInv, NEW c \in Uploads, upload[c].pc # "idle"
    PROVE  /\ upload[c] \in UploadState /\ upload[c].root \in Roots
           /\ journal[upload[c].root] \in Entry /\ EntryOK(upload[c].root)
           /\ \A d \in Uploads \ {c} : upload[d].root # upload[c].root
BY UploadAssumption DEF UploadInv, UploadTypeOK, UploadState, CallOK, OneCall, Root

\* A call goes on or ends, and leaves the journal and the network alone.
LEMMA CallMoves ==
    ASSUME UploadInv, NEW c \in Uploads, NEW w \in UploadState,
           upload' = [upload EXCEPT ![c] = w],
           w.root = NoRoot \/ \A d \in Uploads \ {c} : upload[d].root # w.root,
           CallOK(c)', UNCHANGED <<journal, flow, stored, committed, crashes>>
    PROVE  UploadInv'
<1>0. upload \in [Uploads -> UploadState]
  BY DEF UploadInv, UploadTypeOK
<1>1. UploadTypeOK' /\ OneCall'
  BY <1>0 DEF UploadInv, UploadTypeOK, OneCall, Root
<1>2. \A d \in Uploads : CallOK(d)'
  BY <1>0 DEF UploadInv, CallOK
<1>3. (\A r \in Roots : EntryOK(r)') /\ (\A t \in Txs : TxOK(t)') /\ CommitmentIsFinal'
  BY DEF UploadInv, EntryOK, TxOK, CommitmentIsFinal
<1>. QED
  BY <1>1, <1>2, <1>3 DEF UploadInv

\* A call writes the entry of its root, and may make a transaction of its root heard.
LEMMA CallRecords ==
    ASSUME UploadInv, NEW c \in Uploads, upload[c].pc # "idle",
           NEW w \in UploadState, upload' = [upload EXCEPT ![c] = w], w.root = upload[c].root,
           NEW entry \in Entry, journal' = [journal EXCEPT ![upload[c].root] = entry],
           Held(entry) <=> entry.tx # NoTx,
           Held(journal[upload[c].root]) => Held(entry) /\ entry.tx = journal[upload[c].root].tx,
           Held(entry) => flow[entry.tx].root = upload[c].root,
           entry.status = "FINALIZED" => flow[entry.tx].state = "mined",
           journal[upload[c].root].status = "FINALIZED" => entry = journal[upload[c].root],
           flow' \in [Txs -> FlowTx],
           \A t \in Txs : /\ flow'[t].root = flow[t].root /\ flow'[t].state = flow[t].state
                          /\ flow'[t].heard <=> flow[t].heard \/ t = entry.tx,
           CallOK(c)', UNCHANGED <<stored, committed, crashes>>
    PROVE  UploadInv'
<1>. DEFINE r == upload[c].root
<1>0. /\ upload \in [Uploads -> UploadState] /\ journal \in [Roots -> Entry]
      /\ flow \in [Txs -> FlowTx] /\ committed \in [Roots -> Txs \cup {NoTx}]
  BY DEF UploadInv, UploadTypeOK
<1>1. r \in Roots /\ \A d \in Uploads \ {c} : upload[d].root # r
  BY OwnRoot
<1>2. journal'[r] = entry /\ \A q \in Roots \ {r} : journal'[q] = journal[q]
  BY <1>0, <1>1
<1>3. \A t \in Txs : /\ flow'[t].root = flow[t].root /\ flow'[t].state = flow[t].state
                     /\ flow'[t].heard <=> flow[t].heard \/ t = entry.tx
  OBVIOUS
<1>5. UploadTypeOK' /\ OneCall'
  BY <1>0, <1>1 DEF UploadInv, UploadTypeOK, OneCall, Root
<1>6. ASSUME NEW q \in Roots
      PROVE  EntryOK(q)'
  <2>1. EntryOK(q) /\ journal[q].tx \in Txs \cup {NoTx} /\ entry.tx \in Txs \cup {NoTx}
    BY <1>0 DEF UploadInv, Entry
  <2>2. CASE q = r
    <3>1. Held(entry) => entry.tx \in Txs
      BY <2>1
    <3>2. Held(entry) => flow'[entry.tx].root = q /\ flow'[entry.tx].heard
      BY <1>3, <2>2, <3>1
    <3>3. entry.status = "FINALIZED" => flow'[entry.tx].state = "mined"
      BY <1>3, <3>1 DEF Held
    <3>. QED
      BY <1>2, <2>2, <3>2, <3>3 DEF EntryOK, Held
  <2>3. CASE q # r
    <3>1. Held(journal[q]) => journal[q].tx \in Txs
      BY <2>1 DEF EntryOK
    <3>2. Held(journal[q]) => flow'[journal[q].tx].root = q /\ flow'[journal[q].tx].heard
      BY <1>3, <2>1, <3>1 DEF EntryOK
    <3>3. journal[q].status = "FINALIZED" => flow'[journal[q].tx].state = "mined"
      BY <1>3, <2>1, <3>1 DEF EntryOK, Held
    <3>. QED
      BY <1>2, <2>1, <2>3, <3>2, <3>3 DEF EntryOK, Held
  <2>. QED
    BY <2>2, <2>3
<1>7. ASSUME NEW t \in Txs
      PROVE  TxOK(t)'
  <2>1. TxOK(t) /\ flow[t].root \in Roots \cup {NoRoot}
    BY <1>0 DEF UploadInv, FlowTx
  <2>2. CASE t = entry.tx
    BY <1>1, <1>2, <1>3, <2>1, <2>2, UploadAssumption DEF TxOK, Held
  <2>3. CASE t # entry.tx
    <3>1. flow'[t].heard => /\ flow[t].heard /\ flow[t].root \in Roots
                            /\ journal[flow[t].root].tx = t /\ Held(journal[flow[t].root])
      BY <1>3, <2>1, <2>3 DEF TxOK
    <3>2. flow'[t].heard => flow[t].root # r
      BY <2>3, <3>1
    <3>3. flow'[t].heard => journal'[flow'[t].root] = journal[flow[t].root]
      BY <1>2, <1>3, <3>1, <3>2
    <3>. QED
      BY <1>3, <2>1, <3>1, <3>3, UploadAssumption DEF TxOK, Held
  <2>. QED
    BY <2>2, <2>3
<1>8. ASSUME NEW d \in Uploads
      PROVE  CallOK(d)'
  <2>1. CASE d = c
    BY <2>1
  <2>2. CASE d # c
    <3>1. upload'[d] = upload[d] /\ upload[d].root # r /\ CallOK(d)
      BY <1>0, <1>1, <2>2 DEF UploadInv
    <3>2. upload[d].root \in Roots \cup {NoRoot} /\ upload[d].tx \in Txs \cup {NoTx}
      BY <1>0 DEF UploadState
    <3>3. upload[d].root \in Roots => journal'[upload[d].root] = journal[upload[d].root]
      BY <1>2, <3>1
    <3>4. upload[d].tx \in Txs => flow'[upload[d].tx].root = flow[upload[d].tx].root
      BY <1>3
    <3>. QED
      BY <3>1, <3>2, <3>3, <3>4, UploadAssumption DEF CallOK
  <2>. QED
    BY <2>1, <2>2
<1>9. CommitmentIsFinal'
  <2>. SUFFICES ASSUME NEW q \in Roots, committed[q] # NoTx
                PROVE  /\ journal'[q] = [status |-> "FINALIZED", tx |-> committed[q]]
                       /\ flow'[committed[q]].root = q /\ flow'[committed[q]].state = "mined"
    BY DEF CommitmentIsFinal
  <2>1. /\ journal[q] = [status |-> "FINALIZED", tx |-> committed[q]]
        /\ flow[committed[q]].root = q /\ flow[committed[q]].state = "mined"
        /\ committed[q] \in Txs
    BY <1>0 DEF UploadInv, CommitmentIsFinal
  <2>. QED
    BY <1>2, <1>3, <2>1
<1>. QED
  BY <1>5, <1>6, <1>7, <1>8, <1>9 DEF UploadInv

\* The network moves on: what was mined stays mined.
LEMMA FlowMoves ==
    ASSUME UploadInv, flow' \in [Txs -> FlowTx],
           stored' \in [Roots -> {"absent", "exact", "other"}],
           \A t \in Txs : /\ flow'[t].root = flow[t].root
                          /\ flow'[t].heard <=> flow[t].heard
                          /\ flow'[t].state = flow[t].state
                             \/ (flow[t].state = "pending" /\ flow'[t].state # "unused"),
           UNCHANGED <<journal, upload, committed, crashes>>
    PROVE  UploadInv'
<1>0. /\ upload \in [Uploads -> UploadState] /\ journal \in [Roots -> Entry]
      /\ flow \in [Txs -> FlowTx] /\ committed \in [Roots -> Txs \cup {NoTx}]
  BY DEF UploadInv, UploadTypeOK
<1>1. UploadTypeOK' /\ OneCall'
  BY DEF UploadInv, UploadTypeOK, OneCall, Root
<1>2. ASSUME NEW r \in Roots
      PROVE  EntryOK(r)'
  <2>1. EntryOK(r) /\ journal[r].tx \in Txs \cup {NoTx}
    BY <1>0 DEF UploadInv, Entry
  <2>. QED
    BY <2>1 DEF EntryOK, Held
<1>3. ASSUME NEW t \in Txs
      PROVE  TxOK(t)'
  BY DEF UploadInv, TxOK, Held
<1>4. ASSUME NEW c \in Uploads
      PROVE  CallOK(c)'
  <2>1. CallOK(c) /\ upload[c].tx \in Txs \cup {NoTx}
    BY <1>0 DEF UploadInv, UploadState
  <2>. QED
    BY <2>1 DEF CallOK, Held
<1>5. CommitmentIsFinal'
  BY <1>0 DEF UploadInv, CommitmentIsFinal
<1>. QED
  BY <1>1, <1>2, <1>3, <1>4, <1>5 DEF UploadInv

\* Whatever the call waited for, it may fail.
LEMMA FailKeeps ==
    ASSUME UploadInv, NEW c \in Uploads, upload[c].pc # "idle", FailUpload(c),
           UNCHANGED <<journal, flow, stored, committed, crashes>>
    PROVE  UploadInv'
<1>. DEFINE w == [upload[c] EXCEPT !.pc = "cleaning", !.ok = FALSE]
<1>1. /\ upload[c].root \in Roots /\ \A d \in Uploads \ {c} : upload[d].root # upload[c].root
      /\ upload[c] \in UploadState /\ upload \in [Uploads -> UploadState]
  BY OwnRoot DEF UploadInv, UploadTypeOK
<1>2. w \in UploadState /\ w.pc = "cleaning" /\ ~w.ok /\ w.root = upload[c].root
  BY <1>1 DEF UploadState, Pcs
<1>3. upload' = [upload EXCEPT ![c] = w]
  BY <1>1 DEF FailUpload
<1>. HIDE DEF w
<1>4. CallOK(c)'
  BY <1>1, <1>2, <1>3, UploadAssumption DEF CallOK
<1>. QED
  BY <1>1, <1>2, <1>3, <1>4, CallMoves

LEMMA StagesKeep ==
    ASSUME UploadInv, NEW c \in Uploads,
           \/ \E r \in Roots : BeginUpload(c, r)
           \/ ResolveUpload(c) \/ FinalizeFails(c) \/ VerifyRetrieved(c) \/ StageFails(c)
    PROVE  UploadInv'
<1>0. upload \in [Uploads -> UploadState] /\ CallOK(c) /\ upload[c] \in UploadState
  BY DEF UploadInv, UploadTypeOK
<1>1. ASSUME NEW w \in UploadState, upload' = [upload EXCEPT ![c] = w]
      PROVE  upload'[c] = w
  BY <1>0, <1>1
<1>2. ASSUME NEW r \in Roots, BeginUpload(c, r)
      PROVE  UploadInv'
  <2>. DEFINE w == [Idle EXCEPT !.pc = "staging", !.root = r]
  <2>1. w \in UploadState /\ w.pc = "staging" /\ ~w.ok /\ w.root = r
    BY DEF Idle, UploadState, Pcs
  <2>2. upload' = [upload EXCEPT ![c] = w] /\ UNCHANGED <<journal, flow, stored, committed, crashes>>
    BY <1>2 DEF BeginUpload
  <2>. HIDE DEF w
  <2>3. CallOK(c)'
    BY <1>1, <2>1, <2>2, UploadAssumption DEF CallOK
  <2>4. \A d \in Uploads \ {c} : upload[d].root # w.root
    BY <1>2, <2>1 DEF BeginUpload, Root
  <2>. QED
    BY <2>1, <2>2, <2>3, <2>4, CallMoves
<1>3. CASE ResolveUpload(c)
  <2>. DEFINE entry == journal[upload[c].root]
              w == [upload[c] EXCEPT
                      !.pc = IF Reusable(entry) THEN "confirming" ELSE "preparing",
                      !.tx = IF Reusable(entry) THEN entry.tx ELSE NoTx]
  <2>1. upload[c].pc = "staging" /\ UNCHANGED <<journal, flow, stored, committed, crashes>>
    BY <1>3 DEF ResolveUpload, AtAwait
  <2>2. /\ entry \in Entry /\ EntryOK(upload[c].root) /\ upload[c].root \in Roots
        /\ \A d \in Uploads \ {c} : upload[d].root # upload[c].root
    BY <2>1, OwnRoot
  <2>3. Reusable(entry) <=> Held(entry)
    BY <2>2 DEF EntryOK, Reusable, Held, Entry
  <2>4. /\ w \in UploadState /\ w.root = upload[c].root /\ ~w.ok
        /\ IF Held(entry) THEN w.pc = "confirming" /\ w.tx = entry.tx ELSE w.pc = "preparing"
    BY <1>0, <2>1, <2>2, <2>3 DEF UploadState, Pcs, Entry, CallOK
  <2>5. upload' = [upload EXCEPT ![c] = w]
    BY <1>0, <1>3 DEF ResolveUpload, Root
  <2>. HIDE DEF w
  <2>6. CallOK(c)'
    BY <1>1, <2>1, <2>2, <2>4, <2>5, UploadAssumption DEF CallOK
  <2>. QED
    BY <2>1, <2>2, <2>4, <2>5, <2>6, CallMoves
<1>4. CASE VerifyRetrieved(c)
  <2>. DEFINE w == [upload[c] EXCEPT !.pc = "cleaning", !.ok = Retrieved(c)]
  <2>1. upload[c].pc = "retrieving" /\ UNCHANGED <<journal, flow, stored, committed, crashes>>
    BY <1>4 DEF VerifyRetrieved, AtAwait
  <2>2. upload[c].root \in Roots /\ \A d \in Uploads \ {c} : upload[d].root # upload[c].root
    BY <2>1, OwnRoot
  <2>3. w \in UploadState /\ w.root = upload[c].root /\ w.tx = upload[c].tx /\ w.pc = "cleaning"
    BY <1>0 DEF UploadState, Pcs, Retrieved
  <2>4. upload' = [upload EXCEPT ![c] = w]
    BY <1>0, <1>4 DEF VerifyRetrieved
  <2>. HIDE DEF w
  <2>5. CallOK(c)'
    BY <1>0, <1>1, <2>1, <2>2, <2>3, <2>4, UploadAssumption DEF CallOK
  <2>. QED
    BY <2>1, <2>2, <2>3, <2>4, <2>5, CallMoves
<1>5. CASE FinalizeFails(c) \/ StageFails(c)
  BY <1>5, FailKeeps DEF FinalizeFails, StageFails, AtAwait
<1>. QED
  BY <1>2, <1>3, <1>4, <1>5

LEMMA RecordsKeep ==
    ASSUME UploadInv, NEW c \in Uploads,
           \/ RecordPrepared(c) \/ RecordBroadcast(c) \/ ValidateUpload(c) \/ FinalizeUpload(c)
    PROVE  UploadInv'
<1>. DEFINE r == upload[c].root
            t == upload[c].tx
            old == journal[r]
<1>0. /\ upload \in [Uploads -> UploadState] /\ CallOK(c) /\ flow \in [Txs -> FlowTx]
      /\ journal \in [Roots -> Entry] /\ upload[c].pc # "idle"
      /\ UNCHANGED <<stored, committed, crashes>>
  BY DEF UploadInv, UploadTypeOK, RecordPrepared, RecordBroadcast, ValidateUpload, FinalizeUpload, AtAwait
<1>1. upload[c] \in UploadState /\ r \in Roots /\ old \in Entry /\ EntryOK(r)
  BY <1>0, OwnRoot
\* The call moves to pc, the entry becomes (status, x).
<1>2. ASSUME NEW pc \in {"uploading", "draining", "confirming", "retrieving"}, Move(c, pc),
             NEW x \in Txs \cup {NoTx}, NEW status \in {"PREPARED", "SUBMITTED", "FINALIZED"},
             Record(r, status, x),
             status = "PREPARED" <=> x = NoTx,
             x # NoTx => x = t /\ flow[x].root = r,
             ~Held(old) \/ (x = old.tx /\ x # NoTx),
             status = "FINALIZED" => flow[x].state = "mined",
             old.status = "FINALIZED" => status = "FINALIZED" /\ x = old.tx,
             pc = "uploading" => status = "PREPARED",
             pc = "draining" => status = "SUBMITTED",
             pc = "confirming" => status # "PREPARED",
             pc = "retrieving" => status = "FINALIZED",
             ~upload[c].ok,
             flow' \in [Txs -> FlowTx],
             \A y \in Txs : /\ flow'[y].root = flow[y].root /\ flow'[y].state = flow[y].state
                            /\ flow'[y].heard <=> flow[y].heard \/ y = x
      PROVE  UploadInv'
  <2>. DEFINE w == [upload[c] EXCEPT !.pc = pc]
              entry == [status |-> status, tx |-> x]
  <2>1. /\ w \in UploadState /\ w.root = r /\ w.tx = t /\ w.pc = pc /\ ~w.ok
        /\ upload' = [upload EXCEPT ![c] = w]
    BY <1>0, <1>1, <1>2 DEF UploadState, Pcs, Move
  <2>2. /\ entry \in Entry /\ entry.status = status /\ entry.tx = x
        /\ journal' = [journal EXCEPT ![r] = entry]
    BY <1>2 DEF Entry, Record
  <2>3. /\ Held(entry) <=> entry.tx # NoTx
        /\ Held(old) => Held(entry) /\ entry.tx = old.tx
        /\ Held(entry) => flow[entry.tx].root = r
        /\ old.status = "FINALIZED" => entry = old
    BY <1>1, <1>2, <2>2 DEF Held, Entry
  <2>4. upload'[c] = w /\ journal'[r] = entry
    BY <1>0, <1>1, <2>1, <2>2
  <2>. HIDE DEF w
  <2>5. CallOK(c)'
    BY <1>1, <1>2, <2>1, <2>2, <2>3, <2>4, UploadAssumption DEF CallOK, Held
  <2>6. /\ entry.status = "FINALIZED" => flow[entry.tx].state = "mined"
        /\ \A y \in Txs : /\ flow'[y].root = flow[y].root /\ flow'[y].state = flow[y].state
                          /\ flow'[y].heard <=> flow[y].heard \/ y = entry.tx
    BY <1>2, <2>2
  <2>. HIDE DEF entry
  <2>. QED
    BY <1>0, <1>2, <2>1, <2>2, <2>3, <2>5, <2>6, CallRecords
<1>3. CASE RecordPrepared(c)
  <2>1. /\ upload[c].pc = "preparing" /\ Record(r, "PREPARED", NoTx) /\ Move(c, "uploading")
        /\ flow' = flow
    BY <1>3 DEF RecordPrepared, AtAwait, Root
  <2>2. ~Held(old) /\ ~upload[c].ok
    BY <1>0, <2>1 DEF CallOK
  <2>3. \A y \in Txs : y # NoTx
    BY UploadAssumption
  <2>. QED
    BY <1>0, <1>2, <2>1, <2>2, <2>3 DEF Held
<1>4. CASE RecordBroadcast(c)
  <2>1. /\ upload[c].pc = "sent" /\ Record(r, "SUBMITTED", t) /\ Move(c, "draining")
    BY <1>4 DEF RecordBroadcast, AtAwait, Root
  <2>2. ~Held(old) /\ ~upload[c].ok /\ t \in Txs /\ flow[t].root = r
    BY <1>0, <1>1, <2>1 DEF CallOK, UploadState
  <2>3. /\ flow' \in [Txs -> FlowTx]
        /\ \A y \in Txs : /\ flow'[y].root = flow[y].root /\ flow'[y].state = flow[y].state
                          /\ flow'[y].heard <=> flow[y].heard \/ y = t
    BY ZenonT(40), <1>0, <1>4, <2>2 DEF RecordBroadcast, FlowTx
  <2>4. t # NoTx /\ old.status # "FINALIZED"
    BY <2>2, UploadAssumption DEF Held
  <2>. QED
    BY <1>2, <2>1, <2>2, <2>3, <2>4
<1>5. CASE ValidateUpload(c)
  <2>1. /\ upload[c].pc = "draining" /\ Record(r, "SUBMITTED", t) /\ Move(c, "confirming")
    BY <1>5 DEF ValidateUpload, AtAwait, Root
  <2>2. ~upload[c].ok /\ old.status = "SUBMITTED" /\ old.tx = t
    BY <1>0, <2>1 DEF CallOK
  <2>3. t # NoTx /\ t \in Txs /\ flow[t].root = r
    BY <1>1, <2>2 DEF EntryOK, Held, Entry
  <2>4. /\ flow' \in [Txs -> FlowTx]
        /\ \A y \in Txs : /\ flow'[y].root = flow[y].root /\ flow'[y].state = flow[y].state
                          /\ flow'[y].heard <=> flow[y].heard \/ y = t
    BY <1>0, <1>5, <2>3 DEF ValidateUpload, FlowTx
  <2>. QED
    BY <1>2, <2>1, <2>2, <2>3, <2>4
<1>6. CASE FinalizeUpload(c)
  <2>1. /\ upload[c].pc = "confirming" /\ Record(r, "FINALIZED", t) /\ Move(c, "retrieving")
        /\ flow[t].state = "mined" /\ flow' = flow
    BY <1>6 DEF FinalizeUpload, ReceiptValid, AtAwait, Root
  <2>2. ~upload[c].ok /\ Held(old) /\ old.tx = t
    BY <1>0, <2>1 DEF CallOK
  <2>3. t # NoTx /\ t \in Txs /\ flow[t].root = r /\ flow[t].heard
    BY <1>1, <2>2 DEF EntryOK, Entry
  <2>4. \A y \in Txs : flow'[y].heard <=> flow[y].heard \/ y = t
    BY <2>1, <2>3
  <2>. QED
    BY <1>0, <1>2, <2>1, <2>2, <2>3, <2>4
<1>. QED
  BY <1>3, <1>4, <1>5, <1>6

\* A transaction the network has not seen yet is nobody's.
LEMMA SendKeeps ==
    ASSUME UploadInv, NEW c \in Uploads, NEW t \in Txs, SdkUpload(c, t)
    PROVE  UploadInv'
<1>. DEFINE r == upload[c].root
            sent == [root |-> r, heard |-> FALSE, data |-> FALSE, state |-> "pending"]
            w == [upload[c] EXCEPT !.pc = "sent", !.tx = t]
<1>0. /\ upload \in [Uploads -> UploadState] /\ journal \in [Roots -> Entry]
      /\ flow \in [Txs -> FlowTx] /\ committed \in [Roots -> Txs \cup {NoTx}]
      /\ upload[c].pc = "uploading" /\ flow[t].state = "unused"
      /\ UNCHANGED <<journal, stored, committed, crashes>>
  BY DEF UploadInv, UploadTypeOK, SdkUpload, AtAwait
<1>1. /\ r \in Roots /\ upload[c] \in UploadState /\ CallOK(c)
      /\ \A d \in Uploads \ {c} : upload[d].root # r
  BY <1>0, OwnRoot DEF UploadInv
<1>2. /\ flow' = [flow EXCEPT ![t] = sent] /\ sent \in FlowTx
      /\ flow'[t] = sent /\ \A y \in Txs \ {t} : flow'[y] = flow[y]
  BY <1>0, <1>1 DEF SdkUpload, Root, FlowTx
<1>3. /\ w \in UploadState /\ w.root = r /\ w.tx = t /\ w.pc = "sent" /\ ~w.ok
      /\ upload' = [upload EXCEPT ![c] = w]
  BY <1>0, <1>1 DEF SdkUpload, UploadState, Pcs, CallOK
<1>. HIDE DEF w
<1>4. UploadTypeOK' /\ OneCall'
  BY <1>0, <1>2, <1>3 DEF UploadInv, UploadTypeOK, OneCall, Root
<1>5. flow[t].root = NoRoot
  BY <1>0 DEF UploadInv, TxOK
<1>6. ASSUME NEW q \in Roots
      PROVE  EntryOK(q)'
  <2>1. EntryOK(q) /\ journal[q].tx \in Txs \cup {NoTx}
    BY <1>0 DEF UploadInv, Entry
  <2>2. Held(journal[q]) => journal[q].tx \in Txs \ {t}
    BY <1>5, <2>1, UploadAssumption DEF EntryOK
  <2>. QED
    BY <1>0, <1>2, <2>1, <2>2 DEF EntryOK, Held
<1>7. ASSUME NEW y \in Txs
      PROVE  TxOK(y)'
  <2>1. CASE y = t
    BY <1>2, <2>1 DEF TxOK
  <2>2. CASE y # t
    BY <1>0, <1>2, <2>2 DEF UploadInv, TxOK, Held
  <2>. QED
    BY <2>1, <2>2
<1>8. ASSUME NEW d \in Uploads
      PROVE  CallOK(d)'
  <2>1. CASE d = c
    BY <1>0, <1>1, <1>2, <1>3, <2>1, UploadAssumption DEF CallOK, Held
  <2>2. CASE d # c
    <3>1. upload'[d] = upload[d] /\ CallOK(d) /\ upload[d].root \in Roots \cup {NoRoot}
      BY <1>0, <1>3, <2>2 DEF UploadInv, UploadState
    <3>2. upload[d].pc = "sent" => upload[d].tx \in Txs \ {t}
      BY <1>0, <1>5, <3>1, UploadAssumption DEF CallOK, UploadState
    <3>. QED
      BY <1>0, <1>2, <3>1, <3>2 DEF CallOK, Held
  <2>. QED
    BY <2>1, <2>2
<1>9. CommitmentIsFinal'
  <2>1. \A q \in Roots : committed[q] # NoTx => committed[q] \in Txs \ {t}
    BY <1>0, <1>5, UploadAssumption DEF UploadInv, CommitmentIsFinal
  <2>. QED
    BY <1>0, <1>2, <2>1 DEF UploadInv, CommitmentIsFinal
<1>. QED
  BY <1>4, <1>6, <1>7, <1>8, <1>9 DEF UploadInv

\* The caller gets what the journal holds as final.
LEMMA CleanupKeeps ==
    ASSUME UploadInv, NEW c \in Uploads, NEW removed \in BOOLEAN,
           Cleanup(c, removed)
    PROVE  UploadInv'
<1>. DEFINE r == upload[c].root
<1>0. /\ upload \in [Uploads -> UploadState] /\ committed \in [Roots -> Txs \cup {NoTx}]
      /\ journal \in [Roots -> Entry] /\ CallOK(c) /\ upload[c].pc = "cleaning"
      /\ upload' = [upload EXCEPT ![c] = Idle] /\ UNCHANGED <<journal, flow, stored, crashes>>
      /\ committed' = committed
         \/ (upload[c].ok /\ committed' = [committed EXCEPT ![r] = upload[c].tx])
  BY DEF UploadInv, UploadTypeOK, Cleanup, AtAwait, Root
<1>1. r \in Roots /\ EntryOK(r) /\ upload[c] \in UploadState
  BY <1>0, OwnRoot
<1>2. Idle \in UploadState /\ Idle.pc = "idle" /\ Idle.root = NoRoot /\ ~Idle.ok
  BY DEF Idle, UploadState, Pcs
<1>3. UploadTypeOK' /\ OneCall'
  BY <1>0, <1>1, <1>2 DEF UploadInv, UploadTypeOK, OneCall, Root, UploadState
<1>4. (\A q \in Roots : EntryOK(q)') /\ \A t \in Txs : TxOK(t)'
  BY <1>0 DEF UploadInv, EntryOK, TxOK
<1>5. \A d \in Uploads : CallOK(d)'
  BY <1>0, <1>2 DEF UploadInv, CallOK
<1>6. CommitmentIsFinal'
  <2>1. CASE committed' = committed
    BY <1>0, <2>1 DEF UploadInv, CommitmentIsFinal
  <2>2. CASE upload[c].ok /\ committed' = [committed EXCEPT ![r] = upload[c].tx]
    <3>1. journal[r] = [status |-> "FINALIZED", tx |-> upload[c].tx]
      BY <1>0, <2>2 DEF CallOK
    <3>2. flow[upload[c].tx].root = r /\ flow[upload[c].tx].state = "mined"
      BY <1>1, <3>1 DEF EntryOK, Held
    <3>. QED
      BY <1>0, <1>1, <2>2, <3>1, <3>2 DEF UploadInv, CommitmentIsFinal
  <2>. QED
    BY <1>0, <2>1, <2>2
<1>. QED
  BY <1>3, <1>4, <1>5, <1>6 DEF UploadInv

LEMMA NetworkKeeps ==
    ASSUME UploadInv,
           NetworkStep \/ \E c \in Uploads : SdkSegments(c)
    PROVE  UploadInv'
<1>0. /\ flow \in [Txs -> FlowTx] /\ upload \in [Uploads -> UploadState]
      /\ stored \in [Roots -> {"absent", "exact", "other"}]
  BY DEF UploadInv, UploadTypeOK
<1>1. ASSUME NEW t \in Txs, Mine(t) \/ \E how \in {"reverted", "dropped"} : Lose(t, how)
      PROVE  UploadInv'
  <2>1. PICK how \in {"mined", "reverted", "dropped"} :
          flow[t].state = "pending" /\ flow' = [flow EXCEPT ![t].state = how]
    BY <1>1 DEF Mine, Lose
  <2>2. /\ flow' \in [Txs -> FlowTx]
        /\ \A y \in Txs : /\ flow'[y].root = flow[y].root
                          /\ flow'[y].heard <=> flow[y].heard
                          /\ flow'[y].state = flow[y].state
                             \/ (flow[y].state = "pending" /\ flow'[y].state # "unused")
    BY <1>0, <2>1 DEF FlowTx
  <2>. QED
    BY <1>0, <1>1, <2>2, FlowMoves DEF Mine, Lose
<1>2. ASSUME NEW r \in Roots, NEW what \in {"exact", "other"}, Serve(r, what)
      PROVE  UploadInv'
  BY <1>0, <1>2, FlowMoves DEF Serve
<1>3. ASSUME NEW c \in Uploads, SdkSegments(c)
      PROVE  UploadInv'
  <2>1. flow' = [flow EXCEPT ![upload[c].tx].data = TRUE]
        /\ UNCHANGED <<journal, upload, stored, committed, crashes>>
    BY <1>3 DEF SdkSegments
  <2>0. upload[c].tx \in Txs
    <3>1. /\ upload[c].pc = "draining" /\ upload[c].root \in Roots /\ EntryOK(upload[c].root)
          /\ journal[upload[c].root] \in Entry /\ CallOK(c)
      BY <1>3, OwnRoot DEF SdkSegments, AtAwait, UploadInv
    <3>. QED
      BY <3>1 DEF CallOK, EntryOK, Held, Entry
  <2>2. /\ flow' \in [Txs -> FlowTx]
        /\ \A y \in Txs : /\ flow'[y].root = flow[y].root
                          /\ flow'[y].heard <=> flow[y].heard
                          /\ flow'[y].state = flow[y].state
    BY ZenonT(40), <1>0, <2>0, <2>1 DEF FlowTx
  <2>. QED
    BY <1>0, <2>1, <2>2, FlowMoves
<1>. QED
  BY <1>1, <1>2, <1>3 DEF NetworkStep

LEMMA CrashKeeps ==
    ASSUME UploadInv, UploadCrash
    PROVE  UploadInv'
<1>1. Idle \in UploadState /\ Idle.pc = "idle" /\ Idle.root = NoRoot /\ ~Idle.ok
  BY DEF Idle, UploadState, Pcs
<1>2. UploadTypeOK' /\ OneCall'
  BY <1>1, UploadAssumption DEF UploadCrash, UploadInv, UploadTypeOK, OneCall, Root
<1>3. \A c \in Uploads : CallOK(c)'
  BY <1>1 DEF UploadCrash, CallOK
<1>4. (\A r \in Roots : EntryOK(r)') /\ (\A t \in Txs : TxOK(t)') /\ CommitmentIsFinal'
  BY DEF UploadCrash, UploadInv, EntryOK, TxOK, CommitmentIsFinal
<1>. QED
  BY <1>2, <1>3, <1>4 DEF UploadInv

LEMMA StepKeeps ==
    ASSUME UploadInv, [UploadNext]_uploadVars
    PROVE  UploadInv'
<1>1. CASE UNCHANGED uploadVars
  <2>1. UploadTypeOK' /\ OneCall' /\ CommitmentIsFinal'
    BY <1>1 DEF uploadVars, UploadInv, UploadTypeOK, OneCall, Root, CommitmentIsFinal
  <2>. QED
    BY <1>1, <2>1 DEF uploadVars, UploadInv, EntryOK, TxOK, CallOK
<1>2. ASSUME NEW c \in Uploads, UploadStep(c)
      PROVE  UploadInv'
  BY <1>2, StagesKeep, RecordsKeep, SendKeeps, CleanupKeeps, NetworkKeeps DEF UploadStep
<1>. QED
  BY <1>1, <1>2, NetworkKeeps, CrashKeeps DEF UploadNext

LEMMA InitKeeps ==
    ASSUME UploadInit
    PROVE  UploadInv
<1>1. Idle \in UploadState /\ Idle.pc = "idle" /\ Idle.root = NoRoot /\ ~Idle.ok
  BY DEF Idle, UploadState, Pcs
<1>2. UploadTypeOK
  BY <1>1, UploadAssumption DEF UploadInit, UploadTypeOK, Entry, FlowTx
<1>. QED
  BY <1>1, <1>2 DEF UploadInit, UploadInv, EntryOK, TxOK, CallOK, Held, OneCall, Root, CommitmentIsFinal

-----------------------------------------------------------------------------
\* Every reachable state of the storage is typed and agrees with its journal.
THEOREM UploadInvariant == UploadSpec => []UploadInv
<1>1. UploadInit => UploadInv
  BY InitKeeps
<1>2. UploadInv /\ [UploadNext]_uploadVars => UploadInv'
  BY StepKeeps
<1>. QED
  BY <1>1, <1>2, PTL DEF UploadSpec

\* A broadcast that the journal took stays the journal's transaction of its root,
\* for any number of calls, retries and crashes (resolveUpload, storage.ts:335-342).
THEOREM BroadcastAlwaysKept == UploadSpec => []JournaledBroadcastIsKept
<1>1. UploadInv => JournaledBroadcastIsKept
  BY DEF UploadInv, TxOK, Held, JournaledBroadcastIsKept
<1>. QED
  BY <1>1, UploadInvariant, PTL

\* A commitment that reached a caller names a mined transaction of its root, the
\* one that the journal holds as final; as the journal never forgets it, no other
\* replaces it (persistVerifiedEvidence, storage.ts:188-206).
THEOREM CommitmentAlwaysFinal == UploadSpec => []CommitmentIsFinal
<1>1. UploadInv => CommitmentIsFinal
  BY DEF UploadInv
<1>. QED
  BY <1>1, UploadInvariant, PTL

-----------------------------------------------------------------------------
(* The search for an upload.                                                *)

Settling(s) == {b \in s : Search!Settles(b)}
Seen(b) == b > end

\* What was read did not settle the search, and is remembered.
StillSearching ==
    /\ \A b \in DOMAIN chain : Seen(b) => ~Search!Settles(b)
    /\ found <=> \E b \in DOMAIN chain : Seen(b) /\ Search!Candidate(b)
    /\ \A b \in DOMAIN chain : queried[b] = IF Seen(b) THEN 1 ELSE 0

SearchInv ==
    /\ latest \in Nat /\ end \in Int /\ end <= latest
    /\ chain \in [FromBlock..latest -> Search!Kinds]
    /\ queried \in [FromBlock..latest -> Nat]
    /\ Search!Searching => StillSearching
    /\ Search!ChunksMatchOnePass

\* The newest of two sets is the same where what the larger has more is older.
LEMMA SameNewest ==
    ASSUME NEW A, NEW B, A \subseteq B, A # {}, B \subseteq Int, \A x \in A, y \in B \ A : x > y
    PROVE  Search!Max(A) = Search!Max(B)
<1>1. \A x : (x \in A /\ \A y \in A : x >= y) <=> (x \in B /\ \A y \in B : x >= y)
  <2>1. ASSUME NEW x \in A, \A y \in A : x >= y
        PROVE x \in B /\ \A y \in B : x >= y
    BY <2>1
  <2>2. ASSUME NEW x \in B, \A y \in B : x >= y
        PROVE x \in A /\ \A y \in A : x >= y
    <3>1. PICK z \in A : TRUE
      OBVIOUS
    <3>2. x >= z /\ x \in Int /\ z \in Int
      BY <2>2, <3>1
    <3>3. x \in A
      <4>1. CASE x \in B \ A
        <5>1. z > x
          BY <3>1, <4>1
        <5>. QED
          BY <3>2, <5>1
      <4>. QED
        BY <4>1
    <3>. QED
      BY <2>2, <3>3
  <2>. QED
    BY <2>1, <2>2
<1>. QED
  BY <1>1, Zenon DEF Search!Max

LEMMA SearchStarts == StoresInit => SearchInv
<1> SUFFICES ASSUME StoresInit PROVE SearchInv
  OBVIOUS
<1>1. CASE part = "search"
  <2>1. Search!Init
    BY <1>1 DEF StoresInit
  <2>2. /\ latest \in Nat /\ end = latest /\ found = FALSE /\ result.kind = "searching"
        /\ chain \in [FromBlock..latest -> Search!Kinds] /\ queried = [b \in FromBlock..latest |-> 0]
    BY <2>1, StorageSearchAssumption DEF Search!Init, Search!Answer
  <2>. QED
    BY <2>2, StorageSearchAssumption DEF SearchInv, StillSearching, Seen, Search!ChunksMatchOnePass, Search!Answered
<1>2. CASE part # "search"
  <2>1. SearchRests
    BY <1>2 DEF StoresInit
  <2>2. FromBlock \in Nat /\ FromBlock..FromBlock = {FromBlock}
    BY StorageSearchAssumption
  <2>3. /\ latest = FromBlock /\ end = latest /\ found = FALSE /\ result.kind = "searching"
        /\ chain = [b \in FromBlock..latest |-> "other"] /\ queried = [b \in FromBlock..latest |-> 0]
    BY <2>1, <2>2 DEF SearchRests, Search!Answer
  <2>4. chain \in [FromBlock..latest -> Search!Kinds]
    BY <2>3 DEF Search!Kinds
  <2>. QED
    BY <2>2, <2>3, <2>4 DEF SearchInv, StillSearching, Seen, Search!ChunksMatchOnePass, Search!Answered
<1>. QED
  BY <1>1, <1>2

LEMMA ChunkKeeps == ASSUME SearchInv, Search!ReadChunk PROVE SearchInv'
<1>1. PICK start : start = Search!Start
  OBVIOUS
<1>2. /\ Search!Searching /\ end >= FromBlock /\ StillSearching
      /\ chain' = chain /\ latest' = latest
      /\ queried' = [b \in DOMAIN chain |-> queried[b] + (IF b \in start..end THEN 1 ELSE 0)]
  BY <1>1 DEF Search!ReadChunk, SearchInv
<1>3. /\ FromBlock \in Nat /\ Chunk \in Nat \ {0} /\ latest \in Nat /\ end \in Int /\ end <= latest
      /\ DOMAIN chain = FromBlock..latest /\ chain \in [FromBlock..latest -> Search!Kinds]
      /\ queried \in [FromBlock..latest -> Nat]
  BY StorageSearchAssumption DEF SearchInv
<1>4. start \in FromBlock..end /\ end - Chunk < start /\ (start = FromBlock \/ start = end - Chunk + 1)
  BY <1>1, <1>2, <1>3 DEF Search!Start
<1>5. start..end \subseteq DOMAIN chain
  BY <1>3, <1>4
<1>6. /\ queried' \in [FromBlock..latest -> Nat]
      /\ \A b \in DOMAIN chain : queried'[b] = IF b > end \/ b \in start..end THEN 1 ELSE 0
  <2>1. \A b \in DOMAIN chain : queried[b] = IF b > end THEN 1 ELSE 0
    BY <1>2 DEF StillSearching, Seen
  <2>. QED
    BY <1>2, <1>3, <2>1
<1>7. PICK settling : settling = Settling(start..end)
  OBVIOUS
<1>8. CASE settling = {}
  <2>1. /\ found' = (found \/ \E b \in start..end : Search!Candidate(b))
        /\ end' = end - Chunk /\ result' = result
    BY <1>1, <1>7, <1>8 DEF Search!ReadChunk, Settling
  <2>2. ASSUME NEW b \in DOMAIN chain
        PROVE  b > end' <=> b > end \/ b \in start..end
    BY <1>3, <1>4, <2>1
  <2>3. /\ \A b \in DOMAIN chain : Search!Settles(b)' = Search!Settles(b)
        /\ \A b \in DOMAIN chain : Search!Candidate(b)' = Search!Candidate(b)
    BY <1>2 DEF Search!Settles, Search!Candidate, Search!Deep
  <2>4. ASSUME NEW b \in DOMAIN chain, b > end'
        PROVE  ~Search!Settles(b)
    BY <1>2, <1>7, <1>8, <2>2, <2>4 DEF StillSearching, Seen, Settling
  <2>5. found' <=> \E b \in DOMAIN chain : b > end' /\ Search!Candidate(b)
    BY <1>2, <1>5, <2>1, <2>2 DEF StillSearching, Seen
  <2>6. \A b \in DOMAIN chain : queried'[b] = IF b > end' THEN 1 ELSE 0
    BY <1>6, <2>2
  <2>7. StillSearching'
    BY <1>2, <2>3, <2>4, <2>5, <2>6 DEF StillSearching, Seen
  <2>8. end' \in Int /\ end' <= latest
    BY <1>3, <2>1
  <2>9. Search!ChunksMatchOnePass'
    <3>1. ~Search!Answered'
      BY <1>2, <2>1 DEF Search!Answered, Search!Searching
    <3>. QED
      BY <1>2, <1>6, <3>1 DEF Search!ChunksMatchOnePass
  <2>. QED
    BY <1>2, <1>3, <1>6, <2>7, <2>8, <2>9 DEF SearchInv
<1>9. CASE settling # {}
  <2>1. result' = Search!Verdict(Search!Max(settling)) /\ end' = end
    BY <1>1, <1>7, <1>9 DEF Search!ReadChunk, Settling
  <2>2. PICK all : all = Settling(DOMAIN chain)
    OBVIOUS
  <2>3. Search!Max(settling) = Search!Max(all)
    <3>1. settling \subseteq all /\ all \subseteq Int
      BY <1>3, <1>5, <1>7, <2>2 DEF Settling
    <3>2. ASSUME NEW x \in settling, NEW y \in all \ settling PROVE x > y
      <4>1. x \in start..end
        BY <1>7 DEF Settling
      <4>2. y \in FromBlock..latest /\ ~(y > end) /\ ~(y \in start..end)
        BY <1>2, <1>3, <1>7, <2>2 DEF Settling, StillSearching, Seen
      <4>. QED
        BY <1>3, <1>4, <4>1, <4>2
    <3>. QED
      BY <1>9, <3>1, <3>2, SameNewest
  <2>4. all # {} /\ result' = Search!Verdict(Search!Max(all))
    BY <1>5, <1>7, <1>9, <2>1, <2>2, <2>3 DEF Settling
  <2>5. Search!Reference' = Search!Reference
    BY <1>2 DEF Search!Reference, Search!Settles, Search!Candidate, Search!Deep, Search!Verdict
  <2>6. Search!Reference = Search!Verdict(Search!Max(all))
    BY <2>2, <2>4 DEF Search!Reference, Settling
  <2>7. Search!ChunksMatchOnePass'
    BY <1>2, <1>6, <2>4, <2>5, <2>6 DEF Search!ChunksMatchOnePass
  <2>8. ~Search!Searching'
    BY <2>1 DEF Search!Searching, Search!Verdict, Search!Answer
  <2>. QED
    BY <1>2, <1>3, <1>6, <2>1, <2>7, <2>8 DEF SearchInv
<1>. QED
  BY <1>8, <1>9

LEMMA EndKeeps == ASSUME SearchInv, Search!Exhausted \/ Search!Abort PROVE SearchInv'
<1>1. /\ Search!Searching /\ StillSearching /\ UNCHANGED <<chain, latest, end, found, queried>>
  BY DEF Search!Exhausted, Search!Abort, SearchInv
<1>2. ~Search!Searching'
  BY DEF Search!Exhausted, Search!Abort, Search!Searching, Search!Answer
<1>3. ASSUME Search!Exhausted PROVE result' = Search!Reference
  <2>1. end < FromBlock /\ result' = Search!Answer(IF found THEN "mismatch" ELSE "dependency")
    BY <1>3 DEF Search!Exhausted
  <2>2. \A b \in DOMAIN chain : b > end
    BY <2>1, StorageSearchAssumption DEF SearchInv
  <2>3. /\ \A b \in DOMAIN chain : ~Search!Settles(b)
        /\ found <=> \E b \in DOMAIN chain : Search!Candidate(b)
    BY <1>1, <2>2 DEF StillSearching, Seen
  <2>4. {b \in DOMAIN chain : Search!Settles(b)} = {}
    BY <2>3
  <2>. QED
    BY <2>1, <2>3, <2>4 DEF Search!Reference
<1>4. Search!Reference' = Search!Reference
  BY <1>1 DEF Search!Reference, Search!Settles, Search!Candidate, Search!Deep, Search!Verdict
<1>5. Search!Abort => ~Search!Answered'
  BY DEF Search!Abort, Search!Answered, Search!Answer
<1>6. Search!ChunksMatchOnePass'
  BY <1>1, <1>3, <1>4, <1>5 DEF Search!ChunksMatchOnePass, SearchInv
<1>. QED
  BY <1>1, <1>2, <1>6 DEF SearchInv

\* Reading in chunks changes nothing: the answer is that of a single pass over all blocks, newest
\* first, and no block is asked for twice (storage-recovery.ts:40-64).
THEOREM ChunksAlwaysMatchOnePass == StoresSpec => []ChunksMatchOnePass
<1>1. SearchInv /\ [StoresNext]_storesVars => SearchInv'
  <2> SUFFICES ASSUME SearchInv, [StoresNext]_storesVars PROVE SearchInv'
    OBVIOUS
  <2>1. CASE SearchStep
    BY <2>1, ChunkKeeps, EndKeeps DEF SearchStep, Search!Next
  <2>2. CASE ReceiptsStep \/ UploadsStep \/ UNCHANGED storesVars
    <3>1. UNCHANGED searchVars
      BY <2>2 DEF ReceiptsStep, UploadsStep, storesVars
    <3>. QED
      BY <3>1 DEF searchVars, SearchInv, StillSearching, Seen, Search!ChunksMatchOnePass, Search!Answered,
                  Search!Reference, Search!Settles, Search!Candidate, Search!Deep, Search!Verdict, Search!Searching
  <2>. QED
    BY <2>1, <2>2 DEF StoresNext
<1>2. SearchInv => ChunksMatchOnePass
  BY DEF SearchInv, ChunksMatchOnePass
<1>. QED
  BY <1>1, <1>2, SearchStarts, PTL DEF StoresSpec
=============================================================================
