--------------------------- MODULE ReceiptClaims ---------------------------
(***************************************************************************)
(* How a Compute receipt is spent once: the strict broker's claim on a     *)
(* provider receipt (server/prooflock/compute/strict-broker.ts) and the    *)
(* SQLite store that runner processes share (compute/receipt-store.ts).    *)
(*                                                                         *)
(* A broker call that has a signed answer claims the receipt for a lease,  *)
(* renews, has the SDK verify the answer, and commits: only then does the  *)
(* caller get the answer, and the row is kept for the retention so that    *)
(* nobody gets it again.  Every store method is one transaction, but the   *)
(* call awaits it, and the call's deadline may strike in between: from     *)
(* then on the release runs beside whatever is still under way.            *)
(*                                                                         *)
(* A row carries the time it has left instead of the time it expires at,   *)
(* so the clock needs no bound.                                            *)
(***************************************************************************)
EXTENDS Naturals, FiniteSets

CONSTANTS
  Calls,        \* broker calls, of any number of processes; a call claims
                \* once, so it names its random token too
  Receipts,     \* claim keys: chain, provider and chat id
  NoCall,
  Lease,        \* 120 s, in ticks
  Retention,    \* 7 days, in ticks
  MaxRecords,   \* maximumRecords
  StoreFaults   \* whether a store transaction may fail and roll back

ASSUME DurationsAssumption == Lease \in Nat /\ Retention \in Nat
ASSUME NoCallAssumption    == NoCall \notin Calls

VARIABLES
  rows,      \* the store: one row per receipt
  call,      \* the broker calls
  spent      \* history: how long each receipt's last acceptance still binds

vars == <<rows, call, spent>>

RowStates == {"ABSENT", "CLAIMED", "COMMITTED"}
Rows      == [state : RowStates, token : Calls \cup {NoCall}, left : Nat]
Absent    == [state |-> "ABSENT", token |-> NoCall, left |-> 0]

\* verifying stands for requireSdkVerification and the second look at the
\* service, which touch nothing another call can see.  dead is a call whose
\* process went down.
Awaiting == {"claiming", "renewing", "verifying", "committing"}
Steps    == {"idle", "releasing", "answered", "failed", "dead"} \cup Awaiting

\* release: nobody asked for it, it is on its way to the store, or its
\* promise is settled.  The promise is kept, so it goes to the store once.
CallStates == [pc : Steps, receipt : Receipts, timedOut : BOOLEAN,
               release : {"none", "pending", "settled"}]

Init ==
  /\ rows = [r \in Receipts |-> Absent]
  /\ call \in [Calls -> {[pc |-> "idle", receipt |-> r, timedOut |-> FALSE,
                          release |-> "none"] : r \in Receipts}]
  /\ spent = [r \in Receipts |-> 0]

-----------------------------------------------------------------------------
(* The store.                                                              *)

\* A slip: only committed rows are collected, and an abandoned claim stays.
CollectCommittedOnly ==
  [r \in Receipts |->
     IF rows[r].left = 0 /\ rows[r].state = "COMMITTED" THEN Absent ELSE rows[r]]

\* collectExpired, which opens every transaction.
Collected == [r \in Receipts |-> IF rows[r].left = 0 THEN Absent ELSE rows[r]]

Full(kept) == Cardinality({r \in Receipts : kept[r] # Absent}) >= MaxRecords

\* pendingRecord: c still holds the claim it made.
Pending(c) ==
  LET row == Collected[call[c].receipt]
  IN  row.state = "CLAIMED" /\ row.token = c

Claimed(c)   == [state |-> "CLAIMED", token |-> c, left |-> Lease]

Committed(c) == [state |-> "COMMITTED", token |-> c, left |-> Retention]

\* A committed transaction leaves the row of c's receipt as given.
Store(c, row) == rows' = [Collected EXCEPT ![call[c].receipt] = row]

-----------------------------------------------------------------------------
(* A broker call.                                                          *)

At(c, pc) == call[c].pc = pc

Goto(c, pc) == call' = [call EXCEPT ![c].pc = pc]

\* The catch block: ask for the release unless that was done, and wait for it.
Fail(c) ==
  call' = [call EXCEPT
    ![c].pc      = IF call[c].release = "settled" THEN "failed" ELSE "releasing",
    ![c].release = IF call[c].release = "none" THEN "pending"
                   ELSE call[c].release]

\* What follows an awaited stage that succeeded: the signal is looked at.
Proceed(c, pc) == IF call[c].timedOut THEN Fail(c) ELSE Goto(c, pc)

\* The provider answered and its signature binds the answer to the request.
Begin(c) ==
  /\ At(c, "idle")
  /\ Goto(c, "claiming")
  /\ UNCHANGED <<rows, spent>>

\* A slip: only a claim, not a committed row, stands in the way.
ClaimOverCommitted(c) ==
  /\ At(c, "claiming")
  /\ Collected[call[c].receipt].state # "CLAIMED"
  /\ Collected[call[c].receipt] # Absent \/ ~ Full(Collected)
  /\ Store(c, Claimed(c))
  /\ Goto(c, IF call[c].timedOut THEN "failed" ELSE "renewing")
  /\ UNCHANGED spent

\* A timeout that strikes while the claim is under way is noticed after it,
\* outside the try block.
Claim(c) ==
  /\ At(c, "claiming")
  /\ Collected[call[c].receipt] = Absent
  /\ ~ Full(Collected)
  /\ Store(c, Claimed(c))
  /\ Goto(c, IF call[c].timedOut THEN "failed" ELSE "renewing")
  /\ UNCHANGED spent

\* The receipt is taken (and expired rows are gone), or the store is full.
ClaimRefused(c) ==
  /\ At(c, "claiming")
  /\ \/ /\ Collected[call[c].receipt] # Absent
        /\ rows' = Collected
     \/ /\ Collected[call[c].receipt] = Absent
        /\ Full(Collected)
        /\ UNCHANGED rows
  /\ Goto(c, "failed")
  /\ UNCHANGED spent

Renew(c) ==
  /\ At(c, "renewing")
  /\ Pending(c)
  /\ Store(c, Claimed(c))
  /\ Proceed(c, "verifying")
  /\ UNCHANGED spent

\* The SDK confirms the answer and the service is still the same, or not.
Verify(c) ==
  /\ At(c, "verifying")
  /\ Proceed(c, "committing") \/ Fail(c)
  /\ UNCHANGED <<rows, spent>>

\* The receipt is spent even when the answer comes too late to be returned.
Commit(c) ==
  /\ At(c, "committing")
  /\ Pending(c)
  /\ Store(c, Committed(c))
  /\ spent' = [spent EXCEPT ![call[c].receipt] = Retention]
  /\ Proceed(c, "answered")

\* Another call took the receipt over: the transaction rolls back.
ClaimLost(c) ==
  /\ At(c, "renewing") \/ At(c, "committing")
  /\ ~ Pending(c)
  /\ Fail(c)
  /\ UNCHANGED <<rows, spent>>

\* A slip: the DELETE does not ask for the CLAIMED state.
ReleaseAnyState(c) ==
  /\ call[c].release = "pending"
  /\ call[c].pc # "dead"
  /\ IF Collected[call[c].receipt].token = c
     THEN Store(c, Absent) ELSE rows' = Collected
  /\ call' = [call EXCEPT ![c].release = "settled",
                          ![c].pc = IF @ = "releasing" THEN "failed" ELSE @]
  /\ UNCHANGED spent

\* The transaction's DELETE asks for the token and the CLAIMED state.
Release(c) ==
  /\ call[c].release = "pending"
  /\ call[c].pc # "dead"
  /\ IF Pending(c) THEN Store(c, Absent) ELSE rows' = Collected
  /\ call' = [call EXCEPT ![c].release = "settled",
                          ![c].pc = IF @ = "releasing" THEN "failed" ELSE @]
  /\ UNCHANGED spent

\* boundedRelease waits a second at most; the release may land later.
StopWaiting(c) ==
  /\ At(c, "releasing")
  /\ Goto(c, "failed")
  /\ UNCHANGED <<rows, spent>>

StoreFault(c) ==
  /\ StoreFaults
  /\ \/ At(c, "claiming") /\ Goto(c, "failed")
     \/ (At(c, "renewing") \/ At(c, "committing")) /\ Fail(c)
     \/ /\ call[c].release = "pending"
        /\ call[c].pc # "dead"
        /\ call' = [call EXCEPT ![c].release = "settled",
                                ![c].pc = IF @ = "releasing" THEN "failed" ELSE @]
  /\ UNCHANGED <<rows, spent>>

\* The deadline aborts the signal.  The listener that releases the claim is
\* there once the claim's token is known.
Timeout(c) ==
  /\ call[c].pc \in Awaiting
  /\ ~ call[c].timedOut
  /\ call' = [call EXCEPT ![c].timedOut = TRUE,
                          ![c].release = IF At(c, "claiming") THEN @ ELSE "pending"]
  /\ UNCHANGED <<rows, spent>>

\* The process of the call goes down, and its release with it.
Crash(c) ==
  /\ call[c].pc \in Awaiting \cup {"releasing"}
  /\ Goto(c, "dead")
  /\ UNCHANGED <<rows, spent>>

Less(n) == IF n = 0 THEN 0 ELSE n - 1

Tick ==
  /\ \E r \in Receipts : rows[r].left > 0 \/ spent[r] > 0
  /\ rows'  = [r \in Receipts |-> [rows[r] EXCEPT !.left = Less(@)]]
  /\ spent' = [r \in Receipts |-> Less(spent[r])]
  /\ UNCHANGED call

CallStep(c) ==
  \/ Begin(c)
  \/ Claim(c)
  \/ ClaimRefused(c)
  \/ Renew(c)
  \/ Verify(c)
  \/ Commit(c)
  \/ ClaimLost(c)
  \/ Release(c)
  \/ StopWaiting(c)
  \/ StoreFault(c)
  \/ Timeout(c)
  \/ Crash(c)

Next == Tick \/ \E c \in Calls : CallStep(c)

Spec     == Init /\ [][Next]_vars
FairSpec == Spec /\ WF_vars(Tick)

-----------------------------------------------------------------------------
(* Properties.                                                             *)

TypeOK ==
  /\ rows  \in [Receipts -> Rows]
  /\ call  \in [Calls -> CallStates]
  /\ spent \in [Receipts -> Nat]

\* No release, renewal, claim or collection of any call, however late it
\* lands, and no full store takes a committed row away while the acceptance
\* still binds (receipt-store.ts:127-176, strict-compute.test.ts:788, :850).
AcceptanceIsRemembered ==
  \A r \in Receipts :
    spent[r] > 0 => /\ rows[r].state = "COMMITTED"
                    /\ rows[r].left >= spent[r]

\* A receipt is accepted at most once in a retention, whatever calls of
\* whatever processes race for it (strict-compute.test.ts:595).
Accepts(r) == rows[r].state # "COMMITTED" /\ rows'[r].state = "COMMITTED"

ReceiptAcceptedOnce == [][\A r \in Receipts : Accepts(r) => spent[r] = 0]_vars

\* A row that has not run out changes hands, or gets more time, only by a
\* step of the call whose token it carries: a release or a commit that lands
\* after the lease ran out leaves the next claimant's row alone
\* (receipt-store.ts:169-176, 283-289).
RowsAnswerToTheirToken ==
  [][\A r \in Receipts :
       /\ rows[r].left > 0
       /\ \/ rows'[r].state # rows[r].state
          \/ rows'[r].token # rows[r].token
          \/ rows'[r].left > rows[r].left
       => call'[rows[r].token] # call[rows[r].token]]_vars

\* A claim that nobody releases, because its process died or its release
\* failed, does not shut the receipt out for good: with time alone it ceases
\* to stand in the way of the next claim (strict-compute.test.ts:830).
Blocks(c, r) == Collected[r].state = "CLAIMED" /\ Collected[r].token = c

ClaimsLapse ==
  \A c \in Calls, r \in Receipts : Blocks(c, r) ~> ~ Blocks(c, r)

\* "releases a failed claim so the same shared store can retry"
\* (strict-compute.test.ts:635): once a call has failed and no release of it
\* is under way, its claim is gone.
FailedCallLeavesNoClaim ==
  \A c \in Calls :
    (At(c, "failed") /\ call[c].release # "pending")
       => \A r \in Receipts : rows[r].token # c
=============================================================================
