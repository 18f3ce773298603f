----------------------------- MODULE ScanConsole -----------------------------
(***************************************************************************)
(* The public scan in the browser: an agent or a wallet is submitted, the  *)
(* ceremony streams its stages, and a stream that ends after the chain     *)
(* write without its last frame is made up for by reading the lease back.  *)
(***************************************************************************)
EXTENDS Naturals, FiniteSets

CONSTANTS Agents, NoAgent,
          NeedsToken,      \* turnstileConfigured()
          MaxVersion,      \* bound on the leases' versions
          MaxSubmits       \* bound on the scans of one page

VARIABLES
    input,      \* what the field holds: an agent, given by its id or by its wallet
    page,       \* the reducer's state, with whose lease it shows
    token,      \* the challenge is solved
    mounted,
    resolving,  \* the agent of the wallet that is being resolved
    run,        \* scan(): where it waits
    lease,      \* the version of each agent's lease, 0 for none
    writes,     \* broadcast writes that no block has yet: agent and scan
    submits

vars == <<input, page, token, mounted, resolving, run, lease, writes, submits>>

NoRun == [pc |-> "none", agent |-> NoAgent, reached |-> FALSE, seals |-> FALSE, id |-> 0]
Nothing == [agent |-> NoAgent, version |-> 0]
\* writing is a history variable: the stream had said that the ceremony writes when the error came.
Page(phase) == [phase |-> phase, sealed |-> Nothing, error |-> "none", writing |-> FALSE]
Busy == page.phase \in {"streaming", "reconciling"}

\* A page that is gone shows nothing more.
Dispatch(p) == page' = IF mounted THEN p ELSE page
Failed(error) == [page EXCEPT !.phase = "error", !.error = error, !.writing = run.reached]

\* The token serves one attempt.
Spend == token' = FALSE

-----------------------------------------------------------------------------
Edit(agent, form) ==
    /\ mounted /\ ~Busy /\ input # [agent |-> agent, form |-> form]
    /\ input' = [agent |-> agent, form |-> form] /\ Dispatch(Page("idle"))
    /\ UNCHANGED <<token, mounted, resolving, run, lease, writes, submits>>

OnToken ==
    /\ NeedsToken /\ mounted /\ token' = ~token
    /\ UNCHANGED <<input, page, mounted, resolving, run, lease, writes, submits>>

\* scan: the run before is aborted, the page starts anew.
Scan(agent, id) ==
    run' = [NoRun EXCEPT !.pc = "fetch", !.agent = agent, !.id = id]

Submit ==
    /\ mounted /\ ~Busy /\ (NeedsToken => token) /\ submits < MaxSubmits
    /\ submits' = submits + 1 /\ Dispatch(Page("streaming"))
    /\ IF input.form = "id" THEN Scan(input.agent, submits + 1) /\ UNCHANGED resolving
       ELSE resolving' = input.agent /\ UNCHANGED run
    /\ UNCHANGED <<input, token, mounted, lease, writes>>

\* resolveAddressToAgentId has no signal: its answer starts the scan even after the page is gone.
Resolved ==
    /\ resolving # NoAgent /\ resolving' = NoAgent
    /\ Scan(resolving, submits) /\ Dispatch(Page("streaming"))
    /\ UNCHANGED <<input, token, mounted, lease, writes, submits>>

NotResolved(error) ==
    /\ resolving # NoAgent /\ resolving' = NoAgent /\ Dispatch(Failed(error))
    /\ UNCHANGED <<input, token, mounted, run, lease, writes, submits>>

-----------------------------------------------------------------------------
(* The server behind the stream: it goes on when the stream is cut. *)

Admitted ==
    /\ run.pc = "fetch" /\ run' = [run EXCEPT !.pc = "stream"]
    /\ UNCHANGED <<input, page, token, mounted, resolving, lease, writes, submits>>

WritingChain ==
    /\ run.pc = "stream" /\ ~run.reached /\ run' = [run EXCEPT !.reached = TRUE]
    /\ writes' = writes \cup {[agent |-> run.agent, id |-> run.id]}
    /\ UNCHANGED <<input, page, token, mounted, resolving, lease, submits>>

Mined(w) ==
    /\ w \in writes /\ lease[w.agent] < MaxVersion /\ writes' = writes \ {w}
    /\ lease' = [lease EXCEPT ![w.agent] = @ + 1]
    /\ run' = IF run.id = w.id THEN [run EXCEPT !.seals = TRUE] ELSE run
    /\ UNCHANGED <<input, page, token, mounted, resolving, submits>>

Reverted(w) ==
    /\ w \in writes /\ writes' = writes \ {w}
    /\ UNCHANGED <<input, page, token, mounted, resolving, run, lease, submits>>

-----------------------------------------------------------------------------
(* runPublicScan and reconcileInto *)

Reconcile == run' = [run EXCEPT !.pc = "reconcile"]
Over == run' = NoRun /\ Spend

\* What reconcileInto, or the failure before it, makes of the end of a stream.
StreamEnds(error) ==
    IF run.reached THEN Reconcile /\ Dispatch([page EXCEPT !.phase = "reconciling"]) /\ UNCHANGED token
    ELSE Over /\ Dispatch(Failed(error))

Refused(error) ==
    /\ run.pc = "fetch" /\ Over /\ Dispatch(Failed(error))
    /\ UNCHANGED <<input, mounted, resolving, lease, writes, submits>>

\* The last frame, after the runner has read the write back.
SealedFrame ==
    /\ run.pc = "stream" /\ run.reached /\ run.seals /\ Reconcile
    /\ UNCHANGED <<input, page, token, mounted, resolving, lease, writes, submits>>

\* An error frame, or a stream that ends in good order before its last frame.
ErrorFrame(error) ==
    /\ run.pc = "stream" /\ StreamEnds(error)
    /\ UNCHANGED <<input, mounted, resolving, lease, writes, submits>>

\* The connection fails, or a frame cannot be read: what throws then is no ScanStreamError, and how far
\* the stream had come is lost with it.
StreamBreaks ==
    /\ run.pc \in {"fetch", "stream"} /\ Over /\ Dispatch(Failed("stopped safely"))
    /\ UNCHANGED <<input, mounted, resolving, lease, writes, submits>>

\* The lease is read back as it is now: whose write made it is not asked.
ReconcileScan ==
    /\ run.pc = "reconcile" /\ Over
    /\ Dispatch(IF lease[run.agent] = 0 THEN Failed("unconfirmed")
                ELSE [Page("sealed") EXCEPT !.sealed = [agent |-> run.agent, version |-> lease[run.agent]]])
    /\ UNCHANGED <<input, mounted, resolving, lease, writes, submits>>

ReconcileFails ==
    /\ run.pc = "reconcile" /\ Over /\ Dispatch(Failed("read-back unavailable"))
    /\ UNCHANGED <<input, mounted, resolving, lease, writes, submits>>

\* The page is left: its run is aborted and says nothing more.
Leave ==
    /\ mounted /\ mounted' = FALSE /\ run' = NoRun
    /\ UNCHANGED <<input, page, token, resolving, lease, writes, submits>>

-----------------------------------------------------------------------------
Init ==
    /\ input \in [agent : Agents, form : {"id", "wallet"}] /\ page = Page("idle") /\ token = FALSE
    /\ mounted = TRUE /\ resolving = NoAgent /\ run = NoRun
    /\ lease \in [Agents -> {0, 1}] /\ writes = {} /\ submits = 0

Next ==
    \/ \E agent \in Agents, form \in {"id", "wallet"} : Edit(agent, form)
    \/ OnToken \/ Submit \/ Resolved \/ Leave
    \/ \E error \in {"not registered", "resolution unavailable"} : NotResolved(error)
    \/ Admitted \/ WritingChain \/ SealedFrame \/ StreamBreaks \/ ReconcileScan \/ ReconcileFails
    \/ \E w \in writes : Mined(w) \/ Reverted(w)
    \/ \E error \in {"busy", "challenge"} : Refused(error)
    \/ \E error \in {"stopped safely", "allowance reached"} : ErrorFrame(error)

\* A console that is busy has the call under way that will free it, and a sealed card is about the
\* agent that was submitted and shows a lease the registry had.
ConsoleFollowsItsScan ==
    mounted =>
        /\ Busy => run.pc # "none" \/ resolving # NoAgent
        /\ page.phase = "reconciling" => run.pc = "reconcile"
        /\ page.phase = "sealed" =>
            page.sealed.agent = input.agent /\ page.sealed.version \in 1..lease[page.sealed.agent]

\* "Returns whether the stream reached WRITING_CHAIN so the caller can decide to reconcile on an
\* interrupted or errored connection" (scan-client.ts:52): a scan whose stream had come to the write is
\* never reported as one that stopped safely and left no irreversible state behind.
CutScanIsReconciled == page.phase = "error" /\ page.error = "stopped safely" => ~page.writing
=============================================================================
