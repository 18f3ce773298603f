--------------------------- MODULE EvaluateConsole ---------------------------
(***************************************************************************)
(* The operator's console in the browser: an agent is resolved, a paid run *)
(* is started, canceled or fails, its write is recovered, and the page is  *)
(* read again.  Every answer may come after the operator has moved on to   *)
(* another agent.                                                          *)
(***************************************************************************)
EXTENDS Naturals, FiniteSets

CONSTANTS Agents, NoAgent,
          MaxActs      \* bound on what the operator and the rescan control start

VARIABLES
    state,        \* evaluateReducer: what the page shows
    coordinator,  \* ResolutionCoordinator: its counter and its active request
    loads,        \* loads that have not settled, the aborted ones too
    session,      \* OperatorRunSession with the run it belongs to
    binding, write, recoveries, \* useOperatorWriteWorkflow
    acts

vars == <<state, coordinator, loads, session, binding, write, recoveries, acts>>

Outcomes == {"sealed", "recoverable", "definitive", "interrupted"}
NoRequest == [kind |-> "none", gen |-> 0, agent |-> NoAgent]
NoSession == [pc |-> "none", agent |-> NoAgent, accepted |-> FALSE, binding |-> [gen |-> 0, key |-> NoAgent]]
NoWrite == [binding |-> [gen |-> 0, key |-> NoAgent], outcome |-> "none", of |-> NoAgent]

\* shown is the agent whose identity, lock and gate the page shows; sealed is a history
\* variable: the agent whose write made the page complete.
IdleState(agent, gen) ==
    [phase |-> "idle", gen |-> gen, agent |-> agent, shown |-> NoAgent, token |-> FALSE,
     refresh |-> "none", sealed |-> NoAgent]

IdentityLocked(s) == s.phase = "running" \/ (s.phase = "completed" /\ s.refresh \in {"awaiting", "refreshing"})

-----------------------------------------------------------------------------
(* evaluateReducer, one operator for each action it takes *)

EditIdentity(s, agent, gen) == IF IdentityLocked(s) THEN s ELSE IdleState(agent, gen)

BeginResolve(s, gen) ==
    IF IdentityLocked(s) THEN s ELSE [IdleState(s.agent, gen) EXCEPT !.phase = "resolving"]

MatchesResolve(s, r) == s.phase = "resolving" /\ s.gen = r.gen /\ s.agent = r.agent

ResolveSucceeded(s, r) ==
    IF MatchesResolve(s, r)
    THEN [IdleState(r.agent, r.gen) EXCEPT !.phase = "resolved", !.shown = r.agent] ELSE s

ResolveFailed(s, r) ==
    IF MatchesResolve(s, r) THEN [IdleState(s.agent, s.gen) EXCEPT !.phase = "resolve_error"] ELSE s

ClearToken(s) == [s EXCEPT !.token = FALSE]

RunSucceeded(s, of) ==
    IF s.phase = "running"
    THEN [ClearToken(s) EXCEPT !.phase = "completed", !.refresh = "awaiting", !.sealed = of] ELSE s

RunStopped(s, phase) == IF s.phase = "running" THEN [ClearToken(s) EXCEPT !.phase = phase] ELSE s

RecoverySucceeded(s, of) ==
    IF s.phase = "failed"
    THEN [ClearToken(s) EXCEPT !.phase = "completed", !.refresh = "awaiting", !.sealed = of] ELSE s

RecoveryDefinitive(s) == IF s.phase = "failed" THEN [s EXCEPT !.phase = "resolved"] ELSE s

BeginCompletionRefresh(s, gen) ==
    IF s.phase = "completed" /\ s.refresh = "awaiting" THEN [s EXCEPT !.gen = gen, !.refresh = "refreshing"] ELSE s

CompleteRefresh(s, r, ok) ==
    IF s.phase = "completed" /\ s.refresh = "refreshing" /\ s.gen = r.gen /\ s.agent = r.agent
    THEN [s EXCEPT !.shown = r.agent, !.refresh = IF ok THEN "complete" ELSE "failed"] ELSE s

-----------------------------------------------------------------------------
(* ScanInput: the page is rendered after every dispatch, and with it the binding *)

Bound(b, shown) == IF b.key = shown THEN b ELSE [gen |-> b.gen + 1, key |-> shown]
Show(s) == state' = s /\ binding' = Bound(binding, s.shown)

\* A slip: an answer counts for whatever agent the page shows by then.
AnyBinding(left, right) == TRUE

SameBinding(left, right) == left = right

Visible == write.outcome # "none" /\ SameBinding(write.binding, binding)
Publish(b, outcome, of) ==
    write' = IF SameBinding(binding, b) THEN [binding |-> b, outcome |-> outcome, of |-> of] ELSE write

Act == acts < MaxActs /\ acts' = acts + 1

\* A refresh keeps the agent, but what was bound to it is let go.
Edit(agent) ==
    LET let_go == [gen |-> binding.gen + 1, key |-> NoAgent]
        gen    == coordinator.generation + 1
        s      == IF coordinator.active.kind = "refresh" THEN state ELSE EditIdentity(state, agent, gen)
    IN /\ ~IdentityLocked(state) /\ Act
       /\ write' = NoWrite /\ state' = s /\ binding' = Bound(let_go, s.shown)
       /\ coordinator' = IF coordinator.active.kind = "refresh" THEN coordinator
                         ELSE [generation |-> gen, active |-> NoRequest]
       /\ UNCHANGED <<loads, session, recoveries>>

\* begin: the request takes the place of the one before it.
Begin(kind, agent) ==
    LET r == [kind |-> kind, gen |-> coordinator.generation + 1, agent |-> agent]
    IN /\ coordinator' = [generation |-> r.gen, active |-> r] /\ loads' = loads \cup {r}

Resolve ==
    /\ state.phase # "resolving" /\ ~IdentityLocked(state) /\ coordinator.active.kind # "refresh" /\ Act
    /\ Begin("resolve", state.agent) /\ Show(BeginResolve(state, coordinator.generation + 1))
    /\ UNCHANGED <<session, write, recoveries>>

CancelResolve ==
    /\ state.phase = "resolving" /\ coordinator.active.kind = "resolve"
    /\ coordinator' = [coordinator EXCEPT !.active = NoRequest]
    /\ Show(IF state.gen = coordinator.active.gen THEN IdleState(state.agent, state.gen) ELSE state)
    /\ UNCHANGED <<loads, session, write, recoveries, acts>>

\* coordinator.refresh with the page as the write left it: nothing while a request is active.
Refresh(s, agent) ==
    IF coordinator.active = NoRequest
    THEN Begin("refresh", agent) /\ Show(BeginCompletionRefresh(s, coordinator.generation + 1))
    ELSE UNCHANGED <<coordinator, loads>> /\ Show(s)

\* The rescan control asks for a fresh page.
RefreshCurrent ==
    /\ state.shown # NoAgent /\ coordinator.active = NoRequest /\ Act
    /\ Refresh(state, state.agent) /\ UNCHANGED <<session, write, recoveries>>

\* A load settles; only the active one is heard.
Settle(r, ok) ==
    /\ r \in loads /\ loads' = loads \ {r}
    /\ IF coordinator.active = r
       THEN /\ coordinator' = [coordinator EXCEPT !.active = NoRequest]
            /\ Show(IF r.kind = "refresh" THEN CompleteRefresh(state, r, ok)
                    ELSE IF ok THEN ResolveSucceeded(state, r) ELSE ResolveFailed(state, r))
       ELSE UNCHANGED <<coordinator, state, binding>>
    /\ UNCHANGED <<session, write, recoveries, acts>>

EditToken ==
    /\ state.phase \in {"resolved", "failed"} /\ ~state.token /\ Show([state EXCEPT !.token = TRUE])
    /\ UNCHANGED <<coordinator, loads, session, write, recoveries, acts>>

CanStartPaidRun == session.pc = "none" /\ state.phase \in {"resolved", "failed"} /\ state.token

Evaluate ==
    /\ CanStartPaidRun /\ Act
    /\ session' = [pc |-> "running", agent |-> state.agent, accepted |-> FALSE, binding |-> binding]
    /\ write' = NoWrite /\ Show([state EXCEPT !.phase = "running"])
    /\ UNCHANGED <<coordinator, loads, recoveries>>

\* The first progress event brings the recovery id.
Observe ==
    /\ session.pc = "running" /\ ~session.accepted /\ session' = [session EXCEPT !.accepted = TRUE]
    /\ UNCHANGED <<state, coordinator, loads, binding, write, recoveries, acts>>

CancelRun ==
    /\ session.pc = "running" /\ session' = [session EXCEPT !.pc = "canceled"]
    /\ Publish(binding, IF session.accepted THEN "recoverable" ELSE "interrupted", session.agent)
    /\ Show(ClearToken(state)) /\ UNCHANGED <<coordinator, loads, recoveries, acts>>

\* executePaidRun: the write is published first, then the page is told how the run ended. A refusal
\* before there was a write publishes nothing.
RunEnds(outcome) ==
    /\ session.pc # "none" /\ session' = NoSession
    /\ IF outcome = "refused" THEN UNCHANGED write ELSE Publish(session.binding, outcome, session.agent)
    /\ IF outcome = "sealed" THEN Refresh(RunSucceeded(state, session.agent), state.agent)
       ELSE Show(RunStopped(state, "failed")) /\ UNCHANGED <<coordinator, loads>>
    /\ UNCHANGED <<recoveries, acts>>

RunInterrupted ==
    /\ session.pc = "canceled" /\ session' = NoSession /\ Show(RunStopped(state, "resolved"))
    /\ UNCHANGED <<coordinator, loads, write, recoveries, acts>>

Recover ==
    /\ Visible /\ write.outcome = "recoverable" /\ state.token /\ Act
    /\ \A r \in recoveries : ~SameBinding(r.binding, binding)
    /\ recoveries' = recoveries \cup {[binding |-> write.binding, of |-> write.of]}
    /\ Show(ClearToken(state)) /\ UNCHANGED <<coordinator, loads, session, write>>

RecoveryAnswers(r, outcome) ==
    /\ r \in recoveries /\ recoveries' = recoveries \ {r}
    /\ Publish(r.binding, outcome, r.of)
    /\ IF ~SameBinding(binding, r.binding) THEN UNCHANGED <<state, binding, coordinator, loads>>
       ELSE IF outcome = "sealed" THEN Refresh(RecoverySucceeded(state, r.of), state.agent)
       ELSE Show(RecoveryDefinitive(state)) /\ UNCHANGED <<coordinator, loads>>
    /\ UNCHANGED <<session, acts>>

\* A recovery that throws leaves the write as it was.
RecoveryFails(r) ==
    /\ r \in recoveries /\ recoveries' = recoveries \ {r}
    /\ UNCHANGED <<state, coordinator, loads, session, binding, write, acts>>

-----------------------------------------------------------------------------
Init ==
    /\ state \in {IdleState(agent, 0) : agent \in Agents}
    /\ coordinator = [generation |-> 0, active |-> NoRequest] /\ loads = {}
    /\ session = NoSession /\ binding = [gen |-> 0, key |-> NoAgent] /\ write = NoWrite
    /\ recoveries = {} /\ acts = 0

User ==
    \/ \E agent \in Agents : Edit(agent)
    \/ Resolve \/ CancelResolve \/ RefreshCurrent \/ EditToken \/ Evaluate \/ CancelRun \/ Recover

Server ==
    \/ \E r \in loads, ok \in BOOLEAN : Settle(r, ok)
    \/ Observe \/ RunInterrupted
    \/ \E outcome \in Outcomes \cup {"refused"} : RunEnds(outcome)
    \/ \E r \in recoveries : RecoveryFails(r) \/ \E outcome \in Outcomes \ {"interrupted"} : RecoveryAnswers(r, outcome)

Next == User \/ Server

\* What the page says about a write, and that it is complete, is about the agent it shows, however
\* late the run and the recoveries of another agent answer; and what it shows is the agent asked for.
OutcomeIsOfItsIdentity ==
    /\ Visible => write.of = state.shown
    /\ state.phase = "completed" => state.sealed = state.shown
    /\ state.shown \in {NoAgent, state.agent}
=============================================================================
