------------------------------ MODULE ProofPage ------------------------------
(***************************************************************************)
(* The page of one sealed agent.  The sealed evidence is verified once;    *)
(* the current decision is read with it and refreshed when it expires,     *)
(* when the tab is shown again, and when the visitor asks.  The page can   *)
(* turn to another agent while answers are under way.                      *)
(***************************************************************************)
EXTENDS Naturals, FiniteSets

CONSTANTS Locators, NoLocator,
          Accesses,    \* what a pinned access can say: a status for each subsystem
          NoAccess,
          Terminals,   \* how the sealed evidence can be judged
          Ttl, MaxTime,
          MaxTurns, MaxAsks  \* bounds: turns of the page, refreshes the visitor asks for

VARIABLES
    now,
    route,       \* the locator in the address bar
    state,       \* proofDetailReducer
    generation, refreshGeneration, active, \* the page's refs
    requests,    \* reads that have not answered, the aborted ones too
    asks

vars == <<now, route, state, generation, refreshGeneration, active, requests, asks>>

Subsystems == {"identity", "lease", "gate", "consumer"}
NoSnapshot == [of |-> NoLocator, access |-> NoAccess, expires |-> 0, asked |-> 0]

\* initialProofDetailState
InitialState(key, gen, time) ==
    [key |-> key, gen |-> gen, base |-> NoLocator, route |-> "LOADING", historical |-> "LOADING",
     snapshot |-> NoSnapshot, refresh |-> "LOADING", shownAt |-> time]

-----------------------------------------------------------------------------
(* The decision over the four observations *)

StatusAt(status, expires, time) ==
    IF status \in {"VERIFIED", "BLOCKED"} /\ time >= expires THEN "STALE" ELSE status

Precedence == <<"MISMATCH", "STALE", "BLOCKED", "NOT_APPLICABLE", "UNAVAILABLE">>

CurrentDecision(access, expires, time) ==
    LET effective == {StatusAt(access[s], expires, time) : s \in Subsystems}
        ranks     == {i \in DOMAIN Precedence : Precedence[i] \in effective}
    IN IF ranks = {} THEN "VERIFIED" ELSE Precedence[CHOOSE i \in ranks : \A j \in ranks : i <= j]

Decision == CurrentDecision(state.snapshot.access, state.snapshot.expires, state.shownAt)
HasSnapshot == state.snapshot.access # NoAccess

\* What is drawn: the state of another locator is not.
Visible == state.key = route

-----------------------------------------------------------------------------
(* proofDetailReducer: an action for another locator or generation changes nothing *)

Heard(s, r) == s.key = r.of /\ s.gen = r.gen
ClockTick(s) == [s EXCEPT !.shownAt = now]
CurrentStarted(s, r) ==
    IF Heard(s, r) THEN [s EXCEPT !.refresh = IF s.snapshot.access = NoAccess THEN "LOADING" ELSE "REFRESHING"] ELSE s
CurrentSucceeded(s, r, access) ==
    IF Heard(s, r)
    THEN [s EXCEPT !.snapshot = [of |-> r.of, access |-> access, expires |-> r.at + Ttl, asked |-> r.asked],
                   !.refresh = "IDLE", !.shownAt = now]
    ELSE s
CurrentFailed(s, r) == IF Heard(s, r) THEN [s EXCEPT !.refresh = "FAILED"] ELSE s

-----------------------------------------------------------------------------
Request(kind, of, gen, asked) == [kind |-> kind, of |-> of, gen |-> gen, asked |-> asked, at |-> now]

Turn(l) ==
    /\ l # route /\ generation < MaxTurns /\ route' = l
    /\ UNCHANGED <<now, state, generation, refreshGeneration, active, requests, asks>>

\* The effect of a new locator: what was under way is aborted, the page starts anew.
Start ==
    /\ state.key # route
    /\ generation' = generation + 1 /\ refreshGeneration' = refreshGeneration + 1 /\ active' = NoLocator
    /\ state' = InitialState(route, generation + 1, now)
    /\ requests' = requests \cup {Request("load", route, generation + 1, refreshGeneration + 1)}
    /\ UNCHANGED <<now, route, asks>>

Newest(r) == IF r.kind = "refresh" THEN r.asked = refreshGeneration ELSE r.gen = generation

\* The identity, then the detail with or without its current access, then the sealed evidence.
BaseReady(r, access) ==
    /\ r \in requests /\ r.kind = "load"
    /\ IF ~Newest(r) THEN requests' = requests \ {r} /\ UNCHANGED <<state, active>>
       ELSE LET s == [state EXCEPT !.route = "READY", !.base = r.of]
            IN /\ active' = r.of
               /\ state' = IF access = NoAccess THEN CurrentFailed(s, r) ELSE CurrentSucceeded(s, r, access)
               /\ requests' = (requests \ {r}) \cup {[r EXCEPT !.kind = "verify"]}
    /\ UNCHANGED <<now, route, generation, refreshGeneration, asks>>

LoadFails(r) ==
    /\ r \in requests /\ r.kind \in {"load", "verify"} /\ requests' = requests \ {r}
    /\ state' = IF Newest(r) /\ Heard(state, r) THEN [state EXCEPT !.route = "ERROR"] ELSE state
    /\ UNCHANGED <<now, route, generation, refreshGeneration, active, asks>>

HistoricalSettled(r, status) ==
    /\ r \in requests /\ r.kind = "verify" /\ requests' = requests \ {r}
    /\ state' = IF Newest(r) /\ Heard(state, r) THEN [state EXCEPT !.historical = status] ELSE state
    /\ UNCHANGED <<now, route, generation, refreshGeneration, active, asks>>

\* refreshCurrent: the clock is looked at first, the read before is aborted.
RefreshCurrent ==
    LET r == Request("refresh", active, generation, refreshGeneration + 1)
    IN IF active = NoLocator THEN UNCHANGED <<refreshGeneration, requests>> /\ state' = ClockTick(state)
       ELSE /\ refreshGeneration' = refreshGeneration + 1 /\ requests' = requests \cup {r}
            /\ state' = CurrentStarted(ClockTick(state), r)

\* The button, or the tab that is shown again.
VisitorRefreshes ==
    /\ asks < MaxAsks /\ asks' = asks + 1 /\ RefreshCurrent
    /\ UNCHANGED <<now, route, generation, active>>

\* The timer of a settled snapshot; a refresh that is under way or failed has none.
Armed == HasSnapshot /\ state.refresh = "IDLE"
TimerFires ==
    /\ Armed /\ state.key = route /\ now >= state.snapshot.expires /\ RefreshCurrent
    /\ UNCHANGED <<now, route, generation, active, asks>>

RefreshAnswers(r, access) ==
    /\ r \in requests /\ r.kind = "refresh" /\ requests' = requests \ {r}
    /\ state' = IF ~Newest(r) THEN state
                ELSE IF access = NoAccess THEN CurrentFailed(state, r) ELSE CurrentSucceeded(state, r, access)
    /\ UNCHANGED <<now, route, generation, refreshGeneration, active, asks>>

Tick ==
    /\ now < MaxTime /\ now' = now + 1
    /\ UNCHANGED <<route, state, generation, refreshGeneration, active, requests, asks>>

-----------------------------------------------------------------------------
Init ==
    /\ now = 0 /\ route \in Locators /\ generation = 0 /\ refreshGeneration = 0
    /\ state = InitialState(NoLocator, 0, 0) /\ active = NoLocator /\ requests = {} /\ asks = 0

Next ==
    \/ \E l \in Locators : Turn(l)
    \/ Start \/ VisitorRefreshes \/ TimerFires \/ Tick
    \/ \E r \in requests :
        \/ LoadFails(r)
        \/ \E access \in Accesses \cup {NoAccess} : BaseReady(r, access) \/ RefreshAnswers(r, access)
        \/ \E status \in Terminals : HistoricalSettled(r, status)

\* What is drawn is about the agent in the address bar; a settled reading is the answer to the last
\* question asked; an admission that is drawn beyond its time has its timer, a read under way that
\* will be heard, or the notice that its refresh failed.
PageIsOfItsAgent ==
    Visible =>
        /\ state.base \in {NoLocator, route} /\ state.snapshot.of \in {NoLocator, route}
        /\ state.refresh = "IDLE" => state.snapshot.asked = refreshGeneration
        /\ HasSnapshot /\ Decision = "VERIFIED" /\ now >= state.snapshot.expires =>
            \/ Armed \/ state.refresh = "FAILED"
            \/ \E r \in requests : r.kind = "refresh" /\ Newest(r) /\ Heard(state, r)
=============================================================================
