-------------------------- MODULE LifecycleControls --------------------------
(***************************************************************************)
(* The operator's controls beside a sealed lease: the drift check, the     *)
(* reseal with its cancel, and the recovery of its write.  The page they   *)
(* stand on may turn to another lease, or to the next version of this one, *)
(* while an answer is awaited.                                             *)
(***************************************************************************)
EXTENDS Naturals, FiniteSets

CONSTANTS Leases, NoLease,
          MaxCalls, MaxRoutes \* bounds: calls of the server, turns of the page

VARIABLES
    route, binding,  \* the lease the page is about, and how often it turned
    token, busy, shown, recovering,
    session,         \* OperatorRunSession: its generation, 0 if idle, and whether it was accepted or canceled
    runs,            \* calls that have not answered: the abandoned ones too
    calls

vars == <<route, binding, token, busy, shown, recovering, session, runs, calls>>

NoSession == [gen |-> 0, accepted |-> FALSE, canceled |-> FALSE]
Nothing == [binding |-> 0, outcome |-> "none", of |-> NoLease]
Outcomes == {"sealed", "recoverable", "definitive", "interrupted"}

\* A turn of the page leaves nothing of the lease before it.
Turn(lease) ==
    /\ binding < MaxRoutes /\ lease # route
    /\ route' = lease /\ binding' = binding + 1 /\ session' = NoSession
    /\ token' = FALSE /\ busy' = "no" /\ shown' = Nothing /\ recovering' = 0
    /\ UNCHANGED <<runs, calls>>

EditToken ==
    /\ ~token /\ busy = "no" /\ recovering # binding /\ token' = TRUE
    /\ UNCHANGED <<route, binding, busy, shown, recovering, session, runs, calls>>

\* RescanActions: what the buttons are locked by.
Unlocked == token /\ busy = "no" /\ recovering # binding /\ calls < MaxCalls
Recoverable == shown.outcome = "recoverable" /\ shown.binding = binding

Call(kind) ==
    /\ calls' = calls + 1 /\ token' = FALSE
    /\ runs' = runs \cup {[kind |-> kind, id |-> calls + 1, binding |-> binding, of |-> route]}

CheckDrift ==
    /\ Unlocked /\ Call("drift") /\ busy' = "drift"
    /\ UNCHANGED <<route, binding, shown, recovering, session>>

Reseal ==
    /\ Unlocked /\ ~Recoverable /\ session.gen = 0
    /\ Call("reseal") /\ busy' = "reseal" /\ shown' = Nothing
    /\ session' = [NoSession EXCEPT !.gen = calls + 1]
    /\ UNCHANGED <<route, binding, recovering>>

Observe ==
    /\ session.gen # 0 /\ ~session.accepted /\ session' = [session EXCEPT !.accepted = TRUE]
    /\ UNCHANGED <<route, binding, token, busy, shown, recovering, runs, calls>>

Outcome(b, outcome, of) == [binding |-> b, outcome |-> outcome, of |-> of]

CancelReseal ==
    /\ busy = "reseal" /\ session.gen # 0 /\ ~session.canceled
    /\ session' = [session EXCEPT !.canceled = TRUE] /\ token' = FALSE
    /\ shown' = Outcome(binding, IF session.accepted THEN "recoverable" ELSE "interrupted", route)
    /\ UNCHANGED <<route, binding, busy, recovering, runs, calls>>

Recover ==
    /\ Unlocked /\ Recoverable /\ Call("recover") /\ recovering' = binding
    /\ UNCHANGED <<route, binding, busy, shown, session>>

\* The end of a call is heard only by the page that made it; an aborted reseal says nothing.
Answered(r, outcome) ==
    /\ r \in runs /\ runs' = runs \ {r}
    /\ IF r.binding # binding THEN UNCHANGED <<busy, shown, recovering>>
       ELSE CASE r.kind = "drift" -> busy' = "no" /\ UNCHANGED <<shown, recovering>>
              [] r.kind = "reseal" ->
                   /\ busy' = "no" /\ UNCHANGED recovering
                   /\ shown' = IF session.canceled /\ outcome = "interrupted" THEN shown
                               ELSE Outcome(binding, outcome, r.of)
              [] OTHER -> shown' = Outcome(binding, outcome, r.of) /\ recovering' = 0 /\ UNCHANGED busy
    /\ session' = IF session.gen = r.id THEN NoSession ELSE session
    /\ UNCHANGED <<route, binding, token, calls>>

Init ==
    /\ route \in Leases /\ binding = 1 /\ token = FALSE /\ busy = "no" /\ shown = Nothing
    /\ recovering = 0 /\ session = NoSession /\ runs = {} /\ calls = 0

Next ==
    \/ \E lease \in Leases : Turn(lease)
    \/ EditToken \/ CheckDrift \/ Reseal \/ Observe \/ CancelReseal \/ Recover
    \/ \E r \in runs, outcome \in Outcomes : Answered(r, outcome)

\* What is shown of a write is about the lease of the page; controls that are busy have the call under
\* way that will free them; a reseal never starts beside another of this page.
ControlsAreOfTheirLease ==
    /\ shown.outcome # "none" => shown.of = route
    /\ busy # "no" => \E r \in runs : r.binding = binding /\ r.kind = busy
    /\ recovering # 0 => \E r \in runs : r.binding = binding /\ r.kind = "recover"
    /\ Cardinality({r \in runs : r.binding = binding}) <= 1
=============================================================================
