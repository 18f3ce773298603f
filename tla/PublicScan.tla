----------------------------- MODULE PublicScan -----------------------------
(***************************************************************************)
(* The public scan endpoint (server/prooflock/api.ts): anybody asks for a  *)
(* scan and the server runs the funded ceremony for it.  A call is checked *)
(* against the limiter, reads its body, resolves the agent, has its        *)
(* challenge verified and reads the agent's lease; only then it is counted *)
(* and streams what the runner reports until the ceremony or the client    *)
(* ends.  The ceremony itself is WriteCeremony's.                          *)
(***************************************************************************)
EXTENDS Naturals, Sequences, FiniteSets

CONSTANTS
    Calls,       \* requests that may be under way
    Agents,
    Max, Window, \* rate.max and rate.windowMs
    Challenge,   \* whether a Turnstile secret is configured
    MaxTime,     \* bound on the clock
    MaxVersion,  \* bound on the leases' versions
    MaxStarts    \* bound on the scans that are started

ASSUME ScanAssumption ==
    /\ IsFiniteSet(Calls)
    /\ Max \in Nat \ {0} /\ Window \in Nat
    /\ Challenge \in BOOLEAN
    /\ MaxTime \in Nat /\ MaxVersion \in Nat /\ MaxStarts \in Nat

VARIABLES
    now,      \* Date.now
    hits,     \* the arrival times the limiter remembers
    call,
    lease,    \* version of each agent's lease in the registry, 0 if none
    starts    \* history: the scans that were counted, by arrival and by start

vars == <<now, hits, call, lease, starts>>

Pcs == {"idle", "body", "resolving", "challenge", "lease", "running", "done"}
Answers == {"none", "RATE_LIMIT", "INVALID_INPUT", "AGENT_NOT_FOUND", "CHALLENGE_FAILED",
            "DEPENDENCY_UNAVAILABLE", "stream"}
Event == {"stage", "complete", "error"}
\* found is a history variable: the agent's version when the request came.
Call == [pc : Pcs, agent : Agents, stamp : 0..MaxTime, answer : Answers, aborted : BOOLEAN,
         mode : {"none", "SEAL", "RESEAL"}, version : 0..MaxVersion,
         events : Seq(Event), found : 0..MaxVersion]

Init ==
    /\ now = 0 /\ hits = <<>> /\ starts = <<>>
    /\ lease \in [Agents -> {0, 1}]
    /\ \E a \in Agents :
         call = [c \in Calls |-> [pc |-> "idle", agent |-> a, stamp |-> 0, answer |-> "none",
                                  aborted |-> FALSE, mode |-> "none", version |-> 0,
                                  events |-> <<>>, found |-> 0]]

At(c, pc) == call[c].pc = pc
Goto(c, pc) == call' = [call EXCEPT ![c].pc = pc]
End(c, answer) == call' = [call EXCEPT ![c].pc = "done", ![c].answer = answer]

-----------------------------------------------------------------------------
(* The limiter and the steps of a call *)

\* Only the head is looked at: a stamp that arrived late stays behind it.
Pruned(t) ==
    LET kept == {i \in 1..Len(hits) : hits[i] + Window >= t} IN
    IF kept = {} THEN <<>>
    ELSE SubSeq(hits, CHOOSE i \in kept : \A j \in kept : i <= j, Len(hits))

Arrive(c, a) ==
    /\ At(c, "idle") \/ At(c, "done")
    /\ hits' = Pruned(now)
    /\ LET busy == Len(hits') >= Max IN
         call' = [call EXCEPT ![c] = [pc |-> IF busy THEN "done" ELSE "body", agent |-> a, stamp |-> now,
                                      answer |-> IF busy THEN "RATE_LIMIT" ELSE "none",
                                      aborted |-> FALSE, mode |-> "none", version |-> 0,
                                      events |-> <<>>, found |-> lease[a]]]
    /\ UNCHANGED <<now, lease, starts>>

\* One of agentId and address, well formed; an address is resolved first.
ReadBody(c) ==
    /\ At(c, "body")
    /\ \/ Goto(c, "resolving")
       \/ Goto(c, IF Challenge THEN "challenge" ELSE "lease")
       \/ End(c, "INVALID_INPUT")
    /\ UNCHANGED <<now, hits, lease, starts>>

ResolveAddress(c) ==
    /\ At(c, "resolving")
    /\ \/ Goto(c, IF Challenge THEN "challenge" ELSE "lease")
       \/ End(c, "AGENT_NOT_FOUND")
    /\ UNCHANGED <<now, hits, lease, starts>>

VerifyTurnstile(c) ==
    /\ At(c, "challenge")
    /\ Goto(c, "lease") \/ End(c, "CHALLENGE_FAILED")
    /\ UNCHANGED <<now, hits, lease, starts>>

\* A read of a dependency rejects or meets its deadline.
CallFails(c) ==
    /\ call[c].pc \in {"body", "resolving", "lease"}
    /\ End(c, "DEPENDENCY_UNAVAILABLE")
    /\ UNCHANGED <<now, hits, lease, starts>>

\* A slip: a reseal is not counted.
CountedSeals(c) == IF lease[call[c].agent] = 0 THEN Append(hits, call[c].stamp) ELSE hits

\* The scan is counted under the time of its arrival.
Counted(c) == Append(hits, call[c].stamp)

\* A slip: a lease that could not be read counts as absent.
ModeOfFailedRead(c) == "SEAL"

Mode(c) == IF lease[call[c].agent] = 0 THEN "SEAL" ELSE "RESEAL"

\* The lease read decides the mode; then nothing is awaited until the stream exists.
ReadLease(c) ==
    /\ At(c, "lease") /\ Len(starts) < MaxStarts
    /\ hits' = Counted(c)
    /\ starts' = Append(starts, [arrived |-> call[c].stamp, started |-> now])
    /\ call' = [call EXCEPT ![c].pc = "running", ![c].answer = "stream",
                            ![c].mode = Mode(c), ![c].version = lease[call[c].agent]]
    /\ UNCHANGED <<now, lease>>

-----------------------------------------------------------------------------
(* The stream *)

\* safeEnqueue: nothing goes out once the signal is aborted.
Send(c, event) == IF call[c].aborted THEN call[c].events ELSE Append(call[c].events, event)

\* The runner reports a stage.  The report throws when the client is gone, which ends
\* the run.
ReportStage(c) ==
    /\ At(c, "running")
    /\ "stage" \notin {call[c].events[i] : i \in 1..Len(call[c].events)} \/ call[c].aborted
    /\ call' = [call EXCEPT ![c].events = Send(c, "stage"),
                            ![c].pc = IF call[c].aborted THEN "done" ELSE "running"]
    /\ UNCHANGED <<now, hits, lease, starts>>

\* The registry takes the write only for the version the request named.
RunnerSeals(c) ==
    /\ At(c, "running")
    /\ lease[call[c].agent] = call[c].version /\ call[c].version < MaxVersion
    /\ lease' = [lease EXCEPT ![call[c].agent] = @ + 1]
    /\ call' = [call EXCEPT ![c].pc = "done", ![c].events = Send(c, "complete")]
    /\ UNCHANGED <<now, hits, starts>>

RunnerFails(c) ==
    /\ At(c, "running")
    /\ call' = [call EXCEPT ![c].pc = "done", ![c].events = Send(c, "error")]
    /\ UNCHANGED <<now, hits, lease, starts>>

\* The client cancels the stream; the ceremony goes on to its next report.
Disconnect(c) ==
    /\ At(c, "running") /\ ~call[c].aborted
    /\ call' = [call EXCEPT ![c].aborted = TRUE]
    /\ UNCHANGED <<now, hits, lease, starts>>

Tick ==
    /\ now < MaxTime
    /\ now' = now + 1
    /\ UNCHANGED <<hits, call, lease, starts>>

CallStep(c) ==
    \/ \E a \in Agents : Arrive(c, a)
    \/ ReadBody(c) \/ ResolveAddress(c) \/ VerifyTurnstile(c) \/ CallFails(c) \/ ReadLease(c)
    \/ ReportStage(c) \/ RunnerSeals(c) \/ RunnerFails(c) \/ Disconnect(c)

Next == (\E c \in Calls : CallStep(c)) \/ Tick

Spec == Init /\ [][Next]_vars

-----------------------------------------------------------------------------
(* Properties *)

\* The variables have their types.
TypeOK ==
    /\ now \in 0..MaxTime
    /\ hits \in Seq(0..MaxTime)
    /\ call \in [Calls -> Call]
    /\ lease \in [Agents -> 0..MaxVersion]
    /\ starts \in Seq([arrived : 0..MaxTime, started : 0..MaxTime])

ArrivedIn(t) == {i \in 1..Len(starts) : starts[i].arrived \in t..(t + Window)}

\* However the awaits interleave, the limiter is exceeded by no more than the other
\* calls that were under way (api.ts:186-247).
OvershootBounded ==
    \A t \in 0..MaxTime : Cardinality(ArrivedIn(t)) <= Max + Cardinality(Calls) - 1

\* A ceremony is asked to seal only where there was no lease, and a reseal names a
\* version that the agent had since the request came: a failed read never turns into
\* a seal (api.ts:232-255; SECURITY-AUDIT.md:96-98).
NeverDowngraded ==
    \A c \in Calls : call[c].mode # "none" =>
        /\ call[c].mode = "SEAL" <=> call[c].version = 0
        /\ call[c].mode = "SEAL" => call[c].found = 0
        /\ call[c].version >= call[c].found

=============================================================================
