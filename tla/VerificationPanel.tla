-------------------------- MODULE VerificationPanel --------------------------
(***************************************************************************)
(* The verification control of a page: the sealed proof is matched first,  *)
(* then the current access is read, each request under a timer, while the  *)
(* visitor cancels, retries or goes to another proof.                      *)
(***************************************************************************)
EXTENDS Naturals, FiniteSets

CONSTANTS Proofs, NoProof,
          MaxStarts     \* bound on the generations

VARIABLES
    view,        \* verificationReducer: the page
    mounted, generation, identifiers, \* VerificationCoordinator
    historical, current,              \* its open request on each plane: its generation, or 0
    inflight     \* answers that may still come, those of closed requests too

vars == <<view, mounted, generation, identifiers, historical, current, inflight>>

HistoricalFailures == {"MISMATCH", "HINT_REQUIRED", "UNAVAILABLE"}
CurrentResults == {"ADMITTED", "BLOCKED", "UNAVAILABLE"}
Busy == {"VERIFYING", "RETRYING"}
Blank(gen) == [gen |-> gen, historical |-> "IDLE", current |-> "IDLE", proof |-> NoProof, read |-> NoProof]

-----------------------------------------------------------------------------
(* verificationReducer.  proof and read say whose answer the page shows. *)

Reset(v, gen) == IF gen <= v.gen THEN v ELSE Blank(gen)
Started(v, gen, retry) ==
    IF gen <= v.gen THEN v ELSE [Blank(gen) EXCEPT !.historical = IF retry THEN "RETRYING" ELSE "VERIFYING"]
HistoricalShown(v, gen, status, proof) ==
    IF gen = v.gen /\ v.historical \in Busy
    THEN [v EXCEPT !.historical = status, !.proof = proof, !.current = "IDLE"] ELSE v
CurrentStarted(v, gen) ==
    IF gen = v.gen /\ v.historical = "MATCH" /\ v.current = "IDLE" THEN [v EXCEPT !.current = "READING"] ELSE v
CurrentShown(v, gen, status, proof) ==
    IF gen = v.gen /\ v.historical = "MATCH" /\ v.current = "READING"
    THEN [v EXCEPT !.current = status, !.read = proof] ELSE v

-----------------------------------------------------------------------------
(* VerificationCoordinator.  Closing the requests leaves their answers in flight. *)

AbortAll == historical' = 0 /\ current' = 0

SetIdentifiers(p) ==
    /\ generation < MaxStarts
    /\ mounted' = TRUE
    /\ IF mounted /\ identifiers = p THEN UNCHANGED <<view, generation, identifiers, historical, current>>
       ELSE /\ AbortAll /\ identifiers' = p /\ generation' = generation + 1
            /\ view' = Reset(view, generation + 1)
    /\ UNCHANGED inflight

Open(plane, gen) == inflight' = inflight \cup {[plane |-> plane, gen |-> gen, proof |-> identifiers]}

Start(retry) ==
    /\ mounted /\ identifiers # NoProof /\ generation < MaxStarts
    /\ generation' = generation + 1 /\ historical' = generation' /\ current' = 0
    /\ view' = Started(view, generation', retry) /\ Open("historical", generation')
    /\ UNCHANGED <<mounted, identifiers>>

Dispose ==
    /\ mounted /\ mounted' = FALSE /\ generation' = generation + 1 /\ AbortAll
    /\ UNCHANGED <<view, identifiers, inflight>>

Active(plane, gen) ==
    mounted /\ gen = generation /\ gen = IF plane = "historical" THEN historical ELSE current

\* verifyHistorical has answered: a match goes on to the current plane at once.
HistoricalAnswers(r, status) ==
    /\ r \in inflight /\ r.plane = "historical"
    /\ IF ~Active("historical", r.gen)
       THEN UNCHANGED <<view, historical, current>> /\ inflight' = inflight \ {r}
       ELSE /\ historical' = 0
            /\ IF status = "MATCH"
               THEN /\ view' = CurrentStarted(HistoricalShown(view, r.gen, "MATCH", r.proof), r.gen)
                    /\ current' = r.gen
                    /\ inflight' = (inflight \ {r}) \cup {[plane |-> "current", gen |-> r.gen, proof |-> identifiers]}
               ELSE /\ view' = HistoricalShown(view, r.gen, status, NoProof)
                    /\ inflight' = inflight \ {r} /\ UNCHANGED current
    /\ UNCHANGED <<mounted, generation, identifiers>>

CurrentAnswers(r, status) ==
    /\ r \in inflight /\ r.plane = "current" /\ inflight' = inflight \ {r}
    /\ IF Active("current", r.gen) THEN current' = 0 /\ view' = CurrentShown(view, r.gen, status, r.proof)
       ELSE UNCHANGED <<view, current>>
    /\ UNCHANGED <<mounted, generation, identifiers, historical>>

\* timeoutPlane, cancelPlane
Closed(plane, status) ==
    IF plane = "historical"
    THEN historical' = 0 /\ view' = HistoricalShown(view, generation, status, NoProof) /\ UNCHANGED current
    ELSE current' = 0 /\ view' = CurrentShown(view, generation, status, NoProof) /\ UNCHANGED historical

Gives(plane, status) ==
    /\ Active(plane, IF plane = "historical" THEN historical ELSE current)
    /\ Closed(plane, status) /\ UNCHANGED <<mounted, generation, identifiers, inflight>>

Init ==
    /\ view = Blank(0) /\ mounted = TRUE /\ generation = 0 /\ identifiers = NoProof
    /\ historical = 0 /\ current = 0 /\ inflight = {}

Next ==
    \/ \E p \in Proofs : SetIdentifiers(p)
    \/ \E retry \in BOOLEAN : Start(retry)
    \/ Dispose
    \/ \E r \in inflight : (\E status \in HistoricalFailures \cup {"MATCH"} : HistoricalAnswers(r, status))
                          \/ (\E status \in CurrentResults : CurrentAnswers(r, status))
    \/ \E plane \in {"historical", "current"}, status \in {"TIMEOUT", "CANCELED"} : Gives(plane, status)

\* What a mounted page shows was asked about the proof it stands for, a late answer never shows, and
\* a plane that is busy has the request, and with it the timer, that will end it.
PanelAnswersItsQuestion ==
    mounted =>
        /\ view.historical = "MATCH" => view.proof = identifiers
        /\ view.read \in {NoProof, identifiers} /\ (view.read # NoProof => view.historical = "MATCH")
        /\ view.historical \in Busy => historical = view.gen /\ Active("historical", historical)
        /\ view.current = "READING" => current = view.gen /\ Active("current", current)
=============================================================================
