----------------------------- MODULE SealedReads -----------------------------
(***************************************************************************)
(* Requests for a sealed proof (server/prooflock/api.ts and read-api.ts):  *)
(* the lease with its evidence, identity, gate and consumer, read one      *)
(* behind the other at the head of the chain, beside the current access    *)
(* when an agent is named; and the verification of an old proof.           *)
(***************************************************************************)
EXTENDS Naturals, FiniteSets

CONSTANTS
    Wallets, NoWallet,
    Signers,      \* keys that the live compute service may have
    MaxVersion,   \* bound: reseals
    MaxMoments    \* bound: moments that a request may see

VARIABLES
    lease, wallet, \* of the identity that is asked for
    signer,        \* of the live compute service
    moments,       \* history: version, wallet and admission since the request began
    signers,       \* history: the service's keys since then
    call

vars == <<lease, wallet, signer, moments, signers, call>>

Kinds == {"sealed", "current", "verify"}
Proofs == {"behavioral-risk", "contract-risk"}
Versions == 1..MaxVersion

\* What a storage node may deliver: the bytes of a version, under the digest and root of
\* one, sealed for a wallet and signed by the key the service had.
Bytes == [digest : Versions, root : Versions, lease : Versions, wallet : Wallets, signer : Signers]
NoBytes == [lease |-> 0]

Unknown == [status |-> "UNKNOWN"]
Unavailable(code) == [status |-> "UNAVAILABLE", code |-> code]
NoDetail == [status |-> "none"]
NoLease == [version |-> 0, active |-> FALSE, subject |-> NoWallet]
Idle == [kind |-> "sealed", pc |-> "idle", record |-> NoLease, bytes |-> NoBytes, wallet |-> NoWallet,
         gate |-> Unknown, checked |-> {}, detail |-> NoDetail, access |-> "none", answer |-> "none"]

Admitted(l, w) == l.active /\ l.subject = w
Moment(l, w) == [version |-> l.version, wallet |-> w, allowed |-> Admitted(l, w)]

Init ==
    /\ wallet \in Wallets /\ signer \in Signers
    /\ lease = [version |-> 1, active |-> TRUE, subject |-> wallet]
    /\ moments = {} /\ signers = {} /\ call = Idle

World == UNCHANGED <<lease, wallet, signer, moments, signers>>
At(pc) == call.pc = pc
Goto(pc) == call' = [call EXCEPT !.pc = pc] /\ World
Fails ==
    /\ call' = [Idle EXCEPT !.pc = "answered", !.answer = "error"]
    /\ moments' = {} /\ signers' = {} /\ UNCHANGED <<lease, wallet, signer>>
Detailed(detail) == call' = [call EXCEPT !.pc = "detailed", !.detail = detail] /\ World

\* Requests share nothing, so that one stands for all.
Ask(kind) ==
    /\ call.pc = "idle"
    /\ call' = [Idle EXCEPT !.kind = kind, !.pc = IF kind = "verify" THEN "locate" ELSE "record"]
    /\ moments' = IF kind = "verify" THEN {} ELSE {Moment(lease, wallet)}
    /\ signers' = IF kind = "verify" THEN {signer} ELSE {}
    /\ UNCHANGED <<lease, wallet, signer>>

-----------------------------------------------------------------------------
(* The lease and what is shown beside it *)

\* readProofLock; boundedLegacyDetail and the current access start side by side.
ReadProofLock ==
    /\ At("record")
    /\ call' = [call EXCEPT !.pc = "evidence", !.record = lease,
                            !.access = IF call.kind = "current" THEN "pending" ELSE "ok"]
    /\ World

EnvelopeBinds(b, record) == b.digest = record.version /\ b.root = record.version /\ b.lease = record.version

\* recoverDetailEnvelope: the digest, the root, the record and the sealed identity.
RecoverDetailEnvelope(b) ==
    /\ At("evidence")
    /\ IF EnvelopeBinds(b, call.record) /\ b.wallet = call.record.subject
       THEN call' = [call EXCEPT !.pc = "identity", !.bytes = b] /\ World
       ELSE Detailed(Unavailable("EVIDENCE_INVALID"))

ResolveDetailIdentity ==
    /\ At("identity")
    /\ IF wallet = NoWallet THEN Detailed(Unavailable("IDENTITY_UNAVAILABLE"))
       ELSE call' = [call EXCEPT !.pc = "gate", !.wallet = wallet] /\ World

\* A slip: the gate may answer for another version than the one that is shown.
ValidGateResultAnyVersion(result) == result.wallet = call.wallet

\* validGateResult: the gate speaks of the wallet that was resolved and of the lease shown.
ValidGateResult(result) == result.wallet = call.wallet /\ result.version = call.record.version

ReadGateDetail ==
    /\ At("gate")
    /\ LET result == Moment(lease, wallet) IN
         call' = [call EXCEPT !.pc = "consumer", !.gate = IF ValidGateResult(result) THEN result ELSE Unknown]
    /\ World

Verified(consumer) ==
    [status |-> "VERIFIED", wallet |-> call.wallet, gate |-> call.gate, consumer |-> consumer]

\* readConsumerDetail: acceptAgent called from the resolved wallet must agree with the gate.
ReadConsumerDetail ==
    /\ At("consumer")
    /\ LET accepted == Admitted(lease, wallet) /\ wallet = call.wallet IN
         Detailed(Verified(IF call.gate = Unknown \/ accepted # call.gate.allowed THEN Unknown ELSE call.gate))

\* One of these reads fails; its part alone is unknown or unavailable.
DetailReadFails ==
    \/ At("evidence") /\ Detailed(Unavailable("EVIDENCE_UNAVAILABLE"))
    \/ At("identity") /\ Detailed(Unavailable("IDENTITY_UNAVAILABLE"))
    \/ At("gate") /\ Goto("consumer")
    \/ At("consumer") /\ Detailed(Verified(Unknown))

Enriching == call.pc \in {"evidence", "identity", "gate", "consumer"}

\* boundedLegacyDetail: its own timer, and a late answer finds it settled.
DetailTimesOut ==
    /\ Enriching /\ call.kind = "current"
    /\ Detailed(Unavailable("EVIDENCE_UNAVAILABLE"))

AccessSettles(outcome) ==
    /\ call.access = "pending"
    /\ IF outcome = "failed" THEN Fails  \* and the detail is aborted
       ELSE call' = [call EXCEPT !.access = "ok"] /\ World

Respond ==
    /\ At("detailed") /\ call.access = "ok"
    /\ call' = [call EXCEPT !.pc = "answered", !.answer = "200"] /\ World

-----------------------------------------------------------------------------
(* verifyProof *)

\* The locator finds the record of any version; its proof id is computed again.
ReadProofById(v, subject) ==
    /\ At("locate") /\ v <= lease.version
    /\ call' = [call EXCEPT !.pc = "bytes",
                            !.record = [version |-> v, active |-> TRUE, subject |-> subject]]
    /\ World

\* verifyStorageEvidence up to the live services.
DownloadProofEvidence(b) ==
    /\ At("bytes")
    /\ IF EnvelopeBinds(b, call.record) THEN call' = [call EXCEPT !.pc = "compute", !.bytes = b] /\ World
       ELSE Fails

\* Each proof looks its live service up, both at once; verifyOfflineComputeProof.
ResolveService(p) ==
    /\ At("compute") /\ p \in Proofs \ call.checked
    /\ IF call.bytes.signer = signer THEN call' = [call EXCEPT !.checked = @ \cup {p}] /\ World
       ELSE Fails

RecoverCommitment(artifact) ==
    /\ At("compute") /\ call.checked = Proofs
    /\ IF artifact # call.record.version THEN Fails
       ELSE call' = [call EXCEPT !.pc = "answered", !.answer = "200"] /\ World

\* The client goes, the deadline strikes, or a read of verifyProof fails.
Aborts == call.pc \notin {"idle", "answered"} /\ Fails

-----------------------------------------------------------------------------
(* The world, until the request is answered *)

Changed(l, w, s) ==
    /\ ~At("answered") /\ Cardinality(moments) < MaxMoments
    /\ lease' = l /\ wallet' = w /\ signer' = s
    /\ moments' = IF moments = {} THEN {} ELSE moments \cup {Moment(l, w)}
    /\ signers' = IF signers = {} THEN {} ELSE signers \cup {s}
    /\ UNCHANGED call

Reseal   == /\ lease.version < MaxVersion /\ wallet # NoWallet
            /\ Changed([version |-> lease.version + 1, active |-> TRUE, subject |-> wallet], wallet, signer)
Withdraw == lease.active /\ Changed([lease EXCEPT !.active = FALSE], wallet, signer)
SetWallet(w) == w # wallet /\ Changed(lease, w, signer)
\* Only a verification reads the key.
RotateSigner(s) == call.kind = "verify" /\ s # signer /\ Changed(lease, wallet, s)

Next ==
    \/ \E kind \in Kinds : Ask(kind)
    \/ ReadProofLock \/ ResolveDetailIdentity \/ ReadGateDetail \/ ReadConsumerDetail \/ DetailReadFails
    \/ DetailTimesOut \/ Respond \/ Aborts
    \/ \E b \in Bytes : RecoverDetailEnvelope(b) \/ DownloadProofEvidence(b)
    \/ \E outcome \in {"ok", "failed"} : AccessSettles(outcome)
    \/ \E v \in Versions, w \in Wallets : ReadProofById(v, w)
    \/ \E p \in Proofs : ResolveService(p)
    \/ \E artifact \in Versions : RecoverCommitment(artifact)
    \/ Reseal \/ Withdraw
    \/ \E w \in Wallets \cup {NoWallet} : SetWallet(w)
    \/ \E s \in Signers : RotateSigner(s)

Spec == Init /\ [][Next]_vars

-----------------------------------------------------------------------------
(* Properties *)

\* Whatever is resealed, withdrawn or renamed between the four reads of a request, the
\* gate and the consumer that are shown beside a lease answered, at one moment of the
\* request, for the version and the wallet they are shown with; and evidence that is
\* shown or called verified is that of this lease, under a key that the service had
\* during the request (read-api.ts:188-204, :316-355 and :666-675).
ShownIsOfOneMoment ==
    call.answer = "200" =>
      /\ call.kind # "verify" /\ call.detail.status = "VERIFIED" =>
           /\ EnvelopeBinds(call.bytes, call.record)
           /\ \A shown \in {call.detail.gate, call.detail.consumer} \ {Unknown} :
                /\ shown \in moments
                /\ shown.version = call.record.version /\ shown.wallet = call.detail.wallet
      /\ call.kind = "verify" =>
           EnvelopeBinds(call.bytes, call.record) /\ call.bytes.signer \in signers
=============================================================================
