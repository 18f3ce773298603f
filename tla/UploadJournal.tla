--------------------------- MODULE UploadJournal ---------------------------
(***************************************************************************)
(* Evidence storage (server/prooflock/storage.ts): one call of             *)
(* persistVerifiedEvidence per evidence, the journal file of its root, the *)
(* 0G Flow contract that is paid for the upload, and the storage nodes the *)
(* bytes are read back from.  upload[c].pc is the await the call is at; a  *)
(* journal write is one step, because writeJournalFile makes the new file  *)
(* durable under another name and renames it.                              *)
(***************************************************************************)
EXTENDS Naturals

CONSTANTS
    Roots,       \* storage roots, one per evidence
    Uploads,     \* calls of persistVerifiedEvidence that may be under way
    Txs,         \* transactions the network may still take
    NoRoot, NoTx,
    Faults,      \* what may go wrong: "fails", "drops", "corrupts", "foreign"
    MaxCrashes   \* bound: how often the process dies

\* What stands for nothing is no value.
ASSUME UploadAssumption == NoRoot \notin Roots /\ NoTx \notin Txs /\ MaxCrashes \in Nat

VARIABLES
    journal,    \* the journal file of each root
    upload,     \* what each call waits for
    flow,       \* the network's view of each transaction
    stored,     \* what the storage nodes answer for each root
    committed,  \* history: the transaction of the last commitment returned
    crashes

uploadVars == <<journal, upload, flow, stored, committed, crashes>>

Pcs == {"idle", "staging", "preparing", "uploading", "sent", "draining",
        "confirming", "retrieving", "cleaning"}
Entry == [status : {"NONE", "PREPARED", "SUBMITTED", "FINALIZED"}, tx : Txs \cup {NoTx}]
UploadState == [pc : Pcs, root : Roots \cup {NoRoot}, tx : Txs \cup {NoTx}, ok : BOOLEAN]
Idle == [pc |-> "idle", root |-> NoRoot, tx |-> NoTx, ok |-> FALSE]

\* data: the bytes reached the storage nodes.  heard is a history variable: the
\* journal took the hash.
FlowTx == [root : Roots \cup {NoRoot}, heard : BOOLEAN, data : BOOLEAN,
           state : {"unused", "pending", "mined", "reverted", "dropped"}]

UploadInit ==
    /\ journal = [r \in Roots |-> [status |-> "NONE", tx |-> NoTx]]
    /\ upload = [c \in Uploads |-> Idle]
    /\ flow = [t \in Txs |-> [root |-> NoRoot, heard |-> FALSE, data |-> FALSE, state |-> "unused"]]
    /\ stored = [r \in Roots |-> "absent"]
    /\ committed = [r \in Roots |-> NoTx]
    /\ crashes = 0

AtAwait(c, pc) == upload[c].pc = pc
Move(c, pc) == upload' = [upload EXCEPT ![c].pc = pc]
Root(c) == upload[c].root

\* Every error leaves through the finally block, which removes the files.
FailUpload(c) == upload' = [upload EXCEPT ![c].pc = "cleaning", ![c].ok = FALSE]
Record(r, status, t) == journal' = [journal EXCEPT ![r] = [status |-> status, tx |-> t]]

-----------------------------------------------------------------------------
(* The stages of a call *)

\* The runner stores an envelope once per operation, and no two operations
\* share an envelope (production-operator.ts:404-425): one live call a root.
BeginUpload(c, r) ==
    /\ AtAwait(c, "idle")
    /\ \A d \in Uploads : Root(d) # r
    /\ upload' = [upload EXCEPT ![c] = [Idle EXCEPT !.pc = "staging", !.root = r]]
    /\ UNCHANGED <<journal, flow, stored, committed, crashes>>

\* A slip: only a finalized upload is recognised.
ReusableWhenFinalized(entry) == entry.tx # NoTx /\ entry.status = "FINALIZED"

\* The journal holds a transaction that the call can wait for.
Reusable(entry) == entry.tx # NoTx /\ entry.status # "PREPARED"

ResolveUpload(c) ==
    /\ AtAwait(c, "staging")
    /\ LET entry == journal[Root(c)] IN
         upload' = [upload EXCEPT
             ![c].pc = IF Reusable(entry) THEN "confirming" ELSE "preparing",
             ![c].tx = IF Reusable(entry) THEN entry.tx ELSE NoTx]
    /\ UNCHANGED <<journal, flow, stored, committed, crashes>>

RecordPrepared(c) ==
    /\ AtAwait(c, "preparing")
    /\ Record(Root(c), "PREPARED", NoTx)
    /\ Move(c, "uploading")
    /\ UNCHANGED <<flow, stored, committed, crashes>>

\* The SDK sends the Flow transaction; the call does not know its hash yet.
SdkUpload(c, t) ==
    /\ AtAwait(c, "uploading") /\ flow[t].state = "unused"
    /\ flow' = [flow EXCEPT ![t] = [root |-> Root(c), heard |-> FALSE, data |-> FALSE,
                                    state |-> "pending"]]
    /\ upload' = [upload EXCEPT ![c].pc = "sent", ![c].tx = t]
    /\ UNCHANGED <<journal, stored, committed, crashes>>

\* The SDK's progress callback, which the SDK does not wait for.
RecordBroadcast(c) ==
    /\ AtAwait(c, "sent")
    /\ Record(Root(c), "SUBMITTED", upload[c].tx)
    /\ flow' = [flow EXCEPT ![upload[c].tx].heard = TRUE]
    /\ Move(c, "draining")
    /\ UNCHANGED <<stored, committed, crashes>>

\* The SDK sends the bytes once the transaction is mined.
SdkSegments(c) ==
    /\ AtAwait(c, "draining")
    /\ flow[upload[c].tx].state = "mined" /\ ~flow[upload[c].tx].data
    /\ flow' = [flow EXCEPT ![upload[c].tx].data = TRUE]
    /\ UNCHANGED <<journal, upload, stored, committed, crashes>>

\* The upload returned, which it does when the nodes hold the bytes: hash, root, chain and Flow address are the expected ones.
ValidateUpload(c) ==
    /\ AtAwait(c, "draining") /\ flow[upload[c].tx].data
    /\ Record(Root(c), "SUBMITTED", upload[c].tx)
    /\ flow' = [flow EXCEPT ![upload[c].tx].heard = TRUE]
    /\ Move(c, "confirming")
    /\ UNCHANGED <<stored, committed, crashes>>

\* A slip: any mined receipt will do.
ReceiptMined(c) == flow[upload[c].tx].state \in {"mined", "reverted"}

\* Status, depth, target, and one Submit event and call data for this root.
ReceiptValid(c) ==
    /\ flow[upload[c].tx].state = "mined"
    /\ flow[upload[c].tx].root = Root(c)

FinalizeUpload(c) ==
    /\ AtAwait(c, "confirming") /\ ReceiptValid(c)
    /\ Record(Root(c), "FINALIZED", upload[c].tx)
    /\ Move(c, "retrieving")
    /\ UNCHANGED <<flow, stored, committed, crashes>>

\* No receipt in time, a reverted one, or one of another submission.
FinalizeFails(c) ==
    /\ AtAwait(c, "confirming") /\ ~ReceiptValid(c)
    /\ FailUpload(c)
    /\ UNCHANGED <<journal, flow, stored, committed, crashes>>

\* Bytes, digest and root of the download are compared with the evidence.
Retrieved(c) == stored[Root(c)] = "exact"

VerifyRetrieved(c) ==
    /\ AtAwait(c, "retrieving")
    /\ upload' = [upload EXCEPT ![c].pc = "cleaning", ![c].ok = Retrieved(c)]
    /\ UNCHANGED <<journal, flow, stored, committed, crashes>>

\* The files are removed before the caller gets its answer; a verified result
\* whose cleanup failed is withheld.
Cleanup(c, removed) ==
    /\ AtAwait(c, "cleaning")
    /\ removed \/ "fails" \in Faults
    /\ committed' = IF upload[c].ok /\ removed
                    THEN [committed EXCEPT ![Root(c)] = upload[c].tx] ELSE committed
    /\ upload' = [upload EXCEPT ![c] = Idle]
    /\ UNCHANGED <<journal, flow, stored, crashes>>

\* A dependency rejects: the layout, a file, the journal, the SDK before or after it
\* sent, the receipt query, the download.  What was journaled stays.
StageFails(c) ==
    /\ "fails" \in Faults
    /\ upload[c].pc \notin {"idle", "cleaning"}
    /\ FailUpload(c)
    /\ UNCHANGED <<journal, flow, stored, committed, crashes>>

-----------------------------------------------------------------------------
(* The process, the network and the storage nodes *)

UploadCrash ==
    /\ crashes < MaxCrashes
    /\ crashes' = crashes + 1
    /\ upload' = [c \in Uploads |-> Idle]
    /\ UNCHANGED <<journal, flow, stored, committed>>

Mine(t) ==
    /\ flow[t].state = "pending"
    /\ flow' = [flow EXCEPT ![t].state = "mined"]
    /\ UNCHANGED <<journal, upload, stored, committed, crashes>>

Lose(t, how) ==
    /\ "drops" \in Faults /\ flow[t].state = "pending"
    /\ flow' = [flow EXCEPT ![t].state = how]
    /\ UNCHANGED <<journal, upload, stored, committed, crashes>>

\* Storage nodes serve a root once they hold its bytes, from here or from whoever else
\* uploaded them; a node that answers wrongly at first comes round.
Serve(r, what) ==
    /\ what = "exact" \/ ("corrupts" \in Faults /\ stored[r] = "absent")
    /\ "foreign" \in Faults \/ \E t \in Txs : flow[t].root = r /\ flow[t].data
    /\ stored[r] # what
    /\ stored' = [stored EXCEPT ![r] = what]
    /\ UNCHANGED <<journal, upload, flow, committed, crashes>>

UploadStep(c) ==
    \/ \E r \in Roots : BeginUpload(c, r)
    \/ ResolveUpload(c) \/ RecordPrepared(c)
    \/ \E t \in Txs : SdkUpload(c, t)
    \/ RecordBroadcast(c) \/ SdkSegments(c) \/ ValidateUpload(c)
    \/ FinalizeUpload(c) \/ FinalizeFails(c) \/ VerifyRetrieved(c)
    \/ \E removed \in BOOLEAN : Cleanup(c, removed)
    \/ StageFails(c)

NetworkStep ==
    \/ \E t \in Txs : Mine(t) \/ \E how \in {"reverted", "dropped"} : Lose(t, how)
    \/ \E r \in Roots, what \in {"exact", "other"} : Serve(r, what)

UploadNext == (\E c \in Uploads : UploadStep(c)) \/ NetworkStep \/ UploadCrash

UploadSpec == UploadInit /\ [][UploadNext]_uploadVars

\* Every await of a call ends.  A stage that is reached again and again does
\* not fail for ever, someone asks again for an upload that is not committed,
\* the network mines what it holds, and the nodes end up with the bytes.
UploadFairness ==
    /\ \A c \in Uploads :
         /\ WF_uploadVars(ResolveUpload(c) \/ RecordPrepared(c) \/ RecordBroadcast(c)
                      \/ SdkSegments(c) \/ ValidateUpload(c) \/ FinalizeFails(c))
         /\ SF_uploadVars(ResolveUpload(c)) /\ SF_uploadVars(FinalizeUpload(c))
         /\ SF_uploadVars(VerifyRetrieved(c)) /\ WF_uploadVars(Cleanup(c, TRUE))
         /\ SF_uploadVars(upload[c].ok /\ Cleanup(c, TRUE))
    /\ \A r \in Roots : WF_uploadVars(\E c \in Uploads : BeginUpload(c, r)) /\ WF_uploadVars(Serve(r, "exact"))
    /\ \A t \in Txs : WF_uploadVars(Mine(t))

FairUploadSpec == UploadSpec /\ UploadFairness

-----------------------------------------------------------------------------
(* Properties *)

\* The variables have their types.
UploadTypeOK ==
    /\ journal \in [Roots -> Entry]
    /\ upload \in [Uploads -> UploadState]
    /\ flow \in [Txs -> FlowTx]
    /\ stored \in [Roots -> {"absent", "exact", "other"}]
    /\ committed \in [Roots -> Txs \cup {NoTx}]
    /\ crashes \in 0..MaxCrashes

\* A broadcast that the journal took stays the journal's transaction of its root,
\* whatever fails or dies afterwards: no retry pays for the same evidence again
\* (resolveUpload, storage.ts:335-342).
JournaledBroadcastIsKept ==
    \A t \in Txs : flow[t].heard =>
        /\ journal[flow[t].root].tx = t
        /\ journal[flow[t].root].status \in {"SUBMITTED", "FINALIZED"}

\* A commitment that reached a caller names a transaction that was mined for the
\* root, that the journal holds as final, and no transaction replaces it later
\* (persistVerifiedEvidence, storage.ts:188-206).
CommitmentIsFinal ==
    \A r \in Roots : committed[r] # NoTx =>
        /\ journal[r] = [status |-> "FINALIZED", tx |-> committed[r]]
        /\ flow[committed[r]].root = r /\ flow[committed[r]].state = "mined"

\* A transaction that was journaled and whose bytes reached the nodes ends in a
\* commitment with this very transaction, through failed stages and a crash.
DeliveredUploadIsCommitted ==
    \A t \in Txs, r \in Roots :
        flow[t].root = r /\ flow[t].heard /\ flow[t].data ~> committed[r] = t

=============================================================================
