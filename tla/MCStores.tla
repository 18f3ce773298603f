------------------------------ MODULE MCStores ------------------------------
(***************************************************************************)
(* Small instances of what the server keeps or finds on disk and on chain: *)
(* the receipt claims, the upload journal and the search for an upload.    *)
(* The three share no state; part says which of them a behaviour runs,     *)
(* while the others rest.                                                  *)
(***************************************************************************)
EXTENDS ReceiptClaims, UploadJournal, TLC

CONSTANTS FromBlock, Heads, Chunk, Confirmations

ASSUME StorageSearchAssumption ==
    FromBlock \in Nat /\ Heads \subseteq Nat /\ Chunk \in Nat \ {0} /\ Confirmations \in Nat \ {0}

VARIABLES part, chain, latest, end, found, result, queried

Search == INSTANCE StorageRecovery

searchVars == <<chain, latest, end, found, result, queried>>
storesVars == <<part, vars, uploadVars, searchVars>>

SearchRests ==
    /\ latest = FromBlock /\ chain = [b \in {FromBlock} |-> "other"]
    /\ end = latest /\ found = FALSE /\ result = Search!Answer("searching")
    /\ queried = [b \in {FromBlock} |-> 0]

StoresInit ==
    /\ part \in {"receipts", "upload", "search"}
    /\ Init /\ (part # "receipts" => \A b \in Calls : call[b] = call[CHOOSE c \in Calls : TRUE])
    /\ UploadInit
    /\ IF part = "search" THEN Search!Init ELSE SearchRests

ReceiptsStep == part = "receipts" /\ Next /\ UNCHANGED <<part, uploadVars, searchVars>>
UploadsStep  == part = "upload" /\ UploadNext /\ UNCHANGED <<part, vars, searchVars>>
SearchStep   == part = "search" /\ Search!Next /\ UNCHANGED <<part, vars, uploadVars>>

StoresNext == ReceiptsStep \/ UploadsStep \/ SearchStep

StoresSpec ==
    /\ StoresInit /\ [][StoresNext]_storesVars
    /\ WF_vars(Tick)
    /\ part = "upload" => UploadFairness

ChunksMatchOnePass == Search!ChunksMatchOnePass
SmallHeads == 1..5
=============================================================================
