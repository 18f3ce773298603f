-------------------------- MODULE SerializedWrites --------------------------
(***************************************************************************)
(* What the write ceremony promises: per identity one operation at a time  *)
(* holds the right to write, it sends at most one transaction, and it lets *)
(* go only with an outcome that is what became of that transaction.        *)
(***************************************************************************)
CONSTANTS Operations, Targets, NoOne

VARIABLES
  holder,   \* the operation that may write each identity
  fate,     \* of the one transaction of each operation
  outcome   \* what the operation was closed with

writeVars == <<holder, fate, outcome>>

WritesInit ==
  /\ holder = [i \in Targets |-> NoOne]
  /\ fate = [k \in Operations |-> "none"]
  /\ outcome = [k \in Operations |-> "none"]

Open(k, i) ==
  /\ holder[i] = NoOne
  /\ outcome[k] = "none" /\ fate[k] = "none"
  /\ holder' = [holder EXCEPT ![i] = k]
  /\ UNCHANGED <<fate, outcome>>

Send(k, i) ==
  /\ holder[i] = k
  /\ fate[k] = "none"
  /\ fate' = [fate EXCEPT ![k] = "sent"]
  /\ UNCHANGED <<holder, outcome>>

Land(k) ==
  /\ fate[k] = "sent"
  /\ \E end \in {"mined", "reverted", "dropped"} : fate' = [fate EXCEPT ![k] = end]
  /\ UNCHANGED <<holder, outcome>>

Close(k, i) ==
  /\ holder[i] = k
  /\ holder' = [holder EXCEPT ![i] = NoOne]
  /\ \E o \in {<<"none", "NOT_BROADCAST">>, <<"mined", "SEALED">>, <<"reverted", "REVERTED">>} :
       /\ fate[k] = o[1]
       /\ outcome' = [outcome EXCEPT ![k] = o[2]]
  /\ UNCHANGED fate

WritesNext ==
  \E k \in Operations :
    \/ Land(k)
    \/ \E i \in Targets : Open(k, i) \/ Send(k, i) \/ Close(k, i)

WritesSpec == WritesInit /\ [][WritesNext]_writeVars
=============================================================================
