--------------------------- MODULE LeaseLifecycle ---------------------------
(***************************************************************************)
(* What everyone who reads or writes leases may assume of them: a lease is *)
(* written version by version, each active at first, then drifted or       *)
(* revoked, and never written again once it was revoked.                   *)
(***************************************************************************)
EXTENDS Naturals

CONSTANT Names

VARIABLE record  \* of each name: the version of its lease and the state of that

Withdrawals ==
  {<<"ACTIVE", "DRIFTED">>, <<"ACTIVE", "REVOKED">>, <<"DRIFTED", "REVOKED">>}

LifecycleInit == record = [n \in Names |-> [version |-> 0, state |-> "NONE"]]

Write(n) ==
  /\ record[n].state # "REVOKED"
  /\ record' = [record EXCEPT ![n] =
                  [version |-> record[n].version + 1, state |-> "ACTIVE"]]

Withdraw(n, state) ==
  /\ <<record[n].state, state>> \in Withdrawals
  /\ record' = [record EXCEPT ![n] = [version |-> record[n].version, state |-> state]]

LifecycleNext ==
  \E n \in Names : Write(n) \/ \E state \in {"DRIFTED", "REVOKED"} : Withdraw(n, state)

LifecycleSpec == LifecycleInit /\ [][LifecycleNext]_record
=============================================================================
