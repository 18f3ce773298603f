--------------------------- MODULE AdmissionPass ----------------------------
(***************************************************************************)
(* What the lease contracts promise a consumer, without addresses, clocks, *)
(* scores or reason codes: a pass per identity that is open, suspended or  *)
(* closed for good, renumbered whenever it is issued again, and admissions *)
(* that are only ever granted under a pass that is open at that moment.    *)
(***************************************************************************)
EXTENDS Naturals

CONSTANT Holders   \* who may be issued a pass

VARIABLES
  status,      \* of the pass of each holder
  version,     \* of the pass of each holder
  admissions,  \* how many admissions there were
  lastVersion  \* the version of the last one

passVars == <<status, version, admissions, lastVersion>>

PassInit ==
  /\ status = [h \in Holders |-> "none"]
  /\ version = [h \in Holders |-> 0]
  /\ admissions = 0
  /\ lastVersion = 0

\* A new pass, or a new version of one that was not closed.
Issue(h) ==
  /\ status[h] # "closed"
  /\ status' = [status EXCEPT ![h] = "open"]
  /\ version' = [version EXCEPT ![h] = @ + 1]
  /\ UNCHANGED <<admissions, lastVersion>>

Suspend(h) ==
  /\ status[h] = "open"
  /\ status' = [status EXCEPT ![h] = "suspended"]
  /\ UNCHANGED <<version, admissions, lastVersion>>

Close(h) ==
  /\ status[h] \in {"open", "suspended"}
  /\ status' = [status EXCEPT ![h] = "closed"]
  /\ UNCHANGED <<version, admissions, lastVersion>>

Admit(h) ==
  /\ status[h] = "open"
  /\ admissions' = admissions + 1
  /\ lastVersion' = version[h]
  /\ UNCHANGED <<status, version>>

PassNext == \E h \in Holders : Issue(h) \/ Suspend(h) \/ Close(h) \/ Admit(h)

PassSpec == PassInit /\ [][PassNext]_passVars
=============================================================================
