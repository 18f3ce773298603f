----------------------------- MODULE MCServices -----------------------------
(***************************************************************************)
(* Small instances of what the operator runs beside the ceremony.          *)
(***************************************************************************)
EXTENDS DriftCheck, TLC

CONSTANTS w1, w2, h1, o1, g1, g2

\* One identity whose account delegates, two registrations, two policies.
SealedFingerprints ==
    {fp \in Fingerprint : ValidShape(fp) /\ fp.subjectKind = Kind[fp.runtimeCodeHash]}
Inputs == [evidence : Evidence, expectedRuntimeCodeHash : CodeHashes \cup {ZeroHash},
           validForSeconds : {1}, policyVersion : {1}, behavioralScore : {0},
           codeRisk : {0}, coverage : {REQUIRED_COVERAGE}]
Delegated == [h \in CodeHashes \cup {ZeroHash} |->
                IF h = ZeroHash THEN "EOA" ELSE "EIP7702_DELEGATED_EOA"]

ServicesSpec == DriftSpec /\ DriftFairness
=============================================================================
