-------------------------- MODULE MCWriteCeremony ---------------------------
(* Small instances of the write ceremony.                                  *)
EXTENDS WriteCeremony, TLC

CONSTANTS k1, k2, i1, i2

Request(key, identity, prior) ==
  [key |-> key, identity |-> identity, prior |-> prior]

\* The first seal, the same key again, another key for the same version, and
\* a reseal of version 1 under the second key.
MCRequests == {Request(k1, i1, 0), Request(k2, i1, 0), Request(k2, i1, 1)}

\* Writes for two identities, which only the ceilings keep apart.
TwoIdentities == {Request(k1, i1, 0), Request(k2, i2, 0)}

CallSymmetry == Permutations(Runs) \cup Permutations(Recoverers)
=============================================================================
