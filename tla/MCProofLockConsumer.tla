------------------------ MODULE MCProofLockConsumer -------------------------
(* Small instances of the whole admission path.                            *)
EXTENDS ProofLockConsumer, TLC

CONSTANTS h1, e1, k1, agent1, r1, r2, a1, a2

MCKeyOf == agent1 :> k1

Input(hash, ttl, policy, score, risk) ==
  [evidence |-> e1, expectedRuntimeCodeHash |-> hash,
   validForSeconds |-> ttl, policyVersion |-> policy,
   behavioralScore |-> score, codeRisk |-> risk, coverage |-> 0..6]

\* Clean leases for a contract and an account without code; the second is
\* longer than the gate's maximumAge.
CleanInputs == {Input(h1, 1, 1, 10, 0), Input(ZeroHash, 3, 1, 10, 0)}

\* Leases the registry takes and the gate refuses: an old policy, a score and
\* a code risk above its limits.
RefusedInputs == {Input(ZeroHash, 1, 0, 10, 0), Input(ZeroHash, 1, 1, 99, 0),
                  Input(ZeroHash, 1, 1, 10, 2)}

AllInputs == CleanInputs \cup RefusedInputs

\* Two wallets, a wallet that is unset or cannot be read, an agent that was
\* burned and an identity registry that does not answer.
View1(owner, wallet) ==
  [ownerOf |-> owner, wallet |-> wallet, registration |-> r1]

MCIdentityViews ==
  {View1("owner", w) : w \in {a1, a2, ZeroAddress, Unreadable}}
    \cup {View1("reverts", a1), View1("unreachable", a1)}

\* An agent that only rewrites its registration.
RegistrationViews ==
  [ownerOf : {"owner"}, wallet : {a1}, registration : {r1, r2}]
=============================================================================
