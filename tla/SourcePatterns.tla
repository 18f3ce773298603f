---------------------------- MODULE SourcePatterns ----------------------------
(***************************************************************************)
(* The fixed rules that read Solidity source.  A function is what the      *)
(* patterns find in it: the rules read nothing else.  What is told of a    *)
(* finding once, and the order of the findings, are left out.              *)
(***************************************************************************)
EXTENDS Integers, FiniteSetsExt

CLEAN == 0
WARNING == 1
VULNERABLE == 2

Finding(hit, id, risk) == IF hit THEN {[id |-> id, risk |-> risk]} ELSE {}

CheckReentrancy(fn) == Finding(fn.valueCall /\ fn.writesAfter, "reentrancy", VULNERABLE)

CheckSelfdestruct(fn) ==
    Finding(fn.selfdestruct, "unprotected-selfdestruct", IF fn.controlled THEN WARNING ELSE VULNERABLE)

CheckTxOrigin(fn) == Finding(fn.txOrigin, "tx-origin-auth", WARNING)

\* The delegated call hides the raw one, even when its target is built in.
CheckArbitraryCall(fn) ==
    LET isDelegate == fn.delegate # "none"
        hit == IF isDelegate THEN fn.delegate ELSE fn.rawCall
    IN Finding(hit = "dynamic", "arbitrary-external-call",
               IF isDelegate \/ ~fn.controlled THEN VULNERABLE ELSE WARNING)

CheckUncheckedCall(fn) == Finding(fn.unchecked, "unchecked-low-level-call", WARNING)

RulesOn(fn) ==
    CheckReentrancy(fn) \cup CheckSelfdestruct(fn) \cup CheckTxOrigin(fn)
    \cup CheckArbitraryCall(fn) \cup CheckUncheckedCall(fn)

RunLegacyRules(source) == UNION {RulesOn(source[i]) : i \in DOMAIN source}

Summarize(findings) == Max({CLEAN} \cup {f.risk : f \in findings})

AnalyzeSolidity(source) == Summarize(RunLegacyRules(source))

=============================================================================
