--------------------------- MODULE MCProviderDispatch ---------------------------
(* Small instances of ProviderDispatch: three providers, the last of which *)
(* is preferred as verifier.                                               *)
EXTENDS ProviderDispatch

CONSTANTS p1, p2, p3

MCFallbackRank == [p \in Providers |-> IF p = p1 THEN 1 ELSE IF p = p2 THEN 2 ELSE 3]
MCVerificationRank == [p \in Providers |-> IF p = p1 THEN 2 ELSE IF p = p2 THEN 3 ELSE 1]

MCMembers == [m \in Modes |-> IF m \in {"fallback", "verify"} THEN {p1, p2, p3} ELSE {p1, p2}]

=============================================================================
