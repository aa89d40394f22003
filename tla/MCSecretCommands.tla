-------------------------- MODULE MCSecretCommands --------------------------
(* Instance of SecretCommands for TLC: three policies, each one change     *)
(* from another, in which rules of all three specificities, two rules that *)
(* disagree and the default decide.                                        *)
EXTENDS SecretCommands, TLC
CONSTANTS p, q, d, e, n, k1, k2, c1, c2

Rule(project, environment, name, locked) ==
    [project |-> project, environment |-> environment, name |-> name, locked |-> locked]

Rules ==
    <<Rule(Unset, d, Unset, TRUE), Rule(p, Unset, Unset, FALSE), Rule(p, e, Unset, TRUE)>>

MCPolicies ==
    {[default |-> "interactive", rules |-> Rules],
     [default |-> "machine", rules |-> Rules],
     [default |-> "interactive", rules |-> Append(Rules, Rule(p, d, n, FALSE))]}

MCScopes == {[project |-> p, environment |-> d]}

Symmetry == Permutations({k1, k2}) \cup Permutations({c1, c2})
=============================================================================
