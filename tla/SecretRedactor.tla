--------------------------- MODULE SecretRedactor ---------------------------
(***************************************************************************)
(* How a stream of output is searched for injected values (run.ts,         *)
(* createSecretRedactor).  A stream is a text t; what was held back of it  *)
(* and the chunk that arrives are the characters of t after position lo,   *)
(* up to position hi.                                                      *)
(***************************************************************************)
EXTENDS Integers, Sequences

CONSTANTS
    Char,           \* the characters a program writes
    Values,         \* the values injected into its environment
    MinLeakLength   \* MIN_LEAK_VALUE_LENGTH

ASSUME RedactorAssumption ==
    /\ Values \subseteq Seq(Char)
    /\ MinLeakLength \in Nat \ {0}

\* leakValues: shorter values are injected and not looked for.
Secrets == {v \in Values : Len(v) >= MinLeakLength}

\* v occurs in t after position i and ends within hi.
Occurs(v, t, i, hi) ==
    i + Len(v) <= hi /\ \A k \in 1 .. Len(v) : t[i + k] = v[k]

\* Where a complete secret begins.
Matches(t, lo, hi) == {i \in lo .. hi : \E v \in Secrets : Occurs(v, t, i, hi)}

\* firstCompleteMatch: of two that begin together either will do, for only
\* what comes before it is written.
FirstMatch(t, lo, hi, i) ==
    i \in Matches(t, lo, hi) /\ \A j \in Matches(t, lo, hi) : i <= j

\* The last n characters are the beginning of a secret, and of fewer
\* characters than the longest one has.
BeginsSecret(t, hi, n) ==
    /\ \E w \in Secrets : n < Len(w)
    /\ \E v \in Secrets : n <= Len(v) /\ \A k \in 1 .. n : t[hi - n + k] = v[k]

\* Mutant: a single character is never held back.
KeepsTwo(t, lo, hi, n) ==
    LET Candidates == {0} \cup {m \in 2 .. hi - lo : BeginsSecret(t, hi, m)}
    IN  n \in Candidates /\ \A m \in Candidates : m <= n

\* prefixCarryLength
CarryLength(t, lo, hi, n) ==
    LET Candidates == {0} \cup {m \in 1 .. hi - lo : BeginsSecret(t, hi, m)}
    IN  n \in Candidates /\ \A m \in Candidates : m <= n
=============================================================================
