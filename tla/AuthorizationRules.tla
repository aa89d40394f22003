------------------------- MODULE AuthorizationRules -------------------------
(***************************************************************************)
(* The rules of an authorization policy (policy.ts).  A policy has a       *)
(* default custody and a sequence of rules, of which at most one has a     *)
(* given selector; a selector names a project, an environment, both, or    *)
(* both and a secret.                                                      *)
(***************************************************************************)
EXTENDS Integers, SequencesExt

CONSTANT Unset    \* what a rule leaves open, and the secret of a whole scope

Matches(rule, slot) ==
    \A part \in {"project", "environment", "name"} : rule[part] \in {Unset, slot[part]}

\* matchingSpecificity, of a rule that matches
Specificity(rule) ==
    IF rule.name # Unset THEN 3
    ELSE IF Unset \notin {rule.project, rule.environment} THEN 2 ELSE 1

\* One round of the loop of evaluateAuthorizationRules: state is the best
\* specificity so far and whether its rules lock.
\* Mutant: the last of several rules decides.
ConsiderLast(slot, state, rule) ==
    IF Matches(rule, slot) /\ Specificity(rule) >= state.best
    THEN [best |-> Specificity(rule), locked |-> rule.locked]
    ELSE state

Consider(slot, state, rule) ==
    IF ~Matches(rule, slot) \/ Specificity(rule) < state.best THEN state
    ELSE [best |-> Specificity(rule),
          locked |-> rule.locked \/ (Specificity(rule) = state.best /\ state.locked)]

\* evaluateAuthorizationRules: the state after each round, and at the end.
Rounds(policy, slot) ==
    LET after[n \in 0..Len(policy.rules)] ==
            IF n = 0 THEN [best |-> 0, locked |-> policy.default = "interactive"]
            ELSE Consider(slot, after[n - 1], policy.rules[n])
    IN  after

Locked(policy, slot) == Rounds(policy, slot)[Len(policy.rules)].locked

\* What the evaluation means, whatever the order of the rules: of those that
\* match, the most specific decide; if they disagree the secret is locked;
\* if there are none the default decides.
MeansLocked(policy, slot) ==
    LET matching == {i \in DOMAIN policy.rules : Matches(policy.rules[i], slot)}
        deciding == {i \in matching : \A j \in matching :
                        Specificity(policy.rules[j]) <= Specificity(policy.rules[i])}
    IN  IF matching = {} THEN policy.default = "interactive"
        ELSE \E i \in deciding : policy.rules[i].locked

\* A change of rule: mutateAuthorizationRule adds a rule at the end, puts it
\* in the place of the one with its selector, or removes that.
SameSelector(a, b) ==
    \A part \in {"project", "environment", "name"} : a[part] = b[part]

EditsOneRule(old, new) ==
    \/ \E rule \in ToSet(new) :
          \/ new = Append(old, rule) /\ \A r \in ToSet(old) : ~SameSelector(r, rule)
          \/ \E i \in DOMAIN old : SameSelector(old[i], rule)
                                   /\ new = [old EXCEPT ![i] = rule]
    \/ \E i \in DOMAIN old : new = RemoveAt(old, i)
=============================================================================
