------------------------- MODULE MCInternalRegistry -------------------------
(* Instances of InternalRegistry for TLC. *)
EXTENDS InternalRegistry, TLC

CONSTANTS c1, c2, k1, k2, v1, v2, big

MCClients == {c1, c2}
MCKeys == {k1, k2}
MCValues == {v1, v2, big}
TwoValues == {v1, v2}

\* Names of one byte, values of one byte and one that is larger.
MCNameSize == [k \in Keys |-> 1]
MCValueSize == [v \in Values |-> IF v = big THEN 9 ELSE 1]

\* Clients are alike, and so are the keys and the two small values.
Symmetry == Permutations(Clients) \cup Permutations(Keys) \cup Permutations(TwoValues)
==============================================================================
