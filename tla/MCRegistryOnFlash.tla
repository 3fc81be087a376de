------------------------- MODULE MCRegistryOnFlash --------------------------
(* An instance of RegistryOnFlash for TLC. *)
EXTENDS RegistryOnFlash

CONSTANTS c1, c2, k1, v1, v2

MCClients == {c1, c2}
MCKeys == {k1}
MCValues == {v1, v2}

\* Names and values of one byte: the objects of all keys fit in a block.
MCNameSize == [k \in Keys |-> 1]
MCValueSize == [v \in Values |-> 1]
==============================================================================
