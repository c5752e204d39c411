----------------------------- MODULE MCSyncTorn -----------------------------
(***************************************************************************)
(* An instance of SyncTorn for TLC: "a" is a prefix of "ab".               *)
(***************************************************************************)
EXTENDS SyncTorn, TLC

CONSTANTS a, ab, p1, p2

ASSUME Distinct == Cardinality({a, ab, p1, p2}) = 4

MCPrefixOf == {<<a, a>>, <<ab, ab>>, <<a, ab>>}

FoundAtSecond == [p \in Peers |-> IF p = p1 THEN {} ELSE {a, ab}]

TwoAndOne == [p \in Peers |-> IF p = p1 THEN 2 ELSE 1]
=============================================================================
