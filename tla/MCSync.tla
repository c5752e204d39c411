------------------------------- MODULE MCSync -------------------------------
(***************************************************************************)
(* Instances of Sync for TLC: "a" is a prefix of "ab".                     *)
(***************************************************************************)
EXTENDS Sync, TLC

CONSTANTS a, ab, p1, p2

ASSUME Distinct == Cardinality({a, ab, p1, p2}) = 4

MCPrefixOf == {<<a, a>>, <<ab, ab>>, <<a, ab>>} \cap (Names \X Names)

NothingFound == [p \in Peers |-> {}]
FoundAtOne == [p \in Peers |-> IF p = p1 THEN {a} ELSE {}]

Unbounded == [p \in Peers |-> -1]
=============================================================================
