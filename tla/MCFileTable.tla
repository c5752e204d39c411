---------------------------- MODULE MCFileTable ----------------------------
(***************************************************************************)
(* Instances of FileTable for TLC: three names, of which "a" is a prefix   *)
(* of "ab", and "c" is unrelated.                                          *)
(***************************************************************************)
EXTENDS FileTable, TLC

CONSTANTS a, ab, c, t1

ASSUME DistinctNames == Cardinality({a, ab, c}) = 3

TwoNames == {a, ab}
OneName == {c}
MCPrefixOf == {<<a, a>>, <<ab, ab>>, <<a, ab>>}
MCSamePrefix == {<<c, c>>}

\* Two messages each, or three from every connection but t1.
TwoEach == [t \in Threads |-> 2]
TwoAndThree == [t \in Threads |-> IF t = t1 THEN 2 ELSE 3]

Symmetry == Permutations(Threads)
=============================================================================
