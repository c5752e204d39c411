---------------------------- MODULE MCDirMonitor ----------------------------
(***************************************************************************)
(* Instances of DirMonitor for TLC.  Files are interchangeable, hidden     *)
(* ones with hidden ones, and so are modify threads.                       *)
(***************************************************************************)
EXTENDS DirMonitor, TLC

Symmetry == Permutations(Names \ Hidden) \cup Permutations(Modifies)
=============================================================================
