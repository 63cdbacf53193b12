---------------------- MODULE MCHierarchicalTimingWheel ----------------------
(* HierarchicalTimingWheel with small wheels. *)
EXTENDS HierarchicalTimingWheel, TLC

ThreeWheels == <<3, 2, 2>>

Symmetry == Permutations(Timers)
=============================================================================
