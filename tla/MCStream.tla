------------------------------ MODULE MCStream ------------------------------
(***************************************************************************)
(* StreamProperties for TLC: streams, pauses and instances are             *)
(* interchangeable model values.                                           *)
(***************************************************************************)
EXTENDS StreamProperties, TLC

Symmetry == Permutations(Streams) \cup Permutations(Pauses)

SymmetryOfInstances == Symmetry \cup Permutations(Instances)
=============================================================================
