----------------------------- MODULE MCCeilometer -----------------------------
(***************************************************************************)
(* Instances of CeilometerController for TLC.                              *)
(***************************************************************************)
EXTENDS CeilometerController, TLC

Symmetry == Permutations(Configs) \cup Permutations(Images) \cup Permutations(TransportURLs)
===============================================================================
