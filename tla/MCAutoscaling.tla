----------------------------- MODULE MCAutoscaling -----------------------------
(***************************************************************************)
(* Instances of AutoscalingController for TLC.                             *)
(***************************************************************************)
EXTENDS AutoscalingController, TLC

Symmetry ==
  Permutations(Configs) \cup Permutations(Images) \cup Permutations(TransportURLs)
  \cup Permutations(ServerLists)

\* The disturbances that no event answers, one of them after the creation: a
\* patch that fails, or a change of a secret or of the Heat while the controller
\* is at rest.  Which transport URL comes first makes no difference.
Unnoticed ==
  /\ faults' # faults => pc = "patch" /\ changes > 0
  /\ changes' # changes /\ cr.exists =>
       Quiescent /\ faults = MaxFaults /\ <<osp, heat, tsecret>>' # <<osp, heat, tsecret>>
  /\ tsecret = None => tsecret' \in {None, CHOOSE t \in TransportURLs : TRUE}

LiveSpec == Init /\ [][Next /\ Unnoticed]_vars /\ Fairness
===============================================================================
