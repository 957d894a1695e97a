------------------------------- MODULE MCTargets -------------------------------
(***************************************************************************)
(* Instances of NodeExporterTargets for TLC.                               *)
(***************************************************************************)
EXTENDS NodeExporterTargets, TLC

\* AnsibleHost and HostName in use, neither, and one without the other.
SomeItems ==
  {[ansible |-> "ip", host |-> TRUE], [ansible |-> "invalid", host |-> FALSE],
   [ansible |-> "ip", host |-> FALSE], [ansible |-> "empty", host |-> TRUE]}

\* No IPSet, one without a reservation, and one on two networks.
SomeReservations == {None, <<>>, <<"storage", "ctlplane">>}

SomeServices == {None, {"ctlplane"}, {"storage", "ctlplane"}}

Symmetry == Permutations(Nodes) \cup Permutations(NodeSets)
===============================================================================
