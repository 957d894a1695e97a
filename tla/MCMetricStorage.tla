---------------------------- MODULE MCMetricStorage ----------------------------
(***************************************************************************)
(* Instances of MetricStorageController for TLC.                           *)
(***************************************************************************)
EXTENDS MetricStorageController

CONSTANTS o1, c1

\* The options, a custom stack, neither, and a spec from which no stack can be
\* built.
SomeSpecs ==
  {[custom |-> None, options |-> o1], [custom |-> c1, options |-> None],
   [custom |-> None, options |-> None], [custom |-> "empty", options |-> None]}

\* Two nodes with an AnsibleHost, in one node set or in two, one of them without
\* the telemetry service, and with or without IPSets.
Inventory(second, reserved) ==
  [home |-> [n1 |-> "s1", n2 |-> second],
   telemetry |-> {"s1"},
   items |-> [n \in {"n1", "n2"} |-> [ansible |-> "ip", host |-> TRUE]],
   ipsets |-> [n \in {"n1", "n2"} |-> reserved],
   service |-> {"ctlplane"}]

SomeInventories ==
  [together |-> Inventory("s1", None), apart |-> Inventory("s2", None),
   reserved |-> Inventory("s1", <<"ctlplane">>)]

\* The observability operator and the data plane operator.
TwoBundles == {Objects, {"NodeSet"}}

\* One disturbance of any kind besides the creation.
LiveSpec == Init /\ [][Next /\ faults' + changes' >= MaxFaults + MaxChanges - 2]_vars /\ Fairness
===============================================================================
