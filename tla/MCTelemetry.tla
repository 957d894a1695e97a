------------------------------ MODULE MCTelemetry ------------------------------
(***************************************************************************)
(* Instances of TelemetryController for TLC.                               *)
(***************************************************************************)
EXTENDS TelemetryController

\* A spec with the given sections.
With3(autoscaling, ceilometer, storage) ==
  [Autoscaling |-> autoscaling, Ceilometer |-> ceilometer, MetricStorage |-> storage]

On == [custom |-> None, options |-> Default]

\* One service or the other: an edit disables one and enables the other.
Swapped == {With3(On, None, None), With3(None, None, On)}

\* A Ceilometer that is always there, an Autoscaling that comes and goes.
Pair == {With3(a, On, None) : a \in {None, On}}
===============================================================================
