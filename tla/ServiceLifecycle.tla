--------------------------- MODULE ServiceLifecycle ---------------------------
(***************************************************************************)
(* What a Telemetry relies on when it creates the custom resource of a     *)
(* service, and what the controller of that service promises: the resource *)
(* goes away only after it has been deleted, it is then released once, and *)
(* it is not reported ready before anybody has worked on it.               *)
(*                                                                         *)
(* The controllers of the services implement this specification with their *)
(* custom resource, and TelemetryController with each of its children.     *)
(***************************************************************************)
VARIABLES
  state,  \* "absent", "live" or "terminating"
  ready   \* does its Ready condition hold (IsReady)?

vars == <<state, ready>>

Init == state = "absent" /\ ready = FALSE

(***************************************************************************)
(* What the owner and other clients do                                     *)
(***************************************************************************)
Create ==
  /\ state = "absent"
  /\ state' = "live" /\ ready' = FALSE

\* A resource that is ready has a finalizer, and stays until it is released.
Delete ==
  /\ state = "live"
  /\ \/ state' = "terminating" /\ UNCHANGED ready
     \/ ~ready /\ state' = "absent" /\ UNCHANGED ready

(***************************************************************************)
(* What the controller of the service does                                 *)
(***************************************************************************)
Report ==
  /\ state # "absent"
  /\ ready' = ~ready
  /\ UNCHANGED state

Release ==
  /\ state = "terminating"
  /\ state' = "absent" /\ ready' = FALSE

Next == Create \/ Delete \/ Report \/ Release

Spec == Init /\ [][Next]_vars
===============================================================================
