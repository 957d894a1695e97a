-------------------------- MODULE TelemetryController --------------------------
(***************************************************************************)
(* The controller of one Telemetry custom resource                         *)
(* (src/controllers/telemetry_controller.go), which creates, updates and   *)
(* deletes the custom resources of the services and reports their state.   *)
(* The services' own controllers appear by what they do to these children: *)
(* they become ready or not, and release their finalizer when deleted.     *)
(***************************************************************************)
EXTENDS Conditions, Naturals

CONSTANTS
  Options,            \* values of a non-nil part of a service's section
  Default,            \* the options that the MetricStorage webhook fills in
  Sections,           \* the specs that the user gives the Telemetry
  None,               \* a missing object or value, the nil pointer
  StatusWithMetadata, SyncDuringPass, \* see Reconciler
  MaxFaults,          \* bound on failed API calls and restarts
  MaxChanges          \* bound on the disturbances of the environment

ASSUME OptionsAssumption == None \notin Options /\ Default \in Options
ASSUME FlagAssumption == StatusWithMetadata \in BOOLEAN /\ SyncDuringPass \in BOOLEAN
ASSUME BoundAssumption == MaxFaults \in Nat /\ MaxChanges \in Nat

VARIABLES
  cr, cache, event, queued, pc, before, inst, requeue, faults, changes, \* see Reconciler
  child,    \* the Autoscaling, the Ceilometer and the MetricStorage
  view,     \* the informers' copies of them, which the handlers read
  news      \* the children of which a change is on its way to the informers

(***************************************************************************)
(* Data                                                                    *)
(***************************************************************************)
Services == {"Autoscaling", "Ceilometer", "MetricStorage"}

CondTypes == {"Ready"} \cup Services

\* The spec of a service, by its parts.  Only a MetricStorage has parts that
\* may be nil: a custom monitoring stack and the options of the supported one.
ServiceSpec == [custom : Options \cup {None}, options : Options \cup {None}]

\* The spec of the Telemetry: None where a service is not enabled.
Section ==
  [Autoscaling : [custom : {None}, options : Options] \cup {None},
   Ceilometer : [custom : {None}, options : Options] \cup {None},
   MetricStorage : ServiceSpec \cup {None}]

ASSUME SectionsAssumption == Sections \subseteq Section

TelemetryStatus == [conds : [CondTypes -> Status]]

NoStatus == [conds |-> NilConditions(CondTypes)]

INSTANCE Reconciler WITH
  EmptyStatus <- NoStatus, InitList <- Services, ReturnsPatchError <- TRUE

Telemetry == InstanceType(Section, TelemetryStatus)

Child == [state : {"absent", "live", "terminating"}, spec : ServiceSpec, ready : BOOLEAN]

NoChild == [state |-> "absent", spec |-> [custom |-> None, options |-> None], ready |-> FALSE]

Steps == {"idle", "delete", "patch"} \cup Services

server == <<cr, cache, event>>
pass == <<pc, before, inst, requeue>>
limits == <<faults, changes>>
children == <<child, view, news>>
vars == <<server, queued, pass, limits, children>>

TypeOK ==
  /\ cr \in Telemetry /\ cache \in Telemetry /\ before \in Telemetry /\ inst \in Telemetry
  /\ event \in BOOLEAN /\ queued \in BOOLEAN /\ requeue \in BOOLEAN
  /\ pc \in Steps
  /\ faults \in 0 .. MaxFaults /\ changes \in 0 .. MaxChanges
  /\ child \in [Services -> Child] /\ view \in [Services -> Child]
  /\ news \subseteq Services

Init ==
  /\ ReconcilerInit
  /\ child = [s \in Services |-> NoChild] /\ view = child /\ news = {}
  /\ faults = MaxFaults /\ changes = MaxChanges

(***************************************************************************)
(* Reconcile                                                               *)
(***************************************************************************)
Reconcile ==
  /\ NotFound \/ AddFinalizer \/ InitStatus \/ Dispatch("Autoscaling")
  /\ UNCHANGED children

PatchStep == (Patch \/ PatchFails) /\ UNCHANGED children

\* Mutant: the finalizer is not removed.
ReconcileDeleteForgets ==
  /\ pc = "delete"
  /\ Return(inst, FALSE)
  /\ UNCHANGED <<server, queued, limits, children>>

\* The children are left to the garbage collector.
ReconcileDelete ==
  /\ pc = "delete"
  /\ Return([inst EXCEPT !.finalizer = FALSE], FALSE)
  /\ UNCHANGED <<server, queued, limits, children>>

(***************************************************************************)
(* reconcileNormal: reconcileAutoscaling, reconcileCeilometer and          *)
(* reconcileMetricStorage, one after the other.                            *)
(***************************************************************************)
SetChild(s, c) ==
  /\ child' = [child EXCEPT ![s] = c]
  /\ news' = IF c = child[s] THEN news ELSE news \cup {s}
  /\ UNCHANGED view

\* A deleted child stays until its controller has released its finalizer; one
\* that has none yet is gone at once.
DeleteChild(s) ==
  /\ child[s].state = "live"
  /\ \/ SetChild(s, [child[s] EXCEPT !.state = "terminating"])
     \/ ~child[s].ready /\ SetChild(s, NoChild)

\* Mutant: the child is forced out of the way, with its finalizer.
EnsureDeletedForced(s) == SetChild(s, IF view[s].state = "live" THEN NoChild ELSE child[s])

\* ensureDeleted
EnsureDeleted(s) ==
  IF view[s].state = "live" /\ child[s].state = "live" THEN DeleteChild(s) ELSE SetChild(s, child[s])

\* The Delete inside ensureDeleted answers NotFound, which is an error there.
AlreadyGone(s) == view[s].state = "live" /\ child[s].state = "absent"

\* The webhook of MetricStorage, and the ones of the other services.
Admitted(spec) ==
  IF spec.custom = None /\ spec.options = None THEN [spec EXCEPT !.options = Default] ELSE spec

\* The mutate function of CreateOrPatch: a part that is nil in the section is
\* not copied.
Mutated(s) ==
  [part \in {"custom", "options"} |->
     IF inst.spec[s][part] # None THEN inst.spec[s][part] ELSE view[s].spec[part]]

\* CreateOrPatch creates what the cache does not hold, and otherwise sends the
\* parts that differ from the cache, if any.
Differs(s) == view[s].state = "absent" \/ Mutated(s) # view[s].spec

\* Create answers AlreadyExists, or Patch answers NotFound.
Conflict(s) == Differs(s) /\ (view[s].state = "absent") # (child[s].state = "absent")

Patched(s) ==
  [part \in {"custom", "options"} |->
     IF Mutated(s)[part] # view[s].spec[part] THEN Mutated(s)[part] ELSE child[s].spec[part]]

Sent(s) ==
  CASE ~Differs(s) \/ Conflict(s) -> child[s]
    [] Differs(s) /\ ~Conflict(s) /\ child[s].state = "absent" ->
         [state |-> "live", spec |-> Admitted(Mutated(s)), ready |-> FALSE]
    [] OTHER -> [child[s] EXCEPT !.spec = Admitted(Patched(s))]

CreateOrPatchChild(s) == SetChild(s, Sent(s))

\* What IsReady looks at: the answer to the call, or the cache if none was made.
Observed(s) == IF Differs(s) THEN Sent(s) ELSE view[s]

\* Where the pass goes after a service.
Proceed(s, instance) ==
  CASE s = "Autoscaling" -> Continue("Ceilometer", instance)
    [] s = "Ceilometer" -> Continue("MetricStorage", instance)
    [] s = "MetricStorage" -> Return(instance, FALSE)

\* Mutant: the condition stays in the list.
ReconcileDisabledKeeps(s) ==
  /\ pc = s /\ inst.spec[s] = None
  /\ EnsureDeleted(s)
  /\ IF AlreadyGone(s) THEN Return(inst, TRUE) ELSE Proceed(s, inst)
  /\ UNCHANGED <<server, queued, limits>>

\* The condition of a service that is not enabled is removed from the list.
\* An error ends the pass: the services that follow are not looked at.
ReconcileDisabled(s) ==
  /\ pc = s /\ inst.spec[s] = None
  /\ EnsureDeleted(s)
  /\ IF AlreadyGone(s) THEN Return(inst, TRUE) ELSE Proceed(s, With(s, "Absent"))
  /\ UNCHANGED <<server, queued, limits>>

\* Mutant: the phase of the service is stored where a status is expected.
ReconcileEnabledPhase(s) ==
  /\ pc = s /\ inst.spec[s] # None
  /\ CreateOrPatchChild(s)
  /\ IF Conflict(s)
     THEN Return(With(s, "False"), TRUE)
     ELSE Proceed(s, With(s, Observed(s).state))
  /\ UNCHANGED <<server, queued, limits>>

ReconcileEnabled(s) ==
  /\ pc = s /\ inst.spec[s] # None
  /\ CreateOrPatchChild(s)
  /\ IF Conflict(s)
     THEN Return(With(s, "False"), TRUE)
     ELSE Proceed(s, With(s, IF Observed(s).ready THEN "True" ELSE "False"))
  /\ UNCHANGED <<server, queued, limits>>

\* The call for a service fails, or its answer is lost.
ServiceFails(s) ==
  /\ pc = s
  /\ Fault
  /\ \/ UNCHANGED children
     \/ inst.spec[s] = None /\ EnsureDeleted(s)
     \/ inst.spec[s] # None /\ CreateOrPatchChild(s)
  /\ Return(IF inst.spec[s] = None THEN inst ELSE With(s, "False"), TRUE)
  /\ UNCHANGED <<server, queued, changes>>

Restart == Fault /\ Restarted /\ view' = child /\ news' = {} /\ UNCHANGED <<changes, child>>

(***************************************************************************)
(* The informer, the user, the controllers of the services and the garbage *)
(* collector                                                               *)
(***************************************************************************)
SyncTelemetry == SyncCache /\ UNCHANGED children

ResyncTelemetry == Resync /\ news = {} /\ UNCHANGED children

\* Mutant: the children are not watched.
SyncChildUnwatched(s) ==
  /\ s \in news
  /\ view' = [view EXCEPT ![s] = child[s]] /\ news' = news \ {s}
  /\ UNCHANGED <<server, queued, pass, limits, child>>

\* Owns(...): an event of a child puts the key of its owner in the queue.
SyncChild(s) ==
  /\ s \in news
  /\ view' = [view EXCEPT ![s] = child[s]] /\ news' = news \ {s}
  /\ queued' = TRUE
  /\ UNCHANGED <<server, pass, limits, child>>

\* A resource is created again once the children of the last one are gone.
User ==
  /\ \/ /\ \A s \in Services : child[s].state = "absent"
        /\ \E spec \in Sections : UserCreates(spec)
     \/ \E spec \in Sections : UserEdits(spec)
     \/ UserDeletes
  /\ UNCHANGED children

\* The controller of a service reports it ready, even when it is being deleted
\* already, or reports that it no longer is.
ServiceReady(s) ==
  /\ child[s].state # "absent" /\ ~child[s].ready
  /\ SetChild(s, [child[s] EXCEPT !.ready = TRUE])
  /\ UNCHANGED <<server, queued, pass, limits>>

ServiceDegraded(s) ==
  /\ Disturb
  /\ child[s].ready
  /\ SetChild(s, [child[s] EXCEPT !.ready = FALSE])
  /\ UNCHANGED <<server, queued, pass, faults>>

\* Somebody else deletes a child.
ServiceDeleted(s) ==
  /\ Disturb
  /\ DeleteChild(s)
  /\ UNCHANGED <<server, queued, pass, faults>>

\* The controller of a service that is being deleted releases it.
ServiceReleased(s) ==
  /\ child[s].state = "terminating"
  /\ SetChild(s, NoChild)
  /\ UNCHANGED <<server, queued, pass, limits>>

GarbageCollect(s) ==
  /\ ~cr.exists
  /\ DeleteChild(s)
  /\ UNCHANGED <<server, queued, pass, limits>>

Work ==
  \/ Reconcile \/ ReconcileDelete \/ PatchStep
  \/ \E s \in Services : ReconcileDisabled(s) \/ ReconcileEnabled(s)

Sync == SyncTelemetry \/ \E s \in Services : SyncChild(s)

Provide == \E s \in Services : ServiceReady(s) \/ ServiceReleased(s) \/ GarbageCollect(s)

Next ==
  \/ Work \/ Restart
  \/ \E s \in Services : ServiceFails(s) \/ ServiceDegraded(s) \/ ServiceDeleted(s)
  \/ Sync \/ ResyncTelemetry \/ User \/ Provide

Spec == Init /\ [][Next]_vars

\* The worker runs as long as it has a key, events are delivered, the
\* controllers of the services and the garbage collector do their work, and the
\* sync period ends again and again.  As for Ceilometer, delivery is strongly
\* fair because the model may restrict it to the time between two passes.
Fairness == WF_vars(Work) /\ SF_vars(Sync) /\ WF_vars(Provide) /\ WF_vars(ResyncTelemetry)

FairSpec == Spec /\ Fairness

(***************************************************************************)
(* Properties                                                              *)
(***************************************************************************)
\* Nothing is pending: the worker is idle, the queue is empty, and the caches
\* are up to date.
Settled == Quiescent /\ news = {}

\* When nothing is pending, the children are those of the sections that are
\* enabled, with the parts these give, and no other child is left that is not
\* on its way out: an edit is never missed, and a child that is deleted by
\* mistake, or enabled again while it is still being deleted, comes back.
ChildrenAsDesired ==
  Settled /\ cr.exists =>
    /\ ~cr.deleting /\ cr.finalizer
    /\ \A s \in Services :
         IF cr.spec[s] = None
         THEN child[s].state # "live"
         ELSE /\ child[s].state # "absent"
              /\ cr.spec[s].custom \in {None, child[s].spec.custom}
              /\ cr.spec[s].options \in {None, child[s].spec.options}

\* When nothing is pending, the Telemetry is Ready exactly when each service
\* that is enabled is, and a service that is not enabled has no condition.
ReadyMirrorsChildren ==
  Settled /\ cr.exists =>
    /\ Ready(cr) <=> \A s \in Services : cr.spec[s] # None => child[s].ready
    /\ \A s \in Services : cr.spec[s] = None <=> cr.status.conds[s] = "Absent"

\* The controller settles: once the environment leaves it alone, a Telemetry
\* that is not deleted ends up Ready with all its services, and one that is
\* deleted goes away with them; and it comes to rest again and again.
Settles ==
  /\ <>[](IF cr.exists
          THEN ~cr.deleting /\ Ready(cr)
               /\ \A s \in Services : (child[s].state = "live") = (cr.spec[s] # None)
          ELSE \A s \in Services : child[s] = NoChild)
  /\ []<>Settled

Lifecycle(s) == INSTANCE ServiceLifecycle WITH state <- child[s].state, ready <- child[s].ready

\* The child of each service lives as the controller of that service makes its
\* resource live: what the Telemetry and its environment do to a child is what
\* the service allows, so that the model of the services here agrees with theirs.
\* (The conjunction of Lifecycle(s)!Spec over the services.)
ChildrenFollowLifecycle ==
  /\ \A s \in Services : Lifecycle(s)!Init
  /\ [][\A s \in Services : [Lifecycle(s)!Next]_(Lifecycle(s)!vars)]_child

===============================================================================
