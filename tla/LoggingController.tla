--------------------------- MODULE LoggingController ---------------------------
(***************************************************************************)
(* The controller of one Logging custom resource                           *)
(* (src/controllers/logging_controller.go).  It writes a Secret with the   *)
(* rsyslog configuration of the compute nodes, and a Service, in the       *)
(* namespace of the cluster logging operator, that listens where this      *)
(* configuration sends the logs.                                           *)
(***************************************************************************)
EXTENDS Conditions, Naturals

CONSTANTS
  Addresses,          \* IPAddr and Port, which both objects take from the spec
  Namespaces,         \* values of CLONamespace
  Certificates,       \* contents of the CA of OpenShift
  None,               \* a missing object or value
  StatusWithMetadata, SyncDuringPass, \* see Reconciler
  MaxFaults,          \* bound on failed API calls and restarts
  MaxChanges          \* bound on the disturbances of the environment

ASSUME NoneAssumption == None \notin Addresses \cup Namespaces \cup Certificates
ASSUME FlagAssumption == StatusWithMetadata \in BOOLEAN /\ SyncDuringPass \in BOOLEAN
ASSUME BoundAssumption == MaxFaults \in Nat /\ MaxChanges \in Nat

VARIABLES
  cr, cache, event, queued, pc, before, inst, requeue, faults, changes, \* see Reconciler
  ca,       \* the secret with the CA
  secret,   \* the Secret for the compute nodes
  service   \* the address at which the Service of each namespace listens

(***************************************************************************)
(* Data                                                                    *)
(***************************************************************************)
\* Rbac stands for the service account, the role and the role binding.
LoggingInitList == {"Input", "ServiceConfig", "Rbac"}

CondTypes == {"Ready"} \cup LoggingInitList

LoggingSpec == [address : Addresses, namespace : Namespaces]

Content == [address : Addresses, ca : Certificates \cup {None}]

ASSUME ContentAssumption == None \notin Content

\* The hash of the Secret, taken to be injective, is its content.
LoggingStatus == [conds : [CondTypes -> Status], hash : Content \cup {None}]

NoStatus == [conds |-> NilConditions(CondTypes), hash |-> None]

INSTANCE Reconciler WITH
  EmptyStatus <- NoStatus, InitList <- LoggingInitList, ReturnsPatchError <- TRUE

Logging == InstanceType(LoggingSpec, LoggingStatus)

server == <<cr, cache, event>>
pass == <<pc, before, inst, requeue>>
limits == <<faults, changes>>
objects == <<ca, secret, service>>
vars == <<server, queued, pass, limits, objects>>

TypeOK ==
  /\ cr \in Logging /\ cache \in Logging /\ before \in Logging /\ inst \in Logging
  /\ event \in BOOLEAN /\ queued \in BOOLEAN /\ requeue \in BOOLEAN
  /\ pc \in {"idle", "delete", "rbac", "config", "service", "patch"}
  /\ faults \in 0 .. MaxFaults /\ changes \in 0 .. MaxChanges
  /\ ca \in Certificates \cup {None}
  /\ secret \in Content \cup {None}
  /\ service \in [Namespaces -> Addresses \cup {None}]

Init ==
  /\ ReconcilerInit
  /\ ca \in Certificates \cup {None}
  /\ secret = None
  /\ service = [n \in Namespaces |-> None]
  /\ faults = MaxFaults /\ changes = MaxChanges

(***************************************************************************)
(* Reconcile                                                               *)
(***************************************************************************)
Reconcile ==
  /\ NotFound \/ AddFinalizer \/ InitStatus \/ Dispatch("rbac")
  /\ UNCHANGED objects

PatchStep == (Patch \/ PatchFails) /\ UNCHANGED objects

\* The Secret is left to the garbage collector; the Service has no owner.
ReconcileDelete ==
  /\ pc = "delete"
  /\ Return([inst EXCEPT !.finalizer = FALSE], FALSE)
  /\ UNCHANGED <<server, queued, limits, objects>>

(***************************************************************************)
(* reconcileNormal                                                         *)
(***************************************************************************)
\* As for Ceilometer, a condition is only set where the list already has it.
RbacConditionsSet(status) ==
  IF inst.status.conds["Rbac"] = "Absent" THEN inst ELSE With("Rbac", status)

ReconcileRbac ==
  /\ pc = "rbac"
  /\ Continue("config", [RbacConditionsSet("True") EXCEPT !.status.conds["Input"] = "True"])
  /\ UNCHANGED <<server, queued, limits, objects>>

WriteSecret(content) ==
  /\ secret' = content
  /\ queued' = (queued \/ content # secret)

Rendered(found) == [address |-> inst.spec.address, ca |-> found]

\* Mutant: what is recorded is the address alone.
CreateHashOfInputHashesPartial(content) ==
  IF inst.status.hash # content.address
  THEN Return([inst EXCEPT !.status.hash = content.address], FALSE)
  ELSE Continue("service", With("ServiceConfig", "True"))

\* A changed hash ends the pass; its event starts the next one.
CreateHashOfInputHashes(content) ==
  IF inst.status.hash # content
  THEN Return([inst EXCEPT !.status.hash = content], FALSE)
  ELSE Continue("service", With("ServiceConfig", "True"))

\* Mutant: the Secret is rendered again only if the address has changed.
GenerateComputeServiceConfigOnce ==
  LET content == IF secret # None /\ secret.address = inst.spec.address THEN secret ELSE Rendered(ca)
  IN  /\ pc = "config"
      /\ WriteSecret(content)
      /\ CreateHashOfInputHashes(content)
      /\ UNCHANGED <<server, limits, ca, service>>

\* generateComputeServiceConfig and the hash.
GenerateComputeServiceConfig ==
  /\ pc = "config"
  /\ WriteSecret(Rendered(ca))
  /\ CreateHashOfInputHashes(Rendered(ca))
  /\ UNCHANGED <<server, limits, ca, service>>

\* retrieveOpenshiftCA takes any error for the absence of the CA.
CAUnreadable ==
  /\ pc = "config" /\ ca # None
  /\ Fault
  /\ WriteSecret(Rendered(None))
  /\ CreateHashOfInputHashes(Rendered(None))
  /\ UNCHANGED <<server, changes, ca, service>>

WriteService(address) == service' = [service EXCEPT ![inst.spec.namespace] = address]

\* Mutant: the Service is built from a second read of the resource.
ServiceStepFresh ==
  /\ pc = "service"
  /\ WriteService(IF cr.exists THEN cr.spec.address ELSE inst.spec.address)
  /\ Return(inst, FALSE)
  /\ UNCHANGED <<server, queued, limits, ca, secret>>

\* logging.Service: CreateOrUpdate in the namespace of the spec.  The Service
\* of a former namespace stays as it is, and no Service is watched.
ServiceStep ==
  /\ pc = "service"
  /\ WriteService(inst.spec.address)
  /\ Return(inst, FALSE)
  /\ UNCHANGED <<server, queued, limits, ca, secret>>

\* A call fails, or its answer is lost.  The conditions of a pass that fails at
\* the Service are all True.
CallFails ==
  /\ Fault
  /\ \/ /\ pc = "rbac" /\ Return(RbacConditionsSet("False"), TRUE)
        /\ UNCHANGED <<queued, secret, service>>
     \/ /\ pc = "config" /\ Return(With("ServiceConfig", "False"), TRUE)
        /\ UNCHANGED <<queued, secret>> \/ WriteSecret(Rendered(ca))
        /\ UNCHANGED service
     \/ /\ pc = "service" /\ Return(inst, TRUE)
        /\ UNCHANGED service \/ WriteService(inst.spec.address)
        /\ UNCHANGED <<queued, secret>>
  /\ UNCHANGED <<server, changes, ca>>

Restart == Fault /\ Restarted /\ UNCHANGED <<changes, objects>>

(***************************************************************************)
(* The informer, the user, others and the garbage collector                *)
(***************************************************************************)
SyncLogging == SyncCache /\ UNCHANGED objects

ResyncLogging == Resync /\ UNCHANGED objects

\* A resource is created again once the Secret of the last one is gone.
User ==
  /\ \/ secret = None /\ \E spec \in LoggingSpec : UserCreates(spec)
     \/ \E spec \in LoggingSpec : UserEdits(spec)
     \/ UserDeletes
  /\ UNCHANGED objects

\* The CA is not watched.
CAChanges ==
  /\ Disturb
  /\ ca' \in (Certificates \cup {None}) \ {ca}
  /\ UNCHANGED <<server, queued, pass, faults, secret, service>>

\* Mutant: the Secret is not watched.
SecretDeletedUnwatched ==
  /\ Disturb
  /\ secret # None /\ secret' = None
  /\ UNCHANGED <<server, queued, pass, faults, ca, service>>

\* Somebody else deletes the Secret, which is watched, or a Service, which is not.
SecretDeleted ==
  /\ Disturb
  /\ secret # None
  /\ WriteSecret(None)
  /\ UNCHANGED <<server, pass, faults, ca, service>>

ServiceDeleted(n) ==
  /\ Disturb
  /\ service[n] # None
  /\ service' = [service EXCEPT ![n] = None]
  /\ UNCHANGED <<server, queued, pass, faults, ca, secret>>

GarbageCollect ==
  /\ ~cr.exists /\ secret # None
  /\ WriteSecret(None)
  /\ UNCHANGED <<server, pass, limits, ca, service>>

Work ==
  \/ Reconcile \/ PatchStep \/ ReconcileDelete
  \/ ReconcileRbac \/ GenerateComputeServiceConfig \/ ServiceStep

Next ==
  \/ Work \/ CallFails \/ CAUnreadable \/ Restart
  \/ SyncLogging \/ ResyncLogging \/ User \/ GarbageCollect
  \/ CAChanges \/ SecretDeleted \/ \E n \in Namespaces : ServiceDeleted(n)

Spec == Init /\ [][Next]_vars

\* The worker runs as long as it has a key, events are delivered, the garbage
\* collector runs, and the sync period ends again and again.
Fairness == WF_vars(Work) /\ SF_vars(SyncLogging \/ GarbageCollect) /\ WF_vars(ResyncLogging)

FairSpec == Spec /\ Fairness

(***************************************************************************)
(* Properties                                                              *)
(***************************************************************************)
\* The compute nodes are told first: the Service is only ever given the address
\* that their configuration sends to at that time, although an edit may come
\* between the Secret and the Service, and a changed Secret ends the pass in
\* between.  A Secret that somebody has deleted meanwhile is excepted.
ServiceAfterSecret ==
  [][\A n \in Namespaces :
       service'[n] \notin {None, service[n]} /\ secret # None => service'[n] = secret.address]_vars

\* No wake-up is lost.  When nothing is pending, a resource is not waiting to be
\* deleted, it is Ready, the Secret is the one in its status and sends to the
\* address of its spec, and so does the Service listen there, unless somebody
\* has deleted it.
NoLostWakeup ==
  Quiescent /\ cr.exists =>
    /\ ~cr.deleting /\ cr.finalizer /\ Ready(cr)
    /\ secret # None /\ secret = cr.status.hash
    /\ secret.address = cr.spec.address
    /\ service[cr.spec.namespace] \in {None, cr.spec.address}

\* The controller settles.  Once the environment leaves it alone, the Secret
\* has the current CA, although this is not watched and a failure to read it is
\* taken for its absence, and the Service listens where the Secret sends to,
\* although it is not watched either.  A resource that is deleted goes away.
Settles ==
  /\ <>[](IF cr.exists
          THEN /\ ~cr.deleting /\ Ready(cr)
               /\ secret = [address |-> cr.spec.address, ca |-> ca]
               /\ service[cr.spec.namespace] = cr.spec.address
          ELSE secret = None)
  /\ []<>Quiescent
===============================================================================
