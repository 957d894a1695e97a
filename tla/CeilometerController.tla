------------------------- MODULE CeilometerController -------------------------
(***************************************************************************)
(* The controller of one Ceilometer custom resource                        *)
(* (src/controllers/ceilometer_controller.go) between the API server, the  *)
(* informer caches, the user and the operators that provide the objects    *)
(* it depends on.  Each API call of a pass is an action, so that           *)
(* everything outside the controller interleaves with it; what the code    *)
(* computes between two calls belongs to the earlier one.                  *)
(***************************************************************************)
EXTENDS Conditions, Naturals

CONSTANTS
  Configs,            \* what the rendered configuration takes from the spec
  Images,             \* what only the pod template takes from the spec
  TransportURLs,      \* contents of the TransportURL secret
  Passwords,          \* contents of the secret named by Spec.Secret
  None,               \* a missing object or value
  CrName,             \* metadata.name of the custom resource
  KsLag,              \* TRUE: the KeystoneService cache may lag the API server
  StatusWithMetadata, \* TRUE: a patch of the metadata also carries the status
  SyncDuringPass,     \* FALSE: events reach the cache between two passes only
  MaxFaults,          \* bound on failed API calls and restarts
  MaxChanges          \* bound on the disturbances of the environment

ASSUME NoneAssumption ==
  None \notin Configs \cup Images \cup TransportURLs \cup Passwords
ASSUME FlagAssumption ==
  KsLag \in BOOLEAN /\ StatusWithMetadata \in BOOLEAN /\ SyncDuringPass \in BOOLEAN
ASSUME BoundAssumption == MaxFaults \in Nat /\ MaxChanges \in Nat

VARIABLES
  cr, cache, event, queued, pc, before, inst, requeue, faults, changes, \* see Reconciler
  got,      \* the secret contents hashed by getSecret in this pass
  turl,     \* the TransportURL: "absent", "pending" or "ready"
  tsecret,  \* the content of its secret
  osp,      \* the content of the secret named by Spec.Secret
  config,   \* the two rendered configuration secrets
  ks,       \* the KeystoneService on the API server
  ksView,   \* the informer's copy of it
  sts       \* the StatefulSet

ServiceName == "ceilometer"

(***************************************************************************)
(* Data                                                                    *)
(***************************************************************************)
\* Rbac stands for ServiceAccountReady, RoleReady and RoleBindingReady, which
\* ReconcileRbac sets one after the other.
CondTypes == {"Ready", "Input", "ServiceConfig", "Deployment", "Rbac",
              "KeystoneService", "RabbitMqTransportURL"}

\* The conditions that Reconcile initializes as Unknown.
CeilometerInitList == {"Input", "ServiceConfig", "Deployment", "Rbac", "KeystoneService"}

CeilometerSpec == [config : Configs, image : Images]

\* A configuration rendered from the spec and the two secrets; the field of
\* a secret that was missing is None.
Content == [config : Configs, transport : TransportURLs \cup {None},
            password : Passwords \cup {None}]

\* The hash over all inputs.  Hashing is taken to be injective.
Hash == [password : Passwords \cup {None}, transport : TransportURLs \cup {None},
         central : Content \cup {None}, compute : Content \cup {None}]

ASSUME HashAssumption == None \notin Hash

CeilometerStatus == [conds : [CondTypes -> Status], hash : Hash \cup {None},
                     readyCount : {0, 1}]

NoStatus == [conds |-> NilConditions(CondTypes), hash |-> None, readyCount |-> 0]

INSTANCE Reconciler WITH
  EmptyStatus <- NoStatus, InitList <- CeilometerInitList, ReturnsPatchError <- TRUE

Ceilometer == InstanceType(CeilometerSpec, CeilometerStatus)

\* A KeystoneService, whether it carries the finalizer of the Ceilometer, and
\* the status its own conditions mirror to ("Absent": it has none yet).
KeystoneService == [state : {"absent", "live", "terminating"},
                    finalizer : BOOLEAN, ready : Status]

NoKeystoneService == [state |-> "absent", finalizer |-> FALSE, ready |-> "Absent"]

StatefulSet == [hash : Hash \cup {None}, image : Images \cup {None}, ready : {0, 1}]

NoStatefulSet == [hash |-> None, image |-> None, ready |-> 0]

NoGot == [password |-> None, transport |-> None]

NoConfig == [central |-> None, compute |-> None]

Steps == {"idle", "delete", "rbac", "transportURL", "ospSecret", "transportSecret",
          "central", "compute", "init", "statefulset", "patch"}

server == <<cr, cache, event>>
pass == <<pc, before, inst, requeue>>
limits == <<faults, changes>>
keystone == <<ks, ksView>>
objects == <<turl, tsecret, osp, config, keystone, sts>>
vars == <<server, queued, pass, limits, got, objects>>

ReconcilerType ==
  /\ cr \in Ceilometer /\ cache \in Ceilometer
  /\ before \in Ceilometer /\ inst \in Ceilometer
  /\ event \in BOOLEAN /\ queued \in BOOLEAN /\ requeue \in BOOLEAN
  /\ pc \in Steps
  /\ faults \in 0 .. MaxFaults /\ changes \in 0 .. MaxChanges

ObjectsType ==
  /\ got \in [password : Passwords \cup {None}, transport : TransportURLs \cup {None}]
  /\ turl \in {"absent", "pending", "ready"}
  /\ tsecret \in TransportURLs \cup {None}
  /\ osp \in Passwords \cup {None}
  /\ config \in [central : Content \cup {None}, compute : Content \cup {None}]
  /\ ks \in KeystoneService /\ ksView \in KeystoneService
  /\ sts \in StatefulSet

TypeOK == ReconcilerType /\ ObjectsType

\* The password secret is there to begin with; its absence counts as a
\* disturbance.
Init ==
  /\ ReconcilerInit
  /\ got = NoGot
  /\ turl = "absent" /\ tsecret = None
  /\ osp \in Passwords
  /\ config = NoConfig
  /\ ks = NoKeystoneService /\ ksView = NoKeystoneService
  /\ sts = NoStatefulSet
  /\ faults = MaxFaults /\ changes = MaxChanges

(***************************************************************************)
(* Reconcile                                                               *)
(***************************************************************************)
Reconcile ==
  /\ NotFound \/ AddFinalizer \/ InitStatus \/ Dispatch("rbac")
  /\ UNCHANGED <<got, objects>>

PatchStep ==
  /\ Patch \/ PatchFails
  /\ got' = NoGot
  /\ UNCHANGED objects

\* An API call of the pass that does not fail.
Call(step) == pc = step /\ UNCHANGED <<server, limits>>

(***************************************************************************)
(* reconcileDelete                                                         *)
(***************************************************************************)
\* A write of the KeystoneService on the API server.  The event, which puts
\* the key in the queue, comes with the update of the cache.
WriteKs(k) ==
  /\ ks' = k
  /\ ksView' = IF KsLag THEN ksView ELSE k
  /\ queued' = (queued \/ (~KsLag /\ k # ks))

\* Mutant: the finalizer stays on the KeystoneService.
UpdateKsForgotten == UNCHANGED <<queued, keystone>>

\* The KeystoneService without the finalizer; it goes away with it when it is
\* being deleted.  An update from a stale copy is refused.
UpdateKs ==
  IF ksView.finalizer /\ ks = ksView
  THEN WriteKs(IF ks.state = "terminating" THEN NoKeystoneService
               ELSE [ks EXCEPT !.finalizer = FALSE])
  ELSE UNCHANGED <<queued, keystone>>

\* A KeystoneService that is not found, by the lookup or by the update, does
\* not keep the finalizer of the Ceilometer.
ReconcileDelete ==
  /\ Call("delete")
  /\ UpdateKs
  /\ IF ksView.finalizer /\ ks # ksView /\ ks.state # "absent"
     THEN Return(inst, TRUE)
     ELSE Return([inst EXCEPT !.finalizer = FALSE], FALSE)
  /\ UNCHANGED <<got, turl, tsecret, osp, config, sts>>

(***************************************************************************)
(* reconcileNormal                                                         *)
(***************************************************************************)
\* RbacConditionsSet has a value receiver: the condition is updated where the
\* list already has it, and an appended one is lost.
RbacConditionsSet(status) ==
  IF inst.status.conds["Rbac"] = "Absent" THEN inst ELSE With("Rbac", status)

ReconcileRbac ==
  /\ Call("rbac")
  /\ Continue("transportURL", RbacConditionsSet("True"))
  /\ UNCHANGED <<queued, got, objects>>

\* transportURLCreateOrUpdate and the wait for the name of the secret in the
\* status of the TransportURL.
CreateTransportURL ==
  /\ turl' = IF turl = "absent" THEN "pending" ELSE turl
  /\ queued' = (queued \/ turl = "absent")

TransportURLCreateOrUpdate ==
  /\ Call("transportURL")
  /\ CreateTransportURL
  /\ IF turl = "ready"
     THEN Continue("ospSecret", With("RabbitMqTransportURL", "True"))
     ELSE Return(With("RabbitMqTransportURL", "False"), TRUE)
  /\ UNCHANGED <<got, tsecret, osp, config, keystone, sts>>

\* getSecret, for Spec.Secret and then for the secret of the TransportURL.
GetSecret(content, field, next, instance) ==
  /\ IF content = None
     THEN Return(With("Input", "False"), TRUE) /\ UNCHANGED got
     ELSE Continue(next, instance) /\ got' = [got EXCEPT ![field] = content]
  /\ UNCHANGED <<queued, objects>>

GetOspSecret ==
  Call("ospSecret") /\ GetSecret(osp, "password", "transportSecret", inst)

GetTransportSecret ==
  Call("transportSecret") /\ GetSecret(tsecret, "transport", "central", With("Input", "True"))

\* The templates are rendered from the secrets, which are read again without
\* a look at the error of the read.
Rendered(part) ==
  [config EXCEPT ![part] = [config |-> inst.spec.config, transport |-> tsecret,
                            password |-> osp]]

GenerateServiceConfig ==
  /\ Call("central")
  /\ config' = Rendered("central")
  /\ Continue("compute", inst)
  /\ UNCHANGED <<queued, got, turl, tsecret, osp, keystone, sts>>

\* Mutant: the hash of the second configuration overwrites that of the first.
InputHashOverwritten(envVars, rendered) ==
  [password |-> envVars.password, transport |-> envVars.transport, central |-> rendered]

\* createHashOfInputHashes; envVars holds the hashes of the two secrets and
\* of the two rendered configurations.
InputHash(envVars, rendered) ==
  [password |-> envVars.password, transport |-> envVars.transport,
   central |-> rendered.central, compute |-> rendered.compute]

\* Mutant: a changed hash is not recorded.
GenerateComputeServiceConfigForgets ==
  /\ Call("compute")
  /\ config' = Rendered("compute")
  /\ IF InputHash(got, Rendered("compute")) # inst.status.hash
     THEN Return(inst, TRUE)
     ELSE Continue("init", With("ServiceConfig", "True"))
  /\ UNCHANGED <<queued, got, turl, tsecret, osp, keystone, sts>>

\* When the hash changed the pass ends here, and the patch of the status
\* starts the next one.
GenerateComputeServiceConfig ==
  /\ Call("compute")
  /\ config' = Rendered("compute")
  /\ LET hash == InputHash(got, Rendered("compute"))
     IN  IF hash # inst.status.hash
         THEN Return([inst EXCEPT !.status.hash = hash], FALSE)
         ELSE Continue("init", With("ServiceConfig", "True"))
  /\ UNCHANGED <<queued, got, turl, tsecret, osp, keystone, sts>>

\* Where the library returns no object with the error, using the secret
\* kills the process.
Panic ==
  /\ pc \in {"central", "compute"}
  /\ tsecret = None \/ osp = None
  /\ Restarted
  /\ got' = NoGot /\ ksView' = ks
  /\ UNCHANGED <<limits, turl, tsecret, osp, config, ks, sts>>

\* reconcileInit: CreateOrPatch of the KeystoneService, which is to carry the
\* finalizer of the Ceilometer.  It creates or patches by what the cache
\* shows, and fails when the object is there already or no longer.
KsUpToDate == ksView.finalizer
KsWritable == (ksView.state = "absent") = (ks.state = "absent")
EnsuredKs ==
  IF ks.state = "absent" THEN [state |-> "live", finalizer |-> TRUE, ready |-> "Absent"]
  ELSE [ks EXCEPT !.finalizer = TRUE]

CreateOrPatchKs ==
  IF ~KsUpToDate /\ KsWritable THEN WriteKs(EnsuredKs) ELSE UNCHANGED <<queued, keystone>>

\* The condition of the KeystoneService is mirrored if it has one, and an
\* object that is not ready may be waited for.
ObserveKs(k) ==
  LET mirrored == IF k.ready = "Absent" THEN inst ELSE With("KeystoneService", k.ready)
  IN  \/ Continue("statefulset", mirrored)
      \/ k.ready # "True" /\ Return(mirrored, TRUE)

ReconcileInit ==
  /\ Call("init")
  /\ IF osp = None \/ (~KsUpToDate /\ ~KsWritable)
     THEN Return(inst, TRUE) /\ UNCHANGED <<queued, keystone>>
     ELSE CreateOrPatchKs /\ ObserveKs(IF KsUpToDate THEN ksView ELSE EnsuredKs)
  /\ UNCHANGED <<got, turl, tsecret, osp, config, sts>>

\* The StatefulSet, and then the Service, which has no other effect than the
\* result of the pass.  DeploymentReady is only ever marked True here.
CreateOrPatchStatefulSet ==
  LET deployed == [sts EXCEPT !.hash = inst.status.hash, !.image = inst.spec.image]
  IN  /\ sts' = deployed
      /\ queued' = (queued \/ deployed # sts)

Counted ==
  [IF sts.ready > 0 THEN With("Deployment", "True") ELSE inst
     EXCEPT !.status.readyCount = sts.ready]

ReconcileStatefulSet ==
  /\ pc = "statefulset"
  /\ CreateOrPatchStatefulSet
  /\ \/ Return(Counted, FALSE) /\ UNCHANGED faults
     \/ Return(Counted, TRUE) /\ Fault
  /\ UNCHANGED <<server, changes, got, turl, tsecret, osp, config, keystone>>

(***************************************************************************)
(* A call of the pass fails.  The handler returns the error, for most      *)
(* calls with a condition set to False.  When it is only the answer that   *)
(* is lost, the object has been written.                                   *)
(***************************************************************************)
OnError(step) ==
  CASE step = "rbac" -> RbacConditionsSet("False")
    [] step = "transportURL" -> With("RabbitMqTransportURL", "False")
    [] step \in {"ospSecret", "transportSecret"} -> With("Input", "False")
    [] step \in {"central", "compute"} -> With("ServiceConfig", "False")
    [] step = "statefulset" -> With("Deployment", "False")
    [] OTHER -> inst

CallFails ==
  /\ pc \in Steps \ {"idle", "patch"}
  /\ Fault
  /\ Return(OnError(pc), TRUE)
  /\ \/ UNCHANGED <<queued, objects>>
     \/ /\ pc = "delete" /\ UpdateKs
        /\ UNCHANGED <<turl, tsecret, osp, config, sts>>
     \/ /\ pc = "transportURL" /\ CreateTransportURL
        /\ UNCHANGED <<tsecret, osp, config, keystone, sts>>
     \/ /\ pc \in {"central", "compute"} /\ config' = Rendered(pc)
        /\ UNCHANGED <<queued, turl, tsecret, osp, keystone, sts>>
     \/ /\ pc = "init" /\ osp # None /\ CreateOrPatchKs
        /\ UNCHANGED <<turl, tsecret, osp, config, sts>>
     \/ /\ pc = "statefulset" /\ CreateOrPatchStatefulSet
        /\ UNCHANGED <<turl, tsecret, osp, config, keystone>>
  /\ UNCHANGED <<server, changes, got>>

Restart ==
  /\ Fault
  /\ Restarted
  /\ got' = NoGot /\ ksView' = ks
  /\ UNCHANGED <<changes, turl, tsecret, osp, config, ks, sts>>

(***************************************************************************)
(* The watches of SetupWithManager, the user and the other operators       *)
(***************************************************************************)
\* For(Ceilometer)
SyncCeilometer == SyncCache /\ UNCHANGED <<got, objects>>

ResyncCeilometer == Resync /\ UNCHANGED <<got, objects>>

\* Mutant: the KeystoneService is not watched.
SyncKsUnwatched ==
  /\ ksView # ks
  /\ ksView' = ks
  /\ UNCHANGED <<server, queued, pass, limits, got, turl, tsecret, osp, config, ks, sts>>

\* Owns(KeystoneService)
SyncKs ==
  /\ ksView # ks
  /\ ksView' = ks
  /\ queued' = TRUE
  /\ UNCHANGED <<server, pass, limits, got, turl, tsecret, osp, config, ks, sts>>

\* A resource is created again once what the last one owned is collected.
User ==
  /\ \/ /\ turl = "absent" /\ sts = NoStatefulSet /\ config = NoConfig /\ ks.state # "live"
        /\ \E spec \in CeilometerSpec : UserCreates(spec)
     \/ \E spec \in CeilometerSpec : UserEdits(spec)
     \/ UserDeletes
  /\ UNCHANGED <<got, objects>>

\* Mutant: the secret is not watched.
TransportURLSecretFnUnwatched == FALSE

\* transportURLSecretFn: the owner of the secret is the TransportURL named
\* after the service, and the function looks for one named after the resource.
TransportURLSecretFn == cache.exists /\ CrName = ServiceName

\* The RabbitMQ operator reports the secret in the status of the TransportURL
\* (Owns(TransportURL)), or creates the secret again.
TransportURLProvided ==
  /\ turl = "pending" \/ (turl = "ready" /\ tsecret = None)
  /\ turl' = "ready"
  /\ tsecret' \in TransportURLs
  /\ queued' = (queued \/ turl = "pending" \/ TransportURLSecretFn)
  /\ UNCHANGED <<server, pass, limits, got, osp, config, keystone, sts>>

\* The secret of the TransportURL is rotated, or deleted.
TransportURLChanged ==
  /\ Disturb
  /\ tsecret # None
  /\ tsecret' \in (TransportURLs \cup {None}) \ {tsecret}
  /\ queued' = (queued \/ TransportURLSecretFn)
  /\ UNCHANGED <<server, pass, faults, got, turl, osp, config, keystone, sts>>

\* The secret named by Spec.Secret is not watched.
OspSecretProvided ==
  /\ osp = None
  /\ osp' \in Passwords
  /\ UNCHANGED <<server, queued, pass, limits, got, turl, tsecret, config, keystone, sts>>

OspSecretChanged ==
  /\ Disturb
  /\ osp # None
  /\ osp' \in (Passwords \cup {None}) \ {osp}
  /\ UNCHANGED <<server, queued, pass, faults, got, turl, tsecret, config, keystone, sts>>

\* The Keystone operator registers the service.
KsRegistered ==
  /\ ks.state = "live" /\ ks.ready # "True"
  /\ WriteKs([ks EXCEPT !.ready = "True"])
  /\ UNCHANGED <<server, pass, limits, got, turl, tsecret, osp, config, sts>>

\* A deleted KeystoneService stays as long as it has the finalizer.
DeletedKs == IF ks.finalizer THEN [ks EXCEPT !.state = "terminating"] ELSE NoKeystoneService

\* The registration is lost, or somebody deletes the KeystoneService.
KsDisturbed ==
  /\ Disturb
  /\ ks.state = "live"
  /\ \/ ks.ready # "False" /\ WriteKs([ks EXCEPT !.ready = "False"])
     \/ WriteKs(DeletedKs)
  /\ UNCHANGED <<server, pass, faults, got, turl, tsecret, osp, config, sts>>

\* The StatefulSet controller updates readyReplicas (Owns(StatefulSet)).
Pods(count) ==
  /\ sts.hash # None /\ sts.ready # count
  /\ sts' = [sts EXCEPT !.ready = count]
  /\ queued' = TRUE
  /\ UNCHANGED <<server, pass, got, turl, tsecret, osp, config, keystone>>

PodsReady == Pods(1) /\ UNCHANGED limits
PodsLost == Pods(0) /\ Disturb /\ UNCHANGED faults

\* Objects owned by a resource that is gone are deleted.
GarbageCollect ==
  /\ ~cr.exists
  /\ turl # "absent" \/ sts # NoStatefulSet \/ config # NoConfig
  /\ turl' = "absent" /\ tsecret' = None
  /\ config' = NoConfig
  /\ sts' = NoStatefulSet
  /\ queued' = TRUE
  /\ UNCHANGED <<server, pass, limits, got, osp, keystone>>

GarbageCollectKs ==
  /\ ~cr.exists
  /\ ks.state = "live"
  /\ WriteKs(DeletedKs)
  /\ UNCHANGED <<server, pass, limits, got, turl, tsecret, osp, config, sts>>

(***************************************************************************)
(* The specification                                                       *)
(***************************************************************************)
Work ==
  \/ Reconcile
  \/ ReconcileDelete
  \/ ReconcileRbac \/ TransportURLCreateOrUpdate \/ GetOspSecret \/ GetTransportSecret
  \/ GenerateServiceConfig \/ GenerateComputeServiceConfig
  \/ ReconcileInit \/ ReconcileStatefulSet
  \/ PatchStep

Next ==
  \/ Work \/ CallFails \/ Panic \/ Restart
  \/ SyncCeilometer \/ SyncKs \/ ResyncCeilometer
  \/ User
  \/ TransportURLProvided \/ OspSecretProvided \/ KsRegistered \/ PodsReady
  \/ TransportURLChanged \/ OspSecretChanged \/ KsDisturbed \/ PodsLost
  \/ GarbageCollect \/ GarbageCollectKs

Spec == Init /\ [][Next]_vars

\* The worker runs as long as it has a key, events are delivered and garbage
\* is collected, what is missing is provided in the end, and the sync period
\* ends again and again.  Delivery is strongly fair because the model may
\* restrict it to the time between two passes.
Fairness ==
  /\ WF_vars(Work)
  /\ SF_vars(SyncCeilometer \/ SyncKs \/ GarbageCollect \/ GarbageCollectKs)
  /\ WF_vars(TransportURLProvided \/ OspSecretProvided \/ KsRegistered \/ PodsReady)
  /\ WF_vars(ResyncCeilometer)

FairSpec == Spec /\ Fairness

(***************************************************************************)
(* Properties                                                              *)
(***************************************************************************)
\* Nothing is pending inside the controller.
Settled == Quiescent /\ ksView = ks

\* As long as the KeystoneService carries the finalizer of the Ceilometer, the
\* Ceilometer still exists and carries its own, so that a later pass of
\* reconcileDelete removes the first before it releases the second.
\* Otherwise nobody is left to remove it and the KeystoneService could never
\* be deleted (reconcileDelete and reconcileInit).
KeystoneFinalizerReleased == ks.finalizer => cr.exists /\ cr.finalizer

\* A resource that reports Ready and is not being deleted has been through
\* all of reconcileNormal: its input hash is recorded, its KeystoneService is
\* there with the finalizer and its StatefulSet has been written.
ReadyAfterRollout ==
  cr.exists /\ ~cr.deleting /\ Ready(cr) =>
    cr.status.hash # None /\ ks.finalizer /\ sts.hash # None

\* No wake-up is lost.  When nothing is pending any more for a resource that
\* exists, it is not waiting to be deleted, its finalizer and conditions are
\* there, and the StatefulSet carries the image of the spec and the hash of
\* the configurations rendered from the spec: every early return of Reconcile
\* is followed by another pass until this is so.
NoLostWakeup ==
  Settled /\ cr.exists =>
    /\ ~cr.deleting /\ cr.finalizer
    /\ cr.status.conds["Ready"] # "Absent"
    /\ sts.image = cr.spec.image
    /\ sts.hash = cr.status.hash /\ sts.hash # None
    /\ \A part \in {"central", "compute"} :
         config[part] = sts.hash[part] /\ config[part].config = cr.spec.config

\* A rotated transport URL restarts the pods: when nothing is pending, both
\* configurations and the hash in the StatefulSet are those of the current
\* secret (transportURLSecretFn, createHashOfInputHashes).
TransportURLRolledOut ==
  Settled /\ cr.exists /\ sts.hash # None =>
    /\ sts.hash.transport = tsecret
    /\ sts.hash.central.transport = tsecret /\ sts.hash.compute.transport = tsecret

\* When nothing is pending, the status shows what the controller owns: the
\* number of ready pods and the state of the KeystoneService.
StatusIsCurrent ==
  Settled /\ cr.exists =>
    /\ cr.status.readyCount = sts.ready
    /\ ks.ready # "Absent" => cr.status.conds["KeystoneService"] = ks.ready

\* The controller settles.  Once the environment leaves it alone, a resource
\* that is not deleted ends up Ready, with its pods running the configuration
\* of its spec and of the current secrets; this includes the password, whose
\* change nothing announces.  It also comes to rest again and again: a pass
\* does not give rise to another for ever.  A KeystoneService that somebody
\* else has deleted is excepted: the finalizer holds it, so that it is neither
\* gone nor usable.  Without a resource, nothing of what it owned is left,
\* and a deletion always completes, although the finalizer has to be removed
\* from the KeystoneService before.
Settles ==
  /\ <>[]IF cr.exists
         THEN /\ ~cr.deleting
                /\ ks.state # "terminating" =>
                     /\ Ready(cr)
                     /\ sts.ready = 1 /\ sts.image = cr.spec.image
                     /\ \A part \in {"central", "compute"} :
                          sts.hash[part] = [config |-> cr.spec.config, transport |-> tsecret,
                                            password |-> osp]
         ELSE ks = NoKeystoneService /\ sts = NoStatefulSet
  /\ []<>(Settled \/ ks.state = "terminating")

Lifecycle == INSTANCE ServiceLifecycle WITH
  state <- IF ~cr.exists THEN "absent" ELSE IF cr.deleting THEN "terminating" ELSE "live",
  ready <- Ready(cr)

\* The resource goes through the life of a service as its Telemetry expects
\* it: above all it is never gone before it was deleted and, once it has been
\* Ready, not before this controller has released it.
ImplementsLifecycle == Lifecycle!Spec

===============================================================================
