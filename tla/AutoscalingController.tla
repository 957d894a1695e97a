------------------------- MODULE AutoscalingController -------------------------
(***************************************************************************)
(* The controller of one Autoscaling custom resource, which deploys aodh   *)
(* (src/controllers/autoscaling_controller.go and aodh_controller.go),     *)
(* between the API server, the user and the operators that provide the     *)
(* objects it depends on.  Each API call of a pass is an action; what the  *)
(* code computes between two calls belongs to the earlier one.  The caches *)
(* of the objects other than the Autoscaling itself are taken to be        *)
(* current.                                                                *)
(***************************************************************************)
EXTENDS Conditions, Naturals

CONSTANTS
  Configs,            \* what the configuration takes from the spec; it
                      \* determines the host of the database
  Images,             \* what the pods of the job and of the service take from it
  TransportURLs,      \* contents of the TransportURL secret
  ServerLists,        \* server lists of the Memcached
  None,               \* a missing object or value
  CrName,             \* metadata.name of the custom resource
  StatusWithMetadata, SyncDuringPass, \* see Reconciler
  MaxFaults,          \* bound on failed API calls and restarts
  MaxChanges          \* bound on the disturbances of the environment

ASSUME NoneAssumption == None \notin Configs \cup Images \cup TransportURLs \cup ServerLists
ASSUME FlagAssumption == StatusWithMetadata \in BOOLEAN /\ SyncDuringPass \in BOOLEAN
ASSUME BoundAssumption == MaxFaults \in Nat /\ MaxChanges \in Nat

VARIABLES
  cr, cache, event, queued, pc, before, inst, requeue, faults, changes, \* see Reconciler
  got,      \* the transport URL and the Memcached servers read in this pass
  turl,     \* the TransportURL: "absent", "pending" or "ready"
  tsecret,  \* the content of its secret
  osp,      \* does the secret with the passwords exist?
  mc,       \* the servers of the Memcached if it is ready
  heat,     \* is the Heat ready?
  config,   \* the rendered configuration secret
  owned,    \* the MariaDBDatabase, the KeystoneService and the KeystoneEndpoint
  job,      \* the db sync job
  schema,   \* the images whose job has migrated the database
  sts       \* the StatefulSet

ServiceName == "aodh"

(***************************************************************************)
(* Data                                                                    *)
(***************************************************************************)
CondTypes ==
  {"Ready", "Rbac", "Heat", "Memcached", "ServiceConfig", "DB", "DBSync", "RabbitMqTransportURL",
   "Deployment", "KeystoneService", "KeystoneEndpoint", "Input", "ExposeService"}

\* Input and ExposeService are set later, but not initialized.
AutoscalingInitList ==
  {"Rbac", "Heat", "Memcached", "ServiceConfig", "DB", "DBSync", "RabbitMqTransportURL",
   "Deployment", "KeystoneService", "KeystoneEndpoint"}

AutoscalingSpec == [config : Configs, image : Images]

\* A rendered configuration, with the host of the database found in the status.
Content == [config : Configs, transport : TransportURLs, servers : ServerLists,
            host : Configs \cup {None}]

ASSUME ContentAssumption == None \notin Content

\* The hash over all inputs, taken to be injective.
Hash == [transport : TransportURLs, rendered : Content]

ASSUME HashAssumption == None \notin Hash

AutoscalingStatus == [conds : [CondTypes -> Status], hash : Hash \cup {None},
                      dbsync : Images \cup {None}, host : Configs \cup {None},
                      readyCount : {0, 1}]

NoStatus == [conds |-> NilConditions(CondTypes), hash |-> None, dbsync |-> None,
             host |-> None, readyCount |-> 0]

\* The deferred function declares an err of its own: a failed patch is lost.
INSTANCE Reconciler WITH
  EmptyStatus <- NoStatus, InitList <- AutoscalingInitList, ReturnsPatchError <- FALSE

Autoscaling == InstanceType(AutoscalingSpec, AutoscalingStatus)

\* The objects that carry the finalizer of the Autoscaling.
Owned == {"db", "ks", "endpoint"}

Object == [state : {"absent", "live", "terminating"}, finalizer : BOOLEAN, ready : Status]

NoObject == [state |-> "absent", finalizer |-> FALSE, ready |-> "Absent"]

Job == [image : Images \cup {None}, done : BOOLEAN]

NoJob == [image |-> None, done |-> FALSE]

StatefulSet == [hash : Hash \cup {None}, image : Images \cup {None}, ready : {0, 1}]

NoStatefulSet == [hash |-> None, image |-> None, ready |-> 0]

NoGot == [transport |-> None, servers |-> None]

Steps == {"idle", "delete", "deleteKs", "deleteEndpoint", "rbac", "transportURL", "ospSecret",
          "memcached", "heat", "transportSecret", "config", "ks", "db", "job",
          "statefulset", "services", "endpoint", "patch"}

server == <<cr, cache, event>>
pass == <<pc, before, inst, requeue>>
limits == <<faults, changes>>
inputs == <<turl, tsecret, osp, mc, heat>>
outputs == <<config, owned, job, schema, sts>>
vars == <<server, queued, pass, limits, got, inputs, outputs>>

ReconcilerType ==
  /\ cr \in Autoscaling /\ cache \in Autoscaling
  /\ before \in Autoscaling /\ inst \in Autoscaling
  /\ event \in BOOLEAN /\ queued \in BOOLEAN /\ requeue \in BOOLEAN
  /\ pc \in Steps
  /\ faults \in 0 .. MaxFaults /\ changes \in 0 .. MaxChanges

ObjectsType ==
  /\ got \in [transport : TransportURLs \cup {None}, servers : ServerLists \cup {None}]
  /\ turl \in {"absent", "pending", "ready"}
  /\ tsecret \in TransportURLs \cup {None}
  /\ osp \in BOOLEAN /\ mc \in ServerLists \cup {None} /\ heat \in BOOLEAN
  /\ config \in Content \cup {None}
  /\ owned \in [Owned -> Object]
  /\ job \in Job /\ schema \subseteq Images
  /\ sts \in StatefulSet

TypeOK == ReconcilerType /\ ObjectsType

\* The password secret, the Memcached and the Heat are there to begin with; one
\* that is not counts as a disturbance.
Init ==
  /\ ReconcilerInit
  /\ got = NoGot
  /\ turl = "absent" /\ tsecret = None
  /\ osp = TRUE /\ mc \in ServerLists /\ heat = TRUE
  /\ config = None /\ owned = [o \in Owned |-> NoObject]
  /\ job = NoJob /\ schema = {} /\ sts = NoStatefulSet
  /\ faults = MaxFaults /\ changes = MaxChanges

(***************************************************************************)
(* Reconcile                                                               *)
(***************************************************************************)
Reconcile ==
  /\ NotFound \/ AddFinalizer \/ InitStatus \/ Dispatch("rbac")
  /\ UNCHANGED <<got, inputs, outputs>>

PatchStep ==
  /\ Patch \/ PatchFails
  /\ got' = NoGot
  /\ UNCHANGED <<inputs, outputs>>

\* An API call of the pass that does not fail.
Call(step) == pc = step /\ UNCHANGED <<server, limits>>

(***************************************************************************)
(* reconcileDelete and reconcileDeleteAodh: the finalizer is removed from  *)
(* the database, the KeystoneService and the KeystoneEndpoint, in turn,    *)
(* and then from the Autoscaling.                                          *)
(***************************************************************************)
\* Owns(...): the event of a change puts the key in the queue.
WriteOwned(o, object) ==
  /\ owned' = [owned EXCEPT ![o] = object]
  /\ queued' = (queued \/ object # owned[o])

\* The object without the finalizer; it goes away with it when it is being
\* deleted.
Release(o) ==
  WriteOwned(o, IF owned[o].state = "terminating" THEN NoObject
                ELSE [owned[o] EXCEPT !.finalizer = FALSE])

DeleteStep(step, o) ==
  /\ Call(step)
  /\ Release(o)
  /\ UNCHANGED <<got, inputs, config, job, schema, sts>>

\* Mutant: the KeystoneEndpoint is forgotten.
ReconcileDeleteAodhNoEndpoint ==
  \/ DeleteStep("delete", "db") /\ Continue("deleteKs", inst)
  \/ DeleteStep("deleteKs", "ks") /\ Return([inst EXCEPT !.finalizer = FALSE], FALSE)

ReconcileDeleteAodh ==
  \/ DeleteStep("delete", "db") /\ Continue("deleteKs", inst)
  \/ DeleteStep("deleteKs", "ks") /\ Continue("deleteEndpoint", inst)
  \/ DeleteStep("deleteEndpoint", "endpoint") /\ Return([inst EXCEPT !.finalizer = FALSE], FALSE)

(***************************************************************************)
(* reconcileNormal: the inputs                                             *)
(***************************************************************************)
\* The instance with several conditions set to True.
WithTrue(types) ==
  [inst EXCEPT !.status.conds = [t \in CondTypes |-> IF t \in types THEN "True" ELSE @[t]]]

\* The handler sets a condition to False and asks for another pass.
Wait(t) == Return(With(t, "False"), TRUE)

ReconcileRbac ==
  /\ Call("rbac")
  /\ Continue("transportURL", WithTrue({"Rbac", "ServiceConfig"}))
  /\ UNCHANGED <<queued, got, inputs, outputs>>

CreateTransportURL ==
  /\ turl' = IF turl = "absent" THEN "pending" ELSE turl
  /\ queued' = (queued \/ turl = "absent")

TransportURLCreateOrUpdate ==
  /\ Call("transportURL")
  /\ CreateTransportURL
  /\ IF turl = "ready" THEN Continue("ospSecret", WithTrue({"RabbitMqTransportURL"}))
     ELSE Wait("RabbitMqTransportURL")
  /\ UNCHANGED <<got, tsecret, osp, mc, heat, outputs>>

\* getSecret, for the secret with the passwords.  Nothing ever sets Input to
\* True.
GetOspSecret ==
  /\ Call("ospSecret")
  /\ IF osp THEN Continue("memcached", inst) ELSE Wait("Input")
  /\ UNCHANGED <<queued, got, inputs, outputs>>

GetAutoscalingMemcached ==
  /\ Call("memcached")
  /\ IF mc # None
     THEN Continue("heat", WithTrue({"Memcached"})) /\ got' = [got EXCEPT !.servers = mc]
     ELSE Wait("Memcached") /\ UNCHANGED got
  /\ UNCHANGED <<queued, inputs, outputs>>

GetAutoscalingHeat ==
  /\ Call("heat")
  /\ IF heat THEN Continue("transportSecret", WithTrue({"Heat"})) ELSE Wait("Heat")
  /\ UNCHANGED <<queued, got, inputs, outputs>>

GetTransportSecret ==
  /\ Call("transportSecret")
  /\ IF tsecret # None
     THEN Continue("config", inst) /\ got' = [got EXCEPT !.transport = tsecret]
     ELSE Wait("Input") /\ UNCHANGED got
  /\ UNCHANGED <<queued, inputs, outputs>>

\* The templates are rendered from the secrets, read again, from the servers
\* read before, and from the host in the status.
Rendered ==
  [config |-> inst.spec.config, transport |-> tsecret, servers |-> got.servers,
   host |-> inst.status.host]

WriteConfig == config' = Rendered /\ queued' = (queued \/ config # Rendered)

\* Mutant: the hash of the secret is not collected.
InputHashIncomplete == [transport |-> None, rendered |-> Rendered]

\* createHashOfInputHashes over the hashes of the secrets and of the rendered
\* configuration.
InputHash == [transport |-> got.transport, rendered |-> Rendered]

\* When the hash changed the pass ends here, for the patch to start the next.
GenerateServiceConfig ==
  /\ Call("config")
  /\ IF osp /\ tsecret # None
     THEN /\ WriteConfig
          /\ IF InputHash # inst.status.hash
             THEN Return([inst EXCEPT !.status.hash = InputHash], FALSE)
             ELSE Continue("ks", inst)
     ELSE Wait("ServiceConfig") /\ UNCHANGED <<queued, config>>
  /\ UNCHANGED <<got, inputs, owned, job, schema, sts>>

(***************************************************************************)
(* reconcileInitAodh: the KeystoneService, the database and its migration  *)
(***************************************************************************)
\* CreateOrPatch of an object that is to carry the finalizer.
Ensured(o) ==
  IF owned[o].state = "absent" THEN [state |-> "live", finalizer |-> TRUE, ready |-> "Absent"]
  ELSE [owned[o] EXCEPT !.finalizer = TRUE]

\* Its condition is mirrored if it has one; while it is not ready, the library
\* may ask to wait for it.
Mirrored(o, t) == IF Ensured(o).ready = "Absent" THEN inst ELSE With(t, Ensured(o).ready)
MayWait(o) == Ensured(o).ready # "True"

EnsureKeystoneService ==
  /\ Call("ks")
  /\ \/ /\ osp
        /\ WriteOwned("ks", Ensured("ks"))
        /\ \/ Continue("db", Mirrored("ks", "KeystoneService"))
           \/ MayWait("ks") /\ Return(Mirrored("ks", "KeystoneService"), TRUE)
     \/ ~osp /\ Return(inst, TRUE) /\ UNCHANGED <<queued, owned>>
  /\ UNCHANGED <<got, inputs, config, job, schema, sts>>

\* Mutant: the host does not reach the status.
EnsureDatabaseForgets ==
  /\ Call("db")
  /\ WriteOwned("db", Ensured("db"))
  /\ IF Ensured("db").ready = "True" THEN Continue("job", WithTrue({"DB"})) ELSE Wait("DB")
  /\ UNCHANGED <<got, inputs, config, job, schema, sts>>

\* CreateOrPatchDBByName and WaitForDBCreated.  The host is known from here
\* on, and the configuration has to be rendered again when it is new.
EnsureDatabase ==
  /\ Call("db")
  /\ WriteOwned("db", Ensured("db"))
  /\ IF Ensured("db").ready = "True"
     THEN Continue("job", [WithTrue({"DB"}) EXCEPT !.status.host = inst.spec.config])
     ELSE Wait("DB")
  /\ UNCHANGED <<got, inputs, config, job, schema, sts>>

\* Mutant: the job runs once.
JobWantedOnce == inst.status.dbsync = None

\* DoJob runs the job unless the hash of its definition is on record, and a
\* job that is done may be deleted (PreserveJobs).  Jobs are not watched.
Synced == [WithTrue({"DBSync"}) EXCEPT !.status.dbsync = inst.spec.image]
JobWanted == inst.status.dbsync # inst.spec.image
JobDone == job.done /\ job.image = inst.spec.image
StartedJob == IF job.image = inst.spec.image THEN job ELSE [image |-> inst.spec.image, done |-> FALSE]

DoJob ==
  /\ Call("job")
  /\ \/ ~JobWanted /\ Continue("statefulset", Synced) /\ UNCHANGED job
     \/ JobWanted /\ JobDone /\ Continue("statefulset", Synced) /\ job' \in {job, NoJob}
     \/ JobWanted /\ ~JobDone /\ Wait("DBSync") /\ job' = StartedJob
  /\ UNCHANGED <<queued, got, inputs, config, owned, schema, sts>>

(***************************************************************************)
(* reconcileNormalAodh: the StatefulSet, the Services and the              *)
(* KeystoneEndpoint                                                        *)
(***************************************************************************)
CreateOrPatchStatefulSet ==
  LET deployed == [sts EXCEPT !.hash = inst.status.hash, !.image = inst.spec.image]
  IN  sts' = deployed /\ queued' = (queued \/ deployed # sts)

Counted ==
  [IF sts.ready > 0 THEN With("Deployment", "True") ELSE inst
     EXCEPT !.status.readyCount = sts.ready]

ReconcileStatefulSet ==
  /\ Call("statefulset")
  /\ CreateOrPatchStatefulSet
  /\ Continue("services", Counted)
  /\ UNCHANGED <<got, inputs, config, owned, job, schema>>

ExposeServices ==
  /\ Call("services")
  /\ Continue("endpoint", WithTrue({"ExposeService"}))
  /\ UNCHANGED <<queued, got, inputs, outputs>>

EnsureKeystoneEndpoint ==
  /\ Call("endpoint")
  /\ WriteOwned("endpoint", Ensured("endpoint"))
  /\ \/ Return(Mirrored("endpoint", "KeystoneEndpoint"), FALSE)
     \/ MayWait("endpoint") /\ Return(Mirrored("endpoint", "KeystoneEndpoint"), TRUE)
  /\ UNCHANGED <<got, inputs, config, job, schema, sts>>

(***************************************************************************)
(* A call of the pass fails, or its answer is lost.                        *)
(***************************************************************************)
ErrorCondition ==
  [transportURL |-> "RabbitMqTransportURL", ospSecret |-> "Input", transportSecret |-> "Input",
   memcached |-> "Memcached", heat |-> "Heat", config |-> "ServiceConfig", rbac |-> "Rbac",
   db |-> "DB", job |-> "DBSync", statefulset |-> "Deployment", services |-> "ExposeService"]

OnError(step) == IF step \in DOMAIN ErrorCondition THEN With(ErrorCondition[step], "False") ELSE inst

\* What the call has written nevertheless.
Written ==
  \/ pc = "transportURL" /\ CreateTransportURL /\ UNCHANGED <<tsecret, osp, mc, heat, outputs>>
  \/ /\ pc = "config" /\ osp /\ tsecret # None /\ WriteConfig
     /\ UNCHANGED <<inputs, owned, job, schema, sts>>
  \/ /\ \/ pc = "delete" /\ Release("db")
        \/ pc = "deleteKs" /\ Release("ks")
        \/ pc = "deleteEndpoint" /\ Release("endpoint")
        \/ pc \in Owned /\ (pc = "ks" => osp) /\ WriteOwned(pc, Ensured(pc))
     /\ UNCHANGED <<inputs, config, job, schema, sts>>
  \/ pc = "job" /\ JobWanted /\ job' = StartedJob /\ UNCHANGED <<queued, inputs, config, owned, schema, sts>>
  \/ pc = "statefulset" /\ CreateOrPatchStatefulSet /\ UNCHANGED <<inputs, config, owned, job, schema>>

CallFails ==
  /\ pc \in Steps \ {"idle", "patch"}
  /\ Fault
  /\ Return(OnError(pc), TRUE)
  /\ Written \/ UNCHANGED <<queued, inputs, outputs>>
  /\ UNCHANGED <<server, changes, got>>

Restart ==
  /\ Fault
  /\ Restarted
  /\ got' = NoGot
  /\ UNCHANGED <<changes, inputs, outputs>>

(***************************************************************************)
(* The watches of SetupWithManager, the user and the other operators       *)
(***************************************************************************)
SyncAutoscaling == SyncCache /\ UNCHANGED <<got, inputs, outputs>>

ResyncAutoscaling == Resync /\ UNCHANGED <<got, inputs, outputs>>

\* A resource is created again once what the last one owned is collected.
User ==
  /\ \/ /\ turl = "absent" /\ config = None /\ sts = NoStatefulSet
        /\ \A o \in Owned : owned[o].state = "absent"
        /\ \E spec \in AutoscalingSpec : UserCreates(spec)
     \/ \E spec \in AutoscalingSpec : UserEdits(spec)
     \/ UserDeletes
  /\ UNCHANGED <<got, inputs, outputs>>

\* transportURLSecretFn: the owner of the secret is the TransportURL named
\* after the service, and the function looks for one named after the resource.
TransportURLSecretFn == cache.exists /\ CrName = ServiceName

TransportURLProvided ==
  /\ turl = "pending" \/ (turl = "ready" /\ tsecret = None)
  /\ turl' = "ready"
  /\ tsecret' \in TransportURLs
  /\ queued' = (queued \/ turl = "pending" \/ TransportURLSecretFn)
  /\ UNCHANGED <<server, pass, limits, got, osp, mc, heat, outputs>>

TransportURLChanged ==
  /\ Disturb
  /\ tsecret # None
  /\ tsecret' \in (TransportURLs \cup {None}) \ {tsecret}
  /\ queued' = (queued \/ TransportURLSecretFn)
  /\ UNCHANGED <<server, pass, faults, got, turl, osp, mc, heat, outputs>>

\* Mutant: the Memcached is not watched.
MemcachedFnUnwatched == FALSE

\* memcachedFn: a change of the Memcached that the spec names.
MemcachedFn == cache.exists

MemcachedSet(m) ==
  /\ mc' = m /\ m # mc
  /\ queued' = (queued \/ MemcachedFn)
  /\ UNCHANGED <<server, pass, got, turl, tsecret, osp, heat, outputs>>

MemcachedProvided == mc = None /\ (\E m \in ServerLists : MemcachedSet(m)) /\ UNCHANGED limits
MemcachedChanged == (\E m \in ServerLists \cup {None} : MemcachedSet(m)) /\ Disturb /\ UNCHANGED faults

\* Neither the secret with the passwords nor the Heat is watched.
Unwatched(hasSecret, isReady) ==
  /\ osp' = hasSecret /\ heat' = isReady
  /\ UNCHANGED <<server, queued, pass, got, turl, tsecret, mc, outputs>>

InputProvided ==
  /\ \/ ~osp /\ Unwatched(TRUE, heat)
     \/ ~heat /\ Unwatched(osp, TRUE)
  /\ UNCHANGED limits

InputLost ==
  /\ Disturb
  /\ \/ osp /\ Unwatched(FALSE, heat)
     \/ heat /\ Unwatched(osp, FALSE)
  /\ UNCHANGED faults

\* The operators of MariaDB and Keystone.
Registered(o) ==
  /\ owned[o].state = "live" /\ owned[o].ready # "True"
  /\ WriteOwned(o, [owned[o] EXCEPT !.ready = "True"])
  /\ UNCHANGED <<server, pass, limits, got, inputs, config, job, schema, sts>>

Deleted(o) ==
  IF owned[o].finalizer THEN [owned[o] EXCEPT !.state = "terminating"] ELSE NoObject

\* A registration is lost, or somebody deletes an object.
OwnedDisturbed(o) ==
  /\ Disturb
  /\ owned[o].state = "live"
  /\ \/ o # "db" /\ owned[o].ready # "False" /\ WriteOwned(o, [owned[o] EXCEPT !.ready = "False"])
     \/ WriteOwned(o, Deleted(o))
  /\ UNCHANGED <<server, pass, faults, got, inputs, config, job, schema, sts>>

\* The pod of the job fails and is started again until it reaches the database.
JobSucceeds ==
  /\ job.image # None /\ ~job.done
  /\ config # None /\ config.host = config.config
  /\ job' = [job EXCEPT !.done = TRUE]
  /\ schema' = schema \cup {job.image}
  /\ UNCHANGED <<server, queued, pass, limits, got, inputs, config, owned, sts>>

Pods(count) ==
  /\ sts.hash # None /\ sts.ready # count
  /\ sts' = [sts EXCEPT !.ready = count]
  /\ queued' = TRUE
  /\ UNCHANGED <<server, pass, got, inputs, config, owned, job, schema>>

PodsReady == Pods(1) /\ UNCHANGED limits
PodsLost == Pods(0) /\ Disturb /\ UNCHANGED faults

GarbageCollect ==
  /\ ~cr.exists
  /\ turl # "absent" \/ config # None \/ job # NoJob \/ sts # NoStatefulSet
     \/ \E o \in Owned : owned[o].state = "live"
  /\ turl' = "absent" /\ tsecret' = None
  /\ config' = None /\ job' = NoJob /\ sts' = NoStatefulSet
  /\ owned' = [o \in Owned |-> IF owned[o].state = "live" THEN Deleted(o) ELSE owned[o]]
  /\ schema' = IF owned'["db"].state = "absent" THEN {} ELSE schema
  /\ queued' = TRUE
  /\ UNCHANGED <<server, pass, limits, got, osp, mc, heat>>

(***************************************************************************)
(* The specification                                                       *)
(***************************************************************************)
Work ==
  \/ Reconcile \/ ReconcileDeleteAodh
  \/ ReconcileRbac \/ TransportURLCreateOrUpdate \/ GetOspSecret \/ GetAutoscalingMemcached
  \/ GetAutoscalingHeat \/ GetTransportSecret \/ GenerateServiceConfig
  \/ EnsureKeystoneService \/ EnsureDatabase \/ DoJob
  \/ ReconcileStatefulSet \/ ExposeServices \/ EnsureKeystoneEndpoint
  \/ PatchStep

Provide ==
  \/ TransportURLProvided \/ MemcachedProvided \/ InputProvided
  \/ (\E o \in Owned : Registered(o)) \/ JobSucceeds \/ PodsReady

Next ==
  \/ Work \/ CallFails \/ Restart
  \/ SyncAutoscaling \/ ResyncAutoscaling \/ User \/ Provide \/ GarbageCollect
  \/ TransportURLChanged \/ MemcachedChanged \/ InputLost \/ PodsLost
  \/ \E o \in Owned : OwnedDisturbed(o)

Spec == Init /\ [][Next]_vars

\* As for Ceilometer: the worker runs as long as it has a key, events are
\* delivered and garbage is collected, what is missing is provided in the end,
\* and the sync period ends again and again.
Fairness ==
  /\ WF_vars(Work) /\ SF_vars(SyncAutoscaling \/ GarbageCollect)
  /\ WF_vars(Provide) /\ WF_vars(ResyncAutoscaling)

FairSpec == Spec /\ Fairness

(***************************************************************************)
(* Properties                                                              *)
(***************************************************************************)
\* As long as one of the three objects carries the finalizer of the
\* Autoscaling, the Autoscaling exists and carries its own, whichever steps of
\* reconcileDeleteAodh fail: otherwise nobody would be left to remove it.
FinalizersReleased ==
  \A o \in Owned : owned[o].finalizer => cr.exists /\ cr.finalizer

\* The database is migrated before the image is rolled out: the StatefulSet is
\* only ever given an image whose db sync job has completed on the database
\* (reconcileInitAodh before reconcileNormalAodh, and the hash of the job),
\* although the hash of the job on record may be out of date.
MigratedBeforeRollout ==
  [][sts'.image # sts.image => sts'.image \in schema \cup {None}]_vars

\* A resource that reports Ready and is not being deleted has been through all
\* of reconcileNormal: every object it needs is there and held.
ReadyAfterRollout ==
  cr.exists /\ ~cr.deleting /\ Ready(cr) =>
    /\ \A o \in Owned : owned[o].finalizer
    /\ cr.status.dbsync # None /\ sts.hash # None

\* No wake-up is lost.  When nothing is pending, a resource is not waiting to
\* be deleted, and if its inputs are there the StatefulSet carries its image
\* and the hash of a configuration that was rendered from its spec, with the
\* current servers of the Memcached and the host of the database, which became
\* known only after a first configuration had been rendered.
NoLostWakeup ==
  Quiescent /\ cr.exists =>
    /\ ~cr.deleting /\ cr.finalizer
    /\ sts.image = cr.spec.image /\ sts.hash # None
    /\ sts.hash = cr.status.hash /\ sts.hash.rendered = config
    /\ config.config = cr.spec.config /\ config.host = cr.spec.config
    /\ config.servers = mc

\* The controller settles.  Once the environment leaves it alone, a resource
\* that is not deleted ends up with its pods running the configuration of its
\* spec and of the current inputs, and comes to rest again and again.  This
\* includes the changes that no event announces, and a patch that failed,
\* whose error is dropped: the next sync period makes up for it.  An object that
\* somebody else has deleted is excepted: the finalizer holds it.  Without a
\* resource, nothing of what it owned is left, and a deletion always completes,
\* although the finalizer has to be removed from the three objects before.
Settles ==
  LET Held == \E o \in Owned : owned[o].state = "terminating"
  IN  /\ <>[]IF cr.exists
             THEN /\ ~cr.deleting
                  /\ Held \/ /\ sts.ready = 1 /\ sts.image = cr.spec.image
                             /\ sts.hash = [transport |-> tsecret, rendered |-> config]
                             /\ config = [config |-> cr.spec.config, transport |-> tsecret,
                                          servers |-> mc, host |-> cr.spec.config]
                             /\ \A t \in CondTypes \ {"Ready", "Input"} :
                                  cr.status.conds[t] = "True"
             ELSE sts = NoStatefulSet /\ owned = [o \in Owned |-> NoObject]
      /\ []<>(Quiescent \/ Held)

\* Autoscaling is Ready if it "is reconciled successfully"
\* (autoscaling_types.go): when nothing is pending and no other condition is
\* in the way, it is.
ReadyWhenReconciled ==
  Quiescent /\ cr.exists
  /\ (\A t \in CondTypes \ {"Ready", "Input"} : cr.status.conds[t] = "True") => Ready(cr)

Lifecycle == INSTANCE ServiceLifecycle WITH
  state <- IF ~cr.exists THEN "absent" ELSE IF cr.deleting THEN "terminating" ELSE "live",
  ready <- Ready(cr)

\* The resource goes through the life of a service as its Telemetry expects
\* it: above all it is never gone before it was deleted and, once it has been
\* Ready, not before this controller has released it.
ImplementsLifecycle == Lifecycle!Spec

===============================================================================
