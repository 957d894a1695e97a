------------------------ MODULE MetricStorageController ------------------------
(***************************************************************************)
(* The controller of one MetricStorage custom resource                     *)
(* (src/controllers/metricstorage_controller.go), which has the            *)
(* observability operator run Prometheus, and tells it what to scrape.     *)
(* The resource definitions it works with may not be installed yet, so it  *)
(* starts its watches on the way, and keeps a list of those it has started *)
(* in memory.  The caches of the objects other than the MetricStorage      *)
(* itself are taken to be current.                                         *)
(***************************************************************************)
EXTENDS ScrapeTargets, Conditions

CONSTANTS
  Customs,            \* custom monitoring stacks with content
  Options,            \* options of the supported monitoring stack
  Malformed,          \* those whose storage request is not a quantity
  Specs,              \* the specs that the user gives the MetricStorage
  Inventories,        \* what the scrape targets are collected from, by name
  Bundles,            \* the sets of definitions that are installed together
  StatusWithMetadata, SyncDuringPass, \* see Reconciler
  MaxFaults,          \* bound on failed API calls and restarts
  MaxChanges          \* bound on the disturbances of the environment

ASSUME NoneAssumption == None \notin Customs \cup Options
ASSUME MalformedAssumption == Malformed \subseteq Options
ASSUME FlagAssumption == StatusWithMetadata \in BOOLEAN /\ SyncDuringPass \in BOOLEAN
ASSUME BoundAssumption == MaxFaults \in Nat /\ MaxChanges \in Nat

VARIABLES
  cr, cache, event, queued, pc, before, inst, requeue, faults, changes, \* see Reconciler
  lost,      \* has the patch of the last pass failed unnoticed?
  crds,      \* the kinds whose definition is installed
  watching,  \* r.Watching, the kinds that the reconciler thinks it watches
  watches,   \* the kinds whose events reach the controller
  obj,       \* the MonitoringStack, the ServiceMonitor and the ScrapeConfig
  inv        \* the name of the present inventory, see ScrapeTargets

(***************************************************************************)
(* Data                                                                    *)
(***************************************************************************)
Objects == {"MonitoringStack", "ServiceMonitor", "ScrapeConfig"}

Kinds == Objects \cup {"NodeSet"}

ASSUME BundlesAssumption == Bundles \subseteq SUBSET Kinds /\ UNION Bundles = Kinds

CondTypes == {"Ready"} \cup Kinds

\* A custom stack may be given without content ("empty").
MetricStorageSpec == [custom : Customs \cup {None, "empty"}, options : Options \cup {None}]

ASSUME SpecsAssumption == Specs \subseteq MetricStorageSpec

MetricStorageStatus == [conds : [CondTypes -> Status]]

NoStatus == [conds |-> NilConditions(CondTypes)]

\* The deferred function declares an err of its own: a failed patch is lost.
INSTANCE Reconciler WITH
  EmptyStatus <- NoStatus, InitList <- Kinds, ReturnsPatchError <- FALSE

MetricStorage == InstanceType(MetricStorageSpec, MetricStorageStatus)

\* Neither stack is given.
Unset(spec) == spec.custom = None /\ spec.options = None

\* The MonitoringStack is built from the options, which fails.
Unbuildable(spec) ==
  ~Unset(spec) /\ spec.custom \in {None, "empty"} /\ spec.options \in Malformed \cup {None}

Deployable(spec) == ~Unset(spec) /\ ~Unbuildable(spec)

StackSpec(spec) == IF spec.custom \in {None, "empty"} THEN spec.options ELSE spec.custom

\* The scrape interval is that of the options, even next to a custom stack.
ScrapeInterval(spec) == IF spec.options = None THEN "default" ELSE spec.options

\* The conditions of a stack: none yet, not all of them True, or all of them.
Health == {"none", "False", "True"}

Stack == [spec : Customs \cup Options, health : Health]

\* The targets of a ScrapeConfig were returned for an inventory, if an old one.
Targets == UNION {Results(Inventories[i]) : i \in DOMAIN Inventories}

ScrapeConfig == [interval : Options \cup {"default"}, targets : Targets]

ASSUME ObjectsAssumption == None \notin Stack \cup ScrapeConfig

Steps == {"idle", "delete", "watch MonitoringStack", "MonitoringStack", "watch ServiceMonitor",
          "ServiceMonitor", "watch NodeSet", "watch ScrapeConfig", "ScrapeConfig", "patch"}

ReconcilerType ==
  /\ cr \in MetricStorage /\ cache \in MetricStorage
  /\ before \in MetricStorage /\ inst \in MetricStorage
  /\ event \in BOOLEAN /\ queued \in BOOLEAN /\ requeue \in BOOLEAN
  /\ pc \in Steps
  /\ faults \in 0 .. MaxFaults /\ changes \in 0 .. MaxChanges

ObjectsType ==
  /\ lost \in BOOLEAN
  /\ crds \subseteq Kinds /\ watching \subseteq Kinds /\ watches \subseteq Kinds
  /\ obj \in [MonitoringStack : Stack \cup {None}, ServiceMonitor : Options \cup {"default", None},
              ScrapeConfig : ScrapeConfig \cup {None}]
  /\ inv \in DOMAIN Inventories

TypeOK == ReconcilerType /\ ObjectsType

server == <<cr, cache, event>>
pass == <<pc, before, inst, requeue>>
limits == <<faults, changes>>
cluster == <<crds, inv>>
vars == <<server, queued, pass, limits, lost, cluster, watching, watches, obj>>

Init ==
  /\ ReconcilerInit
  /\ lost = FALSE
  /\ crds = {} /\ watching = {} /\ watches = {}
  /\ obj = [k \in Objects |-> None]
  /\ inv \in DOMAIN Inventories
  /\ faults = MaxFaults /\ changes = MaxChanges

(***************************************************************************)
(* Reconcile                                                               *)
(***************************************************************************)
\* Without either stack the pass ends before it begins.
Misconfigured ==
  /\ Fetch
  /\ Initialized /\ cache.status.conds # NoStatus.conds
  /\ ~cache.deleting /\ Unset(cache.spec)
  /\ Begin("patch", [cache EXCEPT !.status.conds["MonitoringStack"] = "False"])

Reconcile ==
  /\ \/ NotFound \/ AddFinalizer \/ InitStatus \/ Misconfigured
     \/ (cache.exists => cache.deleting \/ ~Unset(cache.spec)) /\ Dispatch("watch MonitoringStack")
  /\ lost' = FALSE
  /\ UNCHANGED <<cluster, watching, watches, obj>>

\* A patch that fails without a requeue leaves the work of the pass undone.
PatchStep ==
  /\ \/ Patch /\ UNCHANGED lost
     \/ PatchFails /\ lost' = ~requeue
  /\ UNCHANGED <<cluster, watching, watches, obj>>

\* The objects are left to the garbage collector.
ReconcileDelete ==
  /\ pc = "delete"
  /\ Return([inst EXCEPT !.finalizer = FALSE], FALSE)
  /\ UNCHANGED <<server, queued, limits, lost, cluster, watching, watches, obj>>

(***************************************************************************)
(* reconcileNormal                                                         *)
(***************************************************************************)
WatchSteps == [MonitoringStack |-> "watch MonitoringStack", ServiceMonitor |-> "watch ServiceMonitor",
               NodeSet |-> "watch NodeSet", ScrapeConfig |-> "watch ScrapeConfig"]

\* The step after ensureWatches for a kind, and the instance it goes on with.
Watched(k) ==
  IF k = "NodeSet" THEN Continue("watch ScrapeConfig", With(k, "True")) ELSE Continue(k, inst)

\* A new informer presents the objects that are there already.
Present(k) == IF k = "NodeSet" THEN cache.exists ELSE obj[k] # None

\* The definition is looked up, and the watch is started only if it is there;
\* if not, the pass is repeated after a pause.
StartWatch(k) ==
  IF k \in crds
  THEN /\ watches' = watches \cup {k}
       /\ queued' = (queued \/ Present(k))
       /\ Watched(k)
  ELSE /\ Return(With(k, "False"), TRUE)
       /\ UNCHANGED <<watches, queued>>

EnsureWatches(k) ==
  /\ pc = WatchSteps[k]
  /\ IF k \in watching
     THEN Watched(k) /\ UNCHANGED <<watching, watches, queued>>
     ELSE /\ StartWatch(k)
          /\ watching' = IF k \in crds THEN watching \cup {k} ELSE watching
  /\ UNCHANGED <<server, limits, lost, cluster, obj>>

\* The lookup of the definition fails.
EnsureWatchesFails(k) ==
  /\ pc = WatchSteps[k] /\ k \notin watching
  /\ Fault
  /\ Return(With(k, "False"), TRUE)
  /\ UNCHANGED <<server, queued, changes, lost, cluster, watching, watches, obj>>

\* Mutant: an object is written even if nothing differs.
WriteObjectAlways(k, content) ==
  /\ obj' = [obj EXCEPT ![k] = content]
  /\ queued' = (queued \/ k \in watches)

\* An object is written if anything differs; then its owner is enqueued,
\* provided that its kind is watched.
WriteObject(k, content) ==
  /\ obj' = [obj EXCEPT ![k] = content]
  /\ queued' = (queued \/ (k \in watches /\ content # obj[k]))

\* CreateOrPatch keeps the status of a stack that is there.
DesiredStack ==
  [spec |-> StackSpec(inst.spec),
   health |-> IF obj["MonitoringStack"] = None THEN "none" ELSE obj["MonitoringStack"].health]

\* Mutant: a stack without conditions counts as ready.
StackConditionEager == IF DesiredStack.health = "none" THEN inst ELSE With("MonitoringStack", "True")

\* Mutant: the condition is copied whether there is one or not.
StackConditionCopied == With("MonitoringStack", DesiredStack.health)

\* The condition follows those of the stack, and stays as it was while the
\* stack has none.
StackCondition ==
  IF DesiredStack.health = "none" THEN inst ELSE With("MonitoringStack", DesiredStack.health)

\* An error while the stack is built is returned, and no condition is set.
CreateOrPatchStack ==
  /\ pc = "MonitoringStack"
  /\ IF Unbuildable(inst.spec)
     THEN Return(inst, TRUE) /\ UNCHANGED <<obj, queued>>
     ELSE /\ WriteObject("MonitoringStack", DesiredStack)
          /\ Continue("watch ServiceMonitor", StackCondition)
  /\ UNCHANGED <<server, limits, lost, cluster, watching, watches>>

CreateOrPatchMonitor ==
  /\ pc = "ServiceMonitor"
  /\ WriteObject("ServiceMonitor", ScrapeInterval(inst.spec))
  /\ Continue("watch NodeSet", With("ServiceMonitor", "True"))
  /\ UNCHANGED <<server, limits, lost, cluster, watching, watches>>

\* What getNodeExporterTargets may return.
GetNodeExporterTargets == [i \in DOMAIN Inventories |-> Results(Inventories[i])]

\* The targets come in an order that differs from pass to pass, and a changed
\* order is a changed object.
WriteScrapeConfig(targets) ==
  WriteObject("ScrapeConfig", [interval |-> ScrapeInterval(inst.spec), targets |-> targets])

CreateOrPatchScrapeConfig ==
  /\ pc = "ScrapeConfig"
  /\ \E targets \in GetNodeExporterTargets[inv] : WriteScrapeConfig(targets)
  /\ Return(With("ScrapeConfig", "True"), FALSE)
  /\ UNCHANGED <<server, limits, lost, cluster, watching, watches>>

\* The call for an object fails, or its answer is lost; no condition is set.
CallFails ==
  /\ Fault
  /\ \/ pc \in Objects /\ UNCHANGED <<obj, queued>>
     \/ pc = "MonitoringStack" /\ ~Unbuildable(inst.spec) /\ WriteObject(pc, DesiredStack)
     \/ pc = "ServiceMonitor" /\ WriteObject(pc, ScrapeInterval(inst.spec))
     \/ pc = "ScrapeConfig" /\ \E targets \in GetNodeExporterTargets[inv] : WriteScrapeConfig(targets)
  /\ Return(inst, TRUE)
  /\ UNCHANGED <<server, changes, lost, cluster, watching, watches>>

\* The watches and the list of them are gone with the process.
Restart ==
  /\ Fault
  /\ Restarted
  /\ lost' = FALSE /\ watching' = {} /\ watches' = {}
  /\ UNCHANGED <<changes, cluster, obj>>

(***************************************************************************)
(* The informers, the user, the other operators and the garbage collector  *)
(***************************************************************************)
SyncMetricStorage == SyncCache /\ UNCHANGED <<lost, cluster, watching, watches, obj>>

ResyncMetricStorage == Resync /\ UNCHANGED <<lost, cluster, watching, watches, obj>>

\* A resource is created again once the objects of the last one are gone.
User ==
  /\ \/ obj = [k \in Objects |-> None] /\ \E spec \in Specs : UserCreates(spec)
     \/ \E spec \in Specs : UserEdits(spec)
     \/ UserDeletes
  /\ UNCHANGED <<lost, cluster, watching, watches, obj>>

Install(bundle) ==
  /\ ~(bundle \subseteq crds)
  /\ crds' = crds \cup bundle
  /\ UNCHANGED <<server, queued, pass, limits, lost, watching, watches, obj, inv>>

\* The observability operator reports on the stack.
StackReports(health) ==
  /\ obj["MonitoringStack"] # None
  /\ obj["MonitoringStack"].health # health
  /\ WriteObject("MonitoringStack", [obj["MonitoringStack"] EXCEPT !.health = health])
  /\ UNCHANGED <<server, pass, lost, cluster, watching, watches>>

StackReady == StackReports("True") /\ UNCHANGED limits

StackDegraded == Disturb /\ StackReports("False") /\ UNCHANGED faults

\* Somebody else deletes one of the objects.
ObjectDeleted(k) ==
  /\ Disturb
  /\ obj[k] # None
  /\ WriteObject(k, None)
  /\ UNCHANGED <<server, pass, faults, lost, cluster, watching, watches>>

GarbageCollect(k) ==
  /\ ~cr.exists /\ obj[k] # None
  /\ WriteObject(k, None)
  /\ UNCHANGED <<server, pass, limits, lost, cluster, watching, watches>>

\* Two inventories with the same node sets.
SameNodeSets(i, j) ==
  /\ Inventories[i].home = Inventories[j].home
  /\ Inventories[i].telemetry = Inventories[j].telemetry
  /\ Inventories[i].items = Inventories[j].items

\* Mutant: a change of a node set enqueues nothing.
NodeSetWatchFnNone == FALSE

\* nodeSetWatchFn enqueues every MetricStorage in the cache.
NodeSetWatchFn == "NodeSet" \in watches /\ cache.exists

\* The node sets change, or only the IPSets and the telemetry service, which
\* are not watched.
InventoryChanges ==
  /\ Disturb
  /\ \E i \in DOMAIN Inventories \ {inv} :
       /\ inv' = i
       /\ queued' = (queued \/ (~SameNodeSets(i, inv) /\ NodeSetWatchFn))
  /\ UNCHANGED <<server, pass, faults, lost, crds, watching, watches, obj>>

Work ==
  \/ Reconcile \/ PatchStep \/ ReconcileDelete
  \/ \E k \in Kinds : EnsureWatches(k)
  \/ CreateOrPatchStack \/ CreateOrPatchMonitor \/ CreateOrPatchScrapeConfig

Provide ==
  \/ \E bundle \in Bundles : Install(bundle)
  \/ StackReady
  \/ \E k \in Objects : GarbageCollect(k)

Next ==
  \/ Work \/ CallFails \/ Restart
  \/ \E k \in Kinds : EnsureWatchesFails(k)
  \/ SyncMetricStorage \/ ResyncMetricStorage \/ User \/ Provide
  \/ StackDegraded \/ InventoryChanges
  \/ \E k \in Objects : ObjectDeleted(k)

Spec == Init /\ [][Next]_vars

\* The targets come out in the order of the last time.
SameOrder == CreateOrPatchScrapeConfig /\ UNCHANGED obj

\* The worker runs as long as it has a key, events are delivered, the other
\* operators do their work, and the sync period ends again and again.  Go
\* varies the order of a map at random, so that it is the same twice in a row
\* sooner or later.
Fairness ==
  /\ WF_vars(Work) /\ SF_vars(SyncMetricStorage \/ Provide)
  /\ WF_vars(ResyncMetricStorage) /\ SF_vars(SameOrder)

FairSpec == Spec /\ Fairness

(***************************************************************************)
(* Properties                                                              *)
(***************************************************************************)
\* Nothing is pending, and the last patch was not lost.
Settled == Quiescent /\ ~lost

\* The ScrapeConfig is that of the spec and of these targets' inventory.
Scrapes(i) ==
  /\ obj["ScrapeConfig"] # None
  /\ obj["ScrapeConfig"].interval = ScrapeInterval(cr.spec)
  /\ obj["ScrapeConfig"].targets \in GetNodeExporterTargets[i]

\* No wake-up is lost, although the watches start one by one during a pass,
\* only once the definitions are there, and again after a restart.  When
\* nothing is pending, a resource is not waiting to be deleted, and its objects
\* are there as its spec and the node sets have them; only IPSets and service,
\* which are not watched, may have changed meanwhile.
NoLostWakeup ==
  Settled /\ cr.exists =>
    /\ ~cr.deleting /\ cr.finalizer /\ ~Unbuildable(cr.spec)
    /\ Deployable(cr.spec) =>
         /\ obj["MonitoringStack"] # None /\ obj["MonitoringStack"].spec = StackSpec(cr.spec)
         /\ obj["ServiceMonitor"] = ScrapeInterval(cr.spec)
         /\ \E i \in DOMAIN Inventories : SameNodeSets(i, inv) /\ Scrapes(i)

\* When nothing is pending, the status tells what the stack has reported last,
\* and Ready follows it.  A stack that has reported nothing yet, since somebody
\* deleted its predecessor, is the exception: the old condition stays.
StatusMirrorsStack ==
  Settled /\ cr.exists =>
    /\ Unset(cr.spec) => cr.status.conds["MonitoringStack"] = "False"
    /\ Deployable(cr.spec) /\ obj["MonitoringStack"].health # "none" =>
         /\ cr.status.conds["MonitoringStack"] = obj["MonitoringStack"].health
         /\ Ready(cr) <=> obj["MonitoringStack"].health = "True"

Lifecycle == INSTANCE ServiceLifecycle WITH
  state <- IF ~cr.exists THEN "absent" ELSE IF cr.deleting THEN "terminating" ELSE "live",
  ready <- Ready(cr)

\* The resource goes through the life of a service as its Telemetry expects it.
ImplementsLifecycle == Lifecycle!Spec

\* The controller settles.  Once the environment leaves it alone, a resource
\* that can be deployed ends up Ready, its targets those of the current node
\* sets, IPSets and service, and one that is deleted goes away with its objects.
\* It comes to rest again and again, although each pass may write the targets
\* in another order and so cause the next one; only the error of a stack that
\* cannot be built repeats for ever.
Settles ==
  /\ <>[](IF cr.exists
          THEN ~cr.deleting /\ (Deployable(cr.spec) => Ready(cr) /\ Scrapes(inv))
          ELSE obj = [k \in Objects |-> None])
  /\ []<>(Settled \/ (cr.exists /\ Unbuildable(cr.spec)))
===============================================================================
