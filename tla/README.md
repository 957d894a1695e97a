# A TLA+ model of the telemetry operator

The operator reconciles five custom resources: a `Telemetry` creates an
`Autoscaling`, a `Ceilometer` and a `MetricStorage`; `Logging` stands alone.
This directory models its five controllers at the level of one action per call to the
API server, with the failures, lagging caches and concurrent changes that such a
controller meets, checks the models with TLC, shows that the controllers of the
services implement what the Telemetry controller expects of them, and proves every
safety property that the runs check with TLAPS, for all values of the constants.

## Inventory

| Part | Source | State | Operations | Other actors | Module |
|---|---|---|---|---|---|
| Conditions | `api/v1beta1/conditions.go`, lib-common | condition list of a status | Init, Set, Mirror, Ready | | `Conditions` |
| Reconcile loop (common to all controllers) | `controllers/*_controller.go`, `Reconcile` | resource, informer cache, work queue, the pass | fetch, finalizer, status initialisation, dispatch, deferred patch | user, informer, resync of the manager | `Reconciler` |
| Ceilometer controller | `ceilometer_controller.go` | KeystoneService, TransportURL, secrets, configurations, StatefulSet | reconcileNormal, reconcileInit, reconcileDelete | keystone-operator, infra-operator, StatefulSet controller | `CeilometerController` |
| Telemetry controller | `telemetry_controller.go` | three child resources and the cache of them | reconcileX for each service, ensureDeleted | the children's controllers, other clients | `TelemetryController` |
| Autoscaling controller | `autoscaling_controller.go`, `aodh_controller.go` | the above, and MariaDBDatabase, KeystoneEndpoint, Memcached, Heat, db sync job | reconcileNormal, reconcileInitAodh, reconcileNormalAodh, reconcileDeleteAodh | mariadb-, keystone-, infra-, heat-operator, Job controller | `AutoscalingController` |
| MetricStorage controller | `metricstorage_controller.go` | MonitoringStack, ServiceMonitor, ScrapeConfig, installed definitions, started watches | reconcileNormal, ensureWatches, reconcileDelete | observability operator, data plane operator | `MetricStorageController` |
| Node exporter targets | `getNodeExporterTargets`, same file | the lists read, the loops | one iteration | data plane and infra operators | `ScrapeTargets`, `NodeExporterTargets` |
| Logging controller | `logging_controller.go` | Secret, Service, CA | reconcileNormal, reconcileDelete | other clients | `LoggingController` |
| Telemetry and its services together | the four controllers | life of a service's resource | create, delete, report, release | | `ServiceLifecycle` |
| Webhooks | `api/v1beta1/*_webhook.go` | none (pure) | defaults; the validations accept everything | | MetricStorage's defaults only |
| Object builders | `pkg/*` | none | fill in fields | | only the fields that a property is about |
| Manager | `main.go` | none | start-up | | the restart and the resync |

`PROJECT.json` lists the hazards of each part with the line where it bites, and the
definitions with the lines that they translate.

## Modules

`Conditions` is a condition list as a function from condition types to a status.
`Reconciler` is the skeleton that every `Reconcile` has. Each controller
instantiates it with the status of its resource, with the conditions that it
initialises, and with whether the deferred function returns the error of its patch
(Ceilometer, Telemetry, Logging) or drops it (Autoscaling, MetricStorage).

* `cr` is the resource on the API server and `cache` the informer's copy, which a
  pass reads; `event` says that a change is still under way to the cache and
  `queued` that the key is in the work queue. A key is in the queue once, however
  many events there were, and a pass runs alone: that is what the work queue of
  controller-runtime guarantees.
* `pc` is the call that the pass makes next, `before` the instance as it was read,
  `inst` the instance as changed so far, `requeue` whether the pass ends with an
  error or a `RequeueAfter`.
* The deferred patch (`Patch`, `PatchFails`) recomputes Ready, sends the fields that
  differ from `before`, metadata first, then status, and then the key is put back
  if `requeue` holds. `PatchFails` has a failure before the metadata, between the
  two, and after the status (the answer is lost).
* `Resync` puts the key of a resource that is at rest into the queue. The manager is
  created without a `SyncPeriod` (`main.go:102`), so that its default of about ten
  hours applies.

`CeilometerController` has one action for each call of `reconcileNormal`,
`reconcileInit` and `reconcileDelete`: `ReconcileRbac`, `TransportURLCreateOrUpdate`,
`GetOspSecret`, `GetTransportSecret`, `GenerateServiceConfig`,
`GenerateComputeServiceConfig` (with the hash), `CreateOrPatchKs`/`ObserveKs`,
`ReconcileStatefulSet` (with the Service, whose creation nothing reads), and
`ReconcileDelete`/`UpdateKs`, where the Get and the Update are two steps. `CallFails`
is the error path of each of them, with the condition that it sets. `Panic` is the
nil dereference in `generateServiceConfig` when a secret is gone by the time of the
second read; the process restarts.

`TelemetryController` has the three services in the order of `reconcileNormal`.
`view` and `news` are the lagging cache of the children. A child is patched with
what differs from the cached copy, created when the cache has none
(`Conflict` when the server has one after all), and deleted by `EnsureDeleted`. The
children's controllers are their effect: they make the child Ready, degrade it, and
release it when it is deleted. `Admitted` is the defaulting webhook of MetricStorage.

`AutoscalingController` adds to the calls of Ceilometer the three objects that carry
the Autoscaling's finalizer (`owned`), the db sync job, whose hash is that of the
image, and the host of the database, which becomes known after the configuration has
been rendered once. `schema` is a history variable: the images whose job has completed
since the database was last created.

`MetricStorageController` works with kinds whose definitions may not be installed
(`crds`). `EnsureWatches` looks a definition up and starts the watch; `watches` are the
kinds whose events arrive, `watching` is the reconciler's own list of them, and both
are gone after a `Restart`. A spec has a custom stack, options, both or neither;
`Unbuildable` are those for which `MonitoringStack` or `getPVCSpec` returns an error.
The objects are written by `CreateOrPatchStack`, `CreateOrPatchMonitor` and
`CreateOrPatchScrapeConfig`, the last with any sequence of targets that
`getNodeExporterTargets` may return for the present inventory. `lost` is a history
variable: the last patch has failed and nobody was told.

`ScrapeTargets` defines what `getNodeExporterTargets` returns: `Results` is the set
of sequences that the orders of node sets and nodes allow, up to the first node
without an address. `NodeExporterTargets` has the loops themselves, one step for each
iteration, with IPSets and service that change while they run.

`LoggingController` writes the Secret for the compute nodes
(`GenerateComputeServiceConfig`, with the hash that ends the pass when it has changed)
and then the Service in the namespace of the cluster logging operator (`ServiceStep`).
`CAUnreadable` is the read of the CA that fails and is taken for its absence.

`MC*.tla` give the constants of the runs. A definition whose comment begins with
"Mutant" is a faulty form of the definition after it; it shows that the property
it is meant for can fail.

### How Telemetry and the services fit together

A product of the four controllers is out of TLC's reach. They meet only in the custom
resource of a service, so `ServiceLifecycle` specifies the life of one: absent, live,
terminating, and ready or not. It is created not ready; once it is ready it
holds a finalizer and goes only through termination; only its controller releases it.

* Each service's controller implements it with its own resource
  (`ImplementsLifecycle` in the runs Ceilometer, Autoscaling and MetricStorage: the state
  is mapped from `cr.exists`, `cr.deleting` and the Ready condition), whatever fails and
  whatever the owner does.
* `TelemetryController` implements it with each of its children
  (`ChildrenFollowLifecycle`): what it and its environment do to a child are steps that
  the service's controller is prepared for, and it relies on no others.

### Data

Names and payloads are model values: a spec is a configuration and an image; the
content of a secret is one value; a rendered configuration is the record of what it
was rendered from; a hash is the record of what was hashed (hashing is taken to be
injective). Conditions have a status and nothing else. The address of a target is the
field or network that it comes from, so that a wrong choice shows. In
`LoggingController` an address stands for all that the Secret takes from the spec.

### What is assumed about code outside the repository

* API server, controller-runtime and lib-common behave as the controllers use
  them: merge patches carry no resource version; a `Get` from a running cache
  fails only with NotFound; `CreateOrPatch` patches what differs from the cached
  object and does nothing when nothing differs.
* Whether the metadata patch of `PatchInstance` also carries the status cannot be
  told from this repository. `StatusWithMetadata` leaves it open; the runs have it FALSE,
  which is the case with more intermediate states, and the proofs hold for both values,
  `ReadyAfterRollout` excepted (see Proofs).
* A user creates a resource again only after the objects of the former one have been
  collected.
* In the Ceilometer model `KsLag` says whether the cache of KeystoneServices lags;
  the other objects that it owns, and all that the Autoscaling, the MetricStorage and
  the Logging own, are read from a current cache.
* `SyncDuringPass = FALSE` delivers events of the resource between passes only. A
  pass reads the cache once, at its beginning, but an event that is delivered during a
  pass leaves a copy there that the patch at its end makes stale, and the next pass may
  begin with it. `CeilometerLag` has it TRUE, and the proofs hold for both values.

## Runs

| Run | Bounds | Properties | Shows |
|---|---|---|---|
| Ceilometer | 2 configurations, 2 transport URLs; 1 fault, 2 changes | TypeOK, KeystoneFinalizerReleased, ReadyAfterRollout, NoLostWakeup, TransportURLRolledOut, ImplementsLifecycle | no leak of the finalizer, no Ready before the roll-out, no lost wake-up, with a failure or restart at any call |
| CeilometerLag | 2 configurations, images and transport URLs; lagging KeystoneService cache, 2 changes | StatusIsCurrent | the status is right once nothing is pending |
| CeilometerLive | 2 passwords; 2 changes, fair | Settles | convergence, also to a password that is not watched; end of deletion |
| Telemetry | an edit disables one service and enables another; 1 fault, 3 changes | TypeOK, ChildrenAsDesired, ReadyMirrorsChildren, ChildrenFollowLifecycle | the right children and an exact Ready, with lagging caches |
| TelemetryLive | a service that comes and goes beside a constant one; 1 fault, 2 changes, fair | Settles | convergence, end of deletion |
| Autoscaling | 1 fault, 1 change | TypeOK, FinalizersReleased, ReadyAfterRollout, ImplementsLifecycle | none of the three finalizers is leaked |
| AutoscalingChanges | 2 configurations, images and Memcached lists; 2 changes | NoLostWakeup, MigratedBeforeRollout | every change that is watched reaches the pods, the migration before the image |
| AutoscalingLive | 2 transport URLs; a failed patch, or a change that no event announces, after the creation; fair | Settles | the bootstrap converges, the next sync period makes up for what was missed; end of deletion |
| MetricStorage | 4 specs, 3 inventories of 2 nodes, definitions installed in 2 steps; 1 fault or change after the creation, fair | TypeOK, NoLostWakeup, StatusMirrorsStack, ImplementsLifecycle, Settles | watches started on the way miss nothing, also after a restart; it comes to rest despite the changing order of targets |
| Targets | 3 nodes, 2 node sets, 4 kinds of node, 3 of IPSet, 3 of service; 1 change during the loops | ReturnsResult, AllScraped | the loops compute `Results`; a change during them loses no node that has usable names |
| Logging | 2 addresses, 2 namespaces; 1 fault, 3 changes, fair | TypeOK, NoLostWakeup, ServiceAfterSecret, Settles | Secret first, then Service; both follow the spec in the end |
| AutoscalingInput | 2 changes | ReadyWhenReconciled | **violated**: see below |

A *fault* (`MaxFaults`) is a failed call, a failed patch or a restart. A *change*
(`MaxChanges`) is the creation or an edit of the resource by the user, the rotation or
loss of an input, the loss of pods, or an interference with an owned object. A run
with 2 changes thus has the creation and one more, or two creations. Deletions
by the user, and whatever the other operators do to bring things up, are not bounded.

One fault at any of the calls, with a deletion, an edit or a loss before, during or after
the pass, covers the retry of each partial effect: the passes after it start from the API
server's state alone, and a second fault repeats such a retry. Telemetry has
a third change so that a child can be deleted, wanted again, and disturbed meanwhile;
Logging, so that an edit, a change of the CA and a deletion of the Service can meet.
Two values per set suffice to tell the current value from a former one. Faults
and changes other than creation and deletion are not combined for Autoscaling, whose
state space allows no more: `Autoscaling` has the faults, `AutoscalingChanges` the
changes, and `AutoscalingLive` one of those that no event answers (`Unnoticed`).
`MetricStorage` has one disturbance of any kind besides the creation, for the same
reason (`LiveSpec`). Three nodes in two node sets are the fewest with a node set of
more than one node beside another, and with a node before and one after the one without
an address. Configurations, images, transport URLs, server lists, nodes and node sets
are symmetric, except in the liveness runs. `CHECK_DEADLOCK FALSE` stands in every
configuration, because a controller with nothing to do is the normal end.

### Fairness

* `WF(Work)`: a worker goroutine goes on as long as it has a key.
* `SF(Sync...)`, in some modules together with the garbage collector or with
  `Provide`: informers deliver. The model may deliver between two passes only
  (`SyncDuringPass`), so that each pass disables the delivery; weak fairness would not
  be enough, although the real informer is never held up by a pass.
* `WF(Provide)`: the other operators provide in the end what the resource waits for.
  Without this no resource need ever become Ready.
* `WF(Resync...)`: a sync period ends while the controller is at rest, again and again.
* `SF(SameOrder)`, MetricStorage only: Go starts each iteration over a map at a random
  place, so that sooner or later the targets come out as the last time. Without it the
  ScrapeConfig may be rewritten for ever, each write causing the next pass.

No fairness is assumed of users, failures, restarts and disturbances.
`Settles` excepts an object that somebody else has deleted: our finalizer holds it,
the controller neither releases nor recreates it, and this never changes. For
MetricStorage it excepts a stack that cannot be built, whose error repeats for ever.

### Where the code and its comments disagree

**AutoscalingInput.** `InputReady` becomes False when a secret is missing and is never
set to True, so that Ready is out of reach afterwards, although "IsReady - returns true if
Autescaling is reconciled successfully" (`autoscaling_types.go:191`,
`autoscaling_controller.go:606-631`).

The models contain more of what the code does that a reader may not expect; no run
claims otherwise:

* `reconcileDelete` finds the KeystoneService in a cache. If it does not show the object
  that the pass before has created, its finalizer stays on it, the Ceilometer goes, and
  nobody is left to remove it (`ceilometer_controller.go:183`). `Ceilometer.cfg` with
  `KsLag = TRUE` shows it: `KeystoneFinalizerReleased` is violated.
* A part of the MetricStorage section that is removed is not removed from the
  MetricStorage (`telemetry_controller.go:381-388`), and a custom stack keeps overriding
  the options. `ChildrenAsDesired` claims only the parts that are given.
* The watch of the Autoscaling's transport URL secret compares with
  `<name of the resource>-transport`, the TransportURL is `aodh-transport`, and the
  Telemetry controller calls the resource `autoscaling`: the watch never matches
  (`autoscaling_controller.go:636,678`), and a rotation reaches the pods only after the
  sync period. A Ceilometer that is not called `ceilometer` shares this (`CrName`).
* Autoscaling and MetricStorage drop the error of their deferred patch
  (`autoscaling_controller.go:141-144`, `metricstorage_controller.go:124-127`): with
  `MaxFaults = 1`, `AutoscalingChanges` loses a wake-up until the sync period ends. It is
  checked without faults for this reason, and the `NoLostWakeup` of MetricStorage has
  the condition `~lost`.
* The hash by which `DoJob` skips the db sync job may be older than the last job, after a
  lost patch or in a stale copy of the resource (`aodh_controller.go:212`). An image that
  is edited back is then rolled out without a job of its own, on a database that a newer
  one has migrated. `MigratedBeforeRollout` claims that its job has completed once, not
  that it was the last.
* DeploymentReady is never set back when the pods are gone
  (`ceilometer_controller.go:446-449`, `aodh_controller.go:299-302`), so Ready does not
  mean that pods are running now. `ReadyAfterRollout` claims what it does mean.
* The password secret and the Heat (`ceilometer_controller.go:656`,
  `autoscaling_controller.go:723-741`), IPSets and the telemetry service
  (`metricstorage_controller.go:322`), the CA and the Service of Logging are not watched.
  `Settles` relies on the resync for them.
* A secret deleted between the check and the rendering gives a configuration without its
  value, or a panic (`ceilometer_controller.go:512-518`).
* MonitoringStackReady stays True after the stack has been deleted and created again,
  until the new one reports (`metricstorage_controller.go:252`), and an error of
  CreateOrPatch sets no condition (`:235`).
* "unable to find an IP or HostName for a node" (`metricstorage_controller.go:457,461`)
  is also the verdict for a node without an AnsibleHost that has a HostName, when there
  are no IPSets, and for one with an AnsibleHost and no valid HostName, when there are
  IPSets but none for it. The nodes after it, in an order that varies, are not scraped.
* A Logging is Ready although the call for its Service has failed
  (`logging_controller.go:247-250`); the Service stays in the old namespace after an
  edit of `cloNamespace`, and after the Logging is deleted.
* `SetupDefaultsCeilometer` (`ceilometer_types.go:158-170`) does not set the default
  of the node exporter image, so that a Ceilometer created directly gets none.

## Proofs

The theorems hold for all sets of configurations, images, secrets, definitions, nodes
and inventories, all bounds on faults and changes, and, unless the table says otherwise,
both values of `KsLag`, `StatusWithMetadata` and `SyncDuringPass`. They state every
invariant, action property and refinement that a passing run checks.

| Module | Theorem | Property | Assuming |
|---|---|---|---|
| `CeilometerProofs` | `TypeCorrect`, `LifecycleImplemented` | TypeOK, ImplementsLifecycle | |
| | `FinalizerReleased` | KeystoneFinalizerReleased | `KsLag = FALSE` |
| | `CeilometerWakeups`, `StatusWakeups` | NoLostWakeup, StatusIsCurrent | |
| | `TransportURLWakeups` | TransportURLRolledOut | `CrName = ServiceName` |
| | `ReadyMeansRolledOut` | ReadyAfterRollout | `KsLag = FALSE`, `StatusWithMetadata = FALSE` |
| `TelemetryProofs` | `TypeCorrect`, `ChildrenLifecycle` | TypeOK, ChildrenFollowLifecycle | |
| | `ChildrenWakeups`, `ReadyWakeups` | ChildrenAsDesired, ReadyMirrorsChildren | |
| `AutoscalingProofs` | `TypeCorrect`, `LifecycleImplemented` | TypeOK, ImplementsLifecycle | |
| | `OwnedReleased`, `MigratedFirst` | FinalizersReleased, MigratedBeforeRollout | |
| `AutoscalingWakeupProofs` | `AutoscalingWakeups` | NoLostWakeup | no `PatchFails` step |
| | `ReadyMeansRolledOut` | ReadyAfterRollout | `StatusWithMetadata = FALSE` |
| `MetricStorageProofs` | `TypeCorrect`, `LifecycleImplemented` | TypeOK, ImplementsLifecycle | |
| | `MetricStorageWakeups`, `StatusWakeups` | NoLostWakeup, StatusMirrorsStack | |
| `TargetsProofs` | `LoopsReturnResult`, `NoneHidden` | ReturnsResult, AllScraped | |
| | `SomeResult` | `Results(v) # {}` | finitely many nodes |
| `LoggingProofs` | `TypeCorrect`, `LoggingWakeups` | TypeOK, NoLostWakeup | |
| | `SecretFirst` | ServiceAfterSecret | |

The assumptions are needed, as TLC shows with the opposite values: a lagging cache leaks
the finalizer, and lets a Ceilometer become Ready whose KeystoneService is gone; a status
that travels with the patch of `AddFinalizer` makes a resource with an empty condition
list Ready; the secret of another name is not watched; and the error of a failed patch
of an Autoscaling is dropped. The named `ASSUME`s of the modules say that `None` is none
of the other values, that the bounds are numbers, and that Nodes is finite.

### What holds for every controller

`ReconcilerProofs` is about `Reconciler` alone. It sorts the steps of a controller into
the beginning of a pass, a call of it, its release of the finalizer, the patch at its end,
a restart, a delivery, a step of the user, and anything that concerns other objects
(`ControllerStep`), and proves that each keeps three invariants. A controller module
instantiates it with its types and steps, shows that each of its actions is such a step
(`Step`), and has the three for nothing:

* `HeldInv`, why a release is safe: a resource that is being deleted exists and still has
  its finalizer; what the cache shows as held is held on the server; what it shows as being
  deleted is being deleted, gone, or a new resource that has no finalizer yet; and the same
  for the copy that a pass works on.
* `LifeInv`: a resource that is Ready has the finalizer, because a list of conditions, as
  `Patch` leaves it, recomputes to itself (`Stable`), and a pass that read a resource being
  deleted changes no condition.
* `FreshInv`: the cache is current unless an event is on its way, and a pass during which
  the key has not been put back has read what the cache holds.

### The inductive invariants

None of the properties is inductive by itself.

* *Types.* What a call renders depends on what earlier calls of the pass have read
  (`GotInv` in Autoscaling, `SetInv` in MetricStorage), and what a patch merges depends on
  the pass's stale copy, so that types are proved together with `HeldInv`.
* *Life of a service.* From `HeldInv` and `LifeInv`: each step of the resource maps to a
  step of `ServiceLifecycle` or leaves its state unchanged. For Telemetry, `ViewInv`
  relates each child to the cached copy that the calls go by.
* *Finalizers* (`KsInv`, `OwnedInv`): an object carries the finalizer only while the
  resource is held; a pass that deletes has released the objects before its next call;
  and one that is about to release the resource has released all.
* *Wake-ups* (`WakeInv` of each controller): if the key is not in the queue, then
  `Progress` says what the pass has found or made right so far and that it still is,
  `PassEnds` says why it may end without a requeue (because its patch will change
  the resource, which is an event, or because everything is as it should be), and
  `AtRest` says that everything is as it should be when nothing is pending. The step that
  matters is the patch: if nothing is pending after it, it has changed nothing, so that
  the pass has seen the resource as it is (`QuietPatch`). For MetricStorage the watches
  are part of what a pass has made right: an object counts only if its kind is watched.
* *Ready* (`EvidenceInv`, `EvidencePass`): each of the conditions that stand for a
  milestone of the handler is True only with what it stands for, in the resource, in the
  cache and in the instance of the pass, for which `Listed` keeps the list complete.
* *Migration* (`MigratedInv`): the job on record in a copy that is in use has completed;
  a pass on any other copy leaves the record alone.
* *Secret and Service* (`SecretInv`): once the Secret is written, the pass goes on only
  with the hash of it on record.
* *Targets* (`LoopInv`): each node with the service has been visited, is to come in this
  node set, or in one of those left; the node sets come one after the other; the loops
  end at the end, or at a node without an address. That a list that ends early is
  the beginning of an order of all nodes is proved without induction: of the visits that
  extend it there is a longest, by the well-foundedness of the natural numbers, and one
  that leaves a node out is not the longest (`VisitLonger`, `VisitCompleted`).

TLC checked the less obvious of these first, on instances of the runs' size, for
Ceilometer, Telemetry and Autoscaling also with `SyncDuringPass = TRUE`: `WakeInv` of
each controller, `ViewInv`, `MigratedInv`, `SecretInv`, `LoopInv` and the Autoscaling's
`ReadyInv`. The others (`HeldInv`, `LifeInv`, `FreshInv`, `KsInv`, `OwnedInv` and the
Ceilometer's `ReadyInv`) rest on their proofs. One attempt was a finding about the model:
with `schema` as the image of the last job only, `MigratedBeforeRollout` holds with
`SyncDuringPass = FALSE`, as in its run, and fails with TRUE. This is the image edited back
of the list above, and `schema` is now the set of the images that have been migrated for.

### Only model-checked

* `Settles` of each controller: liveness under fairness is out of the prover's reach.
* `ReadyWhenReconciled`, which is violated.

## Not modelled

* The image defaults of the webhooks: each fills one empty field with a constant, and
  the models do not tell images of the same spec apart. The validations accept
  everything.
* The contents of StatefulSets, Services, ServiceMonitors and templates beyond the
  fields that a property is about, and the wording of conditions.
* Two Telemetry resources in one namespace: their children have fixed names, and
  `SetControllerReference` refuses the second.
* A lagging cache of the objects that Autoscaling, MetricStorage and Logging own. For
  Ceilometer `KsLag` shows what it does; for the others it is out of TLC's reach in
  combination with the rest.
* Flags, scheme registration and leader election (`main.go`), and generated code.

## Running

    tlc -workers 2 -config Ceilometer.cfg MCCeilometer
    tlc -workers 2 -config Logging.cfg LoggingController
    tlapm CeilometerProofs.tla

`tlapm` takes from a minute (`TargetsProofs`) to about a quarter of an hour
(`CeilometerProofs`) for a module that it has not proved before.
