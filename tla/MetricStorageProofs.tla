-------------------------- MODULE MetricStorageProofs --------------------------
(***************************************************************************)
(* Proofs about MetricStorageController, for every value of its constants. *)
(***************************************************************************)
EXTENDS MetricStorageController, TLAPS

R == INSTANCE ReconcilerProofs WITH
  EmptyStatus <- NoStatus, InitList <- Kinds, ReturnsPatchError <- FALSE,
  Specs <- MetricStorageSpec, Statuses <- MetricStorageStatus, DeleteSteps <- {"delete"}

(***************************************************************************)
(* What the general facts about reconcilers require                        *)
(***************************************************************************)
LEMMA StatusOK == R!StatusesOK
  <1>1. "Ready" \in CondTypes /\ Kinds \subseteq CondTypes
        /\ \E t \in Kinds : t # "Ready"
    BY DEF CondTypes, Kinds, Objects
  <1>2. NoStatus \in MetricStorageStatus /\ NoStatus.conds = R!NilConditions(CondTypes)
    BY DEF NoStatus, MetricStorageStatus, NilConditions, R!NilConditions, Status
  <1>3. /\ \A s \in MetricStorageStatus : s.conds \in R!Conds
        /\ \A s \in MetricStorageStatus, c \in R!Conds :
             [s EXCEPT !.conds = c] \in MetricStorageStatus /\ [s EXCEPT !.conds = c].conds = c
    BY DEF MetricStorageStatus, Status, R!Conds, R!Status
  <1>4. R!MergeOK
    <2> SUFFICES ASSUME NEW a \in MetricStorageStatus, NEW b \in MetricStorageStatus,
                        NEW c \in MetricStorageStatus
                 PROVE  /\ R!Merged(a, b, c) \in MetricStorageStatus
                        /\ R!Merged(a, b, c).conds = IF c.conds # b.conds THEN c.conds ELSE a.conds
                        /\ R!Merged(b, b, c) = c
      BY DEF R!MergeOK
    <2>1. ASSUME NEW d \in MetricStorageStatus
          PROVE  R!Merged(d, b, c) = [conds |-> IF c.conds # b.conds THEN c.conds ELSE d.conds]
      BY DEF R!Merged, MetricStorageStatus
    <2> QED BY <2>1 DEF MetricStorageStatus
  <1> QED BY <1>1, <1>2, <1>3, <1>4 DEF R!StatusesOK

LEMMA Parameters == R!ParametersOK
  <1>1. R!StepsOK
    BY DEF R!StepsOK, Steps
  <1> QED BY <1>1, StatusOK, BoundAssumption DEF R!ParametersOK

LEMMA Types == MetricStorage = R!Instances /\ (ReconcilerType <=> R!ReconcilerType)
  <1>1. MetricStorage = R!Instances
    BY DEF MetricStorage, InstanceType, R!Instances, R!InstanceType
  <1> QED BY <1>1, Zenon DEF ReconcilerType, R!ReconcilerType

\* The operators of Reconciler are those that the general facts are about.
LEMMA Operators ==
  /\ NoInstance = R!NoInstance
  /\ \A c : UpdateReady(c) = R!UpdateReady(c)
  /\ \A c, l : InitConditions(c, l) = R!InitConditions(c, l)
  /\ Ended = R!Ended
  /\ \A t, s : With(t, s) = R!With(t, s)
  <1>1. \A c, t, s : Mark(c, t, s) = R!Mark(c, t, s)
    BY DEF Mark, R!Mark
  <1>2. \A c : AllSubConditionIsTrue(c) <=> R!AllSubConditionIsTrue(c)
    BY DEF AllSubConditionIsTrue, R!AllSubConditionIsTrue
  <1>3. \A c : Mirror(c) = R!Mirror(c)
    BY Zenon DEF Mirror, R!Mirror
  <1>4. \A c : UpdateReady(c) = R!UpdateReady(c)
    BY <1>1, <1>2, <1>3, Zenon DEF UpdateReady, R!UpdateReady
  <1> QED BY <1>1, <1>4, Zenon
    DEF NoInstance, R!NoInstance, InitConditions, R!InitConditions, Ended, R!Ended, With, R!With

LEMMA Actions ==
  /\ R!ReconcilerType /\ Reconcile => R!BeginStep
  /\ (PatchStep => R!EndStep) /\ (Patch => R!Patch)
  /\ Restarted => R!Restarted
  /\ SyncMetricStorage => R!SyncCache
  /\ User => R!UserStep
  <1> USE Operators, Zenon
  <1>1. R!ReconcilerType /\ Reconcile => R!BeginStep
    <2>1. NotFound => R!NotFound
      BY DEF NotFound, Fetch, worker, resource, bounds,
             R!NotFound, R!Fetch, R!worker, R!resource, R!bounds
    <2>2. AddFinalizer => R!AddFinalizer
      BY DEF AddFinalizer, Fetch, Begin, resource, bounds,
             R!AddFinalizer, R!Fetch, R!Begin, R!resource, R!bounds
    <2>3. InitStatus => R!InitStatus
      BY DEF InitStatus, Initialized, Fetch, Begin, resource, bounds,
             R!InitStatus, R!Initialized, R!Fetch, R!Begin, R!resource, R!bounds
    <2>4. Dispatch("watch MonitoringStack") => R!Dispatch("watch MonitoringStack")
      BY DEF Dispatch, Initialized, Fetch, Begin, resource, bounds,
             R!Dispatch, R!Initialized, R!Fetch, R!Begin, R!resource, R!bounds
    <2>5. "watch MonitoringStack" \in R!NormalSteps
      BY SMT DEF R!NormalSteps, Steps
    <2>6. ASSUME R!ReconcilerType, Misconfigured PROVE \E i \in R!Instances : R!Refuse(i)
      <3> DEFINE i == [cache EXCEPT !.status.conds["MonitoringStack"] = "False"]
      <3>1. cache \in MetricStorage /\ "MonitoringStack" \in CondTypes /\ "False" \in Status
        BY <2>6, Types, SMT DEF R!ReconcilerType, CondTypes, Kinds, Objects, Status
      <3>2. i \in MetricStorage /\ R!SameObject(i, cache) /\ i.finalizer = cache.finalizer
        BY <3>1, SMT DEF MetricStorage, InstanceType, MetricStorageStatus, R!SameObject
      <3>3. R!Refuse(i)
        BY <2>6, <3>2, Types DEF Misconfigured, Initialized, Fetch, Begin, resource, bounds,
             R!Refuse, R!Initialized, R!Fetch, R!Begin, R!resource, R!bounds
      <3> QED BY <3>2, <3>3, Types
    <2> QED BY <2>1, <2>2, <2>3, <2>4, <2>5, <2>6 DEF Reconcile, R!BeginStep
  <1>2. (PatchStep => R!EndStep) /\ (Patch => R!Patch)
    <2>1. \A a, b, c : PatchMetadata(a, b, c) = R!PatchMetadata(a, b, c)
      BY DEF PatchMetadata, R!PatchMetadata
    <2>2. \A a, b, c : PatchStatus(a, b, c) = R!PatchStatus(a, b, c)
      BY DEF PatchStatus, R!PatchStatus
    <2>3. \A a, b, c : PatchInstance(a, b, c) = R!PatchInstance(a, b, c)
      BY <2>1, <2>2 DEF PatchInstance, R!PatchInstance
    <2>4. \A i : Write(i) <=> R!Write(i)
      BY DEF Write, R!Write
    <2>5. Done <=> R!Done
      BY DEF Done, R!Done
    <2>6. Patch => R!Patch
      BY <2>3, <2>4, <2>5 DEF Patch, R!Patch, bounds, R!bounds
    <2>7. PatchFails => R!PatchFails
      BY <2>1, <2>3, <2>4, <2>5 DEF PatchFails, R!PatchFails, Fault, R!Fault
    <2> QED BY <2>6, <2>7 DEF PatchStep, R!EndStep
  <1>3. Restarted => R!Restarted
    BY DEF Restarted, R!Restarted, Done, R!Done
  <1>4. SyncMetricStorage => R!SyncCache
    BY DEF SyncMetricStorage, SyncCache, R!SyncCache, worker, R!worker, bounds, R!bounds
  <1>5. User => R!UserStep
    <2>1. \A s : UserCreates(s) => R!UserCreates(s)
      BY DEF UserCreates, R!UserCreates, Write, R!Write, worker, R!worker, Disturb, R!Disturb
    <2>2. \A s : UserEdits(s) => R!UserEdits(s)
      BY DEF UserEdits, R!UserEdits, Write, R!Write, worker, R!worker, Disturb, R!Disturb
    <2>3. UserDeletes => R!UserDeletes
      BY DEF UserDeletes, R!UserDeletes, Write, R!Write, worker, R!worker, bounds, R!bounds
    <2> QED BY <2>1, <2>2, <2>3, SpecsAssumption DEF User, R!UserStep
  <1> QED BY <1>1, <1>2, <1>3, <1>4, <1>5

(***************************************************************************)
(* The objects                                                             *)
(***************************************************************************)
\* What the contents of an object may be.
Contents ==
  [MonitoringStack |-> Stack \cup {None}, ServiceMonitor |-> Options \cup {"default", None},
   ScrapeConfig |-> ScrapeConfig \cup {None}]

\* A write puts the key in the queue if it changes an object that is watched.
LEMMA Written ==
  ASSUME TypeOK, NEW k \in Objects, NEW content \in Contents[k], WriteObject(k, content)
  PROVE  /\ obj' \in [MonitoringStack : Stack \cup {None}, ServiceMonitor : Options \cup {"default", None},
                      ScrapeConfig : ScrapeConfig \cup {None}]
         /\ obj'[k] = content /\ \A l \in Objects \ {k} : obj'[l] = obj[l]
         /\ queued' \in BOOLEAN /\ (queued => queued') /\ (k \in watches /\ content # obj[k] => queued')
  <1>1. /\ obj \in [MonitoringStack : Stack \cup {None}, ServiceMonitor : Options \cup {"default", None},
                    ScrapeConfig : ScrapeConfig \cup {None}]
        /\ obj' = [obj EXCEPT ![k] = content]
    BY DEF TypeOK, ObjectsType, WriteObject
  <1>2. /\ obj' \in [MonitoringStack : Stack \cup {None}, ServiceMonitor : Options \cup {"default", None},
                     ScrapeConfig : ScrapeConfig \cup {None}]
        /\ obj'[k] = content /\ \A l \in Objects \ {k} : obj'[l] = obj[l]
    BY <1>1 DEF Objects, Contents
  <1>3. queued' \in BOOLEAN /\ (queued => queued') /\ (k \in watches /\ content # obj[k] => queued')
    BY Zenon DEF WriteObject, TypeOK, ReconcilerType
  <1> QED BY <1>2, <1>3

\* A pass goes on only with a stack that is set, so that it has a spec unless it
\* cannot be built.
SetInv == pc \in R!NormalSteps => ~Unset(inst.spec)

LEMMA StackType ==
  ASSUME TypeOK, inst.spec \in MetricStorageSpec, ~Unset(inst.spec), ~Unbuildable(inst.spec)
  PROVE  /\ DesiredStack \in Stack /\ Deployable(inst.spec)
         /\ DesiredStack.health # "none" => DesiredStack.health \in Status
  <1>1. StackSpec(inst.spec) \in Customs \cup Options
    BY DEF MetricStorageSpec, Unset, Unbuildable, StackSpec
  <1>2. obj["MonitoringStack"] \in Stack \cup {None}
    BY DEF TypeOK, ObjectsType
  <1> QED BY <1>1, <1>2 DEF DesiredStack, Stack, Health, Status, Deployable

LEMMA IntervalType ==
  ASSUME NEW spec \in MetricStorageSpec PROVE ScrapeInterval(spec) \in Options \cup {"default"}
  BY DEF ScrapeInterval, MetricStorageSpec

LEMMA ConfigType ==
  ASSUME TypeOK, inst.spec \in MetricStorageSpec, NEW targets \in GetNodeExporterTargets[inv]
  PROVE  [interval |-> ScrapeInterval(inst.spec), targets |-> targets] \in ScrapeConfig
  <1>1. targets \in Targets
    BY DEF TypeOK, ObjectsType, GetNodeExporterTargets, Targets
  <1> QED BY <1>1, IntervalType DEF ScrapeConfig

(***************************************************************************)
(* Each step is one of those that the general facts are about              *)
(***************************************************************************)
CountsDown ==
  \/ UNCHANGED limits
  \/ Fault /\ UNCHANGED changes
  \/ Disturb /\ UNCHANGED faults

LEMMA CountsKept ==
  ASSUME TypeOK, CountsDown
  PROVE  faults' \in 0 .. MaxFaults /\ changes' \in 0 .. MaxChanges
  BY BoundAssumption DEF TypeOK, ReconcilerType, CountsDown, Fault, Disturb, limits

\* The same resource as the one the pass works on, with other conditions.
Kept(i, conds) ==
  /\ i \in MetricStorage /\ R!SameObject(i, inst) /\ i.finalizer = inst.finalizer
  /\ i.status.conds = conds

LEMMA SameKept == ASSUME inst \in MetricStorage PROVE Kept(inst, inst.status.conds)
  BY DEF Kept, R!SameObject

LEMMA WithKept ==
  ASSUME inst \in MetricStorage, NEW k \in Kinds, NEW status \in Status
  PROVE  Kept(With(k, status), [inst.status.conds EXCEPT ![k] = status])
  <1>1. k \in CondTypes /\ inst \in R!Instances /\ status \in R!Status
        /\ With(k, status) = R!With(k, status)
    BY Types, Operators DEF CondTypes, Status, R!Status
  <1>2. /\ R!With(k, status) \in R!Instances
        /\ R!With(k, status).exists = inst.exists /\ R!With(k, status).deleting = inst.deleting
        /\ R!With(k, status).finalizer = inst.finalizer /\ R!With(k, status).spec = inst.spec
        /\ R!With(k, status).status.conds = R!Mark(inst.status.conds, k, status)
    BY <1>1, StatusOK, R!WithType, Zenon
  <1> QED BY <1>1, <1>2, Types DEF Kept, R!SameObject, R!Mark

\* The step that creates an object, or the one after a watch without one.
After(k) == IF k = "NodeSet" THEN "watch ScrapeConfig" ELSE k

\* The instance after ensureWatches for a kind.
WatchedConds(k) == IF k = "NodeSet" THEN [inst.status.conds EXCEPT !["NodeSet"] = "True"] ELSE inst.status.conds

\* What a call of ensureWatches does.
WatchCall(k) ==
  /\ pc = WatchSteps[k] /\ before' = before
  /\ UNCHANGED <<server, lost, cluster, obj>> /\ CountsDown
  /\ queued' \in BOOLEAN /\ (queued => queued')
  /\ \/ /\ pc' = After(k) /\ requeue' = requeue /\ Kept(inst', WatchedConds(k))
        /\ watches' \in {watches, watches \cup {k}} /\ watching' \in {watching, watching \cup {k}}
        /\ k \in watching'
        /\ watching = watches => watching' = watches'
     \/ /\ pc' = "patch" /\ requeue' = TRUE /\ Kept(inst', [inst.status.conds EXCEPT ![k] = "False"])
        /\ UNCHANGED <<watching, watches>>

LEMMA WatchCalls ==
  ASSUME TypeOK, NEW k \in Kinds, EnsureWatches(k) \/ EnsureWatchesFails(k) PROVE WatchCall(k)
  <1>1. inst \in MetricStorage /\ queued \in BOOLEAN /\ "True" \in Status /\ "False" \in Status
        /\ "NodeSet" \in Kinds
    BY DEF TypeOK, ReconcilerType, Status, Kinds
  <1>2. ASSUME Watched(k)
        PROVE  pc' = After(k) /\ UNCHANGED <<before, requeue>> /\ Kept(inst', WatchedConds(k))
    <2>1. /\ pc' = After(k) /\ UNCHANGED <<before, requeue>>
          /\ inst' = IF k = "NodeSet" THEN With(k, "True") ELSE inst
      BY <1>2, Zenon DEF Watched, Continue, After
    <2> QED BY <1>1, <2>1, SameKept, WithKept DEF WatchedConds
  <1>3. ASSUME Return(With(k, "False"), TRUE)
        PROVE  /\ pc' = "patch" /\ requeue' = TRUE /\ before' = before
               /\ Kept(inst', [inst.status.conds EXCEPT ![k] = "False"])
    BY <1>1, <1>3, WithKept, Zenon DEF Return
  <1>4. CASE EnsureWatches(k) /\ k \in watching
    BY <1>1, <1>2, <1>4, Zenon DEF EnsureWatches, WatchCall, CountsDown
  <1>5. CASE EnsureWatches(k) /\ k \notin watching
    <2>1. CASE k \in crds
      <3>1. /\ pc = WatchSteps[k] /\ UNCHANGED <<server, limits, lost, cluster, obj>>
            /\ watches' = watches \cup {k} /\ watching' = watching \cup {k}
            /\ queued' = (queued \/ Present(k)) /\ Watched(k)
        BY <1>5, <2>1, Zenon DEF EnsureWatches, StartWatch
      <3>2. queued' \in BOOLEAN /\ (queued => queued')
        BY <3>1, Zenon
      <3> QED BY <1>2, <3>1, <3>2, Zenon DEF WatchCall, CountsDown
    <2>2. CASE k \notin crds
      BY <1>1, <1>3, <1>5, <2>2, Zenon DEF EnsureWatches, StartWatch, WatchCall, CountsDown
    <2> QED BY <2>1, <2>2
  <1>6. CASE EnsureWatchesFails(k)
    BY <1>1, <1>3, <1>6, Zenon DEF EnsureWatchesFails, WatchCall, CountsDown
  <1> QED BY <1>4, <1>5, <1>6

ObjType ==
  obj \in [MonitoringStack : Stack \cup {None}, ServiceMonitor : Options \cup {"default", None},
           ScrapeConfig : ScrapeConfig \cup {None}]

\* What a call for one of the objects does, apart from where the pass goes on.
ObjectCall ==
  /\ pc \in Objects /\ before' = before
  /\ UNCHANGED <<server, lost, cluster, watching, watches>> /\ CountsDown
  /\ queued' \in BOOLEAN /\ (queued => queued') /\ ObjType'

\* The pass ends with an error.
Failed == pc' = "patch" /\ requeue' = TRUE /\ inst' = inst

StackConds ==
  IF DesiredStack.health = "none" THEN inst.status.conds
  ELSE [inst.status.conds EXCEPT !["MonitoringStack"] = DesiredStack.health]

\* The pass goes on with the objects as they should be.
StackDone ==
  /\ pc = "MonitoringStack" /\ pc' = "watch ServiceMonitor" /\ requeue' = requeue
  /\ Deployable(inst.spec) /\ DesiredStack \in Stack /\ WriteObject("MonitoringStack", DesiredStack)
  /\ Kept(inst', StackConds)

MonitorDone ==
  /\ pc = "ServiceMonitor" /\ pc' = "watch NodeSet" /\ requeue' = requeue
  /\ WriteObject("ServiceMonitor", ScrapeInterval(inst.spec))
  /\ ScrapeInterval(inst.spec) \in Options \cup {"default"}
  /\ Kept(inst', [inst.status.conds EXCEPT !["ServiceMonitor"] = "True"])

ConfigDone ==
  /\ pc = "ScrapeConfig" /\ pc' = "patch" /\ requeue' = FALSE
  /\ \E targets \in GetNodeExporterTargets[inv] :
       /\ [interval |-> ScrapeInterval(inst.spec), targets |-> targets] \in ScrapeConfig
       /\ WriteScrapeConfig(targets)
  /\ Kept(inst', [inst.status.conds EXCEPT !["ScrapeConfig"] = "True"])

LEMMA ObjectCalls ==
  ASSUME TypeOK, R!HeldInv, SetInv,
         CreateOrPatchStack \/ CreateOrPatchMonitor \/ CreateOrPatchScrapeConfig \/ CallFails
  PROVE  ObjectCall /\ (Failed \/ StackDone \/ MonitorDone \/ ConfigDone)
  <1>1. inst \in MetricStorage /\ queued \in BOOLEAN /\ "True" \in Status /\ Objects \subseteq Kinds
        /\ ObjType
    BY DEF TypeOK, ReconcilerType, ObjectsType, ObjType, Status, Kinds
  <1>2. pc \in Objects
    BY Zenon DEF CreateOrPatchStack, CreateOrPatchMonitor, CreateOrPatchScrapeConfig, CallFails, Objects
  <1>3. pc \in R!NormalSteps /\ pc # "idle"
    BY <1>2, Zenon DEF Objects, R!NormalSteps, Steps
  <1>4. inst.spec \in MetricStorageSpec /\ ~Unset(inst.spec)
    BY <1>3 DEF R!HeldInv, R!PassObject, R!SameObject, SetInv
  <1>5. ASSUME ~Unbuildable(inst.spec), WriteObject("MonitoringStack", DesiredStack)
        PROVE  DesiredStack \in Stack /\ ObjType' /\ queued' \in BOOLEAN /\ (queued => queued')
    <2>1. DesiredStack \in Stack /\ DesiredStack \in Contents["MonitoringStack"]
      BY <1>4, <1>5, StackType DEF Contents
    <2> QED BY <1>5, <2>1, Written DEF Objects, ObjType
  <1>6. ASSUME WriteObject("ServiceMonitor", ScrapeInterval(inst.spec))
        PROVE  ObjType' /\ queued' \in BOOLEAN /\ (queued => queued')
    <2>1. ScrapeInterval(inst.spec) \in Contents["ServiceMonitor"]
      BY <1>4, IntervalType DEF Contents
    <2> QED BY <1>6, <2>1, Written DEF Objects, ObjType
  <1>7. ASSUME NEW targets \in GetNodeExporterTargets[inv], WriteScrapeConfig(targets)
        PROVE  /\ [interval |-> ScrapeInterval(inst.spec), targets |-> targets] \in ScrapeConfig
               /\ ObjType' /\ queued' \in BOOLEAN /\ (queued => queued')
    <2> DEFINE c == [interval |-> ScrapeInterval(inst.spec), targets |-> targets]
    <2>1. c \in ScrapeConfig /\ WriteObject("ScrapeConfig", c)
      BY <1>4, <1>7, ConfigType DEF WriteScrapeConfig
    <2> HIDE DEF c
    <2>2. c \in Contents["ScrapeConfig"]
      BY <2>1 DEF Contents
    <2>3. ObjType' /\ queued' \in BOOLEAN /\ (queued => queued')
      BY <2>1, <2>2, Written DEF Objects, ObjType
    <2> QED BY <2>1, <2>3 DEF c
  <1>8. ASSUME UNCHANGED <<obj, queued>> PROVE ObjType' /\ queued' \in BOOLEAN /\ (queued => queued')
    BY <1>1, <1>8 DEF ObjType
  <1>9. CASE CreateOrPatchStack /\ Unbuildable(inst.spec)
    BY <1>2, <1>8, <1>9, Zenon DEF CreateOrPatchStack, Return, ObjectCall, Failed, CountsDown
  <1>10. CASE CreateOrPatchStack /\ ~Unbuildable(inst.spec)
    <2>1. /\ pc = "MonitoringStack" /\ pc' = "watch ServiceMonitor" /\ UNCHANGED <<before, requeue>>
          /\ WriteObject("MonitoringStack", DesiredStack) /\ inst' = StackCondition
          /\ UNCHANGED <<server, limits, lost, cluster, watching, watches>>
      BY <1>10, Zenon DEF CreateOrPatchStack, Continue
    <2>2. Deployable(inst.spec) /\ (DesiredStack.health # "none" => DesiredStack.health \in Status)
      BY <1>4, <1>10, StackType
    <2>3. Kept(inst', StackConds)
      <3>1. "MonitoringStack" \in Kinds
        BY DEF Kinds, Objects
      <3> QED BY <1>1, <2>1, <2>2, <3>1, SameKept, WithKept, Zenon DEF StackCondition, StackConds
    <2> QED BY <1>2, <1>5, <1>10, <2>1, <2>2, <2>3, Zenon DEF ObjectCall, StackDone, CountsDown
  <1>11. CASE CreateOrPatchMonitor
    <2>1. /\ pc = "ServiceMonitor" /\ pc' = "watch NodeSet" /\ UNCHANGED <<before, requeue>>
          /\ WriteObject("ServiceMonitor", ScrapeInterval(inst.spec))
          /\ inst' = With("ServiceMonitor", "True")
          /\ UNCHANGED <<server, limits, lost, cluster, watching, watches>>
      BY <1>11, Zenon DEF CreateOrPatchMonitor, Continue
    <2>2. Kept(inst', [inst.status.conds EXCEPT !["ServiceMonitor"] = "True"])
      BY <1>1, <2>1, WithKept, Zenon DEF Kinds, Objects
    <2> QED BY <1>2, <1>4, <1>6, <2>1, <2>2, IntervalType, Zenon DEF ObjectCall, MonitorDone, CountsDown
  <1>12. CASE CreateOrPatchScrapeConfig
    <2>1. PICK targets \in GetNodeExporterTargets[inv] : WriteScrapeConfig(targets)
      BY <1>12 DEF CreateOrPatchScrapeConfig
    <2>2. /\ pc = "ScrapeConfig" /\ pc' = "patch" /\ requeue' = FALSE /\ before' = before
          /\ inst' = With("ScrapeConfig", "True")
          /\ UNCHANGED <<server, limits, lost, cluster, watching, watches>>
      BY <1>12 DEF CreateOrPatchScrapeConfig, Return
    <2>3. Kept(inst', [inst.status.conds EXCEPT !["ScrapeConfig"] = "True"])
      BY <1>1, <2>2, WithKept DEF Kinds, Objects
    <2> QED BY <1>2, <1>7, <2>1, <2>2, <2>3, Zenon DEF ObjectCall, ConfigDone, CountsDown
  <1>13. CASE CallFails
    <2>1. /\ Failed /\ before' = before /\ CountsDown
          /\ UNCHANGED <<server, lost, cluster, watching, watches>>
      BY <1>13 DEF CallFails, Return, Failed, CountsDown
    <2>2. ObjType' /\ queued' \in BOOLEAN /\ (queued => queued')
      BY <1>5, <1>6, <1>7, <1>8, <1>13, Zenon DEF CallFails
    <2> QED BY <1>2, <2>1, <2>2 DEF ObjectCall
  <1> QED BY <1>9, <1>10, <1>11, <1>12, <1>13

\* What happens to the objects behind the back of the controller: the stack gets
\* another health, or one of them is gone.
ObjectMoved(k) ==
  /\ obj[k] # None /\ WriteObject(k, None)
  /\ UNCHANGED <<server, pass, lost, cluster, watching, watches>> /\ CountsDown

StackMoved ==
  /\ \E health \in Health : StackReports(health)
  /\ CountsDown

Outside ==
  \/ ResyncMetricStorage \/ UNCHANGED vars \/ StackMoved \/ InventoryChanges
  \/ \E bundle \in Bundles : Install(bundle)
  \/ \E k \in Objects : ObjectMoved(k)

LEMMA NextCases ==
  ASSUME [Next]_vars
  PROVE  \/ Reconcile \/ ReconcileDelete \/ PatchStep \/ Restart \/ SyncMetricStorage \/ User \/ Outside
         \/ \E k \in Kinds : EnsureWatches(k) \/ EnsureWatchesFails(k)
         \/ CreateOrPatchStack \/ CreateOrPatchMonitor \/ CreateOrPatchScrapeConfig \/ CallFails
  <1>1. StackReady \/ StackDegraded => StackMoved
    BY DEF StackReady, StackDegraded, StackMoved, CountsDown, Health
  <1>2. \A k \in Objects : ObjectDeleted(k) \/ GarbageCollect(k) => ObjectMoved(k)
    BY Zenon DEF ObjectDeleted, GarbageCollect, ObjectMoved, CountsDown
  <1> QED BY <1>1, <1>2, Zenon DEF Next, Work, Provide, Outside

\* The stack as it has been reported on.
LEMMA Reported ==
  ASSUME TypeOK, NEW health \in Health, StackReports(health)
  PROVE  /\ ObjType' /\ queued' \in BOOLEAN /\ (queued => queued')
         /\ "MonitoringStack" \in watches => queued'
         /\ \A l \in Objects \ {"MonitoringStack"} : obj'[l] = obj[l]
  <1> DEFINE c == [obj["MonitoringStack"] EXCEPT !.health = health]
  <1>1. WriteObject("MonitoringStack", c) /\ "MonitoringStack" \in Objects
    BY DEF StackReports, Objects
  <1>2. obj["MonitoringStack"] \in Stack
    BY DEF StackReports, TypeOK, ObjectsType
  <1>3. c \in Stack /\ c.health = health /\ c # obj["MonitoringStack"]
    BY <1>2 DEF Stack, StackReports
  <1> HIDE DEF c
  <1>4. c \in Contents["MonitoringStack"]
    BY <1>3 DEF Contents
  <1> QED BY <1>1, <1>3, <1>4, Written DEF ObjType

\* One of the objects is gone.
LEMMA Deleted ==
  ASSUME TypeOK, NEW k \in Objects, ObjectMoved(k)
  PROVE  /\ ObjType' /\ queued' \in BOOLEAN /\ (queued => queued')
         /\ k \in watches => queued'
         /\ \A l \in Objects \ {k} : obj'[l] = obj[l]
  <1>1. None \in Contents[k] /\ WriteObject(k, None) /\ obj[k] # None
    BY DEF Contents, Objects, ObjectMoved
  <1> QED BY <1>1, Written DEF ObjType

LEMMA OutsideSteps ==
  ASSUME TypeOK, Outside
  PROVE  R!OutsideStep /\ ObjectsType' /\ UNCHANGED <<pass, watching, watches, lost>>
  <1>1. queued \in BOOLEAN /\ ObjType
    BY DEF TypeOK, ReconcilerType, ObjectsType, ObjType
  <1>2. /\ UNCHANGED <<server, pass, watching, watches, lost>> /\ CountsDown
        /\ queued' \in BOOLEAN /\ (queued => queued') /\ ObjType'
        /\ crds' \subseteq Kinds /\ inv' \in DOMAIN Inventories
    <2>1. CASE ResyncMetricStorage \/ UNCHANGED vars
      <3>1. UNCHANGED <<server, pass, watching, watches, lost, limits, obj, crds, inv>>
            /\ (queued' = TRUE \/ queued' = queued)
        BY <2>1 DEF ResyncMetricStorage, Resync, resource, worker, bounds, server, pass, limits, cluster, vars
      <3> QED BY <1>1, <3>1, Zenon DEF CountsDown, ObjType, TypeOK, ObjectsType
    <2>2. CASE StackMoved
      BY <1>1, <2>2, Reported DEF StackMoved, StackReports, cluster, TypeOK, ObjectsType
    <2>3. CASE InventoryChanges
      <3>1. queued' \in BOOLEAN /\ (queued => queued')
        BY <1>1, <2>3, Zenon DEF InventoryChanges
      <3> QED BY <1>1, <2>3, <3>1 DEF InventoryChanges, CountsDown, ObjType, TypeOK, ObjectsType
    <2>4. ASSUME NEW bundle \in Bundles, Install(bundle)
          PROVE  /\ UNCHANGED <<server, pass, watching, watches, lost, limits, obj, queued, inv>>
                 /\ crds' \subseteq Kinds
      BY <2>4, BundlesAssumption DEF Install, TypeOK, ObjectsType
    <2>5. ASSUME NEW k \in Objects, ObjectMoved(k)
          PROVE  /\ UNCHANGED <<server, pass, watching, watches, lost, cluster>> /\ CountsDown
                 /\ queued' \in BOOLEAN /\ (queued => queued') /\ ObjType'
      BY <2>5, Deleted DEF ObjectMoved
    <2> QED BY <1>1, <2>1, <2>2, <2>3, <2>4, <2>5
            DEF Outside, cluster, CountsDown, ObjType, TypeOK, ObjectsType
  <1>3. R!Counts
    BY <1>2, CountsKept DEF R!Counts
  <1> QED BY <1>2, <1>3 DEF server, pass, R!OutsideStep, R!resource, R!worker, TypeOK, ObjectsType, ObjType

LEMMA WatchStep ==
  /\ WatchSteps["MonitoringStack"] = "watch MonitoringStack"
  /\ WatchSteps["ServiceMonitor"] = "watch ServiceMonitor"
  /\ WatchSteps["NodeSet"] = "watch NodeSet"
  /\ WatchSteps["ScrapeConfig"] = "watch ScrapeConfig"
  BY DEF WatchSteps

LEMMA PassSteps ==
  ASSUME TypeOK, R!HeldInv, SetInv,
         \/ \E k \in Kinds : EnsureWatches(k) \/ EnsureWatchesFails(k)
         \/ CreateOrPatchStack \/ CreateOrPatchMonitor \/ CreateOrPatchScrapeConfig \/ CallFails
  PROVE  R!PassStep /\ ObjectsType' /\ pc \in R!NormalSteps
  <1>1. inst \in MetricStorage /\ requeue \in BOOLEAN
    BY DEF TypeOK, ReconcilerType
  <1>2. ASSUME NEW k \in Kinds, WatchCall(k) PROVE R!PassStep /\ ObjectsType' /\ pc \in R!NormalSteps
    <2>1. pc \in R!NormalSteps /\ After(k) \in R!NormalSteps
      <3>1. pc = WatchSteps[k]
        BY <1>2, Zenon DEF WatchCall
      <3>2. k \in {"MonitoringStack", "ServiceMonitor", "NodeSet", "ScrapeConfig"}
        BY DEF Kinds, Objects
      <3> QED BY <3>1, <3>2, WatchStep, Zenon DEF After, R!NormalSteps, Steps
    <2>2. /\ pc' \in {"patch"} \cup R!NormalSteps /\ requeue' \in BOOLEAN
          /\ \E c : Kept(inst', c)
      <3>1. \E c : Kept(inst', c)
        BY <1>2, Zenon DEF WatchCall
      <3> QED BY <1>1, <1>2, <2>1, <3>1, Zenon DEF WatchCall
    <2>3. R!Counts
      BY <1>2, CountsKept DEF WatchCall, R!Counts
    <2>4. R!PassStep
      BY <1>2, <2>1, <2>2, <2>3, Types DEF WatchCall, Kept, server, R!PassStep, R!resource, R!NormalSteps
    <2>5. ObjectsType'
      BY <1>2 DEF WatchCall, cluster, TypeOK, ObjectsType
    <2> QED BY <2>1, <2>4, <2>5
  <1>3. ASSUME ObjectCall, Failed \/ StackDone \/ MonitorDone \/ ConfigDone
        PROVE  R!PassStep /\ ObjectsType' /\ pc \in R!NormalSteps
    <2>1. pc \in R!NormalSteps
      BY <1>3, Zenon DEF ObjectCall, Objects, R!NormalSteps, Steps
    <2>2. /\ pc' \in {"patch"} \cup R!NormalSteps /\ requeue' \in BOOLEAN
          /\ \E c : Kept(inst', c)
      BY <1>1, <1>3, SameKept, Zenon DEF Failed, StackDone, MonitorDone, ConfigDone, R!NormalSteps, Steps
    <2>3. R!Counts
      BY <1>3, CountsKept DEF ObjectCall, R!Counts
    <2>4. R!PassStep
      BY <1>3, <2>1, <2>2, <2>3, Types DEF ObjectCall, Kept, server, R!PassStep, R!resource, R!NormalSteps
    <2>5. ObjectsType'
      BY <1>3 DEF ObjectCall, cluster, TypeOK, ObjectsType, ObjType
    <2> QED BY <2>1, <2>4, <2>5
  <1> QED BY <1>2, <1>3, WatchCalls, ObjectCalls

\* What the worker starts with, and what leaves the objects alone.
LEMMA OtherSteps ==
  ASSUME TypeOK, Reconcile \/ ReconcileDelete \/ PatchStep \/ Restart \/ SyncMetricStorage \/ User
  PROVE  R!ControllerStep /\ UNCHANGED <<cluster, obj>> /\ ObjectsType'
  <1>1. R!ReconcilerType /\ requeue \in BOOLEAN /\ queued \in BOOLEAN
    BY Types DEF TypeOK, ReconcilerType
  <1>2. R!ControllerStep
    <2>1. CASE Reconcile \/ PatchStep \/ SyncMetricStorage \/ User
      BY <1>1, <2>1, Actions, Zenon DEF R!ControllerStep
    <2>2. CASE ReconcileDelete
      <3>1. /\ pc = "delete" /\ pc' = "patch" /\ requeue' = FALSE /\ before' = before
            /\ inst' = [inst EXCEPT !.finalizer = FALSE] /\ UNCHANGED <<server, queued, limits>>
        BY <2>2 DEF ReconcileDelete, Return
      <3>2. R!Counts
        BY <1>1, <3>1, CountsKept DEF CountsDown, R!Counts
      <3> QED BY <3>1, <3>2, Zenon DEF server, R!ReleaseStep, R!resource, R!ControllerStep
    <2>3. CASE Restart
      <3>1. Restarted /\ CountsDown /\ queued'
        BY <2>3 DEF Restart, Restarted, CountsDown
      <3>2. R!Counts
        BY <3>1, CountsKept DEF R!Counts, Restarted
      <3> QED BY <3>1, <3>2, Actions DEF R!RestartStep, R!ControllerStep
    <2> QED BY <2>1, <2>2, <2>3
  <1>3. /\ UNCHANGED <<cluster, obj>> /\ lost' \in BOOLEAN
        /\ UNCHANGED <<watching, watches>> \/ (watching' = {} /\ watches' = {})
    <2>1. CASE PatchStep
      <3>1. lost' \in {lost, ~requeue} /\ UNCHANGED <<cluster, watching, watches, obj>>
        BY <2>1 DEF PatchStep
      <3> QED BY <1>1, <3>1, Zenon DEF TypeOK, ObjectsType
    <2> QED BY <2>1, Zenon DEF Reconcile, ReconcileDelete, Restart, SyncMetricStorage, User, TypeOK, ObjectsType
  <1> QED BY <1>2, <1>3 DEF cluster, TypeOK, ObjectsType

LEMMA Step ==
  ASSUME TypeOK, R!HeldInv, SetInv, [Next]_vars PROVE R!ControllerStep /\ ObjectsType' /\ SetInv'
  <1>1. CASE Reconcile \/ ReconcileDelete \/ PatchStep \/ Restart \/ SyncMetricStorage \/ User
    <2>1. R!ControllerStep /\ ObjectsType' /\ R!ReconcilerType
      BY <1>1, OtherSteps, Types DEF TypeOK
    <2>2. CASE Reconcile
      <3> SUFFICES ASSUME pc' \in R!NormalSteps PROVE ~Unset(inst'.spec)
        BY <2>1 DEF SetInv
      <3>1. pc' \notin {"idle", "patch", "delete"}
        BY DEF R!NormalSteps
      <3>2. (cache.exists => cache.deleting \/ ~Unset(cache.spec)) /\ Dispatch("watch MonitoringStack")
        <4>1. ~NotFound /\ ~AddFinalizer /\ ~InitStatus /\ ~Misconfigured
          BY <3>1 DEF NotFound, AddFinalizer, InitStatus, Misconfigured, Fetch, Begin, worker
        <4> QED BY <2>2, <4>1, Zenon DEF Reconcile
      <3>3. inst' = cache /\ cache.exists /\ ~cache.deleting
        BY <3>1, <3>2, Zenon DEF Dispatch, Initialized, Begin
      <3> QED BY <3>2, <3>3, Zenon
    <2>3. CASE ~Reconcile
      <3>1. pc' \notin R!NormalSteps \/ UNCHANGED <<pc, inst>>
        BY <1>1, <2>3, Zenon DEF ReconcileDelete, PatchStep, Patch, PatchFails, Restart, Restarted, Done, Return,
                          SyncMetricStorage, SyncCache, User, UserCreates, UserEdits, UserDeletes, worker,
                          R!NormalSteps
      <3> QED BY <2>1, <3>1 DEF SetInv
    <2> QED BY <2>1, <2>2, <2>3
  <1>2. CASE Outside
    <2>1. R!OutsideStep /\ ObjectsType' /\ UNCHANGED pass
      BY <1>2, OutsideSteps
    <2> QED BY <2>1 DEF pass, SetInv, R!ControllerStep
  <1>3. CASE \/ \E k \in Kinds : EnsureWatches(k) \/ EnsureWatchesFails(k)
             \/ CreateOrPatchStack \/ CreateOrPatchMonitor \/ CreateOrPatchScrapeConfig \/ CallFails
    <2>1. R!PassStep /\ ObjectsType' /\ pc \in R!NormalSteps
      BY <1>3, PassSteps
    <2>2. inst'.spec = inst.spec
      BY <2>1 DEF R!PassStep, R!SameObject
    <2> QED BY <2>1, <2>2 DEF SetInv, R!ControllerStep
  <1> QED BY <1>1, <1>2, <1>3, NextCases, Zenon

BaseInv == TypeOK /\ R!HeldInv /\ R!LifeInv /\ R!FreshInv /\ SetInv

LEMMA InitBase == ASSUME Init PROVE BaseInv
  <1>1. R!ReconcilerInit
    BY Operators DEF Init, ReconcilerInit, R!ReconcilerInit
  <1>2. R!ReconcilerType
    BY <1>1, Parameters, R!InitType DEF Init
  <1>3. R!HeldInv /\ R!LifeInv /\ R!FreshInv
    BY <1>1, Parameters, R!HeldInit, R!LifeInit, R!FreshInit
  <1>4. ObjectsType /\ SetInv
    BY Zenon DEF Init, ReconcilerInit, ObjectsType, Objects, SetInv, R!NormalSteps
  <1> QED BY <1>2, <1>3, <1>4, Types DEF BaseInv, TypeOK

LEMMA BaseStep == ASSUME BaseInv, [Next]_vars PROVE BaseInv'
  <1>1. R!ReconcilerType /\ R!ControllerStep /\ ObjectsType' /\ SetInv'
    BY Types, Step DEF BaseInv, TypeOK
  <1>2. R!ReconcilerType' /\ R!HeldInv' /\ R!LifeInv' /\ R!FreshInv'
    BY <1>1, Parameters, R!StepType, R!HeldStep, R!LifeStep, R!FreshStep DEF BaseInv
  <1>3. ReconcilerType'
    BY <1>2, Types DEF ReconcilerType, R!ReconcilerType
  <1> QED BY <1>1, <1>2, <1>3 DEF BaseInv, TypeOK

\* TypeOK holds: above all, a stack is only written with the spec of one that
\* can be built, and its health becomes a condition only once there is one.
THEOREM TypeCorrect == Spec => []TypeOK
  <1>1. BaseInv => TypeOK
    BY DEF BaseInv
  <1> QED BY <1>1, InitBase, BaseStep, PTL DEF Spec

\* The MetricStorage is what its Telemetry takes it for: every step is a step
\* of the life of a service, whatever the cache shows to the worker.
THEOREM LifecycleImplemented == Spec => ImplementsLifecycle
  <1>1. ASSUME Init PROVE Lifecycle!Init
    <2>1. R!ReconcilerInit
      BY <1>1, Operators DEF Init, ReconcilerInit, R!ReconcilerInit
    <2>2. R!Lifecycle!Init
      BY <2>1, Parameters, R!LifecycleInit
    <2> QED BY <2>2 DEF Lifecycle!Init, R!Lifecycle!Init, Ready, R!Ready
  <1>2. ASSUME BaseInv, [Next]_vars PROVE [Lifecycle!Next]_(Lifecycle!vars)
    <2>1. R!ReconcilerType /\ R!ControllerStep
      BY <1>2, Types, Step DEF BaseInv, TypeOK
    <2>2. [R!Lifecycle!Next]_(R!Lifecycle!vars)
      BY <1>2, <2>1, Parameters, R!LifecycleStep DEF BaseInv
    <2> QED BY <2>2, Zenon
      DEF Lifecycle!Next, Lifecycle!vars, Lifecycle!Create, Lifecycle!Delete, Lifecycle!Report,
          Lifecycle!Release, R!Lifecycle!Next, R!Lifecycle!vars, R!Lifecycle!Create,
          R!Lifecycle!Delete, R!Lifecycle!Report, R!Lifecycle!Release, Ready, R!Ready
  <1> QED BY <1>1, <1>2, InitBase, BaseStep, PTL DEF Spec, ImplementsLifecycle, Lifecycle!Spec

(***************************************************************************)
(* Wake-ups                                                                *)
(***************************************************************************)
\* An object is as the spec wants it, the condition shows it, and a change of
\* it will be noticed.
StackSeen(i) ==
  /\ "MonitoringStack" \in watches
  /\ Deployable(i.spec)
  /\ obj["MonitoringStack"] # None /\ obj["MonitoringStack"].spec = StackSpec(i.spec)
  /\ obj["MonitoringStack"].health # "none" =>
       i.status.conds["MonitoringStack"] = obj["MonitoringStack"].health

MonitorSeen(i) ==
  /\ "ServiceMonitor" \in watches
  /\ obj["ServiceMonitor"] = ScrapeInterval(i.spec)
  /\ i.status.conds["ServiceMonitor"] = "True"

NodesSeen(i) == "NodeSet" \in watches /\ i.status.conds["NodeSet"] = "True"

TargetsSeen(i) ==
  /\ "ScrapeConfig" \in watches
  /\ obj["ScrapeConfig"] # None
  /\ obj["ScrapeConfig"].interval = ScrapeInterval(i.spec)
  /\ \E j \in DOMAIN Inventories :
       SameNodeSets(j, inv) /\ obj["ScrapeConfig"].targets \in GetNodeExporterTargets[j]
  /\ i.status.conds["ScrapeConfig"] = "True"

\* There is nothing to deploy, and the status says so.
Refused(i) == Unset(i.spec) /\ i.status.conds["MonitoringStack"] = "False"

Complete(i) ==
  /\ i.finalizer /\ ~i.deleting
  /\ Refused(i) \/ (StackSeen(i) /\ MonitorSeen(i) /\ NodesSeen(i) /\ TargetsSeen(i))

\* How far the pass has come, if nothing has happened that starts another one.
Progress ==
  /\ pc \in Objects => pc \in watches
  /\ pc \in {"watch ServiceMonitor", "ServiceMonitor", "watch NodeSet", "watch ScrapeConfig", "ScrapeConfig"}
       => StackSeen(inst)
  /\ pc \in {"watch NodeSet", "watch ScrapeConfig", "ScrapeConfig"} => MonitorSeen(inst)
  /\ pc \in {"watch ScrapeConfig", "ScrapeConfig"} => NodesSeen(inst)

\* Why a pass may end without a requeue.
PassEnds ==
  pc = "patch" /\ ~requeue =>
    \/ inst.finalizer # before.finalizer
    \/ /\ before.status.conds = NilConditions(CondTypes)
       /\ inst.status.conds = InitConditions(before.status.conds, Kinds)
    \/ Complete(inst)

AtRest == Settled /\ cr.exists => Complete(cr) /\ cr.status.conds["Ready"] # "Absent"

WakeInv == watching = watches /\ (~queued => Progress /\ PassEnds) /\ AtRest

\* A pass that fails asks for another one.
LEMMA Requeues == ASSUME pc' = "patch", requeue' PROVE Progress' /\ PassEnds'
  BY DEF Progress, PassEnds, Objects

LEMMA CondsType == ASSUME NEW i \in MetricStorage PROVE i.status.conds \in [CondTypes -> Status]
  BY DEF MetricStorage, InstanceType, MetricStorageStatus

LEMMA WatchWake ==
  ASSUME BaseInv, Progress, watching = watches, NEW k \in Kinds, WatchCall(k)
  PROVE  Progress' /\ PassEnds' /\ watching' = watches' /\ pc' # "idle"
  <1>1. CASE pc' = "patch" /\ requeue' = TRUE /\ UNCHANGED <<watching, watches>>
    BY <1>1, Requeues
  <1>2. CASE /\ pc' = After(k) /\ Kept(inst', WatchedConds(k)) /\ k \in watching' /\ watching' = watches'
             /\ watches' \in {watches, watches \cup {k}}
    <2>1. pc = WatchSteps[k] /\ UNCHANGED <<obj, inv>> /\ watches \subseteq watches' /\ k \in watches'
      BY <1>2, Zenon DEF WatchCall, cluster
    <2>2. inst.status.conds \in [CondTypes -> Status] /\ Kinds \subseteq CondTypes
      BY CondsType, Zenon DEF BaseInv, TypeOK, ReconcilerType, CondTypes
    <2>3. /\ inst'.spec = inst.spec
          /\ \A l \in Objects : inst'.status.conds[l] = inst.status.conds[l]
          /\ k = "NodeSet" => inst'.status.conds["NodeSet"] = "True"
          /\ k # "NodeSet" => inst'.status.conds = inst.status.conds
      BY <1>2, <2>2 DEF Kept, WatchedConds, R!SameObject, Kinds, Objects
    <2>4. /\ StackSeen(inst) => StackSeen(inst)'
          /\ MonitorSeen(inst) => MonitorSeen(inst)'
          /\ k # "NodeSet" /\ NodesSeen(inst) => NodesSeen(inst)'
      BY <2>1, <2>3 DEF StackSeen, MonitorSeen, NodesSeen, Objects
    <2>5. ASSUME k = "MonitoringStack" PROVE Progress' /\ PassEnds'
      BY <1>2, <2>1, <2>5, Zenon DEF Progress, PassEnds, After
    <2>6. ASSUME k = "ServiceMonitor" PROVE Progress' /\ PassEnds'
      <3>1. pc = "watch ServiceMonitor" /\ pc' = "ServiceMonitor"
        BY <1>2, <2>1, <2>6, WatchStep, Zenon DEF After
      <3>2. pc' \in watches' /\ (StackSeen(inst) => StackSeen(inst)')
        BY <2>1, <2>4, <2>6, <3>1, Zenon
      <3> QED BY <3>1, <3>2, Zenon DEF Progress, PassEnds
    <2>7. ASSUME k = "NodeSet" PROVE Progress' /\ PassEnds'
      <3>1. pc = "watch NodeSet" /\ pc' = "watch ScrapeConfig" /\ pc' \notin Objects
        BY <1>2, <2>1, <2>7, WatchStep, Zenon DEF After, Objects
      <3>2. NodesSeen(inst)' /\ (StackSeen(inst) => StackSeen(inst)') /\ (MonitorSeen(inst) => MonitorSeen(inst)')
        BY <2>1, <2>3, <2>4, <2>7, Zenon DEF NodesSeen
      <3> QED BY <3>1, <3>2, Zenon DEF Progress, PassEnds
    <2>8. ASSUME k = "ScrapeConfig" PROVE Progress' /\ PassEnds'
      <3>1. pc = "watch ScrapeConfig" /\ pc' = "ScrapeConfig"
        BY <1>2, <2>1, <2>8, WatchStep, Zenon DEF After
      <3>2. /\ pc' \in watches' /\ (StackSeen(inst) => StackSeen(inst)')
            /\ MonitorSeen(inst) => MonitorSeen(inst)'
            /\ NodesSeen(inst) => NodesSeen(inst)'
        BY <2>1, <2>4, <2>8, <3>1, Zenon
      <3> QED BY <3>1, <3>2, Zenon DEF Progress, PassEnds
    <2>9. Progress' /\ PassEnds'
      BY <2>5, <2>6, <2>7, <2>8 DEF Kinds, Objects
    <2> QED BY <1>2, <2>9, Zenon DEF After, Kinds, Objects
  <1> QED BY <1>1, <1>2, Zenon DEF WatchCall

\* An object that a call leaves as it was is as the spec wants it; otherwise,
\* as it is watched, the key is in the queue.
LEMMA ObjectWake ==
  ASSUME BaseInv, Progress, ObjectCall, Failed \/ StackDone \/ MonitorDone \/ ConfigDone, ~queued'
  PROVE  Progress' /\ PassEnds' /\ pc' # "idle"
  <1>1. TypeOK /\ R!HeldInv /\ inst \in MetricStorage
        /\ watches' = watches /\ inv' = inv /\ inv \in DOMAIN Inventories /\ pc \in watches
    BY Zenon DEF BaseInv, TypeOK, ReconcilerType, ObjectsType, ObjectCall, cluster, Progress
  <1>2. inst.status.conds \in [CondTypes -> Status] /\ Kinds \subseteq CondTypes
    BY <1>1, CondsType, Zenon DEF CondTypes
  <1>3. CASE Failed
    BY <1>3, Requeues DEF Failed
  <1>4. ASSUME NEW k \in Objects, k \in watches, NEW content \in Contents[k], WriteObject(k, content)
        PROVE  content = obj[k] /\ \A l \in Objects : obj'[l] = obj[l]
    BY <1>1, <1>4, Written
  <1>5. CASE StackDone
    <2>1. /\ pc = "MonitoringStack" /\ pc' = "watch ServiceMonitor" /\ Deployable(inst.spec)
          /\ DesiredStack \in Stack /\ WriteObject("MonitoringStack", DesiredStack)
          /\ Kept(inst', StackConds)
      BY <1>5, Zenon DEF StackDone
    <2>2. DesiredStack = obj["MonitoringStack"] /\ obj'["MonitoringStack"] = obj["MonitoringStack"]
      <3>1. "MonitoringStack" \in Objects /\ DesiredStack \in Contents["MonitoringStack"]
        BY <2>1, Zenon DEF Objects, Contents
      <3> QED BY <1>1, <1>4, <2>1, <3>1, Zenon
    <2>3. DesiredStack.spec = StackSpec(inst.spec) /\ DesiredStack # None
      <3>1. DesiredStack.spec = StackSpec(inst.spec)
        BY DEF DesiredStack
      <3>2. DesiredStack # None
        BY <2>1, ObjectsAssumption, Zenon
      <3> QED BY <3>1, <3>2
    <2>4. /\ inst'.spec = inst.spec
          /\ DesiredStack.health # "none" =>
               inst'.status.conds["MonitoringStack"] = DesiredStack.health
      BY <1>2, <2>1, Zenon DEF Kept, StackConds, R!SameObject, Kinds, Objects
    <2>5. StackSeen(inst)'
      BY <1>1, <2>1, <2>2, <2>3, <2>4, Zenon DEF StackSeen
    <2> QED BY <2>1, <2>5, Zenon DEF Progress, PassEnds, Objects
  <1>6. CASE MonitorDone
    <2>1. /\ pc = "ServiceMonitor" /\ pc' = "watch NodeSet"
          /\ WriteObject("ServiceMonitor", ScrapeInterval(inst.spec))
          /\ Kept(inst', [inst.status.conds EXCEPT !["ServiceMonitor"] = "True"])
      BY <1>6, Zenon DEF MonitorDone
    <2>2. "ServiceMonitor" \in Objects /\ ScrapeInterval(inst.spec) \in Contents["ServiceMonitor"]
      BY <1>6, Zenon DEF MonitorDone, Objects, Contents
    <2>3. ScrapeInterval(inst.spec) = obj["ServiceMonitor"] /\ \A l \in Objects : obj'[l] = obj[l]
      BY <1>1, <1>4, <2>1, <2>2, Zenon
    <2>4. /\ inst'.spec = inst.spec /\ inst'.status.conds["ServiceMonitor"] = "True"
          /\ inst'.status.conds["MonitoringStack"] = inst.status.conds["MonitoringStack"]
      BY <1>2, <2>1, Zenon DEF Kept, R!SameObject, Kinds, Objects
    <2>5. StackSeen(inst)' /\ MonitorSeen(inst)'
      BY <1>1, <2>1, <2>3, <2>4, Zenon DEF Progress, StackSeen, MonitorSeen, Objects
    <2> QED BY <2>1, <2>5, Zenon DEF Progress, PassEnds, Objects
  <1>7. CASE ConfigDone
    <2>1. /\ pc = "ScrapeConfig" /\ pc' = "patch"
          /\ Kept(inst', [inst.status.conds EXCEPT !["ScrapeConfig"] = "True"])
      BY <1>7 DEF ConfigDone
    <2>2. PICK targets \in GetNodeExporterTargets[inv] :
            /\ [interval |-> ScrapeInterval(inst.spec), targets |-> targets] \in ScrapeConfig
            /\ WriteScrapeConfig(targets)
      BY <1>7, Zenon DEF ConfigDone
    <2> DEFINE c == [interval |-> ScrapeInterval(inst.spec), targets |-> targets]
    <2>3. c.interval = ScrapeInterval(inst.spec) /\ c.targets = targets /\ c # None
          /\ "ScrapeConfig" \in Objects /\ c \in Contents["ScrapeConfig"]
          /\ WriteObject("ScrapeConfig", c)
      BY <2>2, ObjectsAssumption DEF Objects, Contents, WriteScrapeConfig
    <2> HIDE DEF c
    <2>4. c = obj["ScrapeConfig"] /\ \A l \in Objects : obj'[l] = obj[l]
      BY <1>1, <1>4, <2>1, <2>3
    <2>5. /\ inst'.spec = inst.spec /\ inst'.status.conds["ScrapeConfig"] = "True"
          /\ inst'.finalizer = inst.finalizer /\ inst'.deleting = inst.deleting
          /\ \A l \in Kinds \ {"ScrapeConfig"} : inst'.status.conds[l] = inst.status.conds[l]
      BY <1>2, <2>1 DEF Kept, R!SameObject, Kinds, Objects
    <2>6. StackSeen(inst)' /\ MonitorSeen(inst)' /\ NodesSeen(inst)'
      BY <1>1, <2>1, <2>4, <2>5 DEF Progress, StackSeen, MonitorSeen, NodesSeen, Objects, Kinds
    <2>7. TargetsSeen(inst)'
      <3>1. SameNodeSets(inv, inv)
        BY DEF SameNodeSets
      <3> QED BY <1>1, <2>1, <2>2, <2>3, <2>4, <2>5, <3>1, Zenon DEF TargetsSeen, SameNodeSets
    <2>8. inst.finalizer /\ ~inst.deleting
      BY <1>1, <2>1 DEF R!HeldInv, R!PassObject, R!SameObject, R!NormalSteps, Steps
    <2>9. Complete(inst)'
      BY <2>5, <2>6, <2>7, <2>8 DEF Complete
    <2> QED BY <2>1, <2>9 DEF Progress, PassEnds, Objects
  <1> QED BY <1>3, <1>5, <1>6, <1>7

\* What happens outside a pass, if it is noticed by nobody, leaves the objects
\* that are watched and the node sets alone.
Steady ==
  /\ watches' = watches
  /\ \A k \in Objects : k \in watches => obj'[k] = obj[k]
  /\ "NodeSet" \in watches => SameNodeSets(inv, inv')

LEMMA SteadySteps ==
  ASSUME BaseInv, SyncMetricStorage \/ User \/ Outside, cache.exists, ~queued' PROVE Steady
  <1>1. TypeOK
    BY DEF BaseInv
  <1>2. CASE UNCHANGED <<watches, obj, inv>>
    BY <1>2 DEF Steady, SameNodeSets
  <1>3. CASE StackMoved
    <2>1. PICK health \in Health : StackReports(health)
      BY <1>3 DEF StackMoved
    <2>2. "MonitoringStack" \notin watches /\ \A l \in Objects \ {"MonitoringStack"} : obj'[l] = obj[l]
      BY <1>1, <2>1, Reported
    <2>3. UNCHANGED <<watches, inv>>
      BY <2>1 DEF StackReports, cluster
    <2> QED BY <2>2, <2>3 DEF Steady, SameNodeSets
  <1>4. ASSUME NEW k \in Objects, ObjectMoved(k) PROVE Steady
    <2>1. k \notin watches /\ \A l \in Objects \ {k} : obj'[l] = obj[l]
      BY <1>1, <1>4, Deleted
    <2>2. UNCHANGED <<watches, inv>>
      BY <1>4 DEF ObjectMoved, cluster
    <2> QED BY <2>1, <2>2 DEF Steady, SameNodeSets
  <1>5. CASE InventoryChanges
    <2>1. SameNodeSets(inv', inv) \/ ~NodeSetWatchFn
      BY <1>5, Zenon DEF InventoryChanges
    <2>2. UNCHANGED <<watches, obj>>
      BY <1>5 DEF InventoryChanges
    <2> QED BY <2>1, <2>2, Zenon DEF Steady, NodeSetWatchFn, SameNodeSets
  <1>6. SyncMetricStorage \/ User \/ ResyncMetricStorage \/ (\E bundle \in Bundles : Install(bundle))
          \/ UNCHANGED vars => UNCHANGED <<watches, obj, inv>>
    BY DEF SyncMetricStorage, User, ResyncMetricStorage, Install, cluster, vars
  <1> QED BY <1>2, <1>3, <1>4, <1>5, <1>6, Zenon DEF Outside

LEMMA SteadySeen ==
  ASSUME Steady, NEW i
  PROVE  /\ StackSeen(i) => "MonitoringStack" \in watches' /\ obj'["MonitoringStack"] = obj["MonitoringStack"]
         /\ MonitorSeen(i) => "ServiceMonitor" \in watches' /\ obj'["ServiceMonitor"] = obj["ServiceMonitor"]
         /\ NodesSeen(i) => "NodeSet" \in watches'
         /\ NodesSeen(i) /\ TargetsSeen(i) =>
              /\ "ScrapeConfig" \in watches' /\ obj'["ScrapeConfig"] = obj["ScrapeConfig"]
              /\ \E j \in DOMAIN Inventories :
                   SameNodeSets(j, inv') /\ obj["ScrapeConfig"].targets \in GetNodeExporterTargets[j]
  <1>1. Objects = {"MonitoringStack", "ServiceMonitor", "ScrapeConfig"}
    BY DEF Objects
  <1>2. \A j : SameNodeSets(j, inv) /\ SameNodeSets(inv, inv') => SameNodeSets(j, inv')
    BY DEF SameNodeSets
  <1> QED BY <1>1, <1>2, Zenon DEF Steady, StackSeen, MonitorSeen, NodesSeen, TargetsSeen

\* How what happens outside a pass is noticed.
LEMMA QuietSteps ==
  ASSUME BaseInv, SyncMetricStorage \/ User \/ Outside
  PROVE  /\ UNCHANGED <<pass, lost, watching, watches>>
         /\ queued => queued'
         /\ event => event' \/ queued'
         /\ cr' # cr => event'
  <1>1. TypeOK
    BY DEF BaseInv
  <1>2. CASE SyncMetricStorage
    BY <1>2 DEF SyncMetricStorage, SyncCache, worker, pass
  <1>3. CASE User
    <2>1. R!ReconcilerType /\ R!UserStep
      BY <1>1, <1>3, Types, Actions DEF TypeOK
    <2>2. UNCHANGED <<queued, pc, before, inst, requeue>> /\ (event => event') /\ (cr' # cr => event')
      BY <2>1, Parameters, R!UserEffect
    <2> QED BY <1>3, <2>2 DEF User, pass
  <1>4. CASE Outside
    <2>1. R!OutsideStep /\ UNCHANGED <<pass, watching, watches, lost>>
      BY <1>1, <1>4, OutsideSteps
    <2> QED BY <2>1 DEF R!OutsideStep, R!resource, R!Counts
  <1> QED BY <1>2, <1>3, <1>4

LEMMA QuietWake ==
  ASSUME BaseInv, WakeInv, SyncMetricStorage \/ User \/ Outside PROVE WakeInv'
  <1>1. /\ UNCHANGED <<pc, before, inst, requeue, lost, watching, watches>> /\ (queued => queued')
        /\ (event => event' \/ queued') /\ (cr' # cr => event')
    BY QuietSteps DEF pass
  <1>2. ASSUME ~queued', pc # "idle" PROVE Progress' /\ PassEnds'
    <2>1. cache.exists /\ Progress /\ PassEnds
      BY <1>1, <1>2 DEF BaseInv, R!FreshInv, R!HeldInv, R!PassObject, WakeInv
    <2>2. Steady
      BY <1>2, <2>1, SteadySteps
    <2>3. /\ StackSeen(inst) => StackSeen(inst)'
          /\ MonitorSeen(inst) => MonitorSeen(inst)'
          /\ NodesSeen(inst) => NodesSeen(inst)'
          /\ NodesSeen(inst) /\ TargetsSeen(inst) => TargetsSeen(inst)'
      BY <1>1, <2>2, SteadySeen, Zenon DEF StackSeen, MonitorSeen, NodesSeen, TargetsSeen
    <2>4. Progress'
      BY <1>1, <2>1, <2>3, Zenon DEF Progress
    <2>5. PassEnds'
      BY <1>1, <2>1, <2>3, Zenon DEF PassEnds, Complete, Refused
    <2> QED BY <2>4, <2>5
  <1>3. pc' = "idle" => Progress' /\ PassEnds'
    BY DEF Progress, PassEnds, Objects
  <1>4. AtRest'
    <2> SUFFICES ASSUME Settled', cr'.exists
                 PROVE  Complete(cr)' /\ cr'.status.conds["Ready"] # "Absent"
      BY DEF AtRest
    <2>1. Settled /\ cr' = cr /\ ~queued' /\ cache = cr
      BY <1>1 DEF Settled, Quiescent, BaseInv, R!FreshInv
    <2>2. Complete(cr) /\ cr.status.conds["Ready"] # "Absent"
      BY <2>1 DEF WakeInv, AtRest
    <2>3. Steady
      BY <2>1, SteadySteps
    <2>4. /\ StackSeen(cr) => StackSeen(cr)'
          /\ MonitorSeen(cr) => MonitorSeen(cr)'
          /\ NodesSeen(cr) => NodesSeen(cr)'
          /\ NodesSeen(cr) /\ TargetsSeen(cr) => TargetsSeen(cr)'
      BY <2>1, <2>3, SteadySeen, Zenon DEF StackSeen, MonitorSeen, NodesSeen, TargetsSeen
    <2> QED BY <2>1, <2>2, <2>4, Zenon DEF Complete, Refused
  <1> QED BY <1>1, <1>2, <1>3, <1>4 DEF WakeInv

LEMMA BeginWake == ASSUME BaseInv, WakeInv, Reconcile PROVE WakeInv'
  <1>1. R!ReconcilerType /\ R!BeginStep
    BY Types, Actions DEF BaseInv, TypeOK
  <1>2. watching' = watches'
    BY Zenon DEF WakeInv, Reconcile
  <1>3. CASE pc' = "idle"
    <2>1. cr' = cr /\ event' = event /\ ~cache.exists
      BY <1>1, <1>3, Parameters, R!BeginType DEF R!NormalSteps, Steps
    <2>2. ~(Settled' /\ cr'.exists)
      BY <2>1 DEF Settled, Quiescent, BaseInv, R!FreshInv
    <2> QED BY <1>2, <1>3, <2>2, Zenon DEF WakeInv, Progress, PassEnds, AtRest, Objects
  <1>4. CASE pc' # "idle"
    <2> SUFFICES Progress' /\ PassEnds'
      BY <1>2, <1>4 DEF WakeInv, AtRest, Settled, Quiescent
    <2> USE DEF Progress, PassEnds, Objects
    <2>1. ~NotFound
      BY <1>4 DEF NotFound, Fetch, worker
    <2>2. cache \in MetricStorage
      BY DEF BaseInv, TypeOK, ReconcilerType
    <2>3. CASE AddFinalizer
      <3>1. pc' = "patch" /\ ~before'.finalizer /\ inst'.finalizer
        BY <2>2, <2>3 DEF AddFinalizer, Begin, MetricStorage, InstanceType
      <3> QED BY <3>1, Zenon
    <2>4. CASE InitStatus
      <3>1. /\ pc' = "patch" /\ before' = cache
            /\ inst' = [cache EXCEPT !.status.conds = InitConditions(cache.status.conds, Kinds)]
            /\ cache.status.conds = NilConditions(CondTypes)
        BY <2>4 DEF InitStatus, Begin, NoStatus
      <3>2. inst'.status.conds = InitConditions(cache.status.conds, Kinds)
        BY <2>2, <3>1 DEF MetricStorage, InstanceType, MetricStorageStatus
      <3> QED BY <3>1, <3>2
    <2>5. CASE Misconfigured
      <3>1. /\ pc' = "patch" /\ cache.finalizer /\ ~cache.deleting /\ Unset(cache.spec)
            /\ inst' = [cache EXCEPT !.status.conds["MonitoringStack"] = "False"]
        BY <2>5 DEF Misconfigured, Begin, Initialized
      <3>2. /\ inst'.finalizer /\ ~inst'.deleting /\ inst'.spec = cache.spec
            /\ inst'.status.conds["MonitoringStack"] = "False"
        BY <2>2, <3>1 DEF MetricStorage, InstanceType, MetricStorageStatus, CondTypes, Kinds
      <3>3. Complete(inst)'
        BY <3>1, <3>2, Zenon DEF Complete, Refused
      <3> QED BY <3>1, <3>3
    <2>6. CASE Dispatch("watch MonitoringStack")
      <3>1. pc' \in {"delete", "watch MonitoringStack"}
        BY <2>6, Zenon DEF Dispatch, Begin
      <3> QED BY <3>1, Zenon
    <2> QED BY <2>1, <2>3, <2>4, <2>5, <2>6, Zenon DEF Reconcile
  <1> QED BY <1>3, <1>4

\* A patch after which nothing is pending changes nothing, so that the pass has
\* found everything as it should be.  One that fails makes the pass either
\* repeated or lost.
LEMMA PatchWake == ASSUME BaseInv, WakeInv, PatchStep PROVE WakeInv'
  <1>1. R!ReconcilerType /\ R!EndStep
    BY Types, Actions DEF BaseInv, TypeOK
  <1>2. pc' = "idle" /\ UNCHANGED <<watching, watches, obj, inv>>
    BY <1>1, Parameters, R!EndEffect DEF PatchStep, cluster
  <1>3. AtRest'
    <2> SUFFICES ASSUME Settled', cr'.exists
                 PROVE  Complete(cr)' /\ cr'.status.conds["Ready"] # "Absent"
      BY DEF AtRest
    <2>1. R!Patch
      <3>1. ~PatchFails \/ lost' # ~requeue
        BY Zenon DEF PatchFails, Settled, Quiescent
      <3>2. Patch
        BY <3>1, Zenon DEF PatchStep
      <3> QED BY <3>2, Actions
    <2>2. /\ pc = "patch" /\ ~queued /\ ~requeue
          /\ before = cr /\ cr' = cr
          /\ inst.finalizer = before.finalizer
          /\ R!UpdateReady(inst.status.conds) = before.status.conds
      BY <1>1, <2>1, Parameters, R!QuietPatch DEF Settled, Quiescent, BaseInv
    <2>3. before.status.conds \in R!Conds /\ inst.status.conds \in R!Conds
      BY CondsType DEF BaseInv, TypeOK, ReconcilerType, R!Conds, Status, R!Status
    <2>4. Complete(inst)
      <3>1. ASSUME before.status.conds = NilConditions(CondTypes),
                   inst.status.conds = InitConditions(before.status.conds, Kinds)
            PROVE  FALSE
        BY <2>2, <2>3, <3>1, StatusOK, R!InitPatched, Operators DEF NilConditions, R!NilConditions
      <3> QED BY <2>2, <3>1 DEF WakeInv, PassEnds
    <2>5. inst.spec = cr.spec /\ inst.deleting = cr.deleting /\ inst.finalizer = cr.finalizer
      BY <2>2 DEF BaseInv, R!HeldInv, R!PassObject, R!SameObject
    <2>6. \A k \in Kinds : cr.status.conds[k] = inst.status.conds[k]
      BY <2>2, <2>3, StatusOK, R!ReadyIff DEF CondTypes, Kinds, Objects
    <2>7. cr.status.conds["Ready"] # "Absent"
      BY <2>2, <2>3, StatusOK, R!ReadySet
    <2>8. Complete(cr)
      BY <2>4, <2>5, <2>6 DEF Complete, Refused, StackSeen, MonitorSeen, NodesSeen, TargetsSeen, Kinds, Objects
    <2>9. Complete(cr)'
      BY <1>2, <2>2, <2>8, Zenon DEF Complete, Refused, StackSeen, MonitorSeen, NodesSeen, TargetsSeen
    <2> QED BY <2>2, <2>7, <2>9
  <1> QED BY <1>2, <1>3, Zenon DEF WakeInv, Progress, PassEnds, Objects

LEMMA WakeStep == ASSUME BaseInv, WakeInv, [Next]_vars PROVE WakeInv'
  <1>1. CASE Reconcile \/ PatchStep
    BY <1>1, BeginWake, PatchWake
  <1>2. CASE ReconcileDelete
    <2>1. /\ pc = "delete" /\ pc' = "patch" /\ before' = before /\ inst' = [inst EXCEPT !.finalizer = FALSE]
          /\ UNCHANGED <<watching, watches>>
      BY <1>2 DEF ReconcileDelete, Return
    <2>2. before.finalizer /\ ~inst'.finalizer
      BY <2>1 DEF BaseInv, R!HeldInv, R!PassObject, TypeOK, ReconcilerType, MetricStorage, InstanceType
    <2>3. Progress' /\ PassEnds'
      BY <2>1, <2>2, Zenon DEF Progress, PassEnds, Objects
    <2> QED BY <2>1, <2>3 DEF WakeInv, AtRest, Settled, Quiescent
  <1>3. ASSUME NEW k \in Kinds, EnsureWatches(k) \/ EnsureWatchesFails(k) PROVE WakeInv'
    <2>1. WatchCall(k)
      BY <1>3, WatchCalls DEF BaseInv
    <2>2. watching' = watches' /\ (~queued' => Progress' /\ PassEnds' /\ pc' # "idle")
      <3>1. ~queued' => ~queued
        BY <2>1 DEF WatchCall
      <3>2. watching' = watches'
        BY <2>1, Zenon DEF WatchCall, WakeInv
      <3> QED BY <2>1, <3>1, <3>2, WatchWake DEF WakeInv
    <2> QED BY <2>2 DEF WakeInv, AtRest, Settled, Quiescent
  <1>4. CASE CreateOrPatchStack \/ CreateOrPatchMonitor \/ CreateOrPatchScrapeConfig \/ CallFails
    <2>1. ObjectCall /\ (Failed \/ StackDone \/ MonitorDone \/ ConfigDone)
      BY <1>4, ObjectCalls DEF BaseInv
    <2>2. (queued => queued') /\ UNCHANGED <<watching, watches>>
      BY <2>1 DEF ObjectCall
    <2>3. ~queued' => Progress' /\ PassEnds' /\ pc' # "idle"
      BY <2>1, <2>2, ObjectWake DEF WakeInv
    <2> QED BY <2>2, <2>3 DEF WakeInv, AtRest, Settled, Quiescent
  <1>5. CASE Restart
    BY <1>5 DEF Restart, Restarted, WakeInv, AtRest, Settled, Quiescent
  <1>6. CASE SyncMetricStorage \/ User \/ Outside
    BY <1>6, QuietWake
  <1> QED BY <1>1, <1>2, <1>3, <1>4, <1>5, <1>6, NextCases, Zenon

LEMMA WakeInit == ASSUME Init PROVE WakeInv
  <1>1. pc = "idle" /\ watching = watches /\ ~cr.exists
    BY DEF Init, ReconcilerInit, NoInstance
  <1> QED BY <1>1 DEF WakeInv, Progress, PassEnds, AtRest, Objects

LEMMA Wakeups == Spec => [](BaseInv /\ WakeInv)
  BY InitBase, BaseStep, WakeInit, WakeStep, PTL DEF Spec

\* No wake-up is lost, for every set of definitions that are missing at first
\* and every way in which they are installed, whichever calls fail and whenever
\* the process restarts: an object that changed while the pass went on to the
\* next one is watched by then, and an informer that starts presents what it
\* finds.
THEOREM MetricStorageWakeups == Spec => []NoLostWakeup
  <1>1. WakeInv => NoLostWakeup
    <2> SUFFICES ASSUME WakeInv, Settled, cr.exists PROVE NoLostWakeup
      BY DEF NoLostWakeup
    <2>1. Complete(cr)
      BY DEF WakeInv, AtRest
    <2>2. CASE Refused(cr)
      BY <2>1, <2>2 DEF NoLostWakeup, Complete, Refused, Deployable, Unbuildable
    <2>3. CASE StackSeen(cr) /\ MonitorSeen(cr) /\ TargetsSeen(cr)
      <3>1. ~cr.deleting /\ cr.finalizer /\ ~Unbuildable(cr.spec)
        BY <2>1, <2>3 DEF Complete, StackSeen, Deployable
      <3>2. \E i \in DOMAIN Inventories : SameNodeSets(i, inv) /\ Scrapes(i)
        BY <2>3, Zenon DEF TargetsSeen, Scrapes
      <3>3. /\ obj["MonitoringStack"] # None /\ obj["MonitoringStack"].spec = StackSpec(cr.spec)
            /\ obj["ServiceMonitor"] = ScrapeInterval(cr.spec)
        BY <2>3 DEF StackSeen, MonitorSeen
      <3> QED BY <3>1, <3>2, <3>3, Zenon DEF NoLostWakeup
    <2> QED BY <2>1, <2>2, <2>3 DEF Complete
  <1> QED BY <1>1, Wakeups, PTL

\* The status that is left behind when nothing is pending tells what the stack
\* has reported last, and Ready is neither stale nor computed from another list.
THEOREM StatusWakeups == Spec => []StatusMirrorsStack
  <1>1. BaseInv /\ WakeInv => StatusMirrorsStack
    <2> SUFFICES ASSUME BaseInv, WakeInv, Settled, cr.exists PROVE StatusMirrorsStack
      BY DEF StatusMirrorsStack
    <2> DEFINE conds == cr.status.conds
    <2>1. Complete(cr) /\ conds["Ready"] # "Absent"
      BY DEF WakeInv, AtRest
    <2>2. CASE Refused(cr)
      BY <2>2 DEF Refused, Deployable, StatusMirrorsStack
    <2>3. CASE StackSeen(cr) /\ MonitorSeen(cr) /\ NodesSeen(cr) /\ TargetsSeen(cr)
      <3>1. conds \in R!Conds /\ DOMAIN conds = CondTypes
        BY CondsType DEF BaseInv, TypeOK, ReconcilerType, R!Conds, Status, R!Status
      <3>2. R!UpdateReady(conds) = conds
        <4>1. conds # R!NilConditions(CondTypes)
          BY <2>1 DEF R!NilConditions, CondTypes
        <4> QED BY <4>1 DEF BaseInv, R!LifeInv, R!Stable
      <3>3. conds["Ready"] = "True" <=> R!AllSubConditionIsTrue(conds)
        BY <3>1, <3>2, StatusOK, R!ReadyIff
      <3>4. R!AllSubConditionIsTrue(conds) <=> \A k \in Kinds : conds[k] \in {"Absent", "True"}
        BY <3>1 DEF R!AllSubConditionIsTrue, CondTypes, Kinds, Objects
      <3>5. \A k \in Kinds \ {"MonitoringStack"} : conds[k] = "True"
        BY <2>3 DEF MonitorSeen, NodesSeen, TargetsSeen, Kinds, Objects
      <3>6. obj["MonitoringStack"] \in Stack
        BY <2>3 DEF StackSeen, BaseInv, TypeOK, ObjectsType
      <3>7. obj["MonitoringStack"].health # "none" =>
              /\ conds["MonitoringStack"] = obj["MonitoringStack"].health
              /\ obj["MonitoringStack"].health \in {"False", "True"}
        BY <2>3, <3>6 DEF StackSeen, Stack, Health
      <3>8. obj["MonitoringStack"].health # "none" =>
              (Ready(cr) <=> obj["MonitoringStack"].health = "True")
        BY <3>3, <3>4, <3>5, <3>7 DEF Ready, Kinds, Objects
      <3>9. ~Unset(cr.spec)
        BY <2>3 DEF StackSeen, Deployable
      <3> QED BY <3>7, <3>8, <3>9 DEF StatusMirrorsStack
    <2> QED BY <2>1, <2>2, <2>3 DEF Complete
  <1> QED BY <1>1, Wakeups, PTL

================================================================================
