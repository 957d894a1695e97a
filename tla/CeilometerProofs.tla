--------------------------- MODULE CeilometerProofs ---------------------------
(***************************************************************************)
(* Proofs about CeilometerController, for every value of its constants.    *)
(***************************************************************************)
EXTENDS CeilometerController, TLAPS

R == INSTANCE ReconcilerProofs WITH
  EmptyStatus <- NoStatus, InitList <- CeilometerInitList, ReturnsPatchError <- TRUE,
  Specs <- CeilometerSpec, Statuses <- CeilometerStatus, DeleteSteps <- {"delete"}

(***************************************************************************)
(* What the general facts about reconcilers require                        *)
(***************************************************************************)
LEMMA StatusOK == R!StatusesOK
  <1>1. "Ready" \in CondTypes /\ CeilometerInitList \subseteq CondTypes
        /\ \E t \in CeilometerInitList : t # "Ready"
    BY DEF CondTypes, CeilometerInitList
  <1>2. NoStatus \in CeilometerStatus /\ NoStatus.conds = R!NilConditions(CondTypes)
    BY DEF NoStatus, CeilometerStatus, NilConditions, R!NilConditions, Status
  <1>3. /\ \A s \in CeilometerStatus : s.conds \in R!Conds
        /\ \A s \in CeilometerStatus, c \in R!Conds :
             [s EXCEPT !.conds = c] \in CeilometerStatus /\ [s EXCEPT !.conds = c].conds = c
    BY DEF CeilometerStatus, Status, R!Conds, R!Status
  <1>4. R!MergeOK
    <2> SUFFICES ASSUME NEW a \in CeilometerStatus, NEW b \in CeilometerStatus,
                        NEW c \in CeilometerStatus
                 PROVE  /\ R!Merged(a, b, c) \in CeilometerStatus
                        /\ R!Merged(a, b, c).conds = IF c.conds # b.conds THEN c.conds ELSE a.conds
                        /\ R!Merged(b, b, c) = c
      BY DEF R!MergeOK
    <2>1. ASSUME NEW d \in CeilometerStatus
          PROVE  R!Merged(d, b, c) =
                   [conds |-> IF c.conds # b.conds THEN c.conds ELSE d.conds,
                    hash |-> IF c.hash # b.hash THEN c.hash ELSE d.hash,
                    readyCount |-> IF c.readyCount # b.readyCount THEN c.readyCount
                                   ELSE d.readyCount]
      BY DEF R!Merged, CeilometerStatus
    <2> QED BY <2>1 DEF CeilometerStatus
  <1> QED BY <1>1, <1>2, <1>3, <1>4 DEF R!StatusesOK

LEMMA Parameters == R!ParametersOK
  <1>1. R!StepsOK
    BY DEF R!StepsOK, Steps
  <1> QED BY <1>1, StatusOK, BoundAssumption DEF R!ParametersOK

LEMMA Types == Ceilometer = R!Instances /\ (ReconcilerType <=> R!ReconcilerType)
  <1>1. Ceilometer = R!Instances
    BY DEF Ceilometer, InstanceType, R!Instances, R!InstanceType
  <1> QED BY <1>1 DEF ReconcilerType, R!ReconcilerType

\* The operators of Reconciler are those that the general facts are about.
LEMMA Operators ==
  /\ NoInstance = R!NoInstance
  /\ \A c : UpdateReady(c) = R!UpdateReady(c)
  /\ \A c, l : InitConditions(c, l) = R!InitConditions(c, l)
  /\ Ended = R!Ended
  /\ \A t, s : With(t, s) = R!With(t, s)
  <1>1. \A c, t, s : Mark(c, t, s) = R!Mark(c, t, s)
    BY DEF Mark, R!Mark
  <1>2. \A c : AllSubConditionIsTrue(c) <=> R!AllSubConditionIsTrue(c)
    BY DEF AllSubConditionIsTrue, R!AllSubConditionIsTrue
  <1>3. \A c : Mirror(c) = R!Mirror(c)
    BY Zenon DEF Mirror, R!Mirror
  <1>4. \A c : UpdateReady(c) = R!UpdateReady(c)
    BY <1>1, <1>2, <1>3, Zenon DEF UpdateReady, R!UpdateReady
  <1> QED BY <1>1, <1>4, Zenon
    DEF NoInstance, R!NoInstance, InitConditions, R!InitConditions, Ended, R!Ended, With, R!With

LEMMA Actions ==
  /\ Reconcile => R!BeginStep
  /\ PatchStep => R!EndStep
  /\ Restarted => R!Restarted
  /\ SyncCeilometer => R!SyncCache
  /\ User => R!UserStep
  <1> USE Operators, Zenon
  <1>1. Reconcile => R!BeginStep
    <2>1. NotFound => R!NotFound
      BY DEF NotFound, Fetch, worker, resource, bounds,
             R!NotFound, R!Fetch, R!worker, R!resource, R!bounds
    <2>2. AddFinalizer => R!AddFinalizer
      BY DEF AddFinalizer, Fetch, Begin, resource, bounds,
             R!AddFinalizer, R!Fetch, R!Begin, R!resource, R!bounds
    <2>3. InitStatus => R!InitStatus
      BY DEF InitStatus, Initialized, Fetch, Begin, resource, bounds,
             R!InitStatus, R!Initialized, R!Fetch, R!Begin, R!resource, R!bounds
    <2>4. Dispatch("rbac") => R!Dispatch("rbac")
      BY DEF Dispatch, Initialized, Fetch, Begin, resource, bounds,
             R!Dispatch, R!Initialized, R!Fetch, R!Begin, R!resource, R!bounds
    <2>5. "rbac" \in R!NormalSteps
      BY SMT DEF R!NormalSteps, Steps
    <2> QED BY <2>1, <2>2, <2>3, <2>4, <2>5 DEF Reconcile, R!BeginStep
  <1>2. PatchStep => R!EndStep
    <2>1. \A a, b, c : PatchMetadata(a, b, c) = R!PatchMetadata(a, b, c)
      BY DEF PatchMetadata, R!PatchMetadata
    <2>2. \A a, b, c : PatchStatus(a, b, c) = R!PatchStatus(a, b, c)
      BY DEF PatchStatus, R!PatchStatus
    <2>3. \A a, b, c : PatchInstance(a, b, c) = R!PatchInstance(a, b, c)
      BY <2>1, <2>2 DEF PatchInstance, R!PatchInstance
    <2>4. \A i : Write(i) <=> R!Write(i)
      BY DEF Write, R!Write
    <2>5. Done <=> R!Done
      BY DEF Done, R!Done
    <2>6. Patch => R!Patch
      BY <2>3, <2>4, <2>5 DEF Patch, R!Patch, bounds, R!bounds
    <2>7. PatchFails => R!PatchFails
      BY <2>1, <2>3, <2>4, <2>5 DEF PatchFails, R!PatchFails, Fault, R!Fault
    <2> QED BY <2>6, <2>7 DEF PatchStep, R!EndStep
  <1>3. Restarted => R!Restarted
    BY DEF Restarted, R!Restarted, Done, R!Done
  <1>4. SyncCeilometer => R!SyncCache
    BY DEF SyncCeilometer, SyncCache, R!SyncCache, worker, R!worker, bounds, R!bounds
  <1>5. User => R!UserStep
    <2>1. \A s : UserCreates(s) => R!UserCreates(s)
      BY DEF UserCreates, R!UserCreates, Write, R!Write, worker, R!worker, Disturb, R!Disturb
    <2>2. \A s : UserEdits(s) => R!UserEdits(s)
      BY DEF UserEdits, R!UserEdits, Write, R!Write, worker, R!worker, Disturb, R!Disturb
    <2>3. UserDeletes => R!UserDeletes
      BY DEF UserDeletes, R!UserDeletes, Write, R!Write, worker, R!worker, bounds, R!bounds
    <2> QED BY <2>1, <2>2, <2>3 DEF User, R!UserStep
  <1> QED BY <1>1, <1>2, <1>3, <1>4, <1>5

(***************************************************************************)
(* The instance of the pass                                                *)
(***************************************************************************)
\* The same resource as the one the pass works on, up to its status.
Kept(i) == i \in Ceilometer /\ R!SameObject(i, inst) /\ i.finalizer = inst.finalizer

\* The instance with one condition set.
Marked(i, t, s) ==
  /\ Kept(i)
  /\ i.status.hash = inst.status.hash /\ i.status.readyCount = inst.status.readyCount
  /\ i.status.conds = [inst.status.conds EXCEPT ![t] = s]

LEMMA WithMarks ==
  ASSUME inst \in Ceilometer, NEW t \in CondTypes, NEW s \in Status
  PROVE  Marked(With(t, s), t, s)
  BY DEF With, Mark, Marked, Kept, R!SameObject, Ceilometer, InstanceType, CeilometerStatus

LEMMA InstKept == ASSUME inst \in Ceilometer PROVE Kept(inst)
  BY DEF Kept, R!SameObject

\* RbacConditionsSet leaves alone a list without the condition.
LEMMA RbacMarks ==
  ASSUME inst \in Ceilometer, NEW s \in Status
  PROVE  RbacConditionsSet(s) = inst \/ Marked(RbacConditionsSet(s), "Rbac", s)
  <1>1. "Rbac" \in CondTypes
    BY DEF CondTypes
  <1> QED BY <1>1, WithMarks DEF RbacConditionsSet

LEMMA CountedKept ==
  ASSUME TypeOK
  PROVE  /\ Kept(Counted) /\ Counted.status.hash = inst.status.hash
         /\ Counted.status.readyCount = sts.ready
         /\ Counted.status.conds =
              IF sts.ready > 0 THEN [inst.status.conds EXCEPT !["Deployment"] = "True"]
              ELSE inst.status.conds
  <1> DEFINE i == IF sts.ready > 0 THEN With("Deployment", "True") ELSE inst
  <1>1. inst \in Ceilometer /\ "Deployment" \in CondTypes /\ "True" \in Status
    BY DEF TypeOK, ReconcilerType, CondTypes, Status
  <1>2. /\ Kept(i) /\ i.status.hash = inst.status.hash
        /\ i.status.conds =
             IF sts.ready > 0 THEN [inst.status.conds EXCEPT !["Deployment"] = "True"]
             ELSE inst.status.conds
    BY <1>1, InstKept, WithMarks DEF Marked
  <1>3. Counted = [i EXCEPT !.status.readyCount = sts.ready]
    BY DEF Counted
  <1>4. sts.ready \in {0, 1}
    BY DEF TypeOK, ObjectsType, StatefulSet
  <1> HIDE DEF i
  <1> QED BY <1>2, <1>3, <1>4
    DEF Kept, R!SameObject, Ceilometer, InstanceType, CeilometerStatus

LEMMA OnErrorKept ==
  ASSUME inst \in Ceilometer, NEW step \in Steps
  PROVE  \/ OnError(step) = inst
         \/ \E t \in CondTypes : Marked(OnError(step), t, "False")
  <1>1. /\ {"Rbac", "RabbitMqTransportURL", "Input", "ServiceConfig", "Deployment"} \subseteq CondTypes
        /\ "False" \in Status
    BY DEF CondTypes, Status
  <1>2. \/ OnError(step) = inst \/ OnError(step) = RbacConditionsSet("False")
        \/ \E t \in CondTypes : OnError(step) = With(t, "False")
    BY <1>1 DEF OnError
  <1> QED BY <1>1, <1>2, WithMarks, RbacMarks

(***************************************************************************)
(* Each step is one of those that the general facts are about              *)
(***************************************************************************)
\* A disturbance or a fault keeps the counters in their bounds.
CountsDown ==
  \/ UNCHANGED <<faults, changes>> \/ (Fault /\ UNCHANGED changes)
  \/ (Disturb /\ UNCHANGED faults)

\* The key stays in the queue.
StaysQueued == queued' \in BOOLEAN /\ (queued => queued')

LEMMA CountsKept == ASSUME TypeOK, CountsDown, StaysQueued PROVE R!Counts
  BY BoundAssumption DEF TypeOK, ReconcilerType, Fault, Disturb, CountsDown, StaysQueued, R!Counts

LEMMA PassMoves ==
  ASSUME TypeOK, pc \notin {"idle", "delete", "patch"}, UNCHANGED server, CountsDown, StaysQueued,
         NEW i, Kept(i), NEW step \in Steps \ {"idle", "delete"}, NEW again \in BOOLEAN,
         Continue(step, i) \/ Return(i, again)
  PROVE  R!PassStep
  <1>1. /\ pc' \in {step, "patch"} /\ inst' = i /\ before' = before
        /\ requeue' \in BOOLEAN
    BY DEF Continue, Return, TypeOK, ReconcilerType
  <1>2. pc' \in {"patch"} \cup R!NormalSteps
    BY <1>1 DEF R!NormalSteps, Steps
  <1> QED BY <1>1, <1>2, CountsKept, Types DEF Kept, server, R!PassStep, R!resource

\* What a pass writes.
LEMMA WriteKsType ==
  ASSUME TypeOK, NEW k \in KeystoneService, WriteKs(k)
  PROVE  ks' \in KeystoneService /\ ksView' \in KeystoneService /\ StaysQueued
  <1>1. ks' \in KeystoneService /\ ksView' \in KeystoneService
    BY DEF TypeOK, ObjectsType, WriteKs
  <1> QED BY <1>1, Zenon DEF TypeOK, ReconcilerType, WriteKs, StaysQueued

\* The KeystoneServices that the model writes.
LEMMA KsTypes ==
  ASSUME TypeOK
  PROVE  /\ NoKeystoneService \in KeystoneService /\ DeletedKs \in KeystoneService
         /\ EnsuredKs \in KeystoneService
         /\ \A b \in BOOLEAN : [ks EXCEPT !.finalizer = b] \in KeystoneService
         /\ \A s \in Status : [ks EXCEPT !.ready = s] \in KeystoneService
  BY Zenon DEF TypeOK, ObjectsType, NoKeystoneService, DeletedKs, EnsuredKs, KeystoneService, Status

LEMMA KsUnchanged ==
  ASSUME TypeOK, UNCHANGED <<queued, keystone>>
  PROVE  ks' \in KeystoneService /\ ksView' \in KeystoneService /\ StaysQueued
  BY DEF TypeOK, ReconcilerType, ObjectsType, keystone, StaysQueued

LEMMA UpdateKsType ==
  ASSUME TypeOK, UpdateKs
  PROVE  ks' \in KeystoneService /\ ksView' \in KeystoneService /\ StaysQueued
  <1>1. UNCHANGED <<queued, keystone>> \/ \E k \in KeystoneService : WriteKs(k)
    BY KsTypes, Zenon DEF UpdateKs
  <1> QED BY <1>1, WriteKsType, KsUnchanged

LEMMA CreateOrPatchKsType ==
  ASSUME TypeOK, CreateOrPatchKs
  PROVE  ks' \in KeystoneService /\ ksView' \in KeystoneService /\ StaysQueued
  BY KsTypes, WriteKsType, KsUnchanged DEF CreateOrPatchKs

LEMMA RenderedType ==
  ASSUME TypeOK, inst.spec \in CeilometerSpec, NEW part \in {"central", "compute"}
  PROVE  /\ Rendered(part) \in [central : Content \cup {None}, compute : Content \cup {None}]
         /\ InputHash(got, Rendered(part)) \in Hash
  <1>1. [config |-> inst.spec.config, transport |-> tsecret, password |-> osp] \in Content
    BY DEF TypeOK, ObjectsType, CeilometerSpec, Content
  <1>2. Rendered(part) \in [central : Content \cup {None}, compute : Content \cup {None}]
    BY <1>1 DEF Rendered, TypeOK, ObjectsType
  <1> HIDE DEF Rendered
  <1> QED BY <1>2 DEF TypeOK, ObjectsType, InputHash, Hash

LEMMA StatefulSetType ==
  ASSUME TypeOK, inst.spec \in CeilometerSpec, CreateOrPatchStatefulSet
  PROVE  sts' \in StatefulSet /\ StaysQueued
  <1>1. sts' \in StatefulSet
    BY Zenon DEF TypeOK, ReconcilerType, ObjectsType, CreateOrPatchStatefulSet, StatefulSet,
           Ceilometer, InstanceType, CeilometerStatus, CeilometerSpec
  <1> QED BY <1>1, Zenon DEF TypeOK, ReconcilerType, CreateOrPatchStatefulSet, StaysQueued

\* The resource that a pass works on has a spec.
LEMMA PassSpec == ASSUME R!HeldInv, pc # "idle" PROVE inst.spec \in CeilometerSpec
  BY DEF R!HeldInv, R!PassObject, R!SameObject

LEMMA DeleteStep ==
  ASSUME TypeOK, ReconcileDelete PROVE R!ControllerStep /\ ObjectsType'
  <1>1. ks' \in KeystoneService /\ ksView' \in KeystoneService /\ StaysQueued
    BY UpdateKsType DEF ReconcileDelete
  <1>2. R!Counts
    BY <1>1, CountsKept DEF ReconcileDelete, Call, limits, CountsDown
  <1>3. inst \in R!Instances /\ pc = "delete" /\ UNCHANGED <<cr, cache, event>>
    BY Types DEF TypeOK, ReconcilerType, ReconcileDelete, Call, server
  <1>4. R!PassStep \/ R!ReleaseStep
    <2>1. CASE Return(inst, TRUE)
      BY <1>2, <1>3, <2>1, Zenon DEF Return, R!PassStep, R!SameObject, R!resource
    <2>2. CASE Return([inst EXCEPT !.finalizer = FALSE], FALSE)
      BY <1>2, <1>3, <2>2, Zenon DEF Return, R!ReleaseStep, R!resource
    <2> QED BY <2>1, <2>2, Zenon DEF ReconcileDelete
  <1>5. ObjectsType'
    BY <1>1 DEF ReconcileDelete, TypeOK, ObjectsType
  <1> QED BY <1>4, <1>5 DEF R!ControllerStep

LEMMA SecretSteps ==
  ASSUME TypeOK,
         \/ ReconcileRbac \/ TransportURLCreateOrUpdate \/ GetOspSecret \/ GetTransportSecret
  PROVE  R!PassStep /\ ObjectsType'
  <1>1. inst \in Ceilometer /\ "True" \in Status /\ "False" \in Status
        /\ {"Rbac", "RabbitMqTransportURL", "Input"} \subseteq CondTypes
        /\ queued \in BOOLEAN /\ ObjectsType
    BY DEF TypeOK, ReconcilerType, Status, CondTypes
  <1>2. UNCHANGED server /\ CountsDown
    BY Zenon DEF ReconcileRbac, TransportURLCreateOrUpdate, GetOspSecret, GetTransportSecret, Call,
           limits, CountsDown
  <1>3. CASE ReconcileRbac
    <2>1. Kept(RbacConditionsSet("True"))
      BY <1>1, RbacMarks, InstKept, Zenon DEF Marked
    <2>2. pc = "rbac" /\ Continue("transportURL", RbacConditionsSet("True")) /\ queued' = queued
      BY <1>3 DEF ReconcileRbac, Call
    <2>3. R!PassStep
      BY <1>1, <1>2, <2>1, <2>2, PassMoves DEF Steps, StaysQueued
    <2> QED BY <1>1, <1>3, <2>3 DEF ReconcileRbac, objects, keystone, ObjectsType
  <1>4. CASE TransportURLCreateOrUpdate
    <2>1. /\ Kept(With("RabbitMqTransportURL", "True"))
          /\ Kept(With("RabbitMqTransportURL", "False"))
      BY <1>1, WithMarks, Zenon DEF Marked
    <2>2. turl' \in {"absent", "pending", "ready"} /\ StaysQueued
      BY <1>1, <1>4 DEF TransportURLCreateOrUpdate, CreateTransportURL, ObjectsType, StaysQueued
    <2>3. /\ pc = "transportURL"
          /\ \/ Continue("ospSecret", With("RabbitMqTransportURL", "True"))
             \/ Return(With("RabbitMqTransportURL", "False"), TRUE)
      BY <1>4, Zenon DEF TransportURLCreateOrUpdate, Call
    <2>4. "ospSecret" \in Steps \ {"idle", "delete"} /\ pc \notin {"idle", "delete", "patch"}
      BY <2>3 DEF Steps
    <2>5. R!PassStep
      BY <1>2, <2>1, <2>2, <2>3, <2>4, PassMoves, Zenon
    <2> QED BY <1>1, <1>4, <2>2, <2>5 DEF TransportURLCreateOrUpdate, keystone, ObjectsType
  <1>5. CASE GetOspSecret \/ GetTransportSecret
    <2>1. Kept(With("Input", "True")) /\ Kept(With("Input", "False")) /\ Kept(inst)
      BY <1>1, WithMarks, InstKept, Zenon DEF Marked
    <2>2. /\ pc \in {"ospSecret", "transportSecret"} /\ queued' = queued
          /\ \/ Continue("transportSecret", inst) \/ Continue("central", With("Input", "True"))
             \/ Return(With("Input", "False"), TRUE)
      BY <1>5, Zenon DEF GetOspSecret, GetTransportSecret, GetSecret, Call
    <2>3. R!PassStep
      BY <1>1, <1>2, <2>1, <2>2, PassMoves, Zenon DEF Steps, StaysQueued
    <2>4. got' \in [password : Passwords \cup {None}, transport : TransportURLs \cup {None}]
      BY <1>1, <1>5, Zenon DEF GetOspSecret, GetTransportSecret, GetSecret, ObjectsType
    <2> QED BY <1>1, <1>5, <2>3, <2>4, Zenon
      DEF GetOspSecret, GetTransportSecret, GetSecret, objects, keystone, ObjectsType
  <1> QED BY <1>3, <1>4, <1>5

\* The instance after generateComputeServiceConfig and the hash.
LEMMA HashStep ==
  ASSUME TypeOK, R!HeldInv, GenerateComputeServiceConfig
  PROVE  LET hash == InputHash(got, Rendered("compute"))
         IN  /\ hash \in Hash /\ Kept(inst') /\ before' = before
             /\ inst'.status.readyCount = inst.status.readyCount
             /\ inst'.status.hash = hash
             /\ \/ /\ pc' = "patch" /\ hash # inst.status.hash /\ requeue' = FALSE
                   /\ inst'.status.conds = inst.status.conds
                \/ /\ pc' = "init" /\ hash = inst.status.hash /\ requeue' = requeue
                   /\ inst'.status.conds = [inst.status.conds EXCEPT !["ServiceConfig"] = "True"]
  <1> DEFINE hash == InputHash(got, Rendered("compute"))
  <1>1. inst \in Ceilometer /\ "ServiceConfig" \in CondTypes /\ "True" \in Status
    BY DEF TypeOK, ReconcilerType, CondTypes, Status
  <1>2. hash \in Hash
    BY PassSpec, RenderedType DEF GenerateComputeServiceConfig, Call
  <1>3. \/ hash # inst.status.hash /\ Return([inst EXCEPT !.status.hash = hash], FALSE)
        \/ hash = inst.status.hash /\ Continue("init", With("ServiceConfig", "True"))
    BY Zenon DEF GenerateComputeServiceConfig
  <1> HIDE DEF hash
  <1>4. CASE hash # inst.status.hash /\ Return([inst EXCEPT !.status.hash = hash], FALSE)
    <2>1. inst' = [inst EXCEPT !.status.hash = hash] /\ pc' = "patch" /\ before' = before
          /\ requeue' = FALSE
      BY <1>4 DEF Return
    <2> QED BY <1>1, <1>2, <1>4, <2>1
      DEF hash, Kept, R!SameObject, Ceilometer, InstanceType, CeilometerStatus
  <1>5. CASE hash = inst.status.hash /\ Continue("init", With("ServiceConfig", "True"))
    <2>1. Marked(inst', "ServiceConfig", "True") /\ pc' = "init" /\ before' = before
          /\ requeue' = requeue
      BY <1>1, <1>5, WithMarks DEF Continue
    <2> QED BY <1>2, <1>5, <2>1 DEF hash, Marked
  <1> QED BY <1>3, <1>4, <1>5, Zenon

LEMMA ConfigSteps ==
  ASSUME TypeOK, R!HeldInv, GenerateServiceConfig \/ GenerateComputeServiceConfig
  PROVE  R!PassStep /\ ObjectsType'
  <1>1. inst \in Ceilometer /\ queued \in BOOLEAN /\ requeue \in BOOLEAN /\ ObjectsType
    BY DEF TypeOK, ReconcilerType
  <1>2. UNCHANGED server /\ CountsDown /\ queued' = queued
    BY Zenon DEF GenerateServiceConfig, GenerateComputeServiceConfig, Call, limits, CountsDown
  <1>3. CASE GenerateServiceConfig
    <2>1. pc = "central" /\ Continue("compute", inst) /\ config' = Rendered("central")
      BY <1>3 DEF GenerateServiceConfig, Call
    <2>2. config' \in [central : Content \cup {None}, compute : Content \cup {None}]
      BY <2>1, PassSpec, RenderedType
    <2>3. R!PassStep
      BY <1>1, <1>2, <2>1, InstKept, PassMoves, Zenon DEF Steps, StaysQueued
    <2> QED BY <1>1, <1>3, <2>2, <2>3, Zenon DEF GenerateServiceConfig, keystone, ObjectsType
  <1>4. CASE GenerateComputeServiceConfig
    <2>1. pc = "compute" /\ config' = Rendered("compute")
      BY <1>4 DEF GenerateComputeServiceConfig, Call
    <2>2. config' \in [central : Content \cup {None}, compute : Content \cup {None}]
      BY <2>1, PassSpec, RenderedType
    <2>3. Kept(inst') /\ before' = before /\ pc' \in {"patch", "init"} /\ requeue' \in BOOLEAN
      BY <1>1, <1>4, HashStep, Zenon
    <2>4. R!Counts
      BY <1>1, <1>2, CountsKept, Zenon DEF StaysQueued
    <2>5. R!PassStep
      BY <1>2, <2>1, <2>3, <2>4, Types
         DEF Kept, server, R!PassStep, R!resource, R!NormalSteps, Steps
    <2> QED BY <1>1, <1>4, <2>2, <2>5, Zenon
      DEF GenerateComputeServiceConfig, keystone, ObjectsType
  <1> QED BY <1>3, <1>4

\* The instance after reconcileInit has looked at the KeystoneService.
LEMMA ObserveStep ==
  ASSUME inst \in Ceilometer, NEW k \in KeystoneService, ObserveKs(k)
  PROVE  /\ before' = before
         /\ \/ inst' = inst /\ k.ready = "Absent"
            \/ Marked(inst', "KeystoneService", k.ready) /\ k.ready # "Absent"
         /\ \/ pc' = "statefulset" /\ requeue' = requeue
            \/ pc' = "patch" /\ requeue' = TRUE
  <1> DEFINE i == IF k.ready = "Absent" THEN inst ELSE With("KeystoneService", k.ready)
  <1>1. \/ Continue("statefulset", i) \/ Return(i, TRUE)
    BY Zenon DEF ObserveKs
  <1>2. "KeystoneService" \in CondTypes /\ k.ready \in Status
    BY DEF CondTypes, KeystoneService
  <1>3. \/ i = inst /\ k.ready = "Absent"
        \/ Marked(i, "KeystoneService", k.ready) /\ k.ready # "Absent"
    BY <1>2, WithMarks
  <1> HIDE DEF i
  <1> QED BY <1>1, <1>3 DEF Continue, Return

LEMMA InitStep == ASSUME TypeOK, ReconcileInit PROVE R!PassStep /\ ObjectsType'
  <1>1. inst \in Ceilometer /\ requeue \in BOOLEAN /\ ksView \in KeystoneService /\ ObjectsType
    BY DEF TypeOK, ReconcilerType, ObjectsType
  <1>2. ks' \in KeystoneService /\ ksView' \in KeystoneService /\ StaysQueued
    BY CreateOrPatchKsType, KsUnchanged, Zenon DEF ReconcileInit
  <1>3. /\ Kept(inst') /\ before' = before /\ pc' \in {"patch", "statefulset"}
        /\ requeue' \in BOOLEAN
    <2>1. CASE Return(inst, TRUE)
      BY <1>1, <2>1, InstKept DEF Return
    <2>2. CASE \E k \in KeystoneService : ObserveKs(k)
      BY <1>1, <2>2, ObserveStep, InstKept, Zenon DEF Marked
    <2> QED BY <1>1, <2>1, <2>2, KsTypes, Zenon DEF ReconcileInit
  <1>4. R!Counts
    BY <1>2, CountsKept DEF ReconcileInit, Call, limits, CountsDown
  <1>5. R!PassStep
    BY <1>3, <1>4, Types
       DEF ReconcileInit, Call, Kept, server, R!PassStep, R!resource, R!NormalSteps, Steps
  <1> QED BY <1>1, <1>2, <1>5 DEF ReconcileInit, ObjectsType

LEMMA StatefulSetStep ==
  ASSUME TypeOK, R!HeldInv, ReconcileStatefulSet PROVE R!PassStep /\ ObjectsType'
  <1>1. pc = "statefulset" /\ UNCHANGED server /\ CountsDown
    BY Zenon DEF ReconcileStatefulSet, CountsDown
  <1>2. sts' \in StatefulSet /\ StaysQueued
    BY <1>1, PassSpec, StatefulSetType DEF ReconcileStatefulSet
  <1>3. \E again \in BOOLEAN : Return(Counted, again)
    BY Zenon DEF ReconcileStatefulSet
  <1>4. R!PassStep
    BY <1>1, <1>2, <1>3, CountedKept, PassMoves DEF Steps
  <1> QED BY <1>2, <1>4 DEF ReconcileStatefulSet, TypeOK, ObjectsType, keystone

LEMMA FailStep ==
  ASSUME TypeOK, R!HeldInv, CallFails PROVE R!PassStep /\ ObjectsType'
  <1>1. /\ inst \in Ceilometer /\ ObjectsType /\ pc \in Steps \ {"idle", "patch"}
        /\ UNCHANGED <<server, got>> /\ CountsDown /\ Return(OnError(pc), TRUE)
    BY Zenon DEF TypeOK, ReconcilerType, CallFails, CountsDown
  <1>2. Kept(OnError(pc)) /\ (pc = "delete" => OnError(pc) = inst)
    <2>1. Kept(OnError(pc))
      BY <1>1, InstKept, OnErrorKept, Zenon DEF Marked
    <2> QED BY <2>1 DEF OnError
  <1>3. ObjectsType' /\ StaysQueued
    <2>1. CASE UNCHANGED <<queued, objects>>
      BY <1>1, <2>1, KsUnchanged DEF objects, keystone, ObjectsType
    <2>2. CASE UpdateKs /\ UNCHANGED <<turl, tsecret, osp, config, sts>>
      BY <1>1, <2>2, UpdateKsType DEF ObjectsType
    <2>3. CASE CreateTransportURL /\ UNCHANGED <<tsecret, osp, config, keystone, sts>>
      BY <1>1, <2>3, Zenon
         DEF CreateTransportURL, ObjectsType, keystone, TypeOK, ReconcilerType, StaysQueued
    <2>4. CASE /\ pc \in {"central", "compute"} /\ config' = Rendered(pc)
               /\ UNCHANGED <<queued, turl, tsecret, osp, keystone, sts>>
      <3>1. Rendered(pc) \in [central : Content \cup {None}, compute : Content \cup {None}]
        BY <1>1, <2>4, PassSpec, RenderedType
      <3> QED BY <1>1, <2>4, <3>1, KsUnchanged DEF keystone, ObjectsType
    <2>5. CASE CreateOrPatchKs /\ UNCHANGED <<turl, tsecret, osp, config, sts>>
      BY <1>1, <2>5, CreateOrPatchKsType DEF ObjectsType
    <2>6. CASE CreateOrPatchStatefulSet /\ UNCHANGED <<turl, tsecret, osp, config, keystone>>
      BY <1>1, <2>6, PassSpec, StatefulSetType DEF keystone, ObjectsType
    <2> QED BY <2>1, <2>2, <2>3, <2>4, <2>5, <2>6 DEF CallFails
  <1>4. R!Counts
    BY <1>1, <1>3, CountsKept
  <1>5. R!PassStep
    BY <1>1, <1>2, <1>4, Types
       DEF Return, Kept, server, R!PassStep, R!resource, R!NormalSteps
  <1> QED BY <1>3, <1>5

LEMMA WorkSteps ==
  ASSUME TypeOK, R!HeldInv, Work \/ CallFails PROVE R!ControllerStep /\ ObjectsType'
  <1>1. CASE Reconcile \/ PatchStep
    <2>1. R!BeginStep \/ R!EndStep
      BY <1>1, Actions
    <2>2. ObjectsType'
      BY <1>1 DEF Reconcile, PatchStep, objects, keystone, TypeOK, ObjectsType, NoGot
    <2> QED BY <2>1, <2>2 DEF R!ControllerStep
  <1>2. CASE ~(Reconcile \/ PatchStep)
    BY <1>2, DeleteStep, SecretSteps, ConfigSteps, InitStep, StatefulSetStep, FailStep
       DEF Work, R!ControllerStep
  <1> QED BY <1>1, <1>2

\* What happens to other objects while the worker does nothing.
LEMMA OutsideSteps ==
  ASSUME TypeOK,
         \/ SyncKs \/ ResyncCeilometer
         \/ TransportURLProvided \/ OspSecretProvided \/ KsRegistered \/ PodsReady
         \/ TransportURLChanged \/ OspSecretChanged \/ KsDisturbed \/ PodsLost
         \/ GarbageCollect \/ GarbageCollectKs \/ UNCHANGED vars
  PROVE  R!OutsideStep /\ ObjectsType'
  <1>1. queued \in BOOLEAN /\ ObjectsType
    BY DEF TypeOK, ReconcilerType
  <1>2. ASSUME UNCHANGED <<server, pass>>, StaysQueued, CountsDown PROVE R!OutsideStep
    BY <1>2, CountsKept DEF server, pass, R!OutsideStep, R!resource, R!worker
  <1>3. CASE SyncKs \/ ResyncCeilometer \/ UNCHANGED vars
    <2>1. UNCHANGED <<server, pass>> /\ StaysQueued /\ CountsDown
      BY <1>1, <1>3, Zenon DEF SyncKs, ResyncCeilometer, Resync, resource, worker, bounds, vars, server,
                        pass, limits, StaysQueued, CountsDown
    <2> QED BY <1>1, <1>2, <1>3, <2>1
      DEF SyncKs, ResyncCeilometer, objects, keystone, vars, ObjectsType
  <1>4. CASE \/ TransportURLProvided \/ TransportURLChanged
             \/ OspSecretProvided \/ OspSecretChanged
    <2>1. UNCHANGED <<server, pass>> /\ CountsDown
      BY <1>4 DEF TransportURLProvided, TransportURLChanged, OspSecretProvided, OspSecretChanged,
                  limits, CountsDown
    <2>2. StaysQueued
      BY <1>1, <1>4, Zenon DEF TransportURLProvided, TransportURLChanged, OspSecretProvided,
                               OspSecretChanged, StaysQueued
    <2>3. ObjectsType'
      BY <1>1, <1>4 DEF TransportURLProvided, TransportURLChanged, OspSecretProvided,
                        OspSecretChanged, keystone, ObjectsType
    <2> QED BY <1>2, <2>1, <2>2, <2>3
  <1>5. CASE KsRegistered \/ KsDisturbed \/ GarbageCollectKs
    <2>1. /\ UNCHANGED <<server, pass, got, turl, tsecret, osp, config, sts>> /\ CountsDown
          /\ \E k \in KeystoneService : WriteKs(k)
      BY <1>5, KsTypes DEF KsRegistered, KsDisturbed, GarbageCollectKs, limits, CountsDown, Status
    <2> QED BY <1>1, <1>2, <2>1, WriteKsType DEF ObjectsType
  <1>6. CASE PodsReady \/ PodsLost \/ GarbageCollect
    <2>1. UNCHANGED <<server, pass>> /\ StaysQueued /\ CountsDown
      BY <1>6, Zenon DEF PodsReady, PodsLost, GarbageCollect, Pods, limits, StaysQueued, CountsDown
    <2>2. sts' \in StatefulSet
      BY <1>1, <1>6 DEF PodsReady, PodsLost, GarbageCollect, Pods, ObjectsType, StatefulSet,
                        NoStatefulSet
    <2> QED BY <1>1, <1>2, <1>6, <2>1, <2>2
      DEF PodsReady, PodsLost, GarbageCollect, Pods, NoConfig, keystone, ObjectsType
  <1> QED BY <1>3, <1>4, <1>5, <1>6

LEMMA Step ==
  ASSUME TypeOK, R!HeldInv, [Next]_vars PROVE R!ControllerStep /\ ObjectsType'
  <1> USE DEF R!ControllerStep
  <1>1. CASE Panic \/ Restart
    <2>1. Restarted /\ CountsDown /\ StaysQueued
      BY <1>1, Zenon DEF Panic, Restart, Restarted, limits, CountsDown, StaysQueued
    <2>2. R!RestartStep
      BY <2>1, CountsKept, Actions DEF R!RestartStep
    <2> QED BY <1>1, <2>2 DEF Panic, Restart, TypeOK, ObjectsType, NoGot
  <1>2. CASE SyncCeilometer \/ User
    <2>1. R!SyncCache \/ R!UserStep
      BY <1>2, Actions
    <2> QED BY <1>2, <2>1 DEF SyncCeilometer, User, objects, keystone, TypeOK, ObjectsType
  <1>3. CASE ~(Panic \/ Restart \/ SyncCeilometer \/ User)
    BY <1>3, WorkSteps, OutsideSteps DEF Next
  <1> QED BY <1>1, <1>2, <1>3

\* The types, and what holds of the resource for every reconciler.
BaseInv == TypeOK /\ R!HeldInv /\ R!LifeInv /\ R!FreshInv

LEMMA InitBase == ASSUME Init PROVE R!ReconcilerInit /\ BaseInv
  <1>1. R!ReconcilerInit
    BY Operators DEF Init, ReconcilerInit, R!ReconcilerInit
  <1>2. R!ReconcilerType
    BY <1>1, Parameters, R!InitType DEF Init
  <1>3. R!HeldInv /\ R!LifeInv /\ R!FreshInv
    BY <1>1, Parameters, R!HeldInit, R!LifeInit, R!FreshInit
  <1>4. ObjectsType
    BY DEF Init, ObjectsType, NoGot, NoConfig, NoKeystoneService, KeystoneService, NoStatefulSet,
           StatefulSet, Status
  <1> QED BY <1>1, <1>2, <1>3, <1>4, Types DEF BaseInv, TypeOK

LEMMA BaseStep == ASSUME BaseInv, [Next]_vars PROVE R!ControllerStep /\ BaseInv'
  <1>1. R!ReconcilerType
    BY Types DEF BaseInv, TypeOK
  <1>2. R!ControllerStep /\ ObjectsType'
    BY Step DEF BaseInv
  <1>3. R!ReconcilerType' /\ R!HeldInv' /\ R!LifeInv' /\ R!FreshInv'
    BY <1>1, <1>2, Parameters, R!StepType, R!HeldStep, R!LifeStep, R!FreshStep DEF BaseInv
  <1>4. ReconcilerType'
    BY <1>3, Types DEF ReconcilerType, R!ReconcilerType
  <1> QED BY <1>2, <1>3, <1>4 DEF BaseInv, TypeOK

\* TypeOK holds: in particular the configurations and the hashes only ever hold
\* what the code renders, although a pass reads the spec, the secrets and the
\* KeystoneService at different times.
THEOREM TypeCorrect == Spec => []TypeOK
  <1>1. BaseInv => TypeOK
    BY DEF BaseInv
  <1> QED BY <1>1, InitBase, BaseStep, PTL DEF Spec

\* The resource goes through the life of a service as its Telemetry expects it.
THEOREM LifecycleImplemented == Spec => ImplementsLifecycle
  <1>1. ASSUME Init PROVE Lifecycle!Init
    BY <1>1, InitBase, Parameters, R!LifecycleInit, Zenon
       DEF Lifecycle!Init, R!Lifecycle!Init, Ready, R!Ready
  <1>2. ASSUME BaseInv, [Next]_vars PROVE [Lifecycle!Next]_(Lifecycle!vars)
    <2>1. R!ReconcilerType /\ R!ControllerStep
      BY <1>2, Types, BaseStep DEF BaseInv, TypeOK
    <2>2. [R!Lifecycle!Next]_(R!Lifecycle!vars)
      BY <1>2, <2>1, Parameters, R!LifecycleStep DEF BaseInv
    <2> QED BY <2>2, Zenon DEF Lifecycle!Next, Lifecycle!vars, Lifecycle!Create, Lifecycle!Delete,
                        Lifecycle!Report, Lifecycle!Release, Ready, R!Ready,
                        R!Lifecycle!Next, R!Lifecycle!vars, R!Lifecycle!Create,
                        R!Lifecycle!Delete, R!Lifecycle!Report, R!Lifecycle!Release
  <1> QED BY <1>1, <1>2, InitBase, BaseStep, PTL DEF Spec, ImplementsLifecycle, Lifecycle!Spec

(***************************************************************************)
(* The finalizer on the KeystoneService, as long as its cache is current   *)
(***************************************************************************)
KsInv ==
  /\ ksView = ks
  /\ KeystoneFinalizerReleased
  /\ R!Releasing => ~ks.finalizer

\* The actions that leave the KeystoneService alone.
LEMMA KsLeftAlone ==
  ASSUME [Next]_vars, ~UNCHANGED keystone
  PROVE  \/ ReconcileDelete \/ ReconcileInit \/ CallFails \/ KsRegistered \/ KsDisturbed
         \/ GarbageCollectKs \/ Panic \/ Restart \/ SyncKs
  <1> USE DEF objects
  <1>1. CASE Work
    BY <1>1, Zenon
       DEF Work, Reconcile, PatchStep, ReconcileRbac, TransportURLCreateOrUpdate, GetOspSecret,
           GetTransportSecret, GetSecret, GenerateServiceConfig, GenerateComputeServiceConfig,
           ReconcileStatefulSet
  <1>2. CASE ~Work
    BY <1>2, Zenon
       DEF Next, SyncCeilometer, ResyncCeilometer, User, TransportURLProvided, OspSecretProvided,
           PodsReady, TransportURLChanged, OspSecretChanged, PodsLost, Pods, GarbageCollect, vars
  <1> QED BY <1>1, <1>2

\* What is written to the KeystoneService.
LEMMA KsWritten ==
  ASSUME TypeOK, KsLag = FALSE, ksView = ks, [Next]_vars
  PROVE  ksView' = ks' /\ (ks'.finalizer => ks.finalizer \/ pc = "init")
  <1> USE DEF WriteKs, keystone
  <1>1. ks \in KeystoneService /\ ~NoKeystoneService.finalizer
    BY DEF TypeOK, ObjectsType, NoKeystoneService
  <1>2. CASE ReconcileInit
    BY <1>2, Zenon DEF ReconcileInit, CreateOrPatchKs, Call
  <1>3. CASE UpdateKs
    BY <1>1, <1>3, Zenon DEF UpdateKs, KeystoneService
  <1>4. CASE CallFails
    <2>1. UNCHANGED keystone \/ UpdateKs \/ (pc = "init" /\ CreateOrPatchKs)
      BY <1>4 DEF CallFails, objects
    <2> QED BY <1>3, <2>1 DEF CreateOrPatchKs
  <1>5. CASE KsRegistered \/ KsDisturbed \/ GarbageCollectKs
    BY <1>1, <1>5 DEF KsRegistered, KsDisturbed, GarbageCollectKs, DeletedKs, KeystoneService
  <1>6. CASE Panic \/ Restart \/ SyncKs
    BY <1>6 DEF Panic, Restart, SyncKs
  <1>7. CASE UNCHANGED keystone
    BY <1>7
  <1> QED BY <1>2, <1>3, <1>4, <1>5, <1>6, <1>7, KsLeftAlone, Zenon DEF ReconcileDelete

\* The finalizer of the resource goes after the one of the KeystoneService.
LEMMA KsReleased ==
  ASSUME TypeOK, R!HeldInv, KsLag = FALSE, ksView = ks, [Next]_vars, R!ReleaseStep
  PROVE  ~ks'.finalizer
  <1>1. pc = "delete" /\ pc' = "patch" /\ inst \in Ceilometer /\ ks \in KeystoneService
        /\ inst' = [inst EXCEPT !.finalizer = FALSE]
    BY DEF R!ReleaseStep, TypeOK, ReconcilerType, ObjectsType
  <1>2. inst.finalizer /\ ~inst'.finalizer
    BY <1>1 DEF R!HeldInv, R!PassObject, Ceilometer, InstanceType
  <1>3. ~CallFails
    BY <1>1, <1>2, Zenon DEF CallFails, Return, OnError
  <1>4. Work
    BY <1>1, <1>3, Zenon
       DEF Next, Panic, Restart, Restarted, Done, SyncCeilometer, SyncCache, worker, ResyncCeilometer,
           Resync, SyncKs, User, UserCreates, UserEdits, UserDeletes, TransportURLProvided,
           OspSecretProvided, KsRegistered, PodsReady, TransportURLChanged, OspSecretChanged,
           KsDisturbed, PodsLost, Pods, GarbageCollect, GarbageCollectKs, vars, pass
  <1>5. UpdateKs
    BY <1>1, <1>4
       DEF Work, Reconcile, NotFound, AddFinalizer, InitStatus, Dispatch, Fetch, PatchStep, Patch,
           PatchFails, ReconcileDelete, ReconcileRbac, TransportURLCreateOrUpdate, GetOspSecret,
           GetTransportSecret, GenerateServiceConfig, GenerateComputeServiceConfig,
           ReconcileInit, ReconcileStatefulSet, Call
  <1> QED BY <1>1, <1>5 DEF UpdateKs, WriteKs, keystone, KeystoneService, NoKeystoneService

LEMMA KsStep ==
  ASSUME BaseInv, KsInv, KsLag = FALSE, [Next]_vars PROVE KsInv'
  <1>1. TypeOK /\ R!ReconcilerType /\ R!HeldInv /\ R!ControllerStep /\ ksView = ks
    BY Types, BaseStep DEF BaseInv, TypeOK, KsInv
  <1>2. ksView' = ks' /\ (ks'.finalizer => ks.finalizer \/ pc = "init")
    BY <1>1, KsWritten, Zenon
  <1>3. pc = "init" => cr.exists /\ cr.finalizer /\ ~R!Releasing
    BY <1>1 DEF R!HeldInv, R!PassObject, R!PassHeld, R!NormalSteps, Steps, R!Releasing
  <1>4. R!Releasing' => ~ks'.finalizer
    <2>1. CASE R!ReleaseStep
      BY <1>1, <2>1, KsReleased, Zenon
    <2>2. CASE R!Releasing
      BY <1>2, <1>3, <2>2 DEF KsInv
    <2> QED BY <1>1, <2>1, <2>2, Parameters, R!ReleasingStep
  <1>5. ks'.finalizer => cr'.exists /\ cr'.finalizer
    <2> SUFFICES ASSUME ks'.finalizer PROVE cr'.exists /\ cr'.finalizer
      OBVIOUS
    <2>1. cr.exists /\ cr.finalizer
      BY <1>2, <1>3 DEF KsInv, KeystoneFinalizerReleased
    <2>2. ~R!Releasing
      BY <1>2, <1>3 DEF KsInv
    <2> QED BY <1>1, <2>1, <2>2, Parameters, R!FinalizerKept
  <1> QED BY <1>2, <1>4, <1>5 DEF KsInv, KeystoneFinalizerReleased

LEMMA KsInit == ASSUME Init PROVE KsInv
  BY DEF Init, ReconcilerInit, NoKeystoneService, KsInv, KeystoneFinalizerReleased, R!Releasing

\* As long as the KeystoneService carries the finalizer of the Ceilometer, there
\* is a Ceilometer to remove it: whatever calls fail, however stale the cached
\* Ceilometer is, and when the process is restarted or the resource created
\* again under the same name, if the cache of the KeystoneService is current.
THEOREM FinalizerReleased ==
  ASSUME KsLag = FALSE PROVE Spec => []KeystoneFinalizerReleased
  <1>1. KsInv => KeystoneFinalizerReleased
    BY DEF KsInv
  <1>2. ASSUME BaseInv, KsInv, [Next]_vars PROVE KsInv'
    BY <1>2, KsStep, Zenon
  <1> QED BY <1>1, <1>2, KsInit, InitBase, BaseStep, PTL DEF Spec


(***************************************************************************)
(* Wake-ups                                                                *)
(***************************************************************************)
\* The conditions show what the cache has of the KeystoneService, unless this
\* lags behind the finalizer that a pass has put there.
KsSeen(conds) ==
  \/ ks.finalizer /\ ~ksView.finalizer
  \/ ksView.ready # "Absent" => conds["KeystoneService"] = ksView.ready

\* What is rendered for a part of the Ceilometer is that of the resource, and
\* of the transport URL if its secret is watched.
Current(i, part) ==
  /\ config[part].config = i.spec.config
  /\ CrName = ServiceName => config[part].transport = tsecret

\* The hash on record is the one of everything as it is.
Hashed(i) ==
  /\ i.status.hash = InputHash(got, config)
  /\ Current(i, "central") /\ Current(i, "compute")

RolledOut(i) ==
  /\ i.finalizer /\ ~i.deleting
  /\ sts.image = i.spec.image
  /\ sts.hash = i.status.hash /\ sts.hash # None
  /\ sts.hash.central = config.central /\ sts.hash.compute = config.compute
  /\ Current(i, "central") /\ Current(i, "compute")
  /\ CrName = ServiceName => sts.hash.transport = tsecret
  /\ i.status.readyCount = sts.ready
  /\ KsSeen(i.status.conds)

\* How far the pass has come, if nothing has happened that starts another one.
Progress ==
  /\ pc \notin {"idle", "delete", "patch"} => inst.status.hash = before.status.hash
  /\ pc \in {"central", "compute", "init", "statefulset"} =>
       (CrName = ServiceName => got.transport = tsecret)
  /\ pc = "compute" => Current(inst, "central")
  /\ pc \in {"init", "statefulset"} => Hashed(inst)
  /\ pc = "statefulset" => KsSeen(inst.status.conds)

\* Why a pass may end without a requeue.
PassEnds ==
  pc = "patch" /\ ~requeue =>
    \/ inst.finalizer # before.finalizer
    \/ /\ before.status.conds = NilConditions(CondTypes)
       /\ inst.status.conds = InitConditions(before.status.conds, CeilometerInitList)
    \/ inst.status.hash # before.status.hash
    \/ RolledOut(inst)

AtRest == Quiescent /\ cr.exists => RolledOut(cr) /\ cr.status.conds["Ready"] # "Absent"

WakeInv ==
  /\ KsLag = FALSE => ksView = ks
  /\ ~queued => Progress /\ PassEnds
  /\ AtRest

\* What happens while the worker does nothing.
Quiet ==
  /\ UNCHANGED <<pass, got>> /\ (queued => queued')
  /\ cr' # cr => event'
  /\ event => event' \/ queued'
  /\ ~queued' => UNCHANGED <<config, sts, ksView>>
  /\ ~queued' /\ TransportURLSecretFn => tsecret' = tsecret
  /\ ~queued' /\ ks.finalizer => ks'.finalizer
  /\ KsLag = FALSE => ksView' = ks'

\* A write of the KeystoneService that the queue does not notice.
LEMMA KsQuiet ==
  ASSUME TypeOK, KsLag = FALSE => ksView = ks, NEW k, WriteKs(k), ~queued'
  PROVE  ksView' = ksView /\ (KsLag = FALSE => ksView' = ks')
  BY FlagAssumption, Zenon DEF WriteKs

LEMMA QuietSteps ==
  ASSUME BaseInv, WakeInv,
         \/ SyncCeilometer \/ SyncKs \/ ResyncCeilometer \/ User
         \/ TransportURLProvided \/ OspSecretProvided \/ KsRegistered \/ PodsReady
         \/ TransportURLChanged \/ OspSecretChanged \/ KsDisturbed \/ PodsLost
         \/ GarbageCollect \/ GarbageCollectKs \/ UNCHANGED vars
  PROVE  Quiet
  <1> USE DEF Quiet
  <1>1. TypeOK /\ (KsLag = FALSE => ksView = ks)
    BY DEF BaseInv, WakeInv
  <1>2. CASE SyncCeilometer
    BY <1>1, <1>2 DEF SyncCeilometer, SyncCache, worker, objects, keystone, pass
  <1>3. CASE User
    <2>1. R!ReconcilerType /\ R!UserStep
      BY <1>3, <1>1, Types, Actions DEF TypeOK
    <2>2. UNCHANGED <<queued, pc, before, inst, requeue>> /\ (event => event') /\ (cr' # cr => event')
      BY <2>1, Parameters, R!UserEffect
    <2> QED BY <1>1, <1>3, <2>2 DEF User, objects, keystone, pass
  <1>4. CASE SyncKs \/ ResyncCeilometer \/ UNCHANGED vars
    BY <1>1, <1>4 DEF SyncKs, ResyncCeilometer, Resync, resource, worker, objects, keystone,
                      server, pass, vars
  <1>5. CASE TransportURLProvided \/ TransportURLChanged
    <2>1. UNCHANGED <<cr, event, pass, got, config, sts, ks, ksView>>
      BY <1>5 DEF TransportURLProvided, TransportURLChanged, keystone, server
    <2>2. (queued => queued') /\ (TransportURLSecretFn => queued')
      BY <1>5, Zenon DEF TransportURLProvided, TransportURLChanged
    <2> QED BY <1>1, <2>1, <2>2
  <1>6. CASE OspSecretProvided \/ OspSecretChanged
    BY <1>1, <1>6 DEF OspSecretProvided, OspSecretChanged, keystone, server
  <1>7. CASE PodsReady \/ PodsLost \/ GarbageCollect
    BY <1>1, <1>7 DEF PodsReady, PodsLost, Pods, GarbageCollect, keystone, server
  <1>8. CASE KsRegistered \/ KsDisturbed \/ GarbageCollectKs
    <2>1. /\ UNCHANGED <<cr, cache, event, pass, got, tsecret, config, sts>>
          /\ \E k \in KeystoneService : WriteKs(k) /\ (ks.finalizer => k.finalizer)
      BY <1>1, <1>8, KsTypes
         DEF KsRegistered, KsDisturbed, GarbageCollectKs, DeletedKs, server, TypeOK, ObjectsType,
             KeystoneService, Status
    <2>2. (queued => queued') /\ (ks.finalizer => ks'.finalizer) /\ (KsLag = FALSE => ksView' = ks')
      BY <1>1, <2>1, Zenon DEF WriteKs
    <2>3. ~queued' => ksView' = ksView
      BY <1>1, <2>1, KsQuiet, Zenon
    <2> QED BY <2>1, <2>2, <2>3
  <1> QED BY <1>2, <1>3, <1>4, <1>5, <1>6, <1>7, <1>8, Zenon

\* Nothing of this goes unnoticed that a pass, or the resource, relies on.
LEMMA QuietWake == ASSUME BaseInv, WakeInv, Quiet PROVE WakeInv'
  <1> USE DEF Quiet, pass, Current, KsSeen
  <1>1. KsLag = FALSE => ksView' = ks'
    OBVIOUS
  <1>2. ASSUME ~queued', pc # "idle" PROVE tsecret' = tsecret \/ CrName # ServiceName
    <2>1. before = cache /\ before.exists
      BY <1>2 DEF BaseInv, R!FreshInv, R!HeldInv, R!PassObject
    <2> QED BY <1>2, <2>1 DEF TransportURLSecretFn
  <1>3. ~queued' => Progress'
    <2> SUFFICES ASSUME ~queued' PROVE Progress'
      OBVIOUS
    <2>1. Progress
      BY DEF WakeInv
    <2>2. Hashed(inst) /\ pc # "idle" => Hashed(inst)'
      BY <1>2 DEF Hashed
    <2> QED BY <1>2, <2>1, <2>2 DEF Progress
  <1>4. ~queued' => PassEnds'
    <2> SUFFICES ASSUME ~queued', pc = "patch", RolledOut(inst) PROVE RolledOut(inst)'
      BY DEF WakeInv, PassEnds
    <2> QED BY <1>2 DEF RolledOut
  <1>5. AtRest'
    <2> SUFFICES ASSUME Quiescent', cr'.exists
                 PROVE  RolledOut(cr)' /\ cr'.status.conds["Ready"] # "Absent"
      BY DEF AtRest
    <2>1. Quiescent /\ cr' = cr /\ ~queued'
      BY DEF Quiescent
    <2>2. RolledOut(cr) /\ cr.status.conds["Ready"] # "Absent"
      BY <2>1 DEF WakeInv, AtRest
    <2>3. tsecret' = tsecret \/ CrName # ServiceName
      BY <2>1 DEF TransportURLSecretFn, Quiescent, BaseInv, R!FreshInv
    <2> QED BY <2>1, <2>2, <2>3 DEF RolledOut
  <1> QED BY <1>1, <1>3, <1>4, <1>5 DEF WakeInv

(***************************************************************************)
(* The pass                                                                *)
(***************************************************************************)
LEMMA DuringPass ==
  ASSUME BaseInv, WakeInv, [Next]_vars, pc' # "idle", ~queued' => Progress' /\ PassEnds'
  PROVE  WakeInv'
  <1>1. ASSUME KsLag = FALSE PROVE ksView' = ks'
    BY <1>1, KsWritten, Zenon DEF BaseInv, WakeInv
  <1> QED BY <1>1, Zenon DEF WakeInv, AtRest, Quiescent

\* A pass that fails asks for another one.
LEMMA Requeues == ASSUME pc' = "patch", requeue' PROVE Progress' /\ PassEnds'
  BY DEF Progress, PassEnds

LEMMA BeginWake == ASSUME BaseInv, WakeInv, Reconcile PROVE WakeInv'
  <1>1. R!ReconcilerType /\ R!BeginStep /\ [Next]_vars
    BY Types, Actions DEF BaseInv, TypeOK, Next, Work
  <1>2. CASE pc' = "idle"
    <2>1. cr' = cr /\ event' = event /\ ~cache.exists
      BY <1>1, <1>2, Parameters, R!BeginType DEF R!NormalSteps, Steps
    <2>2. ~(Quiescent' /\ cr'.exists)
      BY <2>1 DEF Quiescent, BaseInv, R!FreshInv
    <2>3. UNCHANGED keystone
      BY DEF Reconcile, objects
    <2> QED BY <1>2, <2>2, <2>3 DEF WakeInv, Progress, PassEnds, AtRest, keystone
  <1>3. CASE pc' # "idle"
    <2> SUFFICES Progress' /\ PassEnds'
      BY <1>1, <1>3, DuringPass
    <2>1. ~NotFound
      BY <1>3 DEF NotFound, Fetch, worker
    <2>2. CASE AddFinalizer
      <3>1. pc' = "patch" /\ ~before'.finalizer /\ inst'.finalizer
        BY <2>2 DEF AddFinalizer, Begin, BaseInv, TypeOK, ReconcilerType, Ceilometer, InstanceType
      <3> QED BY <3>1, Zenon DEF Progress, PassEnds
    <2>3. CASE InitStatus
      <3>1. /\ pc' = "patch" /\ before' = cache
            /\ inst' = [cache EXCEPT !.status.conds =
                          InitConditions(cache.status.conds, CeilometerInitList)]
            /\ cache.status.conds = NilConditions(CondTypes)
        BY <2>3 DEF InitStatus, Begin, NoStatus
      <3>2. inst'.status.conds = InitConditions(cache.status.conds, CeilometerInitList)
        BY <3>1 DEF BaseInv, TypeOK, ReconcilerType, Ceilometer, InstanceType, CeilometerStatus
      <3> QED BY <3>1, <3>2 DEF Progress, PassEnds
    <2>4. CASE Dispatch("rbac")
      <3>1. pc' \in {"delete", "rbac"} /\ inst' = before'
        BY <2>4 DEF Dispatch, Begin
      <3> QED BY <3>1 DEF Progress, PassEnds
    <2> QED BY <2>1, <2>2, <2>3, <2>4 DEF Reconcile
  <1> QED BY <1>2, <1>3

LEMMA DeleteWake == ASSUME BaseInv, ReconcileDelete PROVE Progress' /\ PassEnds'
  <1>1. pc = "delete" /\ pc' = "patch" /\ before' = before /\ inst \in Ceilometer
        /\ (requeue' \/ inst' = [inst EXCEPT !.finalizer = FALSE])
    BY DEF ReconcileDelete, Call, Return, BaseInv, TypeOK, ReconcilerType
  <1>2. before.finalizer
    BY <1>1 DEF BaseInv, R!HeldInv, R!PassObject
  <1>3. requeue' \/ ~inst'.finalizer
    BY <1>1 DEF Ceilometer, InstanceType
  <1> QED BY <1>1, <1>2, <1>3, Zenon DEF Progress, PassEnds

LEMMA SecretsWake ==
  ASSUME BaseInv, WakeInv, ~queued',
         \/ ReconcileRbac \/ TransportURLCreateOrUpdate \/ GetOspSecret \/ GetTransportSecret
         \/ GenerateServiceConfig
  PROVE  Progress' /\ PassEnds'
  <1>1. inst \in Ceilometer /\ "True" \in Status /\ {"RabbitMqTransportURL", "Input"} \subseteq CondTypes
        /\ ObjectsType
    BY DEF BaseInv, TypeOK, ReconcilerType, Status, CondTypes
  <1>2. \A t \in {"RabbitMqTransportURL", "Input"} : With(t, "True").status.hash = inst.status.hash
    BY <1>1, WithMarks, Zenon DEF Marked
  <1>3. RbacConditionsSet("True").status.hash = inst.status.hash
    BY <1>1, RbacMarks, Zenon DEF Marked
  <1>4. ~queued /\ Progress
    BY Zenon DEF WakeInv, BaseInv, TypeOK, ReconcilerType, ReconcileRbac, TransportURLCreateOrUpdate,
           CreateTransportURL, GetOspSecret, GetTransportSecret, GetSecret, GenerateServiceConfig
  <1>5. CASE pc' = "patch" /\ requeue'
    BY <1>5, Requeues
  <1>6. CASE ReconcileRbac \/ TransportURLCreateOrUpdate \/ GetOspSecret
    <2>1. /\ \/ pc' = "patch" /\ requeue'
             \/ pc' \in {"transportURL", "ospSecret", "transportSecret"}
                  /\ inst'.status.hash = inst.status.hash
          /\ before' = before /\ pc \in {"rbac", "transportURL", "ospSecret"}
      BY <1>2, <1>3, <1>6 DEF ReconcileRbac, TransportURLCreateOrUpdate, GetOspSecret, GetSecret,
                              Call, Continue, Return
    <2> QED BY <1>4, <1>5, <2>1 DEF Progress, PassEnds
  <1>7. CASE GetTransportSecret
    <2>1. \/ pc' = "patch" /\ requeue'
          \/ pc' = "central" /\ inst'.status.hash = inst.status.hash
               /\ got' = [got EXCEPT !["transport"] = tsecret]
      BY <1>2, <1>7 DEF GetTransportSecret, GetSecret, Continue, Return
    <2>2. before' = before /\ pc = "transportSecret" /\ tsecret' = tsecret
      BY <1>7 DEF GetTransportSecret, GetSecret, Call, Continue, Return, objects
    <2>3. pc' = "central" => got'.transport = tsecret'
      BY <1>1, <2>1, <2>2 DEF ObjectsType
    <2> QED BY <1>4, <1>5, <2>1, <2>2, <2>3 DEF Progress, PassEnds
  <1>8. CASE GenerateServiceConfig
    <2>1. /\ pc = "central" /\ pc' = "compute" /\ inst' = inst /\ before' = before
          /\ config' = Rendered("central") /\ UNCHANGED <<got, tsecret>>
      BY <1>8 DEF GenerateServiceConfig, Call, Continue
    <2>2. Current(inst, "central")'
      BY <1>1, <2>1 DEF Current, Rendered, ObjectsType
    <2> QED BY <1>4, <2>1, <2>2 DEF Progress, PassEnds
  <1> QED BY <1>6, <1>7, <1>8

LEMMA ComputeWake ==
  ASSUME BaseInv, WakeInv, ~queued', GenerateComputeServiceConfig PROVE Progress' /\ PassEnds'
  <1> DEFINE hash == InputHash(got, Rendered("compute"))
  <1>1. /\ pc = "compute" /\ config' = Rendered("compute") /\ UNCHANGED <<got, tsecret>>
        /\ ObjectsType /\ Progress
    BY DEF GenerateComputeServiceConfig, Call, BaseInv, TypeOK, WakeInv
  <1>2. /\ before' = before /\ inst'.spec = inst.spec /\ inst'.status.hash = hash
        /\ \/ pc' = "patch" /\ hash # inst.status.hash
           \/ pc' = "init" /\ hash = inst.status.hash
    BY HashStep, Zenon DEF BaseInv, Kept, R!SameObject
  <1> HIDE DEF hash
  <1>3. CASE pc' = "patch"
    BY <1>1, <1>2, <1>3 DEF Progress, PassEnds
  <1>4. CASE pc' = "init"
    <2>1. Current(inst, "central")' /\ Current(inst, "compute")'
      BY <1>1, <1>2 DEF Progress, Current, Rendered, ObjectsType
    <2>2. inst'.status.hash = InputHash(got', config')
      BY <1>1, <1>2 DEF hash
    <2>3. inst'.status.hash = before'.status.hash
      BY <1>1, <1>2, <1>4 DEF Progress
    <2> QED BY <1>1, <1>4, <2>1, <2>2, <2>3 DEF Progress, PassEnds, Hashed
  <1> QED BY <1>2, <1>3, <1>4

LEMMA ObserveSeen ==
  ASSUME inst \in Ceilometer, NEW k \in KeystoneService, ObserveKs(k)
  PROVE  /\ before' = before /\ inst'.spec = inst.spec /\ inst'.status.hash = inst.status.hash
         /\ k.ready # "Absent" => inst'.status.conds["KeystoneService"] = k.ready
         /\ pc' = "statefulset" \/ (pc' = "patch" /\ requeue')
  <1>1. "KeystoneService" \in CondTypes /\ inst.status.conds \in [CondTypes -> Status]
    BY DEF CondTypes, Ceilometer, InstanceType, CeilometerStatus
  <1> QED BY <1>1, ObserveStep, Zenon DEF Marked, Kept, R!SameObject

\* reconcileInit shows the KeystoneService as it is in the cache, or the cache
\* lags behind the finalizer.
LEMMA InitWake ==
  ASSUME BaseInv, WakeInv, ~queued', ReconcileInit PROVE Progress' /\ PassEnds'
  <1>1. /\ pc = "init" /\ UNCHANGED <<got, tsecret, config>> /\ inst \in Ceilometer
        /\ ks \in KeystoneService /\ ksView \in KeystoneService /\ EnsuredKs \in KeystoneService
    BY KsTypes DEF ReconcileInit, Call, BaseInv, TypeOK, ReconcilerType, ObjectsType
  <1>2. ~queued /\ Progress
    BY Zenon DEF ReconcileInit, CreateOrPatchKs, WriteKs, WakeInv
  <1>3. ASSUME NEW k \in KeystoneService, ObserveKs(k),
               \/ ks'.finalizer /\ ~ksView'.finalizer
               \/ ksView'.ready = k.ready
        PROVE  Progress' /\ PassEnds'
    <2>1. /\ before' = before /\ inst'.spec = inst.spec /\ inst'.status.hash = inst.status.hash
          /\ k.ready # "Absent" => inst'.status.conds["KeystoneService"] = k.ready
          /\ pc' = "statefulset" \/ (pc' = "patch" /\ requeue')
      BY <1>1, <1>3, ObserveSeen
    <2>2. KsSeen(inst.status.conds)'
      BY <1>3, <2>1 DEF KsSeen
    <2>3. Hashed(inst)'
      BY <1>1, <1>2, <2>1 DEF Progress, Hashed, Current
    <2> QED BY <1>1, <1>2, <2>1, <2>2, <2>3, Requeues DEF Progress, PassEnds
  <1>4. CASE Return(inst, TRUE)
    BY <1>4, Requeues DEF Return
  <1>5. CASE CreateOrPatchKs /\ KsUpToDate /\ ObserveKs(ksView)
    <2>1. ksView' = ksView
      BY <1>5 DEF CreateOrPatchKs, keystone
    <2> QED BY <1>1, <1>3, <1>5, <2>1
  <1>6. CASE WriteKs(EnsuredKs) /\ ~KsUpToDate /\ ObserveKs(EnsuredKs)
    <2>1. EnsuredKs.finalizer
      BY <1>1 DEF EnsuredKs, KeystoneService
    <2>2. \/ ks'.finalizer /\ ~ksView'.finalizer
          \/ ksView' = EnsuredKs
      BY <1>6, <2>1 DEF WriteKs, KsUpToDate
    <2> QED BY <1>1, <1>3, <1>6, <2>2
  <1> QED BY <1>4, <1>5, <1>6, Zenon DEF ReconcileInit, CreateOrPatchKs

\* The StatefulSet is the last of it.
LEMMA StatefulSetWake ==
  ASSUME BaseInv, WakeInv, ~queued', ReconcileStatefulSet PROVE Progress' /\ PassEnds'
  <1>1. /\ pc = "statefulset" /\ pc' = "patch" /\ before' = before /\ inst' = Counted
        /\ UNCHANGED <<tsecret, config, ks, ksView>>
        /\ sts' = [sts EXCEPT !.hash = inst.status.hash, !.image = inst.spec.image]
    BY DEF ReconcileStatefulSet, CreateOrPatchStatefulSet, Return, keystone
  <1>2. Hashed(inst) /\ KsSeen(inst.status.conds)
    BY <1>1, Zenon DEF ReconcileStatefulSet, CreateOrPatchStatefulSet, WakeInv, Progress
  <1>3. before.finalizer /\ ~before.deleting /\ R!SameObject(inst, before)
        /\ inst.finalizer = before.finalizer
    BY <1>1 DEF BaseInv, R!HeldInv, R!PassObject, R!NormalSteps, Steps
  <1>4. /\ Kept(inst') /\ inst'.status.hash = inst.status.hash
        /\ inst'.status.readyCount = sts.ready
        /\ inst'.status.conds["KeystoneService"] = inst.status.conds["KeystoneService"]
    <2>1. inst.status.conds \in [CondTypes -> Status] /\ "KeystoneService" \in CondTypes
      BY DEF BaseInv, TypeOK, ReconcilerType, Ceilometer, InstanceType, CeilometerStatus, CondTypes
    <2> QED BY <1>1, <2>1, CountedKept DEF BaseInv
  <1>5. /\ sts'.hash = inst.status.hash /\ sts'.image = inst.spec.image /\ sts'.ready = sts.ready
    BY <1>1 DEF BaseInv, TypeOK, ObjectsType, StatefulSet
  <1>6. /\ inst.status.hash # None /\ inst.status.hash.transport = got.transport
        /\ inst.status.hash.central = config.central /\ inst.status.hash.compute = config.compute
    <2>1. InputHash(got, config) \in Hash
      BY DEF BaseInv, TypeOK, ObjectsType, InputHash, Hash
    <2> QED BY <1>2, <2>1, HashAssumption DEF Hashed, InputHash
  <1>7. CrName = ServiceName => got.transport = tsecret
    BY <1>1, Zenon DEF ReconcileStatefulSet, CreateOrPatchStatefulSet, WakeInv, Progress
  <1>8. inst'.spec = inst.spec /\ inst'.finalizer /\ ~inst'.deleting
    BY <1>3, <1>4 DEF Kept, R!SameObject
  <1>9. Current(inst, "central")' /\ Current(inst, "compute")' /\ KsSeen(inst.status.conds)'
    BY <1>1, <1>2, <1>4, <1>8 DEF Hashed, Current, KsSeen
  <1>10. RolledOut(inst)'
    BY <1>1, <1>4, <1>5, <1>6, <1>7, <1>8, <1>9 DEF RolledOut
  <1> QED BY <1>1, <1>10 DEF Progress, PassEnds

\* A patch after which nothing is pending changes nothing, so that the pass has
\* found everything as it should be.
LEMMA PatchWake == ASSUME BaseInv, WakeInv, PatchStep PROVE WakeInv'
  <1>1. R!ReconcilerType /\ R!EndStep
    BY Types, Actions DEF BaseInv, TypeOK
  <1>2. pc' = "idle" /\ UNCHANGED <<tsecret, config, sts, ks, ksView>>
    BY <1>1, Parameters, R!EndEffect DEF PatchStep, objects, keystone
  <1>3. AtRest'
    <2> SUFFICES ASSUME Quiescent', cr'.exists
                 PROVE  RolledOut(cr)' /\ cr'.status.conds["Ready"] # "Absent"
      BY DEF AtRest
    <2>1. R!Patch
      BY <1>1, Zenon DEF R!EndStep, R!PatchFails, Quiescent
    <2>2. /\ pc = "patch" /\ ~queued /\ ~requeue
          /\ before = cr /\ cr' = cr
          /\ inst.finalizer = before.finalizer
          /\ R!UpdateReady(inst.status.conds) = before.status.conds
          /\ [inst.status EXCEPT !.conds = R!UpdateReady(inst.status.conds)] = before.status
      BY <1>1, <2>1, Parameters, R!QuietPatch DEF Quiescent, BaseInv
    <2>3. before.status.conds \in R!Conds /\ inst.status.conds \in R!Conds
          /\ inst.status \in CeilometerStatus
      BY DEF BaseInv, TypeOK, ReconcilerType, Ceilometer, InstanceType, CeilometerStatus, R!Conds,
             Status, R!Status
    <2>4. inst.status.hash = before.status.hash /\ inst.status.readyCount = before.status.readyCount
      BY <2>2, <2>3 DEF CeilometerStatus
    <2>5. RolledOut(inst)
      <3>1. ASSUME before.status.conds = NilConditions(CondTypes),
                   inst.status.conds = InitConditions(before.status.conds, CeilometerInitList)
            PROVE  FALSE
        BY <2>2, <2>3, <3>1, StatusOK, R!InitPatched, Operators DEF NilConditions, R!NilConditions
      <3> QED BY <2>2, <2>4, <3>1 DEF WakeInv, PassEnds
    <2>6. inst.spec = cr.spec /\ inst.deleting = cr.deleting /\ inst.finalizer = cr.finalizer
      BY <2>2 DEF BaseInv, R!HeldInv, R!PassObject, R!SameObject
    <2>7. cr.status.conds["KeystoneService"] = inst.status.conds["KeystoneService"]
      BY <2>2, <2>3, StatusOK, R!ReadyIff DEF CondTypes
    <2>8. cr.status.conds["Ready"] # "Absent"
      BY <2>2, <2>3, StatusOK, R!ReadySet
    <2>9. RolledOut(cr)'
      BY <1>2, <2>2, <2>4, <2>5, <2>6, <2>7, Zenon DEF RolledOut, Current, KsSeen
    <2> QED BY <2>2, <2>8, <2>9
  <1> QED BY <1>2, <1>3 DEF WakeInv, Progress, PassEnds

LEMMA WakeStep == ASSUME BaseInv, WakeInv, [Next]_vars PROVE WakeInv'
  <1>1. CASE Reconcile \/ PatchStep
    BY <1>1, BeginWake, PatchWake
  <1>2. CASE Work /\ ~(Reconcile \/ PatchStep)
    <2>1. ~queued' => Progress' /\ PassEnds'
      BY <1>2, DeleteWake, SecretsWake, ComputeWake, InitWake, StatefulSetWake DEF Work
    <2>2. pc' # "idle"
      BY <1>2, SMTT(20) DEF Work, ReconcileDelete, ReconcileRbac, TransportURLCreateOrUpdate, GetOspSecret,
                  GetTransportSecret, GetSecret, GenerateServiceConfig, GenerateComputeServiceConfig,
                  ReconcileInit, ObserveKs, ReconcileStatefulSet, Continue, Return
    <2> QED BY <2>1, <2>2, DuringPass
  <1>3. CASE CallFails
    <2>1. pc' = "patch" /\ requeue'
      BY <1>3 DEF CallFails, Return
    <2> QED BY <2>1, Requeues, DuringPass
  <1>4. CASE Panic \/ Restart
    BY <1>4 DEF Panic, Restart, Restarted, Done, WakeInv, Progress, PassEnds, AtRest, Quiescent
  <1>5. CASE ~(Work \/ CallFails \/ Panic \/ Restart)
    BY <1>5, QuietSteps, QuietWake DEF Next
  <1> QED BY <1>1, <1>2, <1>3, <1>4, <1>5

LEMMA WakeInit == ASSUME Init PROVE WakeInv
  BY DEF Init, ReconcilerInit, NoInstance, WakeInv, Progress, PassEnds, AtRest

LEMMA Wakeups == Spec => [](BaseInv /\ WakeInv)
  BY InitBase, BaseStep, WakeInit, WakeStep, PTL DEF Spec

\* No wake-up is lost, whether or not the caches lag, however the deliveries,
\* failed calls, failed patches and restarts interleave with the passes.
THEOREM CeilometerWakeups == Spec => []NoLostWakeup
  <1>1. WakeInv => NoLostWakeup
    <2> SUFFICES ASSUME WakeInv, Settled, cr.exists PROVE NoLostWakeup
      BY DEF NoLostWakeup
    <2>1. RolledOut(cr) /\ cr.status.conds["Ready"] # "Absent"
      BY DEF WakeInv, AtRest, Settled
    <2> QED BY <2>1 DEF RolledOut, Current, NoLostWakeup
  <1> QED BY <1>1, Wakeups, PTL

\* A rotated transport URL reaches the configurations and restarts the pods, if
\* the resource has the name that transportURLSecretFn looks for.
THEOREM TransportURLWakeups ==
  ASSUME CrName = ServiceName PROVE Spec => []TransportURLRolledOut
  <1>1. WakeInv => TransportURLRolledOut
    <2> SUFFICES ASSUME WakeInv, Settled, cr.exists PROVE TransportURLRolledOut
      BY DEF TransportURLRolledOut
    <2>1. RolledOut(cr)
      BY DEF WakeInv, AtRest, Settled
    <2> QED BY <2>1 DEF RolledOut, Current, TransportURLRolledOut
  <1> QED BY <1>1, Wakeups, PTL

\* The status that is left behind is not a stale one, even if the cache of the
\* KeystoneService lagged behind while the pass read it.
THEOREM StatusWakeups == Spec => []StatusIsCurrent
  <1>1. WakeInv => StatusIsCurrent
    <2> SUFFICES ASSUME WakeInv, Settled, cr.exists PROVE StatusIsCurrent
      BY DEF StatusIsCurrent
    <2>1. RolledOut(cr)
      BY DEF WakeInv, AtRest, Settled
    <2> QED BY <2>1 DEF RolledOut, KsSeen, Settled, StatusIsCurrent
  <1> QED BY <1>1, Wakeups, PTL

(***************************************************************************)
(* Ready comes after the rollout, as long as the cache of the              *)
(* KeystoneService is current and a patch of the metadata carries no       *)
(* status                                                                  *)
(***************************************************************************)
\* A list of conditions that is nil or has been initialized.
Listed(conds) ==
  conds = NilConditions(CondTypes) \/ \A t \in CeilometerInitList : conds[t] # "Absent"

\* The conditions that stand for what the handler does one after the other.
Milestones == {"ServiceConfig", "KeystoneService", "Deployment"}

\* Each of them is True only with what it stands for.
Evidence(status) ==
  /\ status.conds["ServiceConfig"] = "True" => status.hash # None
  /\ status.conds["KeystoneService"] = "True" => ks.finalizer
  /\ status.conds["Deployment"] = "True" => sts.hash # None

Held(i) == i.exists /\ i.finalizer /\ ~i.deleting

EvidenceInv ==
  /\ Listed(cr.status.conds) /\ Listed(cache.status.conds)
  /\ Held(cr) => Evidence(cr.status)
  /\ Held(cache) => Evidence(cache.status) /\ (cache.status.hash # None => cr.status.hash # None)
  /\ cr.exists /\ ~cr.finalizer => \A t \in Milestones : cr.status.conds[t] # "True"

EvidencePass ==
  pc # "idle" =>
    /\ Listed(before.status.conds) /\ Listed(inst.status.conds)
    /\ inst.status.conds # NilConditions(CondTypes) \/ R!Adding
    /\ Held(before) =>
         /\ Evidence(inst.status)
         /\ inst.status.hash # before.status.hash => inst.status.hash # None
         /\ before.status.hash # None => cr.status.hash # None
    /\ pc \in {"init", "statefulset"} => inst.status.hash # None

ReadyInv == EvidenceInv /\ EvidencePass

\* Only reconcileDelete takes the finalizer from the KeystoneService.
LEMMA KsFinalizerKept ==
  ASSUME TypeOK, [Next]_vars, ks.finalizer, ~ks'.finalizer
  PROVE  pc = "delete" /\ (ReconcileDelete \/ CallFails)
  <1> USE DEF WriteKs, keystone
  <1>1. ks \in KeystoneService /\ EnsuredKs.finalizer
    BY DEF TypeOK, ObjectsType, EnsuredKs, KeystoneService
  <1>2. CASE ReconcileInit
    <2>1. UNCHANGED keystone \/ CreateOrPatchKs
      BY <1>2, Zenon DEF ReconcileInit
    <2> QED BY <1>1, <2>1 DEF CreateOrPatchKs
  <1>3. CASE CallFails
    <2>1. UNCHANGED keystone \/ pc = "delete" \/ CreateOrPatchKs
      BY <1>3, Zenon DEF CallFails, objects
    <2> QED BY <1>1, <1>3, <2>1 DEF CreateOrPatchKs
  <1>4. CASE KsRegistered \/ KsDisturbed \/ GarbageCollectKs
    BY <1>1, <1>4 DEF KsRegistered, KsDisturbed, GarbageCollectKs, DeletedKs, KeystoneService
  <1>5. CASE Panic \/ Restart \/ SyncKs
    BY <1>5 DEF Panic, Restart, SyncKs
  <1>6. CASE ReconcileDelete
    BY <1>6, Zenon DEF ReconcileDelete, Call
  <1> QED BY <1>2, <1>3, <1>4, <1>5, <1>6, KsLeftAlone

\* The StatefulSet stays until the resource is gone.
LEMMA StatefulSetKept ==
  ASSUME TypeOK, [Next]_vars, sts.hash # None, sts'.hash = None,
         pc = "statefulset" => inst.status.hash # None
  PROVE  GarbageCollect
  <1> USE DEF objects
  <1>1. sts \in StatefulSet
    BY DEF TypeOK, ObjectsType
  <1>2. CASE ReconcileStatefulSet \/ CallFails
    <2>1. UNCHANGED sts \/ (pc = "statefulset" /\ CreateOrPatchStatefulSet)
      BY <1>2, Zenon DEF ReconcileStatefulSet, CallFails
    <2> QED BY <1>1, <2>1, Zenon DEF CreateOrPatchStatefulSet, StatefulSet
  <1>3. CASE PodsReady \/ PodsLost
    BY <1>1, <1>3 DEF PodsReady, PodsLost, Pods, StatefulSet
  <1>4. CASE Work /\ ~ReconcileStatefulSet
    BY <1>4, Zenon
       DEF Work, Reconcile, PatchStep, ReconcileDelete, ReconcileRbac, TransportURLCreateOrUpdate,
           GetOspSecret, GetTransportSecret, GetSecret, GenerateServiceConfig,
           GenerateComputeServiceConfig, ReconcileInit
  <1>5. CASE ~Work /\ ~GarbageCollect /\ ~CallFails /\ ~PodsReady /\ ~PodsLost
    BY <1>5, Zenon
       DEF Next, Panic, Restart, SyncCeilometer, SyncKs, ResyncCeilometer, User,
           TransportURLProvided, OspSecretProvided, KsRegistered, TransportURLChanged,
           OspSecretChanged, KsDisturbed, GarbageCollectKs, vars
  <1> QED BY <1>2, <1>3, <1>4, <1>5

\* Nothing that a resource in use relies on goes away.
LEMMA EvidenceKept ==
  ASSUME BaseInv, ReadyInv, [Next]_vars,
         Held(cr') \/ Held(cache') \/ (pc' # "idle" /\ Held(before'))
  PROVE  (ks.finalizer => ks'.finalizer) /\ (sts.hash # None => sts'.hash # None)
  <1>1. TypeOK /\ R!HeldInv /\ (pc = "statefulset" => inst.status.hash # None)
    BY DEF BaseInv, ReadyInv, EvidencePass
  <1>2. ASSUME ks.finalizer, ~ks'.finalizer PROVE FALSE
    <2>1. pc = "delete" /\ (ReconcileDelete \/ CallFails)
      BY <1>1, <1>2, KsFinalizerKept
    <2>2. UNCHANGED <<cr, cache, before>>
      BY <2>1 DEF ReconcileDelete, CallFails, Call, Return, server
    <2>3. before.deleting /\ (cr.finalizer => cr.deleting) /\ (cache.finalizer => cache.deleting)
      BY <1>1, <2>1 DEF R!HeldInv, R!PassObject, R!PassHeld
    <2> QED BY <2>2, <2>3 DEF Held
  <1>3. ASSUME sts.hash # None, sts'.hash = None PROVE FALSE
    <2>1. GarbageCollect
      BY <1>1, <1>3, StatefulSetKept
    <2>2. UNCHANGED <<cr, cache, pc, before>> /\ ~cr.exists
      BY <2>1 DEF GarbageCollect, server, pass
    <2> QED BY <1>1, <2>2 DEF R!HeldInv, R!CacheHeld, R!PassHeld, Held
  <1> QED BY <1>2, <1>3

\* The lists that a pass may leave behind.
LEMMA NilMilestones ==
  /\ \A t \in CondTypes : NilConditions(CondTypes)[t] = "Absent"
  /\ Milestones \subseteq CondTypes \ {"Ready"} /\ Milestones \subseteq CeilometerInitList
  /\ CeilometerInitList \subseteq CondTypes \ {"Ready"}
  BY DEF NilConditions, Milestones, CondTypes, CeilometerInitList

LEMMA InitializedList ==
  ASSUME NEW c \in [CondTypes -> Status]
  PROVE  \A t \in CeilometerInitList : InitConditions(c, CeilometerInitList)[t] = "Unknown"
  BY DEF InitConditions, CeilometerInitList, CondTypes

\* Recomputing Ready leaves the other conditions alone.
LEMMA EndedList ==
  ASSUME TypeOK
  PROVE  \A t \in CondTypes \ {"Ready"} : R!UpdateReady(inst.status.conds)[t] = inst.status.conds[t]
  <1>1. inst.status.conds \in R!Conds
    BY DEF TypeOK, ReconcilerType, Ceilometer, InstanceType, CeilometerStatus, R!Conds, Status,
           R!Status
  <1> QED BY <1>1, StatusOK, R!ReadyIff

\* The status after a patch.
LEMMA PatchedStatus ==
  ASSUME BaseInv, PatchStep, cr'.exists
  PROVE  LET conds == R!UpdateReady(inst.status.conds)
         IN  \/ cr'.status = cr.status
             \/ /\ cr'.status.conds =
                     IF conds # before.status.conds THEN conds ELSE cr.status.conds
                /\ cr'.status.hash =
                     IF inst.status.hash # before.status.hash THEN inst.status.hash
                     ELSE cr.status.hash
  <1>1. R!ReconcilerType /\ R!EndStep /\ TypeOK
    BY Types, Actions DEF BaseInv, TypeOK
  <1>2. /\ R!Ended \in R!Instances
        /\ R!Ended.status = [inst.status EXCEPT !.conds = R!UpdateReady(inst.status.conds)]
        /\ R!Ended.status.conds = R!UpdateReady(inst.status.conds)
    BY <1>1, StatusOK, R!EndedType DEF R!ReconcilerType
  <1>3. cr' = cr \/ R!PatchEffect(cr, before, R!Ended, cr')
    BY <1>1, Parameters, R!EndEffect
  <1>4. ~R!NoInstance.exists
    BY DEF R!NoInstance
  <1>5. \/ cr'.status = cr.status
        \/ cr'.status = R!Merged(cr.status, before.status, R!Ended.status)
    BY <1>3, <1>4 DEF R!PatchEffect
  <1>6. /\ cr.status \in CeilometerStatus /\ before.status \in CeilometerStatus
        /\ inst.status \in CeilometerStatus /\ R!Ended.status \in CeilometerStatus
    BY <1>1, <1>2, Types, Zenon DEF TypeOK, ReconcilerType, Ceilometer, InstanceType
  <1>7. R!Ended.status.hash = inst.status.hash
    BY <1>2, <1>6 DEF CeilometerStatus
  <1>8. R!Merged(cr.status, before.status, R!Ended.status).conds =
          IF R!Ended.status.conds # before.status.conds THEN R!Ended.status.conds ELSE cr.status.conds
    BY <1>6, StatusOK, R!MergedConds
  <1>9. R!Merged(cr.status, before.status, R!Ended.status).hash =
          IF R!Ended.status.hash # before.status.hash THEN R!Ended.status.hash ELSE cr.status.hash
    BY <1>6 DEF R!Merged, CeilometerStatus
  <1> QED BY <1>2, <1>5, <1>7, <1>8, <1>9, Zenon

\* A patch that adds or removes the finalizer carries no condition along.
LEMMA MetadataEvidence ==
  ASSUME StatusWithMetadata = FALSE, BaseInv, BaseInv', ReadyInv, PatchStep, cr'.exists,
         inst.finalizer # before.finalizer
  PROVE  EvidenceInv'
  <1>1. /\ TypeOK /\ R!ReconcilerType /\ R!EndStep /\ R!HeldInv /\ R!HeldInv'
        /\ UNCHANGED <<cache, ks, sts>>
    BY Types, Actions DEF BaseInv, PatchStep, objects, keystone, Patch, PatchFails, Write, TypeOK
  <1>2. cr'.status = cr.status
    BY <1>1, Parameters, R!MetadataOnly, Zenon
  <1>3. /\ pc = "patch" /\ (cr' = cr \/ R!PatchEffect(cr, before, R!Ended, cr'))
    BY <1>1, Parameters, R!EndEffect
  <1>4. cr.exists /\ cr'.deleting = cr.deleting
    BY <1>3 DEF R!PatchEffect, R!NoInstance
  <1>5. ~cr'.finalizer => ~cr.finalizer
    <2> SUFFICES ASSUME cr.finalizer, ~cr'.finalizer PROVE FALSE
      OBVIOUS
    <2>1. R!Releasing
      BY <1>1, <1>4, Parameters, R!FinalizerKept DEF R!ControllerStep
    <2>2. cr.deleting
      BY <1>1, <1>3, <2>1 DEF R!HeldInv, R!PassObject, R!PassHeld
    <2> QED BY <1>1, <1>4, <2>2 DEF R!HeldInv, R!DeletingIsHeld
  <1>6. EvidenceInv
    BY DEF ReadyInv
  <1>7. (Held(cr) => Evidence(cr.status))'
    BY <1>1, <1>2, <1>4, <1>6 DEF EvidenceInv, Evidence, Held, Milestones
  <1> QED BY <1>1, <1>2, <1>4, <1>5, <1>6, <1>7 DEF EvidenceInv, Evidence, Held, Listed

\* The pass of a deletion carries nothing that the resource in use relies on.
LEMMA DeleteEvidence ==
  ASSUME BaseInv, BaseInv', ReadyInv, PatchStep, cr'.exists,
         inst.finalizer = before.finalizer, before.deleting
  PROVE  EvidenceInv'
  <1>1. /\ TypeOK /\ R!ReconcilerType /\ R!EndStep /\ R!HeldInv /\ R!LifeInv
        /\ UNCHANGED <<cache, ks, sts>>
    BY Types, Actions DEF BaseInv, PatchStep, objects, keystone, Patch, PatchFails, Write, TypeOK
  <1>2. /\ pc = "patch" /\ (cr' = cr \/ R!PatchEffect(cr, before, R!Ended, cr'))
    BY <1>1, Parameters, R!EndEffect
  <1>3. R!Ended.finalizer = inst.finalizer
    BY <1>1, StatusOK, R!EndedType DEF R!ReconcilerType
  <1>4. cr.exists /\ cr'.deleting = cr.deleting /\ cr'.finalizer = cr.finalizer
    BY <1>2, <1>3 DEF R!PatchEffect, R!PatchedFinalizer, R!NoInstance
  <1>5. ~Held(cr') /\ ~Held(cache)
    BY <1>1, <1>2, <1>4 DEF R!HeldInv, R!PassHeld, Held
  <1> DEFINE conds == R!UpdateReady(inst.status.conds)
  <1>6. /\ cr'.status.conds \in {cr.status.conds, conds}
        /\ conds = before.status.conds => cr'.status.conds = cr.status.conds
    BY PatchedStatus, Zenon
  <1>7. \/ conds = before.status.conds
        \/ \A t \in CeilometerInitList : conds[t] = "Unknown"
    <2>1. CASE inst.status = before.status /\ before.status.conds # NilConditions(CondTypes)
      BY <1>1, <1>2, <2>1 DEF R!LifeInv, R!Stable, R!NilConditions, NilConditions
    <2>2. CASE inst.status.conds = R!InitConditions(before.status.conds, CeilometerInitList)
      <3>1. before.status.conds \in [CondTypes -> Status]
        BY <1>1 DEF TypeOK, ReconcilerType, Ceilometer, InstanceType, CeilometerStatus
      <3>2. \A t \in CeilometerInitList : inst.status.conds[t] = "Unknown"
        BY <2>2, <3>1, InitializedList DEF R!InitConditions, InitConditions
      <3> QED BY <1>1, <3>2, EndedList, NilMilestones
    <2> QED BY <1>1, <1>2, <2>1, <2>2
            DEF R!LifeInv, R!DeletePassStatus, R!NilConditions, NilConditions
  <1> HIDE DEF conds
  <1>8. \/ cr'.status.conds = cr.status.conds
        \/ \A t \in CeilometerInitList : cr'.status.conds[t] = "Unknown"
    BY <1>6, <1>7
  <1> QED BY <1>1, <1>4, <1>5, <1>8, NilMilestones DEF ReadyInv, EvidenceInv, Held, Listed

\* A pass of the handler hands on what it has evidence for.
LEMMA HandlerEvidence ==
  ASSUME BaseInv, BaseInv', ReadyInv, PatchStep, cr'.exists,
         inst.finalizer = before.finalizer, ~before.deleting
  PROVE  EvidenceInv'
  <1>1. /\ TypeOK /\ R!ReconcilerType /\ R!EndStep /\ R!HeldInv /\ EvidenceInv /\ EvidencePass
        /\ UNCHANGED <<cache, ks, sts>>
    BY Types, Actions
       DEF BaseInv, ReadyInv, PatchStep, objects, keystone, Patch, PatchFails, Write, TypeOK
  <1>2. /\ pc = "patch" /\ (cr' = cr \/ R!PatchEffect(cr, before, R!Ended, cr'))
    BY <1>1, Parameters, R!EndEffect
  <1>3. R!Ended.finalizer = inst.finalizer
    BY <1>1, StatusOK, R!EndedType DEF R!ReconcilerType
  <1>4. cr.exists /\ cr'.deleting = cr.deleting /\ cr'.finalizer = cr.finalizer
    BY <1>2, <1>3 DEF R!PatchEffect, R!PatchedFinalizer, R!NoInstance
  <1>5. before.finalizer /\ Held(before) /\ cr.finalizer /\ ~R!Adding
    BY <1>1, <1>2 DEF R!HeldInv, R!PassObject, R!PassHeld, R!Adding, Held
  <1> DEFINE conds == R!UpdateReady(inst.status.conds)
  <1>6. \A t \in CeilometerInitList : conds[t] = inst.status.conds[t] /\ conds[t] # "Absent"
    BY <1>1, <1>2, <1>5, EndedList, NilMilestones DEF EvidencePass, Listed
  <1>7. /\ cr'.status.conds \in {cr.status.conds, conds}
        /\ \/ cr'.status = cr.status
           \/ cr'.status.hash = IF inst.status.hash # before.status.hash THEN inst.status.hash
                                ELSE cr.status.hash
    BY PatchedStatus, Zenon
  <1>8. Listed(cr'.status.conds)
    BY <1>1, <1>6, <1>7 DEF Listed, EvidenceInv
  <1>9. cr.status.hash # None => cr'.status.hash # None
    BY <1>1, <1>2, <1>5, <1>7 DEF EvidencePass
  <1>10. inst.status.conds["ServiceConfig"] = "True" => cr'.status.hash # None \/ cr'.status = cr.status
    BY <1>1, <1>2, <1>5, <1>7 DEF EvidencePass, Evidence
  <1>11. /\ Milestones \subseteq CeilometerInitList
         /\ "ServiceConfig" \in Milestones /\ "KeystoneService" \in Milestones
         /\ "Deployment" \in Milestones
    BY NilMilestones DEF Milestones
  <1>12. (Held(cr) => Evidence(cr.status))'
    <2> SUFFICES ASSUME Held(cr') PROVE Evidence(cr.status)'
      BY DEF Held
    <2>1. Evidence(cr.status) /\ Evidence(inst.status)
      BY <1>1, <1>2, <1>4, <1>5 DEF EvidenceInv, EvidencePass, Held
    <2>2. CASE cr'.status.conds = cr.status.conds
      BY <1>1, <1>9, <2>1, <2>2 DEF Evidence
    <2>3. CASE cr'.status.conds = conds /\ cr'.status # cr.status
      BY <1>1, <1>6, <1>10, <1>11, <2>1, <2>3 DEF Evidence
    <2> QED BY <1>7, <2>2, <2>3
  <1> QED BY <1>1, <1>4, <1>5, <1>8, <1>9, <1>12 DEF EvidenceInv, Evidence, Held, Listed

LEMMA PatchEvidence ==
  ASSUME StatusWithMetadata = FALSE, BaseInv, BaseInv', ReadyInv, PatchStep PROVE EvidenceInv'
  <1>1. CASE cr'.exists
    BY <1>1, MetadataEvidence, DeleteEvidence, HandlerEvidence, Zenon
  <1>2. CASE ~cr'.exists
    <2>1. cr' = R!NoInstance /\ ~Held(cache')
      BY <1>2 DEF BaseInv, R!HeldInv, R!Presence, R!CacheHeld, Held
    <2>2. ~Held(cr') /\ Listed(cr'.status.conds)
      BY <1>2, <2>1, StatusOK DEF Held, Listed, R!NoInstance, NoStatus
    <2>3. cache' = cache
      BY DEF PatchStep, Patch, PatchFails, Write
    <2> QED BY <1>2, <2>1, <2>2, <2>3 DEF ReadyInv, EvidenceInv, Held, Listed
  <1> QED BY <1>1, <1>2

\* What a call of the pass may do to the status.
HonestStep ==
  /\ pc \notin {"idle", "patch"} /\ pc' # "idle" /\ UNCHANGED <<cr, cache, before>>
  /\ \A t \in CeilometerInitList :
       inst.status.conds[t] # "Absent" => inst'.status.conds[t] # "Absent"
  /\ inst'.status.hash = inst.status.hash \/ inst'.status.hash # None
  /\ \A t \in Milestones :
       inst'.status.conds[t] = "True" =>
         \/ inst.status.conds[t] = "True"
         \/ t = "ServiceConfig" /\ inst'.status.hash # None
         \/ t = "KeystoneService" /\ ks'.finalizer
         \/ t = "Deployment" /\ sts'.hash # None
  /\ pc' \in {"init", "statefulset"} => inst'.status.hash # None

LEMMA HonestEvidence ==
  ASSUME BaseInv, ReadyInv, [Next]_vars, HonestStep PROVE EvidencePass'
  <1> USE DEF HonestStep
  <1>1. ~R!Adding /\ inst.status.conds # NilConditions(CondTypes)
    BY DEF ReadyInv, EvidencePass, R!Adding
  <1>2. \A t \in CeilometerInitList : inst'.status.conds[t] # "Absent"
    BY <1>1 DEF ReadyInv, EvidencePass, Listed
  <1>3. inst'.status.conds # NilConditions(CondTypes) /\ Listed(inst'.status.conds)
    BY <1>2, NilMilestones DEF Listed, Milestones
  <1>4. ASSUME Held(before)
        PROVE  /\ Evidence(inst.status)'
               /\ inst'.status.hash # before.status.hash => inst'.status.hash # None
    <2>1. Evidence(inst.status) /\ (inst.status.hash # before.status.hash => inst.status.hash # None)
      BY <1>4 DEF ReadyInv, EvidencePass
    <2>2. (ks.finalizer => ks'.finalizer) /\ (sts.hash # None => sts'.hash # None)
      BY <1>4, EvidenceKept
    <2>3. Evidence(inst.status)'
      BY <2>1, <2>2 DEF Evidence, Milestones
    <2> QED BY <2>1, <2>3
  <1> QED BY <1>3, <1>4 DEF ReadyInv, EvidencePass, Held, Listed

\* Setting one condition.
LEMMA MarkedHonest ==
  ASSUME TypeOK, NEW i, NEW t \in CondTypes, NEW s \in Status \ {"Absent"},
         i = inst \/ Marked(i, t, s)
  PROVE  /\ i.status.hash = inst.status.hash
         /\ \A u \in CondTypes :
              /\ inst.status.conds[u] # "Absent" => i.status.conds[u] # "Absent"
              /\ i.status.conds[u] = "True" => inst.status.conds[u] = "True" \/ (u = t /\ s = "True")
  <1>1. inst.status.conds \in [CondTypes -> Status]
    BY DEF TypeOK, ReconcilerType, Ceilometer, InstanceType, CeilometerStatus
  <1> QED BY <1>1 DEF Marked

\* The calls that reach no milestone.
LEMMA EarlyEvidence ==
  ASSUME BaseInv, ReadyInv,
         \/ ReconcileDelete \/ ReconcileRbac \/ TransportURLCreateOrUpdate \/ GetOspSecret
         \/ GetTransportSecret \/ GenerateServiceConfig
  PROVE  EvidencePass'
  <1>1. TypeOK /\ [Next]_vars /\ inst \in Ceilometer /\ {"True", "False"} \subseteq Status
        /\ {"Rbac", "RabbitMqTransportURL", "Input"} \subseteq CondTypes
    BY DEF BaseInv, Next, Work, TypeOK, ReconcilerType, Status, CondTypes
  <1>2. /\ pc \in {"delete", "rbac", "transportURL", "ospSecret", "transportSecret", "central"}
        /\ pc' \in {"transportURL", "ospSecret", "transportSecret", "central", "compute", "patch"}
        /\ UNCHANGED <<cr, cache, before>>
    BY DEF ReconcileDelete, ReconcileRbac, TransportURLCreateOrUpdate, GetOspSecret,
           GetTransportSecret, GetSecret, GenerateServiceConfig, Call, Continue, Return, server
  <1>3. \/ inst'.status = inst.status
        \/ \E t \in {"Rbac", "RabbitMqTransportURL", "Input"}, s \in {"True", "False"} :
             Marked(inst', t, s)
    <2>1. CASE ReconcileDelete \/ GenerateServiceConfig
      BY <1>1, <2>1 DEF ReconcileDelete, GenerateServiceConfig, Continue, Return, Ceilometer,
                        InstanceType
    <2>2. CASE ReconcileRbac
      BY <1>1, <2>2, RbacMarks, Zenon DEF ReconcileRbac, Continue
    <2>3. CASE TransportURLCreateOrUpdate
      BY <1>1, <2>3, WithMarks, Zenon DEF TransportURLCreateOrUpdate, Continue, Return
    <2>4. CASE GetOspSecret \/ GetTransportSecret
      BY <1>1, <2>4, WithMarks, Zenon
         DEF GetOspSecret, GetTransportSecret, GetSecret, Continue, Return
    <2> QED BY <2>1, <2>2, <2>3, <2>4
  <1>4. HonestStep
    <2>1. CASE inst'.status = inst.status
      BY <1>2, <2>1 DEF HonestStep
    <2>2. ASSUME NEW t \in {"Rbac", "RabbitMqTransportURL", "Input"}, NEW s \in {"True", "False"},
                 Marked(inst', t, s)
          PROVE  HonestStep
      <3>1. t \in CondTypes /\ s \in Status \ {"Absent"} /\ t \notin Milestones
        BY <1>1 DEF Milestones
      <3> QED BY <1>1, <1>2, <2>2, <3>1, MarkedHonest, NilMilestones DEF HonestStep
    <2> QED BY <1>3, <2>1, <2>2
  <1> QED BY <1>1, <1>4, HonestEvidence

\* ServiceConfig is marked once the hash is recorded.
LEMMA ComputeEvidence ==
  ASSUME BaseInv, ReadyInv, GenerateComputeServiceConfig PROVE EvidencePass'
  <1>1. /\ TypeOK /\ [Next]_vars /\ inst.status.conds \in [CondTypes -> Status]
        /\ pc = "compute" /\ UNCHANGED <<cr, cache>>
    BY Zenon DEF BaseInv, Next, Work, GenerateComputeServiceConfig, Call, server, TypeOK,
           ReconcilerType, Ceilometer, InstanceType, CeilometerStatus
  <1>2. /\ before' = before /\ inst'.status.hash # None /\ pc' \in {"patch", "init"}
        /\ \/ inst'.status.conds = inst.status.conds
           \/ inst'.status.conds = [inst.status.conds EXCEPT !["ServiceConfig"] = "True"]
    BY HashStep, HashAssumption, Zenon DEF BaseInv
  <1>3. HonestStep
    BY <1>1, <1>2, NilMilestones DEF HonestStep
  <1> QED BY <1>1, <1>3, HonestEvidence

\* KeystoneService is marked from an object with the finalizer.
LEMMA InitEvidence ==
  ASSUME BaseInv, KsInv, ReadyInv, ReconcileInit PROVE EvidencePass'
  <1>1. /\ TypeOK /\ [Next]_vars /\ inst \in Ceilometer /\ pc = "init" /\ UNCHANGED <<cr, cache>>
        /\ ks \in KeystoneService /\ ksView = ks /\ EnsuredKs \in KeystoneService
        /\ "KeystoneService" \in CondTypes
    BY KsTypes, Zenon DEF BaseInv, KsInv, Next, Work, ReconcileInit, Call, server, TypeOK,
           ReconcilerType, ObjectsType, CondTypes
  <1>2. inst.status.hash # None
    BY <1>1 DEF ReadyInv, EvidencePass
  <1>3. CASE Return(inst, TRUE)
    <2>1. HonestStep
      BY <1>1, <1>3 DEF Return, HonestStep
    <2> QED BY <1>1, <2>1, HonestEvidence
  <1>4. ASSUME NEW k \in KeystoneService, ObserveKs(k), ks'.finalizer PROVE EvidencePass'
    <2>1. /\ before' = before /\ pc' \in {"statefulset", "patch"}
          /\ \/ inst' = inst
             \/ Marked(inst', "KeystoneService", k.ready) /\ k.ready # "Absent"
      BY <1>1, <1>4, ObserveStep, Zenon
    <2>2. k.ready \in Status
      BY DEF KeystoneService
    <2>3. CASE inst' = inst
      BY <1>1, <1>2, <2>1, <2>3, HonestEvidence DEF HonestStep
    <2>4. CASE Marked(inst', "KeystoneService", k.ready) /\ k.ready # "Absent"
      <3>1. /\ inst'.status.hash = inst.status.hash
            /\ \A u \in CondTypes :
                 /\ inst.status.conds[u] # "Absent" => inst'.status.conds[u] # "Absent"
                 /\ inst'.status.conds[u] = "True" =>
                      inst.status.conds[u] = "True" \/ u = "KeystoneService"
        BY <1>1, <2>2, <2>4, MarkedHonest
      <3>2. HonestStep
        BY <1>1, <1>2, <1>4, <2>1, <3>1, NilMilestones DEF HonestStep
      <3> QED BY <1>1, <3>2, HonestEvidence
    <2> QED BY <2>1, <2>3, <2>4
  <1>5. CASE CreateOrPatchKs /\ KsUpToDate /\ ObserveKs(ksView)
    <2>1. ks'.finalizer
      BY <1>1, <1>5 DEF CreateOrPatchKs, KsUpToDate, keystone
    <2> QED BY <1>1, <1>4, <1>5, <2>1
  <1>6. CASE WriteKs(EnsuredKs) /\ ObserveKs(EnsuredKs)
    <2>1. ks'.finalizer
      BY <1>1, <1>6 DEF WriteKs, EnsuredKs, KeystoneService
    <2> QED BY <1>1, <1>4, <1>6, <2>1
  <1> QED BY <1>3, <1>5, <1>6, Zenon DEF ReconcileInit, CreateOrPatchKs

\* Deployment is marked once the StatefulSet is written.
LEMMA StatefulSetEvidence ==
  ASSUME BaseInv, ReadyInv, ReconcileStatefulSet PROVE EvidencePass'
  <1>1. /\ TypeOK /\ [Next]_vars /\ pc = "statefulset" /\ UNCHANGED <<cr, cache>>
        /\ inst.status.conds \in [CondTypes -> Status] /\ sts \in StatefulSet
    BY Zenon DEF BaseInv, Next, Work, ReconcileStatefulSet, server, TypeOK, ReconcilerType, ObjectsType,
           Ceilometer, InstanceType, CeilometerStatus
  <1>2. inst.status.hash # None
    BY <1>1 DEF ReadyInv, EvidencePass
  <1>3. sts'.hash # None
    BY <1>1, <1>2, Zenon DEF ReconcileStatefulSet, CreateOrPatchStatefulSet, StatefulSet
  <1>4. inst' = Counted /\ pc' = "patch" /\ before' = before
    BY DEF ReconcileStatefulSet, Return
  <1>5. /\ inst'.status.hash = inst.status.hash
        /\ \/ inst'.status.conds = inst.status.conds
           \/ inst'.status.conds = [inst.status.conds EXCEPT !["Deployment"] = "True"]
    BY <1>1, <1>4, CountedKept
  <1>6. HonestStep
    BY <1>1, <1>3, <1>4, <1>5, NilMilestones DEF HonestStep
  <1> QED BY <1>1, <1>6, HonestEvidence

LEMMA FailEvidence == ASSUME BaseInv, ReadyInv, CallFails PROVE EvidencePass'
  <1>1. /\ TypeOK /\ [Next]_vars /\ inst \in Ceilometer /\ pc \in Steps \ {"idle", "patch"}
        /\ UNCHANGED <<cr, cache, before>> /\ inst' = OnError(pc) /\ pc' = "patch"
    BY DEF BaseInv, Next, CallFails, Return, server, TypeOK, ReconcilerType
  <1>2. inst' = inst \/ \E t \in CondTypes : Marked(inst', t, "False")
    BY <1>1, OnErrorKept
  <1>3. CASE inst' = inst
    BY <1>1, <1>3, HonestEvidence DEF HonestStep
  <1>4. ASSUME NEW t \in CondTypes, Marked(inst', t, "False") PROVE EvidencePass'
    <2>1. "False" \in Status \ {"Absent"} /\ "False" # "True"
      BY DEF Status
    <2>2. /\ inst'.status.hash = inst.status.hash
          /\ \A u \in CondTypes :
               /\ inst.status.conds[u] # "Absent" => inst'.status.conds[u] # "Absent"
               /\ inst'.status.conds[u] = "True" => inst.status.conds[u] = "True"
      BY <1>1, <1>4, <2>1, MarkedHonest
    <2>3. HonestStep
      BY <1>1, <2>2, NilMilestones DEF HonestStep
    <2> QED BY <1>1, <2>3, HonestEvidence
  <1> QED BY <1>2, <1>3, <1>4

\* A pass begins with what the cache shows.
LEMMA BeginEvidence ==
  ASSUME BaseInv, ReadyInv, Reconcile PROVE EvidenceInv' /\ EvidencePass'
  <1>1. R!ReconcilerType /\ R!BeginStep /\ TypeOK /\ EvidenceInv
    BY Types, Actions DEF BaseInv, ReadyInv, TypeOK
  <1>2. UNCHANGED <<cr, cache, ks, sts>>
    BY <1>1, Parameters, R!BeginType DEF Reconcile, objects, keystone
  <1>3. EvidenceInv'
    BY <1>1, <1>2 DEF EvidenceInv, Evidence, Held, Listed
  <1>4. EvidencePass'
    <2> SUFFICES ASSUME pc' # "idle" PROVE EvidencePass'
      BY DEF EvidencePass
    <2>1. before' = cache /\ cache \in Ceilometer /\ pc' \in {"patch", "delete", "rbac"}
      BY DEF Reconcile, NotFound, Fetch, worker, AddFinalizer, InitStatus, Dispatch, Begin, TypeOK,
             BaseInv, ReconcilerType
    <2>2. (Held(before) => Evidence(before.status))'
          /\ (Held(before') /\ before'.status.hash # None => cr'.status.hash # None)
          /\ Listed(before'.status.conds)
      BY <1>1, <1>2, <2>1 DEF EvidenceInv, Evidence, Held, Listed
    <2>3. ~NotFound
      BY DEF NotFound, Fetch, worker
    <2>4. CASE AddFinalizer
      <3>1. /\ pc' = "patch" /\ ~before'.finalizer /\ inst'.finalizer
            /\ inst'.status = before'.status
        BY <2>4, <2>1 DEF AddFinalizer, Begin, Ceilometer, InstanceType
      <3>2. R!Adding' /\ ~Held(before')
        BY <3>1 DEF R!Adding, Held
      <3> QED BY <2>1, <2>2, <3>1, <3>2 DEF EvidencePass, Held, Listed
    <2>5. CASE InitStatus
      <3>1. /\ pc' = "patch" /\ inst'.status.hash = before'.status.hash
            /\ inst'.status.conds = InitConditions(cache.status.conds, CeilometerInitList)
        BY <2>5, <2>1
           DEF InitStatus, Begin, Ceilometer, InstanceType, CeilometerStatus, InitConditions,
               CondTypes, Status
      <3>2. cache.status.conds \in [CondTypes -> Status]
        BY <2>1 DEF Ceilometer, InstanceType, CeilometerStatus
      <3>3. \A t \in CeilometerInitList : inst'.status.conds[t] = "Unknown"
        BY <3>1, <3>2, InitializedList, Zenon
      <3>4. Listed(inst'.status.conds) /\ inst'.status.conds # NilConditions(CondTypes)
            /\ Evidence(inst.status)'
        BY <3>3, NilMilestones DEF Listed, Evidence, Milestones
      <3> QED BY <2>1, <2>2, <3>1, <3>4 DEF EvidencePass, Held, Listed
    <2>6. CASE Dispatch("rbac")
      <3>1. inst' = before' /\ pc' \in {"delete", "rbac"} /\ before'.status.conds # NilConditions(CondTypes)
        BY <2>6, <2>1 DEF Dispatch, Begin, NoStatus
      <3> QED BY <2>1, <2>2, <3>1 DEF EvidencePass, Evidence, Held, Listed
    <2> QED BY <2>3, <2>4, <2>5, <2>6 DEF Reconcile
  <1> QED BY <1>3, <1>4

\* Neither the user nor the informer takes away what a condition stands for.
LEMMA UserEvidence ==
  ASSUME BaseInv, BaseInv', ReadyInv, User PROVE EvidenceInv' /\ EvidencePass'
  <1>1. R!ReconcilerType /\ R!UserStep /\ R!HeldInv' /\ EvidenceInv /\ EvidencePass
    BY Types, Actions DEF BaseInv, ReadyInv, TypeOK
  <1>2. UNCHANGED <<cache, pc, before, inst, ks, sts>>
    BY <1>1, Parameters, R!UserEffect DEF User, objects, keystone
  <1>3. \/ cr'.exists /\ ~cr'.finalizer /\ cr'.status = NoStatus
        \/ /\ cr.exists /\ cr'.exists /\ cr'.status = cr.status
           /\ (cr'.finalizer <=> cr.finalizer) /\ (cr.deleting => cr'.deleting)
        \/ cr' = R!NoInstance
    BY <1>1, Parameters, R!UserEffect, Zenon
  <1>4. CASE (cr'.exists /\ ~cr'.finalizer /\ cr'.status = NoStatus) \/ cr' = R!NoInstance
    <2>1. cr'.status.conds = NilConditions(CondTypes) /\ (~cr'.exists \/ ~cr'.finalizer)
      BY <1>4 DEF R!NoInstance, NoStatus
    <2>2. ~Held(cr') /\ ~Held(cache') /\ (pc # "idle" => ~Held(before'))
      BY <1>1, <1>2, <2>1 DEF R!HeldInv, R!CacheHeld, R!PassHeld, Held
    <2>3. \A t \in Milestones : cr'.status.conds[t] # "True"
      BY <2>1, NilMilestones
    <2> QED BY <1>1, <1>2, <2>1, <2>2, <2>3
            DEF EvidenceInv, EvidencePass, Held, Listed, R!Adding
  <1>5. CASE /\ cr.exists /\ cr'.exists /\ cr'.status = cr.status
             /\ (cr'.finalizer <=> cr.finalizer) /\ (cr.deleting => cr'.deleting)
    <2>1. EvidenceInv'
      BY <1>1, <1>2, <1>5 DEF EvidenceInv, Evidence, Held, Listed
    <2>2. EvidencePass'
      BY <1>1, <1>2, <1>5 DEF EvidencePass, Evidence, Held, Listed, R!Adding
    <2> QED BY <2>1, <2>2
  <1> QED BY <1>3, <1>4, <1>5

LEMMA CacheEvidence ==
  ASSUME BaseInv, ReadyInv, SyncCeilometer \/ Panic \/ Restart PROVE EvidenceInv' /\ EvidencePass'
  <1>1. /\ cr' = cr /\ cache' = cr /\ UNCHANGED <<ks, sts>>
        /\ UNCHANGED <<pc, before, inst>> \/ pc' = "idle"
    BY DEF SyncCeilometer, SyncCache, worker, Panic, Restart, Restarted, Done, objects, keystone
  <1>2. EvidenceInv'
    BY <1>1 DEF ReadyInv, EvidenceInv, Evidence, Held, Listed
  <1>3. EvidencePass'
    BY <1>1 DEF ReadyInv, EvidencePass, Evidence, Held, Listed, R!Adding
  <1> QED BY <1>2, <1>3

\* The steps that leave the resource and the cache alone.
LEMMA SameEvidence ==
  ASSUME BaseInv, ReadyInv, [Next]_vars, UNCHANGED <<cr, cache>> PROVE EvidenceInv'
  <1>1. ASSUME Held(cr) \/ Held(cache)
        PROVE  (ks.finalizer => ks'.finalizer) /\ (sts.hash # None => sts'.hash # None)
    BY <1>1, EvidenceKept, Zenon DEF Held
  <1> QED BY <1>1 DEF ReadyInv, EvidenceInv, Evidence, Held, Listed

LEMMA OutsideEvidence ==
  ASSUME BaseInv, ReadyInv, [Next]_vars, UNCHANGED <<server, pass>>
  PROVE  EvidenceInv' /\ EvidencePass'
  <1>1. UNCHANGED <<cr, cache, pc, before, inst>>
    BY DEF server, pass
  <1>2. ASSUME pc # "idle", Held(before)
        PROVE  (ks.finalizer => ks'.finalizer) /\ (sts.hash # None => sts'.hash # None)
    BY <1>1, <1>2, EvidenceKept, Zenon DEF Held
  <1>3. EvidencePass'
    BY <1>1, <1>2 DEF ReadyInv, EvidencePass, Evidence, Held, Listed, R!Adding
  <1> QED BY <1>1, <1>3, SameEvidence

LEMMA ReadyStep ==
  ASSUME StatusWithMetadata = FALSE, BaseInv, KsInv, ReadyInv, [Next]_vars PROVE ReadyInv'
  <1>1. BaseInv'
    BY BaseStep
  <1>2. CASE PatchStep
    <2>1. EvidencePass'
      BY <1>2 DEF PatchStep, Patch, PatchFails, Done, EvidencePass
    <2> QED BY <1>1, <1>2, <2>1, PatchEvidence, Zenon DEF ReadyInv
  <1>3. CASE (Work /\ ~PatchStep /\ ~Reconcile) \/ CallFails
    <2>1. EvidencePass'
      BY <1>3, EarlyEvidence, ComputeEvidence, InitEvidence, StatefulSetEvidence, FailEvidence
         DEF Work
    <2>2. UNCHANGED <<cr, cache>>
      BY <1>3, Zenon DEF Work, CallFails, ReconcileDelete, ReconcileRbac, TransportURLCreateOrUpdate,
                  GetOspSecret, GetTransportSecret, GenerateServiceConfig,
                  GenerateComputeServiceConfig, ReconcileInit, ReconcileStatefulSet, Call, server
    <2> QED BY <2>1, <2>2, SameEvidence DEF ReadyInv
  <1>4. CASE Reconcile \/ User \/ SyncCeilometer \/ Panic \/ Restart
    BY <1>1, <1>4, BeginEvidence, UserEvidence, CacheEvidence DEF ReadyInv
  <1>5. CASE \/ SyncKs \/ ResyncCeilometer
             \/ TransportURLProvided \/ OspSecretProvided \/ KsRegistered \/ PodsReady
             \/ TransportURLChanged \/ OspSecretChanged \/ KsDisturbed \/ PodsLost
             \/ GarbageCollect \/ GarbageCollectKs \/ UNCHANGED vars
    <2>1. UNCHANGED <<server, pass>>
      BY <1>5 DEF SyncKs, ResyncCeilometer, Resync, resource, worker, server, pass, vars,
                  TransportURLProvided, OspSecretProvided, KsRegistered, PodsReady,
                  TransportURLChanged, OspSecretChanged, KsDisturbed, PodsLost, Pods,
                  GarbageCollect, GarbageCollectKs
    <2> QED BY <2>1, OutsideEvidence DEF ReadyInv
  <1> QED BY <1>2, <1>3, <1>4, <1>5 DEF Next, Work

LEMMA ReadyInit == ASSUME Init PROVE ReadyInv
  <1>1. cr = NoInstance /\ cache = NoInstance /\ pc = "idle" /\ NoInstance.status = NoStatus
        /\ ~NoInstance.exists /\ NoStatus.conds = NilConditions(CondTypes)
    BY DEF Init, ReconcilerInit, NoInstance, NoStatus
  <1> QED BY <1>1, Zenon DEF ReadyInv, EvidenceInv, EvidencePass, Held, Listed

\* A Ceilometer is Ready only after all of reconcileNormal: with its hash
\* recorded, its KeystoneService held and its StatefulSet written, for every
\* sequence of passes, failures, restarts and edits, as long as the cache of
\* the KeystoneService is current and a patch of the metadata carries no status.
THEOREM ReadyMeansRolledOut ==
  ASSUME KsLag = FALSE, StatusWithMetadata = FALSE PROVE Spec => []ReadyAfterRollout
  <1> DEFINE Inv == BaseInv /\ KsInv /\ ReadyInv
  <1>1. ASSUME Inv PROVE ReadyAfterRollout
    <2> SUFFICES ASSUME cr.exists, ~cr.deleting, Ready(cr)
                 PROVE  cr.status.hash # None /\ ks.finalizer /\ sts.hash # None
      BY DEF ReadyAfterRollout
    <2>1. cr.status.conds \in R!Conds /\ cr.status.conds["Ready"] = "True"
      BY <1>1 DEF BaseInv, TypeOK, ReconcilerType, Ceilometer, InstanceType, CeilometerStatus,
             R!Conds, Status, R!Status, Ready
    <2>2. R!Ready(cr) /\ cr.finalizer
      BY <1>1, <2>1 DEF BaseInv, R!LifeInv, R!Ready
    <2>3. cr.status.conds # NilConditions(CondTypes)
      BY <2>1, NilMilestones DEF CondTypes
    <2>4. R!UpdateReady(cr.status.conds) = cr.status.conds
      BY <1>1, <2>3 DEF BaseInv, R!LifeInv, R!Stable, R!NilConditions, NilConditions
    <2>5. R!AllSubConditionIsTrue(cr.status.conds)
      BY <2>1, <2>4, StatusOK, R!ReadyIff
    <2>6. \A t \in Milestones : cr.status.conds[t] = "True"
      BY <1>1, <2>1, <2>3, <2>5, NilMilestones
         DEF ReadyInv, EvidenceInv, Listed, R!AllSubConditionIsTrue, R!Conds
    <2> QED BY <1>1, <2>2, <2>6 DEF ReadyInv, EvidenceInv, Evidence, Held, Milestones
  <1>2. ASSUME Init PROVE Inv
    BY <1>2, InitBase, ReadyInit, KsInit
  <1>3. ASSUME Inv, [Next]_vars PROVE Inv'
    BY <1>3, BaseStep, KsStep, ReadyStep, Zenon
  <1> HIDE DEF Inv
  <1> QED BY <1>1, <1>2, <1>3, PTL DEF Spec

================================================================================
