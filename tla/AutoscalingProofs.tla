--------------------------- MODULE AutoscalingProofs ---------------------------
(***************************************************************************)
(* Proofs about AutoscalingController, for every value of its constants.   *)
(***************************************************************************)
EXTENDS AutoscalingController, TLAPS

AodhDeleteSteps == {"delete", "deleteKs", "deleteEndpoint"}

R == INSTANCE ReconcilerProofs WITH
  EmptyStatus <- NoStatus, InitList <- AutoscalingInitList, ReturnsPatchError <- FALSE,
  Specs <- AutoscalingSpec, Statuses <- AutoscalingStatus, DeleteSteps <- AodhDeleteSteps

(***************************************************************************)
(* What the general facts about reconcilers require                        *)
(***************************************************************************)
LEMMA StatusOK == R!StatusesOK
  <1>1. "Ready" \in CondTypes /\ AutoscalingInitList \subseteq CondTypes
        /\ \E t \in AutoscalingInitList : t # "Ready"
    BY DEF CondTypes, AutoscalingInitList
  <1>2. NoStatus \in AutoscalingStatus /\ NoStatus.conds = R!NilConditions(CondTypes)
    BY DEF NoStatus, AutoscalingStatus, NilConditions, R!NilConditions, Status
  <1>3. /\ \A s \in AutoscalingStatus : s.conds \in R!Conds
        /\ \A s \in AutoscalingStatus, c \in R!Conds :
             [s EXCEPT !.conds = c] \in AutoscalingStatus /\ [s EXCEPT !.conds = c].conds = c
    BY DEF AutoscalingStatus, Status, R!Conds, R!Status
  <1>4. R!MergeOK
    <2> SUFFICES ASSUME NEW a \in AutoscalingStatus, NEW b \in AutoscalingStatus,
                        NEW c \in AutoscalingStatus
                 PROVE  /\ R!Merged(a, b, c) \in AutoscalingStatus
                        /\ R!Merged(a, b, c).conds = IF c.conds # b.conds THEN c.conds ELSE a.conds
                        /\ R!Merged(b, b, c) = c
      BY DEF R!MergeOK
    <2>1. ASSUME NEW d \in AutoscalingStatus
          PROVE  R!Merged(d, b, c) =
                   [conds |-> IF c.conds # b.conds THEN c.conds ELSE d.conds,
                    hash |-> IF c.hash # b.hash THEN c.hash ELSE d.hash,
                    dbsync |-> IF c.dbsync # b.dbsync THEN c.dbsync ELSE d.dbsync,
                    host |-> IF c.host # b.host THEN c.host ELSE d.host,
                    readyCount |-> IF c.readyCount # b.readyCount THEN c.readyCount
                                   ELSE d.readyCount]
      BY DEF R!Merged, AutoscalingStatus
    <2> QED BY <2>1 DEF AutoscalingStatus
  <1> QED BY <1>1, <1>2, <1>3, <1>4 DEF R!StatusesOK

LEMMA Parameters == R!ParametersOK
  <1>1. R!StepsOK
    BY DEF R!StepsOK, Steps, AodhDeleteSteps
  <1> QED BY <1>1, StatusOK, BoundAssumption DEF R!ParametersOK

LEMMA Types == Autoscaling = R!Instances /\ (ReconcilerType <=> R!ReconcilerType)
  <1>1. Autoscaling = R!Instances
    BY DEF Autoscaling, InstanceType, R!Instances, R!InstanceType
  <1> QED BY <1>1 DEF ReconcilerType, R!ReconcilerType

\* The operators of Reconciler are those that the general facts are about.
LEMMA Operators ==
  /\ NoInstance = R!NoInstance
  /\ \A c : UpdateReady(c) = R!UpdateReady(c)
  /\ \A c, l : InitConditions(c, l) = R!InitConditions(c, l)
  /\ Ended = R!Ended
  /\ \A t, s : With(t, s) = R!With(t, s)
  <1>1. \A c, t, s : Mark(c, t, s) = R!Mark(c, t, s)
    BY DEF Mark, R!Mark
  <1>2. \A c : AllSubConditionIsTrue(c) <=> R!AllSubConditionIsTrue(c)
    BY DEF AllSubConditionIsTrue, R!AllSubConditionIsTrue
  <1>3. \A c : Mirror(c) = R!Mirror(c)
    BY Zenon DEF Mirror, R!Mirror
  <1>4. \A c : UpdateReady(c) = R!UpdateReady(c)
    BY <1>1, <1>2, <1>3, Zenon DEF UpdateReady, R!UpdateReady
  <1> QED BY <1>1, <1>4, Zenon
    DEF NoInstance, R!NoInstance, InitConditions, R!InitConditions, Ended, R!Ended, With, R!With

LEMMA Actions ==
  /\ Reconcile => R!BeginStep
  /\ PatchStep => R!EndStep /\ (~PatchFails => R!Patch)
  /\ Restarted => R!Restarted
  /\ SyncAutoscaling => R!SyncCache
  /\ User => R!UserStep
  <1> USE Operators, Zenon
  <1>1. Reconcile => R!BeginStep
    <2>1. NotFound => R!NotFound
      BY DEF NotFound, Fetch, worker, resource, bounds,
             R!NotFound, R!Fetch, R!worker, R!resource, R!bounds
    <2>2. AddFinalizer => R!AddFinalizer
      BY DEF AddFinalizer, Fetch, Begin, resource, bounds,
             R!AddFinalizer, R!Fetch, R!Begin, R!resource, R!bounds
    <2>3. InitStatus => R!InitStatus
      BY DEF InitStatus, Initialized, Fetch, Begin, resource, bounds,
             R!InitStatus, R!Initialized, R!Fetch, R!Begin, R!resource, R!bounds
    <2>4. Dispatch("rbac") => R!Dispatch("rbac")
      BY DEF Dispatch, Initialized, Fetch, Begin, resource, bounds,
             R!Dispatch, R!Initialized, R!Fetch, R!Begin, R!resource, R!bounds
    <2>5. "rbac" \in R!NormalSteps
      BY SMT DEF R!NormalSteps, Steps, AodhDeleteSteps
    <2> QED BY <2>1, <2>2, <2>3, <2>4, <2>5 DEF Reconcile, R!BeginStep
  <1>2. PatchStep => R!EndStep /\ (~PatchFails => R!Patch)
    <2>1. \A a, b, c : PatchMetadata(a, b, c) = R!PatchMetadata(a, b, c)
      BY DEF PatchMetadata, R!PatchMetadata
    <2>2. \A a, b, c : PatchStatus(a, b, c) = R!PatchStatus(a, b, c)
      BY DEF PatchStatus, R!PatchStatus
    <2>3. \A a, b, c : PatchInstance(a, b, c) = R!PatchInstance(a, b, c)
      BY <2>1, <2>2 DEF PatchInstance, R!PatchInstance
    <2>4. \A i : Write(i) <=> R!Write(i)
      BY DEF Write, R!Write
    <2>5. Done <=> R!Done
      BY DEF Done, R!Done
    <2>6. Patch => R!Patch
      BY <2>3, <2>4, <2>5 DEF Patch, R!Patch, bounds, R!bounds
    <2>7. PatchFails => R!PatchFails
      BY <2>1, <2>3, <2>4, <2>5 DEF PatchFails, R!PatchFails, Fault, R!Fault
    <2> QED BY <2>6, <2>7 DEF PatchStep, R!EndStep
  <1>3. Restarted => R!Restarted
    BY DEF Restarted, R!Restarted, Done, R!Done
  <1>4. SyncAutoscaling => R!SyncCache
    BY DEF SyncAutoscaling, SyncCache, R!SyncCache, worker, R!worker, bounds, R!bounds
  <1>5. User => R!UserStep
    <2>1. \A s : UserCreates(s) => R!UserCreates(s)
      BY DEF UserCreates, R!UserCreates, Write, R!Write, worker, R!worker, Disturb, R!Disturb
    <2>2. \A s : UserEdits(s) => R!UserEdits(s)
      BY DEF UserEdits, R!UserEdits, Write, R!Write, worker, R!worker, Disturb, R!Disturb
    <2>3. UserDeletes => R!UserDeletes
      BY DEF UserDeletes, R!UserDeletes, Write, R!Write, worker, R!worker, bounds, R!bounds
    <2> QED BY <2>1, <2>2, <2>3 DEF User, R!UserStep
  <1> QED BY <1>1, <1>2, <1>3, <1>4, <1>5

(***************************************************************************)
(* What the calls of a pass do to the instance                             *)
(***************************************************************************)
\* The same resource as the one the pass works on, up to its status.
Kept(i) == i \in Autoscaling /\ R!SameObject(i, inst) /\ i.finalizer = inst.finalizer

\* The instance with other conditions.
Only(i, conds) ==
  /\ Kept(i)
  /\ i.status.hash = inst.status.hash /\ i.status.dbsync = inst.status.dbsync
  /\ i.status.host = inst.status.host /\ i.status.readyCount = inst.status.readyCount
  /\ i.status.conds = conds

CondSet(t, s) == [inst.status.conds EXCEPT ![t] = s]
Truths(types) == [t \in CondTypes |-> IF t \in types THEN "True" ELSE inst.status.conds[t]]

LEMMA InstType ==
  ASSUME inst \in Autoscaling
  PROVE  /\ inst.status \in AutoscalingStatus /\ inst.status.conds \in [CondTypes -> Status]
         /\ Only(inst, inst.status.conds)
  BY DEF Only, Kept, R!SameObject, Autoscaling, InstanceType, AutoscalingStatus

LEMMA CondsKept ==
  ASSUME inst \in Autoscaling, NEW c \in [CondTypes -> Status]
  PROVE  Only([inst EXCEPT !.status.conds = c], c)
  BY DEF Only, Kept, R!SameObject, Autoscaling, InstanceType, AutoscalingStatus

LEMMA WithMarks ==
  ASSUME inst \in Autoscaling, NEW t \in CondTypes, NEW s \in Status
  PROVE  Only(With(t, s), CondSet(t, s))
  <1>1. CondSet(t, s) \in [CondTypes -> Status]
    BY InstType DEF CondSet
  <1> QED BY <1>1, CondsKept, Zenon DEF With, Mark, CondSet

LEMMA WithTrueMarks ==
  ASSUME inst \in Autoscaling, NEW types PROVE Only(WithTrue(types), Truths(types))
  <1>1. Truths(types) \in [CondTypes -> Status]
    BY InstType DEF Truths, Status
  <1>2. WithTrue(types) = [inst EXCEPT !.status.conds = Truths(types)]
    BY DEF WithTrue, Truths, Autoscaling, InstanceType, AutoscalingStatus
  <1> QED BY <1>1, <1>2, CondsKept

LEMMA CondNames ==
  /\ AutoscalingInitList \cup {"Input", "ExposeService"} = CondTypes \ {"Ready"}
  /\ {"Rbac", "Heat", "Memcached", "ServiceConfig", "DB", "DBSync", "RabbitMqTransportURL",
      "Deployment", "KeystoneService", "KeystoneEndpoint"} = AutoscalingInitList
  /\ "True" \in Status /\ "False" \in Status
  BY DEF CondTypes, AutoscalingInitList, Status

LEMMA CountedKept ==
  ASSUME TypeOK
  PROVE  /\ Kept(Counted) /\ Counted.status.hash = inst.status.hash
         /\ Counted.status.dbsync = inst.status.dbsync /\ Counted.status.host = inst.status.host
         /\ Counted.status.conds \in {inst.status.conds, CondSet("Deployment", "True")}
  <1> DEFINE i == IF sts.ready > 0 THEN With("Deployment", "True") ELSE inst
  <1>1. inst \in Autoscaling /\ "Deployment" \in CondTypes /\ "True" \in Status
        /\ sts.ready \in {0, 1}
    BY CondNames DEF TypeOK, ReconcilerType, ObjectsType, StatefulSet, CondTypes
  <1>2. \E c \in {inst.status.conds, CondSet("Deployment", "True")} : Only(i, c)
    BY <1>1, InstType, WithMarks
  <1>3. Counted = [i EXCEPT !.status.readyCount = sts.ready]
    BY DEF Counted
  <1> HIDE DEF i
  <1> QED BY <1>1, <1>2, <1>3
    DEF Only, Kept, R!SameObject, Autoscaling, InstanceType, AutoscalingStatus

\* An early return that asks for another pass.
Waited(t) ==
  pc' = "patch" /\ requeue' = TRUE /\ before' = before /\ Only(inst', CondSet(t, "False"))

LEMMA WaitStep ==
  ASSUME inst \in Autoscaling, NEW t \in CondTypes, Wait(t) PROVE Waited(t)
  BY CondNames, WithMarks DEF Wait, Return, Waited

\* The pass goes on.
Went(step) == pc' = step /\ requeue' = requeue /\ before' = before

\* The calls that read the inputs.
LEMMA InputCalls ==
  ASSUME TypeOK
  PROVE  /\ ReconcileRbac =>
              /\ pc = "rbac" /\ Went("transportURL")
              /\ Only(inst', Truths({"Rbac", "ServiceConfig"}))
         /\ TransportURLCreateOrUpdate =>
              /\ pc = "transportURL"
              /\ \/ /\ Went("ospSecret") /\ Only(inst', Truths({"RabbitMqTransportURL"}))
                 \/ Waited("RabbitMqTransportURL")
         /\ GetOspSecret =>
              /\ pc = "ospSecret"
              /\ (Went("memcached") /\ inst' = inst) \/ Waited("Input")
         /\ GetAutoscalingMemcached =>
              /\ pc = "memcached"
              /\ \/ /\ Went("heat") /\ Only(inst', Truths({"Memcached"}))
                    /\ mc # None /\ got' = [got EXCEPT !.servers = mc]
                 \/ Waited("Memcached") /\ got' = got
         /\ GetAutoscalingHeat =>
              /\ pc = "heat"
              /\ (Went("transportSecret") /\ Only(inst', Truths({"Heat"}))) \/ Waited("Heat")
         /\ GetTransportSecret =>
              /\ pc = "transportSecret"
              /\ \/ /\ Went("config") /\ inst' = inst
                    /\ tsecret # None /\ got' = [got EXCEPT !.transport = tsecret]
                 \/ Waited("Input") /\ got' = got
  <1>1. inst \in Autoscaling
        /\ {"RabbitMqTransportURL", "Input", "Memcached", "Heat"} \subseteq CondTypes
    BY DEF TypeOK, ReconcilerType, CondTypes
  <1>2. \A types : Only(WithTrue(types), Truths(types))
    BY <1>1, WithTrueMarks
  <1>3. ReconcileRbac => /\ pc = "rbac" /\ Went("transportURL")
                         /\ Only(inst', Truths({"Rbac", "ServiceConfig"}))
    BY <1>2, Zenon DEF ReconcileRbac, Call, Continue, Went
  <1>4. TransportURLCreateOrUpdate =>
          /\ pc = "transportURL"
          /\ \/ /\ Went("ospSecret") /\ Only(inst', Truths({"RabbitMqTransportURL"}))
             \/ Waited("RabbitMqTransportURL")
    BY <1>1, <1>2, WaitStep, Zenon DEF TransportURLCreateOrUpdate, Call, Continue, Went
  <1>5. GetOspSecret =>
          /\ pc = "ospSecret"
          /\ (Went("memcached") /\ inst' = inst) \/ Waited("Input")
    BY <1>1, WaitStep, Zenon DEF GetOspSecret, Call, Continue, Went
  <1>6. GetAutoscalingMemcached =>
          /\ pc = "memcached"
          /\ \/ /\ Went("heat") /\ Only(inst', Truths({"Memcached"}))
                /\ mc # None /\ got' = [got EXCEPT !.servers = mc]
             \/ Waited("Memcached") /\ got' = got
    BY <1>1, <1>2, WaitStep, Zenon DEF GetAutoscalingMemcached, Call, Continue, Went
  <1>7. GetAutoscalingHeat =>
          /\ pc = "heat"
          /\ (Went("transportSecret") /\ Only(inst', Truths({"Heat"}))) \/ Waited("Heat")
    BY <1>1, <1>2, WaitStep, Zenon DEF GetAutoscalingHeat, Call, Continue, Went
  <1>8. GetTransportSecret =>
          /\ pc = "transportSecret"
          /\ \/ /\ Went("config") /\ inst' = inst
                /\ tsecret # None /\ got' = [got EXCEPT !.transport = tsecret]
             \/ Waited("Input") /\ got' = got
    BY <1>1, WaitStep, Zenon DEF GetTransportSecret, Call, Continue, Went
  <1> QED BY <1>3, <1>4, <1>5, <1>6, <1>7, <1>8, Zenon

\* What has been read when the configuration is rendered.
GotInv ==
  /\ pc \in {"heat", "transportSecret", "config"} => got.servers \in ServerLists
  /\ pc = "config" => got.transport \in TransportURLs

\* The resource that a pass works on has a spec.
LEMMA PassSpec ==
  ASSUME R!HeldInv, pc # "idle"
  PROVE  /\ inst.spec \in AutoscalingSpec
         /\ inst.spec.config \in Configs /\ inst.spec.image \in Images
  BY DEF R!HeldInv, R!PassObject, R!SameObject, AutoscalingSpec

LEMMA RenderedType ==
  ASSUME TypeOK, R!HeldInv, GotInv, pc = "config", tsecret # None
  PROVE  Rendered \in Content /\ InputHash \in Hash
  <1>1. Rendered \in Content
    BY PassSpec, InstType
       DEF GotInv, Rendered, Content, TypeOK, ReconcilerType, ObjectsType, AutoscalingStatus
  <1> QED BY <1>1 DEF InputHash, Hash, GotInv

\* The configuration and its hash.
LEMMA ConfigCall ==
  ASSUME TypeOK, R!HeldInv, GotInv, GenerateServiceConfig
  PROVE  /\ pc = "config" /\ before' = before /\ got' = got
         /\ \/ Waited("ServiceConfig") /\ UNCHANGED <<queued, config>>
            \/ /\ InputHash \in Hash /\ Rendered \in Content /\ WriteConfig
               /\ Kept(inst') /\ inst'.status.conds = inst.status.conds
               /\ inst'.status.dbsync = inst.status.dbsync /\ inst'.status.host = inst.status.host
               /\ inst'.status.hash = InputHash
               /\ \/ pc' = "patch" /\ requeue' = FALSE /\ InputHash # inst.status.hash
                  \/ Went("ks") /\ InputHash = inst.status.hash
  <1>1. pc = "config" /\ inst \in Autoscaling /\ "ServiceConfig" \in CondTypes
        /\ before' = before /\ got' = got
    BY DEF GenerateServiceConfig, Call, Wait, Return, Continue, TypeOK, ReconcilerType, CondTypes
  <1>2. \/ Wait("ServiceConfig") /\ UNCHANGED <<queued, config>>
        \/ /\ tsecret # None /\ WriteConfig
           /\ \/ InputHash # inst.status.hash /\ Return([inst EXCEPT !.status.hash = InputHash], FALSE)
              \/ InputHash = inst.status.hash /\ Continue("ks", inst)
    BY Zenon DEF GenerateServiceConfig
  <1>3. CASE Wait("ServiceConfig") /\ UNCHANGED <<queued, config>>
    BY <1>1, <1>3, WaitStep
  <1>4. CASE /\ tsecret # None /\ WriteConfig
             /\ InputHash # inst.status.hash /\ Return([inst EXCEPT !.status.hash = InputHash], FALSE)
    <2>1. InputHash \in Hash /\ Rendered \in Content
      BY <1>1, <1>4, RenderedType
    <2>2. inst' = [inst EXCEPT !.status.hash = InputHash] /\ pc' = "patch" /\ requeue' = FALSE
      BY <1>4 DEF Return
    <2>3. /\ Kept(inst') /\ inst'.status.conds = inst.status.conds
          /\ inst'.status.dbsync = inst.status.dbsync /\ inst'.status.host = inst.status.host
          /\ inst'.status.hash = InputHash
      BY <1>1, <2>1, <2>2 DEF Kept, R!SameObject, Autoscaling, InstanceType, AutoscalingStatus
    <2> QED BY <1>1, <1>4, <2>1, <2>2, <2>3, Zenon
  <1>5. CASE /\ tsecret # None /\ WriteConfig
             /\ InputHash = inst.status.hash /\ Continue("ks", inst)
    <2>1. InputHash \in Hash /\ Rendered \in Content /\ Only(inst, inst.status.conds)
      BY <1>1, <1>5, RenderedType, InstType
    <2> QED BY <1>1, <1>5, <2>1, Zenon DEF Continue, Went, Only
  <1> QED BY <1>2, <1>3, <1>4, <1>5, Zenon

\* The handler returns.
Returned(again) == pc' = "patch" /\ requeue' = again /\ before' = before

\* The instance with the condition of an object mirrored.
Mirrors(o, t) ==
  \/ Ensured(o).ready = "Absent" /\ Only(inst', inst.status.conds)
  \/ Ensured(o).ready # "Absent" /\ Only(inst', CondSet(t, Ensured(o).ready))

\* The objects that the model writes.
LEMMA OwnedTypes ==
  ASSUME TypeOK, NEW o \in Owned
  PROVE  /\ owned[o] \in Object /\ NoObject \in Object /\ ~NoObject.finalizer
         /\ Ensured(o) \in Object /\ Ensured(o).finalizer
         /\ Deleted(o) \in Object /\ (Deleted(o).finalizer <=> owned[o].finalizer)
         /\ [owned[o] EXCEPT !.finalizer = FALSE] \in Object
         /\ ~[owned[o] EXCEPT !.finalizer = FALSE].finalizer
         /\ \A s \in Status : [owned[o] EXCEPT !.ready = s] \in Object
                              /\ [owned[o] EXCEPT !.ready = s].finalizer = owned[o].finalizer
  <1>1. owned[o] \in Object
    BY DEF TypeOK, ObjectsType
  <1>2. "Absent" \in Status
    BY DEF Status
  <1> QED BY <1>1, <1>2, Zenon DEF NoObject, Ensured, Deleted, Object

LEMMA MirroredMarks ==
  ASSUME TypeOK, NEW o \in Owned, NEW t \in CondTypes, inst' = Mirrored(o, t)
  PROVE  Mirrors(o, t)
  <1>1. inst \in Autoscaling /\ Ensured(o).ready \in Status
    BY OwnedTypes, Zenon DEF TypeOK, ReconcilerType, Object
  <1> QED BY <1>1, InstType, WithMarks, Zenon DEF Mirrored, Mirrors

LEMMA OwnedCalls ==
  ASSUME TypeOK, R!HeldInv
  PROVE  /\ EnsureKeystoneService =>
              /\ pc = "ks"
              /\ \/ /\ WriteOwned("ks", Ensured("ks"))
                    /\ Mirrors("ks", "KeystoneService")
                    /\ Went("db") \/ Returned(TRUE)
                 \/ UNCHANGED <<queued, owned>> /\ inst' = inst /\ Returned(TRUE)
         /\ EnsureDatabase =>
              /\ pc = "db" /\ WriteOwned("db", Ensured("db"))
              /\ \/ /\ Went("job") /\ Kept(inst')
                    /\ inst'.status.conds = Truths({"DB"}) /\ inst'.status.host = inst.spec.config
                    /\ inst'.status.hash = inst.status.hash
                    /\ inst'.status.dbsync = inst.status.dbsync
                 \/ Waited("DB")
         /\ EnsureKeystoneEndpoint =>
              /\ pc = "endpoint" /\ WriteOwned("endpoint", Ensured("endpoint"))
              /\ Mirrors("endpoint", "KeystoneEndpoint")
              /\ \E again \in BOOLEAN : Returned(again)
  <1>1. inst \in Autoscaling /\ {"KeystoneService", "KeystoneEndpoint", "DB"} \subseteq CondTypes
        /\ {"ks", "db", "endpoint"} \subseteq Owned
    BY DEF TypeOK, ReconcilerType, CondTypes, Owned
  <1>2. ASSUME EnsureKeystoneService
        PROVE  /\ pc = "ks"
               /\ \/ /\ WriteOwned("ks", Ensured("ks"))
                     /\ Mirrors("ks", "KeystoneService")
                     /\ Went("db") \/ Returned(TRUE)
                  \/ UNCHANGED <<queued, owned>> /\ inst' = inst /\ Returned(TRUE)
    BY <1>1, <1>2, MirroredMarks, Zenon
       DEF EnsureKeystoneService, Call, Continue, Return, Went, Returned
  <1>3. ASSUME EnsureDatabase
        PROVE  /\ pc = "db" /\ WriteOwned("db", Ensured("db"))
               /\ \/ /\ Went("job") /\ Kept(inst')
                     /\ inst'.status.conds = Truths({"DB"}) /\ inst'.status.host = inst.spec.config
                     /\ inst'.status.hash = inst.status.hash
                     /\ inst'.status.dbsync = inst.status.dbsync
                  \/ Waited("DB")
    <2>1. pc = "db" /\ WriteOwned("db", Ensured("db"))
      BY <1>3 DEF EnsureDatabase, Call
    <2>2. \/ Continue("job", [WithTrue({"DB"}) EXCEPT !.status.host = inst.spec.config])
          \/ Wait("DB")
      BY <1>3, Zenon DEF EnsureDatabase
    <2>3. CASE Continue("job", [WithTrue({"DB"}) EXCEPT !.status.host = inst.spec.config])
      <3> DEFINE i == WithTrue({"DB"})
      <3>1. Only(i, Truths({"DB"})) /\ inst.spec.config \in Configs
        BY <1>1, <2>1, WithTrueMarks, PassSpec
      <3>2. inst' = [i EXCEPT !.status.host = inst.spec.config] /\ Went("job")
        BY <2>3 DEF Continue, Went
      <3> HIDE DEF i
      <3>3. /\ Kept(inst') /\ inst'.status.conds = Truths({"DB"})
            /\ inst'.status.host = inst.spec.config
            /\ inst'.status.hash = inst.status.hash /\ inst'.status.dbsync = inst.status.dbsync
        BY <3>1, <3>2 DEF Only, Kept, R!SameObject, Autoscaling, InstanceType, AutoscalingStatus
      <3> QED BY <2>1, <3>2, <3>3
    <2>4. CASE Wait("DB")
      BY <1>1, <2>1, <2>4, WaitStep
    <2> QED BY <2>2, <2>3, <2>4
  <1>4. ASSUME EnsureKeystoneEndpoint
        PROVE  /\ pc = "endpoint" /\ WriteOwned("endpoint", Ensured("endpoint"))
               /\ Mirrors("endpoint", "KeystoneEndpoint")
               /\ \E again \in BOOLEAN : Returned(again)
    BY <1>1, <1>4, MirroredMarks, Zenon DEF EnsureKeystoneEndpoint, Call, Return, Returned
  <1> QED BY <1>2, <1>3, <1>4, Zenon

LEMMA DeployCalls ==
  ASSUME TypeOK, R!HeldInv
  PROVE  /\ DoJob =>
              /\ pc = "job"
              /\ \/ /\ Went("statefulset") /\ Kept(inst')
                    /\ inst'.status.conds = Truths({"DBSync"})
                    /\ inst'.status.dbsync = inst.spec.image
                    /\ inst'.status.hash = inst.status.hash /\ inst'.status.host = inst.status.host
                    /\ job' \in {job, NoJob}
                    /\ ~JobWanted \/ JobDone
                 \/ Waited("DBSync") /\ JobWanted /\ job' = StartedJob
         /\ ReconcileStatefulSet =>
              /\ pc = "statefulset" /\ CreateOrPatchStatefulSet /\ Went("services")
              /\ Kept(inst') /\ inst'.status.hash = inst.status.hash
              /\ inst'.status.dbsync = inst.status.dbsync /\ inst'.status.host = inst.status.host
              /\ inst'.status.conds \in {inst.status.conds, CondSet("Deployment", "True")}
         /\ ExposeServices =>
              /\ pc = "services" /\ Went("endpoint")
              /\ Only(inst', Truths({"ExposeService"}))
  <1>1. inst \in Autoscaling /\ "DBSync" \in CondTypes
    BY DEF TypeOK, ReconcilerType, CondTypes
  <1>2. ASSUME DoJob
        PROVE  /\ pc = "job"
               /\ \/ /\ Went("statefulset") /\ Kept(inst')
                     /\ inst'.status.conds = Truths({"DBSync"})
                     /\ inst'.status.dbsync = inst.spec.image
                     /\ inst'.status.hash = inst.status.hash /\ inst'.status.host = inst.status.host
                     /\ job' \in {job, NoJob}
                     /\ ~JobWanted \/ JobDone
                  \/ Waited("DBSync") /\ JobWanted /\ job' = StartedJob
    <2>1. pc = "job"
      BY <1>2 DEF DoJob, Call
    <2>2. \/ /\ Continue("statefulset", Synced) /\ job' \in {job, NoJob}
             /\ ~JobWanted \/ JobDone
          \/ Wait("DBSync") /\ JobWanted /\ job' = StartedJob
      BY <1>2, Zenon DEF DoJob
    <2>3. CASE /\ Continue("statefulset", Synced) /\ job' \in {job, NoJob}
               /\ ~JobWanted \/ JobDone
      <3> DEFINE i == WithTrue({"DBSync"})
      <3>1. Only(i, Truths({"DBSync"})) /\ inst.spec.image \in Images
        BY <1>1, <2>1, WithTrueMarks, PassSpec
      <3>2. inst' = [i EXCEPT !.status.dbsync = inst.spec.image] /\ Went("statefulset")
        BY <2>3 DEF Continue, Went, Synced
      <3> HIDE DEF i
      <3>3. /\ Kept(inst') /\ inst'.status.conds = Truths({"DBSync"})
            /\ inst'.status.dbsync = inst.spec.image
            /\ inst'.status.hash = inst.status.hash /\ inst'.status.host = inst.status.host
        BY <3>1, <3>2 DEF Only, Kept, R!SameObject, Autoscaling, InstanceType, AutoscalingStatus
      <3> QED BY <2>1, <2>3, <3>2, <3>3
    <2>4. CASE Wait("DBSync") /\ JobWanted /\ job' = StartedJob
      BY <1>1, <2>1, <2>4, WaitStep
    <2> QED BY <2>2, <2>3, <2>4
  <1>3. ASSUME ReconcileStatefulSet
        PROVE  /\ pc = "statefulset" /\ CreateOrPatchStatefulSet /\ Went("services")
               /\ Kept(inst') /\ inst'.status.hash = inst.status.hash
               /\ inst'.status.dbsync = inst.status.dbsync /\ inst'.status.host = inst.status.host
               /\ inst'.status.conds \in {inst.status.conds, CondSet("Deployment", "True")}
    BY <1>3, CountedKept, Zenon DEF ReconcileStatefulSet, Call, Continue, Went
  <1>4. ASSUME ExposeServices
        PROVE  /\ pc = "services" /\ Went("endpoint")
               /\ Only(inst', Truths({"ExposeService"}))
    BY <1>1, <1>4, WithTrueMarks, Zenon DEF ExposeServices, Call, Continue, Went
  <1> QED BY <1>2, <1>3, <1>4, Zenon

\* A call that fails sets at most one condition, to False.
LEMMA OnErrorMarks ==
  ASSUME TypeOK, NEW step \in Steps
  PROVE  /\ \/ OnError(step) = inst
            \/ \E t \in CondTypes \ {"Ready"} : Only(OnError(step), CondSet(t, "False"))
         /\ step \in AodhDeleteSteps => OnError(step) = inst
  <1>1. \A s \in DOMAIN ErrorCondition : ErrorCondition[s] \in CondTypes \ {"Ready"}
    BY DEF ErrorCondition, CondTypes
  <1>2. AodhDeleteSteps \cap DOMAIN ErrorCondition = {}
    BY DEF ErrorCondition, AodhDeleteSteps
  <1> HIDE DEF ErrorCondition
  <1>3. inst \in Autoscaling
    BY DEF TypeOK, ReconcilerType
  <1> QED BY <1>1, <1>2, <1>3, CondNames, WithMarks, Zenon DEF OnError

(***************************************************************************)
(* Each step is one of those that the general facts are about              *)
(***************************************************************************)
\* A disturbance or a fault keeps the counters in their bounds.
CountsDown ==
  \/ UNCHANGED <<faults, changes>> \/ (Fault /\ UNCHANGED changes)
  \/ (Disturb /\ UNCHANGED faults)

\* The key stays in the queue.
StaysQueued == queued' \in BOOLEAN /\ (queued => queued')

LEMMA CountsKept == ASSUME TypeOK, CountsDown, StaysQueued PROVE R!Counts
  BY BoundAssumption DEF TypeOK, ReconcilerType, Fault, Disturb, CountsDown, StaysQueued, R!Counts

LEMMA NormalNames ==
  R!NormalSteps = {"rbac", "transportURL", "ospSecret", "memcached", "heat", "transportSecret",
                   "config", "ks", "db", "job", "statefulset", "services", "endpoint"}
  BY DEF R!NormalSteps, Steps, AodhDeleteSteps

LEMMA PassMoves ==
  ASSUME TypeOK, pc \in R!NormalSteps, UNCHANGED server, CountsDown, StaysQueued, Kept(inst'),
         pc' \in {"patch"} \cup R!NormalSteps, requeue' \in BOOLEAN, before' = before
  PROVE  R!PassStep
  <1>1. pc \notin {"idle", "patch"} \cup AodhDeleteSteps
    BY NormalNames DEF AodhDeleteSteps
  <1>2. R!Counts
    BY CountsKept
  <1> QED BY <1>1, <1>2, Types, Zenon DEF Kept, server, R!PassStep, R!resource

\* What a pass writes.
LEMMA WriteOwnedType ==
  ASSUME TypeOK, NEW o \in Owned, NEW x \in Object, WriteOwned(o, x)
  PROVE  owned' \in [Owned -> Object] /\ StaysQueued
  <1>1. owned' \in [Owned -> Object]
    BY DEF TypeOK, ObjectsType, WriteOwned
  <1> QED BY <1>1, Zenon DEF TypeOK, ReconcilerType, WriteOwned, StaysQueued

LEMMA ReleaseType ==
  ASSUME TypeOK, NEW o \in Owned, Release(o)
  PROVE  /\ owned' \in [Owned -> Object] /\ StaysQueued
         /\ ~owned'[o].finalizer /\ \A p \in Owned \ {o} : owned'[p] = owned[p]
  <1>1. \E x \in Object : WriteOwned(o, x) /\ ~x.finalizer
    BY OwnedTypes, Zenon DEF Release
  <1>2. owned' \in [Owned -> Object] /\ StaysQueued
    BY <1>1, WriteOwnedType
  <1> QED BY <1>1, <1>2 DEF WriteOwned, TypeOK, ObjectsType

LEMMA EnsuredType ==
  ASSUME TypeOK, NEW o \in Owned, WriteOwned(o, Ensured(o))
  PROVE  /\ owned' \in [Owned -> Object] /\ StaysQueued
         /\ owned'[o].finalizer /\ \A p \in Owned \ {o} : owned'[p] = owned[p]
  <1>1. owned' \in [Owned -> Object] /\ StaysQueued
    BY OwnedTypes, WriteOwnedType, Zenon
  <1> QED BY <1>1, OwnedTypes, Zenon DEF WriteOwned, TypeOK, ObjectsType

LEMMA StatefulSetType ==
  ASSUME TypeOK, R!HeldInv, pc # "idle", CreateOrPatchStatefulSet
  PROVE  /\ sts' \in StatefulSet /\ StaysQueued
         /\ sts'.hash = inst.status.hash /\ sts'.image = inst.spec.image
  <1>1. sts' = [sts EXCEPT !.hash = inst.status.hash, !.image = inst.spec.image]
    BY DEF CreateOrPatchStatefulSet
  <1>2. inst.status.hash \in Hash \cup {None} /\ inst.spec.image \in Images /\ sts \in StatefulSet
    BY PassSpec, InstType DEF TypeOK, ReconcilerType, ObjectsType, AutoscalingStatus
  <1>3. /\ sts' \in StatefulSet
        /\ sts'.hash = inst.status.hash /\ sts'.image = inst.spec.image
    BY <1>1, <1>2, Zenon DEF StatefulSet
  <1> QED BY <1>3, Zenon DEF TypeOK, ReconcilerType, CreateOrPatchStatefulSet, StaysQueued

LEMMA StartedJobType ==
  ASSUME TypeOK, R!HeldInv, pc # "idle" PROVE StartedJob \in Job /\ NoJob \in Job
  BY PassSpec DEF TypeOK, ObjectsType, StartedJob, NoJob, Job

LEMMA InputSteps ==
  ASSUME TypeOK, GotInv,
         \/ ReconcileRbac \/ TransportURLCreateOrUpdate \/ GetOspSecret \/ GetAutoscalingMemcached
         \/ GetAutoscalingHeat \/ GetTransportSecret
  PROVE  R!PassStep /\ ObjectsType' /\ GotInv'
  <1> USE DEF Waited, Went
  <1>1. inst \in Autoscaling /\ queued \in BOOLEAN /\ requeue \in BOOLEAN /\ ObjectsType
    BY DEF TypeOK, ReconcilerType
  <1>2. UNCHANGED server /\ CountsDown
    BY Zenon DEF ReconcileRbac, TransportURLCreateOrUpdate, GetOspSecret, GetAutoscalingMemcached,
           GetAutoscalingHeat, GetTransportSecret, Call, limits, CountsDown
  <1>3. /\ pc \in R!NormalSteps /\ pc' \in {"patch"} \cup R!NormalSteps
        /\ requeue' \in BOOLEAN /\ before' = before
    BY <1>1, InputCalls, NormalNames, Zenon
  <1>4. Kept(inst')
    BY <1>1, InputCalls, InstType, Zenon DEF Only
  <1>5. StaysQueued
    BY <1>1, Zenon DEF ReconcileRbac, TransportURLCreateOrUpdate, CreateTransportURL, GetOspSecret,
           GetAutoscalingMemcached, GetAutoscalingHeat, GetTransportSecret, StaysQueued
  <1>6. /\ got' \in [transport : TransportURLs \cup {None}, servers : ServerLists \cup {None}]
        /\ GotInv'
    <2>1. CASE GetAutoscalingMemcached \/ GetTransportSecret
      BY <1>1, <2>1, InputCalls, Zenon DEF GotInv, ObjectsType
    <2>2. CASE ~(GetAutoscalingMemcached \/ GetTransportSecret)
      <3>1. got' = got
        BY <2>2 DEF ReconcileRbac, TransportURLCreateOrUpdate, GetOspSecret, GetAutoscalingHeat
      <3>2. pc' \in {"transportURL", "ospSecret", "memcached", "transportSecret", "patch"}
            /\ (pc' = "transportSecret" => pc = "heat")
        BY <2>2, InputCalls, Zenon
      <3> QED BY <1>1, <3>1, <3>2 DEF GotInv, ObjectsType
    <2> QED BY <2>1, <2>2
  <1>7. UNCHANGED <<tsecret, osp, mc, heat, outputs>> /\ turl' \in {turl, "pending"}
    BY Zenon DEF ReconcileRbac, TransportURLCreateOrUpdate, CreateTransportURL, GetOspSecret,
           GetAutoscalingMemcached, GetAutoscalingHeat, GetTransportSecret, inputs
  <1>8. ObjectsType'
    BY <1>1, <1>6, <1>7 DEF ObjectsType, outputs
  <1> QED BY <1>2, <1>3, <1>4, <1>5, <1>6, <1>8, PassMoves

LEMMA ConfigStep ==
  ASSUME TypeOK, R!HeldInv, GotInv, GenerateServiceConfig
  PROVE  R!PassStep /\ ObjectsType' /\ GotInv'
  <1>1. queued \in BOOLEAN /\ requeue \in BOOLEAN /\ ObjectsType
    BY DEF TypeOK, ReconcilerType
  <1>2. UNCHANGED server /\ CountsDown
    BY DEF GenerateServiceConfig, Call, limits, CountsDown
  <1>3. /\ pc = "config" /\ pc' \in {"patch", "ks"} /\ Kept(inst')
        /\ requeue' \in BOOLEAN /\ before' = before /\ got' = got
    BY <1>1, ConfigCall, Zenon DEF Waited, Went, Only
  <1>4. StaysQueued /\ config' \in Content \cup {None}
    <2>1. CASE UNCHANGED <<queued, config>>
      BY <1>1, <2>1 DEF StaysQueued, ObjectsType
    <2>2. CASE WriteConfig /\ Rendered \in Content
      BY <1>1, <2>2, Zenon DEF WriteConfig, StaysQueued
    <2> QED BY <2>1, <2>2, ConfigCall, Zenon
  <1>5. ObjectsType'
    BY <1>1, <1>4 DEF GenerateServiceConfig, inputs, ObjectsType
  <1> QED BY <1>2, <1>3, <1>4, <1>5, PassMoves, NormalNames DEF GotInv

LEMMA LaterSteps ==
  ASSUME TypeOK, R!HeldInv,
         \/ EnsureKeystoneService \/ EnsureDatabase \/ DoJob
         \/ ReconcileStatefulSet \/ ExposeServices \/ EnsureKeystoneEndpoint
  PROVE  R!PassStep /\ ObjectsType' /\ GotInv'
  <1> USE DEF Waited, Went, Returned
  <1>1. inst \in Autoscaling /\ queued \in BOOLEAN /\ requeue \in BOOLEAN /\ ObjectsType
    BY DEF TypeOK, ReconcilerType
  <1>2. UNCHANGED <<server, got, inputs, config, schema>> /\ CountsDown
    BY Zenon DEF EnsureKeystoneService, EnsureDatabase, DoJob, ReconcileStatefulSet, ExposeServices,
           EnsureKeystoneEndpoint, Call, limits, outputs, CountsDown
  <1>3. /\ pc \in {"ks", "db", "job", "statefulset", "services", "endpoint"}
        /\ pc' \in {"patch", "db", "job", "statefulset", "services", "endpoint"}
        /\ requeue' \in BOOLEAN /\ before' = before
    BY <1>1, OwnedCalls, DeployCalls, Zenon
  <1>4. Kept(inst')
    BY <1>1, OwnedCalls, DeployCalls, InstType, Zenon DEF Only, Mirrors
  <1>5. owned' \in [Owned -> Object] /\ job' \in Job /\ sts' \in StatefulSet /\ StaysQueued
    <2>1. CASE EnsureKeystoneService \/ EnsureDatabase \/ EnsureKeystoneEndpoint
      <3>1. UNCHANGED <<job, sts>>
        BY <2>1, Zenon DEF EnsureKeystoneService, EnsureDatabase, EnsureKeystoneEndpoint
      <3>2. UNCHANGED <<queued, owned>> \/ \E o \in Owned : WriteOwned(o, Ensured(o))
        BY <2>1, OwnedCalls, Zenon DEF Owned
      <3>3. owned' \in [Owned -> Object] /\ StaysQueued
        BY <1>1, <3>2, EnsuredType DEF ObjectsType, StaysQueued
      <3> QED BY <1>1, <3>1, <3>3 DEF ObjectsType
    <2>2. CASE DoJob
      <3>1. job' \in Job
        BY <1>1, <1>3, <2>2, DeployCalls, StartedJobType, Zenon DEF ObjectsType
      <3> QED BY <1>1, <2>2, <3>1 DEF DoJob, ObjectsType, StaysQueued
    <2>3. CASE ReconcileStatefulSet
      <3>1. sts' \in StatefulSet /\ StaysQueued
        BY <1>3, <2>3, DeployCalls, StatefulSetType
      <3> QED BY <1>1, <2>3, <3>1 DEF ReconcileStatefulSet, ObjectsType
    <2>4. CASE ExposeServices
      BY <1>1, <2>4 DEF ExposeServices, outputs, ObjectsType, StaysQueued
    <2> QED BY <2>1, <2>2, <2>3, <2>4
  <1>6. ObjectsType' /\ GotInv'
    BY <1>1, <1>2, <1>3, <1>5 DEF ObjectsType, inputs, GotInv
  <1> QED BY <1>2, <1>3, <1>4, <1>5, <1>6, PassMoves, NormalNames

\* The finalizers go in turn.
LEMMA DeleteCalls ==
  ASSUME TypeOK, ReconcileDeleteAodh
  PROVE  /\ \/ /\ pc = "delete" /\ Release("db") /\ pc' = "deleteKs" /\ inst' = inst
            \/ /\ pc = "deleteKs" /\ Release("ks") /\ pc' = "deleteEndpoint" /\ inst' = inst
            \/ /\ pc = "deleteEndpoint" /\ Release("endpoint") /\ pc' = "patch"
               /\ inst' = [inst EXCEPT !.finalizer = FALSE]
         /\ requeue' \in BOOLEAN /\ before' = before
         /\ UNCHANGED <<server, limits, got, inputs, config, job, schema, sts>>
  BY Zenon DEF ReconcileDeleteAodh, DeleteStep, Call, Continue, Return, TypeOK, ReconcilerType

LEMMA DeleteSteps ==
  ASSUME TypeOK, ReconcileDeleteAodh PROVE R!ControllerStep /\ ObjectsType' /\ GotInv'
  <1>1. \E o \in Owned : Release(o)
    BY DeleteCalls, Zenon DEF Owned
  <1>2. owned' \in [Owned -> Object] /\ StaysQueued
    BY <1>1, ReleaseType
  <1>3. R!Counts
    BY <1>2, CountsKept, DeleteCalls DEF limits, CountsDown
  <1>4. R!PassStep \/ R!ReleaseStep
    <2>1. inst \in R!Instances /\ pc \in AodhDeleteSteps /\ pc \notin {"idle", "patch"}
      BY Types, DeleteCalls DEF TypeOK, ReconcilerType, AodhDeleteSteps
    <2>2. CASE inst' = inst /\ pc' \in AodhDeleteSteps
      BY <1>3, <2>1, <2>2, DeleteCalls, Zenon DEF server, R!PassStep, R!SameObject, R!resource
    <2>3. CASE inst' = [inst EXCEPT !.finalizer = FALSE] /\ pc' = "patch"
      BY <1>3, <2>1, <2>3, DeleteCalls, Zenon DEF server, R!ReleaseStep, R!resource
    <2> QED BY <2>2, <2>3, DeleteCalls, Zenon DEF AodhDeleteSteps
  <1>5. ObjectsType' /\ GotInv'
    BY <1>2, DeleteCalls DEF inputs, TypeOK, ObjectsType, GotInv
  <1> QED BY <1>4, <1>5 DEF R!ControllerStep

\* What a failed call leaves behind.
LEMMA WrittenType ==
  ASSUME TypeOK, R!HeldInv, GotInv, pc # "idle", UNCHANGED got,
         Written \/ UNCHANGED <<queued, inputs, outputs>>
  PROVE  ObjectsType' /\ StaysQueued
  <1> USE DEF inputs, outputs
  <1>1. queued \in BOOLEAN /\ ObjectsType
    BY DEF TypeOK, ReconcilerType
  <1>2. CASE UNCHANGED <<queued, inputs, outputs>>
    BY <1>1, <1>2 DEF StaysQueued, ObjectsType
  <1>3. CASE CreateTransportURL /\ UNCHANGED <<tsecret, osp, mc, heat, outputs>>
    <2>1. turl' \in {"absent", "pending", "ready"} /\ StaysQueued
      BY <1>1, <1>3, Zenon DEF CreateTransportURL, ObjectsType, StaysQueued
    <2> QED BY <1>1, <1>3, <2>1 DEF ObjectsType
  <1>4. CASE /\ pc = "config" /\ tsecret # None /\ WriteConfig
             /\ UNCHANGED <<inputs, owned, job, schema, sts>>
    <2>1. config' \in Content /\ StaysQueued
      BY <1>1, <1>4, RenderedType, Zenon DEF WriteConfig, StaysQueued
    <2> QED BY <1>1, <1>4, <2>1 DEF ObjectsType
  <1>5. CASE /\ \E o \in Owned : Release(o) \/ WriteOwned(o, Ensured(o))
             /\ UNCHANGED <<inputs, config, job, schema, sts>>
    <2>1. owned' \in [Owned -> Object] /\ StaysQueued
      BY <1>5, ReleaseType, EnsuredType
    <2> QED BY <1>1, <1>5, <2>1 DEF ObjectsType
  <1>6. CASE /\ job' = StartedJob /\ UNCHANGED <<queued, inputs, config, owned, schema, sts>>
    BY <1>1, <1>6, StartedJobType DEF ObjectsType, StaysQueued
  <1>7. CASE CreateOrPatchStatefulSet /\ UNCHANGED <<inputs, config, owned, job, schema>>
    BY <1>1, <1>7, StatefulSetType DEF ObjectsType
  <1>8. {"db", "ks", "endpoint"} \subseteq Owned
    BY DEF Owned
  <1> QED BY <1>2, <1>3, <1>4, <1>5, <1>6, <1>7, <1>8, Zenon DEF Written

LEMMA FailStep ==
  ASSUME TypeOK, R!HeldInv, GotInv, CallFails PROVE R!PassStep /\ ObjectsType' /\ GotInv'
  <1>1. /\ inst \in Autoscaling /\ pc \in Steps \ {"idle", "patch"}
        /\ UNCHANGED <<server, got>> /\ CountsDown /\ Return(OnError(pc), TRUE)
    BY Zenon DEF TypeOK, ReconcilerType, CallFails, CountsDown
  <1>2. Kept(OnError(pc)) /\ (pc \in AodhDeleteSteps => OnError(pc) = inst)
    BY <1>1, InstType, OnErrorMarks, Zenon DEF Only
  <1>3. ObjectsType' /\ StaysQueued
    BY <1>1, WrittenType, Zenon DEF CallFails
  <1>4. R!Counts
    BY <1>1, <1>3, CountsKept
  <1>5. R!PassStep
    BY <1>1, <1>2, <1>4, Types, Zenon DEF Return, Kept, server, R!PassStep, R!resource
  <1> QED BY <1>1, <1>3, <1>5 DEF Return, GotInv

LEMMA WorkSteps ==
  ASSUME TypeOK, R!HeldInv, GotInv, Work \/ CallFails
  PROVE  R!ControllerStep /\ ObjectsType' /\ GotInv'
  <1>1. CASE Reconcile \/ PatchStep
    <2>1. R!BeginStep \/ R!EndStep
      BY <1>1, Actions
    <2>2. ObjectsType'
      BY <1>1 DEF Reconcile, PatchStep, inputs, outputs, TypeOK, ObjectsType, NoGot
    <2>3. pc' \in {"idle", "patch", "delete", "rbac"}
      BY <1>1, Zenon DEF Reconcile, NotFound, AddFinalizer, InitStatus, Dispatch, Fetch, Begin,
                  PatchStep, Patch, PatchFails, Done, worker
    <2> QED BY <2>1, <2>2, <2>3 DEF R!ControllerStep, GotInv
  <1>2. CASE ~(Reconcile \/ PatchStep)
    BY <1>2, DeleteSteps, InputSteps, ConfigStep, LaterSteps, FailStep, Zenon
       DEF Work, R!ControllerStep
  <1> QED BY <1>1, <1>2

\* What happens to other objects while the worker does nothing.
Outside ==
  \/ ResyncAutoscaling \/ Provide \/ GarbageCollect
  \/ TransportURLChanged \/ MemcachedChanged \/ InputLost \/ PodsLost
  \/ (\E o \in Owned : OwnedDisturbed(o)) \/ UNCHANGED vars

LEMMA OutsideOwned ==
  ASSUME TypeOK, (\E o \in Owned : Registered(o) \/ OwnedDisturbed(o)) \/ GarbageCollect
  PROVE  /\ owned' \in [Owned -> Object] /\ StaysQueued
         /\ \A o \in Owned : owned'[o].finalizer <=> owned[o].finalizer
  <1>1. CASE \E o \in Owned : Registered(o) \/ OwnedDisturbed(o)
    <2>1. PICK o \in Owned : Registered(o) \/ OwnedDisturbed(o)
      BY <1>1
    <2>2. \E x \in Object : WriteOwned(o, x) /\ (x.finalizer <=> owned[o].finalizer)
      <3>1. /\ Deleted(o) \in Object /\ (Deleted(o).finalizer <=> owned[o].finalizer)
            /\ \A r \in {"True", "False"} :
                 /\ [owned[o] EXCEPT !.ready = r] \in Object
                 /\ [owned[o] EXCEPT !.ready = r].finalizer <=> owned[o].finalizer
        BY CondNames, OwnedTypes, Zenon
      <3>2. \/ WriteOwned(o, Deleted(o))
            \/ \E r \in {"True", "False"} : WriteOwned(o, [owned[o] EXCEPT !.ready = r])
        BY <2>1, Zenon DEF Registered, OwnedDisturbed
      <3> QED BY <3>1, <3>2, Zenon
    <2>3. PICK x \in Object : WriteOwned(o, x) /\ (x.finalizer <=> owned[o].finalizer)
      BY <2>2
    <2>4. owned' \in [Owned -> Object] /\ StaysQueued
      BY <2>3, WriteOwnedType
    <2>5. owned' = [owned EXCEPT ![o] = x] /\ owned \in [Owned -> Object]
      BY <2>3 DEF WriteOwned, TypeOK, ObjectsType
    <2>6. \A p \in Owned : owned'[p].finalizer <=> owned[p].finalizer
      BY <2>3, <2>5
    <2> QED BY <2>4, <2>6
  <1>2. CASE GarbageCollect
    <2>1. \A o \in Owned : /\ Deleted(o) \in Object /\ owned[o] \in Object
                           /\ Deleted(o).finalizer <=> owned[o].finalizer
      BY OwnedTypes, Zenon
    <2>2. owned' = [o \in Owned |-> IF owned[o].state = "live" THEN Deleted(o) ELSE owned[o]]
          /\ queued' = TRUE
      BY <1>2 DEF GarbageCollect
    <2> QED BY <2>1, <2>2 DEF StaysQueued
  <1> QED BY <1>1, <1>2

LEMMA OutsideSteps ==
  ASSUME TypeOK, GotInv, Outside PROVE R!OutsideStep /\ ObjectsType' /\ GotInv' /\ UNCHANGED pass
  <1> USE DEF inputs, outputs
  <1>1. queued \in BOOLEAN /\ ObjectsType
    BY DEF TypeOK, ReconcilerType
  <1>2. UNCHANGED <<server, pass, got>>
    BY Zenon DEF Outside, Provide, ResyncAutoscaling, Resync, resource, worker, server, pass,
           TransportURLProvided, TransportURLChanged, MemcachedProvided, MemcachedChanged,
           MemcachedSet, InputProvided, InputLost, Unwatched, Registered, OwnedDisturbed,
           JobSucceeds, PodsReady, PodsLost, Pods, GarbageCollect, vars
  <1>3. CountsDown
    BY Zenon DEF Outside, Provide, ResyncAutoscaling, Resync, bounds, limits,
           TransportURLProvided, TransportURLChanged, MemcachedProvided, MemcachedChanged,
           InputProvided, InputLost, Registered, OwnedDisturbed,
           JobSucceeds, PodsReady, PodsLost, GarbageCollect, vars, CountsDown
  <1>4. StaysQueued /\ ObjectsType'
    <2>1. CASE ResyncAutoscaling \/ UNCHANGED vars
      BY <1>1, <2>1, Zenon DEF ResyncAutoscaling, Resync, vars, ObjectsType, StaysQueued
    <2>2. CASE TransportURLProvided \/ TransportURLChanged
      <3>1. StaysQueued
        BY <1>1, <2>2, Zenon DEF TransportURLProvided, TransportURLChanged, StaysQueued
      <3> QED BY <1>1, <2>2, <3>1 DEF TransportURLProvided, TransportURLChanged, ObjectsType
    <2>3. CASE MemcachedProvided \/ MemcachedChanged
      <3>1. PICK m \in ServerLists \cup {None} : MemcachedSet(m)
        BY <2>3 DEF MemcachedProvided, MemcachedChanged
      <3>2. StaysQueued
        BY <1>1, <3>1, Zenon DEF MemcachedSet, StaysQueued
      <3> QED BY <1>1, <3>1, <3>2 DEF MemcachedSet, ObjectsType
    <2>4. CASE InputProvided \/ InputLost
      BY <1>1, <2>4, Zenon DEF InputProvided, InputLost, Unwatched, ObjectsType, StaysQueued
    <2>5. CASE \E o \in Owned : Registered(o) \/ OwnedDisturbed(o)
      <3>1. owned' \in [Owned -> Object] /\ StaysQueued
        BY <2>5, OutsideOwned
      <3> QED BY <1>1, <2>5, <3>1, Zenon DEF Registered, OwnedDisturbed, ObjectsType
    <2>6. CASE JobSucceeds
      <3>1. job' \in Job /\ schema' \subseteq Images
        BY <1>1, <2>6, Zenon DEF JobSucceeds, ObjectsType, Job
      <3> QED BY <1>1, <2>6, <3>1 DEF JobSucceeds, ObjectsType, StaysQueued
    <2>7. CASE PodsReady \/ PodsLost
      <3>1. sts' \in StatefulSet
        BY <1>1, <2>7 DEF PodsReady, PodsLost, Pods, ObjectsType, StatefulSet
      <3> QED BY <1>1, <2>7, <3>1, Zenon DEF PodsReady, PodsLost, Pods, ObjectsType, StaysQueued
    <2>8. CASE GarbageCollect
      <3>1. owned' \in [Owned -> Object] /\ StaysQueued
        BY <2>8, OutsideOwned
      <3>2. schema' \subseteq Images /\ NoJob \in Job /\ NoStatefulSet \in StatefulSet
        BY <1>1, <2>8 DEF GarbageCollect, ObjectsType, NoJob, Job, NoStatefulSet, StatefulSet
      <3> QED BY <1>1, <1>2, <2>8, <3>1, <3>2 DEF GarbageCollect, ObjectsType
    <2> QED BY <2>1, <2>2, <2>3, <2>4, <2>5, <2>6, <2>7, <2>8 DEF Outside, Provide
  <1>5. R!OutsideStep
    BY <1>2, <1>3, <1>4, CountsKept DEF server, pass, R!OutsideStep, R!resource, R!worker
  <1> QED BY <1>2, <1>4, <1>5 DEF pass, GotInv

\* The steps of a controller, by who takes them.
LEMMA NextCases ==
  ASSUME [Next]_vars
  PROVE  Work \/ CallFails \/ Restart \/ SyncAutoscaling \/ User \/ Outside
  BY Zenon DEF Next, Outside

LEMMA Step ==
  ASSUME TypeOK, R!HeldInv, GotInv, [Next]_vars PROVE R!ControllerStep /\ ObjectsType' /\ GotInv'
  <1> USE DEF R!ControllerStep
  <1>1. CASE Restart
    <2>1. Restarted /\ CountsDown /\ StaysQueued
      BY <1>1, Zenon DEF Restart, Restarted, CountsDown, StaysQueued
    <2>2. R!RestartStep
      BY <2>1, CountsKept, Actions DEF R!RestartStep
    <2> QED BY <1>1, <2>2
      DEF Restart, Restarted, Done, inputs, outputs, TypeOK, ObjectsType, NoGot, GotInv
  <1>2. CASE SyncAutoscaling \/ User
    <2>1. R!SyncCache \/ R!UserStep
      BY <1>2, Actions
    <2>2. UNCHANGED <<got, inputs, outputs>> /\ UNCHANGED pc
      BY <1>2, Zenon DEF SyncAutoscaling, SyncCache, User, UserCreates, UserEdits, UserDeletes, worker
    <2> QED BY <2>1, <2>2 DEF inputs, outputs, TypeOK, ObjectsType, GotInv
  <1>3. CASE Outside
    BY <1>3, OutsideSteps
  <1> QED BY <1>1, <1>2, <1>3, WorkSteps, NextCases

\* The types, and what holds of the resource for every reconciler.
BaseInv == TypeOK /\ R!HeldInv /\ R!LifeInv /\ R!FreshInv /\ GotInv

LEMMA InitBase == ASSUME Init PROVE R!ReconcilerInit /\ BaseInv
  <1>1. R!ReconcilerInit
    BY Operators DEF Init, ReconcilerInit, R!ReconcilerInit
  <1>2. R!ReconcilerType
    BY <1>1, Parameters, R!InitType DEF Init
  <1>3. R!HeldInv /\ R!LifeInv /\ R!FreshInv
    BY <1>1, Parameters, R!HeldInit, R!LifeInit, R!FreshInit
  <1>4. ObjectsType
    BY DEF Init, ObjectsType, NoGot, NoObject, Object, NoJob, Job, NoStatefulSet, StatefulSet,
           Status
  <1>5. GotInv
    BY DEF Init, ReconcilerInit, GotInv
  <1> QED BY <1>1, <1>2, <1>3, <1>4, <1>5, Types DEF BaseInv, TypeOK

LEMMA BaseStep == ASSUME BaseInv, [Next]_vars PROVE R!ControllerStep /\ BaseInv'
  <1>1. R!ReconcilerType
    BY Types DEF BaseInv, TypeOK
  <1>2. R!ControllerStep /\ ObjectsType' /\ GotInv'
    BY Step DEF BaseInv
  <1>3. R!ReconcilerType' /\ R!HeldInv' /\ R!LifeInv' /\ R!FreshInv'
    BY <1>1, <1>2, Parameters, R!StepType, R!HeldStep, R!LifeStep, R!FreshStep DEF BaseInv
  <1>4. ReconcilerType'
    BY <1>3, Types DEF ReconcilerType, R!ReconcilerType
  <1> QED BY <1>2, <1>3, <1>4 DEF BaseInv, TypeOK

\* TypeOK holds: in particular a configuration is only ever rendered, and its
\* hash taken, from a TransportURL secret and a list of servers that were there.
THEOREM TypeCorrect == Spec => []TypeOK
  <1>1. BaseInv => TypeOK
    BY DEF BaseInv
  <1> QED BY <1>1, InitBase, BaseStep, PTL DEF Spec

\* The resource goes through the life of a service as its Telemetry expects it.
THEOREM LifecycleImplemented == Spec => ImplementsLifecycle
  <1>1. ASSUME Init PROVE Lifecycle!Init
    BY <1>1, InitBase, Parameters, R!LifecycleInit, Zenon
       DEF Lifecycle!Init, R!Lifecycle!Init, Ready, R!Ready
  <1>2. ASSUME BaseInv, [Next]_vars PROVE [Lifecycle!Next]_(Lifecycle!vars)
    <2>1. R!ReconcilerType /\ R!ControllerStep
      BY <1>2, Types, BaseStep DEF BaseInv, TypeOK
    <2>2. [R!Lifecycle!Next]_(R!Lifecycle!vars)
      BY <1>2, <2>1, Parameters, R!LifecycleStep DEF BaseInv
    <2> QED BY <2>2, Zenon DEF Lifecycle!Next, Lifecycle!vars, Lifecycle!Create, Lifecycle!Delete,
                        Lifecycle!Report, Lifecycle!Release, Ready, R!Ready,
                        R!Lifecycle!Next, R!Lifecycle!vars, R!Lifecycle!Create,
                        R!Lifecycle!Delete, R!Lifecycle!Report, R!Lifecycle!Release
  <1> QED BY <1>1, <1>2, InitBase, BaseStep, PTL DEF Spec, ImplementsLifecycle, Lifecycle!Spec

(***************************************************************************)
(* The finalizers on the database, the KeystoneService and the             *)
(* KeystoneEndpoint                                                        *)
(***************************************************************************)
\* A pass that deletes has released what comes before its next call, and all of
\* it when it is about to release the resource.
OwnedInv ==
  /\ FinalizersReleased
  /\ R!Releasing => \A o \in Owned : ~owned[o].finalizer
  /\ pc \in {"deleteKs", "deleteEndpoint"} => ~owned["db"].finalizer
  /\ pc = "deleteEndpoint" => ~owned["ks"].finalizer

\* The actions that write none of the three.
LEMMA OwnedLeftAlone ==
  ASSUME [Next]_vars, owned' # owned
  PROVE  \/ ReconcileDeleteAodh \/ EnsureKeystoneService \/ EnsureDatabase
         \/ EnsureKeystoneEndpoint \/ CallFails
         \/ (\E o \in Owned : Registered(o) \/ OwnedDisturbed(o)) \/ GarbageCollect
  <1> USE DEF outputs
  <1>1. CASE Work
    BY <1>1, Zenon
       DEF Work, Reconcile, PatchStep, ReconcileRbac, TransportURLCreateOrUpdate, GetOspSecret,
           GetAutoscalingMemcached, GetAutoscalingHeat, GetTransportSecret, GenerateServiceConfig,
           DoJob, ReconcileStatefulSet, ExposeServices
  <1>2. CASE Restart \/ SyncAutoscaling \/ User
    BY <1>2, Zenon DEF Restart, SyncAutoscaling, User
  <1>3. CASE Outside
    BY <1>3, Zenon
       DEF Outside, Provide, ResyncAutoscaling, TransportURLProvided, TransportURLChanged,
           MemcachedProvided, MemcachedChanged, MemcachedSet, InputProvided, InputLost, Unwatched,
           JobSucceeds, PodsReady, PodsLost, Pods, vars
  <1> QED BY <1>1, <1>2, <1>3, NextCases

\* The finalizer is put on an object by a pass of reconcileNormal only.
LEMMA OwnedWritten ==
  ASSUME TypeOK, R!HeldInv, [Next]_vars, NEW o \in Owned, owned'[o].finalizer
  PROVE  owned[o].finalizer \/ pc \in {"ks", "db", "endpoint"}
  <1>1. CASE ReconcileDeleteAodh
    <2>1. \E p \in Owned : Release(p)
      BY <1>1, DeleteCalls, Zenon DEF Owned
    <2> QED BY <2>1, ReleaseType
  <1>2. CASE EnsureKeystoneService \/ EnsureDatabase \/ EnsureKeystoneEndpoint
    BY <1>2, OwnedCalls, Zenon
  <1>3. CASE CallFails
    <2>1. owned' = owned \/ (\E p \in Owned : Release(p)) \/ pc \in Owned
      BY <1>3, Zenon DEF CallFails, Written, outputs, Owned
    <2> QED BY <2>1, ReleaseType DEF Owned
  <1>4. CASE (\E p \in Owned : Registered(p) \/ OwnedDisturbed(p)) \/ GarbageCollect
    BY <1>4, OutsideOwned
  <1>5. CASE owned' = owned
    BY <1>5
  <1> QED BY <1>1, <1>2, <1>3, <1>4, <1>5, OwnedLeftAlone

\* Who moves the pass on to a later call of reconcileDelete, or releases it.
LEMMA DeletePass ==
  ASSUME TypeOK, R!HeldInv, [Next]_vars,
         \/ pc' \in {"deleteKs", "deleteEndpoint"} /\ pc' # pc
         \/ R!ReleaseStep
  PROVE  ReconcileDeleteAodh
  <1>1. pc' # pc
    BY DEF R!ReleaseStep, AodhDeleteSteps
  <1>2. ~CallFails
    <2> SUFFICES ASSUME CallFails PROVE FALSE
      OBVIOUS
    <2>1. pc' = "patch" /\ inst' = OnError(pc) /\ pc \in Steps
      BY DEF CallFails, Return
    <2>2. R!ReleaseStep
      BY <2>1
    <2>3. inst' = inst /\ inst \in Autoscaling /\ inst' = [inst EXCEPT !.finalizer = FALSE]
          /\ pc \in AodhDeleteSteps
      BY <2>1, <2>2, OnErrorMarks, Zenon DEF R!ReleaseStep, TypeOK, ReconcilerType
    <2>4. inst.finalizer
      BY <2>3, Zenon DEF R!HeldInv, R!PassObject, AodhDeleteSteps
    <2> QED BY <2>3, <2>4 DEF Autoscaling, InstanceType
  <1>3. ~(Restart \/ SyncAutoscaling \/ User)
    BY <1>1, Zenon DEF Restart, Restarted, Done, SyncAutoscaling, SyncCache, User, UserCreates, UserEdits,
                UserDeletes, worker, R!ReleaseStep
  <1>4. ~Outside
    BY <1>1, Zenon
       DEF Outside, Provide, ResyncAutoscaling, Resync, worker, pass, TransportURLProvided,
           TransportURLChanged, MemcachedProvided, MemcachedChanged, MemcachedSet, InputProvided,
           InputLost, Unwatched, Registered, OwnedDisturbed, JobSucceeds, PodsReady, PodsLost,
           Pods, GarbageCollect, vars
  <1>5. ~(Reconcile \/ PatchStep)
    BY <1>1 DEF Reconcile, NotFound, AddFinalizer, InitStatus, Dispatch, Fetch, Begin, worker,
                PatchStep, Patch, PatchFails, Done, R!ReleaseStep, AodhDeleteSteps
  <1>6. ~(\/ ReconcileRbac \/ TransportURLCreateOrUpdate \/ GetOspSecret \/ GetAutoscalingMemcached
          \/ GetAutoscalingHeat \/ GetTransportSecret)
    BY InputCalls, Zenon DEF Went, Waited, R!ReleaseStep, AodhDeleteSteps
  <1>7. ~GenerateServiceConfig
    BY DEF GenerateServiceConfig, Call, Wait, Return, Continue, R!ReleaseStep, AodhDeleteSteps
  <1>8. ~(\/ EnsureKeystoneService \/ EnsureDatabase \/ DoJob
          \/ ReconcileStatefulSet \/ ExposeServices \/ EnsureKeystoneEndpoint)
    BY OwnedCalls, DeployCalls, Zenon DEF Went, Waited, Returned, R!ReleaseStep, AodhDeleteSteps
  <1> QED BY <1>2, <1>3, <1>4, <1>5, <1>6, <1>7, <1>8, NextCases DEF Work

LEMMA OwnedStep == ASSUME BaseInv, OwnedInv, [Next]_vars PROVE OwnedInv'
  <1>1. TypeOK /\ R!ReconcilerType /\ R!HeldInv /\ R!ControllerStep
    BY Types, BaseStep DEF BaseInv, TypeOK
  <1>2. pc \in {"ks", "db", "endpoint"} => cr.exists /\ cr.finalizer /\ ~R!Releasing
    BY <1>1, NormalNames DEF R!HeldInv, R!PassObject, R!PassHeld, R!Releasing
  <1>3. \A o \in Owned : owned'[o].finalizer => owned[o].finalizer \/ pc \in {"ks", "db", "endpoint"}
    BY <1>1, OwnedWritten
  <1>4. Owned = {"db", "ks", "endpoint"}
    BY DEF Owned
  <1>5. CASE ReconcileDeleteAodh
    <2>1. \/ pc = "delete" /\ ~owned'["db"].finalizer /\ pc' = "deleteKs"
          \/ pc = "deleteKs" /\ ~owned'["ks"].finalizer /\ pc' = "deleteEndpoint"
          \/ pc = "deleteEndpoint" /\ ~owned'["endpoint"].finalizer /\ pc' = "patch"
      BY <1>1, <1>4, <1>5, DeleteCalls, ReleaseType, Zenon
    <2>2. cr' = cr
      BY <1>1, <1>5, DeleteCalls DEF server
    <2> QED BY <1>3, <1>4, <2>1, <2>2 DEF OwnedInv, FinalizersReleased, R!Releasing
  <1>6. CASE ~ReconcileDeleteAodh
    <2>1. ~R!ReleaseStep /\ (pc' \in {"deleteKs", "deleteEndpoint"} => pc' = pc)
      BY <1>1, <1>6, DeletePass
    <2>2. R!Releasing' => R!Releasing
      BY <1>1, <2>1, Parameters, R!ReleasingStep
    <2>3. /\ pc' \in {"deleteKs", "deleteEndpoint"} => ~owned'["db"].finalizer
          /\ pc' = "deleteEndpoint" => ~owned'["ks"].finalizer
          /\ R!Releasing' => \A o \in Owned : ~owned'[o].finalizer
      BY <1>2, <1>3, <1>4, <2>1, <2>2 DEF OwnedInv
    <2>4. ASSUME NEW o \in Owned, owned'[o].finalizer PROVE cr'.exists /\ cr'.finalizer
      <3>1. cr.exists /\ cr.finalizer /\ ~R!Releasing
        BY <1>2, <1>3, <2>4 DEF OwnedInv, FinalizersReleased
      <3> QED BY <1>1, <3>1, Parameters, R!FinalizerKept
    <2> QED BY <2>3, <2>4 DEF OwnedInv, FinalizersReleased
  <1> QED BY <1>5, <1>6

LEMMA OwnedInit == ASSUME Init PROVE OwnedInv
  BY DEF Init, ReconcilerInit, NoObject, OwnedInv, FinalizersReleased, R!Releasing

\* As long as the database, the KeystoneService or the KeystoneEndpoint carries
\* the finalizer of the Autoscaling, there is an Autoscaling to remove it:
\* whichever call of reconcileDeleteAodh fails, however stale the cached
\* Autoscaling is, and when the process is restarted or the resource created
\* again under the same name.
THEOREM OwnedReleased == Spec => []FinalizersReleased
  <1>1. OwnedInv => FinalizersReleased
    BY DEF OwnedInv
  <1> QED BY <1>1, OwnedInit, OwnedStep, InitBase, BaseStep, PTL DEF Spec

(***************************************************************************)
(* The migration of the database                                           *)
(***************************************************************************)
\* The job on record in a copy of the resource is one that has completed.
Recorded(i) == i.status.dbsync \in schema \cup {None}

\* A copy that shows the resource in use.
Held(i) == i.exists /\ i.finalizer /\ ~i.deleting

\* A pass that works on such a copy relies on the job it has on record; any
\* other pass, which may hold that of a resource that is gone, leaves it alone.
MigratedInv ==
  /\ Recorded(cr)
  /\ Held(cache) => Recorded(cache)
  /\ pc # "idle" => IF Held(before) THEN Recorded(inst)
                    ELSE inst.status.dbsync = before.status.dbsync
  /\ job.done => job.image \in schema
  /\ pc = "statefulset" => inst.spec.image \in schema

\* The status after a patch, field by field.
LEMMA PatchedStatus ==
  ASSUME BaseInv, PatchStep, cr'.exists
  PROVE  LET conds == R!UpdateReady(inst.status.conds)
         IN  \/ cr'.status = cr.status
             \/ /\ cr'.status.conds =
                     IF conds # before.status.conds THEN conds ELSE cr.status.conds
                /\ cr'.status.dbsync =
                     IF inst.status.dbsync # before.status.dbsync THEN inst.status.dbsync
                     ELSE cr.status.dbsync
  <1>1. R!ReconcilerType /\ R!EndStep /\ TypeOK
    BY Types, Actions DEF BaseInv, TypeOK
  <1>2. /\ R!Ended \in R!Instances
        /\ R!Ended.status = [inst.status EXCEPT !.conds = R!UpdateReady(inst.status.conds)]
        /\ R!Ended.status.conds = R!UpdateReady(inst.status.conds)
    BY <1>1, StatusOK, R!EndedType DEF R!ReconcilerType
  <1>3. cr' = cr \/ R!PatchEffect(cr, before, R!Ended, cr')
    BY <1>1, Parameters, R!EndEffect
  <1>4. ~R!NoInstance.exists
    BY DEF R!NoInstance
  <1>5. \/ cr'.status = cr.status
        \/ cr'.status = R!Merged(cr.status, before.status, R!Ended.status)
    BY <1>3, <1>4 DEF R!PatchEffect
  <1>6. /\ cr.status \in AutoscalingStatus /\ before.status \in AutoscalingStatus
        /\ inst.status \in AutoscalingStatus /\ R!Ended.status \in AutoscalingStatus
    BY <1>1, <1>2, Types, Zenon DEF TypeOK, ReconcilerType, Autoscaling, InstanceType
  <1>7. R!Ended.status.dbsync = inst.status.dbsync
    BY <1>2, <1>6 DEF AutoscalingStatus
  <1>8. R!Merged(cr.status, before.status, R!Ended.status).conds =
          IF R!Ended.status.conds # before.status.conds THEN R!Ended.status.conds ELSE cr.status.conds
    BY <1>6, StatusOK, R!MergedConds
  <1>9. R!Merged(cr.status, before.status, R!Ended.status).dbsync =
          IF R!Ended.status.dbsync # before.status.dbsync THEN R!Ended.status.dbsync
          ELSE cr.status.dbsync
    BY <1>6 DEF R!Merged, AutoscalingStatus
  <1> QED BY <1>2, <1>5, <1>7, <1>8, <1>9, Zenon

\* The calls of a pass that do not run the job leave its record alone.
LEMMA RecordKept ==
  ASSUME TypeOK, R!HeldInv, GotInv, Work \/ CallFails, ~(Reconcile \/ PatchStep \/ DoJob)
  PROVE  /\ inst'.status.dbsync = inst.status.dbsync /\ before' = before
         /\ pc \notin {"idle", "patch"} /\ pc' # "statefulset"
         /\ schema' = schema /\ (job' = job \/ ~job'.done)
  <1> USE DEF Waited, Went, Returned
  <1>1. inst \in Autoscaling /\ Only(inst, inst.status.conds)
    BY InstType DEF TypeOK, ReconcilerType
  <1>2. CASE \/ ReconcileRbac \/ TransportURLCreateOrUpdate \/ GetOspSecret \/ GetAutoscalingMemcached
             \/ GetAutoscalingHeat \/ GetTransportSecret
    <2>1. /\ inst'.status.dbsync = inst.status.dbsync /\ before' = before
          /\ pc \notin {"idle", "patch"} /\ pc' # "statefulset"
      BY <1>2, InputCalls, Zenon DEF Only
    <2>2. UNCHANGED <<job, schema>>
      BY <1>2, Zenon DEF ReconcileRbac, TransportURLCreateOrUpdate, GetOspSecret, GetAutoscalingMemcached,
           GetAutoscalingHeat, GetTransportSecret, outputs
    <2> QED BY <2>1, <2>2
  <1>3. CASE GenerateServiceConfig
    BY <1>3, ConfigCall, Zenon DEF Only, GenerateServiceConfig
  <1>4. CASE EnsureKeystoneService \/ EnsureDatabase \/ EnsureKeystoneEndpoint
    <2>1. /\ inst'.status.dbsync = inst.status.dbsync /\ before' = before
          /\ pc \notin {"idle", "patch"} /\ pc' # "statefulset"
      BY <1>4, OwnedCalls, Zenon DEF Only, Mirrors
    <2>2. UNCHANGED <<job, schema>>
      BY <1>4, Zenon DEF EnsureKeystoneService, EnsureDatabase, EnsureKeystoneEndpoint
    <2> QED BY <2>1, <2>2
  <1>5. CASE ReconcileStatefulSet \/ ExposeServices
    <2>1. /\ inst'.status.dbsync = inst.status.dbsync /\ before' = before
          /\ pc \notin {"idle", "patch"} /\ pc' # "statefulset"
      BY <1>5, DeployCalls, Zenon DEF Only
    <2>2. UNCHANGED <<job, schema>>
      BY <1>5, Zenon DEF ReconcileStatefulSet, ExposeServices, outputs
    <2> QED BY <2>1, <2>2
  <1>6. CASE ReconcileDeleteAodh
    <2>1. inst'.status.dbsync = inst.status.dbsync
      BY <1>1, <1>6, DeleteCalls DEF Autoscaling, InstanceType
    <2> QED BY <1>6, <2>1, DeleteCalls
  <1>7. CASE CallFails
    <2>1. pc \in Steps \ {"idle", "patch"} /\ Return(OnError(pc), TRUE)
      BY <1>7, Zenon DEF CallFails
    <2>2. OnError(pc).status.dbsync = inst.status.dbsync
      BY <2>1, OnErrorMarks, Zenon DEF Only
    <2>3. schema' = schema /\ (job' = job \/ job' = StartedJob)
      BY <1>7, Zenon DEF CallFails, Written, outputs
    <2>4. StartedJob = job \/ ~StartedJob.done
      BY DEF StartedJob
    <2> QED BY <2>1, <2>2, <2>3, <2>4 DEF Return
  <1> QED BY <1>2, <1>3, <1>4, <1>5, <1>6, <1>7 DEF Work

\* A copy that is in use belongs to a resource that exists.
LEMMA HeldExists ==
  ASSUME R!HeldInv, ~cr.exists
  PROVE  /\ cr = R!NoInstance /\ ~Held(cache)
         /\ pc # "idle" => ~Held(before) /\ pc \notin R!NormalSteps
  BY DEF R!HeldInv, R!Presence, R!CacheHeld, R!PassHeld, R!PassObject, Held

LEMMA JobMigrates == ASSUME BaseInv, MigratedInv, DoJob PROVE MigratedInv'
  <1>1. TypeOK /\ R!HeldInv /\ pc = "job" /\ Held(before)
    <2>1. pc = "job"
      BY DEF DoJob, Call
    <2>2. "job" \in R!NormalSteps
      BY NormalNames
    <2> QED BY <2>1, <2>2 DEF BaseInv, R!HeldInv, R!PassObject, Held
  <1>2. UNCHANGED <<cr, cache, schema>>
    BY DEF DoJob, Call, server
  <1>3. Recorded(inst) /\ inst.spec.image # None
    BY <1>1, PassSpec, NoneAssumption DEF MigratedInv
  <1>4. /\ before' = before
        /\ \/ /\ pc' = "statefulset" /\ inst'.spec = inst.spec
              /\ inst'.status.dbsync = inst.spec.image
              /\ job' \in {job, NoJob} /\ (~JobWanted \/ JobDone)
           \/ /\ pc' = "patch" /\ inst'.status.dbsync = inst.status.dbsync
              /\ job' = StartedJob
    BY <1>1, DeployCalls, Zenon DEF Went, Waited, Only, Kept, R!SameObject
  <1>5. job'.done => job'.image \in schema
    BY <1>4 DEF MigratedInv, NoJob, StartedJob
  <1>6. ~JobWanted \/ JobDone => inst.spec.image \in schema
    BY <1>3 DEF JobWanted, JobDone, Recorded, MigratedInv
  <1> QED BY <1>1, <1>2, <1>3, <1>4, <1>5, <1>6 DEF MigratedInv, Recorded, Held

LEMMA PatchMigrates == ASSUME BaseInv, BaseInv', MigratedInv, PatchStep PROVE MigratedInv'
  <1>1. TypeOK /\ R!ReconcilerType /\ R!HeldInv /\ R!EndStep
    BY Types, Actions DEF BaseInv, TypeOK
  <1>2. pc = "patch" /\ pc' = "idle" /\ UNCHANGED <<cache, job, schema>>
    BY <1>1, Parameters, R!EndEffect DEF PatchStep, outputs
  <1>3. Recorded(cr)'
    <2>1. CASE cr'.exists
      <3>1. \/ cr'.status.dbsync = cr.status.dbsync
            \/ /\ cr'.status.dbsync = inst.status.dbsync
               /\ inst.status.dbsync # before.status.dbsync
        BY <2>1, PatchedStatus, Zenon
      <3> QED BY <1>2, <3>1 DEF MigratedInv, Recorded
    <2>2. CASE ~cr'.exists
      <3>1. cr' = R!NoInstance
        BY <2>2 DEF BaseInv, R!HeldInv, R!Presence
      <3> QED BY <3>1 DEF Recorded, R!NoInstance, NoStatus
    <2> QED BY <2>1, <2>2
  <1> QED BY <1>2, <1>3 DEF MigratedInv, Recorded

LEMMA MigratedStep == ASSUME BaseInv, BaseInv', MigratedInv, [Next]_vars PROVE MigratedInv'
  <1>1. TypeOK /\ R!ReconcilerType /\ R!HeldInv /\ GotInv
    BY Types DEF BaseInv, TypeOK
  <1>2. CASE Reconcile
    <2>1. UNCHANGED <<cr, cache, job, schema>>
      BY <1>1, <1>2, Actions, Parameters, R!BeginType, Zenon DEF Reconcile, outputs
    <2>2. \/ pc' = "idle"
          \/ /\ pc' \in {"patch", "delete", "rbac"} /\ before' = cache
             /\ inst'.status.dbsync = cache.status.dbsync
      BY <1>1, <1>2 DEF Reconcile, NotFound, AddFinalizer, InitStatus, Dispatch, Fetch, Begin, worker,
                        TypeOK, ReconcilerType, Autoscaling, InstanceType, AutoscalingStatus
    <2> QED BY <2>1, <2>2 DEF MigratedInv, Recorded, Held
  <1>3. CASE (Work \/ CallFails) /\ ~(Reconcile \/ PatchStep \/ DoJob)
    <2>1. UNCHANGED <<cr, cache>>
      BY <1>3, Zenon
         DEF Work, CallFails, Call, server, ReconcileDeleteAodh, DeleteStep, ReconcileRbac,
             TransportURLCreateOrUpdate, GetOspSecret, GetAutoscalingMemcached, GetAutoscalingHeat,
             GetTransportSecret, GenerateServiceConfig, EnsureKeystoneService, EnsureDatabase,
             ReconcileStatefulSet, ExposeServices, EnsureKeystoneEndpoint
    <2> QED BY <1>1, <1>3, <2>1, RecordKept DEF MigratedInv, Recorded, Held
  <1>4. CASE Restart
    BY <1>4 DEF Restart, Restarted, Done, outputs, MigratedInv, Recorded
  <1>5. CASE SyncAutoscaling
    BY <1>5 DEF SyncAutoscaling, SyncCache, worker, outputs, MigratedInv, Recorded, Held
  <1>6. CASE User
    <2>1. UNCHANGED <<cache, pc, before, inst, job, schema>>
      BY <1>1, <1>6, Actions, Parameters, R!UserEffect DEF User, outputs
    <2>2. cr'.status = cr.status \/ cr'.status = NoStatus
      BY <1>1, <1>6, Actions, Parameters, R!UserEffect DEF R!NoInstance
    <2> QED BY <2>1, <2>2 DEF MigratedInv, Recorded, Held, NoStatus
  <1>7. CASE Outside
    <2>1. UNCHANGED <<cr, cache, pc, before, inst>>
      BY <1>1, <1>7, OutsideSteps DEF R!OutsideStep, R!resource, pass
    <2>2. CASE GarbageCollect
      <3>1. ~cr.exists /\ job' = NoJob
        BY <2>2 DEF GarbageCollect
      <3> QED BY <1>1, <2>1, <3>1, HeldExists, NormalNames
              DEF MigratedInv, Recorded, Held, R!NoInstance, NoStatus, NoJob
    <2>3. CASE JobSucceeds
      BY <2>1, <2>3 DEF JobSucceeds, TypeOK, ObjectsType, Job, MigratedInv, Recorded, Held
    <2>4. CASE ~GarbageCollect /\ ~JobSucceeds
      <3>1. UNCHANGED <<job, schema>>
        BY <1>7, <2>4, Zenon
           DEF Outside, Provide, ResyncAutoscaling, TransportURLProvided, TransportURLChanged,
               MemcachedProvided, MemcachedChanged, MemcachedSet, InputProvided, InputLost, Unwatched,
               Registered, OwnedDisturbed, PodsReady, PodsLost, Pods, vars, outputs
      <3> QED BY <2>1, <3>1 DEF MigratedInv, Recorded, Held
    <2> QED BY <2>2, <2>3, <2>4
  <1> QED BY <1>2, <1>3, <1>4, <1>5, <1>6, <1>7, JobMigrates, PatchMigrates, NextCases

LEMMA MigratedInit == ASSUME Init PROVE MigratedInv
  BY DEF Init, ReconcilerInit, NoInstance, NoStatus, NoJob, MigratedInv, Recorded, Held

\* Who gives the StatefulSet its image.
LEMMA ImageWritten ==
  ASSUME TypeOK, R!HeldInv, [Next]_vars, sts'.image # sts.image
  PROVE  (pc = "statefulset" /\ sts'.image = inst.spec.image) \/ sts'.image = None
  <1> USE DEF outputs
  <1>1. CASE Work \/ CallFails
    <2>1. UNCHANGED sts \/ (pc = "statefulset" /\ CreateOrPatchStatefulSet)
      BY <1>1, Zenon
         DEF Work, CallFails, Written, Call, Reconcile, PatchStep, ReconcileDeleteAodh, DeleteStep,
             ReconcileRbac, TransportURLCreateOrUpdate, GetOspSecret, GetAutoscalingMemcached,
             GetAutoscalingHeat, GetTransportSecret, GenerateServiceConfig, EnsureKeystoneService,
             EnsureDatabase, DoJob, ReconcileStatefulSet, ExposeServices, EnsureKeystoneEndpoint
    <2> QED BY <2>1, StatefulSetType
  <1>2. CASE Restart \/ SyncAutoscaling \/ User
    BY <1>2, Zenon DEF Restart, SyncAutoscaling, User
  <1>3. CASE PodsReady \/ PodsLost
    BY <1>3 DEF PodsReady, PodsLost, Pods, TypeOK, ObjectsType, StatefulSet
  <1>4. CASE GarbageCollect
    BY <1>4 DEF GarbageCollect, NoStatefulSet
  <1>5. CASE Outside /\ ~(PodsReady \/ PodsLost \/ GarbageCollect)
    BY <1>5, Zenon
       DEF Outside, Provide, ResyncAutoscaling, TransportURLProvided, TransportURLChanged,
           MemcachedProvided, MemcachedChanged, MemcachedSet, InputProvided, InputLost, Unwatched,
           Registered, OwnedDisturbed, JobSucceeds, vars
  <1> QED BY <1>1, <1>2, <1>3, <1>4, <1>5, NextCases

\* An image is rolled out only on a database that its own job has migrated: the
\* hash of the job on record, by which DoJob skips the job, is that of a job
\* that has completed, even in a stale copy of the resource, after a failed
\* patch, or when a pass of a resource that is gone ends after its successor
\* was created.
THEOREM MigratedFirst == Spec => MigratedBeforeRollout
  <1>1. ASSUME BaseInv, MigratedInv, [Next]_vars
        PROVE  [sts'.image # sts.image => sts'.image \in schema \cup {None}]_vars
    BY <1>1, ImageWritten DEF BaseInv, MigratedInv
  <1> QED BY <1>1, MigratedInit, MigratedStep, InitBase, BaseStep, PTL
          DEF Spec, MigratedBeforeRollout
===============================================================================
