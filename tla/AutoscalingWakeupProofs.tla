----------------------- MODULE AutoscalingWakeupProofs ------------------------
(***************************************************************************)
(* Proofs about AutoscalingController: what is settled when nothing is     *)
(* pending, and what an Autoscaling that is Ready has been through.        *)
(***************************************************************************)
EXTENDS AutoscalingProofs

(***************************************************************************)
(* Wake-ups, if no patch fails: its error is dropped                       *)
(***************************************************************************)
\* The hash on record is that of the configuration as it is, which was rendered
\* from the spec, the current servers and a host.
Configured(i, h) ==
  /\ i.status.hash # None /\ i.status.hash.rendered = config
  /\ config.config = i.spec.config /\ config.servers = mc /\ config.host = h

Deployed(i) == sts.image = i.spec.image /\ sts.hash = i.status.hash

RolledOut(i, h) ==
  /\ i.finalizer /\ ~i.deleting
  /\ Configured(i, h) /\ Deployed(i) /\ i.status.host = i.spec.config

\* How far the pass has come, if nothing has happened that starts another one.
Progress ==
  /\ pc \in {"heat", "transportSecret", "config"} => got.servers = mc
  /\ pc \in {"rbac", "transportURL", "ospSecret", "memcached", "heat", "transportSecret", "config"} =>
       inst.status.host = before.status.host
  /\ pc \notin {"idle", "delete", "deleteKs", "deleteEndpoint", "patch"} =>
       inst.status.hash = before.status.hash
  /\ pc \in {"ks", "db", "job", "statefulset", "services", "endpoint"} =>
       Configured(inst, before.status.host)
  /\ pc \in {"job", "statefulset", "services", "endpoint"} => inst.status.host = inst.spec.config
  /\ pc \in {"services", "endpoint"} => Deployed(inst)

\* Why a pass may end without a requeue.
PassEnds ==
  pc = "patch" /\ ~requeue =>
    \/ inst.finalizer # before.finalizer
    \/ /\ before.status.conds = NilConditions(CondTypes)
       /\ inst.status.conds = InitConditions(before.status.conds, AutoscalingInitList)
    \/ inst.status.hash # before.status.hash
    \/ RolledOut(inst, before.status.host)

AtRest == Quiescent /\ cr.exists => RolledOut(cr, cr.status.host)

WakeInv == (~queued => Progress /\ PassEnds) /\ AtRest

\* What happens while the worker does nothing.
Quiet ==
  /\ UNCHANGED <<pass, got>> /\ (queued => queued')
  /\ cr' # cr => event'
  /\ event => event' \/ queued'
  /\ ~queued' => UNCHANGED <<config, sts>>
  /\ ~queued' /\ MemcachedFn => mc' = mc

LEMMA QuietSteps == ASSUME BaseInv, SyncAutoscaling \/ User \/ Outside PROVE Quiet
  <1> USE DEF Quiet
  <1>1. TypeOK /\ GotInv
    BY DEF BaseInv
  <1>2. CASE SyncAutoscaling
    BY <1>2 DEF SyncAutoscaling, SyncCache, worker, inputs, outputs, pass
  <1>3. CASE User
    <2>1. R!ReconcilerType /\ R!UserStep
      BY <1>3, <1>1, Types, Actions DEF TypeOK
    <2>2. UNCHANGED <<queued, pc, before, inst, requeue>> /\ (event => event') /\ (cr' # cr => event')
      BY <2>1, Parameters, R!UserEffect
    <2> QED BY <1>3, <2>2 DEF User, inputs, outputs, pass
  <1>4. CASE Outside
    <2>1. UNCHANGED <<cr, cache, event, pass, got>> /\ (queued => queued')
      <3>1. R!OutsideStep /\ UNCHANGED pass
        BY <1>1, <1>4, OutsideSteps
      <3>2. UNCHANGED got
        BY <1>4, Zenon
           DEF Outside, Provide, ResyncAutoscaling, TransportURLProvided, TransportURLChanged,
               MemcachedProvided, MemcachedChanged, MemcachedSet, InputProvided, InputLost, Unwatched,
               Registered, OwnedDisturbed, JobSucceeds, PodsReady, PodsLost, Pods, GarbageCollect, vars
      <3> QED BY <3>1, <3>2 DEF R!OutsideStep, R!resource, R!Counts
    <2>2. queued' \/ UNCHANGED <<config, sts>>
      BY <1>4, Zenon
         DEF Outside, Provide, ResyncAutoscaling, TransportURLProvided, TransportURLChanged,
             MemcachedProvided, MemcachedChanged, MemcachedSet, InputProvided, InputLost, Unwatched,
             Registered, OwnedDisturbed, JobSucceeds, PodsReady, PodsLost, Pods, GarbageCollect, vars,
             outputs
    <2>3. (MemcachedFn => queued') \/ mc' = mc
      BY <1>4, Zenon
         DEF Outside, Provide, ResyncAutoscaling, TransportURLProvided, TransportURLChanged,
             MemcachedProvided, MemcachedChanged, MemcachedSet, InputProvided, InputLost, Unwatched,
             Registered, OwnedDisturbed, JobSucceeds, PodsReady, PodsLost, Pods, GarbageCollect, vars,
             inputs
    <2> QED BY <2>1, <2>2, <2>3
  <1> QED BY <1>2, <1>3, <1>4

\* Nothing of this goes unnoticed that a pass, or the resource, relies on.
LEMMA QuietWake == ASSUME BaseInv, WakeInv, Quiet PROVE WakeInv'
  <1> USE DEF Quiet, pass, Configured, Deployed
  <1>1. ASSUME ~queued', pc # "idle" PROVE mc' = mc
    <2>1. before = cache /\ before.exists
      BY <1>1 DEF BaseInv, R!FreshInv, R!HeldInv, R!PassObject
    <2> QED BY <1>1, <2>1 DEF MemcachedFn
  <1>2. ~queued' => Progress'
    <2> SUFFICES ASSUME ~queued' PROVE Progress'
      OBVIOUS
    <2>1. Progress
      BY DEF WakeInv
    <2> QED BY <1>1, <2>1 DEF Progress
  <1>3. ~queued' => PassEnds'
    <2> SUFFICES ASSUME ~queued', pc = "patch", RolledOut(inst, before.status.host)
                 PROVE  RolledOut(inst, before.status.host)'
      BY DEF WakeInv, PassEnds
    <2> QED BY <1>1 DEF RolledOut
  <1>4. AtRest'
    <2> SUFFICES ASSUME Quiescent', cr'.exists PROVE RolledOut(cr, cr.status.host)'
      BY DEF AtRest
    <2>1. Quiescent /\ cr' = cr /\ ~queued'
      BY DEF Quiescent
    <2>2. RolledOut(cr, cr.status.host)
      BY <2>1 DEF WakeInv, AtRest
    <2>3. mc' = mc
      BY <2>1 DEF MemcachedFn, Quiescent, BaseInv, R!FreshInv
    <2> QED BY <2>1, <2>2, <2>3 DEF RolledOut
  <1> QED BY <1>2, <1>3, <1>4 DEF WakeInv

\* A pass that fails asks for another one.
LEMMA Requeues == ASSUME pc' = "patch", requeue' PROVE Progress' /\ PassEnds'
  BY DEF Progress, PassEnds

LEMMA BeginWake == ASSUME BaseInv, WakeInv, Reconcile PROVE WakeInv'
  <1>1. R!ReconcilerType /\ R!BeginStep
    BY Types, Actions DEF BaseInv, TypeOK
  <1>2. CASE pc' = "idle"
    <2>1. cr' = cr /\ event' = event /\ ~cache.exists
      BY <1>1, <1>2, Parameters, R!BeginType DEF R!NormalSteps, Steps
    <2>2. ~(Quiescent' /\ cr'.exists)
      BY <2>1 DEF Quiescent, BaseInv, R!FreshInv
    <2> QED BY <1>2, <2>2 DEF WakeInv, Progress, PassEnds, AtRest
  <1>3. CASE pc' # "idle"
    <2> SUFFICES Progress' /\ PassEnds'
      BY <1>3 DEF WakeInv, AtRest, Quiescent
    <2>1. ~NotFound
      BY <1>3 DEF NotFound, Fetch, worker
    <2>2. CASE AddFinalizer
      <3>1. pc' = "patch" /\ ~before'.finalizer /\ inst'.finalizer
        BY <2>2 DEF AddFinalizer, Begin, BaseInv, TypeOK, ReconcilerType, Autoscaling, InstanceType
      <3> QED BY <3>1, Zenon DEF Progress, PassEnds
    <2>3. CASE InitStatus
      <3>1. /\ pc' = "patch" /\ before' = cache
            /\ inst' = [cache EXCEPT !.status.conds =
                          InitConditions(cache.status.conds, AutoscalingInitList)]
            /\ cache.status.conds = NilConditions(CondTypes)
        BY <2>3 DEF InitStatus, Begin, NoStatus
      <3>2. inst'.status.conds = InitConditions(cache.status.conds, AutoscalingInitList)
        BY <3>1 DEF BaseInv, TypeOK, ReconcilerType, Autoscaling, InstanceType, AutoscalingStatus
      <3> QED BY <3>1, <3>2 DEF Progress, PassEnds
    <2>4. CASE Dispatch("rbac")
      <3>1. pc' \in {"delete", "rbac"} /\ inst' = before'
        BY <2>4 DEF Dispatch, Begin
      <3> QED BY <3>1 DEF Progress, PassEnds
    <2> QED BY <2>1, <2>2, <2>3, <2>4 DEF Reconcile
  <1> QED BY <1>2, <1>3

LEMMA DeleteWake == ASSUME BaseInv, ReconcileDeleteAodh PROVE Progress' /\ PassEnds'
  <1>1. TypeOK /\ inst \in Autoscaling
    BY DEF BaseInv, TypeOK, ReconcilerType
  <1>2. CASE pc' \in {"deleteKs", "deleteEndpoint"}
    BY <1>2 DEF Progress, PassEnds
  <1>3. CASE pc = "deleteEndpoint" /\ pc' = "patch" /\ inst' = [inst EXCEPT !.finalizer = FALSE]
             /\ before' = before
    <2>1. before.finalizer
      BY <1>3 DEF BaseInv, R!HeldInv, R!PassObject, AodhDeleteSteps
    <2>2. ~inst'.finalizer
      BY <1>1, <1>3 DEF Autoscaling, InstanceType
    <2> QED BY <1>3, <2>1, <2>2, Zenon DEF Progress, PassEnds
  <1> QED BY <1>1, <1>2, <1>3, DeleteCalls, Zenon

\* The calls that read the inputs.
LEMMA InputWake ==
  ASSUME BaseInv, WakeInv, ~queued',
         \/ ReconcileRbac \/ TransportURLCreateOrUpdate \/ GetOspSecret \/ GetAutoscalingMemcached
         \/ GetAutoscalingHeat \/ GetTransportSecret
  PROVE  Progress' /\ PassEnds'
  <1> USE DEF Waited, Went
  <1>1. TypeOK /\ inst \in Autoscaling /\ Only(inst, inst.status.conds) /\ ObjectsType
    BY InstType DEF BaseInv, TypeOK, ReconcilerType
  <1>2. ~queued /\ Progress /\ mc' = mc
    BY Zenon DEF WakeInv, BaseInv, TypeOK, ReconcilerType, ReconcileRbac, TransportURLCreateOrUpdate,
           CreateTransportURL, GetOspSecret, GetAutoscalingMemcached, GetAutoscalingHeat,
           GetTransportSecret, inputs
  <1>3. CASE pc' = "patch" /\ requeue'
    BY <1>3, Requeues
  <1>4. CASE ~(pc' = "patch" /\ requeue')
    <2>1. /\ inst'.status.hash = inst.status.hash /\ inst'.status.host = inst.status.host
          /\ before' = before
          /\ pc \in {"rbac", "transportURL", "ospSecret", "memcached", "heat", "transportSecret"}
          /\ pc' \in {"transportURL", "ospSecret", "memcached", "heat", "transportSecret", "config"}
      BY <1>1, <1>4, InputCalls, Zenon DEF Only
    <2>2. pc' \in {"heat", "transportSecret", "config"} => got'.servers = mc
      <3>1. CASE GetAutoscalingMemcached
        BY <1>1, <1>4, <3>1, InputCalls, Zenon DEF ObjectsType
      <3>2. CASE GetAutoscalingHeat
        BY <1>1, <1>2, <3>2, InputCalls, Zenon DEF GetAutoscalingHeat, Progress
      <3>3. CASE GetTransportSecret
        <4>1. pc = "transportSecret" /\ got' = [got EXCEPT !.transport = tsecret]
          BY <1>1, <1>4, <3>3, InputCalls, Zenon
        <4> QED BY <1>1, <1>2, <4>1 DEF Progress, ObjectsType
      <3>4. CASE ReconcileRbac \/ TransportURLCreateOrUpdate \/ GetOspSecret
        BY <1>1, <1>4, <3>4, InputCalls, Zenon
      <3> QED BY <3>1, <3>2, <3>3, <3>4
    <2> QED BY <1>2, <2>1, <2>2 DEF Progress, PassEnds
  <1> QED BY <1>3, <1>4

LEMMA ConfigWake ==
  ASSUME BaseInv, WakeInv, ~queued', GenerateServiceConfig PROVE Progress' /\ PassEnds'
  <1>1. TypeOK /\ R!HeldInv /\ GotInv /\ queued \in BOOLEAN
    BY DEF BaseInv, TypeOK, ReconcilerType
  <1>2. CASE Waited("ServiceConfig")
    BY <1>2, Requeues DEF Waited
  <1>3. CASE ~Waited("ServiceConfig")
    <2>1. /\ pc = "config" /\ before' = before
          /\ InputHash \in Hash /\ Rendered \in Content /\ WriteConfig
          /\ Kept(inst') /\ inst'.status.host = inst.status.host /\ inst'.status.hash = InputHash
          /\ \/ pc' = "patch" /\ InputHash # inst.status.hash
             \/ pc' = "ks" /\ InputHash = inst.status.hash
      BY <1>1, <1>3, ConfigCall, Zenon DEF Went
    <2>2. ~queued /\ mc' = mc /\ config' = Rendered
      BY <1>1, <2>1, Zenon DEF WriteConfig, GenerateServiceConfig, inputs
    <2>3. Progress
      BY <2>2 DEF WakeInv
    <2>4. inst.status.hash = before.status.hash /\ inst.status.host = before.status.host
          /\ got.servers = mc
      BY <2>1, <2>3 DEF Progress
    <2>5. CASE pc' = "patch" /\ InputHash # inst.status.hash
      BY <2>1, <2>4, <2>5 DEF Progress, PassEnds
    <2>6. CASE pc' = "ks" /\ InputHash = inst.status.hash
      <3>1. Configured(inst, before.status.host)'
        BY <2>1, <2>2, <2>4, HashAssumption
           DEF Configured, InputHash, Rendered, Kept, R!SameObject
      <3> QED BY <2>1, <2>4, <2>6, <3>1 DEF Progress, PassEnds
    <2> QED BY <2>1, <2>5, <2>6
  <1> QED BY <1>2, <1>3

\* The calls after the configuration.
LEMMA LaterWake ==
  ASSUME BaseInv, WakeInv, ~queued',
         \/ EnsureKeystoneService \/ EnsureDatabase \/ DoJob
         \/ ReconcileStatefulSet \/ ExposeServices \/ EnsureKeystoneEndpoint
  PROVE  Progress' /\ PassEnds'
  <1> USE DEF Waited, Went, Returned
  <1>1. TypeOK /\ R!HeldInv /\ inst \in Autoscaling /\ Only(inst, inst.status.conds)
        /\ queued \in BOOLEAN
    BY InstType DEF BaseInv, TypeOK, ReconcilerType
  <1>2. UNCHANGED <<mc, config>>
    BY Zenon DEF EnsureKeystoneService, EnsureDatabase, DoJob, ReconcileStatefulSet, ExposeServices,
           EnsureKeystoneEndpoint, inputs, outputs
  <1>3. ~queued /\ Progress
    BY <1>1, Zenon DEF WakeInv, EnsureKeystoneService, EnsureDatabase, DoJob, ReconcileStatefulSet,
           CreateOrPatchStatefulSet, ExposeServices, EnsureKeystoneEndpoint, WriteOwned
  <1>4. CASE pc' = "patch" /\ requeue'
    BY <1>4, Requeues
  <1>5. CASE EnsureKeystoneService /\ ~(pc' = "patch" /\ requeue')
    <2>1. pc = "ks" /\ pc' = "db" /\ before' = before /\ Kept(inst')
          /\ inst'.status.hash = inst.status.hash /\ inst'.status.host = inst.status.host
      BY <1>1, <1>5, OwnedCalls, Zenon DEF Mirrors, Only
    <2> QED BY <1>2, <1>3, <2>1 DEF Progress, PassEnds, Configured, Kept, R!SameObject
  <1>6. CASE EnsureDatabase /\ ~(pc' = "patch" /\ requeue')
    <2>1. pc = "db" /\ pc' = "job" /\ before' = before /\ Kept(inst')
          /\ inst'.status.hash = inst.status.hash /\ inst'.status.host = inst.spec.config
      BY <1>1, <1>6, OwnedCalls, Zenon
    <2> QED BY <1>2, <1>3, <2>1 DEF Progress, PassEnds, Configured, Kept, R!SameObject
  <1>7. CASE DoJob /\ ~(pc' = "patch" /\ requeue')
    <2>1. pc = "job" /\ pc' = "statefulset" /\ before' = before /\ Kept(inst')
          /\ inst'.status.hash = inst.status.hash /\ inst'.status.host = inst.status.host
      BY <1>1, <1>7, DeployCalls, Zenon
    <2> QED BY <1>2, <1>3, <2>1 DEF Progress, PassEnds, Configured, Kept, R!SameObject
  <1>8. CASE ReconcileStatefulSet
    <2>1. pc = "statefulset" /\ pc' = "services" /\ before' = before /\ Kept(inst')
          /\ inst'.status.hash = inst.status.hash /\ inst'.status.host = inst.status.host
          /\ CreateOrPatchStatefulSet
      BY <1>1, <1>8, DeployCalls, Zenon
    <2>2. Deployed(inst)'
      BY <1>1, <2>1, StatefulSetType DEF Deployed, Kept, R!SameObject
    <2> QED BY <1>2, <1>3, <2>1, <2>2 DEF Progress, PassEnds, Configured, Kept, R!SameObject
  <1>9. CASE ExposeServices
    <2>1. pc = "services" /\ pc' = "endpoint" /\ before' = before /\ Kept(inst') /\ sts' = sts
          /\ inst'.status.hash = inst.status.hash /\ inst'.status.host = inst.status.host
      BY <1>1, <1>9, DeployCalls, Zenon DEF Only, ExposeServices, outputs
    <2> QED BY <1>2, <1>3, <2>1 DEF Progress, PassEnds, Configured, Deployed, Kept, R!SameObject
  <1>10. CASE EnsureKeystoneEndpoint
    <2>1. pc = "endpoint" /\ pc' = "patch" /\ before' = before /\ Kept(inst') /\ sts' = sts
          /\ inst'.status.hash = inst.status.hash /\ inst'.status.host = inst.status.host
      BY <1>1, <1>10, OwnedCalls, Zenon DEF Mirrors, Only, EnsureKeystoneEndpoint
    <2>2. inst.finalizer /\ ~inst.deleting
      BY <1>1, <2>1, NormalNames DEF R!HeldInv, R!PassObject, R!SameObject
    <2>3. RolledOut(inst, before.status.host)'
      BY <1>2, <1>3, <2>1, <2>2 DEF Progress, RolledOut, Configured, Deployed, Kept, R!SameObject
    <2> QED BY <2>1, <2>3 DEF Progress, PassEnds
  <1> QED BY <1>4, <1>5, <1>6, <1>7, <1>8, <1>9, <1>10

\* A patch after which nothing is pending changes nothing, so that the pass has
\* found everything as it should be, the host of the database included.
LEMMA PatchWake == ASSUME BaseInv, WakeInv, PatchStep, ~PatchFails PROVE WakeInv'
  <1>1. R!ReconcilerType /\ R!EndStep /\ R!Patch
    BY Types, Actions DEF BaseInv, TypeOK
  <1>2. pc' = "idle" /\ UNCHANGED <<mc, config, sts>>
    BY <1>1, Parameters, R!EndEffect DEF PatchStep, inputs, outputs
  <1>3. AtRest'
    <2> SUFFICES ASSUME Quiescent', cr'.exists PROVE RolledOut(cr, cr.status.host)'
      BY DEF AtRest
    <2>1. /\ pc = "patch" /\ ~queued /\ ~requeue
          /\ before = cr /\ cr' = cr
          /\ inst.finalizer = before.finalizer
          /\ R!UpdateReady(inst.status.conds) = before.status.conds
          /\ [inst.status EXCEPT !.conds = R!UpdateReady(inst.status.conds)] = before.status
      BY <1>1, Parameters, R!QuietPatch DEF Quiescent, BaseInv
    <2>2. before.status.conds \in R!Conds /\ inst.status \in AutoscalingStatus
      BY DEF BaseInv, TypeOK, ReconcilerType, Autoscaling, InstanceType, AutoscalingStatus, R!Conds,
             Status, R!Status
    <2>3. inst.status.hash = before.status.hash /\ inst.status.host = before.status.host
      BY <2>1, <2>2 DEF AutoscalingStatus
    <2>4. RolledOut(inst, before.status.host)
      <3>1. ASSUME before.status.conds = NilConditions(CondTypes),
                   inst.status.conds = InitConditions(before.status.conds, AutoscalingInitList)
            PROVE  FALSE
        BY <2>1, <2>2, <3>1, StatusOK, R!InitPatched, Operators DEF NilConditions, R!NilConditions
      <3> QED BY <2>1, <2>3, <3>1 DEF WakeInv, PassEnds
    <2>5. inst.spec = cr.spec /\ inst.deleting = cr.deleting /\ inst.finalizer = cr.finalizer
      BY <2>1 DEF BaseInv, R!HeldInv, R!PassObject, R!SameObject
    <2> QED BY <1>2, <2>1, <2>3, <2>4, <2>5, Zenon DEF RolledOut, Configured, Deployed
  <1> QED BY <1>2, <1>3 DEF WakeInv, Progress, PassEnds

LEMMA WakeStep == ASSUME BaseInv, WakeInv, [Next /\ ~PatchFails]_vars PROVE WakeInv'
  <1>1. CASE Reconcile \/ (PatchStep /\ ~PatchFails)
    BY <1>1, BeginWake, PatchWake
  <1>2. CASE Work /\ ~(Reconcile \/ PatchStep)
    <2>1. ~queued' => Progress' /\ PassEnds'
      BY <1>2, DeleteWake, InputWake, ConfigWake, LaterWake DEF Work
    <2>2. pc' # "idle"
      <3>1. TypeOK /\ R!HeldInv /\ GotInv
        BY DEF BaseInv
      <3> QED BY <1>2, <3>1, DeleteCalls, InputCalls, ConfigCall, OwnedCalls, DeployCalls, Zenon
              DEF Work, Went, Waited, Returned
    <2> QED BY <2>1, <2>2 DEF WakeInv, AtRest, Quiescent
  <1>3. CASE CallFails
    <2>1. pc' = "patch" /\ requeue'
      BY <1>3 DEF CallFails, Return
    <2> QED BY <2>1, Requeues DEF WakeInv, AtRest, Quiescent
  <1>4. CASE Restart
    BY <1>4 DEF Restart, Restarted, Done, WakeInv, Progress, PassEnds, AtRest, Quiescent
  <1>5. CASE SyncAutoscaling \/ User \/ Outside
    BY <1>5, QuietSteps, QuietWake
  <1>6. PatchStep => ~PatchFails \/ UNCHANGED vars
    OBVIOUS
  <1>7. UNCHANGED vars => Outside
    BY DEF Outside
  <1> QED BY <1>1, <1>2, <1>3, <1>4, <1>5, <1>6, <1>7, NextCases

LEMMA WakeInit == ASSUME Init PROVE WakeInv
  BY DEF Init, ReconcilerInit, NoInstance, WakeInv, Progress, PassEnds, AtRest

\* No wake-up is lost, however the deliveries, failed calls and restarts
\* interleave with the passes, as long as no patch fails: the error of a failed
\* patch is dropped, and only the next sync period makes up for it.
THEOREM AutoscalingWakeups == Spec /\ [][~PatchFails]_vars => []NoLostWakeup
  <1>1. WakeInv => NoLostWakeup
    BY DEF WakeInv, AtRest, RolledOut, Configured, Deployed, NoLostWakeup
  <1>2. [Next]_vars /\ [~PatchFails]_vars => [Next /\ ~PatchFails]_vars
    OBVIOUS
  <1> QED BY <1>1, <1>2, WakeInit, WakeStep, InitBase, BaseStep, PTL DEF Spec


(***************************************************************************)
(* Ready comes after the rollout, as long as a patch of the metadata       *)
(* carries no status                                                       *)
(***************************************************************************)
\* A list of conditions that is nil or has been initialized.
Listed(conds) ==
  conds = NilConditions(CondTypes) \/ \A t \in AutoscalingInitList : conds[t] # "Absent"

\* The conditions that stand for what the handler does one after the other, and
\* what each of them stands for.
Milestones == {"KeystoneService", "DB", "DBSync", "Deployment", "KeystoneEndpoint"}

Shown(t, status) ==
  /\ t = "KeystoneService" => owned["ks"].finalizer
  /\ t = "DB" => owned["db"].finalizer
  /\ t = "DBSync" => status.dbsync # None
  /\ t = "Deployment" => sts.hash # None
  /\ t = "KeystoneEndpoint" => owned["endpoint"].finalizer

Evidence(status) == \A t \in Milestones : status.conds[t] = "True" => Shown(t, status)

EvidenceInv ==
  /\ Listed(cr.status.conds) /\ Listed(cache.status.conds)
  /\ Held(cr) => Evidence(cr.status)
  /\ Held(cache) =>
       Evidence(cache.status) /\ (cache.status.dbsync # None => cr.status.dbsync # None)
  /\ cr.exists /\ ~cr.finalizer => \A t \in Milestones : cr.status.conds[t] # "True"

EvidencePass ==
  pc # "idle" =>
    /\ Listed(before.status.conds) /\ Listed(inst.status.conds)
    /\ inst.status.conds # NilConditions(CondTypes) \/ R!Adding
    /\ Held(before) =>
         /\ Evidence(inst.status)
         /\ inst.status.dbsync # before.status.dbsync => inst.status.dbsync # None
         /\ before.status.dbsync # None => cr.status.dbsync # None
    /\ pc \in {"ks", "db", "job", "statefulset"} => inst.status.hash # None

ReadyInv == EvidenceInv /\ EvidencePass

\* Only reconcileDelete takes the finalizer from an object.
LEMMA OwnedKept ==
  ASSUME TypeOK, R!HeldInv, [Next]_vars, NEW o \in Owned, owned[o].finalizer, ~owned'[o].finalizer
  PROVE  pc \in AodhDeleteSteps /\ (ReconcileDeleteAodh \/ CallFails)
  <1>1. CASE ReconcileDeleteAodh
    BY <1>1, DeleteCalls, Zenon DEF AodhDeleteSteps
  <1>2. CASE EnsureKeystoneService \/ EnsureDatabase \/ EnsureKeystoneEndpoint
    <2>1. owned' = owned \/ \E p \in Owned : WriteOwned(p, Ensured(p))
      BY <1>2, OwnedCalls, Zenon DEF Owned
    <2> QED BY <2>1, EnsuredType
  <1>3. CASE CallFails
    <2>1. \/ owned' = owned \/ pc \in AodhDeleteSteps
          \/ \E p \in Owned : WriteOwned(p, Ensured(p))
      BY <1>3, Zenon DEF CallFails, Written, outputs, AodhDeleteSteps
    <2> QED BY <1>3, <2>1, EnsuredType
  <1>4. CASE (\E p \in Owned : Registered(p) \/ OwnedDisturbed(p)) \/ GarbageCollect
    BY <1>4, OutsideOwned
  <1> QED BY <1>1, <1>2, <1>3, <1>4, OwnedLeftAlone

\* The StatefulSet stays until the resource is gone.
LEMMA StatefulSetKept ==
  ASSUME TypeOK, R!HeldInv, [Next]_vars, sts.hash # None, sts'.hash = None,
         pc = "statefulset" => inst.status.hash # None
  PROVE  GarbageCollect
  <1> USE DEF outputs
  <1>1. CASE Work \/ CallFails
    <2>1. UNCHANGED sts \/ (pc = "statefulset" /\ CreateOrPatchStatefulSet)
      BY <1>1, Zenon
         DEF Work, CallFails, Written, Call, Reconcile, PatchStep, ReconcileDeleteAodh, DeleteStep,
             ReconcileRbac, TransportURLCreateOrUpdate, GetOspSecret, GetAutoscalingMemcached,
             GetAutoscalingHeat, GetTransportSecret, GenerateServiceConfig, EnsureKeystoneService,
             EnsureDatabase, DoJob, ReconcileStatefulSet, ExposeServices, EnsureKeystoneEndpoint
    <2> QED BY <2>1, StatefulSetType
  <1>2. CASE Restart \/ SyncAutoscaling \/ User
    BY <1>2, Zenon DEF Restart, SyncAutoscaling, User
  <1>3. CASE PodsReady \/ PodsLost
    BY <1>3 DEF PodsReady, PodsLost, Pods, TypeOK, ObjectsType, StatefulSet
  <1>4. CASE Outside /\ ~(PodsReady \/ PodsLost \/ GarbageCollect)
    BY <1>4, Zenon
       DEF Outside, Provide, ResyncAutoscaling, TransportURLProvided, TransportURLChanged,
           MemcachedProvided, MemcachedChanged, MemcachedSet, InputProvided, InputLost, Unwatched,
           Registered, OwnedDisturbed, JobSucceeds, vars
  <1> QED BY <1>1, <1>2, <1>3, <1>4, NextCases

\* Nothing that a resource in use relies on goes away.
LEMMA EvidenceKept ==
  ASSUME BaseInv, ReadyInv, [Next]_vars,
         Held(cr') \/ Held(cache') \/ (pc' # "idle" /\ Held(before'))
  PROVE  /\ \A o \in Owned : owned[o].finalizer => owned'[o].finalizer
         /\ sts.hash # None => sts'.hash # None
  <1>1. TypeOK /\ R!HeldInv /\ (pc = "statefulset" => inst.status.hash # None)
    BY DEF BaseInv, ReadyInv, EvidencePass
  <1>2. ASSUME NEW o \in Owned, owned[o].finalizer, ~owned'[o].finalizer PROVE FALSE
    <2>1. pc \in AodhDeleteSteps /\ (ReconcileDeleteAodh \/ CallFails)
      BY <1>1, <1>2, OwnedKept
    <2>2. UNCHANGED <<cr, cache, before>>
      BY <1>1, <2>1, DeleteCalls DEF CallFails, Return, server
    <2>3. before.deleting /\ (cr.finalizer => cr.deleting) /\ (cache.finalizer => cache.deleting)
      BY <1>1, <2>1 DEF R!HeldInv, R!PassObject, R!PassHeld, AodhDeleteSteps
    <2> QED BY <2>2, <2>3 DEF Held
  <1>3. ASSUME sts.hash # None, sts'.hash = None PROVE FALSE
    <2>1. GarbageCollect
      BY <1>1, <1>3, StatefulSetKept
    <2>2. UNCHANGED <<cr, cache, pc, before>> /\ ~cr.exists
      BY <2>1 DEF GarbageCollect, server, pass
    <2> QED BY <1>1, <2>2, HeldExists DEF Held
  <1> QED BY <1>2, <1>3

\* The lists that a pass may leave behind.
LEMMA NilMilestones ==
  /\ \A t \in CondTypes : NilConditions(CondTypes)[t] = "Absent"
  /\ Milestones \subseteq CondTypes \ {"Ready"} /\ Milestones \subseteq AutoscalingInitList
  /\ AutoscalingInitList \subseteq CondTypes \ {"Ready"} /\ "DB" \in Milestones
  BY DEF NilConditions, Milestones, CondTypes, AutoscalingInitList

LEMMA InitializedList ==
  ASSUME NEW c \in [CondTypes -> Status]
  PROVE  \A t \in AutoscalingInitList : InitConditions(c, AutoscalingInitList)[t] = "Unknown"
  BY DEF InitConditions, AutoscalingInitList, CondTypes

\* Recomputing Ready leaves the other conditions alone.
LEMMA EndedList ==
  ASSUME TypeOK
  PROVE  \A t \in CondTypes \ {"Ready"} : R!UpdateReady(inst.status.conds)[t] = inst.status.conds[t]
  <1>1. inst.status.conds \in R!Conds
    BY DEF TypeOK, ReconcilerType, Autoscaling, InstanceType, AutoscalingStatus, R!Conds, Status,
           R!Status
  <1> QED BY <1>1, StatusOK, R!ReadyIff

\* A patch that adds or removes the finalizer carries no condition along.
LEMMA MetadataEvidence ==
  ASSUME StatusWithMetadata = FALSE, BaseInv, BaseInv', ReadyInv, PatchStep, cr'.exists,
         inst.finalizer # before.finalizer
  PROVE  EvidenceInv'
  <1>1. /\ TypeOK /\ R!ReconcilerType /\ R!EndStep /\ R!HeldInv /\ R!HeldInv'
        /\ UNCHANGED <<cache, owned, sts>>
    BY Types, Actions, Zenon DEF BaseInv, PatchStep, outputs, Patch, PatchFails, Write, TypeOK
  <1>2. cr'.status = cr.status
    BY <1>1, Parameters, R!MetadataOnly, Zenon
  <1>3. /\ pc = "patch" /\ (cr' = cr \/ R!PatchEffect(cr, before, R!Ended, cr'))
    BY <1>1, Parameters, R!EndEffect
  <1>4. cr.exists /\ cr'.deleting = cr.deleting
    BY <1>3 DEF R!PatchEffect, R!NoInstance
  <1>5. ~cr'.finalizer => ~cr.finalizer
    <2> SUFFICES ASSUME cr.finalizer, ~cr'.finalizer PROVE FALSE
      OBVIOUS
    <2>1. R!Releasing
      BY <1>1, <1>4, Parameters, R!FinalizerKept DEF R!ControllerStep
    <2>2. cr.deleting
      BY <1>1, <1>3, <2>1 DEF R!HeldInv, R!PassObject, R!PassHeld
    <2> QED BY <1>1, <1>4, <2>2 DEF R!HeldInv, R!DeletingIsHeld
  <1>6. EvidenceInv
    BY DEF ReadyInv
  <1>7. (Held(cr) => Evidence(cr.status))'
    BY <1>1, <1>2, <1>4, <1>6 DEF EvidenceInv, Evidence, Shown, Held
  <1> QED BY <1>1, <1>2, <1>4, <1>5, <1>6, <1>7 DEF EvidenceInv, Evidence, Shown, Held, Listed

\* The pass of a deletion carries nothing that the resource in use relies on.
LEMMA DeleteEvidence ==
  ASSUME BaseInv, BaseInv', ReadyInv, PatchStep, cr'.exists,
         inst.finalizer = before.finalizer, before.deleting
  PROVE  EvidenceInv'
  <1>1. /\ TypeOK /\ R!ReconcilerType /\ R!EndStep /\ R!HeldInv /\ R!LifeInv
        /\ UNCHANGED <<cache, owned, sts>>
    BY Types, Actions, Zenon DEF BaseInv, PatchStep, outputs, Patch, PatchFails, Write, TypeOK
  <1>2. /\ pc = "patch" /\ (cr' = cr \/ R!PatchEffect(cr, before, R!Ended, cr'))
    BY <1>1, Parameters, R!EndEffect
  <1>3. R!Ended.finalizer = inst.finalizer
    BY <1>1, StatusOK, R!EndedType DEF R!ReconcilerType
  <1>4. cr.exists /\ cr'.deleting = cr.deleting /\ cr'.finalizer = cr.finalizer
    BY <1>2, <1>3 DEF R!PatchEffect, R!PatchedFinalizer, R!NoInstance
  <1>5. ~Held(cr') /\ ~Held(cache)
    BY <1>1, <1>2, <1>4 DEF R!HeldInv, R!PassHeld, Held
  <1> DEFINE conds == R!UpdateReady(inst.status.conds)
  <1>6. /\ cr'.status.conds \in {cr.status.conds, conds}
        /\ conds = before.status.conds => cr'.status.conds = cr.status.conds
    BY PatchedStatus, Zenon
  <1>7. \/ conds = before.status.conds
        \/ \A t \in AutoscalingInitList : conds[t] = "Unknown"
    <2>1. CASE inst.status = before.status /\ before.status.conds # NilConditions(CondTypes)
      BY <1>1, <1>2, <2>1 DEF R!LifeInv, R!Stable, R!NilConditions, NilConditions
    <2>2. CASE inst.status.conds = R!InitConditions(before.status.conds, AutoscalingInitList)
      <3>1. before.status.conds \in [CondTypes -> Status]
        BY <1>1 DEF TypeOK, ReconcilerType, Autoscaling, InstanceType, AutoscalingStatus
      <3>2. \A t \in AutoscalingInitList : inst.status.conds[t] = "Unknown"
        BY <2>2, <3>1, InitializedList DEF R!InitConditions, InitConditions
      <3> QED BY <1>1, <3>2, EndedList, NilMilestones
    <2> QED BY <1>1, <1>2, <2>1, <2>2
            DEF R!LifeInv, R!DeletePassStatus, R!NilConditions, NilConditions
  <1> HIDE DEF conds
  <1>8. \/ cr'.status.conds = cr.status.conds
        \/ \A t \in AutoscalingInitList : cr'.status.conds[t] = "Unknown"
    BY <1>6, <1>7
  <1> QED BY <1>1, <1>4, <1>5, <1>8, NilMilestones DEF ReadyInv, EvidenceInv, Held, Listed

\* A pass of the handler hands on what it has evidence for.
LEMMA HandlerEvidence ==
  ASSUME BaseInv, BaseInv', ReadyInv, PatchStep, cr'.exists,
         inst.finalizer = before.finalizer, ~before.deleting
  PROVE  EvidenceInv'
  <1>1. /\ TypeOK /\ R!ReconcilerType /\ R!EndStep /\ R!HeldInv /\ EvidenceInv /\ EvidencePass
        /\ UNCHANGED <<cache, owned, sts>>
    BY Types, Actions, Zenon DEF BaseInv, ReadyInv, PatchStep, outputs, Patch, PatchFails, Write, TypeOK
  <1>2. /\ pc = "patch" /\ (cr' = cr \/ R!PatchEffect(cr, before, R!Ended, cr'))
    BY <1>1, Parameters, R!EndEffect, Zenon
  <1>3. R!Ended.finalizer = inst.finalizer
    BY <1>1, StatusOK, R!EndedType DEF R!ReconcilerType
  <1>4. cr.exists /\ cr'.deleting = cr.deleting /\ cr'.finalizer = cr.finalizer
    BY <1>2, <1>3 DEF R!PatchEffect, R!PatchedFinalizer, R!NoInstance
  <1>5. before.finalizer /\ Held(before) /\ cr.finalizer /\ ~R!Adding
    BY <1>1, <1>2 DEF R!HeldInv, R!PassObject, R!PassHeld, R!Adding, Held
  <1> DEFINE conds == R!UpdateReady(inst.status.conds)
  <1>6. \A t \in AutoscalingInitList : conds[t] = inst.status.conds[t] /\ conds[t] # "Absent"
    BY <1>1, <1>2, <1>5, EndedList, NilMilestones DEF EvidencePass, Listed
  <1>7. /\ cr'.status.conds \in {cr.status.conds, conds}
        /\ \/ cr'.status = cr.status
           \/ cr'.status.dbsync = IF inst.status.dbsync # before.status.dbsync
                                  THEN inst.status.dbsync ELSE cr.status.dbsync
    BY PatchedStatus, Zenon
  <1> HIDE DEF conds
  <1>8. Listed(cr'.status.conds)
    BY <1>1, <1>6, <1>7 DEF Listed, EvidenceInv
  <1>9. cr.status.dbsync # None => cr'.status.dbsync # None
    BY <1>1, <1>2, <1>5, <1>7 DEF EvidencePass
  <1>10. inst.status.dbsync # None => cr'.status.dbsync # None \/ cr'.status = cr.status
    BY <1>1, <1>2, <1>5, <1>7 DEF EvidencePass
  <1>11. (Held(cr) => Evidence(cr.status))'
    <2> SUFFICES ASSUME Held(cr') PROVE Evidence(cr.status)'
      BY DEF Held
    <2>1. Evidence(cr.status) /\ Evidence(inst.status)
      BY <1>1, <1>2, <1>4, <1>5 DEF EvidenceInv, EvidencePass, Held
    <2>2. CASE cr'.status.conds = cr.status.conds
      BY <1>1, <1>9, <2>1, <2>2 DEF Evidence, Shown
    <2>3. CASE cr'.status.conds = conds /\ cr'.status # cr.status
      BY <1>1, <1>6, <1>10, <2>1, <2>3, NilMilestones DEF Evidence, Shown
    <2> QED BY <1>7, <2>2, <2>3
  <1> QED BY <1>1, <1>4, <1>5, <1>8, <1>9, <1>11, Zenon DEF EvidenceInv, Evidence, Shown, Held, Listed

LEMMA PatchEvidence ==
  ASSUME StatusWithMetadata = FALSE, BaseInv, BaseInv', ReadyInv, PatchStep PROVE EvidenceInv'
  <1>1. CASE cr'.exists
    BY <1>1, MetadataEvidence, DeleteEvidence, HandlerEvidence, Zenon
  <1>2. CASE ~cr'.exists
    <2>1. cr' = R!NoInstance /\ ~Held(cache')
      BY <1>2 DEF BaseInv, R!HeldInv, R!Presence, R!CacheHeld, Held
    <2>2. ~Held(cr') /\ Listed(cr'.status.conds)
      BY <1>2, <2>1, StatusOK DEF Held, Listed, R!NoInstance, NoStatus
    <2>3. cache' = cache
      BY DEF PatchStep, Patch, PatchFails, Write
    <2> QED BY <1>2, <2>1, <2>2, <2>3 DEF ReadyInv, EvidenceInv, Held, Listed
  <1> QED BY <1>1, <1>2

\* A step of a pass that sets a milestone only when it has reached it.
HonestStep ==
  /\ pc \notin {"idle", "patch"} /\ pc' # "idle" /\ UNCHANGED <<cr, cache, before>>
  /\ \A t \in AutoscalingInitList :
       inst.status.conds[t] # "Absent" => inst'.status.conds[t] # "Absent"
  /\ inst'.status.dbsync = inst.status.dbsync \/ inst'.status.dbsync # None
  /\ \A t \in Milestones :
       inst'.status.conds[t] = "True" => inst.status.conds[t] = "True" \/ Shown(t, inst.status)'
  /\ pc' \in {"ks", "db", "job", "statefulset"} => inst'.status.hash # None

LEMMA HonestEvidence ==
  ASSUME BaseInv, ReadyInv, [Next]_vars, HonestStep PROVE EvidencePass'
  <1> USE DEF HonestStep
  <1>1. ~R!Adding /\ inst.status.conds # NilConditions(CondTypes)
    BY Zenon DEF ReadyInv, EvidencePass, R!Adding
  <1>2. \A t \in AutoscalingInitList : inst'.status.conds[t] # "Absent"
    BY <1>1 DEF ReadyInv, EvidencePass, Listed
  <1>3. inst'.status.conds # NilConditions(CondTypes) /\ Listed(inst'.status.conds)
    BY <1>2, NilMilestones DEF Listed
  <1>4. ASSUME Held(before)
        PROVE  /\ Evidence(inst.status)'
               /\ inst'.status.dbsync # before.status.dbsync => inst'.status.dbsync # None
    <2>1. /\ Evidence(inst.status)
          /\ inst.status.dbsync # before.status.dbsync => inst.status.dbsync # None
      BY <1>4, Zenon DEF ReadyInv, EvidencePass
    <2>2. /\ \A o \in Owned : owned[o].finalizer => owned'[o].finalizer
          /\ sts.hash # None => sts'.hash # None
      BY <1>4, EvidenceKept, Zenon
    <2>3. Evidence(inst.status)'
      BY <2>1, <2>2, Zenon DEF Evidence, Shown, Owned
    <2> QED BY <2>1, <2>3
  <1> QED BY <1>3, <1>4, Zenon DEF ReadyInv, EvidencePass, Held, Listed

\* The conditions change, and only those of the given types may become True.
Marks(types) ==
  \A u \in CondTypes :
    /\ inst.status.conds[u] # "Absent" => inst'.status.conds[u] # "Absent"
    /\ inst'.status.conds[u] = "True" => inst.status.conds[u] = "True" \/ u \in types

LEMMA MarksCases ==
  ASSUME TypeOK
  PROVE  /\ inst'.status.conds = inst.status.conds => Marks({})
         /\ \A types : inst'.status.conds = Truths(types) => Marks(types)
         /\ \A t \in CondTypes, s \in Status \ {"Absent"} :
              inst'.status.conds = CondSet(t, s) => Marks({t}) /\ (s # "True" => Marks({}))
  <1>1. inst.status.conds \in [CondTypes -> Status]
    BY DEF TypeOK, ReconcilerType, Autoscaling, InstanceType, AutoscalingStatus
  <1> QED BY <1>1 DEF Marks, Truths, CondSet

\* The calls that read the inputs reach no milestone.
LEMMA InputEvidence ==
  ASSUME BaseInv, ReadyInv,
         \/ ReconcileRbac \/ TransportURLCreateOrUpdate \/ GetOspSecret
         \/ GetAutoscalingMemcached \/ GetAutoscalingHeat \/ GetTransportSecret
  PROVE  HonestStep
  <1> USE DEF Waited, Went
  <1>1. TypeOK /\ "False" \in Status \ {"Absent", "True"} /\ inst \in Autoscaling
        /\ {"RabbitMqTransportURL", "Input", "Memcached", "Heat"} \subseteq CondTypes
    BY DEF BaseInv, TypeOK, ReconcilerType, CondTypes, Status
  <1>2. /\ pc \notin {"idle", "patch"} /\ before' = before
        /\ pc' \notin {"idle", "ks", "db", "job", "statefulset"}
    BY <1>1, InputCalls, Zenon
  <1>3. UNCHANGED <<cr, cache>>
    BY Zenon DEF ReconcileRbac, TransportURLCreateOrUpdate, GetOspSecret, GetAutoscalingMemcached,
           GetAutoscalingHeat, GetTransportSecret, Call, server
  <1>4. \E c : /\ Only(inst', c)
               /\ \/ c = inst.status.conds
                  \/ \E types \in {{"Rbac", "ServiceConfig"}, {"RabbitMqTransportURL"},
                                   {"Memcached"}, {"Heat"}} : c = Truths(types)
                  \/ \E t \in {"RabbitMqTransportURL", "Input", "Memcached", "Heat"} :
                       c = CondSet(t, "False")
    BY <1>1, InputCalls, InstType, Zenon
  <1>5. /\ inst'.status.dbsync = inst.status.dbsync
        /\ \E types : Marks(types) /\ types \cap Milestones = {}
    <2>1. PICK c : /\ Only(inst', c)
                   /\ \/ c = inst.status.conds
                      \/ \E types \in {{"Rbac", "ServiceConfig"}, {"RabbitMqTransportURL"},
                                       {"Memcached"}, {"Heat"}} : c = Truths(types)
                      \/ \E t \in {"RabbitMqTransportURL", "Input", "Memcached", "Heat"} :
                           c = CondSet(t, "False")
      BY <1>4
    <2>2. inst'.status.conds = c /\ inst'.status.dbsync = inst.status.dbsync
      BY <2>1 DEF Only
    <2>3. CASE c = inst.status.conds
      BY <1>1, <2>2, <2>3, MarksCases
    <2>4. ASSUME NEW types \in {{"Rbac", "ServiceConfig"}, {"RabbitMqTransportURL"},
                                {"Memcached"}, {"Heat"}}, c = Truths(types)
          PROVE  Marks(types) /\ types \cap Milestones = {}
      BY <1>1, <2>2, <2>4, MarksCases DEF Milestones
    <2>5. ASSUME NEW t \in {"RabbitMqTransportURL", "Input", "Memcached", "Heat"},
                 c = CondSet(t, "False")
          PROVE  Marks({})
      BY <1>1, <2>2, <2>5, MarksCases, Zenon
    <2> QED BY <2>1, <2>2, <2>3, <2>4, <2>5
  <1> QED BY <1>2, <1>3, <1>5, NilMilestones DEF HonestStep, Marks

LEMMA ConfigEvidence ==
  ASSUME BaseInv, ReadyInv, GenerateServiceConfig PROVE HonestStep
  <1>1. /\ TypeOK /\ "False" \in Status \ {"Absent", "True"} /\ "ServiceConfig" \in CondTypes
        /\ UNCHANGED <<cr, cache>>
    BY Zenon DEF BaseInv, CondTypes, Status, GenerateServiceConfig, Call, server
  <1>2. /\ pc = "config" /\ before' = before /\ pc' \in {"patch", "ks"}
        /\ inst'.status.dbsync = inst.status.dbsync
        /\ inst'.status.conds = inst.status.conds
           \/ inst'.status.conds = CondSet("ServiceConfig", "False")
        /\ pc' = "ks" => inst'.status.hash \in Hash
    BY ConfigCall, Zenon DEF BaseInv, Waited, Went, Only
  <1>3. Marks({})
    BY <1>1, <1>2, MarksCases, Zenon
  <1> QED BY <1>1, <1>2, <1>3, NilMilestones, HashAssumption DEF HonestStep, Marks

\* The condition of an object is mirrored once the object carries the finalizer.
LEMMA MirrorsMarks ==
  ASSUME TypeOK, NEW o \in Owned, NEW t \in CondTypes, Mirrors(o, t)
  PROVE  /\ inst'.status.dbsync = inst.status.dbsync /\ inst'.status.hash = inst.status.hash
         /\ Marks({t})
  <1>1. Ensured(o).ready \in Status
    BY OwnedTypes, Zenon DEF Object
  <1>2. CASE Only(inst', inst.status.conds)
    BY <1>2, MarksCases DEF Only, Marks
  <1>3. CASE Ensured(o).ready # "Absent" /\ Only(inst', CondSet(t, Ensured(o).ready))
    BY <1>1, <1>3, MarksCases DEF Only
  <1> QED BY <1>2, <1>3 DEF Mirrors

LEMMA OwnedEvidence ==
  ASSUME BaseInv, ReadyInv, EnsureKeystoneService \/ EnsureDatabase \/ EnsureKeystoneEndpoint
  PROVE  HonestStep
  <1> USE DEF Went, Returned, Waited
  <1>1. /\ TypeOK /\ R!HeldInv /\ "False" \in Status \ {"Absent", "True"}
        /\ {"KeystoneService", "DB", "KeystoneEndpoint"} \subseteq CondTypes
        /\ {"ks", "db", "endpoint"} \subseteq Owned
    BY DEF BaseInv, CondTypes, Status, Owned
  <1>2. UNCHANGED <<cr, cache>>
    BY Zenon DEF EnsureKeystoneService, EnsureDatabase, EnsureKeystoneEndpoint, Call, server
  <1>3. pc \in {"ks", "db"} => inst.status.hash # None
    BY DEF ReadyInv, EvidencePass
  <1>4. CASE EnsureKeystoneService
    <2>1. /\ pc = "ks" /\ pc' \in {"db", "patch"} /\ before' = before
          /\ \/ WriteOwned("ks", Ensured("ks")) /\ Mirrors("ks", "KeystoneService")
             \/ inst' = inst
      BY <1>1, <1>4, OwnedCalls, Zenon
    <2>2. CASE inst' = inst
      BY <1>2, <1>3, <2>1, <2>2 DEF HonestStep
    <2>3. CASE WriteOwned("ks", Ensured("ks")) /\ Mirrors("ks", "KeystoneService")
      <3>1. /\ inst'.status.dbsync = inst.status.dbsync /\ inst'.status.hash = inst.status.hash
            /\ Marks({"KeystoneService"}) /\ owned'["ks"].finalizer
        BY <1>1, <2>3, MirrorsMarks, EnsuredType
      <3> QED BY <1>2, <1>3, <2>1, <3>1, NilMilestones DEF HonestStep, Marks, Shown
    <2> QED BY <2>1, <2>2, <2>3
  <1>5. CASE EnsureDatabase
    <2>1. /\ pc = "db" /\ pc' \in {"job", "patch"} /\ before' = before
          /\ inst'.status.dbsync = inst.status.dbsync /\ inst'.status.hash = inst.status.hash
          /\ WriteOwned("db", Ensured("db"))
          /\ inst'.status.conds = Truths({"DB"}) \/ inst'.status.conds = CondSet("DB", "False")
      BY <1>1, <1>5, OwnedCalls, Zenon DEF Only
    <2>2. Marks({"DB"}) /\ owned'["db"].finalizer
      BY <1>1, <2>1, MarksCases, EnsuredType
    <2> QED BY <1>2, <1>3, <2>1, <2>2, NilMilestones DEF HonestStep, Marks, Shown
  <1>6. CASE EnsureKeystoneEndpoint
    <2>1. /\ pc = "endpoint" /\ pc' = "patch" /\ before' = before
          /\ WriteOwned("endpoint", Ensured("endpoint"))
          /\ Mirrors("endpoint", "KeystoneEndpoint")
      BY <1>1, <1>6, OwnedCalls, Zenon
    <2>2. /\ inst'.status.dbsync = inst.status.dbsync
          /\ Marks({"KeystoneEndpoint"}) /\ owned'["endpoint"].finalizer
      BY <1>1, <2>1, MirrorsMarks, EnsuredType
    <2> QED BY <1>2, <2>1, <2>2, NilMilestones DEF HonestStep, Marks, Shown
  <1> QED BY <1>4, <1>5, <1>6

LEMMA DeployEvidence ==
  ASSUME BaseInv, ReadyInv, DoJob \/ ReconcileStatefulSet \/ ExposeServices PROVE HonestStep
  <1> USE DEF Went, Returned, Waited
  <1>1. /\ TypeOK /\ R!HeldInv /\ "False" \in Status \ {"Absent", "True"}
        /\ "True" \in Status \ {"Absent"} /\ {"DBSync", "Deployment"} \subseteq CondTypes
    BY DEF BaseInv, CondTypes, Status
  <1>2. UNCHANGED <<cr, cache>>
    BY Zenon DEF DoJob, ReconcileStatefulSet, ExposeServices, Call, server
  <1>3. pc \in {"job", "statefulset"} => inst.status.hash # None
    BY DEF ReadyInv, EvidencePass
  <1>4. CASE DoJob
    <2>1. /\ pc = "job" /\ pc' \in {"statefulset", "patch"} /\ before' = before
          /\ inst'.status.hash = inst.status.hash
          /\ \/ inst'.status.conds = Truths({"DBSync"}) /\ inst'.status.dbsync = inst.spec.image
             \/ /\ inst'.status.conds = CondSet("DBSync", "False")
                /\ inst'.status.dbsync = inst.status.dbsync
      BY <1>1, <1>4, DeployCalls, Zenon DEF Only
    <2>2. inst.spec.image # None
      BY <1>1, <2>1, PassSpec, NoneAssumption
    <2>3. Marks({"DBSync"})
          /\ \/ inst'.status.dbsync = inst.status.dbsync /\ Marks({})
             \/ inst'.status.dbsync # None
      BY <1>1, <2>1, <2>2, MarksCases
    <2> QED BY <1>2, <1>3, <2>1, <2>3, NilMilestones DEF HonestStep, Marks, Shown
  <1>5. CASE ReconcileStatefulSet
    <2>1. /\ pc = "statefulset" /\ pc' = "services" /\ before' = before
          /\ inst'.status.dbsync = inst.status.dbsync /\ CreateOrPatchStatefulSet
          /\ inst'.status.conds \in {inst.status.conds, CondSet("Deployment", "True")}
      BY <1>1, <1>5, DeployCalls, Zenon
    <2>2. sts'.hash # None
      BY <1>1, <1>3, <2>1, StatefulSetType
    <2>3. Marks({"Deployment"})
      BY <1>1, <2>1, MarksCases DEF Marks
    <2> QED BY <1>2, <2>1, <2>2, <2>3, NilMilestones DEF HonestStep, Marks, Shown
  <1>6. CASE ExposeServices
    <2>1. /\ pc = "services" /\ pc' = "endpoint" /\ before' = before
          /\ inst'.status.dbsync = inst.status.dbsync
          /\ inst'.status.conds = Truths({"ExposeService"})
      BY <1>1, <1>6, DeployCalls, Zenon DEF Only
    <2>2. Marks({"ExposeService"}) /\ "ExposeService" \notin Milestones
      BY <1>1, <2>1, MarksCases DEF Milestones
    <2> QED BY <1>2, <2>1, <2>2, NilMilestones DEF HonestStep, Marks
  <1> QED BY <1>4, <1>5, <1>6

LEMMA FailEvidence == ASSUME BaseInv, ReadyInv, ReconcileDeleteAodh \/ CallFails PROVE HonestStep
  <1>1. TypeOK /\ "False" \in Status \ {"Absent", "True"} /\ inst \in Autoscaling
    BY DEF BaseInv, TypeOK, ReconcilerType, Status
  <1>2. CASE ReconcileDeleteAodh
    <2>1. /\ pc \notin {"idle", "patch"} /\ pc' \in {"deleteKs", "deleteEndpoint", "patch"}
          /\ UNCHANGED <<cr, cache, before>>
          /\ inst' = inst \/ inst' = [inst EXCEPT !.finalizer = FALSE]
      BY <1>1, <1>2, DeleteCalls, Zenon DEF server
    <2>2. inst'.status = inst.status
      BY <1>1, <2>1 DEF Autoscaling, InstanceType
    <2> QED BY <2>1, <2>2 DEF HonestStep
  <1>3. CASE CallFails
    <2>1. /\ pc \in Steps \ {"idle", "patch"} /\ pc' = "patch" /\ inst' = OnError(pc)
          /\ UNCHANGED <<cr, cache, before>>
      BY <1>3 DEF CallFails, Return, server
    <2>2. inst' = inst \/ \E t \in CondTypes : Only(inst', CondSet(t, "False"))
      BY <1>1, <2>1, OnErrorMarks
    <2>3. Marks({}) /\ inst'.status.dbsync = inst.status.dbsync
      BY <1>1, <2>2, MarksCases, Zenon DEF Only
    <2> QED BY <2>1, <2>3, NilMilestones DEF HonestStep, Marks
  <1> QED BY <1>2, <1>3

\* A pass begins with what the cache shows.
LEMMA BeginEvidence ==
  ASSUME BaseInv, ReadyInv, Reconcile PROVE EvidenceInv' /\ EvidencePass'
  <1>1. R!ReconcilerType /\ R!BeginStep /\ TypeOK /\ EvidenceInv
    BY Types, Actions DEF BaseInv, ReadyInv, TypeOK
  <1>2. UNCHANGED <<cr, cache, owned, sts>>
    BY <1>1, Parameters, R!BeginType DEF Reconcile, outputs
  <1>3. EvidenceInv'
    BY <1>1, <1>2, Zenon DEF EvidenceInv, Evidence, Shown, Held, Listed
  <1>4. EvidencePass'
    <2> SUFFICES ASSUME pc' # "idle" PROVE EvidencePass'
      BY Zenon DEF EvidencePass
    <2>1. before' = cache /\ cache \in Autoscaling /\ pc' \in {"patch", "delete", "rbac"}
      BY DEF Reconcile, NotFound, Fetch, worker, AddFinalizer, InitStatus, Dispatch, Begin, TypeOK,
             BaseInv, ReconcilerType
    <2>2. (Held(before) => Evidence(before.status))'
          /\ (Held(before') /\ before'.status.dbsync # None => cr'.status.dbsync # None)
          /\ Listed(before'.status.conds)
      BY <1>1, <1>2, <2>1, Zenon DEF EvidenceInv, Evidence, Shown, Held, Listed
    <2>3. ~NotFound
      BY DEF NotFound, Fetch, worker
    <2>4. CASE AddFinalizer
      <3>1. /\ pc' = "patch" /\ ~before'.finalizer /\ inst'.finalizer
            /\ inst'.status = before'.status
        BY <2>4, <2>1 DEF AddFinalizer, Begin, Autoscaling, InstanceType
      <3>2. R!Adding' /\ ~Held(before')
        BY <3>1 DEF R!Adding, Held
      <3> QED BY <2>1, <2>2, <3>1, <3>2 DEF EvidencePass, Held, Listed
    <2>5. CASE InitStatus
      <3>1. cache.status.conds \in [CondTypes -> Status]
            /\ InitConditions(cache.status.conds, AutoscalingInitList) \in [CondTypes -> Status]
        BY <2>1 DEF Autoscaling, InstanceType, AutoscalingStatus, InitConditions, Status
      <3>2. /\ pc' = "patch" /\ inst'.status.dbsync = before'.status.dbsync
            /\ inst'.status.conds = InitConditions(cache.status.conds, AutoscalingInitList)
        BY <2>5, <2>1, <3>1
           DEF InitStatus, Begin, Autoscaling, InstanceType, AutoscalingStatus
      <3>3. \A t \in AutoscalingInitList : inst'.status.conds[t] = "Unknown"
        BY <3>1, <3>2, InitializedList, Zenon
      <3>4. Listed(inst'.status.conds) /\ inst'.status.conds # NilConditions(CondTypes)
            /\ Evidence(inst.status)'
        BY <3>3, NilMilestones DEF Listed, Evidence
      <3> QED BY <2>1, <2>2, <3>2, <3>4 DEF EvidencePass, Held, Listed
    <2>6. CASE Dispatch("rbac")
      <3>1. /\ inst' = before' /\ pc' \in {"delete", "rbac"}
            /\ before'.status.conds # NilConditions(CondTypes)
        BY <2>6, <2>1 DEF Dispatch, Begin, NoStatus
      <3> QED BY <2>1, <2>2, <3>1 DEF EvidencePass, Evidence, Shown, Held, Listed
    <2> QED BY <2>3, <2>4, <2>5, <2>6 DEF Reconcile
  <1> QED BY <1>3, <1>4

\* Neither the user nor the informer takes away what a condition stands for.
LEMMA UserEvidence ==
  ASSUME BaseInv, BaseInv', ReadyInv, User PROVE EvidenceInv' /\ EvidencePass'
  <1>1. R!ReconcilerType /\ R!UserStep /\ R!HeldInv' /\ EvidenceInv /\ EvidencePass
    BY Types, Actions DEF BaseInv, ReadyInv, TypeOK
  <1>2. UNCHANGED <<cache, pc, before, inst, owned, sts>>
    BY <1>1, Parameters, R!UserEffect DEF User, outputs
  <1>3. \/ cr'.exists /\ ~cr'.finalizer /\ cr'.status = NoStatus
        \/ /\ cr.exists /\ cr'.exists /\ cr'.status = cr.status
           /\ (cr'.finalizer <=> cr.finalizer) /\ (cr.deleting => cr'.deleting)
        \/ cr' = R!NoInstance
    BY <1>1, Parameters, R!UserEffect, Zenon
  <1>4. CASE (cr'.exists /\ ~cr'.finalizer /\ cr'.status = NoStatus) \/ cr' = R!NoInstance
    <2>1. cr'.status.conds = NilConditions(CondTypes) /\ (~cr'.exists \/ ~cr'.finalizer)
      BY <1>4 DEF R!NoInstance, NoStatus
    <2>2. ~Held(cr') /\ ~Held(cache') /\ (pc # "idle" => ~Held(before'))
      BY <1>1, <1>2, <2>1 DEF R!HeldInv, R!CacheHeld, R!PassHeld, Held
    <2>3. \A t \in Milestones : cr'.status.conds[t] # "True"
      BY <2>1, NilMilestones
    <2> QED BY <1>1, <1>2, <2>1, <2>2, <2>3, Zenon
            DEF EvidenceInv, EvidencePass, Held, Listed, R!Adding
  <1>5. CASE /\ cr.exists /\ cr'.exists /\ cr'.status = cr.status
             /\ (cr'.finalizer <=> cr.finalizer) /\ (cr.deleting => cr'.deleting)
    <2>1. EvidenceInv'
      BY <1>1, <1>2, <1>5, Zenon DEF EvidenceInv, Evidence, Shown, Held, Listed
    <2>2. EvidencePass'
      BY <1>1, <1>2, <1>5, Zenon DEF EvidencePass, Evidence, Shown, Held, Listed, R!Adding
    <2> QED BY <2>1, <2>2
  <1> QED BY <1>3, <1>4, <1>5

LEMMA CacheEvidence ==
  ASSUME BaseInv, ReadyInv, SyncAutoscaling \/ Restart PROVE EvidenceInv' /\ EvidencePass'
  <1>1. /\ cr' = cr /\ cache' = cr /\ UNCHANGED <<owned, sts>>
        /\ UNCHANGED <<pc, before, inst>> \/ pc' = "idle"
    BY DEF SyncAutoscaling, SyncCache, worker, Restart, Restarted, Done, outputs
  <1>2. EvidenceInv'
    BY <1>1, Zenon DEF ReadyInv, EvidenceInv, Evidence, Shown, Held, Listed
  <1>3. EvidencePass'
    BY <1>1, Zenon DEF ReadyInv, EvidencePass, Evidence, Shown, Held, Listed, R!Adding
  <1> QED BY <1>2, <1>3

\* The steps that leave the resource and the cache alone.
LEMMA SameEvidence ==
  ASSUME BaseInv, ReadyInv, [Next]_vars, UNCHANGED <<cr, cache>> PROVE EvidenceInv'
  <1>1. ASSUME Held(cr) \/ Held(cache)
        PROVE  /\ \A o \in Owned : owned[o].finalizer => owned'[o].finalizer
               /\ sts.hash # None => sts'.hash # None
    BY <1>1, EvidenceKept, Zenon DEF Held
  <1>2. (Held(cr) => Evidence(cr.status))' /\ (Held(cache) => Evidence(cache.status))'
    BY <1>1 DEF ReadyInv, EvidenceInv, Evidence, Shown, Held, Owned
  <1> QED BY <1>2, Zenon DEF ReadyInv, EvidenceInv, Held, Listed

LEMMA OutsideEvidence ==
  ASSUME BaseInv, ReadyInv, Outside PROVE EvidenceInv' /\ EvidencePass'
  <1>1. UNCHANGED <<cr, cache, pc, before, inst>> /\ [Next]_vars
    <2>1. R!OutsideStep /\ UNCHANGED pass
      BY OutsideSteps DEF BaseInv
    <2> QED BY <2>1, Zenon DEF pass, R!OutsideStep, R!resource, Outside, Next
  <1>2. ASSUME pc # "idle", Held(before)
        PROVE  /\ \A o \in Owned : owned[o].finalizer => owned'[o].finalizer
               /\ sts.hash # None => sts'.hash # None
    BY <1>1, <1>2, EvidenceKept, Zenon DEF Held
  <1>3. pc # "idle" => (Held(before) => Evidence(inst.status))'
    BY <1>1, <1>2 DEF ReadyInv, EvidencePass, Evidence, Shown, Held, Owned
  <1>4. EvidencePass'
    BY <1>1, <1>3, Zenon DEF ReadyInv, EvidencePass, Held, Listed, R!Adding
  <1> QED BY <1>1, <1>4, SameEvidence

LEMMA ReadyStep ==
  ASSUME StatusWithMetadata = FALSE, BaseInv, ReadyInv, [Next]_vars PROVE ReadyInv'
  <1>1. BaseInv'
    BY BaseStep
  <1>2. CASE PatchStep
    <2>1. EvidencePass'
      BY <1>2, Zenon DEF PatchStep, Patch, PatchFails, Done, EvidencePass
    <2> QED BY <1>1, <1>2, <2>1, PatchEvidence, Zenon DEF ReadyInv
  <1>3. CASE (Work /\ ~PatchStep /\ ~Reconcile) \/ CallFails
    <2>1. HonestStep
      BY <1>3, InputEvidence, ConfigEvidence, OwnedEvidence, DeployEvidence, FailEvidence
         DEF Work
    <2>2. EvidencePass'
      BY <2>1, HonestEvidence
    <2> QED BY <2>1, <2>2, SameEvidence, Zenon DEF ReadyInv, HonestStep
  <1>4. CASE Reconcile \/ User \/ SyncAutoscaling \/ Restart \/ Outside
    BY <1>1, <1>4, BeginEvidence, UserEvidence, CacheEvidence, OutsideEvidence DEF ReadyInv
  <1> QED BY <1>2, <1>3, <1>4, NextCases

LEMMA ReadyInit == ASSUME Init PROVE ReadyInv
  <1>1. cr = NoInstance /\ cache = NoInstance /\ pc = "idle" /\ NoInstance.status = NoStatus
        /\ ~NoInstance.exists /\ NoStatus.conds = NilConditions(CondTypes)
    BY DEF Init, ReconcilerInit, NoInstance, NoStatus
  <1> QED BY <1>1, Zenon DEF ReadyInv, EvidenceInv, EvidencePass, Held, Listed

\* An Autoscaling is Ready only after all of reconcileNormal: with its database
\* migrated, its three objects held and its StatefulSet written, for every
\* sequence of passes, failures, restarts and edits, as long as a patch of the
\* metadata carries no status.
THEOREM ReadyMeansRolledOut ==
  ASSUME StatusWithMetadata = FALSE PROVE Spec => []ReadyAfterRollout
  <1> DEFINE Inv == BaseInv /\ ReadyInv
  <1>1. ASSUME Inv PROVE ReadyAfterRollout
    <2> SUFFICES ASSUME cr.exists, ~cr.deleting, Ready(cr)
                 PROVE  /\ \A o \in Owned : owned[o].finalizer
                        /\ cr.status.dbsync # None /\ sts.hash # None
      BY DEF ReadyAfterRollout
    <2>1. cr.status.conds \in R!Conds /\ cr.status.conds["Ready"] = "True"
      BY <1>1 DEF BaseInv, TypeOK, ReconcilerType, Autoscaling, InstanceType, AutoscalingStatus,
             R!Conds, Status, R!Status, Ready
    <2>2. R!Ready(cr) /\ cr.finalizer
      BY <1>1, <2>1 DEF BaseInv, R!LifeInv, R!Ready
    <2>3. cr.status.conds # NilConditions(CondTypes)
      BY <2>1, NilMilestones DEF CondTypes
    <2>4. R!UpdateReady(cr.status.conds) = cr.status.conds
      BY <1>1, <2>3 DEF BaseInv, R!LifeInv, R!Stable, R!NilConditions, NilConditions
    <2>5. R!AllSubConditionIsTrue(cr.status.conds)
      BY <2>1, <2>4, StatusOK, R!ReadyIff
    <2>6. \A t \in Milestones : cr.status.conds[t] = "True"
      BY <1>1, <2>1, <2>3, <2>5, NilMilestones, Zenon
         DEF ReadyInv, EvidenceInv, Listed, R!AllSubConditionIsTrue, R!Conds
    <2>7. \A t \in Milestones : Shown(t, cr.status)
      BY <1>1, <2>2, <2>6 DEF ReadyInv, EvidenceInv, Evidence, Held
    <2> QED BY <2>7 DEF Shown, Milestones, Owned
  <1>2. ASSUME Init PROVE Inv
    BY <1>2, InitBase, ReadyInit
  <1>3. ASSUME Inv, [Next]_vars PROVE Inv'
    BY <1>3, BaseStep, ReadyStep, Zenon
  <1> HIDE DEF Inv
  <1> QED BY <1>1, <1>2, <1>3, PTL DEF Spec
===============================================================================
