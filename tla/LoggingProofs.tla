----------------------------- MODULE LoggingProofs -----------------------------
(***************************************************************************)
(* Proofs about LoggingController, for every value of its constants.       *)
(***************************************************************************)
EXTENDS LoggingController, TLAPS

LoggingSteps == {"idle", "delete", "rbac", "config", "service", "patch"}

R == INSTANCE ReconcilerProofs WITH
  EmptyStatus <- NoStatus, InitList <- LoggingInitList, ReturnsPatchError <- TRUE,
  Specs <- LoggingSpec, Statuses <- LoggingStatus,
  Steps <- LoggingSteps, DeleteSteps <- {"delete"}

(***************************************************************************)
(* What the general facts about reconcilers require                        *)
(***************************************************************************)
LEMMA StatusOK == R!StatusesOK
  <1>1. "Ready" \in CondTypes /\ LoggingInitList \subseteq CondTypes
        /\ \E t \in LoggingInitList : t # "Ready"
    BY DEF CondTypes, LoggingInitList
  <1>2. NoStatus \in LoggingStatus /\ NoStatus.conds = R!NilConditions(CondTypes)
    BY DEF NoStatus, LoggingStatus, NilConditions, R!NilConditions, Status
  <1>3. /\ \A s \in LoggingStatus : s.conds \in R!Conds
        /\ \A s \in LoggingStatus, c \in R!Conds :
             [s EXCEPT !.conds = c] \in LoggingStatus /\ [s EXCEPT !.conds = c].conds = c
    BY DEF LoggingStatus, Status, R!Conds, R!Status
  <1>4. R!MergeOK
    <2> SUFFICES ASSUME NEW a \in LoggingStatus, NEW b \in LoggingStatus, NEW c \in LoggingStatus
                 PROVE  /\ R!Merged(a, b, c) \in LoggingStatus
                        /\ R!Merged(a, b, c).conds = IF c.conds # b.conds THEN c.conds ELSE a.conds
                        /\ R!Merged(b, b, c) = c
      BY DEF R!MergeOK
    <2>1. ASSUME NEW d \in LoggingStatus
          PROVE  R!Merged(d, b, c) =
                   [conds |-> IF c.conds # b.conds THEN c.conds ELSE d.conds,
                    hash |-> IF c.hash # b.hash THEN c.hash ELSE d.hash]
      BY DEF R!Merged, LoggingStatus
    <2> QED BY <2>1 DEF LoggingStatus
  <1> QED BY <1>1, <1>2, <1>3, <1>4 DEF R!StatusesOK

LEMMA Parameters == R!ParametersOK
  <1>1. R!StepsOK
    BY DEF R!StepsOK, LoggingSteps
  <1> QED BY <1>1, StatusOK, BoundAssumption DEF R!ParametersOK

LEMMA Types ==
  /\ Logging = R!Instances
  /\ TypeOK <=> /\ R!ReconcilerType
                /\ ca \in Certificates \cup {None}
                /\ secret \in Content \cup {None}
                /\ service \in [Namespaces -> Addresses \cup {None}]
  <1>1. Logging = R!Instances
    BY DEF Logging, InstanceType, R!Instances, R!InstanceType
  <1> QED BY <1>1 DEF TypeOK, R!ReconcilerType, LoggingSteps

\* The operators of Reconciler are those that the general facts are about.
LEMMA Operators ==
  /\ NoInstance = R!NoInstance
  /\ \A c : UpdateReady(c) = R!UpdateReady(c)
  /\ \A c, l : InitConditions(c, l) = R!InitConditions(c, l)
  /\ Ended = R!Ended
  /\ \A t, s : With(t, s) = R!With(t, s)
  <1>1. \A c, t, s : Mark(c, t, s) = R!Mark(c, t, s)
    BY DEF Mark, R!Mark
  <1>2. \A c : AllSubConditionIsTrue(c) <=> R!AllSubConditionIsTrue(c)
    BY DEF AllSubConditionIsTrue, R!AllSubConditionIsTrue
  <1>3. \A c : Mirror(c) = R!Mirror(c)
    BY Zenon DEF Mirror, R!Mirror
  <1>4. \A c : UpdateReady(c) = R!UpdateReady(c)
    BY <1>1, <1>2, <1>3, Zenon DEF UpdateReady, R!UpdateReady
  <1> QED BY <1>1, <1>4, Zenon
    DEF NoInstance, R!NoInstance, InitConditions, R!InitConditions, Ended, R!Ended, With, R!With

LEMMA Actions ==
  /\ Reconcile => R!BeginStep
  /\ PatchStep => R!EndStep
  /\ Restarted => R!Restarted
  /\ SyncLogging => R!SyncCache
  /\ User => R!UserStep
  <1> USE Operators, Zenon
  <1>1. Reconcile => R!BeginStep
    <2>1. NotFound => R!NotFound
      BY DEF NotFound, Fetch, worker, resource, bounds,
             R!NotFound, R!Fetch, R!worker, R!resource, R!bounds
    <2>2. AddFinalizer => R!AddFinalizer
      BY DEF AddFinalizer, Fetch, Begin, resource, bounds,
             R!AddFinalizer, R!Fetch, R!Begin, R!resource, R!bounds
    <2>3. InitStatus => R!InitStatus
      BY DEF InitStatus, Initialized, Fetch, Begin, resource, bounds,
             R!InitStatus, R!Initialized, R!Fetch, R!Begin, R!resource, R!bounds
    <2>4. Dispatch("rbac") => R!Dispatch("rbac")
      BY DEF Dispatch, Initialized, Fetch, Begin, resource, bounds,
             R!Dispatch, R!Initialized, R!Fetch, R!Begin, R!resource, R!bounds
    <2>5. "rbac" \in R!NormalSteps
      BY SMT DEF R!NormalSteps, LoggingSteps
    <2> QED BY <2>1, <2>2, <2>3, <2>4, <2>5 DEF Reconcile, R!BeginStep
  <1>2. PatchStep => R!EndStep
    <2>1. \A a, b, c : PatchMetadata(a, b, c) = R!PatchMetadata(a, b, c)
      BY DEF PatchMetadata, R!PatchMetadata
    <2>2. \A a, b, c : PatchStatus(a, b, c) = R!PatchStatus(a, b, c)
      BY DEF PatchStatus, R!PatchStatus
    <2>3. \A a, b, c : PatchInstance(a, b, c) = R!PatchInstance(a, b, c)
      BY <2>1, <2>2 DEF PatchInstance, R!PatchInstance
    <2>4. \A i : Write(i) <=> R!Write(i)
      BY DEF Write, R!Write
    <2>5. Done <=> R!Done
      BY DEF Done, R!Done
    <2>6. Patch => R!Patch
      BY <2>3, <2>4, <2>5 DEF Patch, R!Patch, bounds, R!bounds
    <2>7. PatchFails => R!PatchFails
      BY <2>1, <2>3, <2>4, <2>5 DEF PatchFails, R!PatchFails, Fault, R!Fault
    <2> QED BY <2>6, <2>7 DEF PatchStep, R!EndStep
  <1>3. Restarted => R!Restarted
    BY DEF Restarted, R!Restarted, Done, R!Done
  <1>4. SyncLogging => R!SyncCache
    BY DEF SyncLogging, SyncCache, R!SyncCache, worker, R!worker, bounds, R!bounds
  <1>5. User => R!UserStep
    <2>1. \A s : UserCreates(s) => R!UserCreates(s)
      BY DEF UserCreates, R!UserCreates, Write, R!Write, worker, R!worker, Disturb, R!Disturb
    <2>2. \A s : UserEdits(s) => R!UserEdits(s)
      BY DEF UserEdits, R!UserEdits, Write, R!Write, worker, R!worker, Disturb, R!Disturb
    <2>3. UserDeletes => R!UserDeletes
      BY DEF UserDeletes, R!UserDeletes, Write, R!Write, worker, R!worker, bounds, R!bounds
    <2> QED BY <2>1, <2>2, <2>3 DEF User, R!UserStep
  <1> QED BY <1>1, <1>2, <1>3, <1>4, <1>5

(***************************************************************************)
(* Type correctness                                                        *)
(***************************************************************************)
\* The instance i differs from j in its conditions, which are c, only.
OnlyConds(i, j, c) ==
  /\ i \in Logging
  /\ i.exists = j.exists /\ i.deleting = j.deleting /\ i.finalizer = j.finalizer
  /\ i.spec = j.spec /\ i.status.hash = j.status.hash
  /\ i.status.conds = c

LEMMA WithConds ==
  ASSUME inst \in Logging, NEW t \in CondTypes, NEW s \in Status
  PROVE  OnlyConds(With(t, s), inst, [inst.status.conds EXCEPT ![t] = s])
  BY DEF With, Mark, OnlyConds, Logging, InstanceType, LoggingStatus

LEMMA RbacConds ==
  ASSUME inst \in Logging, NEW s \in Status
  PROVE  \/ RbacConditionsSet(s) = inst /\ inst.status.conds["Rbac"] = "Absent"
         \/ /\ RbacConditionsSet(s) = With("Rbac", s)
            /\ OnlyConds(RbacConditionsSet(s), inst, [inst.status.conds EXCEPT !["Rbac"] = s])
  <1>1. "Rbac" \in CondTypes
    BY DEF CondTypes, LoggingInitList
  <1> QED BY <1>1, WithConds DEF RbacConditionsSet

\* The instance after ReconcileRbac.
LEMMA RbacStep ==
  ASSUME TypeOK, ReconcileRbac
  PROVE  /\ inst' \in Logging /\ inst'.status.hash = inst.status.hash
         /\ R!SameObject(inst', inst) /\ inst'.finalizer = inst.finalizer
         /\ inst'.status.conds["Input"] = "True"
         /\ inst'.status.conds["Rbac"] \in {"Absent", "True"}
  <1> DEFINE i == RbacConditionsSet("True")
  <1>1. inst \in Logging /\ "True" \in Status /\ "Rbac" \in CondTypes /\ "Input" \in CondTypes
    BY DEF TypeOK, Status, CondTypes, LoggingInitList
  <1>2. /\ i \in Logging /\ i.status.hash = inst.status.hash
        /\ R!SameObject(i, inst) /\ i.finalizer = inst.finalizer
        /\ i.status.conds["Rbac"] \in {"Absent", "True"}
    <2>1. CASE i = inst /\ inst.status.conds["Rbac"] = "Absent"
      BY <1>1, <2>1 DEF R!SameObject
    <2>2. CASE OnlyConds(i, inst, [inst.status.conds EXCEPT !["Rbac"] = "True"])
      BY <1>1, <2>2 DEF OnlyConds, R!SameObject, Logging, InstanceType, LoggingStatus
    <2> QED BY <1>1, <2>1, <2>2, RbacConds
  <1>3. inst' = [i EXCEPT !.status.conds["Input"] = "True"]
    BY DEF ReconcileRbac, Continue
  <1> HIDE DEF i
  <1> QED BY <1>1, <1>2, <1>3 DEF R!SameObject, Logging, InstanceType, LoggingStatus

LEMMA ConfigStep ==
  ASSUME TypeOK, R!HeldInv, pc = "config", NEW found \in Certificates \cup {None},
         CreateHashOfInputHashes(Rendered(found))
  PROVE  /\ Rendered(found) \in Content
         /\ inst' \in Logging /\ R!SameObject(inst', inst) /\ inst'.finalizer = inst.finalizer
         /\ \/ /\ pc' = "patch" /\ inst'.status.hash = Rendered(found)
               /\ inst.status.hash # Rendered(found)
            \/ /\ pc' = "service" /\ inst.status.hash = Rendered(found)
               /\ OnlyConds(inst', inst, [inst.status.conds EXCEPT !["ServiceConfig"] = "True"])
  <1>1. inst \in Logging /\ "True" \in Status /\ "ServiceConfig" \in CondTypes
    BY DEF TypeOK, Status, CondTypes, LoggingInitList
  <1>2. inst.spec \in LoggingSpec
    BY DEF R!HeldInv, R!PassObject, R!SameObject
  <1>3. Rendered(found) \in Content
    BY <1>2 DEF Rendered, Content, LoggingSpec
  <1>4. CASE inst.status.hash # Rendered(found)
    <2>1. inst' = [inst EXCEPT !.status.hash = Rendered(found)] /\ pc' = "patch"
      BY <1>4 DEF CreateHashOfInputHashes, Return
    <2> HIDE DEF Rendered
    <2> QED BY <1>1, <1>3, <1>4, <2>1
      DEF R!SameObject, Logging, InstanceType, LoggingStatus
  <1>5. CASE inst.status.hash = Rendered(found)
    <2>1. inst' = With("ServiceConfig", "True") /\ pc' = "service"
      BY <1>5 DEF CreateHashOfInputHashes, Continue
    <2>2. OnlyConds(inst', inst, [inst.status.conds EXCEPT !["ServiceConfig"] = "True"])
      BY <1>1, <2>1, WithConds
    <2> QED BY <1>3, <1>5, <2>1, <2>2 DEF OnlyConds, R!SameObject
  <1> QED BY <1>4, <1>5

ObjectsType ==
  /\ ca \in Certificates \cup {None}
  /\ secret \in Content \cup {None}
  /\ service \in [Namespaces -> Addresses \cup {None}]

\* A disturbance or a fault keeps the counters in their bounds.
LEMMA CountsKept ==
  ASSUME TypeOK,
         UNCHANGED <<faults, changes>> \/ (Fault /\ UNCHANGED changes) \/ (Disturb /\ UNCHANGED faults)
  PROVE  faults' \in 0 .. MaxFaults /\ changes' \in 0 .. MaxChanges
  BY BoundAssumption DEF TypeOK, Fault, Disturb

\* What a call of the pass writes.
LEMMA SecretWritten ==
  ASSUME TypeOK, NEW content \in Content \cup {None}, WriteSecret(content)
  PROVE  /\ secret' \in Content \cup {None}
         /\ queued' \in BOOLEAN /\ (queued => queued') /\ (secret' # secret => queued')
  BY Zenon DEF WriteSecret, TypeOK

LEMMA ServiceWritten ==
  ASSUME TypeOK, inst.spec \in LoggingSpec, WriteService(inst.spec.address)
  PROVE  service' \in [Namespaces -> Addresses \cup {None}]
  BY DEF WriteService, TypeOK, LoggingSpec

\* Each step of the controller is one of those that the general facts are about,
\* and keeps the types of the other objects.
LEMMA WorkSteps ==
  ASSUME TypeOK, R!HeldInv, Work \/ CallFails \/ CAUnreadable
  PROVE  R!ControllerStep /\ ObjectsType'
  <1> USE DEF R!ControllerStep
  <1>1. ca \in Certificates \cup {None} /\ inst \in Logging /\ Logging = R!Instances
        /\ queued \in BOOLEAN /\ requeue \in BOOLEAN /\ ObjectsType
    BY Types DEF TypeOK, ObjectsType
  <1>2. CASE Reconcile \/ PatchStep
    BY <1>1, <1>2, Actions DEF Reconcile, PatchStep, objects, ObjectsType
  <1>3. CASE ReconcileDelete
    <2>1. R!ReleaseStep
      BY <1>3, <1>1, CountsKept, Zenon
         DEF ReconcileDelete, Return, server, limits, R!ReleaseStep, R!Counts, R!resource
    <2> QED BY <1>1, <1>3, <2>1 DEF ReconcileDelete, objects, ObjectsType
  <1>4. CASE ReconcileRbac
    <2>1. R!PassStep
      BY <1>4, <1>1, CountsKept, RbacStep
         DEF ReconcileRbac, Continue, server, limits, R!PassStep, R!Counts, R!resource,
             R!NormalSteps, LoggingSteps
    <2> QED BY <1>1, <1>4, <2>1 DEF ReconcileRbac, objects, ObjectsType
  <1>5. CASE GenerateComputeServiceConfig \/ CAUnreadable
    <2>1. PICK found \in Certificates \cup {None} :
            /\ pc = "config" /\ WriteSecret(Rendered(found))
            /\ CreateHashOfInputHashes(Rendered(found))
      BY <1>1, <1>5 DEF GenerateComputeServiceConfig, CAUnreadable
    <2>2. /\ UNCHANGED <<server, ca, service>>
          /\ UNCHANGED <<faults, changes>> \/ (Fault /\ UNCHANGED changes)
      BY <1>5 DEF GenerateComputeServiceConfig, CAUnreadable, limits
    <2>3. /\ Rendered(found) \in Content
          /\ inst' \in Logging /\ R!SameObject(inst', inst) /\ inst'.finalizer = inst.finalizer
          /\ pc' \in {"patch", "service"}
      BY <2>1, ConfigStep
    <2>4. secret' \in Content \cup {None} /\ queued' \in BOOLEAN /\ (queued => queued')
      BY <2>1, <2>3, SecretWritten
    <2>5. requeue' \in BOOLEAN /\ before' = before
      BY <1>1, <2>1, Zenon DEF CreateHashOfInputHashes, Return, Continue
    <2>6. R!Counts
      BY <2>2, <2>4, CountsKept DEF R!Counts
    <2>7. R!PassStep
      BY <1>1, <2>1, <2>2, <2>3, <2>5, <2>6
         DEF server, R!PassStep, R!resource, R!NormalSteps, LoggingSteps
    <2> QED BY <1>1, <2>2, <2>4, <2>7 DEF ObjectsType
  <1>6. CASE ServiceStep
    <2>1. inst.spec \in LoggingSpec
      BY <1>6 DEF ServiceStep, R!HeldInv, R!PassObject, R!SameObject
    <2>2. R!PassStep
      BY <1>6, <1>1, CountsKept, Zenon
         DEF ServiceStep, Return, server, limits, R!PassStep, R!Counts, R!resource,
             R!NormalSteps, LoggingSteps, R!SameObject
    <2> QED BY <1>1, <1>6, <2>1, <2>2, ServiceWritten DEF ServiceStep, ObjectsType
  <1>7. CASE CallFails
    <2>1. /\ pc \in {"rbac", "config", "service"} /\ pc' = "patch" /\ before' = before
          /\ requeue' = TRUE /\ UNCHANGED <<server, ca>> /\ Fault /\ UNCHANGED changes
      BY <1>7 DEF CallFails, Return
    <2>2. inst' \in Logging /\ R!SameObject(inst', inst) /\ inst'.finalizer = inst.finalizer
      <3>1. "False" \in Status /\ "ServiceConfig" \in CondTypes
        BY DEF Status, CondTypes, LoggingInitList
      <3>2. \/ inst' = inst \/ inst' = RbacConditionsSet("False")
            \/ inst' = With("ServiceConfig", "False")
        BY <1>7 DEF CallFails, Return
      <3>3. inst' = inst \/ \E c : OnlyConds(inst', inst, c)
        BY <1>1, <3>1, <3>2, RbacConds, WithConds, Zenon
      <3> QED BY <1>1, <3>3 DEF OnlyConds, R!SameObject
    <2>3. inst.spec \in LoggingSpec
      BY <2>1 DEF R!HeldInv, R!PassObject, R!SameObject
    <2>4. Rendered(ca) \in Content
      BY <1>1, <2>3 DEF Rendered, Content, LoggingSpec
    <2>5. /\ secret' \in Content \cup {None} /\ queued' \in BOOLEAN /\ (queued => queued')
          /\ service' \in [Namespaces -> Addresses \cup {None}]
      <3>1. UNCHANGED <<queued, secret>> \/ WriteSecret(Rendered(ca))
        BY <1>7, Zenon DEF CallFails
      <3>2. UNCHANGED service \/ WriteService(inst.spec.address)
        BY <1>7, Zenon DEF CallFails
      <3> QED BY <1>1, <2>3, <2>4, <3>1, <3>2, SecretWritten, ServiceWritten DEF ObjectsType
    <2>6. R!Counts
      BY <2>1, <2>5, CountsKept DEF R!Counts
    <2>7. R!PassStep
      BY <1>1, <2>1, <2>2, <2>6
         DEF server, R!PassStep, R!resource, R!NormalSteps, LoggingSteps
    <2> QED BY <1>1, <2>1, <2>5, <2>7 DEF ObjectsType
  <1> QED BY <1>2, <1>3, <1>4, <1>5, <1>6, <1>7 DEF Work

LEMMA OtherSteps ==
  ASSUME TypeOK,
         \/ Restart \/ SyncLogging \/ ResyncLogging \/ User \/ GarbageCollect
         \/ CAChanges \/ SecretDeleted \/ (\E n \in Namespaces : ServiceDeleted(n))
         \/ UNCHANGED vars
  PROVE  R!ControllerStep /\ ObjectsType'
  <1> USE DEF R!ControllerStep
  <1>1. queued \in BOOLEAN /\ ObjectsType
    BY DEF TypeOK, ObjectsType
  <1>2. CASE SyncLogging \/ User
    BY <1>1, <1>2, Actions, Zenon DEF SyncLogging, User, objects, ObjectsType
  <1>3. CASE Restart
    <2>1. Restarted /\ Fault /\ UNCHANGED <<changes, ca, secret, service>>
      BY <1>3 DEF Restart, objects
    <2>2. R!Counts
      BY <2>1, CountsKept DEF Restarted, R!Counts
    <2> QED BY <1>1, <2>1, <2>2, Actions DEF R!RestartStep, ObjectsType
  <1>4. ASSUME UNCHANGED <<server, pass>>, queued' \in BOOLEAN, queued => queued',
               \/ UNCHANGED <<faults, changes>> \/ (Fault /\ UNCHANGED changes)
               \/ (Disturb /\ UNCHANGED faults)
        PROVE  R!OutsideStep
    BY <1>4, CountsKept DEF server, pass, R!OutsideStep, R!Counts, R!resource, R!worker
  <1>5. CASE ResyncLogging
    BY <1>1, <1>4, <1>5
       DEF ResyncLogging, Resync, resource, worker, bounds, objects, server, pass, ObjectsType
  <1>6. CASE GarbageCollect \/ SecretDeleted
    <2>1. secret' \in Content \cup {None} /\ queued' \in BOOLEAN /\ (queued => queued')
      BY <1>6, SecretWritten DEF GarbageCollect, SecretDeleted
    <2> QED BY <1>1, <1>4, <1>6, <2>1 DEF GarbageCollect, SecretDeleted, limits, ObjectsType
  <1>7. CASE CAChanges
    BY <1>1, <1>4, <1>7 DEF CAChanges, ObjectsType
  <1>8. CASE \E n \in Namespaces : ServiceDeleted(n)
    BY <1>1, <1>4, <1>8 DEF ServiceDeleted, ObjectsType
  <1>9. CASE UNCHANGED vars
    BY <1>1, <1>4, <1>9 DEF vars, limits, objects, ObjectsType
  <1> QED BY <1>2, <1>3, <1>5, <1>6, <1>7, <1>8, <1>9

LEMMA Steps ==
  ASSUME TypeOK, R!HeldInv, [Next]_vars PROVE R!ControllerStep /\ ObjectsType'
  BY WorkSteps, OtherSteps DEF Next

\* The types, and what holds of the resource for every reconciler.
BaseInv == TypeOK /\ R!HeldInv /\ R!FreshInv

LEMMA BaseInit == ASSUME Init PROVE BaseInv
  <1>1. R!ReconcilerInit
    BY Operators DEF Init, ReconcilerInit, R!ReconcilerInit
  <1>2. R!ReconcilerType
    BY <1>1, Parameters, R!InitType DEF Init
  <1>3. R!HeldInv /\ R!FreshInv
    BY <1>1, Parameters, R!HeldInit, R!FreshInit
  <1>4. ObjectsType
    BY DEF Init, ObjectsType
  <1> QED BY <1>2, <1>3, <1>4, Types DEF BaseInv, ObjectsType

LEMMA BaseStep == ASSUME BaseInv, [Next]_vars PROVE BaseInv'
  <1>1. R!ReconcilerType
    BY Types DEF BaseInv
  <1>2. R!ControllerStep /\ ObjectsType'
    BY Steps DEF BaseInv
  <1>3. R!ReconcilerType' /\ R!HeldInv' /\ R!FreshInv'
    BY <1>1, <1>2, Parameters, R!StepType, R!HeldStep, R!FreshStep DEF BaseInv
  <1>4. TypeOK'
    BY <1>2, <1>3, Types DEF TypeOK, R!ReconcilerType, ObjectsType, LoggingSteps
  <1> QED BY <1>3, <1>4 DEF BaseInv

\* TypeOK holds: in particular the status only ever holds conditions and hashes
\* that the code puts there, whatever is merged into it by a late patch.
THEOREM TypeCorrect == Spec => []TypeOK
  <1>1. BaseInv => TypeOK
    BY DEF BaseInv
  <1> QED BY <1>1, BaseInit, BaseStep, PTL DEF Spec

(***************************************************************************)
(* The order of Secret and Service, and the wake-ups                       *)
(***************************************************************************)
\* Once the Secret is written, the pass goes on only if its hash was on record,
\* and nobody else gives the Secret another address meanwhile.
SecretInv ==
  /\ pc = "rbac" => inst = before
  /\ pc \in {"config", "service"} =>
       /\ inst.status.hash = before.status.hash
       /\ inst.status.conds["Input"] = "True"
       /\ inst.status.conds["Rbac"] \in {"Absent", "True"}
  /\ pc = "service" =>
       /\ inst.status.conds["ServiceConfig"] = "True"
       /\ secret # None => secret.address = inst.spec.address
       /\ ~queued => secret # None /\ secret = inst.status.hash

\* The pass has done all its work, and nothing has changed since.
RolledOut ==
  /\ before.finalizer /\ ~before.deleting /\ AllSubConditionIsTrue(inst.status.conds)
  /\ secret # None /\ secret = inst.status.hash
  /\ secret.address = inst.spec.address
  /\ service[inst.spec.namespace] \in {None, inst.spec.address}

\* Why a pass may end without a requeue.
PassInv ==
  pc = "patch" /\ ~queued /\ ~requeue =>
    \/ inst.finalizer # before.finalizer
    \/ /\ before.status.conds = NilConditions(CondTypes)
       /\ inst.status.conds = InitConditions(before.status.conds, LoggingInitList)
    \/ inst.status.hash # before.status.hash
    \/ RolledOut

WakeInv == SecretInv /\ PassInv /\ NoLostWakeup

\* What happens while the worker does nothing.
Quiet ==
  /\ UNCHANGED pass /\ (queued => queued')
  /\ cr' # cr => event'
  /\ event => event' \/ queued'
  /\ secret' # secret => queued' /\ secret' = None
  /\ \A n \in Namespaces : service'[n] \in {None, service[n]}

LEMMA QuietSteps ==
  ASSUME BaseInv,
         \/ SyncLogging \/ ResyncLogging \/ User \/ GarbageCollect
         \/ CAChanges \/ SecretDeleted \/ (\E n \in Namespaces : ServiceDeleted(n))
         \/ UNCHANGED vars
  PROVE  Quiet
  <1>1. CASE SyncLogging
    BY <1>1 DEF SyncLogging, SyncCache, worker, objects, pass, Quiet
  <1>2. CASE ResyncLogging
    BY <1>2 DEF ResyncLogging, Resync, resource, worker, objects, pass, Quiet
  <1>3. CASE User
    <2>1. R!ReconcilerType /\ R!UserStep
      BY <1>3, Types, Actions DEF BaseInv
    <2>2. UNCHANGED <<queued, pc, before, inst, requeue>> /\ (event => event') /\ (cr' # cr => event')
      BY <2>1, Parameters, R!UserEffect
    <2> QED BY <1>3, <2>2 DEF User, objects, pass, Quiet
  <1>4. CASE GarbageCollect \/ SecretDeleted
    BY <1>4, Zenon DEF GarbageCollect, SecretDeleted, WriteSecret, server, Quiet
  <1>5. CASE CAChanges \/ UNCHANGED vars
    BY <1>5 DEF CAChanges, vars, objects, server, Quiet
  <1>6. CASE \E n \in Namespaces : ServiceDeleted(n)
    BY <1>6 DEF ServiceDeleted, server, Quiet, BaseInv, TypeOK
  <1> QED BY <1>1, <1>2, <1>3, <1>4, <1>5, <1>6

LEMMA QuietWake == ASSUME BaseInv, WakeInv, Quiet PROVE WakeInv'
  <1> USE DEF Quiet, pass
  <1>1. SecretInv'
    BY DEF WakeInv, SecretInv
  <1>2. PassInv'
    <2> SUFFICES ASSUME pc = "patch", ~queued', ~requeue, RolledOut PROVE RolledOut'
      BY DEF WakeInv, PassInv
    <2>1. inst.spec \in LoggingSpec
      BY DEF BaseInv, R!HeldInv, R!PassObject, R!SameObject
    <2> QED BY <2>1 DEF RolledOut, LoggingSpec
  <1>3. NoLostWakeup'
    <2> SUFFICES ASSUME Quiescent', cr'.exists
                 PROVE  /\ Quiescent /\ cr' = cr /\ secret' = secret
                        /\ service'[cr.spec.namespace] \in {None, service[cr.spec.namespace]}
      BY DEF WakeInv, NoLostWakeup, Ready
    <2>1. Quiescent /\ cr' = cr /\ secret' = secret
      BY DEF Quiescent
    <2>2. cr.spec \in LoggingSpec
      BY <2>1 DEF BaseInv, R!HeldInv, R!Presence
    <2> QED BY <2>1, <2>2 DEF LoggingSpec
  <1> QED BY <1>1, <1>2, <1>3 DEF WakeInv

\* A pass that fails asks for another one.
LEMMA FailureWake ==
  ASSUME BaseInv, WakeInv, CallFails \/ Restart PROVE WakeInv'
  <1>1. CASE CallFails
    <2>1. pc' = "patch" /\ requeue'
      BY <1>1 DEF CallFails, Return
    <2> QED BY <2>1 DEF WakeInv, SecretInv, PassInv, NoLostWakeup, Quiescent
  <1>2. CASE Restart
    BY <1>2 DEF Restart, Restarted, Done, WakeInv, SecretInv, PassInv, NoLostWakeup, Quiescent
  <1> QED BY <1>1, <1>2

LEMMA BeginWake == ASSUME BaseInv, WakeInv, Reconcile PROVE WakeInv'
  <1>1. R!ReconcilerType /\ R!BeginStep
    BY Types, Actions DEF BaseInv
  <1>2. CASE pc' = "idle"
    <2>1. cr' = cr /\ event' = event /\ ~cache.exists
      BY <1>1, <1>2, Parameters, R!BeginType DEF R!NormalSteps, LoggingSteps
    <2>2. ~(Quiescent' /\ cr'.exists)
      BY <2>1 DEF Quiescent, BaseInv, R!FreshInv
    <2> QED BY <1>2, <2>2 DEF WakeInv, SecretInv, PassInv, NoLostWakeup
  <1>3. CASE pc' # "idle"
    <2>1. ~NotFound
      BY <1>3 DEF NotFound, Fetch, worker
    <2>2. CASE AddFinalizer
      <3>1. pc' = "patch" /\ ~before'.finalizer /\ inst'.finalizer
        BY <2>2 DEF AddFinalizer, Begin, BaseInv, TypeOK, Logging, InstanceType
      <3> QED BY <3>1, Zenon DEF WakeInv, SecretInv, PassInv, NoLostWakeup, Quiescent
    <2>3. CASE InitStatus
      <3>1. /\ pc' = "patch" /\ before' = cache
            /\ inst' = [cache EXCEPT !.status.conds = InitConditions(cache.status.conds, LoggingInitList)]
            /\ cache.status.conds = NilConditions(CondTypes)
        BY <2>3 DEF InitStatus, Begin, NoStatus
      <3>2. inst'.status.conds = InitConditions(cache.status.conds, LoggingInitList)
        BY <3>1 DEF BaseInv, TypeOK, Logging, InstanceType, LoggingStatus
      <3> QED BY <3>1, <3>2 DEF WakeInv, SecretInv, PassInv, NoLostWakeup, Quiescent
    <2>4. CASE Dispatch("rbac")
      <3>1. pc' \in {"delete", "rbac"} /\ inst' = before'
        BY <2>4 DEF Dispatch, Begin
      <3> QED BY <3>1 DEF WakeInv, SecretInv, PassInv, NoLostWakeup, Quiescent
    <2> QED BY <2>1, <2>2, <2>3, <2>4 DEF Reconcile
  <1> QED BY <1>2, <1>3

\* The worker is in the middle of a pass after the step.
LEMMA DuringPass == ASSUME pc' # "idle", SecretInv', PassInv' PROVE WakeInv'
  BY DEF WakeInv, NoLostWakeup, Quiescent

LEMMA ConfigWake ==
  ASSUME BaseInv, WakeInv, GenerateComputeServiceConfig \/ CAUnreadable PROVE WakeInv'
  <1>1. ca \in Certificates \cup {None} /\ inst \in Logging
    BY DEF BaseInv, TypeOK
  <1>2. PICK found \in Certificates \cup {None} :
          /\ pc = "config" /\ WriteSecret(Rendered(found))
          /\ CreateHashOfInputHashes(Rendered(found))
    BY <1>1 DEF GenerateComputeServiceConfig, CAUnreadable
  <1>3. before' = before /\ secret' = Rendered(found)
    BY <1>2 DEF CreateHashOfInputHashes, Return, Continue, WriteSecret
  <1>4. Rendered(found) \in Content /\ Rendered(found).address = inst.spec.address
        /\ R!SameObject(inst', inst)
        /\ \/ /\ pc' = "patch" /\ inst'.status.hash = Rendered(found)
              /\ inst.status.hash # Rendered(found)
           \/ /\ pc' = "service" /\ inst.status.hash = Rendered(found)
              /\ OnlyConds(inst', inst, [inst.status.conds EXCEPT !["ServiceConfig"] = "True"])
    BY <1>2, ConfigStep DEF BaseInv, Rendered
  <1>5. CASE pc' = "patch"
    <2>1. inst'.status.hash # before'.status.hash
      BY <1>2, <1>3, <1>4, <1>5 DEF WakeInv, SecretInv
    <2> QED BY <1>5, <2>1, DuringPass DEF SecretInv, PassInv
  <1>6. CASE pc' = "service"
    <2>1. /\ inst'.status.conds["Input"] = "True" /\ inst'.status.conds["ServiceConfig"] = "True"
          /\ inst'.status.conds["Rbac"] \in {"Absent", "True"}
      BY <1>1, <1>2, <1>4, <1>6
         DEF OnlyConds, WakeInv, SecretInv, Logging, InstanceType, LoggingStatus, CondTypes,
             LoggingInitList
    <2>2. secret' # None
      BY <1>3, <1>4, ContentAssumption
    <2>3. /\ inst'.status.hash = before'.status.hash /\ secret' = inst'.status.hash
          /\ secret'.address = inst'.spec.address
      BY <1>2, <1>3, <1>4, <1>6 DEF OnlyConds, WakeInv, SecretInv
    <2> QED BY <1>6, <2>1, <2>2, <2>3, DuringPass DEF SecretInv, PassInv
  <1> QED BY <1>4, <1>5, <1>6

LEMMA ServiceWake == ASSUME BaseInv, WakeInv, ServiceStep PROVE WakeInv'
  <1>1. /\ pc = "service" /\ pc' = "patch" /\ inst' = inst /\ before' = before
        /\ queued' = queued /\ secret' = secret
        /\ service' = [service EXCEPT ![inst.spec.namespace] = inst.spec.address]
    BY DEF ServiceStep, Return, WriteService
  <1>2. /\ inst.spec \in LoggingSpec /\ before.finalizer /\ ~before.deleting
    BY <1>1 DEF BaseInv, R!HeldInv, R!PassObject, R!SameObject, R!NormalSteps, LoggingSteps
  <1>3. service'[inst.spec.namespace] = inst.spec.address
    BY <1>1, <1>2 DEF BaseInv, TypeOK, LoggingSpec
  <1>4. AllSubConditionIsTrue(inst.status.conds)
    BY <1>1 DEF WakeInv, SecretInv, AllSubConditionIsTrue, BaseInv, TypeOK, Logging, InstanceType,
                LoggingStatus, CondTypes, LoggingInitList
  <1>5. ~queued' => RolledOut'
    BY <1>1, <1>2, <1>3, <1>4, Zenon DEF RolledOut, WakeInv, SecretInv
  <1> QED BY <1>1, <1>5, DuringPass DEF SecretInv, PassInv

LEMMA WorkWake == ASSUME BaseInv, WakeInv, ReconcileDelete \/ ReconcileRbac PROVE WakeInv'
  <1>1. CASE ReconcileDelete
    <2>1. pc = "delete" /\ pc' = "patch" /\ before' = before
          /\ inst' = [inst EXCEPT !.finalizer = FALSE] /\ inst \in Logging
      BY <1>1 DEF ReconcileDelete, Return, BaseInv, TypeOK
    <2>2. before.finalizer
      BY <2>1 DEF BaseInv, R!HeldInv, R!PassObject
    <2>3. ~inst'.finalizer
      BY <2>1 DEF Logging, InstanceType
    <2> QED BY <2>1, <2>2, <2>3, DuringPass DEF SecretInv, PassInv
  <1>2. CASE ReconcileRbac
    <2>1. pc = "rbac" /\ pc' = "config" /\ before' = before
      BY <1>2 DEF ReconcileRbac, Continue
    <2> QED BY <1>2, <2>1, RbacStep, DuringPass DEF SecretInv, PassInv, WakeInv, BaseInv
  <1> QED BY <1>1, <1>2

\* A patch after which nothing is pending changes nothing, so that the pass has
\* found everything as it should be.
LEMMA PatchWake == ASSUME BaseInv, WakeInv, PatchStep PROVE WakeInv'
  <1>1. R!ReconcilerType /\ R!EndStep
    BY Types, Actions DEF BaseInv
  <1>2. pc' = "idle" /\ UNCHANGED <<secret, service>>
    BY <1>1, Parameters, R!EndEffect DEF PatchStep, objects
  <1>3. NoLostWakeup'
    <2> SUFFICES ASSUME Quiescent', cr'.exists
                 PROVE  /\ ~cr'.deleting /\ cr'.finalizer /\ Ready(cr')
                        /\ secret # None /\ secret = cr'.status.hash
                        /\ secret.address = cr'.spec.address
                        /\ service[cr'.spec.namespace] \in {None, cr'.spec.address}
      BY <1>2 DEF NoLostWakeup, Ready
    <2>1. R!Patch
      BY <1>1, Zenon DEF R!EndStep, R!PatchFails, Quiescent
    <2>2. /\ pc = "patch" /\ ~queued /\ ~requeue
          /\ before = cr /\ cr' = cr
          /\ inst.finalizer = before.finalizer
          /\ R!UpdateReady(inst.status.conds) = before.status.conds
          /\ [inst.status EXCEPT !.conds = R!UpdateReady(inst.status.conds)] = before.status
      BY <1>1, <2>1, Parameters, R!QuietPatch DEF Quiescent, BaseInv
    <2>3. before.status.conds \in R!Conds /\ inst.status.conds \in R!Conds
          /\ inst.status \in LoggingStatus
      BY DEF BaseInv, TypeOK, Logging, InstanceType, LoggingStatus, R!Conds, Status, R!Status
    <2>4. inst.status.hash = before.status.hash
      BY <2>2, <2>3 DEF LoggingStatus
    <2>5. RolledOut
      <3>1. ASSUME before.status.conds = NilConditions(CondTypes),
                   inst.status.conds = InitConditions(before.status.conds, LoggingInitList)
            PROVE  FALSE
        BY <2>2, <2>3, <3>1, StatusOK, R!InitPatched, Operators DEF NilConditions, R!NilConditions
      <3> QED BY <2>2, <2>4, <3>1 DEF WakeInv, PassInv
    <2>6. Ready(cr)
      <3>1. R!AllSubConditionIsTrue(inst.status.conds)
        BY <2>5 DEF RolledOut, AllSubConditionIsTrue, R!AllSubConditionIsTrue
      <3> QED BY <2>2, <2>3, <3>1, StatusOK, R!ReadyIff DEF Ready
    <2>7. inst.spec = before.spec
      BY <2>2 DEF BaseInv, R!HeldInv, R!PassObject, R!SameObject
    <2> QED BY <2>2, <2>4, <2>5, <2>6, <2>7, Zenon DEF RolledOut
  <1> QED BY <1>2, <1>3 DEF WakeInv, SecretInv, PassInv

LEMMA WakeStep == ASSUME BaseInv, WakeInv, [Next]_vars PROVE WakeInv'
  BY QuietSteps, QuietWake, FailureWake, BeginWake, ConfigWake, ServiceWake, WorkWake, PatchWake
     DEF Next, Work

LEMMA WakeInit == ASSUME Init PROVE WakeInv
  BY DEF Init, ReconcilerInit, NoInstance, WakeInv, SecretInv, PassInv, NoLostWakeup

\* No wake-up is lost, however the deliveries, failed calls, failed patches and
\* restarts interleave with the passes.
THEOREM LoggingWakeups == Spec => []NoLostWakeup
  <1>1. WakeInv => NoLostWakeup
    BY DEF WakeInv
  <1> QED BY <1>1, BaseInit, BaseStep, WakeInit, WakeStep, PTL DEF Spec

\* The Service is only ever given the address that the Secret sends to.
LEMMA ServiceOrder ==
  ASSUME BaseInv, SecretInv, [Next]_vars, NEW n \in Namespaces,
         service'[n] \notin {None, service[n]}, secret # None
  PROVE  service'[n] = secret.address
  <1>1. pc = "service" /\ WriteService(inst.spec.address)
    <2>1. CASE Work
      BY <2>1, Zenon DEF Work, Reconcile, PatchStep, ReconcileDelete, ReconcileRbac,
                  GenerateComputeServiceConfig, ServiceStep, objects
    <2>2. CASE CallFails
      BY <2>2, Zenon DEF CallFails
    <2>3. CASE CAUnreadable \/ Restart
      BY <2>3 DEF CAUnreadable, Restart, objects
    <2>4. CASE ~(Work \/ CallFails \/ CAUnreadable \/ Restart)
      BY <2>4, QuietSteps DEF Next, Quiet
    <2> QED BY <2>1, <2>2, <2>3, <2>4
  <1>2. inst.spec \in LoggingSpec
    BY <1>1 DEF BaseInv, R!HeldInv, R!PassObject, R!SameObject
  <1>3. service'[n] = inst.spec.address
    BY <1>1, <1>2 DEF WriteService, BaseInv, TypeOK, LoggingSpec
  <1> QED BY <1>1, <1>3 DEF SecretInv

\* The compute nodes are told first: an edit, a new CA or a failure between the
\* write of the Secret and that of the Service never makes the Service listen
\* where the Secret does not send to.
THEOREM SecretFirst == Spec => ServiceAfterSecret
  <1> DEFINE
    Inv == BaseInv /\ WakeInv
    A == \A n \in Namespaces :
           service'[n] \notin {None, service[n]} /\ secret # None => service'[n] = secret.address
  <1>1. Inv /\ [Next]_vars => [A]_vars
    BY ServiceOrder DEF WakeInv
  <1>2. Spec => []Inv
    BY BaseInit, BaseStep, WakeInit, WakeStep, PTL DEF Spec
  <1> QED BY <1>1, <1>2, PTL DEF Spec, ServiceAfterSecret
================================================================================
