--------------------------- MODULE ReconcilerProofs ---------------------------
(***************************************************************************)
(* What holds for every controller that is built on Reconciler, whatever   *)
(* its resource and its handler: the facts that the proofs about the       *)
(* controllers instantiate.  A controller gives the types of its resource  *)
(* and its steps; what it has to show about them is StatusesOK.            *)
(***************************************************************************)
EXTENDS Reconciler, TLAPS

CONSTANTS
  Specs, Statuses,        \* the types of the resource
  CondTypes,              \* the types of its conditions
  Steps, DeleteSteps,     \* the values of pc, and those of reconcileDelete
  MaxFaults, MaxChanges

Instances == InstanceType(Specs, Statuses)

Conds == [CondTypes -> Status]

\* The status that a patch of the status leaves on the server.
Merged(held, old, new) ==
  [f \in DOMAIN held |-> IF new[f] # old[f] THEN new[f] ELSE held[f]]

\* Statuses are merged field by field, the conditions among them.
MergeOK ==
  \A a, b, c \in Statuses :
    /\ Merged(a, b, c) \in Statuses
    /\ Merged(a, b, c).conds = IF c.conds # b.conds THEN c.conds ELSE a.conds
    /\ Merged(b, b, c) = c

\* What is required of the statuses: that they are records with the conditions
\* as one of the fields, and closed under what Reconciler does to them.
StatusesOK ==
  /\ "Ready" \in CondTypes /\ InitList \subseteq CondTypes
  /\ \E t \in InitList : t # "Ready"
  /\ EmptyStatus \in Statuses /\ EmptyStatus.conds = NilConditions(CondTypes)
  /\ \A s \in Statuses : s.conds \in Conds
  /\ \A s \in Statuses, c \in Conds :
       [s EXCEPT !.conds = c] \in Statuses /\ [s EXCEPT !.conds = c].conds = c
  /\ MergeOK

(***************************************************************************)
(* Types                                                                   *)
(***************************************************************************)
\* Setting conditions keeps the list well formed.
LEMMA CondsType ==
  ASSUME StatusesOK, NEW c \in Conds
  PROVE  /\ \A t \in CondTypes, s \in Status : Mark(c, t, s) \in Conds
         /\ InitConditions(c, InitList) \in Conds
         /\ UpdateReady(c) \in Conds
  <1>1. ASSUME NEW d \in Conds, NEW t \in CondTypes, NEW s \in Status
        PROVE  Mark(d, t, s) \in Conds
    BY DEF Mark, Conds
  <1>2. InitConditions(c, InitList) \in Conds
    BY DEF InitConditions, Status, Conds
  <1>3. \A d : Mirror(d) \in Status
    BY DEF Mirror, Status
  <1>4. "Ready" \in CondTypes /\ "True" \in Status /\ "Unknown" \in Status
    BY DEF StatusesOK, Status
  <1>5. UpdateReady(c) \in Conds
    BY <1>1, <1>3, <1>4 DEF UpdateReady
  <1> QED BY <1>1, <1>2, <1>5

LEMMA StatusConds ==
  ASSUME StatusesOK, NEW i \in Instances
  PROVE  i.status \in Statuses /\ i.status.conds \in Conds
  BY DEF StatusesOK, Instances, InstanceType

\* The list that Reconcile initializes.
LEMMA InitializedConds ==
  ASSUME StatusesOK, NEW i \in Instances
  PROVE  InitConditions(i.status.conds, InitList) \in Conds
  BY CondsType, StatusConds

\* A resource with other conditions.
LEMMA CondsSet ==
  ASSUME StatusesOK, NEW i \in Instances, NEW c \in Conds
  PROVE  LET j == [i EXCEPT !.status.conds = c]
         IN  /\ j \in Instances
             /\ j.exists = i.exists /\ j.deleting = i.deleting
             /\ j.finalizer = i.finalizer /\ j.spec = i.spec
             /\ j.status = [i.status EXCEPT !.conds = c]
             /\ j.status.conds = c
  <1>1. [i.status EXCEPT !.conds = c] \in Statuses /\ [i.status EXCEPT !.conds = c].conds = c
    BY DEF StatusesOK, Instances, InstanceType
  <1> HIDE DEF StatusesOK
  <1> QED BY <1>1, Zenon DEF Instances, InstanceType

\* With sets one condition of the pass's instance and nothing else.
LEMMA WithType ==
  ASSUME StatusesOK, inst \in Instances, NEW t \in CondTypes, NEW s \in Status
  PROVE  /\ With(t, s) \in Instances
         /\ With(t, s).exists = inst.exists /\ With(t, s).deleting = inst.deleting
         /\ With(t, s).finalizer = inst.finalizer /\ With(t, s).spec = inst.spec
         /\ With(t, s).status = [inst.status EXCEPT !.conds = Mark(inst.status.conds, t, s)]
         /\ With(t, s).status.conds = Mark(inst.status.conds, t, s)
  <1>1. inst.status.conds \in Conds
    BY DEF StatusesOK, Instances, InstanceType
  <1>2. Mark(inst.status.conds, t, s) \in Conds
    BY <1>1, CondsType
  <1> QED BY <1>2, CondsSet DEF With

\* The instance that the deferred function patches back.
LEMMA EndedType ==
  ASSUME StatusesOK, inst \in Instances
  PROVE  /\ Ended \in Instances
         /\ Ended.finalizer = inst.finalizer
         /\ Ended.status = [inst.status EXCEPT !.conds = UpdateReady(inst.status.conds)]
         /\ Ended.status.conds = UpdateReady(inst.status.conds)
  <1>1. inst.status.conds \in Conds
    BY DEF StatusesOK, Instances, InstanceType
  <1>2. UpdateReady(inst.status.conds) \in Conds
    BY <1>1, CondsType
  <1> QED BY <1>2, CondsSet DEF Ended

LEMMA NoInstanceType ==
  ASSUME StatusesOK
  PROVE  /\ NoInstance \in Instances
         /\ ~NoInstance.exists /\ ~NoInstance.deleting /\ ~NoInstance.finalizer
         /\ NoInstance.status = EmptyStatus
  BY DEF StatusesOK, NoInstance, Instances, InstanceType

LEMMA NoInstanceNotReady == ASSUME StatusesOK PROVE ~Ready(NoInstance)
  BY NoInstanceType DEF Ready, NilConditions, StatusesOK

(***************************************************************************)
(* The deferred patch                                                      *)
(***************************************************************************)
\* The finalizer after a patch.
PatchedFinalizer(held, old, new) ==
  IF new.finalizer # old.finalizer THEN new.finalizer ELSE held.finalizer

\* What the server holds after a patch, or a part of one: the spec and the
\* deletion stay, and the resource goes when the finalizer does.
PatchEffect(held, old, new, result) ==
  IF held.exists /\ ~(held.deleting /\ ~PatchedFinalizer(held, old, new))
  THEN /\ result \in Instances
       /\ result.exists /\ result.deleting = held.deleting /\ result.spec = held.spec
       /\ result.finalizer = PatchedFinalizer(held, old, new)
       /\ result.status \in {held.status, Merged(held.status, old.status, new.status)}
  ELSE result = NoInstance

LEMMA PatchMetadataEffect ==
  ASSUME NEW held \in Instances, NEW old \in Instances, NEW new \in Instances
  PROVE  /\ PatchEffect(held, old, new, PatchMetadata(held, old, new))
         /\ PatchMetadata(held, old, new).exists =>
              PatchMetadata(held, old, new).status = held.status
  BY DEF PatchEffect, PatchedFinalizer, PatchMetadata, Instances, InstanceType, NoInstance

LEMMA PatchStatusEffect ==
  ASSUME StatusesOK, NEW m \in Instances, NEW old \in Instances, NEW new \in Instances, m.exists
  PROVE  LET n == PatchStatus(m, old, new)
         IN  /\ n \in Instances
             /\ n.exists /\ n.deleting = m.deleting
             /\ n.finalizer = m.finalizer /\ n.spec = m.spec
             /\ n.status = Merged(m.status, old.status, new.status)
  <1>1. PatchStatus(m, old, new) = [m EXCEPT !.status = Merged(m.status, old.status, new.status)]
    BY DEF PatchStatus, Merged
  <1>2. m.status \in Statuses /\ old.status \in Statuses /\ new.status \in Statuses
    BY DEF Instances, InstanceType
  <1>3. Merged(m.status, old.status, new.status) \in Statuses
    BY <1>2 DEF StatusesOK, MergeOK
  <1> QED BY <1>1, <1>3 DEF Instances, InstanceType

LEMMA PatchInstanceEffect ==
  ASSUME StatusesOK, NEW held \in Instances, NEW old \in Instances, NEW new \in Instances
  PROVE  PatchEffect(held, old, new, PatchInstance(held, old, new))
  <1> DEFINE m == PatchMetadata(held, old, new)
             q == PatchInstance(held, old, new)
  <1>1. PatchEffect(held, old, new, m) /\ (m.exists => m.status = held.status)
    BY PatchMetadataEffect
  <1>2. q = m \/ q = PatchStatus(m, old, new)
    BY DEF PatchInstance
  <1>3. CASE q = m
    BY <1>1, <1>3
  <1>4. CASE q = PatchStatus(m, old, new)
    <2>1. CASE held.exists /\ ~(held.deleting /\ ~PatchedFinalizer(held, old, new))
      <3>1. m \in Instances /\ m.exists /\ m.deleting = held.deleting /\ m.spec = held.spec
            /\ m.finalizer = PatchedFinalizer(held, old, new) /\ m.status = held.status
        BY <1>1, <2>1 DEF PatchEffect
      <3> HIDE DEF m, q
      <3>2. /\ q \in Instances /\ q.exists /\ q.deleting = m.deleting
            /\ q.finalizer = m.finalizer /\ q.spec = m.spec
            /\ q.status = Merged(m.status, old.status, new.status)
        BY <1>4, <3>1, PatchStatusEffect
      <3> QED BY <2>1, <3>1, <3>2 DEF PatchEffect, q
    <2>2. CASE ~(held.exists /\ ~(held.deleting /\ ~PatchedFinalizer(held, old, new)))
      <3>1. m = NoInstance
        BY <1>1, <2>2 DEF PatchEffect
      <3> HIDE DEF m, q
      <3>2. q = NoInstance
        BY <1>4, <3>1, NoInstanceType DEF PatchStatus
      <3> QED BY <2>2, <3>2 DEF PatchEffect, q
    <2> QED BY <2>1, <2>2
  <1> QED BY <1>2, <1>3, <1>4

LEMMA MergedConds ==
  ASSUME StatusesOK, NEW a \in Statuses, NEW b \in Statuses, NEW c \in Statuses
  PROVE  Merged(a, b, c).conds = IF c.conds # b.conds THEN c.conds ELSE a.conds
  <1>1. MergeOK
    BY DEF StatusesOK
  <1> QED BY <1>1 DEF MergeOK

\* A pass that read what the server holds, and whose patch changes nothing there,
\* ends with the instance it started from.
LEMMA NothingToPatch ==
  ASSUME StatusesOK, NEW held \in Instances, NEW new \in Instances,
         held.exists, held.deleting => held.finalizer,
         PatchInstance(held, held, new) = held
  PROVE  new.finalizer = held.finalizer /\ new.status = held.status
  <1> DEFINE m == PatchMetadata(held, held, new)
  <1>1. new.finalizer = held.finalizer
    <2> SUFFICES ASSUME new.finalizer # held.finalizer PROVE FALSE
      OBVIOUS
    <2>1. PatchEffect(held, held, new, PatchInstance(held, held, new))
      BY PatchInstanceEffect
    <2>2. PatchedFinalizer(held, held, new) = new.finalizer
      BY DEF PatchedFinalizer
    <2>3. held # NoInstance
      BY NoInstanceType
    <2> QED BY <2>1, <2>2, <2>3 DEF PatchEffect
  <1>2. m = [held EXCEPT !.finalizer = held.finalizer]
    BY <1>1 DEF PatchMetadata, Instances, InstanceType
  <1> HIDE DEF m
  <1>3. m = held
    BY <1>2 DEF Instances, InstanceType
  <1>4. PatchInstance(held, held, new) = PatchStatus(held, held, new)
    BY <1>1, <1>3 DEF PatchInstance, m
  <1>5. held.status = Merged(held.status, held.status, new.status)
    <2>1. PatchStatus(held, held, new).status = Merged(held.status, held.status, new.status)
      BY PatchStatusEffect
    <2> QED BY <1>4, <2>1, Zenon
  <1> QED BY <1>1, <1>5 DEF StatusesOK, MergeOK, Instances, InstanceType

(***************************************************************************)
(* The steps of a controller.  Each action of a controller is one of them, *)
(* as far as the resource and the worker are concerned.                    *)
(***************************************************************************)
NormalSteps == Steps \ (DeleteSteps \cup {"idle", "patch"})

StepsOK ==
  /\ {"idle", "patch"} \subseteq Steps
  /\ "delete" \in DeleteSteps /\ DeleteSteps \subseteq Steps \ {"idle", "patch"}

\* The key stays in the queue while nobody takes it.
Counts ==
  /\ queued' \in BOOLEAN /\ (queued => queued')
  /\ faults' \in 0 .. MaxFaults /\ changes' \in 0 .. MaxChanges

\* The same resource but for its finalizer and its status.
SameObject(i, j) == i.exists = j.exists /\ i.deleting = j.deleting /\ i.spec = j.spec

\* A call of the pass.  Those of reconcileDelete leave the instance alone.
PassStep ==
  /\ pc \notin {"idle", "patch"}
  /\ pc' \in {"patch"} \cup (IF pc \in DeleteSteps THEN DeleteSteps ELSE NormalSteps)
  /\ inst' \in Instances /\ SameObject(inst', inst) /\ inst'.finalizer = inst.finalizer
  /\ pc \in DeleteSteps => inst' = inst
  /\ requeue' \in BOOLEAN /\ Counts
  /\ UNCHANGED <<resource, before>>

\* The last call of reconcileDelete.
ReleaseStep ==
  /\ pc \in DeleteSteps /\ pc' = "patch"
  /\ inst' = [inst EXCEPT !.finalizer = FALSE]
  /\ requeue' \in BOOLEAN /\ Counts
  /\ UNCHANGED <<resource, before>>

\* Reconcile returns for a reason of its own before the handler is called.
Refuse(instance) ==
  /\ Fetch
  /\ Initialized /\ ~cache.deleting
  /\ instance \in Instances /\ SameObject(instance, cache)
  /\ instance.finalizer = cache.finalizer
  /\ Begin("patch", instance)

BeginStep ==
  \/ NotFound \/ AddFinalizer \/ InitStatus
  \/ \E s \in NormalSteps : Dispatch(s)
  \/ \E i \in Instances : Refuse(i)

EndStep == Patch \/ PatchFails

RestartStep == Restarted /\ Counts

UserStep == (\E spec \in Specs : UserCreates(spec) \/ UserEdits(spec)) \/ UserDeletes

\* Anything that concerns other objects only.
OutsideStep == UNCHANGED <<resource, worker>> /\ Counts

ControllerStep ==
  \/ BeginStep \/ PassStep \/ ReleaseStep \/ EndStep \/ RestartStep
  \/ SyncCache \/ UserStep \/ OutsideStep

ReconcilerType ==
  /\ cr \in Instances /\ cache \in Instances /\ before \in Instances /\ inst \in Instances
  /\ event \in BOOLEAN /\ queued \in BOOLEAN /\ requeue \in BOOLEAN
  /\ pc \in Steps
  /\ faults \in 0 .. MaxFaults /\ changes \in 0 .. MaxChanges

\* What the hypotheses of the lemmas say of the parameters.
ParametersOK == StatusesOK /\ StepsOK /\ MaxFaults \in Nat /\ MaxChanges \in Nat

LEMMA InitType ==
  ASSUME ParametersOK, ReconcilerInit, faults = MaxFaults, changes = MaxChanges
  PROVE  ReconcilerType
  <1>1. NoInstance \in Instances
    BY NoInstanceType DEF ParametersOK
  <1>2. faults \in 0 .. MaxFaults /\ changes \in 0 .. MaxChanges
    BY DEF ParametersOK
  <1> QED BY <1>1, <1>2, Zenon DEF ParametersOK, StepsOK, ReconcilerInit, ReconcilerType

\* A pass begins with a copy of the cache.
LEMMA BeginType ==
  ASSUME ParametersOK, ReconcilerType, BeginStep
  PROVE  /\ UNCHANGED <<cr, cache, event, requeue, faults, changes>>
         /\ pc = "idle" /\ queued /\ queued' = FALSE
         /\ \/ pc' = "idle" /\ UNCHANGED <<before, inst>> /\ ~cache.exists
            \/ /\ pc' \in {"patch", "delete"} \cup NormalSteps
               /\ before' = cache /\ cache.exists
               /\ inst' \in Instances /\ SameObject(inst', cache)
               /\ IF pc' = "patch"
                  THEN \/ ~cache.deleting /\ ~cache.finalizer /\ inst'.finalizer
                       \/ /\ cache.deleting \/ cache.finalizer
                          /\ inst'.finalizer = cache.finalizer
                  ELSE /\ inst' = cache
                       /\ \/ cache.deleting /\ pc' = "delete"
                          \/ ~cache.deleting /\ cache.finalizer /\ pc' \in NormalSteps
  <1> USE DEF BeginStep, Fetch, resource, bounds, worker, ParametersOK, StepsOK, ReconcilerType
  <1>1. CASE NotFound
    BY <1>1 DEF NotFound
  <1>2. CASE AddFinalizer
    BY <1>2, Zenon DEF AddFinalizer, Begin, Instances, InstanceType, SameObject
  <1>3. CASE InitStatus
    <2>1. InitConditions(cache.status.conds, InitList) \in Conds
      BY InitializedConds
    <2>2. inst' = [cache EXCEPT !.status.conds = InitConditions(cache.status.conds, InitList)]
      BY <1>3 DEF InitStatus, Begin
    <2>3. inst' \in Instances /\ SameObject(inst', cache) /\ inst'.finalizer = cache.finalizer
      BY <2>1, <2>2, CondsSet, Zenon DEF SameObject
    <2> QED BY <1>3, <2>3 DEF InitStatus, Begin, Initialized
  <1>4. CASE \E s \in NormalSteps : Dispatch(s)
    <2>1. PICK s \in NormalSteps : Dispatch(s)
      BY <1>4
    <2>2. s # "patch" /\ "delete" # "patch"
      BY DEF NormalSteps
    <2> QED BY <2>1, <2>2, Zenon DEF Dispatch, Begin, Initialized, SameObject
  <1>5. CASE \E i \in Instances : Refuse(i)
    BY <1>5 DEF Refuse, Begin, Initialized
  <1> QED BY <1>1, <1>2, <1>3, <1>4, <1>5, Zenon

\* A pass ends with a patch, or with a part of one.
LEMMA EndEffect ==
  ASSUME ParametersOK, ReconcilerType, EndStep
  PROVE  /\ pc = "patch" /\ pc' = "idle"
         /\ cr' \in Instances /\ (cr' = cr \/ PatchEffect(cr, before, Ended, cr'))
         /\ event' \in BOOLEAN /\ (event => event') /\ (cr' # cr => event')
         /\ queued' \in BOOLEAN /\ (queued => queued')
         /\ before' = NoInstance /\ inst' = NoInstance /\ requeue' = FALSE
         /\ faults' \in 0 .. MaxFaults /\ UNCHANGED <<cache, changes>>
  <1> USE DEF ReconcilerType
  <1>1. Ended \in Instances
    BY EndedType DEF ParametersOK
  <1>2. cr' \in {cr, PatchMetadata(cr, before, Ended), PatchInstance(cr, before, Ended)}
    BY DEF EndStep, Patch, PatchFails, Write
  <1>3. cr' = cr \/ PatchEffect(cr, before, Ended, cr')
    BY <1>1, <1>2, PatchMetadataEffect, PatchInstanceEffect DEF ParametersOK
  <1>4. cr' \in Instances
    BY <1>3, NoInstanceType DEF PatchEffect, ParametersOK
  <1>5. event' = (event \/ cr' # cr) /\ cache' = cache
    BY DEF EndStep, Patch, PatchFails, Write
  <1>6. queued' = (queued \/ requeue) \/ queued' = (queued \/ requeue \/ ReturnsPatchError)
    BY DEF EndStep, Patch, PatchFails
  <1>7. faults' \in 0 .. MaxFaults /\ changes' = changes
    <2>1. UNCHANGED <<faults, changes>> \/ (faults > 0 /\ faults' = faults - 1 /\ changes' = changes)
      BY DEF EndStep, Patch, PatchFails, Fault, bounds
    <2> QED BY <2>1 DEF ParametersOK
  <1>8. /\ pc = "patch" /\ pc' = "idle"
        /\ before' = NoInstance /\ inst' = NoInstance /\ requeue' = FALSE
    BY DEF EndStep, Patch, PatchFails, Done
  <1> QED BY <1>3, <1>4, <1>5, <1>6, <1>7, <1>8, Zenon

\* What the user does to the resource.
LEMMA UserEffect ==
  ASSUME ParametersOK, ReconcilerType, UserStep
  PROVE  /\ UNCHANGED <<cache, queued, pc, before, inst, requeue>>
         /\ cr' \in Instances
         /\ event' \in BOOLEAN /\ (event => event') /\ (cr' # cr => event')
         /\ faults' \in 0 .. MaxFaults /\ changes' \in 0 .. MaxChanges
         /\ \/ /\ ~cr.exists /\ cr'.exists /\ cr'.spec \in Specs
               /\ ~cr'.deleting /\ ~cr'.finalizer /\ cr'.status = EmptyStatus
            \/ /\ cr.exists /\ cr'.exists /\ cr'.spec \in Specs /\ cr'.status = cr.status
               /\ cr'.deleting = cr.deleting /\ cr'.finalizer = cr.finalizer
            \/ /\ cr.exists /\ ~cr.deleting /\ cr.finalizer
               /\ cr'.exists /\ cr'.deleting /\ cr'.finalizer
               /\ cr'.spec = cr.spec /\ cr'.status = cr.status
            \/ cr.exists /\ ~cr.deleting /\ ~cr.finalizer /\ cr' = NoInstance
  <1> USE DEF ReconcilerType
  <1>1. changes > 0 => changes - 1 \in 0 .. MaxChanges
    BY DEF ParametersOK
  <1>2. CASE \E spec \in Specs : UserCreates(spec)
    <2>1. PICK spec \in Specs : UserCreates(spec)
      BY <1>2
    <2>2. cr' = [NoInstance EXCEPT !.exists = TRUE, !.spec = spec]
      BY <2>1 DEF UserCreates, Write
    <2>3. /\ cr' \in Instances /\ cr'.exists /\ cr'.spec = spec
          /\ ~cr'.deleting /\ ~cr'.finalizer /\ cr'.status = EmptyStatus
      BY <2>2, NoInstanceType, Zenon DEF ParametersOK, Instances, InstanceType
    <2> QED BY <1>1, <2>1, <2>3, Zenon DEF UserCreates, Write, Disturb, worker, bounds
  <1>3. CASE \E spec \in Specs : UserEdits(spec)
    <2>1. PICK spec \in Specs : UserEdits(spec)
      BY <1>3
    <2>2. cr' = [cr EXCEPT !.spec = spec]
      BY <2>1 DEF UserEdits, Write
    <2>3. /\ cr' \in Instances /\ cr'.exists = cr.exists /\ cr'.spec = spec
          /\ cr'.deleting = cr.deleting /\ cr'.finalizer = cr.finalizer
          /\ cr'.status = cr.status
      BY <2>2 DEF Instances, InstanceType
    <2> QED BY <1>1, <2>1, <2>3, Zenon DEF UserEdits, Write, Disturb, worker, bounds
  <1>4. CASE UserDeletes
    <2>1. CASE cr.finalizer
      <3>1. cr' = [cr EXCEPT !.deleting = TRUE]
        BY <1>4, <2>1 DEF UserDeletes, Write
      <3>2. /\ cr' \in Instances /\ cr'.exists = cr.exists /\ cr'.spec = cr.spec
            /\ cr'.deleting = TRUE /\ cr'.finalizer = cr.finalizer
            /\ cr'.status = cr.status
        BY <3>1, Zenon DEF Instances, InstanceType
      <3> QED BY <1>4, <2>1, <3>2, Zenon DEF UserDeletes, Write, worker, bounds
    <2>2. CASE ~cr.finalizer
      BY <1>4, <2>2, NoInstanceType, Zenon DEF ParametersOK, UserDeletes, Write, worker, bounds
    <2> QED BY <2>1, <2>2
  <1> QED BY <1>2, <1>3, <1>4 DEF UserStep

\* Every step keeps the types.
LEMMA StepType ==
  ASSUME ParametersOK, ReconcilerType, ControllerStep PROVE ReconcilerType'
  <1>1. CASE BeginStep
    <2>1. {"idle", "patch", "delete"} \cup NormalSteps \subseteq Steps
      BY DEF ParametersOK, StepsOK, NormalSteps
    <2>2. pc' \in Steps /\ before' \in Instances /\ inst' \in Instances
      BY <1>1, <2>1, BeginType, Zenon DEF ReconcilerType
    <2> QED BY <1>1, <2>2, BeginType, Zenon DEF ReconcilerType
  <1>2. CASE PassStep
    BY <1>2 DEF PassStep, Counts, resource, ReconcilerType, ParametersOK, StepsOK, NormalSteps
  <1>3. CASE ReleaseStep
    <2>1. inst' \in Instances
      BY <1>3, Zenon DEF ReleaseStep, ReconcilerType, Instances, InstanceType
    <2> QED BY <1>3, <2>1 DEF ReleaseStep, Counts, resource, ReconcilerType, ParametersOK, StepsOK
  <1>4. CASE EndStep
    BY <1>4, EndEffect, NoInstanceType, Zenon DEF ReconcilerType, ParametersOK, StepsOK
  <1>5. CASE RestartStep
    BY <1>5, NoInstanceType, Zenon
       DEF RestartStep, Restarted, Done, Counts, ReconcilerType, ParametersOK, StepsOK
  <1>6. CASE SyncCache
    BY <1>6, Zenon DEF SyncCache, worker, bounds, ReconcilerType
  <1>7. CASE UserStep
    BY <1>7, UserEffect DEF ReconcilerType
  <1>8. CASE OutsideStep
    BY <1>8 DEF OutsideStep, Counts, resource, worker, ReconcilerType
  <1> QED BY <1>1, <1>2, <1>3, <1>4, <1>5, <1>6, <1>7, <1>8 DEF ControllerStep

(***************************************************************************)
(* The finalizer.  There is one worker, but it decides on a cached copy of *)
(* the resource, so the invariant relates the cache, the resource and the  *)
(* pass in progress.                                                       *)
(***************************************************************************)
\* The pass in progress is about to add, or to release, the finalizer.
Adding == pc = "patch" /\ ~before.finalizer /\ inst.finalizer
Releasing == pc = "patch" /\ before.finalizer /\ ~inst.finalizer

\* A resource has a spec, and none that is gone has anything left.
Presence ==
  /\ ~cr.exists => cr = NoInstance
  /\ cr.exists => cr.spec \in Specs
  /\ cache.exists => cache.spec \in Specs

\* The finalizer outlives the request to delete.
DeletingIsHeld ==
  /\ cr.deleting => cr.exists /\ cr.finalizer
  /\ cache.deleting => cache.exists /\ cache.finalizer

\* What the cache shows as held and not being deleted is held.
CacheHeld ==
  cache.exists /\ cache.finalizer /\ ~cache.deleting => cr.exists /\ cr.finalizer

\* What the cache shows as being deleted is being deleted, gone, or a new
\* resource that the controller has not seen yet.
CacheDeleting == cache.deleting /\ cr.finalizer => cr.deleting

\* The pass works on the resource as it was read.
PassObject ==
  pc # "idle" =>
    /\ SameObject(inst, before)
    /\ before.exists /\ before.spec \in Specs
    /\ before.deleting => before.finalizer
    /\ before.finalizer \/ Adding
    /\ pc # "patch" => inst.finalizer = before.finalizer
    /\ pc \in NormalSteps => before.finalizer /\ ~before.deleting
    /\ pc \in DeleteSteps \/ Releasing => before.deleting

\* A pass that read a resource with its finalizer keeps it there, and one that
\* read a resource being deleted finds no other with a finalizer.
PassHeld ==
  /\ pc # "idle" /\ before.finalizer /\ ~before.deleting => cr.exists /\ cr.finalizer
  /\ pc # "idle" /\ before.deleting =>
       (cr.finalizer => cr.deleting) /\ (cache.finalizer => cache.deleting)
  /\ Adding /\ cache.deleting => cr.deleting

HeldInv ==
  Presence /\ DeletingIsHeld /\ CacheHeld /\ CacheDeleting /\ PassObject /\ PassHeld

LEMMA HeldInit == ASSUME ParametersOK, ReconcilerInit PROVE HeldInv
  BY NoInstanceType, Zenon
     DEF ParametersOK, ReconcilerInit, HeldInv, Presence, DeletingIsHeld, CacheHeld,
         CacheDeleting, PassObject, PassHeld, Adding, Releasing

LEMMA HeldBegin == ASSUME ParametersOK, ReconcilerType, HeldInv, BeginStep PROVE HeldInv'
  <1> USE DEF HeldInv, Presence, DeletingIsHeld, CacheHeld, CacheDeleting
  <1>1. UNCHANGED <<cr, cache>> /\ pc = "idle"
    BY BeginType
  <1>2. CASE pc' = "idle"
    BY <1>1, <1>2 DEF PassObject, PassHeld, Adding, Releasing
  <1>3. CASE pc' # "idle"
    <2>1. /\ pc' \in {"patch", "delete"} \cup NormalSteps
          /\ before' = cache /\ cache.exists
          /\ inst' \in Instances /\ SameObject(inst', cache)
          /\ IF pc' = "patch"
             THEN \/ ~cache.deleting /\ ~cache.finalizer /\ inst'.finalizer
                  \/ (cache.deleting \/ cache.finalizer) /\ inst'.finalizer = cache.finalizer
             ELSE /\ inst' = cache
                  /\ \/ cache.deleting /\ pc' = "delete"
                     \/ ~cache.deleting /\ cache.finalizer /\ pc' \in NormalSteps
      BY <1>3, BeginType
    <2>2. "patch" \notin DeleteSteps \cup NormalSteps /\ DeleteSteps \cap NormalSteps = {}
          /\ "delete" \in DeleteSteps
      BY DEF ParametersOK, StepsOK, NormalSteps
    <2>3. PassObject'
      BY <1>1, <2>1, <2>2 DEF PassObject, Adding, Releasing
    <2>4. PassHeld'
      BY <1>1, <2>1 DEF PassHeld, Adding
    <2> QED BY <1>1, <2>3, <2>4
  <1> QED BY <1>2, <1>3

LEMMA HeldPass ==
  ASSUME ParametersOK, ReconcilerType, HeldInv, PassStep \/ ReleaseStep PROVE HeldInv'
  <1> USE DEF HeldInv, Presence, DeletingIsHeld, CacheHeld, CacheDeleting
  <1>1. UNCHANGED <<cr, cache, before>> /\ pc \notin {"idle", "patch"}
    BY DEF PassStep, ReleaseStep, resource, ParametersOK, StepsOK
  <1>2. "patch" \notin DeleteSteps \cup NormalSteps /\ DeleteSteps \cap NormalSteps = {}
        /\ pc \in DeleteSteps \cup NormalSteps
    BY <1>1 DEF ParametersOK, StepsOK, NormalSteps, ReconcilerType
  <1>3. /\ SameObject(inst', inst) /\ pc' # "idle"
        /\ pc' \in DeleteSteps => pc \in DeleteSteps
        /\ pc' \in NormalSteps => pc \in NormalSteps
        /\ \/ inst'.finalizer = inst.finalizer
           \/ pc \in DeleteSteps /\ ~inst'.finalizer /\ pc' = "patch"
    <2>1. CASE PassStep
      <3>1. "idle" \notin DeleteSteps \cup NormalSteps
        BY DEF ParametersOK, StepsOK, NormalSteps
      <3>2. pc' \in {"patch"} \cup (IF pc \in DeleteSteps THEN DeleteSteps ELSE NormalSteps)
        BY <2>1 DEF PassStep
      <3>3. SameObject(inst', inst) /\ inst'.finalizer = inst.finalizer
        BY <2>1 DEF PassStep
      <3>4. pc' # "idle" /\ (pc' \in DeleteSteps => pc \in DeleteSteps)
            /\ (pc' \in NormalSteps => pc \in NormalSteps)
        BY <1>2, <3>1, <3>2
      <3> QED BY <3>3, <3>4
    <2>2. CASE ReleaseStep
      BY <2>2, <1>2, Zenon DEF ReleaseStep, ReconcilerType, Instances, InstanceType, SameObject
    <2> QED BY <2>1, <2>2
  <1>4. PassObject'
    BY <1>1, <1>2, <1>3 DEF PassObject, Adding, Releasing, SameObject
  <1>5. PassHeld'
    BY <1>1, <1>2, <1>3 DEF PassObject, PassHeld, Adding
  <1> QED BY <1>1, <1>4, <1>5

\* The patch releases the finalizer of no other resource than the one that was
\* deleted, and adds it to none that is being released.
LEMMA HeldEnd == ASSUME ParametersOK, ReconcilerType, HeldInv, EndStep PROVE HeldInv'
  <1>1. pc = "patch" /\ pc' = "idle" /\ cache' = cache
    BY EndEffect
  <1>2. PassObject' /\ PassHeld'
    BY <1>1 DEF PassObject, PassHeld, Adding, Releasing
  <1>3. CASE cr' = cr
    BY <1>1, <1>2, <1>3 DEF HeldInv, Presence, DeletingIsHeld, CacheHeld, CacheDeleting
  <1>4. CASE PatchEffect(cr, before, Ended, cr')
    <2>1. Ended.finalizer = inst.finalizer
      BY EndedType DEF ParametersOK, ReconcilerType
    <2> DEFINE fin == PatchedFinalizer(cr, before, Ended)
    <2>2. fin = IF inst.finalizer # before.finalizer THEN inst.finalizer ELSE cr.finalizer
      BY <2>1 DEF PatchedFinalizer
    <2>3. IF cr.exists /\ ~(cr.deleting /\ ~fin)
          THEN cr'.exists /\ cr'.deleting = cr.deleting /\ cr'.finalizer = fin /\ cr'.spec = cr.spec
          ELSE cr' = NoInstance
      BY <1>4 DEF PatchEffect
    <2> HIDE DEF fin
    <2>4. ~NoInstance.exists /\ ~NoInstance.deleting /\ ~NoInstance.finalizer
      BY DEF NoInstance
    <2>5. before.finalizer \in BOOLEAN /\ inst.finalizer \in BOOLEAN /\ cr.finalizer \in BOOLEAN
      BY DEF ReconcilerType, Instances, InstanceType
    <2>6. Presence' /\ DeletingIsHeld'
      BY <1>1, <2>3, <2>4 DEF HeldInv, Presence, DeletingIsHeld
    <2>7. Releasing => before.deleting /\ (cr.finalizer => cr.deleting) /\ (cache.finalizer => cache.deleting)
      BY <1>1 DEF HeldInv, PassObject, PassHeld
    <2>8. CacheHeld'
      BY <1>1, <2>2, <2>3, <2>5, <2>7 DEF HeldInv, CacheHeld, DeletingIsHeld, Releasing
    <2>9. CacheDeleting'
      BY <1>1, <2>2, <2>3, <2>4, <2>5, <2>7, Zenon DEF HeldInv, CacheDeleting, PassHeld, Adding
    <2> QED BY <1>2, <2>6, <2>8, <2>9 DEF HeldInv
  <1> QED BY <1>3, <1>4, EndEffect

LEMMA HeldUser == ASSUME ParametersOK, ReconcilerType, HeldInv, UserStep PROVE HeldInv'
  <1>1. UNCHANGED <<cache, pc, before, inst>>
    BY UserEffect
  <1>2. ~NoInstance.exists /\ ~NoInstance.deleting /\ ~NoInstance.finalizer
    BY DEF NoInstance
  <1>3. \/ /\ ~cr.exists /\ cr'.exists /\ cr'.spec \in Specs /\ ~cr'.deleting /\ ~cr'.finalizer
        \/ /\ cr.exists /\ cr'.exists /\ cr'.spec \in Specs
           /\ cr'.deleting = cr.deleting /\ cr'.finalizer = cr.finalizer
        \/ /\ cr.exists /\ ~cr.deleting /\ cr.finalizer
           /\ cr'.exists /\ cr'.deleting /\ cr'.finalizer /\ cr'.spec = cr.spec
        \/ cr.exists /\ ~cr.deleting /\ ~cr.finalizer /\ cr' = NoInstance
    BY UserEffect
  <1>4. Presence' /\ DeletingIsHeld'
    BY <1>1, <1>2, <1>3 DEF HeldInv, Presence, DeletingIsHeld
  <1>5. CacheHeld' /\ CacheDeleting'
    BY <1>1, <1>2, <1>3 DEF HeldInv, CacheHeld, CacheDeleting
  <1>6. PassObject'
    BY <1>1 DEF HeldInv, PassObject, Adding, Releasing
  <1>7. PassHeld'
    BY <1>1, <1>2, <1>3 DEF HeldInv, PassHeld, Adding, DeletingIsHeld
  <1> QED BY <1>4, <1>5, <1>6, <1>7 DEF HeldInv

LEMMA HeldOther ==
  ASSUME ParametersOK, ReconcilerType, HeldInv, RestartStep \/ SyncCache \/ OutsideStep
  PROVE  HeldInv'
  <1> USE DEF HeldInv, Presence, DeletingIsHeld, CacheHeld, CacheDeleting
  <1>1. CASE RestartStep
    BY <1>1 DEF RestartStep, Restarted, Done, PassObject, PassHeld, Adding, Releasing
  <1>2. CASE SyncCache
    <2>1. UNCHANGED <<cr, pc, before, inst>> /\ cache' = cr
      BY <1>2 DEF SyncCache, worker
    <2>2. PassObject'
      BY <2>1 DEF PassObject, Adding, Releasing
    <2>3. PassHeld'
      BY <2>1 DEF PassHeld, Adding
    <2> QED BY <2>1, <2>2, <2>3
  <1>3. CASE OutsideStep
    BY <1>3 DEF OutsideStep, resource, worker, PassObject, PassHeld, Adding, Releasing
  <1> QED BY <1>1, <1>2, <1>3

LEMMA HeldStep == ASSUME ParametersOK, ReconcilerType, HeldInv, ControllerStep PROVE HeldInv'
  BY HeldBegin, HeldPass, HeldEnd, HeldUser, HeldOther DEF ControllerStep

\* Only a pass that releases the resource takes the finalizer from it.
LEMMA FinalizerKept ==
  ASSUME ParametersOK, ReconcilerType, HeldInv, ControllerStep, cr.exists, cr.finalizer
  PROVE  (cr'.exists /\ cr'.finalizer) \/ (EndStep /\ Releasing)
  <1>1. CASE cr' = cr
    BY <1>1
  <1>2. CASE EndStep /\ cr' # cr
    <2>1. Ended \in Instances /\ Ended.finalizer = inst.finalizer
      BY EndedType DEF ParametersOK, ReconcilerType
    <2>2. pc = "patch" /\ PatchEffect(cr, before, Ended, cr')
      BY <1>2, EndEffect
    <2>3. before.finalizer \in BOOLEAN /\ inst.finalizer \in BOOLEAN
      BY DEF ReconcilerType, Instances, InstanceType
    <2>4. PatchedFinalizer(cr, before, Ended) \/ Releasing
      BY <2>1, <2>2, <2>3 DEF PatchedFinalizer, Releasing
    <2> QED BY <1>2, <2>2, <2>4 DEF PatchEffect
  <1>3. CASE UserStep
    BY <1>3, UserEffect, Zenon
  <1>4. cr' = cr \/ EndStep \/ UserStep
    BY BeginType, Zenon
       DEF ControllerStep, PassStep, ReleaseStep, RestartStep, Restarted, SyncCache, OutsideStep,
           resource
  <1> QED BY <1>1, <1>2, <1>3, <1>4

\* A pass decides to do so in reconcileDelete.
LEMMA ReleasingStep ==
  ASSUME ParametersOK, ReconcilerType, HeldInv, ControllerStep, Releasing'
  PROVE  \/ ReleaseStep
         \/ Releasing /\ UNCHANGED <<pc, before, inst>>
  <1>1. CASE BeginStep
    BY <1>1, BeginType DEF Releasing
  <1>2. CASE PassStep
    BY <1>2 DEF PassStep, Releasing, HeldInv, PassObject
  <1>3. CASE EndStep
    BY <1>3, EndEffect DEF Releasing
  <1>4. CASE RestartStep
    BY <1>4 DEF RestartStep, Restarted, Done, Releasing
  <1>5. CASE SyncCache \/ OutsideStep
    BY <1>5 DEF SyncCache, OutsideStep, worker, Releasing
  <1>6. CASE UserStep
    BY <1>6, UserEffect DEF Releasing
  <1> QED BY <1>1, <1>2, <1>3, <1>4, <1>5, <1>6 DEF ControllerStep

\* A patch that adds or removes the finalizer leaves the status alone.
LEMMA MetadataOnly ==
  ASSUME ParametersOK, ReconcilerType, EndStep, StatusWithMetadata = FALSE,
         inst.finalizer # before.finalizer, cr'.exists
  PROVE  cr'.status = cr.status
  <1>1. Ended \in Instances /\ Ended.finalizer = inst.finalizer
    BY EndedType DEF ParametersOK, ReconcilerType
  <1>2. PatchInstance(cr, before, Ended) = PatchMetadata(cr, before, Ended)
    BY <1>1 DEF PatchInstance
  <1>3. cr' = cr \/ cr' = PatchMetadata(cr, before, Ended)
    BY <1>2 DEF EndStep, Patch, PatchFails, Write
  <1> QED BY <1>1, <1>3, PatchMetadataEffect DEF ReconcilerType

(***************************************************************************)
(* The Ready condition                                                     *)
(***************************************************************************)
\* Ready is True exactly when no other condition is in the way.
LEMMA ReadyIff ==
  ASSUME StatusesOK, NEW c \in Conds
  PROVE  /\ UpdateReady(c)["Ready"] = "True" <=> AllSubConditionIsTrue(c)
         /\ \A t \in CondTypes \ {"Ready"} : UpdateReady(c)[t] = c[t]
  <1> USE DEF Conds
  <1>1. "Ready" \in CondTypes /\ DOMAIN c = CondTypes
    BY DEF StatusesOK
  <1>2. \A s : Mark(c, "Ready", s)["Ready"] = s
               /\ \A t \in CondTypes \ {"Ready"} : Mark(c, "Ready", s)[t] = c[t]
    BY <1>1 DEF Mark
  <1>3. ASSUME ~AllSubConditionIsTrue(c)
        PROVE  Mirror(Mark(c, "Ready", "Unknown")) # "True"
    <2> DEFINE d == Mark(c, "Ready", "Unknown")
    <2>1. d \in [CondTypes -> Status] /\ d["Ready"] = "Unknown"
      BY <1>1 DEF Mark, Status
    <2>2. "Unknown" \in {d[t] : t \in DOMAIN d}
      BY <1>1, <2>1
    <2> HIDE DEF d
    <2>3. Mirror(d) # "True"
      BY <2>2 DEF Mirror
    <2> QED BY <2>3 DEF d
  <1> QED BY <1>1, <1>2, <1>3 DEF UpdateReady

\* A pass leaves a Ready condition behind.
LEMMA ReadySet ==
  ASSUME StatusesOK, NEW c \in Conds PROVE UpdateReady(c)["Ready"] # "Absent"
  <1>1. "Ready" \in CondTypes
    BY DEF StatusesOK
  <1>2. \A s : Mark(c, "Ready", s)["Ready"] = s
    BY <1>1 DEF Mark, Conds
  <1>3. \A d : Mirror(d) # "Absent"
    BY DEF Mirror
  <1> QED BY <1>2, <1>3 DEF UpdateReady

\* Recomputing Ready a second time changes nothing.
LEMMA UpdateReadyAgain ==
  ASSUME StatusesOK, NEW c \in Conds PROVE UpdateReady(UpdateReady(c)) = UpdateReady(c)
  <1> USE DEF Conds
  <1>1. "Ready" \in CondTypes /\ DOMAIN c = CondTypes
    BY DEF StatusesOK
  <1>2. \A s, u : Mark(Mark(c, "Ready", s), "Ready", u) = Mark(c, "Ready", u)
    BY <1>1, Zenon DEF Mark
  <1>3. \A s : AllSubConditionIsTrue(Mark(c, "Ready", s)) <=> AllSubConditionIsTrue(c)
    BY <1>1 DEF Mark, AllSubConditionIsTrue
  <1>4. CASE AllSubConditionIsTrue(c)
    BY <1>2, <1>3, <1>4 DEF UpdateReady
  <1>5. CASE ~AllSubConditionIsTrue(c)
    BY <1>2, <1>3, <1>5 DEF UpdateReady
  <1> QED BY <1>4, <1>5

\* A list that has just been initialized is not Ready.
LEMMA InitNotReady ==
  ASSUME StatusesOK, NEW c \in Conds
  PROVE  UpdateReady(InitConditions(c, InitList))["Ready"] # "True"
  <1>1. PICK t \in InitList : t # "Ready" /\ t \in CondTypes
    BY DEF StatusesOK
  <1>2. InitConditions(c, InitList) \in Conds
    BY CondsType
  <1>3. InitConditions(c, InitList)[t] = "Unknown"
    BY <1>1 DEF InitConditions, Conds
  <1>4. ~AllSubConditionIsTrue(InitConditions(c, InitList))
    BY <1>1, <1>2, <1>3 DEF AllSubConditionIsTrue, Conds
  <1> QED BY <1>2, <1>4, ReadyIff

(***************************************************************************)
(* The life of the resource                                                *)
(***************************************************************************)
\* A list of conditions as a pass leaves it, or the nil list.
Stable(c) == c = NilConditions(CondTypes) \/ UpdateReady(c) = c

\* A pass that read a resource being deleted changes no condition, but it may
\* initialize the list.
DeletePassStatus ==
  pc # "idle" /\ before.deleting =>
    \/ inst.status = before.status /\ before.status.conds # NilConditions(CondTypes)
    \/ pc = "patch" /\ inst.status.conds = InitConditions(before.status.conds, InitList)

\* A resource that is Ready has the finalizer.
LifeInv ==
  /\ cr.exists /\ Ready(cr) => cr.finalizer
  /\ Stable(cr.status.conds) /\ Stable(cache.status.conds)
  /\ pc # "idle" => Stable(before.status.conds)
  /\ DeletePassStatus

LEMMA LifeInit == ASSUME ParametersOK, ReconcilerInit PROVE LifeInv
  BY NoInstanceType
     DEF ParametersOK, StatusesOK, ReconcilerInit, LifeInv, Stable, DeletePassStatus

LEMMA LifeBegin == ASSUME ParametersOK, ReconcilerType, LifeInv, BeginStep PROVE LifeInv'
  <1>1. UNCHANGED <<cr, cache>> /\ (pc' # "idle" => before' = cache)
    BY BeginType
  <1>2. DeletePassStatus'
    <2> SUFFICES ASSUME pc' # "idle", before'.deleting PROVE DeletePassStatus'
      BY DEF DeletePassStatus
    <2>1. EmptyStatus.conds = NilConditions(CondTypes)
      BY DEF ParametersOK, StatusesOK
    <2>2. ~NotFound /\ ~AddFinalizer /\ ~(\E i \in Instances : Refuse(i))
      BY <1>1 DEF NotFound, Fetch, worker, AddFinalizer, Refuse
    <2>3. CASE InitStatus
      <3>1. InitConditions(cache.status.conds, InitList) \in Conds
        BY InitializedConds DEF ParametersOK, ReconcilerType
      <3>2. inst'.status.conds = InitConditions(cache.status.conds, InitList)
        BY <2>3, <3>1, CondsSet DEF InitStatus, Begin, ParametersOK, ReconcilerType
      <3> QED BY <1>1, <2>3, <3>2 DEF InitStatus, Begin, DeletePassStatus
    <2>4. CASE \E s \in NormalSteps : Dispatch(s)
      BY <1>1, <2>1, <2>4 DEF Dispatch, Begin, DeletePassStatus
    <2> QED BY <2>2, <2>3, <2>4 DEF BeginStep
  <1> QED BY <1>1, <1>2 DEF LifeInv, Ready

LEMMA LifePass ==
  ASSUME ParametersOK, ReconcilerType, HeldInv, LifeInv, PassStep \/ ReleaseStep PROVE LifeInv'
  <1>1. UNCHANGED <<cr, cache, before>> /\ pc \notin {"idle", "patch"}
    BY DEF PassStep, ReleaseStep, resource, ParametersOK, StepsOK
  <1>2. DeletePassStatus'
    <2> SUFFICES ASSUME before.deleting PROVE DeletePassStatus'
      BY <1>1 DEF DeletePassStatus
    <2>1. pc \in DeleteSteps
      BY <1>1 DEF HeldInv, PassObject, NormalSteps, ReconcilerType
    <2>2. inst.status = before.status /\ before.status.conds # NilConditions(CondTypes)
      BY <1>1 DEF LifeInv, DeletePassStatus
    <2>3. inst'.status = inst.status
      BY <2>1 DEF PassStep, ReleaseStep, ReconcilerType, Instances, InstanceType
    <2> QED BY <1>1, <2>2, <2>3 DEF DeletePassStatus
  <1> QED BY <1>1, <1>2 DEF LifeInv, Ready

\* What a patch does to the conditions of a resource without a finalizer.
LEMMA UnheldPatch ==
  ASSUME ParametersOK, ReconcilerType, HeldInv, LifeInv, EndStep,
         cr'.exists, ~cr'.finalizer
  PROVE  ~Ready(cr')
  <1> USE DEF ReconcilerType
  <1>1. CASE cr' = cr
    BY <1>1 DEF LifeInv, Ready
  <1>2. CASE PatchEffect(cr, before, Ended, cr')
    <2>1. /\ Ended \in Instances /\ Ended.finalizer = inst.finalizer
          /\ Ended.status = [inst.status EXCEPT !.conds = UpdateReady(inst.status.conds)]
          /\ Ended.status.conds = UpdateReady(inst.status.conds)
      BY EndedType DEF ParametersOK
    <2> DEFINE fin == PatchedFinalizer(cr, before, Ended)
    <2>2. fin = IF inst.finalizer # before.finalizer THEN inst.finalizer ELSE cr.finalizer
      BY <2>1 DEF PatchedFinalizer
    <2>3. ~NoInstance.exists
      BY DEF NoInstance
    <2>4. /\ cr.exists /\ ~(cr.deleting /\ ~fin) /\ cr'.finalizer = fin
          /\ cr'.status \in {cr.status, Merged(cr.status, before.status, Ended.status)}
      BY <1>2, <2>3 DEF PatchEffect
    <2> HIDE DEF fin
    <2>5. before.finalizer \in BOOLEAN /\ inst.finalizer \in BOOLEAN /\ cr.finalizer \in BOOLEAN
      BY DEF Instances, InstanceType
    <2>6. pc = "patch"
      BY EndEffect
    <2>7. ~cr.finalizer /\ before.deleting
      BY <2>2, <2>4, <2>5, <2>6 DEF HeldInv, PassObject, PassHeld, Adding, Releasing
    <2>8. ~Ready(cr)
      BY <2>4, <2>7 DEF LifeInv
    <2>9. cr.status \in Statuses /\ before.status \in Statuses /\ Ended.status \in Statuses
      BY <2>1 DEF Instances, InstanceType
    <2>10. Ended.status.conds = before.status.conds \/ Ended.status.conds["Ready"] # "True"
      <3>1. CASE inst.status = before.status /\ before.status.conds # NilConditions(CondTypes)
        BY <2>1, <2>6, <3>1 DEF LifeInv, Stable
      <3>2. CASE inst.status.conds = InitConditions(before.status.conds, InitList)
        <4>1. before.status.conds \in Conds
          BY <2>9 DEF ParametersOK, StatusesOK
        <4> QED BY <2>1, <3>2, <4>1, InitNotReady DEF ParametersOK
      <3> QED BY <2>6, <2>7, <3>1, <3>2 DEF LifeInv, DeletePassStatus
    <2>11. Merged(cr.status, before.status, Ended.status).conds =
             IF Ended.status.conds # before.status.conds THEN Ended.status.conds ELSE cr.status.conds
      BY <2>9, MergedConds DEF ParametersOK
    <2> QED BY <2>4, <2>8, <2>10, <2>11 DEF Ready
  <1> QED BY <1>1, <1>2, EndEffect

LEMMA LifeEnd ==
  ASSUME ParametersOK, ReconcilerType, HeldInv, LifeInv, EndStep PROVE LifeInv'
  <1> USE DEF ReconcilerType
  <1>1. pc' = "idle" /\ cache' = cache /\ cr' \in Instances
    BY EndEffect
  <1>2. cr'.exists /\ Ready(cr') => cr'.finalizer
    BY UnheldPatch
  <1>3. Stable(cr'.status.conds)
    <2>1. CASE cr' = cr
      BY <2>1 DEF LifeInv
    <2>2. CASE cr' = NoInstance
      BY <2>2, NoInstanceType DEF Stable, ParametersOK, StatusesOK
    <2>3. CASE PatchEffect(cr, before, Ended, cr') /\ cr' # NoInstance
      <3>1. Ended \in Instances /\ Ended.status.conds = UpdateReady(inst.status.conds)
        BY EndedType DEF ParametersOK
      <3>2. inst.status.conds \in Conds
        BY DEF ParametersOK, StatusesOK, Instances, InstanceType
      <3>3. Stable(Ended.status.conds)
        BY <3>1, <3>2, UpdateReadyAgain DEF Stable, ParametersOK
      <3>4. cr.status \in Statuses /\ before.status \in Statuses /\ Ended.status \in Statuses
        BY <3>1 DEF Instances, InstanceType
      <3>5. Merged(cr.status, before.status, Ended.status).conds \in
              {Ended.status.conds, cr.status.conds}
        BY <3>4, MergedConds DEF ParametersOK
      <3>6. cr'.status.conds \in {Ended.status.conds, cr.status.conds}
        BY <2>3, <3>5 DEF PatchEffect
      <3> QED BY <3>3, <3>6 DEF LifeInv
    <2> QED BY <2>1, <2>2, <2>3, EndEffect
  <1> QED BY <1>1, <1>2, <1>3 DEF LifeInv, DeletePassStatus, Ready

LEMMA LifeUser ==
  ASSUME ParametersOK, ReconcilerType, LifeInv, UserStep PROVE LifeInv'
  <1>1. UNCHANGED <<cache, pc, before, inst>>
    BY UserEffect
  <1>2. /\ NilConditions(CondTypes)["Ready"] # "True"
        /\ EmptyStatus.conds = NilConditions(CondTypes)
    BY DEF NilConditions, ParametersOK, StatusesOK
  <1>3. NoInstance.status = EmptyStatus /\ ~NoInstance.exists
    BY DEF NoInstance
  <1>4. Stable(cr'.status.conds)
    <2>1. cr'.status \in {cr.status, EmptyStatus}
      BY <1>3, UserEffect
    <2> QED BY <1>2, <2>1 DEF LifeInv, Stable
  <1>5. cr'.exists /\ Ready(cr') => cr'.finalizer
    <2>1. CASE cr'.status = EmptyStatus
      BY <1>2, <2>1 DEF Ready
    <2>2. CASE cr'.status = cr.status /\ cr.exists /\ cr'.exists /\ (cr.finalizer => cr'.finalizer)
      BY <2>2 DEF LifeInv, Ready
    <2> QED BY <1>3, <2>1, <2>2, UserEffect
  <1> QED BY <1>1, <1>4, <1>5 DEF LifeInv, DeletePassStatus, Ready

LEMMA LifeOther ==
  ASSUME ParametersOK, ReconcilerType, LifeInv, RestartStep \/ SyncCache \/ OutsideStep
  PROVE  LifeInv'
  BY Zenon DEF RestartStep, Restarted, Done, SyncCache, OutsideStep, resource, worker,
         LifeInv, DeletePassStatus, Ready

LEMMA LifeStep ==
  ASSUME ParametersOK, ReconcilerType, HeldInv, LifeInv, ControllerStep PROVE LifeInv'
  BY LifeBegin, LifePass, LifeEnd, LifeUser, LifeOther, Zenon DEF ControllerStep

Lifecycle == INSTANCE ServiceLifecycle WITH
  state <- IF ~cr.exists THEN "absent" ELSE IF cr.deleting THEN "terminating" ELSE "live",
  ready <- Ready(cr)

LEMMA LifecycleInit == ASSUME ParametersOK, ReconcilerInit PROVE Lifecycle!Init
  <1>1. ~Ready(NoInstance) /\ ~NoInstance.exists
    BY NoInstanceType, NoInstanceNotReady DEF ParametersOK
  <1> QED BY <1>1 DEF ReconcilerInit, Lifecycle!Init, Ready

\* Each step of a controller is a step of the life of a service, or it leaves
\* that alone.
LEMMA LifecycleStep ==
  ASSUME ParametersOK, ReconcilerType, HeldInv, LifeInv, ControllerStep
  PROVE  [Lifecycle!Next]_(Lifecycle!vars)
  <1> USE DEF Lifecycle!Next, Lifecycle!vars
  <1>1. ~Ready(NoInstance) /\ ~NoInstance.exists /\ ~NoInstance.deleting /\ ~NoInstance.finalizer
    BY NoInstanceType, NoInstanceNotReady DEF ParametersOK
  <1>2. CASE cr' = cr
    BY <1>2 DEF Ready
  <1>3. CASE EndStep /\ cr' # cr
    <2>1. PatchEffect(cr, before, Ended, cr')
      BY <1>3, EndEffect
    <2>2. CASE cr' = NoInstance
      <3>1. cr.exists /\ cr.deleting
        BY <1>3, <2>1, <2>2, <1>1 DEF PatchEffect, HeldInv, Presence
      <3> QED BY <1>1, <2>2, <3>1 DEF Lifecycle!Release, Ready
    <2>3. CASE cr' # NoInstance
      <3>1. cr.exists /\ cr'.exists /\ cr'.deleting = cr.deleting
        BY <2>1, <2>3 DEF PatchEffect
      <3> QED BY <3>1 DEF Lifecycle!Report, Ready
    <2> QED BY <2>2, <2>3
  <1>4. CASE UserStep
    <2>1. CASE ~cr.exists /\ cr'.exists /\ ~cr'.deleting /\ cr'.status = EmptyStatus
      <3>1. ~Ready(cr') /\ ~Ready(cr)
        BY <1>1, <2>1 DEF Ready, NoInstance, HeldInv, Presence
      <3> QED BY <2>1, <3>1 DEF Lifecycle!Create, Ready
    <2>2. CASE cr.exists /\ cr'.exists /\ cr'.status = cr.status /\ cr'.deleting = cr.deleting
      BY <2>2 DEF Ready
    <2>3. CASE cr.exists /\ ~cr.deleting /\ cr'.exists /\ cr'.deleting /\ cr'.status = cr.status
      BY <2>3 DEF Ready, Lifecycle!Delete
    <2>4. CASE cr.exists /\ ~cr.deleting /\ ~cr.finalizer /\ cr' = NoInstance
      <3>1. ~Ready(cr) /\ ~Ready(cr')
        BY <1>1, <2>4 DEF LifeInv
      <3> QED BY <1>1, <2>4, <3>1 DEF Ready, Lifecycle!Delete
    <2> QED BY <1>4, <2>1, <2>2, <2>3, <2>4, UserEffect
  <1>5. cr' = cr \/ EndStep \/ UserStep
    BY BeginType, Zenon
       DEF ControllerStep, PassStep, ReleaseStep, RestartStep, Restarted, SyncCache, OutsideStep,
           resource
  <1> QED BY <1>2, <1>3, <1>4, <1>5

(***************************************************************************)
(* Wake-ups: the key is in the queue, or an event is on its way that will  *)
(* put it there, unless the pass in progress has read the latest state.    *)
(***************************************************************************)
FreshInv ==
  /\ event \/ cache = cr
  /\ pc # "idle" /\ ~queued => before = cache

LEMMA FreshInit == ASSUME ReconcilerInit PROVE FreshInv
  BY DEF ReconcilerInit, FreshInv

LEMMA FreshStep == ASSUME ParametersOK, ReconcilerType, FreshInv, ControllerStep PROVE FreshInv'
  <1>1. CASE BeginStep
    BY <1>1, BeginType, Zenon DEF FreshInv
  <1>2. CASE PassStep \/ ReleaseStep
    BY <1>2, Zenon DEF FreshInv, PassStep, ReleaseStep, Counts, resource, ParametersOK, StepsOK
  <1>3. CASE EndStep
    BY <1>3, EndEffect, Zenon DEF FreshInv
  <1>4. CASE RestartStep
    BY <1>4, Zenon DEF FreshInv, RestartStep, Restarted, Done
  <1>5. CASE SyncCache
    BY <1>5, Zenon DEF FreshInv, SyncCache
  <1>6. CASE OutsideStep
    BY <1>6, Zenon DEF FreshInv, OutsideStep, Counts, resource, worker
  <1>7. CASE UserStep
    <2>1. /\ UNCHANGED <<cache, queued, pc, before>>
          /\ event' \in BOOLEAN /\ (event => event') /\ (cr' # cr => event')
      BY <1>7, UserEffect
    <2> QED BY <2>1, Zenon DEF FreshInv
  <1> QED BY <1>1, <1>2, <1>3, <1>4, <1>5, <1>6, <1>7 DEF ControllerStep

\* When a pass ends and leaves nothing pending, it has read the latest state
\* and found nothing to change.
LEMMA QuietPatch ==
  ASSUME ParametersOK, ReconcilerType, HeldInv, FreshInv, Patch,
         ~queued', ~event', cr'.exists
  PROVE  /\ pc = "patch" /\ ~queued /\ ~event /\ ~requeue
         /\ before = cr /\ cr' = cr
         /\ inst.finalizer = before.finalizer /\ Ended.status = before.status
         /\ UpdateReady(inst.status.conds) = before.status.conds
         /\ [inst.status EXCEPT !.conds = UpdateReady(inst.status.conds)] = before.status
  <1> USE DEF ReconcilerType
  <1>1. pc = "patch" /\ ~queued /\ ~event /\ ~requeue /\ cr' = cr
        /\ cr' = PatchInstance(cr, before, Ended)
    BY Zenon DEF Patch, Write
  <1>2. before = cr
    BY <1>1, Zenon DEF FreshInv
  <1>3. /\ Ended \in Instances /\ Ended.finalizer = inst.finalizer
        /\ Ended.status = [inst.status EXCEPT !.conds = UpdateReady(inst.status.conds)]
        /\ Ended.status.conds = UpdateReady(inst.status.conds)
    BY EndedType DEF ParametersOK
  <1>4. cr.deleting => cr.finalizer
    BY DEF HeldInv, DeletingIsHeld
  <1>5. PatchInstance(before, before, Ended) = before /\ before.exists
    BY <1>1, <1>2, Zenon
  <1>6. Ended.finalizer = before.finalizer /\ Ended.status = before.status
    BY <1>2, <1>3, <1>4, <1>5, NothingToPatch DEF ParametersOK
  <1> QED BY <1>1, <1>2, <1>3, <1>6, Zenon

\* The status that a pass initializes is one to patch.
LEMMA InitPatched ==
  ASSUME StatusesOK, NEW c \in Conds, c = NilConditions(CondTypes)
  PROVE  UpdateReady(InitConditions(c, InitList)) # c
  <1>1. PICK t \in InitList : t # "Ready" /\ t \in CondTypes
    BY DEF StatusesOK
  <1>2. InitConditions(c, InitList) \in Conds
    BY CondsType
  <1>3. InitConditions(c, InitList)[t] = "Unknown" /\ c[t] = "Absent"
    BY <1>1 DEF InitConditions, NilConditions, Conds
  <1>4. UpdateReady(InitConditions(c, InitList))[t] = "Unknown"
    BY <1>1, <1>2, <1>3, ReadyIff
  <1> QED BY <1>3, <1>4
===============================================================================
