---------------------------- MODULE TelemetryProofs ----------------------------
(***************************************************************************)
(* Proofs about TelemetryController, for every value of its constants.     *)
(***************************************************************************)
EXTENDS TelemetryController, TLAPS

R == INSTANCE ReconcilerProofs WITH
  EmptyStatus <- NoStatus, InitList <- Services, ReturnsPatchError <- TRUE,
  Specs <- Section, Statuses <- TelemetryStatus, DeleteSteps <- {"delete"}

(***************************************************************************)
(* What the general facts about reconcilers require                        *)
(***************************************************************************)
LEMMA StatusOK == R!StatusesOK
  <1>1. "Ready" \in CondTypes /\ Services \subseteq CondTypes
        /\ \E t \in Services : t # "Ready"
    BY DEF CondTypes, Services
  <1>2. NoStatus \in TelemetryStatus /\ NoStatus.conds = R!NilConditions(CondTypes)
    BY DEF NoStatus, TelemetryStatus, NilConditions, R!NilConditions, Status
  <1>3. /\ \A s \in TelemetryStatus : s.conds \in R!Conds
        /\ \A s \in TelemetryStatus, c \in R!Conds :
             [s EXCEPT !.conds = c] \in TelemetryStatus /\ [s EXCEPT !.conds = c].conds = c
    BY DEF TelemetryStatus, Status, R!Conds, R!Status
  <1>4. R!MergeOK
    <2> SUFFICES ASSUME NEW a \in TelemetryStatus, NEW b \in TelemetryStatus,
                        NEW c \in TelemetryStatus
                 PROVE  /\ R!Merged(a, b, c) \in TelemetryStatus
                        /\ R!Merged(a, b, c).conds = IF c.conds # b.conds THEN c.conds ELSE a.conds
                        /\ R!Merged(b, b, c) = c
      BY DEF R!MergeOK
    <2>1. ASSUME NEW d \in TelemetryStatus
          PROVE  R!Merged(d, b, c) = [conds |-> IF c.conds # b.conds THEN c.conds ELSE d.conds]
      BY DEF R!Merged, TelemetryStatus
    <2> QED BY <2>1 DEF TelemetryStatus
  <1> QED BY <1>1, <1>2, <1>3, <1>4 DEF R!StatusesOK

LEMMA Parameters == R!ParametersOK
  <1>1. R!StepsOK
    BY DEF R!StepsOK, Steps, Services
  <1> QED BY <1>1, StatusOK, BoundAssumption DEF R!ParametersOK

\* The children, their copies and the events about them.
ChildrenType ==
  /\ child \in [Services -> Child] /\ view \in [Services -> Child]
  /\ news \subseteq Services

LEMMA Types == Telemetry = R!Instances /\ (TypeOK <=> R!ReconcilerType /\ ChildrenType)
  <1>1. Telemetry = R!Instances
    BY DEF Telemetry, InstanceType, R!Instances, R!InstanceType
  <1> QED BY <1>1, Zenon DEF TypeOK, ChildrenType, R!ReconcilerType

\* The operators of Reconciler are those that the general facts are about.
LEMMA Operators ==
  /\ NoInstance = R!NoInstance
  /\ \A c : UpdateReady(c) = R!UpdateReady(c)
  /\ \A c, l : InitConditions(c, l) = R!InitConditions(c, l)
  /\ Ended = R!Ended
  /\ \A t, s : With(t, s) = R!With(t, s)
  <1>1. \A c, t, s : Mark(c, t, s) = R!Mark(c, t, s)
    BY DEF Mark, R!Mark
  <1>2. \A c : AllSubConditionIsTrue(c) <=> R!AllSubConditionIsTrue(c)
    BY DEF AllSubConditionIsTrue, R!AllSubConditionIsTrue
  <1>3. \A c : Mirror(c) = R!Mirror(c)
    BY Zenon DEF Mirror, R!Mirror
  <1>4. \A c : UpdateReady(c) = R!UpdateReady(c)
    BY <1>1, <1>2, <1>3, Zenon DEF UpdateReady, R!UpdateReady
  <1> QED BY <1>1, <1>4, Zenon
    DEF NoInstance, R!NoInstance, InitConditions, R!InitConditions, Ended, R!Ended, With, R!With

LEMMA Actions ==
  /\ Reconcile => R!BeginStep
  /\ PatchStep => R!EndStep
  /\ Restarted => R!Restarted
  /\ SyncTelemetry => R!SyncCache
  /\ User => R!UserStep
  <1> USE Operators, Zenon
  <1>1. Reconcile => R!BeginStep
    <2>1. NotFound => R!NotFound
      BY DEF NotFound, Fetch, worker, resource, bounds,
             R!NotFound, R!Fetch, R!worker, R!resource, R!bounds
    <2>2. AddFinalizer => R!AddFinalizer
      BY DEF AddFinalizer, Fetch, Begin, resource, bounds,
             R!AddFinalizer, R!Fetch, R!Begin, R!resource, R!bounds
    <2>3. InitStatus => R!InitStatus
      BY DEF InitStatus, Initialized, Fetch, Begin, resource, bounds,
             R!InitStatus, R!Initialized, R!Fetch, R!Begin, R!resource, R!bounds
    <2>4. Dispatch("Autoscaling") => R!Dispatch("Autoscaling")
      BY DEF Dispatch, Initialized, Fetch, Begin, resource, bounds,
             R!Dispatch, R!Initialized, R!Fetch, R!Begin, R!resource, R!bounds
    <2>5. "Autoscaling" \in R!NormalSteps
      BY SMT DEF R!NormalSteps, Steps, Services
    <2> QED BY <2>1, <2>2, <2>3, <2>4, <2>5 DEF Reconcile, R!BeginStep
  <1>2. PatchStep => R!EndStep
    <2>1. \A a, b, c : PatchMetadata(a, b, c) = R!PatchMetadata(a, b, c)
      BY DEF PatchMetadata, R!PatchMetadata
    <2>2. \A a, b, c : PatchStatus(a, b, c) = R!PatchStatus(a, b, c)
      BY DEF PatchStatus, R!PatchStatus
    <2>3. \A a, b, c : PatchInstance(a, b, c) = R!PatchInstance(a, b, c)
      BY <2>1, <2>2 DEF PatchInstance, R!PatchInstance
    <2>4. \A i : Write(i) <=> R!Write(i)
      BY DEF Write, R!Write
    <2>5. Done <=> R!Done
      BY DEF Done, R!Done
    <2>6. Patch => R!Patch
      BY <2>3, <2>4, <2>5 DEF Patch, R!Patch, bounds, R!bounds
    <2>7. PatchFails => R!PatchFails
      BY <2>1, <2>3, <2>4, <2>5 DEF PatchFails, R!PatchFails, Fault, R!Fault
    <2> QED BY <2>6, <2>7 DEF PatchStep, R!EndStep
  <1>3. Restarted => R!Restarted
    BY DEF Restarted, R!Restarted, Done, R!Done
  <1>4. SyncTelemetry => R!SyncCache
    BY DEF SyncTelemetry, SyncCache, R!SyncCache, worker, R!worker, bounds, R!bounds
  <1>5. User => R!UserStep
    <2>1. \A s : UserCreates(s) => R!UserCreates(s)
      BY DEF UserCreates, R!UserCreates, Write, R!Write, worker, R!worker, Disturb, R!Disturb
    <2>2. \A s : UserEdits(s) => R!UserEdits(s)
      BY DEF UserEdits, R!UserEdits, Write, R!Write, worker, R!worker, Disturb, R!Disturb
    <2>3. UserDeletes => R!UserDeletes
      BY DEF UserDeletes, R!UserDeletes, Write, R!Write, worker, R!worker, bounds, R!bounds
    <2> QED BY <2>1, <2>2, <2>3, SectionsAssumption DEF User, R!UserStep
  <1> QED BY <1>1, <1>2, <1>3, <1>4, <1>5

(***************************************************************************)
(* What happens to the children                                            *)
(***************************************************************************)
\* A child that is not there is not ready, and the informer's copy of one of
\* which no event is on its way is current.
ViewInv ==
  \A s \in Services :
    /\ s \notin news => view[s] = child[s]
    /\ child[s].state = "absent" => ~child[s].ready

\* What the controller of a service, and its clients, make of a child.
Moved(s, c) ==
  \/ c.state = child[s].state /\ c.ready = child[s].ready
  \/ child[s].state = "absent" /\ c.state = "live" /\ c.ready = FALSE
  \/ child[s].state = "live" /\ c.state = "terminating" /\ c.ready = child[s].ready
  \/ child[s].state = "live" /\ child[s].ready = FALSE /\ c.state = "absent" /\ c.ready = FALSE
  \/ child[s].state # "absent" /\ c.state = child[s].state /\ c.ready = ~child[s].ready
  \/ child[s].state = "terminating" /\ c.state = "absent" /\ c.ready = FALSE

ChildMove == \E s \in Services, c \in Child : SetChild(s, c) /\ Moved(s, c)

LEMMA ChildTypes ==
  ASSUME ChildrenType, NEW s \in Services
  PROVE  /\ child[s] \in Child /\ NoChild \in Child
         /\ NoChild.state = "absent" /\ NoChild.ready = FALSE
         /\ \A state \in {"absent", "live", "terminating"} :
              /\ [child[s] EXCEPT !.state = state] \in Child
              /\ [child[s] EXCEPT !.state = state].state = state
              /\ [child[s] EXCEPT !.state = state].ready = child[s].ready
         /\ \A ready \in BOOLEAN :
              /\ [child[s] EXCEPT !.ready = ready] \in Child
              /\ [child[s] EXCEPT !.ready = ready].state = child[s].state
              /\ [child[s] EXCEPT !.ready = ready].ready = ready
         /\ \A spec \in ServiceSpec :
              /\ [child[s] EXCEPT !.spec = spec] \in Child
              /\ [child[s] EXCEPT !.spec = spec].state = child[s].state
              /\ [child[s] EXCEPT !.spec = spec].ready = child[s].ready
              /\ [child[s] EXCEPT !.spec = spec].spec = spec
  <1>1. child[s] \in Child /\ NoChild \in Child
    BY DEF ChildrenType, NoChild, Child, ServiceSpec
  <1> QED BY <1>1, Zenon DEF NoChild, Child

\* The specs of the children.
LEMMA SpecTypes ==
  ASSUME NEW i \in Section, NEW s \in Services, i[s] # None
  PROVE  i[s] \in ServiceSpec
  BY DEF Section, Services, ServiceSpec

LEMMA MutatedType ==
  ASSUME ChildrenType, inst.spec \in Section, NEW s \in Services, inst.spec[s] # None
  PROVE  /\ Mutated(s) \in ServiceSpec
         /\ Mutated(s).custom = IF inst.spec[s].custom # None THEN inst.spec[s].custom
                                ELSE view[s].spec.custom
         /\ Mutated(s).options = IF inst.spec[s].options # None THEN inst.spec[s].options
                                 ELSE view[s].spec.options
  <1>1. inst.spec[s] \in ServiceSpec /\ view[s].spec \in ServiceSpec
    BY SpecTypes DEF ChildrenType, Child
  <1>2. Mutated(s) = [custom |-> IF inst.spec[s].custom # None THEN inst.spec[s].custom
                                 ELSE view[s].spec.custom,
                      options |-> IF inst.spec[s].options # None THEN inst.spec[s].options
                                  ELSE view[s].spec.options]
    BY <1>1 DEF Mutated, ServiceSpec
  <1> QED BY <1>1, <1>2 DEF ServiceSpec

LEMMA PatchedType ==
  ASSUME ChildrenType, inst.spec \in Section, NEW s \in Services, inst.spec[s] # None
  PROVE  /\ Patched(s) \in ServiceSpec
         /\ view[s] = child[s] => Patched(s) = Mutated(s)
  <1>1. Mutated(s) \in ServiceSpec /\ view[s].spec \in ServiceSpec /\ child[s].spec \in ServiceSpec
    BY MutatedType DEF ChildrenType, Child
  <1>2. Patched(s) = [custom |-> IF Mutated(s).custom # view[s].spec.custom THEN Mutated(s).custom
                                 ELSE child[s].spec.custom,
                      options |-> IF Mutated(s).options # view[s].spec.options
                                  THEN Mutated(s).options ELSE child[s].spec.options]
    BY <1>1 DEF Patched, ServiceSpec
  <1> QED BY <1>1, <1>2 DEF ServiceSpec

LEMMA AdmittedType ==
  ASSUME NEW spec \in ServiceSpec
  PROVE  /\ Admitted(spec) \in ServiceSpec
         /\ Admitted(spec) = spec \/ (spec.custom = None /\ spec.options = None)
  BY OptionsAssumption DEF Admitted, ServiceSpec

LEMMA SentMoves ==
  ASSUME ChildrenType, inst.spec \in Section, NEW s \in Services, inst.spec[s] # None
  PROVE  Sent(s) \in Child /\ Moved(s, Sent(s))
  <1>1. CASE ~Differs(s) \/ Conflict(s)
    BY <1>1, ChildTypes, Zenon DEF Sent, Moved
  <1>2. CASE Differs(s) /\ ~Conflict(s) /\ child[s].state = "absent"
    <2>1. Sent(s) = [state |-> "live", spec |-> Admitted(Mutated(s)), ready |-> FALSE]
      BY <1>2, Zenon DEF Sent
    <2>2. Admitted(Mutated(s)) \in ServiceSpec
      BY MutatedType, AdmittedType
    <2>3. Sent(s) \in Child /\ Sent(s).state = "live" /\ Sent(s).ready = FALSE
      BY <2>1, <2>2 DEF Child
    <2> QED BY <1>2, <2>3 DEF Moved
  <1>3. CASE Differs(s) /\ ~Conflict(s) /\ child[s].state # "absent"
    <2>1. Sent(s) = [child[s] EXCEPT !.spec = Admitted(Patched(s))]
      BY <1>3, Zenon DEF Sent
    <2>2. Admitted(Patched(s)) \in ServiceSpec
      BY PatchedType, AdmittedType
    <2>3. Sent(s) \in Child /\ Sent(s).state = child[s].state /\ Sent(s).ready = child[s].ready
      BY <2>1, <2>2 DEF ChildrenType, Child
    <2> QED BY <2>3 DEF Moved
  <1> QED BY <1>1, <1>2, <1>3

LEMMA DeleteMoves ==
  ASSUME ChildrenType, NEW s \in Services, DeleteChild(s) PROVE ChildMove
  <1>1. CASE SetChild(s, [child[s] EXCEPT !.state = "terminating"])
    <2>1. child[s].state = "live" /\ [child[s] EXCEPT !.state = "terminating"] \in Child
          /\ [child[s] EXCEPT !.state = "terminating"].state = "terminating"
          /\ [child[s] EXCEPT !.state = "terminating"].ready = child[s].ready
      BY ChildTypes, Zenon DEF DeleteChild
    <2> QED BY <1>1, <2>1, Zenon DEF ChildMove, Moved
  <1>2. CASE ~child[s].ready /\ SetChild(s, NoChild)
    <2>1. child[s].ready = FALSE
      BY <1>2, ChildTypes DEF Child
    <2> QED BY <1>2, <2>1, ChildTypes, Zenon DEF DeleteChild, ChildMove, Moved
  <1> QED BY <1>1, <1>2 DEF DeleteChild

(***************************************************************************)
(* Each step is one of those that the general facts are about              *)
(***************************************************************************)
\* The same resource as the one the pass works on, with other conditions.
Kept(i, conds) ==
  /\ i \in Telemetry /\ R!SameObject(i, inst) /\ i.finalizer = inst.finalizer
  /\ i.status.conds = conds

LEMMA WithKept ==
  ASSUME inst \in Telemetry, NEW s \in Services, NEW status \in Status
  PROVE  Kept(With(s, status), [inst.status.conds EXCEPT ![s] = status])
  <1>1. s \in CondTypes /\ inst \in R!Instances /\ status \in R!Status
        /\ With(s, status) = R!With(s, status)
    BY Types, Operators DEF CondTypes, Status, R!Status
  <1>2. /\ R!With(s, status) \in R!Instances
        /\ R!With(s, status).exists = inst.exists /\ R!With(s, status).deleting = inst.deleting
        /\ R!With(s, status).finalizer = inst.finalizer /\ R!With(s, status).spec = inst.spec
        /\ R!With(s, status).status.conds = R!Mark(inst.status.conds, s, status)
    BY <1>1, StatusOK, R!WithType, Zenon
  <1> QED BY <1>1, <1>2, Types DEF Kept, R!SameObject, R!Mark

LEMMA SameKept == ASSUME inst \in Telemetry PROVE Kept(inst, inst.status.conds)
  BY DEF Kept, R!SameObject

\* The pass after a service.
After(s) ==
  IF s = "Autoscaling" THEN "Ceilometer" ELSE IF s = "Ceilometer" THEN "MetricStorage" ELSE "patch"

LEMMA ProceedStep ==
  ASSUME NEW s \in Services, NEW i, Proceed(s, i)
  PROVE  /\ pc' = After(s) /\ inst' = i /\ before' = before
         /\ requeue' = IF s = "MetricStorage" THEN FALSE ELSE requeue
  BY Zenon DEF Proceed, Continue, Return, After, Services

\* What the pass makes of a service that is not enabled, and of one that is.
Disabled(s) ==
  /\ inst.spec[s] = None /\ EnsureDeleted(s)
  /\ \/ AlreadyGone(s) /\ inst' = inst /\ pc' = "patch" /\ requeue' = TRUE
     \/ /\ ~AlreadyGone(s) /\ pc' = After(s)
        /\ requeue' = IF s = "MetricStorage" THEN FALSE ELSE requeue
        /\ Kept(inst', [inst.status.conds EXCEPT ![s] = "Absent"])

Enabled(s) ==
  /\ inst.spec[s] # None /\ CreateOrPatchChild(s)
  /\ \/ /\ Conflict(s) /\ pc' = "patch" /\ requeue' = TRUE
        /\ Kept(inst', [inst.status.conds EXCEPT ![s] = "False"])
     \/ /\ ~Conflict(s) /\ pc' = After(s)
        /\ requeue' = IF s = "MetricStorage" THEN FALSE ELSE requeue
        /\ Kept(inst', [inst.status.conds EXCEPT ![s] =
                          IF Observed(s).ready THEN "True" ELSE "False"])

LEMMA ServiceCalls ==
  ASSUME TypeOK, NEW s \in Services
  PROVE  /\ ReconcileDisabled(s) =>
              Disabled(s) /\ pc = s /\ UNCHANGED <<server, queued, limits, before>>
         /\ ReconcileEnabled(s) =>
              Enabled(s) /\ pc = s /\ UNCHANGED <<server, queued, limits, before>>
  <1>1. inst \in Telemetry /\ {"Absent", "True", "False"} \subseteq Status
    BY DEF TypeOK, Status
  <1>2. \A st \in {"Absent", "True", "False"} :
          Kept(With(s, st), [inst.status.conds EXCEPT ![s] = st])
    BY <1>1, WithKept
  <1>3. ASSUME ReconcileDisabled(s)
        PROVE  Disabled(s) /\ pc = s /\ UNCHANGED <<server, queued, limits, before>>
    <2>1. CASE AlreadyGone(s)
      BY <1>3, <2>1 DEF ReconcileDisabled, Return, Disabled
    <2>2. CASE ~AlreadyGone(s)
      <3>1. Proceed(s, With(s, "Absent"))
        BY <1>3, <2>2 DEF ReconcileDisabled
      <3> QED BY <1>2, <1>3, <2>2, <3>1, ProceedStep, Zenon DEF ReconcileDisabled, Disabled
    <2> QED BY <2>1, <2>2
  <1>4. ASSUME ReconcileEnabled(s)
        PROVE  Enabled(s) /\ pc = s /\ UNCHANGED <<server, queued, limits, before>>
    <2>1. CASE Conflict(s)
      BY <1>2, <1>4, <2>1, Zenon DEF ReconcileEnabled, Return, Enabled
    <2>2. CASE ~Conflict(s)
      <3> DEFINE st == IF Observed(s).ready THEN "True" ELSE "False"
      <3>1. Proceed(s, With(s, st)) /\ st \in {"Absent", "True", "False"}
        BY <1>4, <2>2 DEF ReconcileEnabled
      <3> HIDE DEF st
      <3>2. /\ pc' = After(s) /\ before' = before
            /\ requeue' = IF s = "MetricStorage" THEN FALSE ELSE requeue
            /\ Kept(inst', [inst.status.conds EXCEPT ![s] = st])
        BY <1>2, <3>1, ProceedStep, Zenon
      <3> QED BY <1>4, <2>2, <3>2 DEF ReconcileEnabled, Enabled, st
    <2> QED BY <2>1, <2>2
  <1> QED BY <1>3, <1>4

\* A call for a service moves at most its child, as the service allows.
LEMMA ServiceMoves ==
  ASSUME TypeOK, R!HeldInv, NEW s \in Services,
         ReconcileDisabled(s) \/ ReconcileEnabled(s) \/ ServiceFails(s)
  PROVE  UNCHANGED children \/ ChildMove
  <1>1. ChildrenType /\ pc = s /\ pc # "idle"
    BY Types, Zenon DEF ReconcileDisabled, ReconcileEnabled, ServiceFails, Services
  <1>2. inst.spec \in Section
    BY <1>1 DEF R!HeldInv, R!PassObject, R!SameObject
  <1>3. CASE inst.spec[s] = None /\ EnsureDeleted(s)
    <2>1. SetChild(s, child[s]) => ChildMove
      BY <1>1, ChildTypes, Zenon DEF ChildMove, Moved
    <2> QED BY <1>1, <1>3, <2>1, DeleteMoves, Zenon DEF EnsureDeleted
  <1>4. CASE inst.spec[s] # None /\ CreateOrPatchChild(s)
    BY <1>1, <1>2, <1>4, SentMoves, Zenon DEF CreateOrPatchChild, ChildMove
  <1> QED BY <1>3, <1>4, Zenon DEF ReconcileDisabled, ReconcileEnabled, ServiceFails

LEMMA MoveKeeps == ASSUME ChildrenType, ViewInv, ChildMove PROVE ChildrenType' /\ ViewInv'
  <1>1. PICK s \in Services, c \in Child : SetChild(s, c) /\ Moved(s, c)
    BY DEF ChildMove
  <1>2. /\ child' \in [Services -> Child] /\ child'[s] = c
        /\ \A t \in Services \ {s} : child'[t] = child[t]
        /\ view' = view /\ news' \subseteq Services /\ news \subseteq news'
        /\ s \notin news' => c = child[s]
    BY <1>1 DEF SetChild, ChildrenType
  <1>3. c.state = "absent" => ~c.ready
    BY <1>1 DEF Moved, ViewInv
  <1> QED BY <1>2, <1>3 DEF ChildrenType, ViewInv

LEMMA SyncKeeps ==
  ASSUME ChildrenType, ViewInv,
         (\E s \in Services : SyncChild(s)) \/ (view' = child /\ child' = child /\ news' = {})
  PROVE  ChildrenType' /\ ViewInv'
  BY DEF SyncChild, ChildrenType, ViewInv

\* What happens while the worker does nothing.
Outside ==
  \/ ResyncTelemetry \/ UNCHANGED vars
  \/ \E s \in Services :
       \/ SyncChild(s) \/ ServiceReady(s) \/ ServiceDegraded(s) \/ ServiceDeleted(s)
       \/ ServiceReleased(s) \/ GarbageCollect(s)

LEMMA OutsideMoves ==
  ASSUME ChildrenType, ViewInv, Outside
  PROVE  ChildMove \/ UNCHANGED children \/ \E s \in Services : SyncChild(s)
  <1>1. ASSUME NEW s \in Services, ServiceReady(s) PROVE ChildMove
    <2>1. child[s].ready = FALSE
      BY <1>1, ChildTypes DEF ServiceReady, Child
    <2>2. /\ [child[s] EXCEPT !.ready = TRUE] \in Child
          /\ [child[s] EXCEPT !.ready = TRUE].state = child[s].state
          /\ [child[s] EXCEPT !.ready = TRUE].ready = ~child[s].ready
      BY <2>1, ChildTypes, Zenon
    <2> QED BY <1>1, <2>2, Zenon DEF ServiceReady, ChildMove, Moved
  <1>2. ASSUME NEW s \in Services, ServiceDegraded(s) PROVE ChildMove
    <2>1. child[s].ready = TRUE /\ child[s].state # "absent"
      BY <1>2, ChildTypes DEF ServiceDegraded, Child, ViewInv
    <2>2. /\ [child[s] EXCEPT !.ready = FALSE] \in Child
          /\ [child[s] EXCEPT !.ready = FALSE].state = child[s].state
          /\ [child[s] EXCEPT !.ready = FALSE].ready = ~child[s].ready
      BY <2>1, ChildTypes, Zenon
    <2> QED BY <1>2, <2>1, <2>2, Zenon DEF ServiceDegraded, ChildMove, Moved
  <1>3. ASSUME NEW s \in Services, ServiceReleased(s) PROVE ChildMove
    <2>1. NoChild \in Child /\ NoChild.state = "absent" /\ NoChild.ready = FALSE
      BY ChildTypes, Zenon
    <2> QED BY <1>3, <2>1, Zenon DEF ServiceReleased, ChildMove, Moved
  <1>4. ASSUME NEW s \in Services, ServiceDeleted(s) \/ GarbageCollect(s) PROVE ChildMove
    BY <1>4, DeleteMoves DEF ServiceDeleted, GarbageCollect
  <1> QED BY <1>1, <1>2, <1>3, <1>4, Zenon DEF Outside, ResyncTelemetry, vars, children

\* A disturbance or a fault keeps the counters in their bounds.
CountsDown ==
  \/ UNCHANGED <<faults, changes>> \/ (Fault /\ UNCHANGED changes)
  \/ (Disturb /\ UNCHANGED faults)

LEMMA CountsKept ==
  ASSUME TypeOK, CountsDown, queued' \in BOOLEAN, queued => queued' PROVE R!Counts
  BY BoundAssumption DEF TypeOK, Fault, Disturb, CountsDown, R!Counts

LEMMA OutsideSteps == ASSUME TypeOK, Outside PROVE R!OutsideStep /\ UNCHANGED pass
  <1>1. UNCHANGED <<server, pass>>
    BY Zenon DEF Outside, ResyncTelemetry, Resync, resource, worker, server, pass, SyncChild, ServiceReady,
           ServiceDegraded, ServiceDeleted, ServiceReleased, GarbageCollect, vars
  <1>2. CountsDown
    BY Zenon DEF Outside, ResyncTelemetry, Resync, bounds, limits, SyncChild, ServiceReady,
           ServiceDegraded, ServiceDeleted, ServiceReleased, GarbageCollect, vars, CountsDown
  <1>3. queued' \in BOOLEAN /\ (queued => queued')
    BY Zenon DEF Outside, ResyncTelemetry, Resync, SyncChild, ServiceReady, ServiceDegraded,
           ServiceDeleted, ServiceReleased, GarbageCollect, vars, TypeOK
  <1> QED BY <1>1, <1>2, <1>3, CountsKept DEF server, pass, R!OutsideStep, R!resource, R!worker

LEMMA ServiceSteps ==
  ASSUME TypeOK, NEW s \in Services,
         ReconcileDisabled(s) \/ ReconcileEnabled(s) \/ ServiceFails(s)
  PROVE  R!PassStep
  <1>1. R!NormalSteps = Services /\ s \notin {"delete", "idle", "patch"}
        /\ After(s) \in {"patch"} \cup Services
    BY DEF R!NormalSteps, Steps, Services, After
  <1>2. inst \in Telemetry /\ requeue \in BOOLEAN /\ queued \in BOOLEAN /\ "False" \in Status
    BY DEF TypeOK, Status
  <1>3. CASE ReconcileDisabled(s) \/ ReconcileEnabled(s)
    <2>1. /\ pc = s /\ UNCHANGED <<server, queued, limits, before>>
          /\ pc' \in {"patch"} \cup Services /\ requeue' \in BOOLEAN
          /\ \E c : Kept(inst', c)
      BY <1>1, <1>2, <1>3, ServiceCalls, SameKept, Zenon DEF Disabled, Enabled
    <2>2. R!Counts
      BY <1>2, <2>1, CountsKept DEF limits, CountsDown
    <2> QED BY <1>1, <2>1, <2>2, Types, Zenon DEF server, Kept, R!PassStep, R!resource
  <1>4. CASE ServiceFails(s)
    <2>1. /\ pc = s /\ UNCHANGED <<server, queued, before>> /\ CountsDown
          /\ pc' = "patch" /\ requeue' = TRUE
          /\ inst' = inst \/ inst' = With(s, "False")
      BY <1>4 DEF ServiceFails, Return, CountsDown
    <2>2. \E c : Kept(inst', c)
      BY <1>2, <2>1, SameKept, WithKept, Zenon
    <2>3. R!Counts
      BY <1>2, <2>1, CountsKept
    <2> QED BY <1>1, <2>1, <2>2, <2>3, Types, Zenon DEF server, Kept, R!PassStep, R!resource
  <1> QED BY <1>3, <1>4

LEMMA NextCases ==
  ASSUME [Next]_vars
  PROVE  \/ Reconcile \/ ReconcileDelete \/ PatchStep \/ Restart \/ SyncTelemetry \/ User \/ Outside
         \/ \E s \in Services : ReconcileDisabled(s) \/ ReconcileEnabled(s) \/ ServiceFails(s)
  BY Zenon DEF Next, Work, Sync, Provide, Outside

\* What a step does to the resource and to the children.
LEMMA Step ==
  ASSUME TypeOK, R!HeldInv, ViewInv, [Next]_vars
  PROVE  /\ R!ControllerStep
         /\ \/ ChildMove \/ UNCHANGED children
            \/ UNCHANGED child /\ ((\E s \in Services : SyncChild(s)) \/ (view' = child /\ news' = {}))
  <1>1. CASE Reconcile \/ PatchStep \/ SyncTelemetry \/ User
    BY <1>1, Actions, Zenon DEF Reconcile, PatchStep, SyncTelemetry, User, R!ControllerStep
  <1>2. CASE ReconcileDelete
    <2>1. /\ pc = "delete" /\ pc' = "patch" /\ requeue' = FALSE /\ before' = before
          /\ inst' = [inst EXCEPT !.finalizer = FALSE] /\ UNCHANGED <<server, queued, limits, children>>
      BY <1>2 DEF ReconcileDelete, Return
    <2>2. R!Counts
      BY <2>1, CountsKept DEF TypeOK, limits, CountsDown
    <2>3. R!ReleaseStep
      BY <2>1, <2>2, Zenon DEF server, R!ReleaseStep, R!resource
    <2> QED BY <2>1, <2>3 DEF R!ControllerStep
  <1>3. CASE Restart
    <2>1. Restarted /\ CountsDown /\ queued' \in BOOLEAN /\ view' = child /\ news' = {} /\ child' = child
          /\ queued'
      BY <1>3 DEF Restart, Restarted, CountsDown
    <2>2. R!RestartStep
      BY <2>1, CountsKept, Actions DEF R!RestartStep
    <2> QED BY <2>1, <2>2 DEF R!ControllerStep
  <1>4. CASE Outside
    <2>1. R!OutsideStep /\ (ChildMove \/ UNCHANGED children \/ \E s \in Services : SyncChild(s))
      BY <1>4, Types, OutsideSteps, OutsideMoves
    <2> QED BY <2>1, Zenon DEF R!ControllerStep, SyncChild
  <1>5. CASE \E s \in Services : ReconcileDisabled(s) \/ ReconcileEnabled(s) \/ ServiceFails(s)
    BY <1>5, ServiceSteps, ServiceMoves, Zenon DEF R!ControllerStep
  <1> QED BY <1>1, <1>2, <1>3, <1>4, <1>5, NextCases

BaseInv == TypeOK /\ R!HeldInv /\ R!LifeInv /\ R!FreshInv /\ ViewInv

LEMMA InitBase == ASSUME Init PROVE BaseInv
  <1>1. R!ReconcilerInit
    BY Operators DEF Init, ReconcilerInit, R!ReconcilerInit
  <1>2. R!ReconcilerType
    BY <1>1, Parameters, R!InitType DEF Init
  <1>3. R!HeldInv /\ R!LifeInv /\ R!FreshInv
    BY <1>1, Parameters, R!HeldInit, R!LifeInit, R!FreshInit
  <1>4. ChildrenType /\ ViewInv
    BY DEF Init, ChildrenType, ViewInv, NoChild, Child, ServiceSpec
  <1> QED BY <1>2, <1>3, <1>4, Types DEF BaseInv

LEMMA BaseStep == ASSUME BaseInv, [Next]_vars PROVE BaseInv'
  <1>1. R!ReconcilerType /\ ChildrenType /\ R!ControllerStep
    BY Types, Step DEF BaseInv
  <1>2. R!ReconcilerType' /\ R!HeldInv' /\ R!LifeInv' /\ R!FreshInv'
    BY <1>1, Parameters, R!StepType, R!HeldStep, R!LifeStep, R!FreshStep DEF BaseInv
  <1>3. ChildrenType' /\ ViewInv'
    <2>1. CASE UNCHANGED children
      BY <1>1, <2>1 DEF BaseInv, children, ChildrenType, ViewInv
    <2> QED BY <1>1, <2>1, Step, MoveKeeps, SyncKeeps DEF BaseInv
  <1>4. TypeOK'
    BY <1>2, <1>3, Types DEF TypeOK, R!ReconcilerType, ChildrenType
  <1> QED BY <1>2, <1>3, <1>4 DEF BaseInv

\* TypeOK holds: above all, the conditions of the Telemetry only ever get one
\* of the values of a status, and what is sent of a service is a whole spec.
THEOREM TypeCorrect == Spec => []TypeOK
  <1>1. BaseInv => TypeOK
    BY DEF BaseInv
  <1> QED BY <1>1, InitBase, BaseStep, PTL DEF Spec

\* What the Telemetry, the controllers of the services and everybody else do to
\* a child, however stale the copy of it that a pass decides on, is what the
\* life of a service allows: a child is only ever created where there was none,
\* and is never gone without having been deleted.
THEOREM ChildrenLifecycle == Spec => ChildrenFollowLifecycle
  <1>1. ASSUME Init PROVE \A s \in Services : Lifecycle(s)!Init
    BY <1>1 DEF Init, NoChild, Lifecycle!Init
  <1>2. ASSUME BaseInv, [Next]_vars
        PROVE  [\A s \in Services : [Lifecycle(s)!Next]_(Lifecycle(s)!vars)]_child
    <2> SUFFICES ASSUME child' # child, NEW t \in Services
                 PROVE  [Lifecycle(t)!Next]_(Lifecycle(t)!vars)
      OBVIOUS
    <2>1. ChildMove /\ ChildrenType
      BY <1>2, Step, Types DEF BaseInv, children
    <2>2. PICK s \in Services, c \in Child : SetChild(s, c) /\ Moved(s, c)
      BY <2>1 DEF ChildMove
    <2>3. CASE t # s
      BY <2>1, <2>2, <2>3 DEF SetChild, ChildrenType, Lifecycle!vars
    <2>4. CASE t = s
      <3>1. child'[s] = c
        BY <2>1, <2>2 DEF SetChild, ChildrenType
      <3> QED BY <2>2, <2>4, <3>1, Zenon
              DEF Moved, Lifecycle!Next, Lifecycle!vars, Lifecycle!Create, Lifecycle!Delete,
                  Lifecycle!Report, Lifecycle!Release
    <2> QED BY <2>3, <2>4
  <1> QED BY <1>1, <1>2, InitBase, BaseStep, PTL DEF Spec, ChildrenFollowLifecycle

(***************************************************************************)
(* Wake-ups                                                                *)
(***************************************************************************)
\* The child of a service is as the spec wants it, and its condition shows it.
Good(i, s) ==
  IF i.spec[s] = None
  THEN child[s].state # "live" /\ i.status.conds[s] = "Absent"
  ELSE /\ child[s].state # "absent"
       /\ i.spec[s].custom \in {None, child[s].spec.custom}
       /\ i.spec[s].options \in {None, child[s].spec.options}
       /\ i.status.conds[s] = IF child[s].ready THEN "True" ELSE "False"

\* So it is, unless an event about it is on its way.
Seen(i, s) == s \in news \/ Good(i, s)

Complete(i) == i.finalizer /\ ~i.deleting /\ \A s \in Services : Seen(i, s)

\* How far the pass has come, if nothing has happened that starts another one.
Progress ==
  /\ pc \in {"Ceilometer", "MetricStorage"} => Seen(inst, "Autoscaling")
  /\ pc = "MetricStorage" => Seen(inst, "Ceilometer")

\* Why a pass may end without a requeue.
PassEnds ==
  pc = "patch" /\ ~requeue =>
    \/ inst.finalizer # before.finalizer
    \/ /\ before.status.conds = NilConditions(CondTypes)
       /\ inst.status.conds = InitConditions(before.status.conds, Services)
    \/ Complete(inst)

AtRest == Quiescent /\ cr.exists => Complete(cr) /\ cr.status.conds["Ready"] # "Absent"

WakeInv == (~queued => Progress /\ PassEnds) /\ AtRest

\* A service that the pass has looked at with a current copy of its child, and
\* whose child it has left alone, is as the spec wants it.
LEMMA DisabledSeen ==
  ASSUME BaseInv, NEW s \in Services, Disabled(s), ~AlreadyGone(s) PROVE Seen(inst, s)'
  <1> SUFFICES ASSUME s \notin news' PROVE Good(inst, s)'
    BY DEF Seen
  <1>1. ChildrenType /\ ViewInv /\ inst \in Telemetry
    BY Types DEF BaseInv, TypeOK
  <1>2. inst'.spec[s] = None /\ inst'.status.conds[s] = "Absent"
    <2>1. inst.status.conds \in [CondTypes -> Status] /\ s \in CondTypes
      BY <1>1 DEF Telemetry, InstanceType, TelemetryStatus, CondTypes
    <2> QED BY <1>1, <2>1, Zenon DEF Disabled, Kept, R!SameObject
  <1>3. ~DeleteChild(s)
    BY <1>1 DEF DeleteChild, SetChild, ChildrenType, Child, NoChild
  <1>4. SetChild(s, child[s]) /\ ~(view[s].state = "live" /\ child[s].state = "live")
    BY <1>3 DEF Disabled, EnsureDeleted
  <1>5. child'[s] = child[s] /\ view[s] = child[s]
    BY <1>1, <1>4 DEF SetChild, ChildrenType, ViewInv
  <1> QED BY <1>2, <1>4, <1>5 DEF Good

LEMMA EnabledSeen ==
  ASSUME BaseInv, pc # "idle", NEW s \in Services, Enabled(s), ~Conflict(s) PROVE Seen(inst, s)'
  <1> SUFFICES ASSUME s \notin news' PROVE Good(inst, s)'
    BY DEF Seen
  <1>1. ChildrenType /\ ViewInv /\ inst \in Telemetry /\ inst.spec \in Section
    BY Types DEF BaseInv, TypeOK, R!HeldInv, R!PassObject, R!SameObject
  <1>2. Sent(s) = child[s] /\ child'[s] = child[s] /\ view[s] = child[s]
    BY <1>1 DEF Enabled, CreateOrPatchChild, SetChild, ChildrenType, ViewInv
  <1>3. Mutated(s) \in ServiceSpec /\ Patched(s) = Mutated(s) /\ inst.spec[s] # None
    BY <1>1, <1>2, MutatedType, PatchedType DEF Enabled
  <1>4. ~Differs(s)
    <2> SUFFICES ASSUME Differs(s) PROVE FALSE
      OBVIOUS
    <2>1. child[s].state # "absent"
      <3> SUFFICES ASSUME child[s].state = "absent" PROVE FALSE
        OBVIOUS
      <3>1. Sent(s) = [state |-> "live", spec |-> Admitted(Mutated(s)), ready |-> FALSE]
        BY Zenon DEF Sent
      <3> QED BY <1>2, <3>1
    <2>2. Sent(s) = [child[s] EXCEPT !.spec = Admitted(Mutated(s))]
      BY <1>3, <2>1, Zenon DEF Sent
    <2>3. Admitted(Mutated(s)) = view[s].spec
      BY <1>1, <1>2, <2>2 DEF ChildrenType, Child
    <2>4. Mutated(s) # view[s].spec
      BY <1>2, <2>1 DEF Differs
    <2>5. Mutated(s).options = None /\ view[s].spec.options = Default
      BY <1>3, <2>3, <2>4 DEF Admitted, ServiceSpec
    <2> QED BY <1>1, <1>3, <2>5, MutatedType, OptionsAssumption
  <1>5. child[s].state # "absent" /\ Mutated(s) = child[s].spec /\ Observed(s) = child[s]
    BY <1>2, <1>4 DEF Differs, Observed
  <1>6. /\ inst.spec[s].custom \in {None, child[s].spec.custom}
        /\ inst.spec[s].options \in {None, child[s].spec.options}
    BY <1>1, <1>2, <1>3, <1>5, MutatedType
  <1>7. /\ inst'.spec = inst.spec
        /\ inst'.status.conds[s] = IF child[s].ready THEN "True" ELSE "False"
    <2>1. inst.status.conds \in [CondTypes -> Status] /\ s \in CondTypes
      BY <1>1 DEF Telemetry, InstanceType, TelemetryStatus, CondTypes
    <2> QED BY <1>5, <2>1, Zenon DEF Enabled, Kept, R!SameObject
  <1> QED BY <1>2, <1>3, <1>5, <1>6, <1>7 DEF Good

LEMMA MovesSeen ==
  ASSUME ChildrenType, ChildMove \/ UNCHANGED children, NEW t \in Services
  PROVE  (t \in news => t \in news') /\ (t \notin news' => child'[t] = child[t])
  <1>1. CASE UNCHANGED children
    BY <1>1 DEF children
  <1>2. ASSUME NEW s \in Services, NEW c \in Child, SetChild(s, c)
        PROVE  (t \in news => t \in news') /\ (t \notin news' => child'[t] = child[t])
    BY <1>2 DEF SetChild, ChildrenType
  <1> QED BY <1>1, <1>2 DEF ChildMove

\* A pass that fails asks for another one.
LEMMA Requeues == ASSUME pc' = "patch", requeue' PROVE Progress' /\ PassEnds'
  BY DEF Progress, PassEnds

LEMMA ServiceWake ==
  ASSUME BaseInv, Progress, NEW s \in Services, ReconcileDisabled(s) \/ ReconcileEnabled(s)
  PROVE  Progress' /\ PassEnds'
  <1>1. TypeOK /\ R!HeldInv /\ ChildrenType /\ inst \in Telemetry /\ pc = s /\ s # "idle"
    BY Types, Zenon DEF BaseInv, TypeOK, ReconcileDisabled, ReconcileEnabled, Services
  <1>2. Disabled(s) \/ Enabled(s)
    BY <1>1, ServiceCalls
  <1>3. CASE pc' = "patch" /\ requeue'
    BY <1>3, Requeues
  <1>4. CASE ~(pc' = "patch" /\ requeue')
    <2>1. pc' = After(s) /\ Seen(inst, s)'
      BY <1>1, <1>2, <1>4, DisabledSeen, EnabledSeen, Zenon DEF Disabled, Enabled
    <2>2. ChildMove \/ UNCHANGED children
      BY <1>1, ServiceMoves
    <2>3. /\ inst'.spec = inst.spec /\ inst'.finalizer = inst.finalizer
          /\ inst'.deleting = inst.deleting
          /\ \A t \in Services \ {s} : inst'.status.conds[t] = inst.status.conds[t]
      <3>1. \E st : Kept(inst', [inst.status.conds EXCEPT ![s] = st])
        BY <1>2, <1>4, Zenon DEF Disabled, Enabled
      <3>2. inst.status.conds \in [CondTypes -> Status] /\ Services \subseteq CondTypes
        BY <1>1 DEF Telemetry, InstanceType, TelemetryStatus, CondTypes
      <3> QED BY <3>1, <3>2 DEF Kept, R!SameObject
    <2>4. ASSUME NEW t \in Services \ {s}, Seen(inst, t) PROVE Seen(inst, t)'
      <3>1. (t \in news => t \in news') /\ (t \notin news' => child'[t] = child[t])
        BY <1>1, <2>2, MovesSeen
      <3> QED BY <2>3, <2>4, <3>1 DEF Seen, Good
    <2>5. inst.finalizer /\ ~inst.deleting
      <3>1. s \in R!NormalSteps
        BY DEF R!NormalSteps, Steps, Services
      <3> QED BY <1>1, <3>1 DEF R!HeldInv, R!PassObject, R!SameObject, R!NormalSteps
    <2>6. CASE s = "Autoscaling"
      BY <2>1, <2>6 DEF After, Progress, PassEnds
    <2>7. CASE s = "Ceilometer"
      <3>1. Seen(inst, "Autoscaling")' /\ Seen(inst, "Ceilometer")' /\ pc' = "MetricStorage"
        BY <1>1, <2>1, <2>4, <2>7 DEF After, Progress, Services
      <3> QED BY <3>1 DEF Progress, PassEnds
    <2>8. CASE s = "MetricStorage"
      <3>1. Seen(inst, "Autoscaling")' /\ Seen(inst, "Ceilometer")' /\ Seen(inst, "MetricStorage")'
            /\ pc' = "patch"
        BY <1>1, <2>1, <2>4, <2>8 DEF After, Progress, Services
      <3>2. Complete(inst)'
        BY <2>3, <2>5, <3>1 DEF Complete, Services
      <3> QED BY <3>1, <3>2 DEF Progress, PassEnds
    <2> QED BY <2>6, <2>7, <2>8 DEF Services
  <1> QED BY <1>3, <1>4

LEMMA BeginWake == ASSUME BaseInv, WakeInv, Reconcile PROVE WakeInv'
  <1>1. R!ReconcilerType /\ R!BeginStep
    BY Types, Actions DEF BaseInv
  <1>2. CASE pc' = "idle"
    <2>1. cr' = cr /\ event' = event /\ ~cache.exists
      BY <1>1, <1>2, Parameters, R!BeginType DEF R!NormalSteps, Steps
    <2>2. ~(Quiescent' /\ cr'.exists)
      BY <2>1 DEF Quiescent, BaseInv, R!FreshInv
    <2> QED BY <1>2, <2>2 DEF WakeInv, Progress, PassEnds, AtRest
  <1>3. CASE pc' # "idle"
    <2> SUFFICES Progress' /\ PassEnds'
      BY <1>3 DEF WakeInv, AtRest, Quiescent
    <2>1. ~NotFound
      BY <1>3 DEF NotFound, Fetch, worker
    <2>2. CASE AddFinalizer
      <3>1. pc' = "patch" /\ ~before'.finalizer /\ inst'.finalizer
        BY <2>2 DEF AddFinalizer, Begin, BaseInv, TypeOK, Telemetry, InstanceType
      <3> QED BY <3>1, Zenon DEF Progress, PassEnds
    <2>3. CASE InitStatus
      <3>1. /\ pc' = "patch" /\ before' = cache
            /\ inst' = [cache EXCEPT !.status.conds = InitConditions(cache.status.conds, Services)]
            /\ cache.status.conds = NilConditions(CondTypes)
        BY <2>3 DEF InitStatus, Begin, NoStatus
      <3>2. inst'.status.conds = InitConditions(cache.status.conds, Services)
        BY <3>1 DEF BaseInv, TypeOK, Telemetry, InstanceType, TelemetryStatus
      <3> QED BY <3>1, <3>2 DEF Progress, PassEnds
    <2>4. CASE Dispatch("Autoscaling")
      <3>1. pc' \in {"delete", "Autoscaling"}
        BY <2>4 DEF Dispatch, Begin
      <3> QED BY <3>1 DEF Progress, PassEnds
    <2> QED BY <2>1, <2>2, <2>3, <2>4 DEF Reconcile
  <1> QED BY <1>2, <1>3

\* What happens to the resource and to the children outside a pass, and how it
\* is noticed: by an event on its way or by the key in the queue.
Quiet ==
  /\ UNCHANGED pass
  /\ queued => queued'
  /\ event => event' \/ queued'
  /\ cr' # cr => event'
  /\ ~queued' => ChildMove \/ UNCHANGED children

LEMMA QuietSteps == ASSUME BaseInv, SyncTelemetry \/ User \/ Outside PROVE Quiet
  <1>1. TypeOK /\ ChildrenType /\ ViewInv
    BY Types DEF BaseInv
  <1>2. CASE SyncTelemetry
    BY <1>2 DEF SyncTelemetry, SyncCache, worker, pass, Quiet
  <1>3. CASE User
    <2>1. R!ReconcilerType /\ R!UserStep
      BY <1>1, <1>3, Types, Actions
    <2>2. UNCHANGED <<queued, pc, before, inst, requeue>> /\ (event => event') /\ (cr' # cr => event')
      BY <2>1, Parameters, R!UserEffect
    <2> QED BY <1>3, <2>2 DEF User, pass, Quiet
  <1>4. CASE Outside
    <2>1. UNCHANGED <<cr, event, pass>> /\ (queued => queued')
      <3>1. UNCHANGED <<cr, event, pass>>
        BY <1>1, <1>4, OutsideSteps DEF R!OutsideStep, R!resource
      <3>2. queued => queued'
        BY <1>4, Zenon DEF Outside, ResyncTelemetry, Resync, SyncChild, ServiceReady, ServiceDegraded,
                           ServiceDeleted, ServiceReleased, GarbageCollect, vars
      <3> QED BY <3>1, <3>2
    <2>2. ~queued' => ChildMove \/ UNCHANGED children
      BY <1>1, <1>4, OutsideMoves, Zenon DEF SyncChild
    <2> QED BY <2>1, <2>2 DEF Quiet
  <1> QED BY <1>2, <1>3, <1>4

LEMMA QuietWake == ASSUME BaseInv, WakeInv, Quiet PROVE WakeInv'
  <1>1. ASSUME ~queued', NEW t \in Services
        PROVE  (t \in news => t \in news') /\ (t \notin news' => child'[t] = child[t])
    BY <1>1, Types, MovesSeen DEF BaseInv, Quiet
  <1>2. ASSUME ~queued', NEW i, NEW t \in Services, t \in news \/ Good(i, t)
        PROVE  t \in news' \/ (child'[t] = child[t] /\ Good(i, t))
    BY <1>1, <1>2
  <1>3. ASSUME ~queued' PROVE Progress' /\ PassEnds'
    <2>1. Progress /\ PassEnds /\ UNCHANGED <<pc, before, inst, requeue>>
      BY <1>3 DEF WakeInv, Quiet, pass
    <2>2. ASSUME NEW t \in Services, Seen(inst, t) PROVE Seen(inst, t)'
      BY <1>2, <1>3, <2>1, <2>2 DEF Seen, Good
    <2>3. Progress'
      BY <2>1, <2>2 DEF Progress, Services
    <2>4. PassEnds'
      BY <2>1, <2>2 DEF PassEnds, Complete
    <2> QED BY <2>3, <2>4
  <1>4. AtRest'
    <2> SUFFICES ASSUME Quiescent', cr'.exists
                 PROVE  Complete(cr)' /\ cr'.status.conds["Ready"] # "Absent"
      BY DEF AtRest
    <2>1. Quiescent /\ cr' = cr /\ ~queued'
      BY DEF Quiescent, Quiet, pass
    <2>2. Complete(cr) /\ cr.status.conds["Ready"] # "Absent"
      BY <2>1 DEF WakeInv, AtRest
    <2>3. ASSUME NEW t \in Services PROVE Seen(cr, t)'
      BY <1>2, <2>1, <2>2 DEF Seen, Good, Complete
    <2> QED BY <2>1, <2>2, <2>3 DEF Complete
  <1> QED BY <1>3, <1>4 DEF WakeInv

\* A patch after which nothing is pending changes nothing, so that the pass has
\* found everything as it should be.
LEMMA PatchWake == ASSUME BaseInv, WakeInv, PatchStep PROVE WakeInv'
  <1>1. R!ReconcilerType /\ R!EndStep
    BY Types, Actions DEF BaseInv
  <1>2. pc' = "idle" /\ UNCHANGED children
    BY <1>1, Parameters, R!EndEffect DEF PatchStep
  <1>3. AtRest'
    <2> SUFFICES ASSUME Quiescent', cr'.exists
                 PROVE  Complete(cr)' /\ cr'.status.conds["Ready"] # "Absent"
      BY DEF AtRest
    <2>1. R!Patch
      BY <1>1, Zenon DEF R!EndStep, R!PatchFails, Quiescent
    <2>2. /\ pc = "patch" /\ ~queued /\ ~requeue
          /\ before = cr /\ cr' = cr
          /\ inst.finalizer = before.finalizer
          /\ R!UpdateReady(inst.status.conds) = before.status.conds
      BY <1>1, <2>1, Parameters, R!QuietPatch DEF Quiescent, BaseInv
    <2>3. before.status.conds \in R!Conds /\ inst.status.conds \in R!Conds
      BY DEF BaseInv, TypeOK, Telemetry, InstanceType, TelemetryStatus, R!Conds, Status, R!Status
    <2>4. Complete(inst)
      <3>1. ASSUME before.status.conds = NilConditions(CondTypes),
                   inst.status.conds = InitConditions(before.status.conds, Services)
            PROVE  FALSE
        BY <2>2, <2>3, <3>1, StatusOK, R!InitPatched, Operators DEF NilConditions, R!NilConditions
      <3> QED BY <2>2, <3>1 DEF WakeInv, PassEnds
    <2>5. inst.spec = cr.spec /\ inst.deleting = cr.deleting /\ inst.finalizer = cr.finalizer
      BY <2>2 DEF BaseInv, R!HeldInv, R!PassObject, R!SameObject
    <2>6. \A s \in Services : cr.status.conds[s] = inst.status.conds[s]
      BY <2>2, <2>3, StatusOK, R!ReadyIff DEF CondTypes, Services
    <2>7. cr.status.conds["Ready"] # "Absent"
      BY <2>2, <2>3, StatusOK, R!ReadySet
    <2>8. ASSUME NEW s \in Services PROVE Seen(cr, s)'
      BY <1>2, <2>2, <2>4, <2>5, <2>6 DEF Complete, Seen, Good, children
    <2> QED BY <2>2, <2>4, <2>5, <2>7, <2>8 DEF Complete
  <1> QED BY <1>2, <1>3 DEF WakeInv, Progress, PassEnds

LEMMA WakeStep == ASSUME BaseInv, WakeInv, [Next]_vars PROVE WakeInv'
  <1>1. CASE Reconcile \/ PatchStep
    BY <1>1, BeginWake, PatchWake
  <1>2. CASE ReconcileDelete
    <2>1. pc = "delete" /\ pc' = "patch" /\ before' = before /\ inst' = [inst EXCEPT !.finalizer = FALSE]
      BY <1>2 DEF ReconcileDelete, Return
    <2>2. before.finalizer /\ ~inst'.finalizer
      BY <2>1 DEF BaseInv, R!HeldInv, R!PassObject, TypeOK, Telemetry, InstanceType
    <2> QED BY <2>1, <2>2, Zenon DEF WakeInv, Progress, PassEnds, AtRest, Quiescent
  <1>3. ASSUME NEW s \in Services, ReconcileDisabled(s) \/ ReconcileEnabled(s) PROVE WakeInv'
    <2>1. pc = s /\ queued' = queued
      BY <1>3, ServiceCalls DEF BaseInv
    <2>2. ~queued' => Progress' /\ PassEnds'
      BY <1>3, <2>1, ServiceWake DEF WakeInv
    <2>3. pc' # "idle"
      BY <1>3, ServiceCalls, Zenon DEF BaseInv, Disabled, Enabled, After
    <2> QED BY <2>2, <2>3 DEF WakeInv, AtRest, Quiescent
  <1>4. ASSUME NEW s \in Services, ServiceFails(s) PROVE WakeInv'
    <2>1. pc' = "patch" /\ requeue'
      BY <1>4 DEF ServiceFails, Return
    <2> QED BY <2>1, Requeues DEF WakeInv, AtRest, Quiescent
  <1>5. CASE Restart
    BY <1>5 DEF Restart, Restarted, Done, WakeInv, Progress, PassEnds, AtRest, Quiescent
  <1>6. CASE SyncTelemetry \/ User \/ Outside
    BY <1>6, QuietSteps, QuietWake
  <1> QED BY <1>1, <1>2, <1>3, <1>4, <1>5, <1>6, NextCases, Zenon

LEMMA WakeInit == ASSUME Init PROVE WakeInv
  BY DEF Init, ReconcilerInit, NoInstance, WakeInv, Progress, PassEnds, AtRest

LEMMA Wakeups == Spec => [](BaseInv /\ WakeInv)
  BY InitBase, BaseStep, WakeInit, WakeStep, PTL DEF Spec

\* No edit of the Telemetry and no event of a child is missed: when nothing is
\* pending, the children are what the spec asks for, however stale the copies
\* were on which CreateOrPatch and ensureDeleted decided, and whichever calls
\* and patches failed or took effect without an answer.
THEOREM ChildrenWakeups == Spec => []ChildrenAsDesired
  <1>1. WakeInv => ChildrenAsDesired
    <2> SUFFICES ASSUME WakeInv, Settled, cr.exists PROVE ChildrenAsDesired
      BY DEF ChildrenAsDesired
    <2>1. Complete(cr) /\ news = {}
      BY DEF WakeInv, AtRest, Settled
    <2>2. \A s \in Services : Good(cr, s)
      BY <2>1 DEF Complete, Seen
    <2> QED BY <2>1, <2>2, Zenon DEF Complete, Good, ChildrenAsDesired
  <1> QED BY <1>1, Wakeups, PTL

\* The Ready condition that is left behind when nothing is pending is neither
\* stale nor computed from a list with the conditions of disabled services.
THEOREM ReadyWakeups == Spec => []ReadyMirrorsChildren
  <1>1. BaseInv /\ WakeInv => ReadyMirrorsChildren
    <2> SUFFICES ASSUME BaseInv, WakeInv, Settled, cr.exists PROVE ReadyMirrorsChildren
      BY DEF ReadyMirrorsChildren
    <2> DEFINE conds == cr.status.conds
    <2>1. Complete(cr) /\ news = {} /\ conds["Ready"] # "Absent"
      BY DEF WakeInv, AtRest, Settled
    <2>2. \A s \in Services : Good(cr, s)
      BY <2>1 DEF Complete, Seen
    <2>3. conds \in R!Conds /\ DOMAIN conds = CondTypes
      BY DEF BaseInv, TypeOK, Telemetry, InstanceType, TelemetryStatus, R!Conds, Status, R!Status
    <2>4. R!UpdateReady(conds) = conds
      <3>1. conds # R!NilConditions(CondTypes)
        BY <2>1 DEF R!NilConditions, CondTypes
      <3> QED BY <3>1 DEF BaseInv, R!LifeInv, R!Stable
    <2>5. conds["Ready"] = "True" <=> R!AllSubConditionIsTrue(conds)
      BY <2>3, <2>4, StatusOK, R!ReadyIff
    <2>6. R!AllSubConditionIsTrue(conds) <=> \A s \in Services : conds[s] \in {"Absent", "True"}
      BY <2>3 DEF R!AllSubConditionIsTrue, CondTypes, Services
    <2>7. \A s \in Services : conds[s] = IF cr.spec[s] = None THEN "Absent"
                                         ELSE IF child[s].ready THEN "True" ELSE "False"
      BY <2>2 DEF Good
    <2>8. Ready(cr) <=> \A s \in Services : cr.spec[s] # None => child[s].ready
      BY <2>5, <2>6, <2>7 DEF Ready
    <2>9. \A s \in Services : cr.spec[s] = None <=> conds[s] = "Absent"
      BY <2>7
    <2> QED BY <2>8, <2>9 DEF ReadyMirrorsChildren
  <1> QED BY <1>1, Wakeups, PTL

================================================================================
