------------------------------ MODULE Reconciler ------------------------------
(***************************************************************************)
(* What the controllers of this operator have in common: one worker takes  *)
(* the key of a custom resource from the work queue, reads the resource    *)
(* from the informer cache, runs a handler that changes its copy of it,    *)
(* and patches the changes back in a deferred function.  Each controller   *)
(* instantiates this module with the status of its resource and adds the   *)
(* API calls of its handler.                                               *)
(*                                                                         *)
(* The patches are merge patches without a resource version: only the      *)
(* fields that the pass changed are sent, whatever the server holds.       *)
(***************************************************************************)
EXTENDS Conditions, Naturals

CONSTANTS
  None,               \* a missing object or value
  EmptyStatus,        \* status of a new resource; conds are its conditions
  InitList,           \* conditions that Reconcile initializes as Unknown
  ReturnsPatchError,  \* TRUE: the deferred function sets the named result
  StatusWithMetadata, \* TRUE: a patch of the metadata also carries the status
  SyncDuringPass      \* FALSE: events reach the cache between two passes only

VARIABLES
  cr,       \* the custom resource on the API server
  cache,    \* the informer's copy of it, which Reconcile reads
  event,    \* is a change of it still on its way to the cache?
  queued,   \* is its key in the work queue?
  pc,       \* the API call the worker makes next
  before,   \* the instance as read (the helper's before object)
  inst,     \* the instance as changed so far by this pass
  requeue,  \* does this pass end with an error or a RequeueAfter?
  faults,   \* failed API calls and restarts still allowed
  changes   \* disturbances by the environment still allowed

resource == <<cr, cache, event>>
worker == <<pc, before, inst, requeue>>
bounds == <<faults, changes>>

NoInstance == [exists |-> FALSE, deleting |-> FALSE, finalizer |-> FALSE,
               spec |-> None, status |-> EmptyStatus]

\* The types of a resource, given those of its spec and of its status.
InstanceType(specs, statuses) ==
  [exists : BOOLEAN, deleting : BOOLEAN, finalizer : BOOLEAN,
   spec : specs \cup {None}, status : statuses]

ReconcilerInit ==
  /\ cr = NoInstance /\ cache = NoInstance /\ event = FALSE
  /\ queued = FALSE
  /\ pc = "idle" /\ before = NoInstance /\ inst = NoInstance /\ requeue = FALSE

(***************************************************************************)
(* Moving on in a pass                                                     *)
(***************************************************************************)
\* Go on with the next API call of the pass.
Continue(step, instance) ==
  /\ pc' = step
  /\ inst' = instance
  /\ UNCHANGED <<before, requeue>>

\* Return from the handler; again tells whether the key is put back.
Return(instance, again) ==
  /\ pc' = "patch"
  /\ inst' = instance
  /\ requeue' = again
  /\ UNCHANGED before

\* The instance with one condition set.
With(t, status) == [inst EXCEPT !.status.conds = Mark(inst.status.conds, t, status)]

\* An API call fails, for a reason that is not the object's absence.
Fault == faults > 0 /\ faults' = faults - 1

\* The environment changes something behind the controller's back.
Disturb == changes > 0 /\ changes' = changes - 1

\* The worker is done with the key.
Done ==
  /\ pc' = "idle"
  /\ before' = NoInstance /\ inst' = NoInstance
  /\ requeue' = FALSE

\* The process starts again: the cache is listed afresh and the resources it
\* holds are enqueued.
Restarted ==
  /\ Done
  /\ cache' = cr /\ event' = FALSE
  /\ queued' = TRUE
  /\ UNCHANGED cr

\* The resource changes on the API server, which sends an event.
Write(instance) ==
  /\ cr' = instance
  /\ event' = (event \/ instance # cr)
  /\ UNCHANGED cache

(***************************************************************************)
(* Reconcile                                                               *)
(***************************************************************************)
Fetch ==
  /\ pc = "idle" /\ queued
  /\ queued' = FALSE
  /\ UNCHANGED <<resource, bounds>>

NotFound ==
  /\ Fetch
  /\ ~cache.exists
  /\ UNCHANGED worker

\* Start the pass at a step, with the instance as changed already.
Begin(step, instance) ==
  /\ before' = cache
  /\ inst' = instance
  /\ pc' = step
  /\ UNCHANGED requeue

AddFinalizer ==
  /\ Fetch
  /\ cache.exists /\ ~cache.deleting /\ ~cache.finalizer
  /\ Begin("patch", [cache EXCEPT !.finalizer = TRUE])

\* After AddFinalizer has found nothing to do.
Initialized == cache.exists /\ (cache.deleting \/ cache.finalizer)

InitStatus ==
  /\ Fetch
  /\ Initialized
  /\ cache.status.conds = EmptyStatus.conds
  /\ Begin("patch", [cache EXCEPT !.status.conds = InitConditions(cache.status.conds, InitList)])

Dispatch(normalStep) ==
  /\ Fetch
  /\ Initialized
  /\ cache.status.conds # EmptyStatus.conds
  /\ Begin(IF cache.deleting THEN "delete" ELSE normalStep, cache)

(***************************************************************************)
(* The deferred patch: helper.PatchInstance sends the metadata that the    *)
(* pass changed, then the status.                                          *)
(***************************************************************************)
\* Mutant: all of the metadata is sent, as it was read.
PatchMetadataStale(server, old, new) ==
  IF server.exists /\ ~(server.deleting /\ ~new.finalizer)
  THEN [server EXCEPT !.finalizer = new.finalizer, !.deleting = new.deleting]
  ELSE NoInstance

\* The resource goes away with its finalizer once it is being deleted.
PatchMetadata(server, old, new) ==
  LET finalizer == IF new.finalizer # old.finalizer THEN new.finalizer ELSE server.finalizer
  IN  IF server.exists /\ ~(server.deleting /\ ~finalizer)
      THEN [server EXCEPT !.finalizer = finalizer]
      ELSE NoInstance

PatchStatus(server, old, new) ==
  IF server.exists
  THEN [server EXCEPT !.status =
          [f \in DOMAIN server.status |->
             IF new.status[f] # old.status[f] THEN new.status[f] ELSE server.status[f]]]
  ELSE NoInstance

PatchInstance(server, old, new) ==
  LET patched == PatchMetadata(server, old, new)
  IN  IF old.finalizer = new.finalizer \/ StatusWithMetadata
      THEN PatchStatus(patched, old, new)
      ELSE patched

\* The instance at the end of the pass.
Ended == [inst EXCEPT !.status.conds = UpdateReady(inst.status.conds)]

Patch ==
  /\ pc = "patch"
  /\ Write(PatchInstance(cr, before, Ended))
  /\ queued' = (queued \/ requeue)
  /\ Done
  /\ UNCHANGED bounds

\* Mutant: the error of the patch is not returned.
PatchFailsUnnoticed ==
  /\ pc = "patch"
  /\ Fault
  /\ Write(cr) \/ Write(PatchMetadata(cr, before, Ended)) \/ Write(PatchInstance(cr, before, Ended))
  /\ queued' = (queued \/ requeue)
  /\ Done
  /\ UNCHANGED changes

\* The patch fails, before or after the metadata is written, or its answer is
\* lost.
PatchFails ==
  /\ pc = "patch"
  /\ Fault
  /\ \/ Write(cr)
     \/ Write(PatchMetadata(cr, before, Ended))
     \/ Write(PatchInstance(cr, before, Ended))
  /\ queued' = (queued \/ requeue \/ ReturnsPatchError)
  /\ Done
  /\ UNCHANGED changes

(***************************************************************************)
(* The informer and the user                                               *)
(***************************************************************************)
\* A pass reads the cache once, when it begins; what an event delivered during
\* a pass leaves there is read by the next one, even when the patch that ends
\* the pass has changed the resource since.
SyncCache ==
  /\ event
  /\ pc = "idle" \/ SyncDuringPass
  /\ cache' = cr /\ event' = FALSE
  /\ queued' = TRUE
  /\ UNCHANGED <<cr, worker, bounds>>

UserCreates(spec) ==
  /\ Disturb
  /\ ~cr.exists
  /\ Write([NoInstance EXCEPT !.exists = TRUE, !.spec = spec])
  /\ UNCHANGED <<queued, worker, faults>>

UserEdits(spec) ==
  /\ Disturb
  /\ cr.exists /\ spec # cr.spec
  /\ Write([cr EXCEPT !.spec = spec])
  /\ UNCHANGED <<queued, worker, faults>>

UserDeletes ==
  /\ cr.exists /\ ~cr.deleting
  /\ Write(IF cr.finalizer THEN [cr EXCEPT !.deleting = TRUE] ELSE NoInstance)
  /\ UNCHANGED <<queued, worker, bounds>>

\* Nothing is pending: the worker is idle, the queue is empty and the cache
\* is up to date.
Quiescent == pc = "idle" /\ ~queued /\ ~event

\* The manager leaves the sync period at its default of some hours, after which
\* the informer presents every resource it holds again.  That is long enough
\* for everything pending to be done before.
Resync ==
  /\ Quiescent /\ cache.exists
  /\ queued' = TRUE
  /\ UNCHANGED <<resource, worker, bounds>>

Ready(instance) == instance.status.conds["Ready"] = "True"
===============================================================================
