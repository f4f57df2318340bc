------------------- MODULE ClusterInstallationSupervisor -------------------
(***************************************************************************)
(* The cluster installation supervisor of                                 *)
(* src/internal/supervisor/cluster_installation.go.                        *)
(*                                                                         *)
(* Several provisioner instances (Workers) each run the polling loop Do,   *)
(* which queries the store for unlocked cluster installations pending work *)
(* and calls Supervise on each: lock the row, re-fetch it and compare its  *)
(* state with the one the query saw, run the handler of its state, re-fetch *)
(* it again, write the new state, record the duration metric and the state *)
(* change event, and unlock.  Every store call is a step of its own, so    *)
(* the steps of different workers, and the out-of-band edits of the API    *)
(* (deletion and update requests, backups), interleave between them.       *)
(*                                                                         *)
(* The store (not under src/) is modelled from spec.md: rows keep a state, *)
(* a soft-delete flag and the lock holder; the lock is an atomic           *)
(* conditional write.  Every store call and every provisioner call may    *)
(* fail; the failure is a nondeterministic choice.                         *)
(***************************************************************************)
EXTENDS Naturals, Sequences, FiniteSets

CONSTANTS
    Workers,          \* provisioner instances, named by their instanceID
    CIs,              \* cluster installation IDs
    NULL,             \* no lock holder, no current row
    MaxEdits,         \* bound on out-of-band edits (requests and backups)
    MaxFaults,        \* bound on worker crashes and failed unlocks
    EditsIgnoreLock   \* whether an out-of-band edit may write a locked row

ASSUME ConstantsAssumption ==
    /\ NULL \notin Workers \cup CIs
    /\ MaxEdits \in Nat
    /\ MaxFaults \in Nat
    /\ EditsIgnoreLock \in BOOLEAN

(***************************************************************************)
(* Cluster installation states, the model.ClusterInstallationState values. *)
(***************************************************************************)
CreationRequested == "creation-requested"
Reconciling       == "reconciling"
Stable            == "stable"
CreationFailed    == "creation-failed"
DeletionRequested == "deletion-requested"
Deleted           == "deleted"
DeletionFailed    == "deletion-failed"

CIStates == {CreationRequested, Reconciling, Stable, CreationFailed,
             DeletionRequested, Deleted, DeletionFailed}

\* The states GetUnlockedClusterInstallationsPendingWork selects.
PendingWork == {CreationRequested, Reconciling, DeletionRequested}

\* The two histograms of CloudMetrics for cluster installations.
Histograms == {"reconciling_duration", "deletion_duration"}

\* Worker program counters: where in Do/Supervise each worker is.
PCs == {"idle", "supervise", "refresh", "transition", "delete", "persist",
        "record", "unlock"}
LockedPCs == {"refresh", "transition", "delete", "persist", "record",
              "unlock"}

\* Why the handler returned what it did (a ghost, for the error taxonomy).
Failures == {"none", "store", "reference", "backend", "blocked"}

Event == [ci : CIs, old : CIStates, new : CIStates, gen : Nat]
Observation == [ci : CIs, hist : Histograms, gen : Nat, state : CIStates]

VARIABLES
    ciState,     \* persisted State of each row
    ciDeleted,   \* the row was deleted by DeleteClusterInstallation
    lockedBy,    \* LockAcquiredBy of each row, NULL when unlocked
    backups,     \* a backup is running in the row's namespace
    events,      \* the StateChangeEvent log, oldest first
    entries,     \* ghost: how many times the row entered a start state
    metrics,     \* histogram observations, oldest first
    pc,          \* per worker: where it is
    queue,       \* per worker: rows of the current Do not yet supervised
    cur,         \* per worker: the row being supervised
    origState,   \* per worker: the state the pending-work query saw
    newState,    \* per worker: the state the handler returned
    oldState,    \* per worker: the state overwritten by the update
    failure,     \* per worker: ghost, why the handler returned newState
    edits,       \* out-of-band edits so far
    faults       \* crashes and failed unlocks so far

storeVars  == <<ciState, ciDeleted, lockedBy, backups, events, metrics>>
workerVars == <<pc, queue, cur, origState, newState, oldState, failure>>
vars == <<storeVars, workerVars, entries, edits, faults>>

-----------------------------------------------------------------------------
(***************************************************************************)
(* Helpers.                                                                *)
(***************************************************************************)

\* Mutant: the default branch fails the row as well.
failedClusterInstallationStateAlwaysFails(s) ==
    CASE s = DeletionRequested -> DeletionFailed
      [] OTHER                 -> CreationFailed

\* failedClusterInstallationState
failedClusterInstallationState(s) ==
    CASE s = CreationRequested -> CreationFailed
      [] s = DeletionRequested -> DeletionFailed
      [] OTHER                 -> s

\* The states whose entry starts a duration metric.
StartStates == {Reconciling, DeletionRequested}

\* The histogram an anchor event's new state selects.
HistOf(s) == IF s = Reconciling THEN "reconciling_duration"
                                ELSE "deletion_duration"

\* Event i is a state change of c into a start state.
IsAnchor(c, i) == events[i].ci = c /\ events[i].new \in StartStates

\* Index of the most recent event of c into a start state, 0 if there is
\* none (GetStateChangeEvents filtered by NewStates, newest first, PerPage 1).
LatestAnchor(c) ==
    LET Latest(i) == /\ IsAnchor(c, i)
                     /\ \A j \in i+1..Len(events) : ~IsAnchor(c, j)
    IN  IF \E i \in 1..Len(events) : Latest(i)
        THEN CHOOSE i \in 1..Len(events) : Latest(i)
        ELSE 0

\* GetUnlockedClusterInstallationsPendingWork
PendingWorkCIs == {c \in CIs : lockedBy[c] = NULL /\ ciState[c] \in PendingWork}

\* Worker w is inside Supervise for row c, past TryLock.
Busy(w, c) == pc[w] \in LockedPCs /\ cur[w] = c

\* Supervise has returned: its local variables are gone.
ForgetLocals(w) ==
    /\ cur' = [cur EXCEPT ![w] = NULL]
    /\ origState' = [origState EXCEPT ![w] = CreationRequested]
    /\ newState' = [newState EXCEPT ![w] = CreationRequested]
    /\ oldState' = [oldState EXCEPT ![w] = CreationRequested]
    /\ failure' = [failure EXCEPT ![w] = "none"]

\* The entry counter after c moves to state s.
Entered(c, s) == IF s \in StartStates THEN entries[c] + 1 ELSE entries[c]

-----------------------------------------------------------------------------
Init ==
    /\ ciState = [c \in CIs |-> CreationRequested]
    /\ ciDeleted = [c \in CIs |-> FALSE]
    /\ lockedBy = [c \in CIs |-> NULL]
    /\ backups = [c \in CIs |-> FALSE]
    /\ events = << >>
    /\ entries = [c \in CIs |-> 0]
    /\ metrics = << >>
    /\ pc = [w \in Workers |-> "idle"]
    /\ queue = [w \in Workers |-> {}]
    /\ cur = [w \in Workers |-> NULL]
    /\ origState = [w \in Workers |-> CreationRequested]
    /\ newState = [w \in Workers |-> CreationRequested]
    /\ oldState = [w \in Workers |-> CreationRequested]
    /\ failure = [w \in Workers |-> "none"]
    /\ edits = 0
    /\ faults = 0

-----------------------------------------------------------------------------
(***************************************************************************)
(* Do: query the unlocked rows pending work and remember, for each, the    *)
(* state the query saw.  A failed query returns without work (a stutter).  *)
(***************************************************************************)
Do(w) ==
    /\ pc[w] = "idle"
    /\ PendingWorkCIs # {}
    /\ queue' = [queue EXCEPT ![w] =
                    {[ci |-> c, state |-> ciState[c]] : c \in PendingWorkCIs}]
    /\ pc' = [pc EXCEPT ![w] = "supervise"]
    /\ UNCHANGED <<storeVars, cur, origState, newState, oldState, failure,
                   entries, edits, faults>>

\* The loop of Do has supervised every row it found.
DoDone(w) ==
    /\ pc[w] = "supervise"
    /\ queue[w] = {}
    /\ pc' = [pc EXCEPT ![w] = "idle"]
    /\ UNCHANGED <<storeVars, queue, cur, origState, newState, oldState,
                   failure, entries, edits, faults>>

\* Mutant: the lock write is not conditional on the row being unlocked.
SuperviseUnconditionalLock(w) ==
    /\ pc[w] = "supervise"
    /\ \E it \in queue[w] :
         /\ queue' = [queue EXCEPT ![w] = @ \ {it}]
         /\ \/ /\ lockedBy' = [lockedBy EXCEPT ![it.ci] = w]
               /\ cur' = [cur EXCEPT ![w] = it.ci]
               /\ origState' = [origState EXCEPT ![w] = it.state]
               /\ pc' = [pc EXCEPT ![w] = "refresh"]
            \/ UNCHANGED <<lockedBy, cur, origState, pc>>
    /\ UNCHANGED <<ciState, ciDeleted, backups, events, metrics, newState,
                   oldState, failure, entries, edits, faults>>

(***************************************************************************)
(* Supervise, up to TryLock: LockClusterInstallations sets LockAcquiredBy  *)
(* only when the row is unlocked.  TryLock returns false when the row is  *)
(* locked or the store call fails, and Supervise returns.                  *)
(***************************************************************************)
Supervise(w) ==
    /\ pc[w] = "supervise"
    /\ \E it \in queue[w] :
         /\ queue' = [queue EXCEPT ![w] = @ \ {it}]
         /\ \/ /\ lockedBy[it.ci] = NULL
               /\ lockedBy' = [lockedBy EXCEPT ![it.ci] = w]
               /\ cur' = [cur EXCEPT ![w] = it.ci]
               /\ origState' = [origState EXCEPT ![w] = it.state]
               /\ pc' = [pc EXCEPT ![w] = "refresh"]
            \/ UNCHANGED <<lockedBy, cur, origState, pc>>
    /\ UNCHANGED <<ciState, ciDeleted, backups, events, metrics, newState,
                   oldState, failure, entries, edits, faults>>

(***************************************************************************)
(* The first re-fetch: go on only when the row is still in the state the   *)
(* query saw; a failed read or another provisioner's progress ends         *)
(* Supervise (the deferred unlock runs).                                   *)
(***************************************************************************)
Refresh(w) ==
    /\ pc[w] = "refresh"
    /\ \/ /\ ciState[cur[w]] = origState[w]
          /\ pc' = [pc EXCEPT ![w] = "transition"]
       \/ /\ ciState[cur[w]] # origState[w]
          /\ pc' = [pc EXCEPT ![w] = "unlock"]
       \/ pc' = [pc EXCEPT ![w] = "unlock"]           \* read failed
    /\ UNCHANGED <<storeVars, queue, cur, origState, newState, oldState,
                   failure, entries, edits, faults>>

(***************************************************************************)
(* transitionClusterInstallation.  The handler works on the record read by *)
(* the first re-fetch, whose state is origState[w].  SetResult records the *)
(* returned state and goes on to the second re-fetch.                      *)
(***************************************************************************)
SetResult(w, s, why) ==
    /\ newState' = [newState EXCEPT ![w] = s]
    /\ failure' = [failure EXCEPT ![w] = why]
    /\ pc' = [pc EXCEPT ![w] = "persist"]

\* GetCluster or GetInstallation failed (state kept) or found nothing
\* (the failed state of failedClusterInstallationState).
LookupFailed(w) ==
    /\ pc[w] = "transition"
    /\ \/ SetResult(w, origState[w], "store")
       \/ SetResult(w, failedClusterInstallationState(origState[w]),
                    "reference")
    /\ UNCHANGED <<storeVars, queue, cur, origState, oldState, entries,
                   edits, faults>>

\* createClusterInstallation: prepare utilities, create, then write back the
\* in-memory record (its state is still creation-requested).
createClusterInstallation(w) ==
    /\ pc[w] = "transition"
    /\ origState[w] = CreationRequested
    /\ \/ /\ SetResult(w, CreationRequested, "backend")
          /\ UNCHANGED ciState
       \/ /\ SetResult(w, CreationFailed, "store")      \* update failed
          /\ UNCHANGED ciState
       \/ /\ ciState' = [ciState EXCEPT ![cur[w]] = origState[w]]
          /\ SetResult(w, Reconciling, "none")
    /\ UNCHANGED <<ciDeleted, lockedBy, backups, events, metrics, queue, cur,
                   origState, oldState, entries, edits, faults>>

\* deleteClusterInstallation, up to the provisioner call: query the backups
\* running in the namespace and refuse while there are any.  The query and
\* the deletes below are separate calls, and nothing stops a backup from
\* starting in between.
deleteClusterInstallation(w) ==
    /\ pc[w] = "transition"
    /\ origState[w] = DeletionRequested
    /\ \/ SetResult(w, DeletionRequested, "store")     \* backups query failed
       \/ backups[cur[w]] /\ SetResult(w, DeletionRequested, "blocked")
       \/ /\ ~backups[cur[w]]
          /\ pc' = [pc EXCEPT ![w] = "delete"]
          /\ UNCHANGED <<newState, failure>>
    /\ UNCHANGED <<storeVars, queue, cur, origState, oldState, entries,
                   edits, faults>>

\* Mutant: a failed row delete returns a cluster state, which is not a
\* cluster installation state.
deleteClusterInstallationResourcesClusterState(w) ==
    /\ pc[w] = "delete"
    /\ \/ /\ SetResult(w, DeletionFailed, "backend")
          /\ UNCHANGED ciDeleted
       \/ /\ SetResult(w, "cluster-deletion-failed", "store")
          /\ UNCHANGED ciDeleted
       \/ /\ ciDeleted' = [ciDeleted EXCEPT ![cur[w]] = TRUE]
          /\ SetResult(w, Deleted, "none")
    /\ UNCHANGED <<ciState, lockedBy, backups, events, metrics, queue, cur,
                   origState, oldState, entries, edits, faults>>

\* Mutant: the row's record is not deleted (store.DeleteClusterInstallation
\* is skipped), yet the handler returns deleted.
deleteClusterInstallationResourcesKeepingRow(w) ==
    /\ pc[w] = "delete"
    /\ \/ SetResult(w, DeletionFailed, "backend")
       \/ SetResult(w, Deleted, "none")
    /\ UNCHANGED <<storeVars, queue, cur, origState, oldState, entries,
                   edits, faults>>

\* The rest of deleteClusterInstallation: delete through the provisioner,
\* then delete the row; a failure of either returns deletion-failed (the
\* second through model.ClusterStateDeletionFailed, of the same value).
deleteClusterInstallationResources(w) ==
    /\ pc[w] = "delete"
    /\ \/ /\ SetResult(w, DeletionFailed, "backend")
          /\ UNCHANGED ciDeleted
       \/ /\ SetResult(w, DeletionFailed, "store")     \* row delete failed
          /\ UNCHANGED ciDeleted
       \/ /\ ciDeleted' = [ciDeleted EXCEPT ![cur[w]] = TRUE]
          /\ SetResult(w, Deleted, "none")
    /\ UNCHANGED <<ciState, lockedBy, backups, events, metrics, queue, cur,
                   origState, oldState, entries, edits, faults>>

\* checkReconcilingClusterInstallation: readiness probe, then removal of old
\* license secrets; any failure or a not-ready resource keeps reconciling.
checkReconcilingClusterInstallation(w) ==
    /\ pc[w] = "transition"
    /\ origState[w] = Reconciling
    /\ \/ SetResult(w, Reconciling, "backend")
       \/ SetResult(w, Reconciling, "none")             \* not ready yet
       \/ SetResult(w, Stable, "none")
    /\ UNCHANGED <<storeVars, queue, cur, origState, oldState, entries,
                   edits, faults>>

Transition(w) ==
    \/ LookupFailed(w)
    \/ createClusterInstallation(w)
    \/ deleteClusterInstallation(w)
    \/ checkReconcilingClusterInstallation(w)

\* Mutant: the equality check after the second re-fetch is inverted.
PersistInvertedCheck(w) ==
    LET c == cur[w] IN
    /\ pc[w] = "persist"
    /\ \/ /\ pc' = [pc EXCEPT ![w] = "unlock"]
          /\ UNCHANGED <<ciState, oldState, entries>>
       \/ /\ ciState[c] # newState[w]
          /\ pc' = [pc EXCEPT ![w] = "unlock"]
          /\ UNCHANGED <<ciState, oldState, entries>>
       \/ /\ ciState[c] = newState[w]
          /\ \/ /\ pc' = [pc EXCEPT ![w] = "unlock"]
                /\ UNCHANGED <<ciState, oldState, entries>>
             \/ /\ ciState' = [ciState EXCEPT ![c] = newState[w]]
                /\ oldState' = [oldState EXCEPT ![w] = ciState[c]]
                /\ entries' = [entries EXCEPT ![c] = Entered(c, newState[w])]
                /\ pc' = [pc EXCEPT ![w] = "record"]
    /\ UNCHANGED <<ciDeleted, lockedBy, backups, events, metrics, queue, cur,
                   origState, newState, failure, edits, faults>>

(***************************************************************************)
(* The second re-fetch and the update: when the persisted state already is *)
(* the new state Supervise returns; otherwise the re-fetched record gets   *)
(* the new state and is written back.  A failed read or write returns.     *)
(***************************************************************************)
Persist(w) ==
    LET c == cur[w] IN
    /\ pc[w] = "persist"
    /\ \/ /\ pc' = [pc EXCEPT ![w] = "unlock"]          \* read failed
          /\ UNCHANGED <<ciState, oldState, entries>>
       \/ /\ ciState[c] = newState[w]
          /\ pc' = [pc EXCEPT ![w] = "unlock"]
          /\ UNCHANGED <<ciState, oldState, entries>>
       \/ /\ ciState[c] # newState[w]
          /\ \/ /\ pc' = [pc EXCEPT ![w] = "unlock"]    \* update failed
                /\ UNCHANGED <<ciState, oldState, entries>>
             \/ /\ ciState' = [ciState EXCEPT ![c] = newState[w]]
                /\ oldState' = [oldState EXCEPT ![w] = ciState[c]]
                /\ entries' = [entries EXCEPT ![c] = Entered(c, newState[w])]
                /\ pc' = [pc EXCEPT ![w] = "record"]
    /\ UNCHANGED <<ciDeleted, lockedBy, backups, events, metrics, queue, cur,
                   origState, newState, failure, edits, faults>>

(***************************************************************************)
(* processClusterInstallationMetrics, then the state change event.  On a   *)
(* move to stable or deleted the latest event into reconciling or         *)
(* deletion-requested is the anchor, and its new state picks the          *)
(* histogram; a failed query or a missing anchor records nothing.  Either *)
(* store call may fail; both failures are only logged.                     *)
(***************************************************************************)
\* Mutant: the metric is computed for every transition (no state filter).
processClusterInstallationMetricsAnyState(w, queryOk) ==
    LET c == cur[w]
        a == LatestAnchor(c)
    IN  metrics' =
          IF queryOk /\ a # 0
          THEN Append(metrics, [ci |-> c, hist |-> HistOf(events[a].new),
                                gen |-> events[a].gen, state |-> newState[w]])
          ELSE metrics

processClusterInstallationMetrics(w, queryOk) ==
    LET c == cur[w]
        a == LatestAnchor(c)
    IN  metrics' =
          IF /\ newState[w] \in {Stable, Deleted}
             /\ queryOk
             /\ a # 0
          THEN Append(metrics, [ci |-> c, hist |-> HistOf(events[a].new),
                                gen |-> events[a].gen, state |-> newState[w]])
          ELSE metrics

Record(w) ==
    LET c == cur[w] IN
    /\ pc[w] = "record"
    /\ \E queryOk \in BOOLEAN : processClusterInstallationMetrics(w, queryOk)
    /\ \/ events' = Append(events, [ci |-> c, old |-> oldState[w],
                                    new |-> newState[w], gen |-> entries[c]])
       \/ UNCHANGED events                                \* event lost
    /\ pc' = [pc EXCEPT ![w] = "unlock"]
    /\ UNCHANGED <<ciState, ciDeleted, lockedBy, backups, queue, cur,
                   origState, newState, oldState, failure, entries, edits,
                   faults>>

(***************************************************************************)
(* The deferred lock.Unlock: UnlockClusterInstallations clears the lock    *)
(* when w holds it.  When the store call fails the row stays locked.       *)
(***************************************************************************)
Unlock(w) ==
    LET c == cur[w] IN
    /\ pc[w] = "unlock"
    /\ \/ /\ lockedBy' = [lockedBy EXCEPT ![c] = IF @ = w THEN NULL ELSE @]
          /\ UNCHANGED faults
       \/ /\ faults < MaxFaults
          /\ faults' = faults + 1
          /\ UNCHANGED lockedBy
    /\ pc' = [pc EXCEPT ![w] = "supervise"]
    /\ ForgetLocals(w)
    /\ UNCHANGED <<ciState, ciDeleted, backups, events, metrics, queue,
                   entries, edits>>

-----------------------------------------------------------------------------
(***************************************************************************)
(* Faults and recovery.  A worker process may crash anywhere and restart   *)
(* idle; the locks it held stay.  An administrator force-unlocks a row    *)
(* whose holder is not working on it (UnlockClusterInstallations with      *)
(* force).                                                                 *)
(***************************************************************************)
Crash(w) ==
    /\ pc[w] # "idle"
    /\ faults < MaxFaults
    /\ faults' = faults + 1
    /\ pc' = [pc EXCEPT ![w] = "idle"]
    /\ queue' = [queue EXCEPT ![w] = {}]
    /\ ForgetLocals(w)
    /\ UNCHANGED <<storeVars, entries, edits>>

ForceUnlock(c) ==
    /\ lockedBy[c] # NULL
    /\ ~Busy(lockedBy[c], c)
    /\ lockedBy' = [lockedBy EXCEPT ![c] = NULL]
    /\ UNCHANGED <<ciState, ciDeleted, backups, events, metrics, workerVars,
                   entries, edits, faults>>

(***************************************************************************)
(* Out-of-band edits by the API and the installation supervisor: request  *)
(* deletion, request an update of a stable row, start or finish a backup.  *)
(* The state edits lock the row around the write unless EditsIgnoreLock,  *)
(* and each logs its state change event.  A backup is a record of its own, *)
(* created by the backup API without the cluster installation's lock.     *)
(***************************************************************************)
EditAllowed(c) ==
    /\ edits < MaxEdits
    /\ ~ciDeleted[c]
    /\ EditsIgnoreLock \/ lockedBy[c] = NULL

EditState(c, s) ==
    /\ ciState' = [ciState EXCEPT ![c] = s]
    /\ entries' = [entries EXCEPT ![c] = Entered(c, s)]
    /\ events' = Append(events, [ci |-> c, old |-> ciState[c], new |-> s,
                                 gen |-> Entered(c, s)])
    /\ edits' = edits + 1
    /\ UNCHANGED <<ciDeleted, lockedBy, backups, metrics, workerVars, faults>>

RequestDeletion(c) ==
    /\ EditAllowed(c)
    /\ ciState[c] \notin {DeletionRequested, Deleted}
    /\ EditState(c, DeletionRequested)

RequestUpdate(c) ==
    /\ EditAllowed(c)
    /\ ciState[c] = Stable
    /\ EditState(c, Reconciling)

StartBackup(c) ==
    /\ edits < MaxEdits
    /\ ~ciDeleted[c]
    /\ ~backups[c]
    /\ backups' = [backups EXCEPT ![c] = TRUE]
    /\ edits' = edits + 1
    /\ UNCHANGED <<ciState, ciDeleted, lockedBy, events, metrics, workerVars,
                   entries, faults>>

FinishBackup(c) ==
    /\ backups[c]
    /\ backups' = [backups EXCEPT ![c] = FALSE]
    /\ UNCHANGED <<ciState, ciDeleted, lockedBy, events, metrics, workerVars,
                   entries, edits, faults>>

-----------------------------------------------------------------------------
\* Every worker idle and nothing left to pick up: the loop only polls.
Settled ==
    /\ \A w \in Workers : pc[w] = "idle"
    /\ PendingWorkCIs = {}

Worker(w) ==
    \/ Do(w) \/ DoDone(w) \/ Supervise(w) \/ Refresh(w) \/ Transition(w)
    \/ deleteClusterInstallationResources(w) \/ Persist(w) \/ Record(w) \/ Unlock(w) \/ Crash(w)

Environment(c) ==
    \/ ForceUnlock(c) \/ RequestDeletion(c) \/ RequestUpdate(c)
    \/ StartBackup(c) \/ FinishBackup(c)

Next ==
    \/ \E w \in Workers : Worker(w)
    \/ \E c \in CIs : Environment(c)
    \/ Settled /\ UNCHANGED vars

Spec == Init /\ [][Next]_vars

(***************************************************************************)
(* Fairness.  Every provisioner runs its polling loop forever and each     *)
(* call of it returns (WF on the worker).  Transient store and provisioner *)
(* failures are transient: a TryLock on a free row, a re-fetch that finds *)
(* the row unchanged, a handler that can succeed, and an update that can  *)
(* be written, do eventually succeed when retried (SF, since each is only *)
(* enabled at one point of a polling cycle).  An administrator eventually *)
(* force-unlocks a row left locked by a crashed worker (spec 5), and a    *)
(* backup eventually finishes.  The API's requests are not fair.          *)
(***************************************************************************)
LockTaken(w)      == Supervise(w) /\ pc'[w] = "refresh"
Refreshed(w)      == Refresh(w) /\ pc'[w] = "transition"
HandlerSucceeds(w) ==
    \/ /\ Transition(w) /\ pc'[w] = "persist"
       /\ failure'[w] = "none" /\ newState'[w] # origState[w]
    \/ deleteClusterInstallation(w) /\ pc'[w] = "delete"
    \/ deleteClusterInstallationResources(w) /\ failure'[w] = "none"
Persisted(w)      == Persist(w) /\ pc'[w] = "record"

Fairness ==
    /\ \A w \in Workers :
          /\ WF_vars(Worker(w))
          /\ SF_vars(LockTaken(w)) /\ SF_vars(Refreshed(w))
          /\ SF_vars(HandlerSucceeds(w)) /\ SF_vars(Persisted(w))
    /\ \A c \in CIs : WF_vars(ForceUnlock(c)) /\ WF_vars(FinishBackup(c))

FairSpec == Spec /\ Fairness

-----------------------------------------------------------------------------
(***************************************************************************)
(* Properties.                                                             *)
(***************************************************************************)
TypeOK ==
    /\ ciState \in [CIs -> CIStates]
    /\ ciDeleted \in [CIs -> BOOLEAN]
    /\ lockedBy \in [CIs -> Workers \cup {NULL}]
    /\ backups \in [CIs -> BOOLEAN]
    /\ events \in Seq(Event)
    /\ entries \in [CIs -> Nat]
    /\ metrics \in Seq(Observation)
    /\ pc \in [Workers -> PCs]
    /\ queue \in [Workers -> SUBSET [ci : CIs, state : CIStates]]
    /\ cur \in [Workers -> CIs \cup {NULL}]
    /\ origState \in [Workers -> CIStates]
    /\ newState \in [Workers -> CIStates]
    /\ oldState \in [Workers -> CIStates]
    /\ failure \in [Workers -> Failures]
    /\ edits \in Nat
    /\ faults \in Nat

(***************************************************************************)
(* Lock exclusion (spec 4.1, 8): a worker between a successful TryLock and *)
(* its deferred Unlock holds the row's lock, so no two workers ever run    *)
(* Supervise past TryLock on the same cluster installation, across crashes, *)
(* failed unlocks and administrative force-unlocks.                        *)
(***************************************************************************)
MutualExclusion ==
    \A w \in Workers, c \in CIs : Busy(w, c) => lockedBy[c] = w

(***************************************************************************)
(* The transitions of the state table of spec 4.2, with the failure states *)
(* of a missing cluster or installation, and the out-of-band requests.     *)
(***************************************************************************)
TableTransitions ==
    {<<CreationRequested, Reconciling>>, <<CreationRequested, CreationFailed>>,
     <<Reconciling, Stable>>,
     <<DeletionRequested, Deleted>>, <<DeletionRequested, DeletionFailed>>}
RequestTransitions ==
    {<<s, DeletionRequested>> : s \in CIStates \ {DeletionRequested, Deleted}}
    \cup {<<Stable, Reconciling>>}

(***************************************************************************)
(* No illegal jump (spec 8): every change of a row's persisted state, by a *)
(* worker's handler or update or by a request, is a transition of the      *)
(* table.  A worker whose re-fetch before the update does not compare the  *)
(* state with the handler's input would overwrite a request that slipped   *)
(* in meanwhile.                                                           *)
(***************************************************************************)
ValidTransitions ==
    [][\A c \in CIs :
          ciState'[c] # ciState[c] =>
             <<ciState[c], ciState'[c]>> \in TableTransitions \cup RequestTransitions
      ]_vars

(***************************************************************************)
(* Deletion blocked by backups (spec 4.2, 8): deleteClusterInstallation    *)
(* deletes the installation's resources and the row only while no backup  *)
(* runs in its namespace.  The backups query and the deletes are separate *)
(* calls, so this needs a backup never to start in between.                *)
(***************************************************************************)
DeletionRespectsBackups ==
    [][\A c \in CIs : ~ciDeleted[c] /\ ciDeleted'[c] => ~backups[c]]_vars

(***************************************************************************)
(* The duration metric measures the transition that completed (spec 4.4,  *)
(* 7): a move to stable is observed in the reconciling histogram, a move  *)
(* to deleted in the deletion histogram, no other move at all, and the     *)
(* anchor is the event of the row's most recent entry into reconciling or  *)
(* deletion-requested, so that a lost event is never replaced by an older *)
(* one.  processClusterInstallationMetrics picks the histogram from the   *)
(* anchor event, not from the new state, so the two must agree.            *)
(***************************************************************************)
MetricMatchesTransition ==
    [][Len(metrics') > Len(metrics) =>
         LET o == metrics'[Len(metrics')] IN
         /\ \/ o.state = Stable /\ o.hist = "reconciling_duration"
            \/ o.state = Deleted /\ o.hist = "deletion_duration"
         /\ o.gen = entries[o.ci]
      ]_vars

(***************************************************************************)
(* The error taxonomy of spec 7: a provisioner (backend) failure leaves    *)
(* the state unchanged, so that the next Do retries it.                     *)
(***************************************************************************)
TransientErrorsKeepState ==
    \A w \in Workers :
        pc[w] = "persist" /\ failure[w] = "backend" => newState[w] = origState[w]

(***************************************************************************)
(* The stale guard of spec 4.3 step 6 and 8: the update after the second   *)
(* re-fetch writes the handler's result only over the state the handler    *)
(* worked from; a state changed meanwhile is never overwritten.            *)
(***************************************************************************)
StaleWriteDiscarded ==
    [][\A w \in Workers :
          pc[w] = "persist" /\ pc'[w] = "record" =>
             ciState[cur[w]] = origState[w]
      ]_vars

(***************************************************************************)
(* Refinement of the per-row lifecycle (ClusterInstallationLifecycle): the *)
(* lock field is the lease, and every step of the supervisor, its workers' *)
(* crashes and the administrator's force-unlock, and every lock-respecting *)
(* request, is a step of the lifecycle or leaves the row's state, record   *)
(* and lease unchanged.  This needs the first re-fetch's guard and the     *)
(* lock discipline together.                                               *)
(***************************************************************************)
Lifecycle == INSTANCE ClusterInstallationLifecycle
                 WITH Owners <- Workers, state <- ciState,
                      deleted <- ciDeleted, owner <- lockedBy

LifecycleRefinement == Lifecycle!Spec

(***************************************************************************)
(* Convergence (spec 4.2, the retry mechanism of Do): a row that needs    *)
(* work -- creation-requested, reconciling or deletion-requested --        *)
(* eventually reaches a state that needs none, across lock races, crashes, *)
(* failed unlocks, blocked deletions and the requests that re-open work.  *)
(***************************************************************************)
Convergence ==
    \A c \in CIs : ciState[c] \in PendingWork ~> ciState[c] \notin PendingWork
====
