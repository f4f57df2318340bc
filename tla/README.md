# Formal model of the mattermost-cloud cluster installation supervisor and DNS client

This directory holds TLA+ models of parts of the provisioning server under
`src/`, the TLC configurations that check them, and TLAPS proofs about them.

## The system and its parts

Several provisioning servers run the same supervisors against one shared store.
A supervisor's `Do` queries the store for rows pending work and calls
`Supervise` on each one in turn. `Supervise` does the following:

1. takes the row's lock with `TryLock`, an atomic conditional write in the
   store, and releases it with a deferred `Unlock`;
2. re-fetches the row and gives up if its state differs from the state the
   query returned;
3. runs the transition handler for the state;
4. re-fetches the row again and writes the handler's result unless the state
   already equals it;
5. on a committed change, records a duration metric and produces a state
   change event.

These are the system's parts:

| Part | Source | Model |
|---|---|---|
| Cluster installation supervisor: `Do`, `Supervise` | `src/internal/supervisor/cluster_installation.go:79-154` | `ClusterInstallationSupervisor` |
| State machine engine: `transitionClusterInstallation`, the create, delete and reconciling-check handlers, `failedClusterInstallationState` | same file, `:156-282` | `ClusterInstallationSupervisor` |
| Outcome recorder: `processClusterInstallationMetrics`, event production, histograms | same file `:284-319`, `src/internal/metrics/metrics.go:92-112` | `ClusterInstallationSupervisor` |
| Lock manager and store | not under `src/`, so modelled from `spec.md` | `ClusterInstallationSupervisor` (spec-modelled) |
| Cloudflare DNS client: `CreateDNSRecord`, `DeleteDNSRecord`, `getZoneId`, `getRecordId` | `src/internal/tools/cloudflare/dns.go:35-130` | `CloudflareDNS` |
| What `Supervise` promises for each row | spec 4.1, 4.2, 8 | `ClusterInstallationLifecycle` (abstract) |
| kops command wrapper | `src/internal/tools/kops/cluster.go` | not modelled |
| PGBouncer multitenant database | `src/internal/tools/aws/database_multitenant_pgbouncer.go` | not modelled |
| Installation model tests | `src/model/installation_test.go` | not modelled |

The parts that are not modelled, and why:

- **kops wrapper.** Each function assembles a command line, runs the external
  kops binary once and wraps its error. The wrapper has no state, loop or
  concurrency of its own. The state lives in kops's S3 state store, and the
  provisioner that sequences the calls is not under `src/`.
- **PGBouncer.** `Provision`, `Snapshot`, `GenerateDatabaseSecret` and
  `Teardown` return an error unconditionally, and `generatePGBouncerIni`
  returns a constant. The constructor returns the plain
  `RDSMultitenantDatabase` type, which is defined outside `src/`, so none of
  this file's methods can be reached through it.
- **Installation model tests.** They test code that is not under `src/`.
- **Provisioner backends, event consumers and the store's SQL.** These are
  outside the repository. Each call to them is a nondeterministic success or
  failure.

## Module `ClusterInstallationSupervisor`

### Constants

| Constant | Meaning |
|---|---|
| `Workers` | the provisioning server instances |
| `CIs` | the cluster installation rows |
| `NULL` | "no lock holder" |
| `MaxEdits` | bounds the out-of-band changes |
| `MaxFaults` | bounds crashes and failed unlocks |
| `EditsIgnoreLock` | chooses whether the API's out-of-band writes wait for the row lock (`FALSE`) or may write a locked row (`TRUE`, as spec 5 allows) |

### State

Store state:

- `ciState`: each row's state.
- `ciDeleted`: the row's soft-delete flag.
- `lockedBy`: the row's lock holder.
- `backups`: whether a backup is running in the row's namespace.
- `events`: the event log, the stream the metrics query reads.
- `metrics`: the recorded histogram observations.

Per-worker state:

- `pc`: which store call of `Supervise` the worker is at.
- `queue`: the rows still to visit from `Do`'s query.
- `cur`, `origState`, `newState`, `oldState`: the locals of `Supervise`.
- `failure`: why the handler returned its result. This is a ghost variable.

Other ghost and bound variables:

- `entries`: counts the entries of each row into a start state. It gives each
  anchor a generation, so that a metric can be tied to the transition it
  measures.
- `edits` and `faults`: the counters behind the two bounds.

### Actions

`Supervise` is split at every store call, so that other workers and
out-of-band edits interleave between the calls exactly where the Go code
yields:

| Action | Code |
|---|---|
| `Do` / `DoDone` | the query and the loop |
| `Supervise` | `TryLock`; on failure the row is skipped |
| `Refresh` | first re-fetch and state guard |
| `Transition` | one of the handlers, every provisioner/store failure a disjunct; a lookup failure is `LookupFailed`; for the delete handler, only its backups query (`deleteClusterInstallation`, :228-240) |
| `deleteClusterInstallationResources` | the rest of the delete handler: the provisioner delete, then the row delete; either may fail (:242-258) |
| `Persist` | second re-fetch, equality check, update |
| `Record` | metrics (`processClusterInstallationMetrics`) then the event; either may fail |
| `Unlock` | the deferred unlock; it may fail and leave the lock held |

Each handler is one atomic step, except the delete handler. That includes the
create handler's write-back of the in-memory record (line 218), which is part
of its action. The delete handler queries the running backups and then calls
the provisioner and the store in separate calls, so the model gives it two
steps, with the worker at `pc = "delete"` in between.

The environment has these actions:

- `Crash` of a worker at any point.
- An administrative `ForceUnlock` of a lock whose holder is no longer working
  on the row. Spec 4.1 says the forced unlock is "used only for administrative
  recovery", and spec 5 says a crashed worker's lock "must be cleared by an
  administrative force-unlock". The guard `~Busy(lockedBy[c], c)` states that
  use: the administrator clears a lock left behind by a crash or a failed
  unlock, never one whose holder is still inside `Supervise`. A force-unlock
  of a live worker's lock would break `MutualExclusion` by construction, and
  is outside what the spec describes.
- Out-of-band `RequestDeletion` and `RequestUpdate` (stable → reconciling).
  Each writes the state and appends its event.
- `StartBackup` and `FinishBackup`. A backup is a record of its own, created
  by the backup API, which does not take the cluster installation's lock.

### Properties

- `TypeOK`: the states are the model's `CIStates`. This rules out the cluster
  constant returned at line 253.
- `MutualExclusion`: a worker between `TryLock` and `Unlock` holds its row's
  lock.
- `ValidTransitions` (action): every change of a row's state is either in the
  supervisor's table of spec 4.2 or an API request.
- `DeletionRespectsBackups` (action): a row is never deleted while a backup
  runs in its namespace. It is checked only in the backup_window run, which
  finds it violated.
- `MetricMatchesTransition` (action): a new duration observation is taken on a
  transition to stable or deleted. Its histogram matches that state, and it
  measures from the latest entry into the start state, not from an older one
  left by a lost event.
- `TransientErrorsKeepState`: a provisioner failure leaves the state unchanged
  (spec 4.2/7).
- `StaleWriteDiscarded` (action): the update is written only when the row
  still has the handler's input state (spec 4.3 step 6).

## Module `ClusterInstallationLifecycle`

This abstract specification states what the supervisor promises for each
row, leaving out polling, re-fetches and outcome recording. Its variables
are:

- `state`: the row's state.
- `deleted`: the record has been deleted.
- `owner`: the lease holder.

Its actions are:

- `Acquire` and `Release` of the lease.
- `Advance` along the state table of spec 4.2, only while the lease is held,
  and to `deleted` only after the record is gone.
- `Delete` of the record, only from deletion-requested and under the lease.
- `Request`: the API's requests on an unleased row.

Backups are not part of the lifecycle. The supervisor checks for them, but
cannot keep one from starting after the check (the backup_window run).

`ClusterInstallationSupervisor` instantiates it as `Lifecycle`, with the
lock field as the lease. The property `LifecycleRefinement == Lifecycle!Spec`
says that the supervisor implements it.

## Module `CloudflareDNS`

It models `CreateDNSRecord` and `DeleteDNSRecord`, and the provisioner that
calls them. The provisioner is not under `src/`. Following spec 5 and 7, it
retries a failed call on its next poll, and it may be asked to delete at
any time between calls.

### State

- `hasRecord[z]`: whether zone `z` holds the installation's CNAME. Cloudflare
  refuses a second CNAME of a name, so this is a Boolean. For the same reason,
  `getRecordId` taking only `dnsRecords[0]` (line 58) loses nothing.
- `phase`: what the provisioner wants.
- `op`, `i`, `result`: the call in progress, its loop index and its return
  value.
- `faults`: the failed API calls so far, bounded by `MaxFaults`.

### Actions

There is one action per exit of one loop iteration:

| Action | Code |
|---|---|
| `CreateZoneLookupFails` | the zone lookup fails: `break`, return nil (:69) |
| `CreateInZone` | create succeeds and the loop moves on, or fails on an existing record, or fails transiently, or times out after Cloudflare applied it (:76-86) |
| `CreateLoopDone` | return nil (:95) |
| `DeleteZoneLookupFails` | the zone lookup fails: `break`, return nil (:105) |
| `DeleteRecordLookup` | `getRecordId` fails and returns the error, or finds nothing and returns nil (:108-118) |
| `DeleteInZone` | delete succeeds, fails, or times out after the delete (:123-126) |
| `DeleteLoopDone` | return nil (:129) |

The caller's actions are `CallCreate`, `CallDelete`, `CallReturned` and
`RequestDeletion`.

### Fairness

The client and the caller are weakly fair: a call runs to its end, and the
provisioner keeps polling. `RequestDeletion` is the user's choice and is not
fair. Faults are bounded, so the API eventually behaves.

## Runs

| Run | Module / cfg | Expect | Shows |
|---|---|---|---|
| supervisor_safety | `MCClusterInstallationSupervisor` / `.cfg` | pass | See below. |
| supervisor_liveness | `MCClusterInstallationSupervisor` / `MCSupervisorLiveness.cfg` | pass | `Convergence`: under the fairness below, every row that needs work leaves the pending states (about 28k states). |
| stale_overwrite | `MCClusterInstallationSupervisor` / `MCStaleOverwrite.cfg` | violation | With edits that ignore the lock, the create handler's write-back (line 218) reverts deletion-requested to creation-requested. |
| stale_guard | `MCClusterInstallationSupervisor` / `MCStaleGuard.cfg` | violation | The second re-fetch (line 131) does not compare with the handler's input, so a concurrent deletion request is overwritten. |
| backup_window | `MCClusterInstallationSupervisor` / `MCBackupWindow.cfg` | violation | `DeletionRespectsBackups`: the delete handler finds no running backup (:229), a backup starts, and the provisioner and store deletes (:243, :250) run with the backup in the namespace. |
| backend_failure | `MCClusterInstallationSupervisor` / `MCBackendFailure.cfg` | violation | A failed provisioner delete gives deletion-failed (line 247), where the spec says the row stays deletion-requested. |
| dns_safety | `MCCloudflareDNS` / `MCCloudflareDNS.cfg` | pass | See below. |
| dns_created_everywhere | `MCCloudflareDNS` / `MCDNSCreatedEverywhere.cfg` | violation | A failed zone lookup breaks the create loop and returns nil (:69); the provisioner believes the record exists everywhere. |
| dns_deleted_everywhere | `MCCloudflareDNS` / `MCDNSDeletedEverywhere.cfg` | violation | After a create that timed out once applied, deletion is requested and the delete loop's zone lookup fails (:105). It returns nil and the record survives. The return at :117 has the same effect. |
| dns_create_retry | `MCCloudflareDNS` / `MCDNSCreateRetry.cfg` | violation | `CreateRetryConverges`: once a zone holds the record after a failed call (a partial create, or a timeout after commit), every retry fails on the duplicate, so create is not idempotent (:76-86). |

In the supervisor_safety run (about 101k states), these hold with
lock-respecting edits, crashes, failed unlocks and force-unlocks:
`TypeOK`, `MutualExclusion`, `ValidTransitions`, `MetricMatchesTransition`
and `LifecycleRefinement`.

In the dns_safety run, `DeleteRetryConverges` holds: once deletion is
requested, the retries of `DeleteDNSRecord` return nil.

### Bounds

The supervisor bounds are `MaxEdits = 2` and `MaxFaults = 1`.

- Two workers are enough for every lock race. Symmetry over the workers is
  sound because they are interchangeable.
- Two edits let a deletion request and an update, or a backup start and
  finish, land inside one `Supervise`; one is enough to start a backup
  between the two steps of the delete handler.
- One fault gives a crash while holding the lock, or a failed unlock, followed
  by a force-unlock.
- Rows never interact in the code: every store call and every lock is per
  row. So one row shows every behaviour. Two rows exceed five minutes.

The liveness run uses `MaxEdits = 1` and has no symmetry. With `MaxEdits = 2`
it takes more than ten minutes. One edit still re-opens work: it can bring a
deletion request into a row that is being created, or reconcile a stable row.

The DNS model has three zones, so a loop can stop before, at and after the
middle zone. `MaxFaults = 2` lets a failed call be followed by a failed
retry.

### Fairness of the supervisor (`FairSpec`)

- Each worker is weakly fair. Every provisioner instance runs its polling
  loop forever (spec 5), and each step of a call returns.
- Four steps are strongly fair: `LockTaken` (TryLock on a free row),
  `Refreshed` (the first re-fetch finds the row unchanged), `HandlerSucceeds`
  (a handler call that makes progress) and `Persisted` (the update is
  written).
  - Transient failures are transient, so each of these eventually succeeds
    when retried.
  - SF, not WF, is needed because each is enabled only at one point of a
    polling cycle.
  - This rules out a resource that never becomes ready (:268). Spec 9 accepts
    that case as an open gap with no timeout.
- `ForceUnlock` is weakly fair: an administrator eventually frees a lock left
  by a crashed worker (spec 5).
- `FinishBackup` is weakly fair: a backup eventually finishes.
- The API's requests are not fair.

## Proofs

`ClusterInstallationSupervisorProofs.tla` proves two theorems, for all values
of the constants under `ConstantsAssumption`:

- `TypeCorrect`: `Spec => []TypeOK`.
- `LockExclusion`: `Spec => []MutualExclusion`.

`TypeOK` is not inductive by itself: a worker in a locked `pc` must have a row
in `cur`. The inductive invariant is `IInv == TypeOK /\ CurInv`. The proof goes
in three steps:

1. Lemma `InitIInv` shows that the initial states satisfy `IInv`.
2. Lemma `NextIInv` shows that every step preserves `IInv`. It has one case
   per action. The event and metric appends use `AppendProperties`, and
   `LatestAnchorType` bounds the anchor index.
3. `MutualExclusion` is preserved given `IInv`:
   - only `Supervise` makes a worker busy, and only when the lock was free;
   - `Unlock` clears only a lock the worker holds;
   - `ForceUnlock` clears only a lock whose holder is not busy on that row;
   - `Crash` makes the worker not busy.

`ClusterInstallationRefinementProofs.tla` proves `Refinement`: assuming
`~EditsIgnoreLock`, `Spec => LifecycleRefinement`, for any number of workers
and rows. The inductive invariant `RInv` strengthens `IInv /\
MutualExclusion` with five conjuncts:

- `GuardInv`: while a worker runs the handler and the update, its row still
  has the state the first re-fetch saw. Only the lock holder writes a locked
  row, and the create handler's write-back stores that same state.
- `DeleteInv`: a worker between the two steps of the delete handler works
  on a deletion-requested row.
- `ResultInv`: a handler returns its input state or a move of the table.
  `FailedStateInTable` gives this for `failedClusterInstallationState`.
- `DeletedInv`: a handler returns deleted only after deleting the record.
- `RowDeletedInv`: a row reads deleted only once its record is gone.

The proof has three parts:

- `InitRefines`: the initial states map to lifecycle initial states.
- `NextRInv`: every step preserves `RInv`.
- `RefinementStep`: one case per action, showing that each step is a
  lifecycle step or a stutter.
  - `Supervise` is `Acquire`.
  - The record delete of `deleteClusterInstallationResources` is `Delete`,
    or a stutter when the record was already deleted by a run whose update
    failed. The row is deletion-requested there by `GuardInv` and
    `DeleteInv`.
  - A committed update is `Advance`. It is a table move by `GuardInv` and
    `ResultInv`, and allowed to reach deleted by `DeletedInv`.
  - `Unlock` and `ForceUnlock` are `Release`.
  - The requests are `Request`; a backup start or finish is a stutter.

The stale_overwrite run shows that the assumption `~EditsIgnoreLock` is
needed.

Two more action properties are proved from the same invariants:

- `NoIllegalJump` (in `ClusterInstallationRefinementProofs`): assuming
  `~EditsIgnoreLock`, `Spec => ValidTransitions`. It follows from the
  refinement. `RefinementStep` maps each step to a lifecycle step, and lemma
  `LifecycleStateChange` shows that a lifecycle step changes a state only
  along the table or a request.
- `StaleWriteNeedsUnlockedEdit` (in the same module): assuming
  `~EditsIgnoreLock`, `Spec => StaleWriteDiscarded`, which follows from
  `GuardInv`. The divergence of the stale_guard run therefore needs an edit
  that bypasses the row lock. The code's second re-fetch compares the row
  only with the handler's result, and that compare is harmless while every
  writer takes the lock.

`ClusterInstallationMetricProofs.tla` proves `MetricsMeasureTransition`:
assuming `~EditsIgnoreLock`, `Spec => MetricMatchesTransition`.
`processClusterInstallationMetrics` picks the histogram from the anchor event
(the newest event of the row into reconciling or deletion-requested), not
from the new state. So the proof must relate the event log to the row's
state, and Record may lose events. The inductive invariant
`MInv == RInv /\ RecordInv /\ NoAnchorBeforeStart /\ AnchorInv` does this:

- `RecordInv`: between the update and Record, the row still holds the
  handler's result, because the worker holds the lock.
- `NoAnchorBeforeStart`: a row in creation-requested or creation-failed has
  no anchor. The only event that can be lost before a row's first anchor is
  its entry into reconciling, and then the row has no anchor at all.
- `AnchorInv`: the newest anchor of a row carries the row's current entry
  count, and its new state is `StartOf` the row's state. Stable descends
  from reconciling, and deleted and deletion-failed descend from
  deletion-requested.

The step lemmas are as follows:

- `NextAnchorInv` covers the update, which is a table move by `GuardInv`
  and `ResultInv`.
- `AppendKeepsAnchors` covers Record and the requests. Both append an event
  that names the row's new state.
- `LatestAfterAppend` and `LatestAnchorIsLatest` are lemmas about the
  anchor search.

TLC checked `MInv` as an invariant of the supervisor_safety configuration
with one row before it was proved.

`CloudflareDNSProofs.tla` proves `DNSTypeCorrect` for every zone list and
fault bound: the loop index stays within `1 .. Len(ZoneList)+1` and every
variable keeps its type. `TypeOK` is inductive as it stands. No run checks
`TypeOK` of the DNS model: the loop is a `range` loop, and no plausible
change of the code breaks the index bound, so TLC would show nothing the
proof does not.

### What stays with TLC

- Liveness: `Convergence` and `DeleteRetryConverges`.
- The violations (`CreatedEverywhere`, `DeletedEverywhere`,
  `CreateRetryConverges`, `TransientErrorsKeepState`,
  `DeletionRespectsBackups`, and `ValidTransitions`
  and `StaleWriteDiscarded` with `EditsIgnoreLock = TRUE`). These are
  counterexamples, not theorems.

The prover does not reach liveness and `ENABLED`, and it cannot do induction
over data.

## Plan for the next sittings

1. A composition of the supervisor with the DNS client, through the
   installation's deletion.
