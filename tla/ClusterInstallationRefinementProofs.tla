------------- MODULE ClusterInstallationRefinementProofs -------------
(***************************************************************************)
(* The supervisor implements the per-row lifecycle of                      *)
(* ClusterInstallationLifecycle under the refinement mapping of            *)
(* ClusterInstallationSupervisor!Lifecycle, for every set of workers and   *)
(* rows, provided the API's edits respect the row lock.                    *)
(***************************************************************************)
EXTENDS ClusterInstallationSupervisorProofs

(***************************************************************************)
(* While a worker runs the handler and the update, its row still has the  *)
(* state the first re-fetch saw: nobody else writes a locked row.         *)
(***************************************************************************)
GuardInv ==
    \A w \in Workers :
        pc[w] \in {"transition", "delete", "persist"}
            => ciState[cur[w]] = origState[w]

(* Only the delete handler leaves a worker between the two deletes. *)
DeleteInv ==
    \A w \in Workers : pc[w] = "delete" => origState[w] = DeletionRequested

(* The handler's result is its input state or a move of the state table. *)
ResultInv ==
    \A w \in Workers :
        pc[w] = "persist" =>
            \/ newState[w] = origState[w]
            \/ <<origState[w], newState[w]>> \in TableTransitions

(* A handler returns deleted only after it has deleted the row's record. *)
DeletedInv ==
    \A w \in Workers :
        pc[w] = "persist" /\ newState[w] = Deleted => ciDeleted[cur[w]]

(* A row reads deleted only once its record is gone. *)
RowDeletedInv == \A c \in CIs : ciState[c] = Deleted => ciDeleted[c]

RInv == /\ IInv /\ MutualExclusion /\ GuardInv /\ DeleteInv /\ ResultInv
        /\ DeletedInv /\ RowDeletedInv

LEMMA InitRInv == Init => RInv
  BY InitIInv DEF Init, RInv, MutualExclusion, Busy, LockedPCs, GuardInv,
                  DeleteInv, ResultInv, DeletedInv, RowDeletedInv, CreationRequested,
                  Deleted

(***************************************************************************)
(* Two workers busy on the same row are the same worker, and a busy        *)
(* worker's row is locked.                                                 *)
(***************************************************************************)
LEMMA BusyUnique ==
  ASSUME MutualExclusion, NEW v \in Workers, NEW w \in Workers,
         NEW c \in CIs, Busy(v, c), Busy(w, c)
  PROVE  v = w
  BY DEF MutualExclusion

LEMMA BusyLocked ==
  ASSUME MutualExclusion, NEW w \in Workers, NEW c \in CIs, Busy(w, c)
  PROVE  lockedBy[c] # NULL
  BY ConstantsAssumption DEF MutualExclusion

(***************************************************************************)
(* The handler's input is the row's state: only the lock holder writes a   *)
(* locked row, and the API's edits wait for the lock.                      *)
(***************************************************************************)
LEMMA NextGuardInv ==
    ~EditsIgnoreLock /\ RInv /\ [Next]_vars => GuardInv'
  <1> SUFFICES ASSUME ~EditsIgnoreLock, RInv, [Next]_vars,
                      NEW v \in Workers,
                      pc'[v] \in {"transition", "delete", "persist"}
               PROVE  ciState'[cur'[v]] = origState'[v]
    BY DEF GuardInv
  <1> USE DEF RInv, IInv, TypeOK, CurInv, storeVars, workerVars
  <1>0. pc[v] \in {"transition", "delete", "persist"} => Busy(v, cur[v])
    BY DEF Busy, LockedPCs
  <1>1. CASE UNCHANGED <<ciState, pc, cur, origState>>
    BY <1>1 DEF GuardInv
  <1>2. ASSUME NEW w \in Workers, Do(w) \/ DoDone(w) \/ Record(w) \/ Crash(w)
        PROVE  ciState'[cur'[v]] = origState'[v]
    BY <1>2 DEF Do, DoDone, Record, Crash, ForgetLocals, GuardInv
  <1>3. ASSUME NEW w \in Workers, Supervise(w)
        PROVE  ciState'[cur'[v]] = origState'[v]
    BY <1>3 DEF Supervise, GuardInv
  <1>4. ASSUME NEW w \in Workers, Refresh(w)
        PROVE  ciState'[cur'[v]] = origState'[v]
    BY <1>4 DEF Refresh, GuardInv
  <1>5. ASSUME NEW w \in Workers, Transition(w)
        PROVE  ciState'[cur'[v]] = origState'[v]
    <2>1. /\ pc[w] = "transition" /\ pc'[w] \in {"delete", "persist"}
          /\ UNCHANGED <<cur, origState>>
          /\ pc' = [pc EXCEPT ![w] = pc'[w]]
          /\ \/ UNCHANGED ciState
             \/ ciState' = [ciState EXCEPT ![cur[w]] = origState[w]]
      BY <1>5 DEF Transition, LookupFailed, createClusterInstallation,
                  deleteClusterInstallation,
                  checkReconcilingClusterInstallation, SetResult
    <2>2. CASE v = w
      BY <2>1, <2>2 DEF GuardInv
    <2>3. CASE v # w
      <3>1. pc[v] \in {"transition", "delete", "persist"}
        BY <2>1, <2>3
      <3>2. cur[v] # cur[w]
        BY <1>0, <2>1, <2>3, <3>1, BusyUnique DEF Busy, LockedPCs
      <3>3. QED
        BY <2>1, <3>1, <3>2 DEF GuardInv
    <2>4. QED
      BY <2>2, <2>3
  <1>6. ASSUME NEW w \in Workers, Persist(w)
        PROVE  ciState'[cur'[v]] = origState'[v]
    <2>1. v # w
      BY <1>6 DEF Persist
    <2>2. pc[v] \in {"transition", "delete", "persist"}
      BY <1>6, <2>1 DEF Persist
    <2>3. cur[v] # cur[w]
      BY <1>0, <1>6, <2>1, <2>2, BusyUnique DEF Persist, Busy, LockedPCs
    <2>4. QED
      BY <1>6, <2>1, <2>2, <2>3 DEF Persist, GuardInv, LockedPCs
  <1>7. ASSUME NEW w \in Workers, Unlock(w)
        PROVE  ciState'[cur'[v]] = origState'[v]
    BY <1>7 DEF Unlock, ForgetLocals, GuardInv
  <1>8. ASSUME NEW c \in CIs, RequestDeletion(c) \/ RequestUpdate(c)
        PROVE  ciState'[cur'[v]] = origState'[v]
    <2>1. lockedBy[c] = NULL /\ UNCHANGED <<pc, cur, origState>>
      BY <1>8 DEF RequestDeletion, RequestUpdate, EditAllowed, EditState
    <2>2. pc[v] \in {"transition", "delete", "persist"}
      BY <2>1
    <2>3. cur[v] # c
      BY <1>0, <2>1, <2>2, BusyLocked
    <2>4. QED
      BY <1>8, <2>1, <2>2, <2>3 DEF RequestDeletion, RequestUpdate,
                                    EditState, GuardInv, LockedPCs
  <1>9. ASSUME NEW c \in CIs,
               ForceUnlock(c) \/ StartBackup(c) \/ FinishBackup(c)
        PROVE  ciState'[cur'[v]] = origState'[v]
    BY <1>9, <1>1 DEF ForceUnlock, StartBackup, FinishBackup
  \* The deletes leave the row's state alone.
  <1>10. ASSUME NEW w \in Workers, deleteClusterInstallationResources(w)
         PROVE  ciState'[cur'[v]] = origState'[v]
    <2>1. /\ pc[w] = "delete" /\ pc' = [pc EXCEPT ![w] = "persist"]
          /\ UNCHANGED <<ciState, cur, origState>>
      BY <1>10 DEF deleteClusterInstallationResources, SetResult
    <2> QED
      BY <2>1 DEF GuardInv
  <1>11. QED
    BY <1>1, <1>2, <1>3, <1>4, <1>5, <1>6, <1>7, <1>8, <1>9, <1>10
       DEF Next, Worker, Environment, Settled, vars

(***************************************************************************)
(* Every handler returns its input state or a move of the state table;     *)
(* failedClusterInstallationState maps the two request states to their    *)
(* failure states and leaves the others alone.                             *)
(***************************************************************************)
LEMMA FailedStateInTable ==
  ASSUME NEW s \in CIStates
  PROVE  \/ failedClusterInstallationState(s) = s
         \/ <<s, failedClusterInstallationState(s)>> \in TableTransitions
  BY DEF failedClusterInstallationState, TableTransitions, CIStates,
         CreationRequested, CreationFailed, DeletionRequested, DeletionFailed,
         Reconciling, Stable, Deleted

LEMMA NextResultInv ==
    RInv /\ [Next]_vars => ResultInv'
  <1> SUFFICES ASSUME RInv, [Next]_vars,
                      NEW v \in Workers, pc'[v] = "persist"
               PROVE  \/ newState'[v] = origState'[v]
                      \/ <<origState'[v], newState'[v]>> \in TableTransitions
    BY DEF ResultInv
  <1> USE DEF RInv, IInv, TypeOK, CurInv, storeVars, workerVars
  \* v keeps its program counter and its locals.
  <1>1. CASE UNCHANGED <<pc[v], newState[v], origState[v]>>
    BY <1>1 DEF ResultInv
  <1>2. ASSUME NEW w \in Workers, Transition(w), w = v
        PROVE  \/ newState'[v] = origState'[v]
               \/ <<origState'[v], newState'[v]>> \in TableTransitions
    <2>1. CASE LookupFailed(w)
      BY <1>2, <2>1, FailedStateInTable DEF LookupFailed, SetResult
    <2>2. CASE createClusterInstallation(w)
      BY <1>2, <2>2 DEF createClusterInstallation, SetResult, TableTransitions
    <2>3. CASE deleteClusterInstallation(w)
      BY <1>2, <2>3 DEF deleteClusterInstallation, SetResult, TableTransitions
    <2>4. CASE checkReconcilingClusterInstallation(w)
      BY <1>2, <2>4 DEF checkReconcilingClusterInstallation, SetResult,
                        TableTransitions
    <2>5. QED
      BY <1>2, <2>1, <2>2, <2>3, <2>4 DEF Transition
  <1>3. ASSUME NEW w \in Workers, Transition(w), w # v
        PROVE  UNCHANGED <<pc[v], newState[v], origState[v]>>
    BY <1>3 DEF Transition, LookupFailed, createClusterInstallation,
                deleteClusterInstallation,
                checkReconcilingClusterInstallation, SetResult
  <1>4. ASSUME NEW w \in Workers,
               \/ Do(w) \/ DoDone(w) \/ Supervise(w) \/ Refresh(w)
               \/ Persist(w) \/ Record(w) \/ Unlock(w) \/ Crash(w)
        PROVE  UNCHANGED <<pc[v], newState[v], origState[v]>>
    BY <1>4 DEF Do, DoDone, Supervise, Refresh, Persist, Record, Unlock,
                Crash, ForgetLocals
  <1>5. ASSUME NEW c \in CIs, Environment(c)
        PROVE  UNCHANGED <<pc[v], newState[v], origState[v]>>
    BY <1>5 DEF Environment, ForceUnlock, RequestDeletion, RequestUpdate,
                EditState, StartBackup, FinishBackup
  \* The deletes start from deletion-requested and return one of its moves.
  <1>6. ASSUME NEW w \in Workers, deleteClusterInstallationResources(w), w = v
        PROVE  <<origState'[v], newState'[v]>> \in TableTransitions
    <2>1. origState[w] = DeletionRequested
      BY <1>6 DEF deleteClusterInstallationResources, DeleteInv
    <2> QED
      BY <1>6, <2>1 DEF deleteClusterInstallationResources, SetResult,
                        TableTransitions
  <1>7. ASSUME NEW w \in Workers, deleteClusterInstallationResources(w), w # v
        PROVE  UNCHANGED <<pc[v], newState[v], origState[v]>>
    BY <1>7 DEF deleteClusterInstallationResources, SetResult
  <1>8. QED
    BY <1>1, <1>2, <1>3, <1>4, <1>5, <1>6, <1>7 DEF Next, Worker, Settled, vars

(***************************************************************************)
(* A handler returns deleted only after deleting the record, so the row   *)
(* reads deleted only once its record is gone.                             *)
(***************************************************************************)
LEMMA NextDeletedInv ==
    RInv /\ [Next]_vars => DeletedInv' /\ RowDeletedInv'
  <1> SUFFICES ASSUME RInv, [Next]_vars PROVE DeletedInv' /\ RowDeletedInv'
    OBVIOUS
  <1> USE DEF RInv, IInv, TypeOK, CurInv, storeVars, workerVars
  <1>0. \A c \in CIs : ciDeleted[c] => ciDeleted'[c]
    BY DEF Next, Worker, Environment, Settled, vars, Do, DoDone, Supervise,
           Refresh, Transition, LookupFailed, createClusterInstallation,
           deleteClusterInstallation, checkReconcilingClusterInstallation,
           SetResult, Persist, Record, Unlock, Crash, ForgetLocals,
           ForceUnlock, RequestDeletion, RequestUpdate, EditState,
           StartBackup, FinishBackup, deleteClusterInstallationResources
  <1>1. DeletedInv'
    <2> SUFFICES ASSUME NEW v \in Workers, pc'[v] = "persist",
                        newState'[v] = Deleted
                 PROVE  ciDeleted'[cur'[v]]
      BY DEF DeletedInv
    <2>1. CASE UNCHANGED <<pc[v], newState[v], cur[v]>>
      BY <1>0, <2>1 DEF DeletedInv, LockedPCs
    <2>2. ASSUME NEW w \in Workers, Transition(w), w = v
          PROVE  ciDeleted'[cur'[v]]
      <3>1. CASE LookupFailed(w)
        \* only a row already deleted can come back as deleted
        <4>1. origState[w] = Deleted
          <5>1. newState'[w] = origState[w]
                \/ newState'[w] = failedClusterInstallationState(origState[w])
            BY <2>2, <3>1 DEF LookupFailed, SetResult
          <5> QED
            BY <2>2, <5>1 DEF failedClusterInstallationState, Deleted,
                              CreationRequested, CreationFailed,
                              DeletionRequested, DeletionFailed
        <4>2. ciState[cur[w]] = Deleted
          <5>1. pc[w] = "transition"
            BY <3>1 DEF LookupFailed
          <5>2. GuardInv
            OBVIOUS
          <5> QED
            BY <2>2, <4>1, <5>1, <5>2, Zenon DEF GuardInv
        <4>3. UNCHANGED <<ciDeleted, cur>>
          BY <3>1 DEF LookupFailed
        <4>4. cur[w] \in CIs
          BY <2>2, <3>1 DEF LookupFailed, LockedPCs
        <4>5. QED
          BY <2>2, <4>2, <4>3, <4>4 DEF RowDeletedInv
      <3>2. CASE createClusterInstallation(w)
        \* the create handler never returns deleted
        BY <2>2, <3>2 DEF createClusterInstallation, SetResult, Deleted,
                          CreationRequested, CreationFailed, Reconciling
      <3>3. CASE checkReconcilingClusterInstallation(w)
        BY <2>2, <3>3 DEF checkReconcilingClusterInstallation, SetResult,
                          Deleted, Reconciling, Stable
      <3>4. CASE deleteClusterInstallation(w)
        BY <2>2, <3>4 DEF deleteClusterInstallation, SetResult, Deleted,
                          DeletionRequested, DeletionFailed, LockedPCs
      <3>5. QED
        BY <2>2, <3>1, <3>2, <3>3, <3>4 DEF Transition
    <2>3. ASSUME NEW w \in Workers, Transition(w), w # v
          PROVE  UNCHANGED <<pc[v], newState[v], cur[v]>>
      BY <2>3 DEF Transition, LookupFailed, createClusterInstallation,
                  deleteClusterInstallation,
                  checkReconcilingClusterInstallation, SetResult
    <2>4. ASSUME NEW w \in Workers,
                 \/ Do(w) \/ DoDone(w) \/ Supervise(w) \/ Refresh(w)
                 \/ Persist(w) \/ Record(w) \/ Unlock(w) \/ Crash(w)
          PROVE  UNCHANGED <<pc[v], newState[v], cur[v]>>
      BY <2>4 DEF Do, DoDone, Supervise, Refresh, Persist, Record, Unlock,
                  Crash, ForgetLocals
    <2>5. ASSUME NEW c \in CIs, Environment(c)
          PROVE  UNCHANGED <<pc[v], newState[v], cur[v]>>
      BY <2>5 DEF Environment, ForceUnlock, RequestDeletion, RequestUpdate,
                  EditState, StartBackup, FinishBackup
    \* deleted is returned only with the row's record deleted
    <2>6. ASSUME NEW w \in Workers, deleteClusterInstallationResources(w)
          PROVE  ciDeleted'[cur'[v]]
      <3>1. CASE w = v
        BY <2>6, <3>1 DEF deleteClusterInstallationResources, SetResult,
                          Deleted, DeletionFailed, LockedPCs
      <3>2. CASE w # v
        BY <1>0, <2>6, <3>2 DEF deleteClusterInstallationResources, SetResult,
                                DeletedInv, LockedPCs
      <3> QED BY <3>1, <3>2
    <2>7. QED
      BY <2>1, <2>2, <2>3, <2>4, <2>5, <2>6 DEF Next, Worker, Settled, vars
  <1>2. RowDeletedInv'
    <2> SUFFICES ASSUME NEW c \in CIs, ciState'[c] = Deleted
                 PROVE  ciDeleted'[c]
      BY DEF RowDeletedInv
    <2>1. CASE ciState'[c] = ciState[c]
      BY <1>0, <2>1 DEF RowDeletedInv
    <2>2. ASSUME NEW w \in Workers, Persist(w) PROVE ciDeleted'[c]
      BY <2>2, <1>0 DEF Persist, DeletedInv, RowDeletedInv, LockedPCs
    <2>3. ASSUME NEW w \in Workers, Transition(w) PROVE ciDeleted'[c]
      \* the create handler writes back creation-requested
      BY <2>3, <1>0 DEF Transition, LookupFailed, createClusterInstallation,
                        deleteClusterInstallation,
                        checkReconcilingClusterInstallation, SetResult,
                        RowDeletedInv, LockedPCs, CreationRequested, Deleted
    <2>4. ASSUME NEW d \in CIs, RequestDeletion(d) \/ RequestUpdate(d)
          PROVE  ciDeleted'[c]
      BY <2>4, <1>0 DEF RequestDeletion, RequestUpdate, EditState,
                        RowDeletedInv, DeletionRequested, Reconciling,
                        Deleted
    <2>5. QED
      BY <2>1, <2>2, <2>3, <2>4
         DEF Next, Worker, Environment, Settled, vars, Do, DoDone,
             Supervise, Refresh, Record, Unlock, Crash, ForceUnlock,
             StartBackup, FinishBackup, deleteClusterInstallationResources
  <1>3. QED
    BY <1>1, <1>2
(* Only the delete handler's check of the backups moves a worker to the    *)
(* deletes, and it runs on deletion-requested.                             *)
LEMMA NextDeleteInv ==
    RInv /\ [Next]_vars => DeleteInv'
  <1> SUFFICES ASSUME RInv, [Next]_vars,
                      NEW v \in Workers, pc'[v] = "delete"
               PROVE  origState'[v] = DeletionRequested
    BY DEF DeleteInv
  <1> USE DEF RInv, IInv, TypeOK, storeVars, workerVars
  <1>1. CASE UNCHANGED <<pc[v], origState[v]>>
    BY <1>1 DEF DeleteInv
  <1>2. ASSUME NEW w \in Workers, Transition(w)
        PROVE  origState'[v] = DeletionRequested
    <2>1. CASE w = v
      BY <1>2, <2>1 DEF Transition, LookupFailed, createClusterInstallation,
                        deleteClusterInstallation,
                        checkReconcilingClusterInstallation, SetResult
    <2>2. CASE w # v
      BY <1>1, <1>2, <2>2 DEF Transition, LookupFailed,
                              createClusterInstallation,
                              deleteClusterInstallation,
                              checkReconcilingClusterInstallation, SetResult
    <2> QED BY <2>1, <2>2
  <1>3. ASSUME NEW w \in Workers,
               \/ Do(w) \/ DoDone(w) \/ Supervise(w) \/ Refresh(w)
               \/ deleteClusterInstallationResources(w)
               \/ Persist(w) \/ Record(w) \/ Unlock(w) \/ Crash(w)
        PROVE  origState'[v] = DeletionRequested
    BY <1>1, <1>3 DEF Do, DoDone, Supervise, Refresh,
                      deleteClusterInstallationResources, SetResult, Persist,
                      Record, Unlock, Crash, ForgetLocals
  <1>4. ASSUME NEW c \in CIs, Environment(c)
        PROVE  origState'[v] = DeletionRequested
    BY <1>1, <1>4 DEF Environment, ForceUnlock, RequestDeletion,
                      RequestUpdate, EditState, StartBackup, FinishBackup
  <1>5. QED
    BY <1>1, <1>2, <1>3, <1>4 DEF Next, Worker, Settled, vars

(***************************************************************************)
(* RInv is inductive when the API's edits wait for the row lock.           *)
(***************************************************************************)
LEMMA NextRInv == ~EditsIgnoreLock /\ RInv /\ [Next]_vars => RInv'
  BY NextIInv, NextMutualExclusion, NextGuardInv, NextDeleteInv,
     NextResultInv, NextDeletedInv DEF RInv

(* The states of the supervisor are those of the lifecycle, and so are its *)
(* table and its requests.                                                 *)
LEMMA SameStates ==
    /\ CIStates = Lifecycle!States
    /\ TableTransitions = Lifecycle!Table
    /\ RequestTransitions = Lifecycle!Requests
  BY DEF CIStates, Lifecycle!States, TableTransitions, Lifecycle!Table,
         RequestTransitions, Lifecycle!Requests, CreationRequested,
         Reconciling, Stable, CreationFailed, DeletionRequested, Deleted,
         DeletionFailed

(***************************************************************************)
(* Every step of the supervisor is a step of the lifecycle or leaves the   *)
(* row's state, record and lease alone.                            *)
(***************************************************************************)
LEMMA RefinementStep ==
    ~EditsIgnoreLock /\ RInv /\ [Next]_vars
        => [Lifecycle!Next]_Lifecycle!vars
  <1> SUFFICES ASSUME ~EditsIgnoreLock, RInv, [Next]_vars
               PROVE  [Lifecycle!Next]_Lifecycle!vars
    OBVIOUS
  <1> USE DEF RInv, IInv, TypeOK, CurInv, storeVars, workerVars
  <1> DEFINE LNext == Lifecycle!Next
             Same  == UNCHANGED <<ciState, ciDeleted, lockedBy>>
  <1>0. Same => [LNext]_Lifecycle!vars
    BY DEF Lifecycle!vars
  \* Lock taken by TryLock: the lease is acquired.
  <1>1. ASSUME NEW w \in Workers, Supervise(w) PROVE [LNext]_Lifecycle!vars
    <2>1. PICK it \in queue[w] :
                /\ \/ /\ lockedBy[it.ci] = NULL
                      /\ lockedBy' = [lockedBy EXCEPT ![it.ci] = w]
                   \/ UNCHANGED lockedBy
                /\ UNCHANGED <<ciState, ciDeleted>>
      BY <1>1 DEF Supervise
    <2>2. it.ci \in CIs
      BY <1>1, <2>1 DEF Supervise
    <2>3. CASE lockedBy[it.ci] = NULL
                /\ lockedBy' = [lockedBy EXCEPT ![it.ci] = w]
      <3>1. Lifecycle!Acquire(it.ci, w)
        BY <2>1, <2>3 DEF Lifecycle!Acquire
      <3> QED BY <2>2, <3>1 DEF Lifecycle!Next
    <2> QED BY <2>1, <2>3, <1>0
  <1>2. ASSUME NEW w \in Workers, Transition(w) PROVE [LNext]_Lifecycle!vars
    <2>1. CASE deleteClusterInstallation(w)
      BY <2>1, <1>0 DEF deleteClusterInstallation
    <2>2. CASE createClusterInstallation(w)
      \* the write-back stores the state the row already has
      <3>1. cur[w] \in CIs /\ ciState[cur[w]] = origState[w]
        BY <2>2 DEF createClusterInstallation, LockedPCs, GuardInv
      <3>2. ciState' = ciState
        BY <2>2, <3>1 DEF createClusterInstallation, SetResult
      <3> QED BY <2>2, <3>2, <1>0 DEF createClusterInstallation
    <2>3. CASE LookupFailed(w) \/ checkReconcilingClusterInstallation(w)
      BY <2>3, <1>0 DEF LookupFailed, checkReconcilingClusterInstallation
    <2> QED BY <1>2, <2>1, <2>2, <2>3 DEF Transition
  \* The update after the second re-fetch advances the row along the table.
  <1>3. ASSUME NEW w \in Workers, Persist(w) PROVE [LNext]_Lifecycle!vars
    <2> DEFINE c == cur[w]
    <2>1. c \in CIs /\ Busy(w, c) /\ pc[w] = "persist"
      BY <1>3 DEF Persist, LockedPCs, Busy
    <2>2. CASE ciState' = ciState
      BY <1>3, <2>2, <1>0 DEF Persist
    <2>3. CASE ciState' # ciState
      <3>1. /\ ciState[c] # newState[w]
            /\ ciState' = [ciState EXCEPT ![c] = newState[w]]
            /\ UNCHANGED <<ciDeleted, backups, lockedBy>>
        BY <1>3, <2>3 DEF Persist
      <3>2. lockedBy[c] # NULL
        BY <2>1, BusyLocked
      <3>3. <<ciState[c], newState[w]>> \in Lifecycle!Table
        BY <2>1, <3>1, SameStates DEF GuardInv, ResultInv
      <3>4. newState[w] = "deleted" => ciDeleted[c]
        BY <2>1 DEF DeletedInv, Deleted
      <3>5. newState[w] \in Lifecycle!States
        BY SameStates
      <3>6. Lifecycle!Advance(c, newState[w])
        BY <3>1, <3>2, <3>3, <3>4 DEF Lifecycle!Advance
      <3> QED BY <2>1, <3>5, <3>6 DEF Lifecycle!Next
    <2> QED BY <2>2, <2>3
  \* The deferred unlock releases the lease when the worker holds it.
  <1>4. ASSUME NEW w \in Workers, Unlock(w) PROVE [LNext]_Lifecycle!vars
    <2> DEFINE c == cur[w]
    <2>1. c \in CIs
      BY <1>4 DEF Unlock, LockedPCs
    <2>2. CASE lockedBy[c] = w /\ lockedBy' = [lockedBy EXCEPT ![c] = NULL]
      <3>1. w # NULL
        BY ConstantsAssumption
      <3>2. Lifecycle!Release(c)
        BY <1>4, <2>2, <3>1 DEF Unlock, Lifecycle!Release
      <3> QED BY <2>1, <3>2 DEF Lifecycle!Next
    <2>3. CASE ~(lockedBy[c] = w /\ lockedBy' = [lockedBy EXCEPT ![c] = NULL])
      <3>1. lockedBy' = lockedBy
        BY <1>4, <2>1, <2>3 DEF Unlock
      <3> QED BY <1>4, <3>1, <1>0 DEF Unlock
    <2> QED BY <2>2, <2>3
  <1>5. ASSUME NEW w \in Workers,
               \/ Do(w) \/ DoDone(w) \/ Refresh(w) \/ Record(w) \/ Crash(w)
        PROVE  [LNext]_Lifecycle!vars
    BY <1>5, <1>0 DEF Do, DoDone, Refresh, Record, Crash, ForgetLocals
  \* The administrator's force-unlock releases the lease.
  <1>6. ASSUME NEW c \in CIs, ForceUnlock(c) PROVE [LNext]_Lifecycle!vars
    <2>1. Lifecycle!Release(c)
      BY <1>6 DEF ForceUnlock, Lifecycle!Release
    <2> QED BY <2>1 DEF Lifecycle!Next
  \* The lock-respecting requests act on an unleased, undeleted row.
  <1>7. ASSUME NEW c \in CIs, RequestDeletion(c) \/ RequestUpdate(c)
        PROVE  [LNext]_Lifecycle!vars
    <2>1. lockedBy[c] = NULL /\ ~ciDeleted[c]
      BY <1>7 DEF RequestDeletion, RequestUpdate, EditAllowed
    <2>2. PICK s \in CIStates :
                /\ <<ciState[c], s>> \in RequestTransitions
                /\ ciState' = [ciState EXCEPT ![c] = s]
                /\ UNCHANGED <<ciDeleted, backups, lockedBy>>
      BY <1>7 DEF RequestDeletion, RequestUpdate, EditState,
                  RequestTransitions, CIStates, DeletionRequested, Deleted,
                  Stable, Reconciling
    <2>3. Lifecycle!Request(c, s)
      BY <2>1, <2>2, SameStates DEF Lifecycle!Request
    <2> QED BY <2>2, <2>3, SameStates DEF Lifecycle!Next
  \* A backup is a record of its own.
  <1>8. ASSUME NEW c \in CIs, StartBackup(c) \/ FinishBackup(c)
        PROVE  [LNext]_Lifecycle!vars
    BY <1>8, <1>0 DEF StartBackup, FinishBackup
  \* The deletes delete the record of a deletion-requested row under its
  \* lease; a second delete of a deleted record changes nothing.
  <1>9. ASSUME NEW w \in Workers, deleteClusterInstallationResources(w)
        PROVE  [LNext]_Lifecycle!vars
    <2> DEFINE c == cur[w]
    <2>1. c \in CIs /\ Busy(w, c) /\ pc[w] = "delete"
      BY <1>9 DEF deleteClusterInstallationResources, LockedPCs, Busy
    <2>2. CASE ciDeleted' = ciDeleted
      BY <1>9, <2>2, <1>0 DEF deleteClusterInstallationResources
    <2>3. CASE ciDeleted' # ciDeleted
      <3>0. ciDeleted' = [ciDeleted EXCEPT ![c] = TRUE]
        BY <1>9, <2>3 DEF deleteClusterInstallationResources
      <3>1. ciDeleted' = [ciDeleted EXCEPT ![c] = TRUE] /\ ~ciDeleted[c]
        BY <2>1, <2>3, <3>0
      <3>2. ciState[c] = DeletionRequested
        BY <2>1 DEF GuardInv, DeleteInv
      <3>3. lockedBy[c] # NULL
        BY <2>1, BusyLocked
      <3>4. Lifecycle!Delete(c)
        BY <1>9, <3>1, <3>2, <3>3
           DEF Lifecycle!Delete, deleteClusterInstallationResources,
               DeletionRequested
      <3> QED BY <2>1, <3>4 DEF Lifecycle!Next
    <2> QED BY <2>2, <2>3
  <1>10. CASE UNCHANGED vars \/ (Settled /\ UNCHANGED vars)
    BY <1>10, <1>0 DEF vars
  <1>11. QED
    BY <1>1, <1>2, <1>3, <1>4, <1>5, <1>6, <1>7, <1>8, <1>9, <1>10
       DEF Next, Worker, Environment
(* The supervisor's initial states are initial states of the lifecycle. *)
LEMMA InitRefines == Init => Lifecycle!Init
  BY DEF Init, Lifecycle!Init, CreationRequested

(***************************************************************************)
(* LifecycleRefinement for every set of workers and rows: when the API's   *)
(* edits wait for the row lock, Supervise moves a row only along the state *)
(* table and only under its lease, deletes a record only under its lease   *)
(* and from deletion-requested, and shows deleted only once the record is *)
(* gone.  The argument is the inductive invariant RInv: the first          *)
(* re-fetch's guard stays true while the lock is held (GuardInv), the     *)
(* deletes run only for deletion-requested (DeleteInv), the handlers      *)
(* return table moves (ResultInv), and deleted is returned only after the *)
(* delete (DeletedInv, RowDeletedInv).                                     *)
(***************************************************************************)
THEOREM Refinement ==
    ASSUME ~EditsIgnoreLock
    PROVE  Spec => LifecycleRefinement
  <1>1. Init => RInv /\ Lifecycle!Init
    BY InitRInv, InitRefines
  <1>2. RInv /\ [Next]_vars => RInv' /\ [Lifecycle!Next]_Lifecycle!vars
    BY NextRInv, RefinementStep
  <1> QED
    BY <1>1, <1>2, PTL DEF Spec, LifecycleRefinement, Lifecycle!Spec

(***************************************************************************)
(* A lifecycle step changes a row's state only by a move of the table or a *)
(* request.                                                                *)
(***************************************************************************)
LEMMA LifecycleStateChange ==
    ASSUME ciState \in [CIs -> CIStates],
           [Lifecycle!Next]_Lifecycle!vars
    PROVE  \A c \in CIs :
              ciState'[c] # ciState[c] =>
                 <<ciState[c], ciState'[c]>> \in TableTransitions \cup RequestTransitions
  <1> SUFFICES ASSUME NEW c \in CIs, ciState'[c] # ciState[c]
               PROVE  <<ciState[c], ciState'[c]>> \in TableTransitions \cup RequestTransitions
    OBVIOUS
  <1>1. CASE UNCHANGED Lifecycle!vars
    BY <1>1 DEF Lifecycle!vars
  <1>2. ASSUME NEW d \in CIs, NEW s \in Lifecycle!States,
               Lifecycle!Advance(d, s) \/ Lifecycle!Request(d, s)
        PROVE  <<ciState[c], ciState'[c]>> \in TableTransitions \cup RequestTransitions
    <2>1. c = d
      BY <1>2 DEF Lifecycle!Advance, Lifecycle!Request
    <2> QED
      BY <1>2, <2>1, SameStates DEF Lifecycle!Advance, Lifecycle!Request
  <1>3. ASSUME NEW d \in CIs,
               \/ \E w \in Workers : Lifecycle!Acquire(d, w)
               \/ Lifecycle!Release(d) \/ Lifecycle!Delete(d)
        PROVE  ciState' = ciState
    BY <1>3 DEF Lifecycle!Acquire, Lifecycle!Release, Lifecycle!Delete
  <1>4. QED
    BY <1>1, <1>2, <1>3 DEF Lifecycle!Next

(***************************************************************************)
(* ValidTransitions (spec 8, no illegal jump) for every set of workers and *)
(* rows when the API's edits wait for the row lock: every change of a      *)
(* row's persisted state, by a handler's write-back, an update after the   *)
(* second re-fetch or a request, is a move of the state table or a         *)
(* request.  It follows from the refinement step; the stale_overwrite run  *)
(* shows it fails when edits ignore the lock.                              *)
(***************************************************************************)
THEOREM NoIllegalJump ==
    ASSUME ~EditsIgnoreLock
    PROVE  Spec => ValidTransitions
  <1>1. RInv /\ [Next]_vars =>
          [\A c \in CIs :
              ciState'[c] # ciState[c] =>
                 <<ciState[c], ciState'[c]>> \in TableTransitions \cup RequestTransitions
          ]_vars
    BY RefinementStep, LifecycleStateChange DEF RInv, IInv, TypeOK
  <1> QED
    BY <1>1, InitRInv, NextRInv, PTL DEF Spec, ValidTransitions

(***************************************************************************)
(* The stale write of the update after the second re-fetch needs an edit  *)
(* that bypasses the row lock: when the API's edits respect the lock, the  *)
(* state Supervise overwrites is always the one its handler worked from,   *)
(* although the code compares it only with the handler's result.           *)
(***************************************************************************)
THEOREM StaleWriteNeedsUnlockedEdit ==
  ASSUME ~EditsIgnoreLock
  PROVE  Spec => StaleWriteDiscarded
  <1>1. RInv /\ [Next]_vars =>
          [\A w \in Workers :
              pc[w] = "persist" /\ pc'[w] = "record" =>
                 ciState[cur[w]] = origState[w]]_vars
    BY DEF RInv, GuardInv
  <1> QED BY <1>1, InitRInv, NextRInv, PTL DEF Spec, StaleWriteDiscarded
=============================================================================
