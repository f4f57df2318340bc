--------------- MODULE ClusterInstallationSupervisorProofs ---------------
(***************************************************************************)
(* Proofs about ClusterInstallationSupervisor, for every set of workers   *)
(* and cluster installations and every bound.                              *)
(***************************************************************************)
EXTENDS ClusterInstallationSupervisor, SequenceTheorems, TLAPS

(***************************************************************************)
(* A worker past TryLock has a current row.  TypeOK alone is not          *)
(* inductive: Refresh, Persist, Record and Unlock index the store by       *)
(* cur[w], which TypeOK allows to be NULL.                                 *)
(***************************************************************************)
CurInv == \A w \in Workers : pc[w] \in LockedPCs => cur[w] \in CIs

IInv == TypeOK /\ CurInv

LEMMA InitIInv == Init => IInv
  BY ConstantsAssumption DEF Init, IInv, TypeOK, CurInv, LockedPCs, PCs,
                             CIStates, Failures

(***************************************************************************)
(* The anchor the metrics query returns is 0 or an index of the log.       *)
(***************************************************************************)
LEMMA LatestAnchorType ==
  ASSUME NEW c \in CIs, events \in Seq(Event)
  PROVE  LatestAnchor(c) \in 0..Len(events)
  BY DEF LatestAnchor

LEMMA NextIInv == IInv /\ [Next]_vars => IInv'
  <1> SUFFICES ASSUME IInv, [Next]_vars PROVE IInv'
    OBVIOUS
  <1> USE ConstantsAssumption DEF IInv, TypeOK, CurInv, storeVars, workerVars
  <1>1. ASSUME NEW w \in Workers, Do(w) PROVE IInv'
    BY <1>1 DEF Do, PendingWorkCIs, LockedPCs, PCs
  <1>2. ASSUME NEW w \in Workers, DoDone(w) PROVE IInv'
    BY <1>2 DEF DoDone, LockedPCs, PCs
  <1>3. ASSUME NEW w \in Workers, Supervise(w) PROVE IInv'
    <2>1. PICK it \in queue[w] :
            /\ queue' = [queue EXCEPT ![w] = @ \ {it}]
            /\ \/ /\ lockedBy[it.ci] = NULL
                  /\ lockedBy' = [lockedBy EXCEPT ![it.ci] = w]
                  /\ cur' = [cur EXCEPT ![w] = it.ci]
                  /\ origState' = [origState EXCEPT ![w] = it.state]
                  /\ pc' = [pc EXCEPT ![w] = "refresh"]
               \/ UNCHANGED <<lockedBy, cur, origState, pc>>
      BY <1>3 DEF Supervise
    <2>2. it.ci \in CIs /\ it.state \in CIStates
      OBVIOUS
    <2>3. queue' \in [Workers -> SUBSET [ci : CIs, state : CIStates]]
      BY <2>1
    <2>4. CASE /\ lockedBy[it.ci] = NULL
               /\ lockedBy' = [lockedBy EXCEPT ![it.ci] = w]
               /\ cur' = [cur EXCEPT ![w] = it.ci]
               /\ origState' = [origState EXCEPT ![w] = it.state]
               /\ pc' = [pc EXCEPT ![w] = "refresh"]
      BY <1>3, <2>2, <2>3, <2>4 DEF Supervise, LockedPCs, PCs
    <2>5. CASE UNCHANGED <<lockedBy, cur, origState, pc>>
      BY <1>3, <2>3, <2>5 DEF Supervise
    <2>6. QED
      BY <2>1, <2>4, <2>5
  <1>4. ASSUME NEW w \in Workers, Refresh(w) PROVE IInv'
    BY <1>4 DEF Refresh, LockedPCs, PCs
  <1>5. ASSUME NEW w \in Workers, Transition(w) PROVE IInv'
    <2> USE DEF SetResult, LockedPCs, PCs, CIStates, Failures
    <2>1. CASE LookupFailed(w)
      BY <2>1 DEF LookupFailed, failedClusterInstallationState
    <2>2. CASE createClusterInstallation(w)
      BY <2>2 DEF createClusterInstallation
    <2>3. CASE deleteClusterInstallation(w)
      BY <2>3 DEF deleteClusterInstallation
    <2>4. CASE checkReconcilingClusterInstallation(w)
      BY <2>4 DEF checkReconcilingClusterInstallation
    <2>5. QED
      BY <1>5, <2>1, <2>2, <2>3, <2>4 DEF Transition
  <1>6. ASSUME NEW w \in Workers, Persist(w) PROVE IInv'
    <2>1. cur[w] \in CIs
      BY <1>6 DEF Persist, LockedPCs
    <2>2. CASE UNCHANGED <<ciState, oldState, entries>>
      BY <1>6, <2>2 DEF Persist, LockedPCs, PCs
    <2>3. CASE /\ ciState' = [ciState EXCEPT ![cur[w]] = newState[w]]
               /\ oldState' = [oldState EXCEPT ![w] = ciState[cur[w]]]
               /\ entries' = [entries EXCEPT ![cur[w]] =
                                 Entered(cur[w], newState[w])]
               /\ pc' = [pc EXCEPT ![w] = "record"]
      <3>1. Entered(cur[w], newState[w]) \in Nat
        BY <2>1 DEF Entered
      <3>2. QED
        BY <1>6, <2>1, <2>3, <3>1 DEF Persist, LockedPCs, PCs
    <2>4. QED
      BY <1>6, <2>2, <2>3 DEF Persist
  <1>7. ASSUME NEW w \in Workers, Record(w) PROVE IInv'
    <2>1. cur[w] \in CIs
      BY <1>7 DEF Record, LockedPCs
    <2>2. LatestAnchor(cur[w]) \in 0..Len(events)
      BY <2>1, LatestAnchorType
    <2>3. metrics' \in Seq(Observation)
      <3>1. PICK q \in BOOLEAN : processClusterInstallationMetrics(w, q)
        BY <1>7 DEF Record
      <3>2. CASE LatestAnchor(cur[w]) = 0
        BY <3>1, <3>2 DEF processClusterInstallationMetrics
      <3>3. CASE LatestAnchor(cur[w]) \in 1..Len(events)
        <4> DEFINE a == LatestAnchor(cur[w])
        <4>1. events[a] \in Event
          BY <3>3
        <4>2. [ci |-> cur[w], hist |-> HistOf(events[a].new),
               gen |-> events[a].gen, state |-> newState[w]] \in Observation
          BY <2>1, <4>1 DEF Event, Observation, HistOf, Histograms
        <4>3. QED
          BY <3>1, <4>2, AppendProperties
             DEF processClusterInstallationMetrics
      <3>4. QED
        BY <2>2, <3>2, <3>3
    <2>4. events' \in Seq(Event)
      <3>1. [ci |-> cur[w], old |-> oldState[w], new |-> newState[w],
             gen |-> entries[cur[w]]] \in Event
        BY <2>1 DEF Event
      <3>2. CASE events' = Append(events, [ci |-> cur[w], old |-> oldState[w],
                                           new |-> newState[w],
                                           gen |-> entries[cur[w]]])
        BY <3>1, <3>2, AppendProperties
      <3>3. QED
        BY <1>7, <3>2 DEF Record
    <2>5. QED
      BY <1>7, <2>3, <2>4 DEF Record, LockedPCs, PCs
  <1>8. ASSUME NEW w \in Workers, Unlock(w) PROVE IInv'
    <2>1. cur[w] \in CIs
      BY <1>8 DEF Unlock, LockedPCs
    <2>2. lockedBy' \in [CIs -> Workers \cup {NULL}]
      BY <1>8, <2>1 DEF Unlock
    <2>3. QED
      BY <1>8, <2>2 DEF Unlock, ForgetLocals, LockedPCs, PCs, CIStates,
                        Failures
  <1>9. ASSUME NEW w \in Workers, Crash(w) PROVE IInv'
    BY <1>9 DEF Crash, ForgetLocals, LockedPCs, PCs, CIStates, Failures
  <1>10. ASSUME NEW c \in CIs, ForceUnlock(c) PROVE IInv'
    BY <1>10 DEF ForceUnlock
  <1>11. ASSUME NEW c \in CIs, RequestDeletion(c) PROVE IInv'
    BY <1>11, AppendProperties
       DEF RequestDeletion, EditAllowed, EditState, Entered, Event, CIStates
  <1>12. ASSUME NEW c \in CIs, RequestUpdate(c) PROVE IInv'
    BY <1>12, AppendProperties
       DEF RequestUpdate, EditAllowed, EditState, Entered, Event, CIStates
  <1>13. ASSUME NEW c \in CIs, StartBackup(c) PROVE IInv'
    BY <1>13 DEF StartBackup
  <1>14. ASSUME NEW c \in CIs, FinishBackup(c) PROVE IInv'
    BY <1>14 DEF FinishBackup
  <1>15. CASE UNCHANGED vars
    BY <1>15 DEF vars, storeVars, workerVars
  <1>16. ASSUME NEW w \in Workers, deleteClusterInstallationResources(w)
         PROVE  IInv'
    <2>1. cur[w] \in CIs
      BY <1>16 DEF deleteClusterInstallationResources, LockedPCs
    <2> QED
      BY <1>16, <2>1 DEF deleteClusterInstallationResources, SetResult,
                         LockedPCs, PCs, CIStates, Failures
  <1>17. QED
    BY <1>1, <1>2, <1>3, <1>4, <1>5, <1>6, <1>7, <1>8, <1>9, <1>10, <1>11,
       <1>12, <1>13, <1>14, <1>15, <1>16 DEF Next, Worker, Environment,
                                             Settled

(***************************************************************************)
(* Type correctness of the supervisor model.                               *)
(***************************************************************************)
THEOREM TypeCorrect == Spec => []TypeOK
  <1>1. Spec => []IInv
    BY InitIInv, NextIInv, PTL DEF Spec
  <1>2. QED
    BY <1>1, PTL DEF IInv

(***************************************************************************)
(* Every step keeps the lock discipline: no step makes a worker busy on a  *)
(* row another worker holds, and no step takes a lock from a busy worker.  *)
(* MutualExclusion is inductive relative to IInv as it stands.             *)
(***************************************************************************)
LEMMA NextMutualExclusion ==
    IInv /\ MutualExclusion /\ [Next]_vars => MutualExclusion'
  <1> SUFFICES ASSUME IInv, MutualExclusion, [Next]_vars,
                      NEW v \in Workers, NEW d \in CIs, Busy(v, d)'
               PROVE  lockedBy'[d] = v
    BY DEF MutualExclusion
  <1> USE DEF IInv, TypeOK, CurInv, MutualExclusion, Busy, storeVars,
              workerVars
  \* Steps that leave the locks, the program counters and the rows alone.
  <1>1. CASE UNCHANGED <<lockedBy, pc, cur>>
    BY <1>1
  <1>2. ASSUME NEW w \in Workers, Do(w) PROVE lockedBy'[d] = v
    BY <1>2 DEF Do, LockedPCs
  <1>3. ASSUME NEW w \in Workers, DoDone(w) PROVE lockedBy'[d] = v
    BY <1>3 DEF DoDone, LockedPCs
  <1>4. ASSUME NEW w \in Workers, Supervise(w) PROVE lockedBy'[d] = v
    <2>1. PICK it \in queue[w] :
            \/ /\ lockedBy[it.ci] = NULL
               /\ lockedBy' = [lockedBy EXCEPT ![it.ci] = w]
               /\ cur' = [cur EXCEPT ![w] = it.ci]
               /\ pc' = [pc EXCEPT ![w] = "refresh"]
            \/ UNCHANGED <<lockedBy, cur, pc>>
      BY <1>4 DEF Supervise
    <2>2. it.ci \in CIs
      OBVIOUS
    <2>3. CASE /\ lockedBy[it.ci] = NULL
               /\ lockedBy' = [lockedBy EXCEPT ![it.ci] = w]
               /\ cur' = [cur EXCEPT ![w] = it.ci]
               /\ pc' = [pc EXCEPT ![w] = "refresh"]
      <3>1. CASE v = w
        BY <2>2, <2>3, <3>1
      <3>2. CASE v # w
        \* v was already busy on d; it holds d, so d is not it.ci.
        <4>1. Busy(v, d)
          BY <2>3, <3>2
        <4>2. d # it.ci
          BY <2>3, <4>1, ConstantsAssumption
        <4>3. QED
          BY <2>3, <4>1, <4>2
      <3>3. QED
        BY <3>1, <3>2
    <2>4. QED
      BY <2>1, <2>3, <1>1
  <1>5. ASSUME NEW w \in Workers, Refresh(w) PROVE lockedBy'[d] = v
    BY <1>5 DEF Refresh, LockedPCs
  <1>6. ASSUME NEW w \in Workers, Transition(w) PROVE lockedBy'[d] = v
    <2>1. /\ pc[w] = "transition"
          /\ pc'[w] \in {"delete", "persist"}
          /\ \A u \in Workers \ {w} : pc'[u] = pc[u]
          /\ UNCHANGED <<lockedBy, cur>>
      BY <1>6 DEF Transition, LookupFailed, createClusterInstallation,
                  deleteClusterInstallation,
                  checkReconcilingClusterInstallation, SetResult
    <2>2. QED
      BY <2>1 DEF LockedPCs
  <1>7. ASSUME NEW w \in Workers, Persist(w) PROVE lockedBy'[d] = v
    BY <1>7 DEF Persist, LockedPCs
  <1>8. ASSUME NEW w \in Workers, Record(w) PROVE lockedBy'[d] = v
    BY <1>8 DEF Record, LockedPCs
  <1>9. ASSUME NEW w \in Workers, Unlock(w) PROVE lockedBy'[d] = v
    \* w leaves Supervise; it clears a lock only when it holds it.
    <2>1. v # w
      BY <1>9 DEF Unlock, ForgetLocals, LockedPCs
    <2>2. Busy(v, d) /\ lockedBy[d] = v
      BY <1>9, <2>1 DEF Unlock, ForgetLocals
    <2>3. QED
      BY <1>9, <2>1, <2>2 DEF Unlock, LockedPCs
  <1>10. ASSUME NEW w \in Workers, Crash(w) PROVE lockedBy'[d] = v
    BY <1>10 DEF Crash, ForgetLocals, LockedPCs
  <1>11. ASSUME NEW c \in CIs, ForceUnlock(c) PROVE lockedBy'[d] = v
    \* the administrator only clears a lock whose holder is not busy on it
    BY <1>11 DEF ForceUnlock
  <1>12. ASSUME NEW c \in CIs,
                \/ RequestDeletion(c) \/ RequestUpdate(c)
                \/ StartBackup(c) \/ FinishBackup(c)
         PROVE  lockedBy'[d] = v
    BY <1>12, <1>1 DEF RequestDeletion, RequestUpdate, EditState,
                       StartBackup, FinishBackup
  <1>13. ASSUME NEW w \in Workers, deleteClusterInstallationResources(w)
         PROVE  lockedBy'[d] = v
    BY <1>13 DEF deleteClusterInstallationResources, SetResult, LockedPCs
  <1>14. QED
    BY <1>1, <1>2, <1>3, <1>4, <1>5, <1>6, <1>7, <1>8, <1>9, <1>10, <1>11,
       <1>12, <1>13 DEF Next, Worker, Environment, Settled, vars

(***************************************************************************)
(* Lock exclusion (spec 4.1): in every reachable state a worker past       *)
(* TryLock holds its row's lock, so at most one worker supervises a row.   *)
(***************************************************************************)
THEOREM LockExclusion == Spec => []MutualExclusion
  <1>1. Init => MutualExclusion
    BY DEF Init, MutualExclusion, Busy, LockedPCs
  <1>2. Spec => []IInv
    BY InitIInv, NextIInv, PTL DEF Spec
  <1>3. QED
    BY <1>1, <1>2, NextMutualExclusion, PTL DEF Spec
====
