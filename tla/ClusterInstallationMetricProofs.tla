-------------- MODULE ClusterInstallationMetricProofs --------------
(***************************************************************************)
(* Proof that every duration metric measures the transition it reports    *)
(* (MetricMatchesTransition), for every set of workers and rows, provided *)
(* the API's edits respect the row lock.                                  *)
(***************************************************************************)
EXTENDS ClusterInstallationRefinementProofs

(* The start state a row entered last, read off its present state: the     *)
(* table and the requests reach reconciling and stable only through         *)
(* reconciling, and the deletion states only through deletion-requested.   *)
StartOf(s) == IF s \in {Reconciling, Stable} THEN Reconciling
                                             ELSE DeletionRequested

(* Event i is the newest event of row c into a start state. *)
LatestAt(c, i) ==
    IsAnchor(c, i) /\ \A j \in i+1 .. Len(events) : ~IsAnchor(c, j)

(* Between the update and the event, the row holds the handler's result. *)
RecordInv ==
    \A w \in Workers : pc[w] = "record" => ciState[cur[w]] = newState[w]

(* A row that never entered a start state has no anchor event. *)
NoAnchorBeforeStart ==
    \A c \in CIs :
        ciState[c] \in {CreationRequested, CreationFailed} =>
            \A i \in 1 .. Len(events) : ~IsAnchor(c, i)

(* The newest anchor of a row records its latest entry into a start state, *)
(* and that start state is the one the row's present state descends from:  *)
(* a lost event can only be the first entry, which leaves no anchor.        *)
AnchorInv ==
    \A c \in CIs, i \in 1 .. Len(events) :
        LatestAt(c, i) =>
            /\ events[i].gen = entries[c]
            /\ events[i].new = StartOf(ciState[c])

MInv == RInv /\ RecordInv /\ NoAnchorBeforeStart /\ AnchorInv

-----------------------------------------------------------------------------
(***************************************************************************)
(* Lemmas about the anchor search of processClusterInstallationMetrics.    *)
(***************************************************************************)

(* A non-zero LatestAnchor is the index of the row's newest anchor. *)
LEMMA LatestAnchorIsLatest ==
  ASSUME NEW c \in CIs, events \in Seq(Event), LatestAnchor(c) # 0
  PROVE  /\ LatestAnchor(c) \in 1 .. Len(events)
         /\ LatestAt(c, LatestAnchor(c))
  BY DEF LatestAnchor, LatestAt

(* After an event is appended, the newest anchor of a row is the new event *)
(* when that is an anchor of the row, and the old newest anchor otherwise. *)
LEMMA LatestAfterAppend ==
  ASSUME events \in Seq(Event), NEW e \in Event,
         events' = Append(events, e),
         NEW c \in CIs, NEW i \in 1 .. Len(events) + 1, LatestAt(c, i)'
  PROVE  \/ /\ i = Len(events) + 1
            /\ e.ci = c /\ e.new \in StartStates
         \/ /\ i \in 1 .. Len(events)
            /\ LatestAt(c, i)
            /\ ~(e.ci = c /\ e.new \in StartStates)
  <1>1. /\ Len(events') = Len(events) + 1
        /\ \A k \in 1 .. Len(events) : events'[k] = events[k]
        /\ events'[Len(events) + 1] = e
    BY AppendProperties
  <1>2. CASE i = Len(events) + 1
    BY <1>1, <1>2 DEF LatestAt, IsAnchor
  <1>3. CASE i \in 1 .. Len(events)
    <2>1. IsAnchor(c, i)
      BY <1>1, <1>3 DEF LatestAt, IsAnchor
    <2>2. ~(e.ci = c /\ e.new \in StartStates)
      BY <1>1, <1>3 DEF LatestAt, IsAnchor
    <2>3. \A j \in i+1 .. Len(events) : ~IsAnchor(c, j)
      BY <1>1, <1>3 DEF LatestAt, IsAnchor
    <2> QED BY <1>3, <2>1, <2>2, <2>3 DEF LatestAt
  <1> QED BY <1>2, <1>3

-----------------------------------------------------------------------------
LEMMA InitMInv == Init => MInv
  BY InitRInv DEF Init, MInv, RecordInv, NoAnchorBeforeStart, AnchorInv,
                  LatestAt

(* A handler leaves the row's state as it is: the create handler writes    *)
(* back the state the row already has.                                     *)
LEMMA TransitionKeepsState ==
  ASSUME RInv, NEW w \in Workers, Transition(w)
  PROVE  ciState' = ciState
  <1> USE DEF RInv, IInv, TypeOK, CurInv
  <1>1. CASE createClusterInstallation(w)
    <2>1. cur[w] \in CIs /\ ciState[cur[w]] = origState[w]
      BY <1>1 DEF createClusterInstallation, LockedPCs, GuardInv
    <2> QED BY <1>1, <2>1 DEF createClusterInstallation
  <1>2. CASE ~createClusterInstallation(w)
    BY <1>2 DEF Transition, LookupFailed, deleteClusterInstallation,
                checkReconcilingClusterInstallation, storeVars
  <1> QED BY <1>1, <1>2

(***************************************************************************)
(* Between the update and the event the row keeps the handler's result:   *)
(* the worker still holds the lock, so no other worker and no edit writes  *)
(* the row.                                                                *)
(***************************************************************************)
LEMMA NextRecordInv ==
    ~EditsIgnoreLock /\ MInv /\ [Next]_vars => RecordInv'
  <1> SUFFICES ASSUME ~EditsIgnoreLock, MInv, [Next]_vars,
                      NEW v \in Workers, pc'[v] = "record"
               PROVE  ciState'[cur'[v]] = newState'[v]
    BY DEF RecordInv
  <1> USE DEF MInv, RInv, IInv, TypeOK, CurInv, storeVars, workerVars
  <1>0. pc[v] = "record" => Busy(v, cur[v])
    BY DEF Busy, LockedPCs
  <1>1. CASE UNCHANGED <<ciState, pc, cur, newState>>
    BY <1>1 DEF RecordInv
  <1>2. ASSUME NEW w \in Workers,
               \/ Do(w) \/ DoDone(w) \/ Supervise(w) \/ Refresh(w)
               \/ Record(w) \/ Unlock(w) \/ Crash(w)
               \/ deleteClusterInstallationResources(w)
        PROVE  ciState'[cur'[v]] = newState'[v]
    BY <1>2 DEF Do, DoDone, Supervise, Refresh, Record, Unlock, Crash,
                ForgetLocals, deleteClusterInstallationResources, SetResult,
                RecordInv
  <1>3. ASSUME NEW w \in Workers, Transition(w)
        PROVE  ciState'[cur'[v]] = newState'[v]
    <2>1. ciState' = ciState /\ pc'[w] \in {"delete", "persist"}
          /\ UNCHANGED cur
          /\ \A u \in Workers \ {w} : pc'[u] = pc[u] /\ newState'[u] = newState[u]
      BY <1>3, TransitionKeepsState
         DEF Transition, LookupFailed, createClusterInstallation,
             deleteClusterInstallation, checkReconcilingClusterInstallation,
             SetResult
    <2> QED BY <2>1 DEF RecordInv
  <1>4. ASSUME NEW w \in Workers, Persist(w)
        PROVE  ciState'[cur'[v]] = newState'[v]
    <2>1. CASE v = w
      BY <1>4, <2>1 DEF Persist, LockedPCs
    <2>2. CASE v # w
      <3>1. pc[v] = "record"
        BY <1>4, <2>2 DEF Persist
      <3>2. cur[v] # cur[w]
        BY <1>0, <1>4, <2>2, <3>1, BusyUnique DEF Persist, Busy, LockedPCs
      <3> QED
        BY <1>4, <2>2, <3>1, <3>2 DEF Persist, RecordInv, LockedPCs
    <2> QED BY <2>1, <2>2
  <1>5. ASSUME NEW c \in CIs, RequestDeletion(c) \/ RequestUpdate(c)
        PROVE  ciState'[cur'[v]] = newState'[v]
    <2>1. lockedBy[c] = NULL /\ UNCHANGED <<pc, cur, newState>>
      BY <1>5 DEF RequestDeletion, RequestUpdate, EditAllowed, EditState
    <2>2. cur[v] # c
      BY <1>0, <2>1, BusyLocked
    <2> QED
      BY <1>5, <2>1, <2>2 DEF RequestDeletion, RequestUpdate, EditState,
                              RecordInv, LockedPCs
  <1>6. ASSUME NEW c \in CIs,
               ForceUnlock(c) \/ StartBackup(c) \/ FinishBackup(c)
        PROVE  ciState'[cur'[v]] = newState'[v]
    BY <1>6, <1>1 DEF ForceUnlock, StartBackup, FinishBackup
  <1>7. QED
    BY <1>1, <1>2, <1>3, <1>4, <1>5, <1>6
       DEF Next, Worker, Environment, Settled, vars

(***************************************************************************)
(* An appended event keeps the anchor invariants when it names the row's   *)
(* new state, carries the row's new entry count if it is an anchor, and   *)
(* leaves the row as it was otherwise; no other row changes.  Record and   *)
(* the API's requests append events of this kind.                          *)
(***************************************************************************)
LEMMA AppendKeepsAnchors ==
  ASSUME TypeOK, NoAnchorBeforeStart, AnchorInv,
         NEW e \in Event, events' = Append(events, e),
         \A c \in CIs \ {e.ci} : ciState'[c] = ciState[c] /\ entries'[c] = entries[c],
         e.new = ciState'[e.ci],
         e.new \in StartStates => e.gen = entries'[e.ci],
         e.new \notin StartStates =>
            ciState'[e.ci] = ciState[e.ci] /\ entries'[e.ci] = entries[e.ci]
  PROVE  NoAnchorBeforeStart' /\ AnchorInv'
  <1> USE DEF TypeOK, CreationRequested, CreationFailed, Reconciling, Stable,
              DeletionRequested
  <1>1. /\ Len(events') = Len(events) + 1
        /\ \A k \in 1 .. Len(events) : events'[k] = events[k]
        /\ events'[Len(events) + 1] = e
    BY AppendProperties
  <1>2. NoAnchorBeforeStart'
    <2> SUFFICES ASSUME NEW c \in CIs,
                        ciState'[c] \in {CreationRequested, CreationFailed},
                        NEW i \in 1 .. Len(events')
                 PROVE  ~IsAnchor(c, i)'
      BY DEF NoAnchorBeforeStart
    <2>1. CASE i \in 1 .. Len(events)
      <3>1. ciState[c] \in {CreationRequested, CreationFailed}
        BY DEF StartStates
      <3> QED BY <1>1, <2>1, <3>1 DEF NoAnchorBeforeStart, IsAnchor
    <2>2. CASE i = Len(events) + 1
      BY <1>1, <2>2 DEF IsAnchor, StartStates
    <2> QED BY <1>1, <2>1, <2>2
  <1>3. AnchorInv'
    <2> SUFFICES ASSUME NEW c \in CIs, NEW i \in 1 .. Len(events'),
                        LatestAt(c, i)'
                 PROVE  /\ events'[i].gen = entries'[c]
                        /\ events'[i].new = StartOf(ciState'[c])
      BY DEF AnchorInv
    <2>1. CASE i = Len(events) + 1 /\ e.ci = c /\ e.new \in StartStates
      BY <1>1, <2>1 DEF StartOf, StartStates
    <2>2. CASE /\ i \in 1 .. Len(events)
               /\ LatestAt(c, i)
               /\ ~(e.ci = c /\ e.new \in StartStates)
      <3>1. ciState'[c] = ciState[c] /\ entries'[c] = entries[c]
        BY <2>2
      <3> QED BY <1>1, <2>2, <3>1 DEF AnchorInv
    <2> QED BY <1>1, <2>1, <2>2, LatestAfterAppend
  <1> QED BY <1>2, <1>3

(***************************************************************************)
(* Every step keeps the anchor invariants.  The update moves a row along  *)
(* the table only (first re-fetch guard): out of creation-requested, where *)
(* the row has no anchor yet, or within the reconciling or the deletion    *)
(* branch, where the newest anchor stays right.  Record's event names the  *)
(* state the update wrote, and a request's event is the newest anchor.     *)
(***************************************************************************)
LEMMA NextAnchorInv ==
    MInv /\ [Next]_vars => NoAnchorBeforeStart' /\ AnchorInv'
  <1> SUFFICES ASSUME MInv, [Next]_vars
               PROVE  NoAnchorBeforeStart' /\ AnchorInv'
    OBVIOUS
  <1> USE DEF MInv, RInv, IInv, TypeOK, CurInv
  <1>1. CASE UNCHANGED <<events, entries, ciState>>
    BY <1>1 DEF NoAnchorBeforeStart, AnchorInv, LatestAt, IsAnchor
  <1>2. ASSUME NEW w \in Workers,
               \/ Do(w) \/ DoDone(w) \/ Supervise(w) \/ Refresh(w)
               \/ Unlock(w) \/ Crash(w) \/ Transition(w)
               \/ deleteClusterInstallationResources(w)
        PROVE  NoAnchorBeforeStart' /\ AnchorInv'
    <2>1. UNCHANGED <<events, entries, ciState>>
      BY <1>2, TransitionKeepsState
         DEF Do, DoDone, Supervise, Refresh, Unlock, Crash, Transition,
             deleteClusterInstallationResources,
             LookupFailed, createClusterInstallation,
             deleteClusterInstallation, checkReconcilingClusterInstallation,
             storeVars
    <2> QED BY <2>1, <1>1
  <1>3. ASSUME NEW w \in Workers, Persist(w)
        PROVE  NoAnchorBeforeStart' /\ AnchorInv'
    <2> DEFINE c == cur[w]  n == newState[w]
    <2>1. CASE pc'[w] = "unlock"
      BY <1>3, <2>1, <1>1 DEF Persist
    <2>2. CASE pc'[w] = "record"
      <3>1. /\ c \in CIs /\ pc[w] = "persist" /\ ciState[c] # n
            /\ ciState' = [ciState EXCEPT ![c] = n]
            /\ entries' = [entries EXCEPT ![c] = Entered(c, n)]
            /\ UNCHANGED events
        BY <1>3, <2>2 DEF Persist, LockedPCs
      <3>2. <<ciState[c], n>> \in TableTransitions
        BY <3>1 DEF GuardInv, ResultInv
      <3>3. CASE ciState[c] = CreationRequested
        <4>1. \A i \in 1 .. Len(events) : ~IsAnchor(c, i)
          BY <3>3, <3>1 DEF NoAnchorBeforeStart
        <4> QED
          BY <3>1, <3>3, <4>1
             DEF NoAnchorBeforeStart, AnchorInv, LatestAt, IsAnchor
      <3>4. CASE ciState[c] # CreationRequested
        <4>1. /\ Entered(c, n) = entries[c]
              /\ StartOf(n) = StartOf(ciState[c])
              /\ ciState[c] \notin {CreationRequested, CreationFailed}
              /\ n \notin {CreationRequested, CreationFailed}
          BY <3>2, <3>4
             DEF TableTransitions, Entered, StartOf, StartStates,
                 CreationRequested, CreationFailed, Reconciling, Stable,
                 DeletionRequested, Deleted, DeletionFailed
        <4> QED
          BY <3>1, <4>1
             DEF NoAnchorBeforeStart, AnchorInv, LatestAt, IsAnchor
      <3> QED BY <3>3, <3>4
    <2> QED BY <1>3, <2>1, <2>2 DEF Persist
  <1>4. ASSUME NEW w \in Workers, Record(w)
        PROVE  NoAnchorBeforeStart' /\ AnchorInv'
    <2> DEFINE c == cur[w]
               e == [ci |-> c, old |-> oldState[w], new |-> newState[w],
                     gen |-> entries[c]]
    <2>1. c \in CIs /\ ciState[c] = newState[w]
      BY <1>4 DEF Record, LockedPCs, RecordInv
    <2>2. CASE UNCHANGED events
      BY <1>4, <2>2, <1>1 DEF Record
    <2>3. CASE events' = Append(events, e)
      <3>1. e \in Event
        BY <2>1 DEF Event
      <3>2. UNCHANGED <<ciState, entries>>
        BY <1>4 DEF Record
      <3> QED BY <2>1, <2>3, <3>1, <3>2, AppendKeepsAnchors
    <2> QED BY <1>4, <2>2, <2>3 DEF Record
  <1>5. ASSUME NEW c \in CIs, NEW s \in StartStates, EditState(c, s)
        PROVE  NoAnchorBeforeStart' /\ AnchorInv'
    <2> DEFINE e == [ci |-> c, old |-> ciState[c], new |-> s,
                     gen |-> Entered(c, s)]
    <2>1. e \in Event /\ events' = Append(events, e)
      BY <1>5 DEF EditState, Event, Entered, StartStates, CIStates
    <2>2. /\ ciState' = [ciState EXCEPT ![c] = s]
          /\ entries' = [entries EXCEPT ![c] = Entered(c, s)]
      BY <1>5 DEF EditState
    <2> QED BY <2>1, <2>2, AppendKeepsAnchors
  <1>6. ASSUME NEW c \in CIs, RequestDeletion(c) \/ RequestUpdate(c)
        PROVE  NoAnchorBeforeStart' /\ AnchorInv'
    BY <1>6, <1>5 DEF RequestDeletion, RequestUpdate, StartStates
  <1>7. ASSUME NEW c \in CIs,
               ForceUnlock(c) \/ StartBackup(c) \/ FinishBackup(c)
        PROVE  NoAnchorBeforeStart' /\ AnchorInv'
    BY <1>7, <1>1 DEF ForceUnlock, StartBackup, FinishBackup
  <1>8. QED
    BY <1>1, <1>2, <1>3, <1>4, <1>6, <1>7
       DEF Next, Worker, Environment, Settled, vars, storeVars

(* The appended element is the last one. *)
LEMMA LastOfAppend ==
  ASSUME NEW S, NEW s \in Seq(S), NEW x, NEW t, t = Append(s, x)
  PROVE  t[Len(t)] = x
  OBVIOUS

LEMMA NextMInv == ~EditsIgnoreLock /\ MInv /\ [Next]_vars => MInv'
  BY NextRInv, NextRecordInv, NextAnchorInv DEF MInv

(* Only Record adds an observation. *)
LEMMA OnlyRecordObserves ==
  ASSUME MInv, [Next]_vars, metrics' # metrics
  PROVE  \E w \in Workers : Record(w)
  <1> USE DEF storeVars
  <1>1. ASSUME NEW w \in Workers,
               \/ Do(w) \/ DoDone(w) \/ Supervise(w) \/ Refresh(w)
               \/ Unlock(w) \/ Crash(w) \/ Transition(w) \/ Persist(w)
               \/ deleteClusterInstallationResources(w)
        PROVE  FALSE
    BY <1>1 DEF Do, DoDone, Supervise, Refresh, Unlock, Crash, Transition,
                deleteClusterInstallationResources,
                LookupFailed, createClusterInstallation,
                deleteClusterInstallation, checkReconcilingClusterInstallation,
                Persist
  <1>2. ASSUME NEW c \in CIs, Environment(c)
        PROVE  FALSE
    BY <1>2 DEF Environment, ForceUnlock, RequestDeletion, RequestUpdate,
                EditState, StartBackup, FinishBackup
  <1> QED BY <1>1, <1>2 DEF Next, Worker, Settled, vars

(***************************************************************************)
(* Every duration metric measures the transition that completed (spec     *)
(* 4.4, 7): processClusterInstallationMetrics observes a move to stable in *)
(* the reconciling histogram and a move to deleted in the deletion         *)
(* histogram, from the row's most recent entry into reconciling or         *)
(* deletion-requested, even when Record loses state change events.  It     *)
(* holds when the API's edits respect the row lock, as they do in the      *)
(* supervisor_safety run; the stale_overwrite run shows what goes wrong   *)
(* otherwise.                                                              *)
(***************************************************************************)
THEOREM MetricsMeasureTransition ==
  ASSUME ~EditsIgnoreLock
  PROVE  Spec => MetricMatchesTransition
  <1>1. MInv /\ [Next]_vars =>
          [Len(metrics') > Len(metrics) =>
             LET o == metrics'[Len(metrics')] IN
             /\ \/ o.state = Stable /\ o.hist = "reconciling_duration"
                \/ o.state = Deleted /\ o.hist = "deletion_duration"
             /\ o.gen = entries[o.ci]]_vars
    <2> SUFFICES ASSUME MInv, [Next]_vars, Len(metrics') > Len(metrics)
                 PROVE  LET o == metrics'[Len(metrics')] IN
                        /\ \/ o.state = Stable /\ o.hist = "reconciling_duration"
                           \/ o.state = Deleted /\ o.hist = "deletion_duration"
                        /\ o.gen = entries[o.ci]
      OBVIOUS
    <2> USE DEF MInv, RInv, IInv, TypeOK, CurInv
    <2>1. PICK w \in Workers : Record(w)
      BY OnlyRecordObserves
    <2> DEFINE c == cur[w]
               a == LatestAnchor(c)
               ob == [ci |-> c, hist |-> HistOf(events[a].new),
                      gen |-> events[a].gen, state |-> newState[w]]
    <2>2. /\ c \in CIs /\ ciState[c] = newState[w]
          /\ newState[w] \in {Stable, Deleted} /\ a # 0
          /\ metrics' = Append(metrics, ob)
          /\ entries' = entries
      BY <2>1 DEF Record, processClusterInstallationMetrics, LockedPCs,
                  RecordInv
    <2>3. a \in 1 .. Len(events) /\ LatestAt(c, a)
      BY <2>2, LatestAnchorIsLatest
    <2>4. events[a].gen = entries[c] /\ events[a].new = StartOf(newState[w])
      BY <2>2, <2>3 DEF AnchorInv
    <2>5. metrics'[Len(metrics')] = ob
      <3>1. metrics' = Append(metrics, ob) /\ metrics \in Seq(Observation)
        BY <2>2
      <3> QED BY ONLY <3>1, LastOfAppend
    <2> QED
      BY <2>2, <2>4, <2>5
         DEF HistOf, StartOf, Stable, Deleted, Reconciling, DeletionRequested
  <1> QED BY <1>1, InitMInv, NextMInv, PTL DEF Spec, MetricMatchesTransition
=============================================================================
