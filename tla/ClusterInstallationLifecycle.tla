--------------------- MODULE ClusterInstallationLifecycle ---------------------
(***************************************************************************)
(* What the cluster installation supervisor promises for each row, with    *)
(* the polling, the re-fetches and the outcome recording abstracted away   *)
(* (spec 4.1, 4.2, 8): the row's state moves only along the state table,  *)
(* and only while some worker holds the row's lease; the API's requests    *)
(* act only on an unleased row; the record is deleted only by the lease   *)
(* holder and only from deletion-requested, and the row reads deleted     *)
(* only once its record is gone.  Backups are not part of it: the         *)
(* supervisor checks for them but cannot keep one from starting after the *)
(* check.                                                                  *)
(***************************************************************************)
CONSTANTS CIs, Owners, NULL

VARIABLES
    state,     \* the row's persisted state
    deleted,   \* the row's record has been deleted
    owner      \* the worker holding the row's lease, or NULL

vars == <<state, deleted, owner>>

States == {"creation-requested", "reconciling", "stable", "creation-failed",
           "deletion-requested", "deleted", "deletion-failed"}

(* The supervisor's moves (spec 4.2) and the API's requests. *)
Table ==
    {<<"creation-requested", "reconciling">>,
     <<"creation-requested", "creation-failed">>,
     <<"reconciling", "stable">>,
     <<"deletion-requested", "deleted">>,
     <<"deletion-requested", "deletion-failed">>}
Requests ==
    {<<s, "deletion-requested">> : s \in States \ {"deletion-requested", "deleted"}}
    \cup {<<"stable", "reconciling">>}

Init ==
    /\ state = [c \in CIs |-> "creation-requested"]
    /\ deleted = [c \in CIs |-> FALSE]
    /\ owner = [c \in CIs |-> NULL]

Acquire(c, w) ==
    /\ owner[c] = NULL
    /\ owner' = [owner EXCEPT ![c] = w]
    /\ UNCHANGED <<state, deleted>>

Release(c) ==
    /\ owner[c] # NULL
    /\ owner' = [owner EXCEPT ![c] = NULL]
    /\ UNCHANGED <<state, deleted>>

Advance(c, s) ==
    /\ owner[c] # NULL
    /\ <<state[c], s>> \in Table
    /\ s = "deleted" => deleted[c]
    /\ state' = [state EXCEPT ![c] = s]
    /\ UNCHANGED <<deleted, owner>>

Delete(c) ==
    /\ owner[c] # NULL
    /\ state[c] = "deletion-requested"
    /\ ~deleted[c]
    /\ deleted' = [deleted EXCEPT ![c] = TRUE]
    /\ UNCHANGED <<state, owner>>

Request(c, s) ==
    /\ owner[c] = NULL /\ ~deleted[c]
    /\ <<state[c], s>> \in Requests
    /\ state' = [state EXCEPT ![c] = s]
    /\ UNCHANGED <<deleted, owner>>

Next ==
    \E c \in CIs :
        \/ \E w \in Owners : Acquire(c, w)
        \/ Release(c)
        \/ \E s \in States : Advance(c, s) \/ Request(c, s)
        \/ Delete(c)

Spec == Init /\ [][Next]_vars
=============================================================================
