---------------------------- MODULE CloudflareDNS ----------------------------
(***************************************************************************)
(* The Cloudflare DNS client of src/internal/tools/cloudflare/dns.go and   *)
(* the caller that retries it.                                             *)
(*                                                                         *)
(* CreateDNSRecord and DeleteDNSRecord walk the configured zone list and   *)
(* call the Cloudflare API once or twice per zone.  One iteration of       *)
(* either loop is one action; every API call may fail with a transient     *)
(* error, and a call that runs into the 30 s context timeout may fail      *)
(* after Cloudflare has already applied it.  The record is the one CNAME  *)
(* of the customer DNS name; Cloudflare refuses a second record of a name  *)
(* that already has a CNAME, so a zone holds at most one and hasRecord is  *)
(* a Boolean.                                                              *)
(*                                                                         *)
(* The caller is the provisioner, which creates the record while the       *)
(* installation is being created, retries a failed call on its next poll,  *)
(* and deletes the record once deletion is requested.                      *)
(***************************************************************************)
EXTENDS Naturals, Sequences

CONSTANTS
    ZoneList,    \* the zoneNameList argument, in order
    MaxFaults    \* bound on the API calls that fail

Zones == {ZoneList[k] : k \in DOMAIN ZoneList}

ASSUME DNSConstantsAssumption ==
    /\ ZoneList \in Seq(Zones)
    /\ MaxFaults \in Nat

Phases  == {"creating", "created", "deleting", "deleted"}
Ops     == {"idle", "create", "delete"}
Results == {"none", "nil", "err"}

VARIABLES
    hasRecord,   \* hasRecord[z]: zone z holds the customer's CNAME
    phase,       \* what the caller wants: the record created or deleted
    op,          \* the client call in progress, if any
    i,           \* the loop index into ZoneList
    result,      \* the call's return value once it has returned
    faults       \* failed API calls so far

vars == <<hasRecord, phase, op, i, result, faults>>

(* A call that can fail consumes one fault of the budget. *)
Fault == faults < MaxFaults /\ faults' = faults + 1

Init ==
    /\ hasRecord = [z \in Zones |-> FALSE]
    /\ phase = "creating"
    /\ op = "idle"
    /\ i = 1
    /\ result = "none"
    /\ faults = 0

(* The function returns: the loop index stays where the loop stopped. *)
Return(r) == result' = r /\ UNCHANGED <<hasRecord, op, i>>

InCall(o) == op = o /\ result = "none"

-----------------------------------------------------------------------------
(* CreateDNSRecord, one action per exit of one iteration. *)

(* The loop ran over every zone: return nil. *)
CreateLoopDone ==
    /\ InCall("create") /\ i > Len(ZoneList)
    /\ Return("nil") /\ UNCHANGED <<phase, faults>>

(* getZoneId fails: log "skipping" and break, so the function returns nil. *)
CreateZoneLookupFails ==
    /\ InCall("create") /\ i <= Len(ZoneList)
    /\ Fault
    /\ Return("nil") /\ UNCHANGED phase

(* The zone is found and cfClient.CreateDNSRecord is called.  It succeeds *)
(* unless the name already has a record, or it fails transiently, or it   *)
(* times out after Cloudflare created the record; an error is returned.  *)
CreateInZone ==
    /\ InCall("create") /\ i <= Len(ZoneList)
    /\ LET z == ZoneList[i] IN
       \/ /\ ~hasRecord[z]
          /\ hasRecord' = [hasRecord EXCEPT ![z] = TRUE]
          /\ i' = i + 1
          /\ UNCHANGED <<result, faults>>
       \/ /\ hasRecord[z]
          /\ Return("err") /\ UNCHANGED faults
       \/ /\ Fault
          /\ Return("err")
       \/ /\ ~hasRecord[z] /\ Fault
          /\ hasRecord' = [hasRecord EXCEPT ![z] = TRUE]
          /\ result' = "err"
          /\ UNCHANGED i
    /\ UNCHANGED <<phase, op>>

-----------------------------------------------------------------------------
(* DeleteDNSRecord, one action per exit of one iteration. *)

DeleteLoopDone ==
    /\ InCall("delete") /\ i > Len(ZoneList)
    /\ Return("nil") /\ UNCHANGED <<phase, faults>>

(* getZoneId fails: log "skipping" and break, return nil. *)
DeleteZoneLookupFails ==
    /\ InCall("delete") /\ i <= Len(ZoneList)
    /\ Fault
    /\ Return("nil") /\ UNCHANGED phase

(* Mutant: a zone without the record is reported as an error. *)
DeleteRecordLookupNotFoundIsError ==
    /\ InCall("delete") /\ i <= Len(ZoneList)
    /\ \/ Fault /\ Return("err")
       \/ ~hasRecord[ZoneList[i]] /\ Return("err") /\ UNCHANGED faults
    /\ UNCHANGED phase

(* getRecordId: DNSRecords fails, or the zone holds no record of the name; *)
(* "skipping deletion" returns nil from the whole function.               *)
DeleteRecordLookup ==
    /\ InCall("delete") /\ i <= Len(ZoneList)
    /\ \/ Fault /\ Return("err")
       \/ ~hasRecord[ZoneList[i]] /\ Return("nil") /\ UNCHANGED faults
    /\ UNCHANGED phase

(* The record is found and cfClient.DeleteDNSRecord is called: it         *)
(* succeeds, fails transiently, or times out after the delete.            *)
DeleteInZone ==
    /\ InCall("delete") /\ i <= Len(ZoneList)
    /\ LET z == ZoneList[i] IN
       /\ hasRecord[z]
       /\ \/ /\ hasRecord' = [hasRecord EXCEPT ![z] = FALSE]
             /\ i' = i + 1
             /\ UNCHANGED <<result, faults>>
          \/ Fault /\ Return("err")
          \/ /\ Fault
             /\ hasRecord' = [hasRecord EXCEPT ![z] = FALSE]
             /\ result' = "err"
             /\ UNCHANGED i
    /\ UNCHANGED <<phase, op>>

-----------------------------------------------------------------------------
(* The caller: the provisioner calls the client on every poll until the   *)
(* call returns nil, and may be asked to delete the installation at any   *)
(* time between calls.                                                    *)

CallCreate ==
    /\ phase = "creating" /\ op = "idle"
    /\ op' = "create" /\ i' = 1
    /\ UNCHANGED <<hasRecord, phase, result, faults>>

CallDelete ==
    /\ phase = "deleting" /\ op = "idle"
    /\ op' = "delete" /\ i' = 1
    /\ UNCHANGED <<hasRecord, phase, result, faults>>

(* The caller reads the result: nil completes the phase, an error leaves  *)
(* it for the next poll to retry.                                         *)
CallReturned ==
    /\ op # "idle" /\ result # "none"
    /\ phase' = IF result = "err" THEN phase
                ELSE IF op = "create" THEN "created" ELSE "deleted"
    /\ op' = "idle" /\ result' = "none"
    /\ UNCHANGED <<hasRecord, i, faults>>

RequestDeletion ==
    /\ phase \in {"creating", "created"} /\ op = "idle"
    /\ phase' = "deleting"
    /\ UNCHANGED <<hasRecord, op, i, result, faults>>

Finished == phase = "deleted" /\ op = "idle"

Client ==
    \/ CreateLoopDone \/ CreateZoneLookupFails \/ CreateInZone
    \/ DeleteLoopDone \/ DeleteZoneLookupFails \/ DeleteRecordLookup
    \/ DeleteInZone

Caller == CallCreate \/ CallDelete \/ CallReturned

Next == Client \/ Caller \/ RequestDeletion \/ (Finished /\ UNCHANGED vars)

(* The client's loop runs to its end and the provisioner polls again: both *)
(* are weakly fair.  A deletion request is a user's choice and is not.    *)
Fairness == WF_vars(Client) /\ WF_vars(Caller)

Spec == Init /\ [][Next]_vars /\ Fairness

-----------------------------------------------------------------------------
TypeOK ==
    /\ hasRecord \in [Zones -> BOOLEAN]
    /\ phase \in Phases
    /\ op \in Ops
    /\ i \in 1 .. Len(ZoneList) + 1
    /\ result \in Results
    /\ faults \in 0 .. MaxFaults

(* Once deletion is requested, the provisioner's retries of               *)
(* DeleteDNSRecord eventually return nil, whatever earlier calls left.    *)
DeleteRetryConverges == phase = "deleting" ~> phase = "deleted"

(* A record the provisioner believes created exists in every zone of the  *)
(* list: the log line of dns.go says a zone whose lookup fails is skipped, *)
(* not that the remaining zones are abandoned.                            *)
CreatedEverywhere == phase = "created" => \A z \in Zones : hasRecord[z]

(* A record the provisioner believes deleted is gone from every zone.     *)
DeletedEverywhere == phase = "deleted" => \A z \in Zones : ~hasRecord[z]

(* Retrying CreateDNSRecord after a failure eventually succeeds, unless   *)
(* deletion is requested first: re-polling is idempotent (spec 1).        *)
CreateRetryConverges == phase = "creating" ~> phase # "creating"

=============================================================================
