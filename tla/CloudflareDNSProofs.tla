------------------------- MODULE CloudflareDNSProofs -------------------------
(***************************************************************************)
(* Proofs about the Cloudflare DNS client, for every zone list and every   *)
(* fault bound.                                                            *)
(***************************************************************************)
EXTENDS CloudflareDNS, TLAPS

(* TypeOK is inductive as it stands. *)
IInv == TypeOK

(* The zone at a loop index inside the list is one of the zones. *)
LEMMA ZoneAtIndex ==
    ASSUME NEW k \in 1 .. Len(ZoneList)
    PROVE  ZoneList[k] \in Zones
BY DEF Zones

LEMMA LenNat == Len(ZoneList) \in Nat
BY DNSConstantsAssumption

LEMMA InitIInv == Init => IInv
BY LenNat, DNSConstantsAssumption
   DEF Init, IInv, TypeOK, Phases, Ops, Results

LEMMA NextIInv == IInv /\ [Next]_vars => IInv'
<1> SUFFICES ASSUME IInv, [Next]_vars PROVE IInv'
    OBVIOUS
<1> USE LenNat, DNSConstantsAssumption
    DEF IInv, TypeOK, Return, InCall, Fault, Phases, Ops, Results
<1>1. CASE CreateLoopDone
  BY <1>1 DEF CreateLoopDone
<1>2. CASE CreateZoneLookupFails
  BY <1>2 DEF CreateZoneLookupFails
<1>3. CASE CreateInZone
  <2> DEFINE z == ZoneList[i]
  <2>1. z \in Zones
    BY <1>3, ZoneAtIndex DEF CreateInZone
  <2>2. TypeOK'
    <3>1. hasRecord' \in [Zones -> BOOLEAN]
      BY <1>3, <2>1 DEF CreateInZone
    <3>2. i' \in 1 .. Len(ZoneList) + 1
      BY <1>3 DEF CreateInZone
    <3>3. faults' \in 0 .. MaxFaults /\ result' \in Results
      BY <1>3 DEF CreateInZone
    <3>4. UNCHANGED <<phase, op>>
      BY <1>3 DEF CreateInZone
    <3> QED BY <3>1, <3>2, <3>3, <3>4
  <2> QED BY <2>2
<1>4. CASE DeleteLoopDone
  BY <1>4 DEF DeleteLoopDone
<1>5. CASE DeleteZoneLookupFails
  BY <1>5 DEF DeleteZoneLookupFails
<1>6. CASE DeleteRecordLookup
  BY <1>6 DEF DeleteRecordLookup
<1>7. CASE DeleteInZone
  <2> DEFINE z == ZoneList[i]
  <2>1. z \in Zones
    BY <1>7, ZoneAtIndex DEF DeleteInZone
  <2>2. TypeOK'
    <3>1. hasRecord' \in [Zones -> BOOLEAN]
      BY <1>7, <2>1 DEF DeleteInZone
    <3>2. i' \in 1 .. Len(ZoneList) + 1
      BY <1>7 DEF DeleteInZone
    <3>3. faults' \in 0 .. MaxFaults /\ result' \in Results
      BY <1>7 DEF DeleteInZone
    <3>4. UNCHANGED <<phase, op>>
      BY <1>7 DEF DeleteInZone
    <3> QED BY <3>1, <3>2, <3>3, <3>4
  <2> QED BY <2>2
<1>8. CASE CallCreate
  BY <1>8 DEF CallCreate
<1>9. CASE CallDelete
  BY <1>9 DEF CallDelete
<1>10. CASE CallReturned
  BY <1>10 DEF CallReturned, Phases, Ops, Results
<1>11. CASE RequestDeletion
  BY <1>11 DEF RequestDeletion, Phases
<1>12. CASE UNCHANGED vars \/ (Finished /\ UNCHANGED vars)
  BY <1>12 DEF vars
<1> QED
  BY <1>1, <1>2, <1>3, <1>4, <1>5, <1>6, <1>7, <1>8, <1>9, <1>10, <1>11, <1>12
     DEF Next, Client, Caller

(* Every state the client and its caller reach is well typed; in          *)
(* particular the loop index of dns.go stays inside 1 .. Len(ZoneList)+1. *)
THEOREM DNSTypeCorrect == Spec => []TypeOK
<1>1. Init => IInv BY InitIInv
<1>2. IInv /\ [Next]_vars => IInv' BY NextIInv
<1>3. IInv => TypeOK BY DEF IInv
<1> QED BY <1>1, <1>2, <1>3, PTL DEF Spec

=============================================================================
