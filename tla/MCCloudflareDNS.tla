--------------------------- MODULE MCCloudflareDNS ---------------------------
(* Three zones, so that a loop can stop before, at and after the middle    *)
(* zone, and two API failures, so that a failed create or delete can be    *)
(* followed by a failed retry.                                             *)
EXTENDS CloudflareDNS

CONSTANTS z1, z2, z3

MCZoneList == <<z1, z2, z3>>
=============================================================================
