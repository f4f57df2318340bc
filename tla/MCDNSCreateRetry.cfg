CONSTANTS
    z1 = z1
    z2 = z2
    z3 = z3
    ZoneList <- MCZoneList
    MaxFaults = 2
SPECIFICATION Spec
PROPERTIES
    CreateRetryConverges
