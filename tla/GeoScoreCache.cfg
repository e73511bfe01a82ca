SPECIFICATION FairSpec
CONSTANTS
    Procs = {p1, p2}
    Free = free
    Address <- Places
    Known <- KnownPlaces
    Invalid <- Numbers
    Retries = 1
    FaultSets <- Some
INVARIANTS
    TypeOK
    MemoryAgrees
    KnownNeverZero
PROPERTIES
    WriteOnce
    EveryCallEnds
