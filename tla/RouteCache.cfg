SPECIFICATION FairSpec
CONSTANTS
    p1 = p1
    p2 = p2
    Procs = {p1, p2}
    Readers = {r1}
    Writers = {w1}
    Tags = {members, roles}
    None = None
    TokenCache <- OneCaches
    FailOpen = TRUE
    MaxWrites = 1
INVARIANTS
    TypeOK
    CurrentEntryCoversBumps
    StaleEntryExplained
    UncachedTokensSeeWrite
PROPERTIES
    StalenessEnds
