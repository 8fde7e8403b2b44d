SPECIFICATION Spec
CONSTANTS
    Writers = {w1, w2}
    MaxRequests = 3
    MaxFaults = 1
INVARIANTS ContentSound ContentNotOlder
PROPERTIES ArchivedEditsAreStale
