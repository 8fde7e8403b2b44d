SPECIFICATION Spec
CONSTANTS
    Users = {u1}
    Projects = {p1, p2}
    Roles = {editor}
    Masks = {m1, m2}
    None = None
    Resolvers = {r1, r2}
    Writers = {w1, w2}
    Faults = {"redis", "tx"}
    MaxNow = 1
    MaxWrites = 2
    MaxBusy = 3
SYMMETRY Symmetry
INVARIANTS TypeOK StaleEntryExplained
PROPERTIES EntriesNeverGoBack OtherProjectsKept
CONSTRAINT FewAtOnce
