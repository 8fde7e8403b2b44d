SPECIFICATION Spec
CONSTANTS
    None = None
    s1 = s1  j1 = j1  p1 = p1  i1 = i1  t1 = t1  f1 = f1
    Arts = {s1, p1, i1, t1}
    Kind <- Chain
    Handlers = {h1}
    Faults = {}
    MaxRev <- ChainRevs
PROPERTIES ImmutableKept TransitionsLegal ChosenUnderLock
CONSTRAINT Small
