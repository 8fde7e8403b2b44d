SPECIFICATION Spec
CONSTANTS
    None = None
    s1 = s1  j1 = j1  p1 = p1  i1 = i1  t1 = t1  f1 = f1
    Arts = {j1, f1}
    Kind <- OpenKinds
    Handlers = {h1, h2}
    Faults = {"tx", "log"}
    MaxRev <- OpenRevs
INVARIANT DocumentSound
PROPERTIES FollowsLifecycle
