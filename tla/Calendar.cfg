SPECIFICATION Spec
CONSTANTS
    Days = 2
    Hours = 2
    Handlers = {h1, h2}
    MaxRequests = 3
INVARIANTS EventSound FieldsKept
