SPECIFICATION Spec
CONSTANTS
    Emails = {e1}
    Handlers = {h1, h2}
    MaxVersion = 2
    MaxCodes = 2
SYMMETRY Symmetry
INVARIANTS
    SignupKeepsPromise
    SessionsExplained
    FeedbackStatusTrue
