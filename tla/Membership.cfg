SPECIFICATION FairSpec
CONSTANTS
    Users = {founder, guest}
    Founder = founder
    Roles = {Owner, Editor}
    OwnerRole = Owner
    None = None
    Handlers = {h1, h2}
    TTL = 0
    MaxNow = 1
    MaxRequests = 3
INVARIANTS MembershipSound JoinExplained ReadersSeeEverybody
PROPERTIES FollowsEnrolment EveryRequestAnswered
