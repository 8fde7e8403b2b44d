SPECIFICATION ListingSpec
CONSTANTS
    Items = {1, 2, 3, 4}
    Present = {1, 2, 3}
    Writers = {w1, w2}
    MaxWrites = 2
    DefaultLimit = 1
    MaxLimit = 2
INVARIANTS PagesRight OneMissPerDeparture
