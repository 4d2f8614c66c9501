SPECIFICATION Spec
CONSTANTS
    me = me
    other = other
    Me <- me
    AuthorOf <- MCAuthorOf
    Filters <- MCFilters
    Existing = 2
    PAGE = 1
    MaxChanges = 1
INVARIANTS
    TypeOK
    PollingNeverStops
    FilterHolds
    PagesAreWhole
PROPERTY
    FeedConverges
