CONSTANTS
    MaxEvents = 4
    MaxCallers = 2
SPECIFICATION FairSpec
INVARIANTS
    NothingLost
    NotStranded
PROPERTIES
    ImplementsDurableLog
    WritesSettle
