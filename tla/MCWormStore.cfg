\* Two calls of every kind overlap with an insert of an old or a new event.
SPECIFICATION FairSpec
CONSTANTS
    c1 = c1
    c2 = c2
    e1 = e1
    None = None
    Calls <- TwoCalls
    Kinds <- AllKinds
    Events <- OneEvent
    Layouts <- BothLayouts
    MaxTime = 1
INVARIANT TypeOK
INVARIANT NothingLost
INVARIANT CompliantIsBlocked
INVARIANT ProtectedIsBlocked
PROPERTY ImplementsWormTable
PROPERTY LockReleased
CHECK_DEADLOCK FALSE
