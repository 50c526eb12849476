SPECIFICATION FairSpec
INVARIANTS TransactionOwnsStream ClosedMeansReleased
PROPERTIES KeepsContract
CHECK_DEADLOCK FALSE
