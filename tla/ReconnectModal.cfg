SPECIFICATION FairSpec
CONSTANT MaxOverlaps = 3
INVARIANTS TypeOK DialogMatchesConnection FailedIsRetried OneRetryUnlessClicked
PROPERTIES ReloadNeedsOutage OutagesEnd
