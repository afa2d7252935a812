CONSTANT Routines = {g1}
SPECIFICATION FairSpec
PROPERTY CancelledReturns
CHECK_DEADLOCK FALSE
