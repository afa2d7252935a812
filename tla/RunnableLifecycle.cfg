CONSTANT Routines = {g1, g2, g3}
SPECIFICATION FairSpec
INVARIANTS TypeOK ExitChanSafe
PROPERTIES FirstDecisionStands EndedReturns
CHECK_DEADLOCK FALSE
