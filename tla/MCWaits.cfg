SPECIFICATION Spec
INVARIANTS OwnChangesHold
PROPERTIES SessionHolds UpdatesHold PageWaitsEnd ServerWorkEnds
CHECK_DEADLOCK FALSE
