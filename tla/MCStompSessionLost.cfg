SPECIFICATION FairSpec
CONSTANT MaxMessages = 1
PROPERTY ConnectedIsCurrent
CHECK_DEADLOCK FALSE
