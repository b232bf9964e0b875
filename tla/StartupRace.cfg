\* Is every message executed?
CONSTANT MaxMsgs = 2
SPECIFICATION FairSpec
PROPERTY QueuedIsExecuted
CHECK_DEADLOCK FALSE
