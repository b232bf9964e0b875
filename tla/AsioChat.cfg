\* A line sent twice and two messages for the client: in either direction one
\* message can wait behind another.
CONSTANTS
    MaxLines = 1
    cnt_n = 2
    MaxShown = 2
SPECIFICATION ChatFairSpec
INVARIANTS ChatInv OneOfEach Conservation EndToEnd
PROPERTIES NothingStuck JoinReturns SessionFreed AcceptsAgain
\* The client ends, or waits for somebody to type.
CHECK_DEADLOCK FALSE
