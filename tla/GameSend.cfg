\* One client that sends messages to itself and may leave at any time.
CONSTANTS
    Conns = {c1}
    NoConn = NoConn
    MaxFds = 1
    Opers = {"send_data"}
    Targets = {1}
    MaxMsgs = 3
    SendRoom = 1
    MaxEdits = 0
SPECIFICATION FairSpec
PROPERTIES QueuedIsExecuted
\* The process may be killed, and clients need not do anything.
CHECK_DEADLOCK FALSE
