\* Clients that wait for the server between frames, as somebody typing does.
CONSTANTS
    Conns = {c1, c2}
    NoConn = NoConn
    BodyLens = {1, 2}
    BodyCode = 123
    MaxFrames = 3
    MaxFds = 2
    Pipelined = FALSE
    Pieces = {}
    Resets = FALSE
    max_body_length = 3
    SIZE_MOD = 65536
SPECIFICATION FairSpec
INVARIANT FramesIntact
PROPERTIES FramesServed FdsReclaimed
\* The server waits for clients that need not come.
CHECK_DEADLOCK FALSE
