\* Everything that clients and TCP may do: frames that run together, arrive in
\* pieces or are cut off by a reset, and more clients than descriptors.  Bodies
\* stay two bytes below max_body_length.  They are made of ones, so that a
\* server that has lost its place takes pieces of them for lengths.
CONSTANTS
    Conns = {c1, c2, c3}
    NoConn = NoConn
    BodyLens = {0, 2}
    BodyCode = 49
    MaxFrames = 2
    MaxFds = 2
    Pipelined = TRUE
    Pieces = {3, 5}
    Resets = TRUE
    max_body_length = 4
    SIZE_MOD = 65536
SPECIFICATION Spec
SYMMETRY ConnSymmetry
INVARIANTS EpollInv StreamSlices EventsFresh
\* The server waits for clients that need not come.
CHECK_DEADLOCK FALSE
