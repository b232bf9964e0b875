\* A client that sends its next frame at once, as chat_client does for pasted
\* lines or with a repeat count above 1.
CONSTANTS
    Conns = {c1}
    NoConn = NoConn
    BodyLens = {1, 2}
    BodyCode = 123
    MaxFrames = 2
    MaxFds = 1
    Pipelined = TRUE
    Pieces = {}
    Resets = FALSE
    max_body_length = 3
    SIZE_MOD = 65536
SPECIFICATION Spec
INVARIANT FramesIntact
CHECK_DEADLOCK FALSE
