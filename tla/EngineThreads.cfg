\* Two threads, one of which calls ExecGafq as game.cpp does, the other with any
\* arguments or none; every way a script may end.
CONSTANTS
    Producers = {p1, p2}
    Careful = {p1}
    Actions = {"start_action", "no_such_function"}
    Contents = {"", "chunk"}
    Outcomes = {"ok", "error", "nil_error"}
    NullMsg = NullMsg
    MaxCalls = 3
    MAXCSTACK = 8000
SPECIFICATION Spec
INVARIANTS TypeOK CallOrder Count2Exact CountNeverAhead CarefulNeverKill EngineInv
PROPERTY ImplementsSafeMailbox
\* A crash of the process is the end of the behaviour.
CHECK_DEADLOCK FALSE
