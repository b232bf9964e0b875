\* One server thread; script.gafq may fail to load.  The stack limit is scaled
\* down from 8000 so that a few messages reach it.
CONSTANTS
    Producers = {server}
    Careful = {server}
    Actions = {"start_action"}
    Contents = {""}
    Outcomes = {"ok", "error"}
    NullMsg = NullMsg
    MaxCalls = 4
    MAXCSTACK = 5
SPECIFICATION Spec
INVARIANT StackWithinLimit
