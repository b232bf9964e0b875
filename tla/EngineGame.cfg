\* The engine as game.cpp uses it: one server thread, always start_action.
CONSTANTS
    Producers = {server}
    Careful = {server}
    Actions = {"start_action"}
    Contents = {""}
    Outcomes = {"ok", "error"}
    NullMsg = NullMsg
    MaxCalls = 4
    MAXCSTACK = 8000
SPECIFICATION FairSpec
INVARIANTS CountsAgree StackBalanced
PROPERTY ImplementsMailbox
