\* Every way to start, and up to three messages.
CONSTANT MaxMsgs = 3
SPECIFICATION FairSpec
INVARIANTS StartupInv OneConfig ServerHasConfig OneEngineIsReady
PROPERTIES EngineSettles OneEngineExecutes
\* The process may end.
CHECK_DEADLOCK FALSE
