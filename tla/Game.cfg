\* Two clients and descriptors 1 and 2; 3 is the listening socket.  Messages
\* are for whoever has descriptor 1, whose buffer holds one.
CONSTANTS
    Conns = {c1, c2}
    NoConn = NoConn
    MaxFds = 2
    Opers = {"send_data", "update_self", "undecodable"}
    Targets = {1, 3}
    MaxMsgs = 2
    SendRoom = 1
    MaxEdits = 2
SPECIFICATION FairSpec
INVARIANTS GameInv ReachesAddressee ReloadTakes
PROPERTIES AliveExecutes Forwarded
\* The process may be killed, and clients need not do anything.
CHECK_DEADLOCK FALSE
