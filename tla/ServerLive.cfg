SPECIFICATION FairSpec
CONSTANTS
    s1 = s1
    s2 = s2
    c1 = c1
    c2 = c2
    NWorkers = 1
    Threads = {app}
    Main = main
    Servers = {s1}
    Clients = {c1, c2}
    Tasks = {main, s1, c1, c2}
    Copy <- OneCopy
    Kinds <- AllKinds
    Backlog = 1
    MaxFaults = 1
INVARIANTS NothingForgotten PeersDoNotEndServers QueueOwners
PROPERTIES Admitted Closes
CHECK_DEADLOCK FALSE
