SPECIFICATION Spec
CONSTANTS
    s1 = s1
    s2 = s2
    c1 = c1
    c2 = c2
    NWorkers = 2
    Threads = {app}
    Main = main
    Servers = {s1, s2}
    Clients = {c1, c2}
    Tasks = {main, s1, s2, c1, c2}
    Copy <- CopyOfEach
    Kinds <- RpcTls
    Backlog = 1
    MaxFaults = 1
INVARIANTS CounterExact JoinedIsEmpty
PROPERTIES PlacementSpec
CHECK_DEADLOCK FALSE
