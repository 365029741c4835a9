SPECIFICATION LiveSpec
CONSTANTS
    t1 = t1
    t2 = t2
    None = None
    NoJob = NoJob
    Requests <- ThreeRequests
    NConns = 1
    NIds = 1
    Copies = 1
    Workers = {w1, w2}
    ByCount = TRUE
    Paced = TRUE
    Quota = 2
    Latencies = {1, 2}
    MaxRequests = 4
    MaxPacketErrors = 2
    Transactions <- TwoTransactions
    Clients = {1}
    Identifiers = {1, 2}
    Datagrams = 5
    Replayers = {v1, v2}
INVARIANTS
    BenchInv
    LoadInv
    ClientInv
    ReplayInv
PROPERTIES
    ToolsEnd
CHECK_DEADLOCK FALSE
