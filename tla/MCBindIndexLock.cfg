SPECIFICATION LockSpec
CONSTANTS
    i1 = i1
    i2 = i2
    m1 = m1
    d1 = d1
    a1 = a1
    sub = sub
    reload = reload
    lua1 = lua1
    IDs <- MCIDs
    IPs <- MCIPs
    Macs <- MCMacs
    DeviceMacs <- MCDeviceMacs
    Ports <- MCPorts
    LiveBinds <- MCLiveBinds
    Lookups <- MCLookups
    Writers <- MCWriters
    Readers <- MCReaders
    NoMac = NoMac
    NoPort = NoPort
    NoOp = NoOp
    NoAnswer = NoAnswer
    NoWriter = NoWriter
INVARIANTS
    LockInv
PROPERTIES
    ImplementsTable
    EveryLookupAnswered
    EveryUpdateApplied
