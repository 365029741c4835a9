SPECIFICATION IndexSpec
CONSTANTS
    i1 = i1
    i2 = i2
    i3 = i3
    m1 = m1
    m2 = m2
    d1 = d1
    a1 = a1
    IDs <- MCIDs
    IPs <- MCIPs
    Macs <- MCMacs
    DeviceMacs <- MCDeviceMacs
    Ports <- MCPorts
    NoMac = NoMac
    NoPort = NoPort
INVARIANTS
    IndexTypeOK
    IndexInv
    LookupsFollowTable
