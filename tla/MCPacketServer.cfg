SPECIFICATION LiveSpec
CONSTANTS
    sent = sent
    again = again
    other = other
    r1 = r1
    r2 = r2
    k1 = k1
    k2 = k2
    NoErr = NoErr
    Keys <- MCKeys
    KeyOf <- MCKeyOf
    Datagrams <- MCDatagrams
    Authentic = {sent, again}
    Readers = {r1, r2}
INVARIANTS
    ServerInv
    NilMeansQuiet
PROPERTIES
    ShutdownEnds
    ServeEnds
CHECK_DEADLOCK FALSE
