SPECIFICATION Spec
CONSTANTS
    clients = clients
    smart = smart
    id1 = id1
    x1 = x1
    x2 = x2
    x3 = x3
    Sources <- OneSource
    IDs <- MCIDs
    Slots <- MCSlots
    Nil = Nil
    MaxChanges = 2
INVARIANT
    LastEventWins
