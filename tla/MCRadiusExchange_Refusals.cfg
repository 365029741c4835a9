SPECIFICATION Spec
CONSTANTS
    x = x
    ax = ax
    k1 = k1
    None = None
    Access = {x}
    Accounting = {}
    SessionOf <- NoAcct
    Keys = {k1}
    KeyOf <- OneSession
    Outcomes <- EveryOutcome
    Resends = 1
    MaxFaults = 1
    MaxNow = 0
INVARIANT
    RefusalsWereSent
CHECK_DEADLOCK FALSE
