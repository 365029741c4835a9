SPECIFICATION LiveSpec
CONSTANTS
    x = x
    ax = ax
    k1 = k1
    None = None
    Access = {x}
    Accounting = {ax}
    SessionOf <- AcctOfX
    Keys = {k1}
    KeyOf <- SharedKey
    Outcomes <- Verdicts
    Resends = 1
    MaxFaults = 2
    MaxNow = 1
INVARIANTS
    ExchangeInv
    AnswersReported
    AccountingInv
PROPERTIES
    EventuallyAnswered
CHECK_DEADLOCK FALSE
