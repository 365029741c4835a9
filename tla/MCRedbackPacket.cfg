SPECIFICATION Spec
CONSTANTS
    Redback = 2352
    Histories <- ShortAndLong
    Received <- AnyBytes
    Asked <- OptionOnly
    Strings <- EdgeStrings
    Numbers <- EdgeNumbers
    Tags = {0, 5, 32}
INVARIANTS
    WritesReadBack
    ChangesAreSafe
    ReceivedIsRead
CHECK_DEADLOCK FALSE
