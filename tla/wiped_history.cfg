\* The hard abort of a tenant's turn.
SPECIFICATION Spec
CONSTANTS
    t1 = t1
    t2 = t2
    Turns = {t1}
    NoTurn = NoTurn
    Drivers = {"direct"}
    Kinds = {"stop"}
    Threshold = 1
    Keep = 1
    LoopMessages = 0
    LongMessages = 0
    DirectMessages = 4
    MaxSaid <- MCMaxSaid
PROPERTIES
    AbortRestores
CHECK_DEADLOCK FALSE
