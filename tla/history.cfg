\* Two turns of one session, and a longer session that is only truncated.
SPECIFICATION Spec
CONSTANTS
    t1 = t1
    t2 = t2
    Turns = {t1, t2}
    NoTurn = NoTurn
    Drivers = {"loop", "direct"}
    Kinds = {"stop", "hook", "clear", "delete", "compress", "summary", "crash"}
    Threshold = 1
    Keep = 1
    LoopMessages = 5
    LongMessages = 8
    DirectMessages = 3
    MaxSaid <- MCMaxSaid
SYMMETRY TurnSymmetry
CONSTRAINT Bounded
INVARIANTS
    HistoryInv
PROPERTIES
    HistoryIsLog
    TruncateKeepsLast
