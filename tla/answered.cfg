\* Every message is answered, over HTTP and WebSocket, whatever the ticker does.
CONSTANTS
    Users = {u1}
    Threads = {t1, t2}
    Insts = {i1, i2, i3}
    Models = {m1}
    Configs = {c0}
    Template = c0
    Kinds <- AnswerKinds
    Reaper = Reaper
    NoInst = NoInst
    NoBuild = NoBuild
    NoRow = NoRow
    NoFile = NoFile
    Torn = Torn
    NoThread = NoThread
    NoUser = NoUser
    ProfileThreshold = 1
SPECIFICATION LiveSpec
PROPERTIES  IdleReclaimed
