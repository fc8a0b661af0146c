\* Requests of every kind for one tenant, against the ticker.
CONSTANTS
    Users = {u1}
    Threads = {t1, t2}
    Insts = {i1, i2, i3}
    Models = {m1}
    Configs = {c0}
    Template = c0
    Kinds <- RequestKinds
    Reaper = Reaper
    NoInst = NoInst
    NoBuild = NoBuild
    NoRow = NoRow
    NoFile = NoFile
    Torn = Torn
    NoThread = NoThread
    NoUser = NoUser
    ProfileThreshold = 2
SYMMETRY Symmetry
SPECIFICATION Spec
INVARIANTS TypeOK IInv  NoInstanceLost  
PROPERTIES TurnNotCut PoolAsSpecified
