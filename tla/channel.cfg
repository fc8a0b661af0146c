\* Two connections of two users that race for one place, with two messages, and Stop.
CONSTANTS
    c1 = c1
    c2 = c2
    c3 = c3
    ann = ann
    bob = bob
    Conns = {c1, c2}
    NoConn = NoConn
    Users = {ann, bob}
    MaxConns = 1
    MaxMsg = 2
SPECIFICATION FairPicoSpec
INVARIANTS PicoTypeOK IndexesAgree WithinLimit NoneForgotten  
PROPERTIES StopEmpties LostIsRemoved
