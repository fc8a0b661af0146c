\* Two requests for two users, with one failure or crash.
CONSTANTS
    a = a
    b = b
    r1 = r1
    r2 = r2
    k1 = k1
    Users = {a, b}
    Requests = {r1, r2}
    Tokens = {k1}
    NoUser = NoUser
    NoRow = NoRow
    NoKey = NoKey
    NoToken = NoToken
    Shared = Shared
    Given = Given
    Faults = {"gateway", "store", "revoke", "secret", "crash"}
    MaxFaults = 1
SPECIFICATION LiveAccountSpec
INVARIANTS AccountTypeOK KeyIsOwn RowHasFiles  RevocationLasts
PROPERTIES RowKept HalfRegisteredRecovers
