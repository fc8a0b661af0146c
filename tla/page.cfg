\* A page among all orders of callbacks, status changes and socket events.
CONSTANTS
    s1 = s1
    s2 = s2
    s3 = s3
    Socks = {s1, s2, s3}
    NoSock = NoSock
    Sessions = {"web", "api"}
    NoSession = ""
    Statuses = {"running", "starting", "restarting", "stopped", "error"}
    MaxAsked = 1
SYMMETRY SockSymmetry
SPECIFICATION ClientSpec
INVARIANTS ClientTypeOK OneSocket NeverStranded HonestStatus Following
