\* The network breaks twice, turns are slow, one connection is admitted, and the user
\* sends a question or a command, or uses the REST API.
CONSTANTS
    c1 = c1
    c2 = c2
    c3 = c3
    Socks = {c1, c2}
    NoSock = NoConn
    Sessions = {"web", "api"}
    NoSession = ""
    Statuses = {"running"}
    MaxAsked = 1
    Conns = {c1, c2}
    NoConn = NoConn
    Users = {"web"}
    MaxConns = 1
    MaxMsg = 1
    Web = "web"
    Api = "api"
    ApiUsed = TRUE
    Commands = TRUE
    Slow = TRUE
    MaxBreaks = 2
SPECIFICATION FairChatSpec
INVARIANTS ChatTypeOK  StoredOnce
PROPERTIES  Reconnects TypingEnds
