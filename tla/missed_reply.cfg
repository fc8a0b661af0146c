\* The answer comes between the history and the connection.
CONSTANTS
    c1 = c1
    c2 = c2
    c3 = c3
    Socks = {c1, c2}
    NoSock = NoConn
    Sessions = {"web", "api"}
    NoSession = ""
    Statuses = {"running"}
    MaxAsked = 1
    Conns = {c1, c2}
    NoConn = NoConn
    Users = {"web"}
    MaxConns = 2
    MaxMsg = 1
    Web = "web"
    Api = "api"
    ApiUsed = FALSE
    Commands = FALSE
    Slow = FALSE
    MaxBreaks = 0
SPECIFICATION ChatSpec
INVARIANT ShowsAnswers
