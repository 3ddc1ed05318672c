CONSTANTS
    c1 = c1
    c2 = c2
    Clients <- MC_Clients
    None = None
    LineKinds = {"crlf", "host"}
    MaxHeaders = 2
    MaxResponse = 2
    ConnectResults = {TRUE}
SPECIFICATION Spec
INVARIANT RequestLineForwarded
CHECK_DEADLOCK FALSE
