SPECIFICATION Spec
CONSTANTS
    c1 = c1
    c2 = c2
    c3 = c3
    Conn = {c1, c2, c3}
    Session = {s1, s2}
    NoSession = NoSession
    ip = ip
    Ip = {ip}
    IpOf <- MCIpOf
    ConnsPerIP = 2
    Writer = {c1, c2}
    NoItem = NoItem
    MaxUpdates = 2
    IncomingCap = 1
    OutboundCap = 2
    StoreFaults = TRUE
SYMMETRY Symmetry
INVARIANTS TypeOK NothingBeforeDurable FanOutReachesAll
