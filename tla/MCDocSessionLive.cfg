SPECIFICATION FairSpec
CONSTANTS
    c1 = c1
    c2 = c2
    Conn = {c1, c2}
    Session = {s1, s2}
    NoSession = NoSession
    ip = ip
    Ip = {ip}
    IpOf <- MCIpOf
    ConnsPerIP = 3
    Writer = {c1, c2}
    NoItem = NoItem
    MaxUpdates = 2
    IncomingCap = 2
    OutboundCap = 2
    StoreFaults = FALSE
PROPERTIES KeepsDurableLog QueuedIsAcked
