SPECIFICATION HubFairSpec
CONSTANTS
    Conn = {c1, c2, c3, c4}
    Session = {s1, s2, s3}
    NoSession = NoSession
    ip1 = ip1
    ip2 = ip2
    lone = c1
    Ip = {ip1, ip2}
    IpOf <- MCIpOf
    ConnsPerIP = 2
INVARIANT HubTypeOK
INVARIANT ClosedSessionsAreEmpty
INVARIANT EmptySessionsHaveLeaver
INVARIANT SlotsAreExact
PROPERTY EmptySessionsClose
