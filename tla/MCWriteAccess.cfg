SPECIFICATION Spec
CONSTANTS
    Conn = {c1, c2}
    Session = {s1, s2}
    NoSession = NoSession
    ip = ip
    Ip = {ip}
    IpOf <- MCIpOf
    ConnsPerIP = 3
    member = member
    guest = guest
    visitor = c2
    User = {member, guest}
    Guest = {guest}
    UserOf <- MCUserOf
    Change = {k1, k2}
    MaxSilent = 1
SYMMETRY Symmetry
INVARIANTS StaleOnlyForKnownReasons
