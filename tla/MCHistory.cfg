SPECIFICATION Spec
CONSTANTS
    Author = {a1, a2}
    Node = {n1, n2}
    MaxSnapshots = 1
    PageSize = 1
    MaxUpdates = 2
    MaxVersions = 3
SYMMETRY Symmetry
INVARIANTS VersionsFollowLog NewestSnapshotsAreKept
    LaterUpdatesAreKept PagesMissNothing
