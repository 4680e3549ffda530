SPECIFICATION SharingSpec
CONSTANTS
    Person = {ann}
    MaxInvites = 3
    Handler = {h1, h2}
SYMMETRY Sym
INVARIANTS
    UpsertIsIdempotent
CHECK_DEADLOCK FALSE
