SPECIFICATION Spec
CONSTANTS
    Messages = {m2}
    Multipart = {m2}
    Slots = {s1, s2}
    Handlers = {h1, h2}
    Drain = Drain
    None = None
    Capacity = 2
    Faults = {"stale"}
    MaxOutages = 1
SYMMETRY Symmetry
INVARIANTS
    NothingLost
PROPERTIES
    ImplementsService
CHECK_DEADLOCK FALSE
