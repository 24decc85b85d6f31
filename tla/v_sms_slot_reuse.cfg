SPECIFICATION Spec
CONSTANTS
    Messages = {m1, m2}
    Multipart = {}
    Slots = {s1}
    Handlers = {h1, h2}
    Drain = Drain
    None = None
    Capacity = 2
    Faults = {"reuse"}
    MaxOutages = 0
PROPERTIES
    PersistedBeforeDelete
CHECK_DEADLOCK FALSE
