SPECIFICATION FairSpec
CONSTANTS
    Messages = {m1}
    Multipart = {}
    Slots = {s1}
    Handlers = {h1, h2}
    Drain = Drain
    None = None
    Capacity = 2
    Faults = {"disk", "at"}
    MaxOutages = 2
PROPERTIES
    InboxDrains
CHECK_DEADLOCK FALSE
