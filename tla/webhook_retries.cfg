SPECIFICATION Spec
CONSTANTS
    Calls = {c1, c2}
    ProviderCalls = {p1, p2}
    Devices = {d1}
    Kinds = {"sip", "gateway"}
    NoCall = NoCall
    NoProviderCall = NoProviderCall
    NoDevice = NoDevice
    MaxAnswers = 0
    RetriedWebhooks = TRUE
    Faults = {}
SYMMETRY Symmetry
INVARIANTS
    NoDanglingId
    HangupFindsCall
CHECK_DEADLOCK FALSE
