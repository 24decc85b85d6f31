SPECIFICATION RecordsSpec
CONSTANTS
    Calls = {c1}
    ProviderCalls = {p1}
    Devices = {d1, d2}
    Kinds = {"sip", "gateway", "echo"}
    NoCall = NoCall
    NoProviderCall = NoProviderCall
    NoDevice = NoDevice
    Absent = Absent
    MaxAnswers = 2
    RetriedWebhooks = FALSE
    Faults = {"crash"}
SYMMETRY Symmetry
INVARIANTS
    AnsweredNotMissed
    OpenOnlyThisRun
    SessionKept
PROPERTIES
    NoteMovesForward
CHECK_DEADLOCK FALSE
