SPECIFICATION FairSpec
CONSTANTS
    Calls = {c1}
    ProviderCalls = {p1}
    Devices = {d1, d2}
    Kinds = {"sip", "gateway", "echo"}
    NoCall = NoCall
    NoProviderCall = NoProviderCall
    NoDevice = NoDevice
    MaxAnswers = 2
    RetriedWebhooks = FALSE
    Faults = {"socket", "sweep", "restart"}
INVARIANTS
    TypeOK
    ClaimAccounted
    OneWinner
    WatchdogArmed
    SessionsOwned
    RegisteredIdResolves
PROPERTIES
    ImplementsLifecycle
    EveryCallEnds
    SessionsReclaimed
\* Every call may be over.
CHECK_DEADLOCK FALSE
