CONSTANTS
    Conns = {c1, c2}
    Requests = {r1}
    None = None
    MaxEvents = 1
SPECIFICATION FairSpec
INVARIANTS LinkTypeOK NothingLeftBehind
PROPERTIES LinkRecovers
CHECK_DEADLOCK FALSE
