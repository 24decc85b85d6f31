CONSTANTS
    InCalls = {in1}
    OutCalls = {out1}
    Attempts = {1, 2}
    None = None
    MaxEvents = 2
    MaxDrops = 1
    MaxInbox = 1
SPECIFICATION FairSpec
INVARIANTS WebTypeOK SurfaceMatchesSession SingleSurface HeldNotShown OfferRings
PROPERTIES SetupEnds
CHECK_DEADLOCK FALSE
