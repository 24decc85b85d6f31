SPECIFICATION FairSpec
CONSTANTS
    Devices = {d1, d2}
    Tabs = {t1}
    Socks = {s1, s2}
    MaxEvents = 2
    None = None
PROPERTIES AbandonedDevicesLeave TabsAreServed
\* Events are bounded, so a run stops.
CHECK_DEADLOCK FALSE
