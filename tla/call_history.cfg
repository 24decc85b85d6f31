SPECIFICATION Spec
CONSTANTS
    Old = 1
    New = 2
    Cap = 2
    PageSize = 1
    Lines = {m, n}
    Slots = {s1, s2}
    MaxEvents = 1
    None = None
SYMMETRY Symmetry
VIEW View
INVARIANTS CapKept ListedOnce ListIsCurrent
\* Calls and events are bounded, so a run stops.
CHECK_DEADLOCK FALSE
