SPECIFICATION Spec
CONSTANTS
    Ids = {p, q}
    Numbers = {m, n}
    Colors = {c}
    Insts = {i1, i2, i3}
    Ops = {o1, o2}
    MaxOps = 3
    MaxEvents = 1
    None = None
SYMMETRY Symmetry
INVARIANTS InstancesMatchEntries ColorsDistinct DefaultRoutes
\* Operations and events are bounded, so a run stops.
CHECK_DEADLOCK FALSE
