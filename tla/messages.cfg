SPECIFICATION Spec
CONSTANTS
    Peers = {p}
    Owns = {a, b}
    Inbound = {i}
    Outbound = {o}
    Deliveries = {d1, d2}
    MaxActs = 1
    MaxReqs = 1
    MaxFaults = 1
    MaxInbox = 1
    None = None
SYMMETRY Symmetry
INVARIANTS MessagesTypeOK ReceivedOnce MessageRestoresThread OneSendAtATime PendingIsWorkedOn
CHECK_DEADLOCK FALSE
