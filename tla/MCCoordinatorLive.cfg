\* Two devices, of which one may be of a version the coordinator does not know: the
\* system settles once faults have ceased.
SPECIFICATION FairSpec
CONSTANTS
    a = a  b = b
    p1 = p1  p2 = p2
    c1 = c1  c2 = c2  c3 = c3
    None = None
    Devices = {a, b}
    Conns = {c1, c2, c3}
    Pages = {p1, p2}
    DeviceOf <- TwoPages
    Scenes <- KnownOrNewer
    MissedLimit = 1
    GiveUpAfter = 1
    MaxFaults = 1
    MaxSignals = 0
PROPERTIES Settles SilentIsEvicted
CHECK_DEADLOCK FALSE
