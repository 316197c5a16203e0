\* A registration takes over from the one that is in use.
SPECIFICATION Spec
CONSTANTS
    a = a  b = b
    p1 = p1  p2 = p2
    c1 = c1  c2 = c2  c3 = c3
    None = None
    Devices = {a, b}
    Conns = {c1, c2, c3}
    Pages = {p1, p2}
    DeviceOf <- TwoPages
    Scenes <- Known
    MissedLimit = 1
    GiveUpAfter = 1
    MaxFaults = 2
    MaxSignals = 0
PROPERTY ReplacedIsStale
CHECK_DEADLOCK FALSE
