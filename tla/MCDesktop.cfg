\* A laptop and two others that may be the coordinator, which changes three times.
SPECIFICATION FairSpec
CONSTANTS
    h1 = h1
    h2 = h2
    h3 = h3
    None = None
    Hosts = {h1, h2, h3}
    Own = h1
    MaxChanges = 3
INVARIANTS TypeOK WindowFollows PhoneFindsCoordinator
PROPERTIES WindowComes
CHECK_DEADLOCK FALSE
