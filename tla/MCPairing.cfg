\* Two sessions, one after the other or at once, of which at least one page is the
\* same, and a page that is reloaded or a store that forgets.
SPECIFICATION FairSpec
CONSTANTS
    d1 = d1
    d2 = d2
    d3 = d3
    Device = {d1, d2, d3}
    Routes <- ThreeRoutes
    InitialTrust <- SomeTrust
    MaxAttempts = 2
    MaxChunks = 1
    MaxSessions = 2
    Unstable = {d1}
    MaxFaults = 1
INVARIANTS TypeOK DialogBelongs PinIsKeptUp TrustIsMutual 
PROPERTIES SessionsEnd
CHECK_DEADLOCK FALSE
