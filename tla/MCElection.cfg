\* Two runs on one host and two elsewhere, which start, bind, lose and leave.
SPECIFICATION FairSpec
CONSTANTS
    l1 = l1  l2 = l2  l3 = l3  l4 = l4
    h1 = h1  h2 = h2  h3 = h3
    Laptops = {l1, l2, l3, l4}
    Hosts = {h1, h2, h3}
    HostOf <- SharedHost
    NumAddresses = 2
    Lossy = TRUE
    None = None
INVARIANTS TypeOK OneCoordinatorPerHost AdvertisedIsTrue PageFollowsHost
PROPERTIES LossIsRepaired ShellsAreTold
CHECK_DEADLOCK FALSE
