\* Three laptops; one of them leaves and another takes its place.
SPECIFICATION Spec
CONSTANTS
    l1 = l1  l2 = l2  l3 = l3  l4 = l4
    h1 = h1  h2 = h2  h3 = h3
    Laptops = {l1, l2, l3}
    Hosts = {h1, h2, h3}
    HostOf <- OwnHosts
    NumAddresses = 1
    Lossy = FALSE
    None = None
PROPERTY JoinsTheWinner
CHECK_DEADLOCK FALSE
