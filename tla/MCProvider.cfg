SPECIFICATION Spec
CONSTANTS
    e1 = e1
    e2 = e2
    n1 = n1
    p1 = p1
    p2 = p2
    Endpoint = {e1, e2}
    Network = {n1}
    RouterRecovery = TRUE
    None = None
    Alien = Alien
    Keep = Keep
    Proc = {p1, p2}
    Nobody = Nobody
    Fragile <- Flags
    MaxOf <- OneRaise
    MaxCopies = 2
    MaxFaults = 1
INVARIANTS
    ProviderInformed
