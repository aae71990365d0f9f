\* Three senders, a proxy and a relay; two hints; two requests at once.
CONSTANTS
    None = None
    a1 = a1
    a2 = a2
    outsider = outsider
    proxy = proxy
    relay = relay
    token = token
    guess = guess
    cli = cli
    alice = alice
    bob = bob
    w1 = w1
    w2 = w2
    Hints = {alice, bob}
    Addresses <- MCAddresses
    Paths <- MCPaths
    Forged <- MCForged
    Trusted = {proxy}
    Allowed = {a1, a2}
    Credentials = {token, guess}
    ClientID <- MCClientID
    Gated = TRUE
    Workers = {w1, w2}
    Cost = 1
    Burst = 1
    IdleTTL = 1
    MaxTime = 2
SYMMETRY Symmetry
SPECIFICATION Spec
INVARIANTS
    AdmissionTypeOK
    SourceBudget
    StartedByAllowed
    RefusedSpendNothing
