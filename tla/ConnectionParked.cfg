CONSTANTS
    s1 = s1
    h1 = h1
    k1 = k1
    k2 = k2
    a1 = a1
    a2 = a2
    None = None
    Servers <- MCServers
    Hosts <- MCHosts
    Keys <- MCKeys
    Attempts <- MCAttempts
    HostOf <- MCHostOf
    NeedsSecret <- MCServers
    CONNECT_TIMEOUT = 15
    PROMPT_TIMEOUT = 120
SPECIFICATION Spec
PROPERTY ParkedUntilAnswered
