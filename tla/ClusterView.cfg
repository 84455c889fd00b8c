SPECIFICATION LiveSpec
CONSTANTS
    Ranks = {0, 1, 2}
    Local0 <- TwoHosts
    Addrs = {"a0", "a1", "a2", "b2"}
    NoAddr = NoAddr
    FirstAddr <- Home
    Base = 4
    Configured = 48
    Stale = 10
    Timeout = 2
    StreakCap = 1
    FirstWait = {0, 3}
    MayCrash = {1, 2}
    MayRebind = {2}
    Faults <- MCFaults
INVARIANTS RegistrySound LiveAtParent
PROPERTIES LostHostExpires AllListed
