CONSTANTS
    a = a
    b = b
    s1 = s1
    s2 = s2
    Ids <- TwoReports
    Secrets <- TwoSecrets
    Off = Off
    Nil = Nil
    Forged = Forged
    Expiries <- AnyExpiry
    PerSecond = 2
    DefaultTTL = 4
    TTL = 3
    Lifetimes <- AnyLifetime
    MaxNow = 6
    MaxLinks = 2
SPECIFICATION Spec
INVARIANTS
    LinksLiveAtMostTTL
