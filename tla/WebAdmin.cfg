SPECIFICATION Spec
CONSTANTS
    Pairs = {PairA, PairB}
    Generated = Generated
    NoFile = NoFile
    MaxFaults = 1
    MaxCrashes = 1
    Addresses = {a1, a2}
    Tokens = {t1, t2, t3}
    Passwords = {first, second}
    Default = first
    MaxSessions = 2
    MaxRecords = 1
    Limit = 2
    Window = 4
    Block = 2
    Lifetime = 3
    MaxTime = 5
    MaxRequests = 5
    Nobody = Nobody
SYMMETRY Symmetry
INVARIANTS StoredIsServed PairOnDisk SessionsKnowPassword PasswordAcknowledged AttemptsLimited
PROPERTIES NoLostUpdate
