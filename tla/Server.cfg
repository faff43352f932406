SPECIFICATION Spec
CONSTANTS
    admin = admin
    guest = guest
    ip1 = ip1
    ip2 = ip2
    r1 = r1
    r2 = r2
    Client <- MCClient
    Address <- MCAddress
    AddressOf <- MCAddressOf
    Request <- MCRequest
    MaxFailures = 2
    Lockout = 2
    Limit = 2
    Window = 2
    MaxTime = 3
    Addr = {a1, a2}
    Key = {k1, k2}
    NoKey = NoKey
    Conn = {c1, c2}
    MaxEdits = 1
    MaxReinstalls = 1
    MaxTests = 1
SYMMETRY RequestSymmetry
CONSTRAINT LimiterAlone
INVARIANTS
    LocationKept
    UpgradeSound
    PinsAreOwn
    AddressThrottled
PROPERTIES
    LoginThrottled
