SPECIFICATION Spec
CONSTANTS
    Client = {c1}
    NoSetting = NoSetting
    Settings <- Unset
    DefaultTtl = 3
    UpstreamTtl = 1
    MaxTime = 3
    MaxRestarts = 0
INVARIANTS
    RevokedFailsAtOnce
