SPECIFICATION FairSpec
CONSTANTS
    Client = {c1, c2}
    NoSetting = NoSetting
    Settings <- AllSettings
    DefaultTtl = 3
    UpstreamTtl = 1
    MaxTime = 3
    MaxRestarts = 1
INVARIANTS
    McpAuthInv
    RegistrationKept
    WithinLifetime
PROPERTIES
    LogsIn
