CONSTANTS
    TMNames = {dflt, tmx}
    Default = dflt
    NoTm = NoTm
    Configs <- RestartConfigs
    MaxRestarts = 1

SPECIFICATION RSpec

INVARIANT RTypeOK
INVARIANT GoodConfigAccepted
INVARIANT ConfigRoundTrip
