CONSTANTS
    TMNames = {dflt, tmx}
    Default = dflt
    NoTm = NoTm
    Configs <- NoRemiConfigs

SPECIFICATION Spec

INVARIANT ConfiguredTargetsRegistered
