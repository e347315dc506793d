CONSTANTS
    TMNames = {dflt, tmx}
    Default = dflt
    NoTm = NoTm
    Configs <- RemiConfigs

SPECIFICATION Spec

INVARIANT BindingsResolve
