CONSTANTS
    Provs = {P1, P2}
    UUIDs = {u1}
    Reqs = {a, b}
    TMNames = {dflt, tmx}
    Default = dflt
    NoTm = NoTm
    None = None
    BadJson = BadJson
    RegionIDs = {r1}
    Data = {d1}
    Extras = {NoTm, tmx, BadJson}
    Ops <- AdminOps
    MaxReqs = 4

SPECIFICATION Spec

INVARIANT RegistryRaceFree
