CONSTANTS
    Provs = {P1, P2}
    UUIDs = {u1}
    Reqs = {a, b}
    TMNames = {dflt}
    Default = dflt
    NoTm = NoTm
    None = None
    BadJson = BadJson
    RegionIDs = {r1}
    Data = {d1}
    Extras = {NoTm}
    Ops <- DirDataOps
    MaxReqs = 4

SPECIFICATION Spec
SYMMETRY Symmetry

PROPERTY DirectoryRefined
