SPECIFICATION Spec
CONSTANTS
    Store = {s1, s2, s3, s4}
    Workspace = {shop, clinic}
    Request = {r1, r2}
    Text = {old, new}
    Blank = Blank
    Nothing = Nothing
    MAX_WORKSPACE_STORES = 1
    MaxRequests = 4
    MaxSaves = 3
    MaxSecond = 2
SYMMETRY Interchangeable
INVARIANTS TypeOK Isolation
PROPERTIES FreshWhenAlone
\* all requests are answered and all saves made
CHECK_DEADLOCK FALSE
