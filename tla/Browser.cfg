CONSTANTS
    Users = {a, b}
    Newcomers = {b}
    Viewers = {b}
    MaxVersion = 1
    MaxLogins = 2
    Retries = 1
    None = None
SPECIFICATION FairSpec
INVARIANTS TypeOK OfferedIsAllowed
PROPERTIES RefusedSessionEnds IdentityCatchesUp
