CONSTANTS
    Users = {a, b}
    Migrated = {a}
    Bootstrapped = {}
    Requests = {r1, r2}
    MaxPasswords = 3
    MaxTokens = 3
    MaxVersion = 2
    None = None
SPECIFICATION Spec
INVARIANTS TypeOK AcceptedTokensAreCurrent TemporaryMustBeChanged
PROPERTIES RefusedTokensStayRefused
SYMMETRY RequestSymmetry
CHECK_DEADLOCK FALSE
