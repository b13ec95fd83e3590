CONSTANTS
    i1 = i1
    i2 = i2
    m1 = m1
    m2 = m2
    e1 = e1
    e2 = e2
    None = None
    ValidEmails <- TwoMappings
    Imports = {i1, i2}
    Emails = {e1, e2}
    Mappings = {m2}
    Keys = {k1}
    Workers = {w1}
    Reconcilers = {r1}
    Sessions = {s1}
    MaxJobs = 4
    MaxAttempts = 1
    MaxCopies = 1
    Faults = {}
SPECIFICATION Spec
INVARIANTS ImportedOnlyAfterConfirmation CompletedImportIsInDirectory
PROPERTIES OneConfirmationPerKey ImplementsDirectory
SYMMETRY ImportSymmetry
CHECK_DEADLOCK FALSE
