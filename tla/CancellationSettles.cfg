CONSTANTS
    i1 = i1
    i2 = i2
    m1 = m1
    m2 = m2
    e1 = e1
    e2 = e2
    None = None
    ValidEmails <- TwoMappings
    Imports = {i1}
    Emails = {e1}
    Mappings = {m1}
    Keys = {k1}
    Workers = {w1, w2}
    Reconcilers = {r1}
    Sessions = {s1}
    MaxJobs = 1
    MaxAttempts = 2
    MaxCopies = 1
    Faults = {"storage", "duplicate"}
SPECIFICATION FairSpec
PROPERTIES CancellationSettles
CHECK_DEADLOCK FALSE
