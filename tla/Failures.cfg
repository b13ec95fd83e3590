CONSTANTS
    i1 = i1
    i2 = i2
    m1 = m1
    m2 = m2
    e1 = e1
    e2 = e2
    None = None
    ValidEmails <- TwoMappings
    Imports = {i1}
    Emails = {e1, e2}
    Mappings = {m1, m2}
    Keys = {k1}
    Workers = {w1, w2}
    Reconcilers = {r1}
    Sessions = {s1}
    MaxJobs = 2
    MaxAttempts = 2
    MaxCopies = 1
    Faults = {"storage", "error"}
SPECIFICATION Spec
INVARIANTS TypeOK Consistent AttemptHistory DownloadableReportExists FailedImportIsRetryable
SYMMETRY WorkerSymmetry
CHECK_DEADLOCK FALSE
