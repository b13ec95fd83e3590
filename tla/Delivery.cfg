CONSTANTS
    i1 = i1
    m1 = m1
    e1 = e1
    None = None
    ValidEmails <- OneRow
    Imports = {i1}
    Emails = {e1}
    Mappings = {m1}
    Keys = {k1}
    Workers = {w1, w2, w3}
    Reconcilers = {r1, r2}
    Sessions = {s1}
    MaxJobs = 2
    MaxAttempts = 4
    MaxCopies = 2
    Faults = {"crash", "broker", "duplicate"}
SPECIFICATION ValidatedSpec
INVARIANTS OneWorkerPerJob
PROPERTIES CancellationWins SucceededIsFinal
SYMMETRY ProcessSymmetry
CHECK_DEADLOCK FALSE
