CONSTANTS
    Ids <- MCIds
    Words <- MCWords
    Cursors <- MCCursors
    Texts <- MCTexts
    Tokens = {t1}
    MaxCalls = 2
    None = None
    Absent = Absent
    MaxEvents = 3
    DefaultDelay = 3
    SentDelay = 2
    MaxDelay = 9
    RetryAttempts = {2, Unlimited}
    MaxAttempts = 4
    Unlimited = Unlimited
SPECIFICATION FairSpec
INVARIANTS TypeOK TokenWhereDeclared UrlsSayWhatWasMeant SamplesAreReadBack EventsOnceInOrder NoEventSkipped
PROPERTIES AbortEnds
CHECK_DEADLOCK FALSE
