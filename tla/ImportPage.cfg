CONSTANTS
    Required = {email}
    Optional = {company}
    Headers = {h1}
    Blank = blank
    MaxJobs = 2
    MaxAgain = 1
    MaxPending = 2
    None = None
    Sent = Sent
    Files <- MCFiles
SPECIFICATION FairSpec
INVARIANTS TypeOK OwnConfirmationIsRecognised
PROPERTIES NothingDoneIsOffered WorkIsFollowed
