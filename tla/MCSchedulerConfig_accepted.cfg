CONSTANTS
    Requests = {r1}
    Profiles <- MCProfiles
    Rests <- MCRests
    Undecodable <- MCUndecodable
    Startable <- MCStartable
    Default <- MCDefault
    Shipped <- MCShipped
    NoConfig = NoConfig
    EmptyFile = EmptyFile
    MixedFile = MixedFile
    NullFile = NullFile
    NoJob = NoJob
    NoOutcome = NoOutcome
    Applied <- MCApplied
    Imported <- MCImported
    PathChoices = {TRUE}
    MaxRequests = 1
    MaxFaults = 0
SPECIFICATION Spec
CHECK_DEADLOCK FALSE
INVARIANT AcceptedIsRun
