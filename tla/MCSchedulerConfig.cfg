CONSTANTS
    Requests = {r1, r2}
    Profiles <- MCProfiles
    Rests <- MCRests
    Undecodable <- MCUndecodable
    Startable <- MCStartable
    Default <- MCDefault
    Shipped <- MCShipped
    NoConfig = NoConfig
    EmptyFile = EmptyFile
    MixedFile = MixedFile
    NullFile = NullFile
    NoJob = NoJob
    NoOutcome = NoOutcome
    Applied <- MCApplied
    Imported <- MCImported
    PathChoices = {TRUE, FALSE}
    MaxRequests = 2
    MaxFaults = 1
SPECIFICATION Spec
CHECK_DEADLOCK FALSE
INVARIANT CleanRequestAgrees
INVARIANT RollbackRestoresFile
INVARIANT IInv
INVARIANT ResetRestoresReadable
PROPERTY ApplyKeepsRest
PROPERTY CleanRequestTakesEffect
