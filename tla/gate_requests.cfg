SPECIFICATION FairSpec
CONSTANTS
    Asks = {ask}
    Calls = {call}
    Queued = {own}
    NoTx = NoTx
    NoLink = NoLink
    HasAdapter <- BothAdapters
    MaxToggles = 1
    MaxCrashes = 1
    Cases <- KindsOfCase
INVARIANTS
    TypeOK
    RecordedLinkExists
    OneCommittedRequest
    FailedRequestMadeNothing
PROPERTIES
    KillSwitchHolds
    LinkPromise
    RequestEnds
CHECK_DEADLOCK FALSE
