SPECIFICATION Spec
CONSTANTS
    Asks = {ask}
    Calls = {}
    Queued = {own}
    NoTx = NoTx
    NoLink = NoLink
    HasAdapter <- BothAdapters
    MaxToggles = 0
    MaxCrashes = 0
    Cases <- KindsOfCase
INVARIANTS
    NoDuplicateLinks
CHECK_DEADLOCK FALSE
