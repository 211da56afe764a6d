\* Cycles that execute their item and cycles that leave it to the pollers.
SPECIFICATION Spec
CONSTANTS
    a1 = a1  a2 = a2  w1 = w1  w2 = w2  c1 = c1  c2 = c2  h1 = h1  h2 = h2
    NoTx = NoTx
    Actions = {a1}
    Executable = {a1}
    Malformed = {}
    Workers = {w1, w2}
    Cycles = {c1}
    Handlers = {h1, h2}
    ActionOf <- OneAction
    WebHasAdapter = {TRUE, FALSE}
    MaxRetries = 3
    BatchSize = 2
    MaxCrashes = 2
INVARIANTS
    RecoveredIsPaid
    ItemsAgree
    AtMostOneOutcome
    RecoveredHasOutcome
    CompletedHasLink
PROPERTIES
    RecoveredIsFinal
