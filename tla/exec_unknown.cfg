\* An ambiguous answer and the poller.
SPECIFICATION FairSpec
CONSTANTS
    a1 = a1  a2 = a2  w1 = w1  w2 = w2  c1 = c1  c2 = c2  h1 = h1  h2 = h2
    NoTx = NoTx
    Actions = {a1}
    Executable = {a1}
    Malformed = {}
    Workers = {w1}
    Cycles = {c1}
    Handlers = {}
    ActionOf <- OneAction
    WebHasAdapter = {TRUE}
    MaxRetries = 3
    BatchSize = 2
    MaxCrashes = 0
PROPERTIES
    UnknownIsReconciled
