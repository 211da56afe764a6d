\* Liveness of the pollers and of the sessions.
SPECIFICATION FairSpec
CONSTANTS
    a1 = a1  a2 = a2  w1 = w1  w2 = w2  c1 = c1  c2 = c2  h1 = h1  h2 = h2
    NoTx = NoTx
    Actions = {a1}
    Executable = {a1}
    Malformed = {}
    Workers = {w1, w2}
    Cycles = {c1}
    Handlers = {h1}
    ActionOf <- OneAction
    WebHasAdapter = {FALSE}
    MaxRetries = 2
    BatchSize = 2
    MaxCrashes = 2
PROPERTIES
    AuthorizedIsExecuted
    SessionEnds
