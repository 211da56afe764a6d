\* Two Actions in one batch, one of them malformed.
SPECIFICATION Spec
CONSTANTS
    a1 = a1  a2 = a2  w1 = w1  w2 = w2  c1 = c1  c2 = c2  h1 = h1  h2 = h2
    NoTx = NoTx
    Actions = {a1, a2}
    Executable = {a1, a2}
    Malformed = {a2}
    Workers = {w1, w2}
    Cycles = {c1, c2}
    Handlers = {h1}
    ActionOf <- TwoActions
    WebHasAdapter = {FALSE}
    MaxRetries = 2
    BatchSize = 2
    MaxCrashes = 1
INVARIANTS
    TypeOK
    OneExecutor
    AttemptNumberFree
