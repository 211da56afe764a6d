\* Three failures, the second and third decided without the language model.
SPECIFICATION Spec
CONSTANTS
    c1 = c1  c2 = c2  c3 = c3
    acme = acme
    Absent = Absent
    Cycles = {c1, c2, c3}
    Failures <- FailuresOfOne
    Answers <- AnswersOfOne
    Histories <- HistoriesOfOne
    Window = 1
    MaxTime = 3
    MaxRestarts = 1
SYMMETRY Interchangeable
\* Each cycle handles one failure: when all are over only time could pass.
CHECK_DEADLOCK FALSE
INVARIANTS
    HealthCountsTheWindow
    AtMostTwoRetriesAtOnce
    CandidatesPassPolicy
    BaselineUnlessDisplaced
