\* A wall clock that can be set back or forth by less than a restart takes.
CONSTANTS
    Interval = 2
    RestartDelay = 2
    MaxLag = 1
    Epoch = 2
    MaxTime = 7
    MaxVersion = 3
    NodeRedirects = FALSE
    BrainRedirects = FALSE
SPECIFICATION Spec
INVARIANTS TypeOK ResumesAbove Accounting OkMeansRecorded
PROPERTY ImplementsRegister
