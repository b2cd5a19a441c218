\* A wall clock that can be set back by as much as a restart takes.
CONSTANTS
    Interval = 2
    RestartDelay = 2
    MaxLag = 2
    Epoch = 3
    MaxTime = 8
    MaxVersion = 2
    NodeRedirects = FALSE
    BrainRedirects = FALSE
SPECIFICATION Spec
INVARIANT ResumesAbove
