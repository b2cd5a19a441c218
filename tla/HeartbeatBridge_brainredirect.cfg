\* A brain, or a proxy before it, that can answer with a redirect.
CONSTANTS
    Interval = 1
    RestartDelay = 1
    MaxLag = 0
    Epoch = 1
    MaxTime = 3
    MaxVersion = 2
    NodeRedirects = FALSE
    BrainRedirects = TRUE
SPECIFICATION Spec
INVARIANT OkMeansRecorded
