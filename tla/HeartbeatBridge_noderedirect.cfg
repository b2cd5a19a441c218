\* A node that can answer the scrape with a redirect that carries JSON.
CONSTANTS
    Interval = 1
    RestartDelay = 1
    MaxLag = 0
    Epoch = 1
    MaxTime = 3
    MaxVersion = 2
    NodeRedirects = TRUE
    BrainRedirects = FALSE
SPECIFICATION Spec
INVARIANT ObservedOnly
