\* A fetch timeout that the configuration accepts and three fetches outlast.
CONSTANTS
    Timeouts = {6}
    RequestTimeout = 15
    Latency = 1
    Patience = 8
    MaxVersion = 1
SPECIFICATION Spec
INVARIANT NeverFails
