\* The default fetch timeout of 3 s; 5 s, with which three fetches take all of the
\* router's 15 s, so that both timers are due at once.
CONSTANTS
    Timeouts = {3, 5}
    RequestTimeout = 15
    Latency = 1
    Patience = 8
    MaxVersion = 2
SPECIFICATION FairSpec
INVARIANTS TypeOK FittingNeverFails PageIsCoherent UpIsTrue
PROPERTIES ServingIsUp GoneIsDown
