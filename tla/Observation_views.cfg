\* Three shards, the last with an id that does not fit a "u32".
CONSTANTS
    Shards = {0, 1, 2}
    MaxU32 = 1
    Forms = {{"leading", "following", "hosted", "rows"}, {"rows"}, {"leading", "following"}, {"leading", "rows"}}
    MaxSilent = 1
    MaxVersion = 1
    MaxOps = 1
SPECIFICATION Spec
INVARIANTS TypeOK LeadsWhatItHosts TwoViewsAgree RoundTripsLed QuietPageAgrees HistogramWhole
