CONSTANTS
    Pages <- WatchPages
    MaxClicks <- OneClick
    MaxFault = 1
    MaxCalls = 1
    KnownStale <- Stale
    KnownRaces <- Races
    KnownStuck <- Stuck
    KnownTwice <- Twice
    KnownLeak <- Leak
SPECIFICATION FairSpec
PROPERTIES
    PollingEnds
    ShowsTheEnd
CHECK_DEADLOCK FALSE
