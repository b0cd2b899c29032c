CONSTANTS
    Pages <- AllPages
    MaxClicks <- Clicks
    MaxFault = 1
    MaxCalls = 1
    KnownStale <- Stale
    KnownRaces <- Races
    KnownStuck <- Stuck
    KnownTwice <- Twice
    KnownLeak <- Leak
SPECIFICATION Spec
INVARIANTS
    TypeOK
    FreshWhenQuiet
    SpinnersEnd
    OneSubmit
    OnePoll
CHECK_DEADLOCK FALSE
