CONSTANTS
    t1 = t1
    t2 = t2
    r1 = r1
    r2 = r2
    NoOne = NoOne
    Tabs = {t1, t2}
    Requests = {r1, r2}
    TabOf <- OneBusyTab
    MaxTokens = 3
    MaxFault = 1
SPECIFICATION FairSpec
INVARIANTS
    TypeOK
    OneRefresh
    QueueIsServed
PROPERTIES
    KeepsPromise
    AllAnswered
CHECK_DEADLOCK FALSE
