SPECIFICATION FairSpec
CONSTANTS
    Systems = {s1, s2}
    Advisories = {a1}
    Workspaces = {w1, w2}
    Timers = {t1}
    BatchSize = 2
    MaxChanges = 2
    MaxFaults = 1
INVARIANTS TypeOK CountsCurrentUnlessMissed NotifiedWasSent NotificationNotForgotten
PROPERTIES EventsRecounted
CHECK_DEADLOCK FALSE
