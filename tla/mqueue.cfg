SPECIFICATION FairConsumerSpec
CONSTANTS
    Partitions = {p1, p2}
    Consumers = {r1, r2}
    Len = 2
    MaxRetries = 1
    MaxConsumerFaults = 3
INVARIANTS NothingSkipped
PROPERTIES AtLeastOnceDelivery EveryMessageHandled
CHECK_DEADLOCK FALSE
