\* Two post-call runs and two retry jobs while the CRM answers; two and one
\* while it may be away.
SPECIFICATION DeliverySpec
CONSTANTS
    Posts = {"p1", "p2"}
    Retriers = {"r1", "r2"}
    Lookups = {"known"}
    MaxAttempts = 3
    MaxCrashes = 2
    AwayPosts = {"p1", "p2"}
    AwayRetriers = {"r1"}
INVARIANT OneSender
PROPERTIES SentStaysSent DeliveriesConclude
CHECK_DEADLOCK FALSE
