\* Two of: a post event, a malformed one, one of a type that no handler knows.
\* One connection that breaks, crash, failed publish or expiry; one retry.
CONSTANTS
    Events = {post, broken, other}
    Malformed = {broken}
    PostCreated = {post}
    Known = {post}
    Queues = {"post_events"}
    Route <- MCRoute
    Subscribed <- MCSubscribed
    MaxRetries = 1
    Prefetch = 2
    MaxPublished = 2
    MaxFaults = 1
    Notifiers = {n}
    WorkerSet = {w}
    Recipient <- MCRecipient
    Requests = {}
    Limit = 1
    MaxRows = 2
SPECIFICATION Spec
INVARIANTS NoEventDisappears DeadLettersWereTried HandledOnce OneNotificationPerEvent MetricsAddUp
PROPERTY EventsSettle
\* Everything may have been handled.
CHECK_DEADLOCK FALSE
