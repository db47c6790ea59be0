\* One post with up to two entries in the stream, its fan-out to up to two
\* followers, a follow or unfollow, a deletion or a change of status, a read.
\* The post's id is no user's id, so that exchanged ids of an event show.
CONSTANTS
    Users = {1, 2}
    Authors = {1}
    Posts = {7}
    TextRank <- MCTextRank
    MaxTimeline = 1
    Workers = {w1}
    BatchSize = 2
    ReadCount = 2
    Requests = {r1}
    Tasks = {t1}
    Reads = {q1}
    Limit = 1
    MaxEntries = 2
    MaxTime = 1
    MaxChanges = 1
    MaxFaults = 0
SPECIFICATION Spec
INVARIANTS TimelinesHoldPublishedPosts CalmDeletionIsComplete ReadsAreCurrent
    EventsHaveRows SuccessMeansPublished
PROPERTIES ImplementsPostService ImplementsFanoutWorker BlockedThroughoutSavesNothing
    PostedReachesFollowers
\* Every call may have been answered, and the worker be down.
CHECK_DEADLOCK FALSE
