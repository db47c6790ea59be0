\* One post, one follower, one deletion, no failure.
CONSTANTS
    Users = {1, 2}
    Authors = {1}
    Posts = {1}
    TextRank <- MCTextRank
    MaxTimeline = 1
    Workers = {w1}
    BatchSize = 2
    ReadCount = 2
    Requests = {r1}
    Tasks = {t1}
    Reads = {}
    Limit = 1
    MaxEntries = 1
    MaxTime = 1
    MaxChanges = 0
    MaxFaults = 0
SPECIFICATION Spec
INVARIANTS DeletionRemovesFromTimelines
\* Every call may have been answered, and the worker be down.
CHECK_DEADLOCK FALSE
