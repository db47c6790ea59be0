\* Pages of one, and one unfollow between the queries of a job.
CONSTANTS
    Posts = {1}
    TextRank <- MCTextRank
    MaxTimeline = 1
    Users = {1, 2, 3}
    Authors = {5}
    Workers = {w1}
    BatchSize = 1
    ReadCount = 2
    MaxEntries = 1
    MaxTime = 1
    MaxChanges = 1
    MaxFaults = 0
SPECIFICATION Spec
ACTION_CONSTRAINT OnlyUnfollows
PROPERTIES AckReachesAllFollowers
\* All workers may be down for good.
CHECK_DEADLOCK FALSE
