\* Two workers, one entry, up to three followers in pages of two, any two
\* follows and unfollows between the steps of the job, and one failure.
CONSTANTS
    Posts = {1}
    TextRank <- MCTextRank
    MaxTimeline = 1
    Users = {1, 2, 3}
    Authors = {5}
    Workers = {w1, w2}
    BatchSize = 2
    ReadCount = 2
    MaxEntries = 1
    MaxTime = 1
    MaxChanges = 2
    MaxFaults = 1
SPECIFICATION Spec
PROPERTIES AckMeansReached EntriesSettle
\* All workers may be down for good.
CHECK_DEADLOCK FALSE
