\* Two workers compete for two entries; timelines of one post, so that every
\* second write evicts; one failure, crash or shutdown.
CONSTANTS
    Posts = {9, 10}
    TextRank <- MCTextRank
    MaxTimeline = 1
    Users = {1, 2}
    Authors = {5}
    Workers = {w1, w2}
    BatchSize = 2
    ReadCount = 2
    MaxEntries = 2
    MaxTime = 2
    MaxChanges = 0
    MaxFaults = 1
SPECIFICATION Spec
INVARIANTS TypeOK OneHolder StrandedWereHit TimelineBounded ExpiryArmed
\* All workers may be down for good.
CHECK_DEADLOCK FALSE
