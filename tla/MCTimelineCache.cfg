\* Timelines of up to three posts and a fourth to come, pages of two, three
\* seconds, two commands of others or failed calls.
CONSTANTS
    Posts = {8, 9, 10, 11}
    TextRank <- MCTextRank
    MaxTimeline = 3
    Limit = 2
    MaxTime = 3
    MaxChanges = 2
SPECIFICATION Spec
INVARIANTS NothingTwice ScrollIsComplete
