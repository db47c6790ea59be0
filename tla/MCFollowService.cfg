CONSTANTS
    Users = {u1, u2}
    Requests = {r1, r2, r3}
SPECIFICATION Spec
INVARIANTS TypeOK OneFollowWins AnswersMatchTable
PROPERTIES ImplementsFollowGraph
CHECK_DEADLOCK FALSE
