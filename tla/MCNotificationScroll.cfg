\* Two events of one recipient, and pages of one row.
CONSTANTS
    Events = {1, 2}
    Recipient <- MCRecipient
    Requests = {r1}
    Limit = 1
    MaxRows = 2
SPECIFICATION Spec
INVARIANT ScrollingMovesOn
