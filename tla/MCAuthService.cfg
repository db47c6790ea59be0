CONSTANTS
    Ids = {u1, u2}
    Emails = {a, b}
    Passwords = {p, q}
    Calls = {c1, c2}
    None = None
SYMMETRY MCSymmetry
SPECIFICATION Spec
INVARIANTS TypeOK EmailsBelongToOneRow PromisedPasswordKept
PROPERTIES UpdatesStayInTheirRow NothingOlderThanTheCall
CHECK_DEADLOCK FALSE
