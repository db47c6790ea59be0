\* Three requests to two services with limits 1 and 2, over two windows and the
\* expiry of the key.
CONSTANTS
    narrow = narrow
    wide = wide
    Services = {narrow, wide}
    Limit <- MCLimit
    Requests = {r1, r2, r3}
    Window = 3
    Grace = 1
    Timeout = 1
    MaxTime = 8
    MaxFaults = 1
SPECIFICATION Spec
SYMMETRY Interchangeable
INVARIANTS AdmittedUnderLimit RefusedWithCause
PROPERTIES ForgottenOnlyWhenDue
\* The requests are all answered.
CHECK_DEADLOCK FALSE
