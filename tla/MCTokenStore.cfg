CONSTANTS
    Users = {u}
    Calls = {c1, c2}
    Second = 3
    AccessTTL = 1
    RefreshTTL = 2
    MaxTime = 7
SYMMETRY MCSymmetry
SPECIFICATION Spec
INVARIANTS RevokedTokensStayRefused SpentTokensStaySpent LastTokenLives
PROPERTY SignedOutUsersStayOut
