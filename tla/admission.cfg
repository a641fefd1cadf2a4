\* Four requests of any kind, one e-mail, one restart, and time for a window to end.
SPECIFICATION Spec
CONSTANTS
    Requests <- MCRequests
    Emails = {ada}
    right = right
    other = other
    Passwords <- MCPasswords
    Setups <- MCSetups
    Limit = 1
    Minute = 2
    Lifetime = 2
    MaxTime = 3
    MaxBoots = 1
    Local = Local
SYMMETRY PasswordSymmetry
INVARIANTS RegisteredCanLogIn WithinLimit
CHECK_DEADLOCK FALSE
