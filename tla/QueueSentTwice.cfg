SPECIFICATION Spec
CONSTANTS
    n1 = n1
    n2 = n2
    n3 = n3
    k1 = k1
    Alerts = {n1, n2, n3}
    Keys = {k1}
    KeyOf <- OneNumber
    Wants <- CallAndSms
    MaxAttempts = 2
    MaxHeld = 2
    MaxFail = 2
    MaxDlq = 1
INVARIANTS
    SentOnce
CHECK_DEADLOCK FALSE
