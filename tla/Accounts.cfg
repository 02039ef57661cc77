SPECIFICATION Spec
CONSTANTS
    NULL = NULL
    u1 = u1  u2 = u2  u3 = u3
    Users = {u1, u2, u3}
    FirstAdmin = u1
    Names = {n1, n2}
    Passwords = {pw1, pw2}
    LongEnough = {pw1, pw2}
    Sessions = {s1}
    Keys = {k1}
    Tokens = {t1}
    SessionTTL = 0
    AccessTokenTTL = 0
    Requests = {q1, q2}
    IPs = {ip1, ip2}
    Limit = 1
    Window = 2
    MaxTrackedIPs = 1
    MaxWait = 1
SYMMETRY Symmetric
INVARIANTS
    SomeAdminRemains
    CredentialsEndWithAccount
    SessionProvesPassword
    RateBound
CHECK_DEADLOCK FALSE
