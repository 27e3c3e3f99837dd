\* A login, two finalizations, two callers of the application, one administrator.
CONSTANTS
    Request = {r1}
    NoRequest = NoRequest
    UserCode = {c1}
    NoCode = NoCode
    Tab = {t1, t2}
    Worker = {w1, w2}
    MaxAttempts = 2
    MaxRotations = 1
    MaxAdmin = 1
SPECIFICATION FairSpec
INVARIANTS OneTokenSet DeniedGetsNothing OneHeir
PROPERTIES StreamsEnd
CHECK_DEADLOCK FALSE
