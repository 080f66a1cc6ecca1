\* The same code without crashes and under the handlers' fairness: what is
\* condemned or signed out is closed in the end.
SPECIFICATION FairSpec
CONSTANTS
    User = {u1}
    Sid = {s1, s2}
    Token = {t1, t2, t3}
    NoSid = NoSid
    Grace = 0
    Idle = 1
    MaxAge = 2
    AccessTTL = 1
    Keep = 3
    Lag = 0
    MaxTime = 2
    MaxPending = 2
    MayCrash = FALSE
PROPERTIES CondemnedSessionsClose AccountChangeSignsOut
