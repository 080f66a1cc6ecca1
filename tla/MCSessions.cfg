\* One account, two session ids and three tokens; a session lives three
\* ticks and is idle after two, so rotation, grace, replay, both deadlines and
\* the sweep all happen before the clock stops.
SPECIFICATION Spec
CONSTANTS
    User = {u1}
    Sid = {s1, s2}
    Token = {t1, t2, t3}
    NoSid = NoSid
    Grace = 1
    Idle = 2
    MaxAge = 3
    AccessTTL = 1
    Keep = 4
    Lag = 1
    MaxTime = 7
    MaxPending = 2
    MayCrash = TRUE
SYMMETRY TokenSymmetry
INVARIANTS OneLiveToken ReplayRecognised
PROPERTIES DeadlineForwardAndCapped SessionLifeSpec
