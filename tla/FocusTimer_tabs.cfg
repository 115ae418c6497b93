\* Two tabs, two sessions of a minute, one request at a time.
SPECIFICATION Spec
CONSTANTS
    Tabs = {t1, t2}
    Durations = {1}
    Usual = 1
    Defaults = {1}
    Sessions = {s1, s2}
    NoSession = NoSession
    Closed = Closed
    Requests = {q1}
    Rows = {w1, w2}
SYMMETRY Interchangeable
INVARIANTS
    TypeOK
    RecordedOnce
