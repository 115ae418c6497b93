\* One tab, refreshed before the record of its session was answered.
SPECIFICATION Spec
CONSTANTS
    Tabs = {t1}
    Durations = {1, 2}
    Usual = 2
    Defaults = {1, 2}
    Sessions = {s1}
    NoSession = NoSession
    Closed = Closed
    Requests = {q1}
    Rows = {w1, w2}
SYMMETRY Interchangeable
INVARIANT
    FinishedIsRecorded
