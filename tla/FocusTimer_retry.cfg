\* A record that failed is tried again.
SPECIFICATION Spec
CONSTANTS
    Tabs = {t1, t2}
    Durations = {1, 2}
    Usual = 2
    Defaults = {1, 2}
    Sessions = {s1, s2}
    NoSession = NoSession
    Closed = Closed
    Requests = {q1}
    Rows = {w1, w2}
SYMMETRY Interchangeable
INVARIANT
    RetryRecordsTheSession
