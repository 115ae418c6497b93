\* A default the picker does not offer, and a refresh.
SPECIFICATION Spec
CONSTANTS
    Tabs = {t1}
    Durations = {2}
    Usual = 2
    Defaults = {1}
    Sessions = {s1}
    NoSession = NoSession
    Closed = Closed
    Requests = {q1}
    Rows = {w1, w2}
SYMMETRY Interchangeable
INVARIANT
    RestoredMinutesPassed
