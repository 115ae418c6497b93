\* One tab, refreshed; two sessions of two or three minutes, or of the one
\* minute of a default the picker does not offer; two requests on their way.
SPECIFICATION Spec
CONSTANTS
    Tabs = {t1}
    Durations = {2, 3}
    Usual = 2
    Defaults = {1, 2}
    Sessions = {s1, s2}
    NoSession = NoSession
    Closed = Closed
    Requests = {q1, q2}
    Rows = {w1, w2}
SYMMETRY Interchangeable
INVARIANTS
    TypeOK
    RecordedOnce
    NeverEarly
    SessionIsHeld
