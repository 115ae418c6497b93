\* One card, two rungs, two ratings at once: one of them another tab's.
SPECIFICATION Spec
CONSTANTS
    Cards = {1}
    Ladder <- TwoRungs
    DueLimit = 1
    Requests = {q1, q2}
    Nobody = Nobody
    Answered = Answered
    NoDate = NoDate
    NoDeck = NoDeck
INVARIANTS
    TypeOK
    ScheduleFitsRung
PROPERTY
    DueOnlyByCalendar
