\* Two cards compete for a list of one.
SPECIFICATION FairSpec
CONSTANTS
    Cards = {1, 2}
    Ladder <- OneRung
    DueLimit = 1
    Requests = {q1}
    Nobody = Nobody
    Answered = Answered
    NoDate = NoDate
    NoDeck = NoDeck
INVARIANTS
    AwaitedIsOnScreen
PROPERTIES
    OfferedUntilRated
    NoCardStarves
