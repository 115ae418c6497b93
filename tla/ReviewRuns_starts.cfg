\* Two requests start, answer, finish and discard: one card, two run ids.
SPECIFICATION Spec
CONSTANTS
    s1 = s1
    c1 = c1
    c2 = c2
    a = a
    b = b
    Procs = {p1, p2}
    Sets = {s1}
    Runs = {r1, r2}
    Cards = {c1}
    Backs = {a}
    ChoiceCount = 2
    Config <- RandomRecall
    InitialBack <- SameBack
    Null = Null
SYMMETRY InterchangeableCards
INVARIANTS
    TypeOK
    OneOpenRun
    RunsKeepTheirSet
    AcknowledgedAnswersKept
    AnswersFitTheirRun
    ScoreIsEvidenced
PROPERTIES
    ImplementsSittings
    ScoreFrozen
    EvidenceSurvives
