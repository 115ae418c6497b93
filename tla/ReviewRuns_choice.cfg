\* One request against edits and deletions of two cards: a pinned, multiple-choice set.
SPECIFICATION Spec
CONSTANTS
    s1 = s1
    c1 = c1
    c2 = c2
    a = a
    b = b
    Procs = {p1}
    Sets = {s1}
    Runs = {r1}
    Cards = {c1, c2}
    Backs = {a, b}
    ChoiceCount = 2
    Config <- FixedChoice
    InitialBack <- TwoBacks
    Null = Null
SYMMETRY Interchangeable
INVARIANTS
    AnswersFitTheirRun
    SheetsAreSound
PROPERTIES
    SheetFrozen
