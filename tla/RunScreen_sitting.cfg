\* A multiple-choice question, then a recall; one answer on its way at once.
SPECIFICATION FairSpec
CONSTANTS
    Total = 2
    Choices <- FirstIsChoice
    Marks = {x, y}
    None = None
    Requests = {r1}
    Nobody = Nobody
INVARIANTS
    TypeOK
    NothingLeftToAnswer
    ResultIsRecorded
    NotAskedAgain
PROPERTY
    RunGetsFinished
