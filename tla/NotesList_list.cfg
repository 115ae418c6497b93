\* Two notes in pages of one, two mutations or faults.
SPECIFICATION Spec
CONSTANTS
    Notes <- MCNotes
    PageSize = 1
    Requests = 2
    Faults = 2
    None = None
INVARIANTS
    TypeOK
    ListIsWhole
PROPERTIES
    UndoIsExact
    NewNoteOpens
