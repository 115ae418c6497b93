\* Two notes on one page, three mutations.
SPECIFICATION Spec
CONSTANTS
    Notes <- MCNotes
    PageSize = 2
    Requests = 3
    Faults = 0
    None = None
PROPERTIES
    UndoIsExact
    NewNoteOpens
