\* Four notes in pages of one, one mutation and no fault.
SPECIFICATION Spec
CONSTANTS
    Notes <- FourNotes
    PageSize = 1
    Requests = 1
    Faults = 0
    None = None
INVARIANTS
    NoGap
