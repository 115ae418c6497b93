\* Three texts, one of them trimmed by the server; two saves at once.
SPECIFICATION FairSpec
CONSTANTS
    draft = draft
    final = final
    untidy = untidy
    Texts = {draft, final, untidy}
    Trimmed <- Trims
    Domains = {}
    NoDomain = NoDomain
    NoNote = NoNote
    Requests = {r1, r2}
    Nobody = Nobody
INVARIANTS
    TypeOK
    UnsavedIsScheduled
    LossNeedsARace
PROPERTIES
    DeletedStaysDeleted
    UnsavedGetsSaved
