\* One text as typed, one domain: only the domain can be rewritten.
SPECIFICATION Spec
CONSTANTS
    draft = draft
    final = final
    untidy = untidy
    Texts = {draft}
    Trimmed <- Trims
    Domains = {d1}
    NoDomain = NoDomain
    NoNote = NoNote
    Requests = {r1, r2}
    Nobody = Nobody
INVARIANT
    ResponseIsWhatWasSent
