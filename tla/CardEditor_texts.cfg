\* One card, two texts with and without a domain, two saves at once.
SPECIFICATION Spec
CONSTANTS
    Sides = {a, b}
    Domains = {d}
    NoDomain = NoDomain
    Half = Half
    Empty = Empty
    Cards = {c1}
    Forms = {f1}
    New = New
    NoRow = NoRow
    Requests = {r1, r2}
    Nobody = Nobody
SYMMETRY Interchangeable
INVARIANTS
    FilledTextIsKept
PROPERTIES
    DeletedCardsStay
