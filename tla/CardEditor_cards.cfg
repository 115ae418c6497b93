\* Two cards, one text with and without a domain, two saves at once.
SPECIFICATION Spec
CONSTANTS
    Sides = {a}
    Domains = {d}
    NoDomain = NoDomain
    Half = Half
    Empty = Empty
    Cards = {c1, c2}
    Forms = {f1}
    New = New
    NoRow = NoRow
    Requests = {r1, r2}
    Nobody = Nobody
SYMMETRY Interchangeable
INVARIANTS
    TypeOK
    SecondCardNeedsDoubt
    FilledTextIsKept
PROPERTIES
    DeletedCardsStay
