\* One card in a domain, which is taken away on the screen.
SPECIFICATION Spec
CONSTANTS
    Sides = {a}
    Domains = {d}
    NoDomain = NoDomain
    Half = Half
    Empty = Empty
    Cards = {c1}
    Forms = {f1}
    New = New
    NoRow = NoRow
    Requests = {r1}
    Nobody = Nobody
INVARIANTS
    WrittenIsKept
