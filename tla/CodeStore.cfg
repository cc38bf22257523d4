SPECIFICATION Spec
CONSTANTS
    h1 = h1
    h2 = h2
    h3 = h3
    a1 = a1
    a2 = a2
    d1 = d1
    d2 = d2
    NoCode = NoCode
    Absent = Absent
    Handlers = {h1, h2, h3}
    Codes = {a1, a2, d1, d2}
    Kind <- KindOf
    TTL <- Lifetime
    MaxTime = 3
SYMMETRY HandlerSymmetry
INVARIANTS
    TypeOK
    AtMostOneToken
PROPERTIES
    LiveCodesStay
    ImplementsOneTimeCode
