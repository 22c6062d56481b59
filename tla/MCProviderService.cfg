SPECIFICATION Spec
CONSTANTS
    None = None
    BuiltIn = BuiltIn
    p1 = p1
    p2 = p2
    c1 = c1
    c2 = c2
    k1 = k1
    k2 = k2
    Providers = {p1}
    Clients = {c1, c2}
    Keys = {k1, k2}
INVARIANTS
    TypeOK
    EnvironmentMatchesStore
    CatalogMatchesStore
    CatalogSound
