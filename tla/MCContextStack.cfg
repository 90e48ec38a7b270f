CONSTANTS
    t1 = t1
    t2 = t2
    c1 = c1
    c2 = c2
    c3 = c3
    NoCtx = NoCtx
    Threads = {t1, t2}
    Contexts = {c1, c2, c3}
    MaxDepth = 3
    MaxRetains = 2
SPECIFICATION Spec
SYMMETRY Symmetry
INVARIANTS
    RegistryExact
    OwnDestroyDetaches
    RetainedPrimaryLives
