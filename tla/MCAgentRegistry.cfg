SPECIFICATION Spec
CONSTANTS
    t1 = t1
    t2 = t2
    w1 = w1
    w2 = w2
    w3 = w3
    Tokens = {t1, t2}
    Runtimes = {w1, w2, w3}
    Requests = {r1, r2}
    TokenOf <- SharedTokenOf
    NoRequest = NoRequest
SYMMETRY Symmetric
INVARIANTS
    TokenGrantsOnce
PROPERTIES
    RevocationStands
