SPECIFICATION Spec
CONSTANTS
    User = {u1, u2}
    TokenId = {t1, t2, t3, t4}
    Request = {q1, q2}
SYMMETRY Symmetry
INVARIANTS
    TypeOK
    ChainsWellFormed
    OneLiveToken
PROPERTIES
    FamiliesAreSessions
CHECK_DEADLOCK FALSE
