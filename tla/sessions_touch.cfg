CONSTANTS
    Session = {s1, s2}
    Request = {r1}
    Touch = {k1, k2}
    Idle = 3
    Gap = 1
    HardCap = 5
    Delay = 1
    Horizon = 5
    Nil = Nil
SPECIFICATION Spec
INVARIANTS TypeOK IdleTimeout
PROPERTY ExpiryNeverShrinks
SYMMETRY Symmetry
CHECK_DEADLOCK FALSE
