CONSTANTS
    Session = {s1}
    Request = {r1}
    Touch = {k1}
    Idle = 3
    Gap = 1
    HardCap = 5
    Delay = 1
    Horizon = 6
    Nil = Nil
SPECIFICATION Spec
INVARIANT ActiveSessionLives
CHECK_DEADLOCK FALSE
