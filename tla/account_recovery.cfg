CONSTANTS
    User = {u1}
    Password = {p1}
    Draw = {g1, g2}
    Tab = {t1}
    Browser = {b1}
    BrowserOf <- OneBrowser
    Shown = {"own"}
    MaxOrphans = 0
    Nil = Nil
SPECIFICATION Spec
INVARIANTS RecoveryWorks
SYMMETRY Symmetry
