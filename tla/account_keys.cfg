CONSTANTS
    User = {u1, u2}
    Password = {p1, p2}
    Draw = {g1, g2}
    Tab = {t1, t2}
    Browser = {b1}
    BrowserOf <- OneBrowser
    Shown = {"returned"}
    MaxOrphans = 1
    Nil = Nil
SPECIFICATION Spec
INVARIANTS TypeOK VerifierUnwraps MemoryKeyIsOwn StorageUnlocks
PROPERTY ImplementsCustody
SYMMETRY Symmetry
