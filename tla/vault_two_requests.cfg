CONSTANTS
    Doc = {d1}
    Folder = {f1,f2}
    Request = {r1,r2}
    Boot = boot
    Nil = Nil
    DocName <- OwnNames
    Faults = {"abort"}
SPECIFICATION Spec
INVARIANTS OriginIsPlace FolderForest
SYMMETRY Symmetry
