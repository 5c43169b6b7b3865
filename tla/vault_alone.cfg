CONSTANTS
    Doc = {d1}
    Folder = {f1,f2,f3}
    Request = {r1}
    Boot = boot
    Nil = Nil
    DocName <- OwnNames
    Faults = {"s3", "db"}
SPECIFICATION AloneSpec
INVARIANT PurgeIsComplete
PROPERTIES RestoreBringsBackFolders DeleteTakesContents
SYMMETRY Symmetry
