CONSTANTS
    Doc = {d1}
    Folder = {f1,f2}
    Request = {r1}
    Boot = boot
    Nil = Nil
    DocName <- OwnNames
    Faults = {}
SPECIFICATION AloneSpec
PROPERTY RestoreBringsBackDocuments
