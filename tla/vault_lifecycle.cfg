CONSTANTS
    Doc = {d1}
    Folder = {f1}
    Request = {r1,r2}
    Boot = boot
    Nil = Nil
    DocName <- OwnNames
    Faults = {"abort", "s3", "db"}
SPECIFICATION RacesSpec
INVARIANTS TypeOK DocumentsReadable ThumbnailsReadable
PROPERTY ImplementsLifecycle
SYMMETRY Symmetry
