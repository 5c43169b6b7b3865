SPECIFICATION FairSpec
CONSTANTS
    Doc = {d1,d2}
    Folder = {f1}
    Request = {r1}
    Boot = boot
    Nil = Nil
    DocName <- SameName
    Faults = {"s3"}
PROPERTIES RequestsEnd StartPurgesExpired
