CONSTANTS
    x = x
    y = y
    Old = Old
    Nil = Nil
    MaxUpsets = 1
    File = {x, y}
    InDir = {y}
    MaxBatch = 2
    MaxFiles = 2
SPECIFICATION FairSpec
INVARIANTS TypeOK CompleteIsStored PromptAnswerable LossIsShown ZoneIsCurrent
PROPERTIES BatchesEnd EntriesSettle
CHECK_DEADLOCK FALSE
