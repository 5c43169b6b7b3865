CONSTANTS
    d1 = d1
    d2 = d2
    d3 = d3
    f1 = f1
    f2 = f2
    t1 = t1
    t2 = t2
    Root = Root
    Nil = Nil
    MaxStarts = 3
    Doc = {d1, d2, d3}
    Folder = {f1, f2}
    Task = {t1, t2}
    Home <- HomeDef
    Tree <- TreeDef
SPECIFICATION FairSpec
INVARIANTS TypeOK PurgedWasBinned ListingIsOneFolder CalmScreen CalmDeleteAll CalmPreview
PROPERTIES SpinnerStops PanelReleased
CHECK_DEADLOCK FALSE
