CONSTANTS
    Doc = {d1}
    Share = {s1}
    Owner = {o1}
    Visitor = {v1, v2, v3}
    Limit = {0, 1}
    MaxInt = 3
    Nil = Nil
SPECIFICATION Spec
INVARIANTS TypeOK LinksHaveDocuments LedgerBalanced OvershootBounded
SYMMETRY Symmetry
