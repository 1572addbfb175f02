SPECIFICATION Spec
CONSTANTS
    Item = {1, 2, 3, 4, 5}
    x = x
    y = y
    Undefined = Undefined
    Cite <- CiteXXYYX
    SortKey <- NoKeys
    Descending = FALSE
    NumberedParts = {}
    Missing = {5}
    Lists <- Straying
    UncitedLists <- Uncitable
    NoSortFlags = {FALSE}
    MayReset = TRUE
INVARIANTS
    TypeOK
    PoolsCoverRegistry
    UncitedListed
