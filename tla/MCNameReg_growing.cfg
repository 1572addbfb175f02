SPECIFICATION Spec
CONSTANTS
    Item = {1, 2, 3, 4, 5}
    Part <- SomeParts
    Names <- SomeNames
    Styles <- SomeStyles
    MaxCites = 3
    MaxRemovals = 1
INVARIANTS
    TypeOK
    NamesApart
    OneForm
    NotMoreThanNeeded
CHECK_DEADLOCK FALSE
