SPECIFICATION Spec
CONSTANTS
    Item = {1, 2, 3, 4, 5}
    Names <- FewNames
    Title <- Titles
    EtAlMin = 2
    UseFirst = 1
    HasInitials = FALSE
    NotGiven = NotGiven
    Styles <- SomeStyles
    Lists <- AnyFour
INVARIANTS
    TypeOK
    SettledApart
PROPERTY Terminates
