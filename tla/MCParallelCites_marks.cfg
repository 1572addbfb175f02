SPECIFICATION Spec
CONSTANTS
    None = None
    Item = {1, 2, 3, 4, 5}
    Case <- MCCase
    Field <- MCField
    Clusters <- Together
    Selectors <- MCSelectors
    MaxCitations = 3
    MaxSiblings = 3
INVARIANTS
    TypeOK
    InOneEntry
    OneCasePerEntry
    FirstReportsPrinted
PROPERTIES
    MadeAgainIsTheSame
CHECK_DEADLOCK FALSE
