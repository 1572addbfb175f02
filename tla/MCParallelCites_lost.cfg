SPECIFICATION Spec
CONSTANTS
    None = None
    Item = {1, 2, 3, 4, 5}
    Case <- MCCase
    Field <- MCField
    Clusters <- Together
    Selectors <- NoSelectors
    MaxCitations = 2
    MaxSiblings = 3
INVARIANT
    AllItemsPrinted
CHECK_DEADLOCK FALSE
