SPECIFICATION Spec
CONSTANTS
    k1 = k1
    k2 = k2
    k3 = k3
    Undefined = Undefined
    NoLocator = NoLocator
    Locator <- MCLocator
    Item <- MCItem
    Cite <- MCCite
    SortKey <- MCSortKey
    Descending = FALSE
    Missing = {}
    CitationID = {k1, k2, k3}
    NearNoteDistance = 1
    SortedAt = "before positions"
    Mode = "html"
    PreviewMode = "text"
    Clusters <- Many
    Layouts <- Mixed
INVARIANTS
    DocumentIsCurrent
    BackreferencesResolve
PROPERTIES
    RestartChangesNothing
