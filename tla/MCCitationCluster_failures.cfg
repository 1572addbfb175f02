SPECIFICATION Spec
CONSTANTS
    k1 = k1
    k2 = k2
    k3 = k3
    Undefined = Undefined
    NoLocator = NoLocator
    Locator <- MCLocator
    Item <- MCItem
    Cite <- MCCite
    SortKey <- MCSortKey
    Descending = FALSE
    Missing = {3}
    CitationID = {k1, k2, k3}
    NearNoteDistance = 1
    SortedAt = "never"
    Mode = "html"
    PreviewMode = "text"
    Clusters <- FewAndMissing
    Layouts <- Growing
INVARIANTS
    TypeOK
    TablesAgree
    DocumentIsCurrent
