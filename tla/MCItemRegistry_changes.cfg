SPECIFICATION Spec
CONSTANTS
    Item = {1, 2, 3, 4}
    x = x
    y = y
    Undefined = Undefined
    Cite <- CiteXXYY
    SortKey <- KeysTied
    Descending = TRUE
    NumberedParts = {"cites", "bibliography"}
    Missing = {}
    Lists <- PairsAndRepeats
    UncitedLists = {}
    NoSortFlags = {FALSE, TRUE}
    MayReset = FALSE
INVARIANTS
    SuffixesNumberTheClass
    Collated
    RegistryIsListed
    PoolsMatchCites
PROPERTIES
    ReturnsWhatIsPromised
    NumberChangesReported
    SuffixChangesReported
    BibliographyChangesReported
