SPECIFICATION Spec
CONSTANTS
    a = a  b = b  c = c  d = d  en = en
    m1 = m1  r1 = r1  r2 = r2  p1 = p1  p2 = p2  p3 = p3
    Alias = {a, b, c, d, en}
    Raw = {r1}
    Mods = {m1}
    Pid = {p1, p2, p3}
    ModsOf <- MCModsOf
    AliasLists <- MCAliasLists
    PidLists <- MCPidLists
    VarType = {v1}
    ENUS = en
    EnglishTerms = r1
    AutoAlias <- MCAutoAlias
    Null = Null
    NotFound = NotFound
    CallerAliases = {b, en}
    CallerTypes = {"csl", "citation", "bibliography_selector", "abbreviation", "locale", "unknown"}
    OptionalArgs = {Null, b}
    MaxObjects = 1
    MaxSpans = 1
INVARIANTS
    TypeOK
    AliasMeansOneThing
    ContentLoggedOnce
    PrefixedNamesSentOnce
    LoggedContentIsSent
    SoleObjectReferencesResolve
    SoleObjectItemsRetrievable
PROPERTIES
    JSAliasesAreStable
