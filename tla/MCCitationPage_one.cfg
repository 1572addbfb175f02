SPECIFICATION PageSpec
CONSTANTS
    a = a  b = b  c = c  d = d  en = en  r1 = r1  r2 = r2
    Alias = {a, b, c, d, en}
    Raw = {r1}
    Mods = {m1}
    Pid = {}
    ModsOf <- NoModsOf
    AliasLists <- Lists
    PidLists <- NoLists
    VarType = {v1}
    ENUS = en
    EnglishTerms = r1
    AutoAlias <- NoAutoAlias
    Null = Null
    NotFound = NotFound
    CallerAliases = {a, b, c, d}
    CallerTypes = {"csl"}
    OptionalArgs = {Null}
    MaxObjects = 1
    MaxSpans = 2
    CitedBy <- NoRawCites
    SelectsNone = {}
    UsedFor <- TwoStyles
    MaxRuns = 2
INVARIANTS ShownAsAsked SoleObjectSpansFilled
PROPERTY SpansAreFilled
CHECK_DEADLOCK FALSE
