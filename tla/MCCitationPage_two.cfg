SPECIFICATION PageSpec
CONSTANTS
    a = a  b = b  c = c  d = d  en = en  r1 = r1  r2 = r2
    Alias = {a, b, c, d, en}
    Raw = {r1}
    Mods = {m1}
    Pid = {}
    ModsOf <- NoModsOf
    AliasLists <- Lists
    PidLists <- NoLists
    VarType = {v1}
    ENUS = en
    EnglishTerms = r1
    AutoAlias <- NoAutoAlias
    Null = Null
    NotFound = NotFound
    CallerAliases = {a, b, c}
    CallerTypes = {"csl"}
    OptionalArgs = {Null}
    MaxObjects = 2
    MaxSpans = 1
    CitedBy <- NoRawCites
    SelectsNone = {}
    UsedFor <- OneStyle
    MaxRuns = 1
INVARIANT ObjectsKeepApart
CHECK_DEADLOCK FALSE
