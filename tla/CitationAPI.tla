----------------------------- MODULE CitationAPI -----------------------------
(***************************************************************************)
(* The class IslandoraCitationAPI (ir_citation.api.inc) and the senders of *)
(* ir_citation.inc it calls.  One PHP request builds one page: it creates  *)
(* API objects, adds data to them under aliases, and emits spans that name *)
(* the data the browser will look up in Drupal.settings.ir_citation.       *)
(*                                                                         *)
(* All objects of a page share the class's static arrays; an object only   *)
(* keeps its uid, the prefix of every name it sends.  A name "uid_alias"   *)
(* is the pair <<uid, alias>>, which is what the concatenation is: uid is  *)
(* a run of digits that ends at the first underscore.                      *)
(*                                                                         *)
(* PHP runs one call at a time.  Each public method is one action, except  *)
(* getCitationHTMLFromPIDAndCSL, which makes one addData call per pid and  *)
(* can be abandoned half-way by an exception: it is the job below.         *)
(***************************************************************************)
EXTENDS Integers, Sequences, FiniteSets

CONSTANTS
    Alias,        \* what callers use as aliases (language codes included)
    Raw,          \* strings callers pass as content: CSL, JSON, locale XML
    Mods,         \* MODS documents
    Pid,          \* Fedora pids
    ModsOf,       \* the MODS datastream of a pid, or NotFound
    AliasLists,   \* the arrays callers pass as bibliography lists
    PidLists,     \* the arrays of pids callers pass
    VarType,      \* kinds of abbreviations, "institution" for one
    ENUS,         \* the alias "en-US"
    EnglishTerms, \* the locale string addENUS holds
    AutoAlias,    \* AutoAlias[n]: the alias getNewAlias builds from count n
    Null,         \* PHP's NULL: an argument left out
    NotFound,     \* PHP's FALSE: the result of a failed look-up
    CallerAliases, \* bound: the aliases callers use in this instance
    CallerTypes,  \* bound: the types of data callers add in this instance
    OptionalArgs, \* bound: what callers pass as optional arguments of spans
    MaxObjects,   \* bound: API objects created on a page
    MaxSpans      \* bound: the spans of a page

(***************************************************************************)
(* An auto alias is "<count><meaningful name>", and a caller may well use  *)
(* such a string itself.  Different counts are taken to give different     *)
(* strings; the exception, count 1 after a collision at "0x" and count 10  *)
(* both giving "10x", needs a longer page than any instance here.          *)
(***************************************************************************)
ASSUME AliasAssumption ==
    /\ ENUS \in Alias
    /\ Null \notin Alias
    /\ NotFound \notin Alias
    /\ DOMAIN AutoAlias \subseteq Nat
    /\ \A m, n \in DOMAIN AutoAlias :
          /\ AutoAlias[n] \in Alias
          /\ AutoAlias[m] = AutoAlias[n] => m = n

ASSUME ContentAssumption ==
    /\ EnglishTerms \in Raw
    /\ AliasLists \subseteq Seq(Alias)
    /\ PidLists \subseteq Seq(Pid)
    /\ ModsOf \in [Pid -> Mods \cup {NotFound}]
    /\ NotFound \notin Mods
    /\ Null \notin VarType

\* addData's types of data, locales apart; "unknown" is any other string.
JsonType == {"csl", "bibliography_selector", "metadata", "citation"}
DataType == JsonType \cup {"bibliography_list", "abbreviation", "unknown"}

\* Locales are sent under their language code, without a prefix.
NoPrefix == -1
Name == ({NoPrefix} \cup Nat) \X (Alias \cup {NotFound})

\* What the PHP side holds as content, and what is sent to the browser for it.
Metadata == [id : Name, mods : Mods]
CitationObject == [item : Name]
ContentOf == [t \in DataType \cup {"locale"} |->
    IF t = "metadata" THEN Raw \cup Metadata
    ELSE IF t = "citation" THEN Raw \cup CitationObject
    ELSE IF t = "bibliography_list" THEN Seq(Alias)
    ELSE Raw]
ValueOf == [ContentOf EXCEPT !["bibliography_list"] = Seq(Name)]
Key == [type : DataType \cup {"locale"}, name : Name, var : VarType \cup {Null}]

ASSUME BoundAssumption ==
    /\ CallerAliases \subseteq Alias
    /\ CallerTypes \subseteq DataType \cup {"locale"}
    /\ OptionalArgs \subseteq Alias \cup {Null}
    /\ MaxObjects \in Nat
    /\ MaxSpans \in Nat

VARIABLES
    classCount,       \* objects created so far; their uids are 0..classCount-1
    autoAliasCount,   \* counter behind getNewAlias
    pointerCount,     \* counter behind getNewPointer
    aliasPointer,     \* {<<pointer, uid, alias>>}
    contentPointer,   \* contentPointer[type][pointer] = content
    jsAliases,        \* jsAliases[pointer] = the alias its data was sent under
    localizations,    \* localizations[<<uid, alias>>] = locale string
    processorEnabled, \* citeproc-js and its helpers are on the page
    settings,         \* Drupal.settings.ir_citation after drupal_add_js's merge
    page,             \* the spans emitted so far, each the set of its names
    job               \* the getCitationHTMLFromPIDAndCSL call under way

dataVars == <<aliasPointer, contentPointer, jsAliases, localizations,
              pointerCount, settings>>
vars == <<classCount, autoAliasCount, dataVars, processorEnabled, page, job>>

Objects == 0 .. classCount - 1

EmptyArray == [x \in {} |-> Null]

\* Assignment to an entry of a PHP array.
Put(f, k, v) == [x \in DOMAIN f \cup {k} |-> IF x = k THEN v ELSE f[x]]

(***************************************************************************)
(* drupal_add_js(.., 'setting') keeps every array it is given and merges   *)
(* them with array_merge_recursive when the page is rendered: a name sent  *)
(* once is a string in the browser, a name sent again becomes an array.    *)
(***************************************************************************)
Merge(s, k, v) == Put(s, k, Append(IF k \in DOMAIN s THEN s[k] ELSE <<>>, v))

Idle == [stage |-> "idle"]

-----------------------------------------------------------------------------
(* Look-ups: none of them changes anything. *)

\* Mutant: the prefix forgets which object it belongs to.
prefixAliasShared(u, a) == <<0, a>>

prefixAlias(u, a) == <<u, a>>

isLocaleName(u, a) == <<u, a>> \in DOMAIN localizations

PointersOf(u, a) == {p \in DOMAIN jsAliases : <<p, u, a>> \in aliasPointer}

\* Mutant: locales are not looked at.
isAliasUsedForData(u, a) == PointersOf(u, a) # {}

\* Mutant: only locales are looked at.
isAliasUsedForLocale(u, a) == isLocaleName(u, a)

isAliasUsed(u, a) == PointersOf(u, a) # {} \/ isLocaleName(u, a)

\* The first pointer, in the order of creation, with the alias in its list.
getAliasPointer(u, a) ==
    CHOOSE p \in PointersOf(u, a) : \A q \in PointersOf(u, a) : p <= q

\* Mutant: the object's own alias instead of the first one.
getJSAliasOwn(u, a) == IF isAliasUsed(u, a) THEN a ELSE NotFound

getJSAlias(u, a) ==
    IF ~isAliasUsed(u, a) THEN NotFound
    ELSE IF isLocaleName(u, a) THEN a
    ELSE jsAliases[getAliasPointer(u, a)]

getContent(u, a) ==
    LET p == getAliasPointer(u, a)
        type == CHOOSE t \in DataType : p \in DOMAIN contentPointer[t]
    IN IF ~isAliasUsed(u, a) THEN NotFound
       ELSE IF isLocaleName(u, a) THEN localizations[<<u, a>>]
       ELSE contentPointer[type][p]

DuplicatePointers(type, content) ==
    {p \in DOMAIN contentPointer[type] : contentPointer[type][p] = content}

\* Mutant: == instead of ===, so that pointer 0 counts as FALSE.
isContentDuplicatedLoose(type, content) ==
    IF type = "locale"
    THEN \E k \in DOMAIN localizations : localizations[k] = content
    ELSE DuplicatePointers(type, content) \ {0} # {}

isContentDuplicated(type, content) ==
    IF type = "locale"
    THEN \E k \in DOMAIN localizations : localizations[k] = content
    ELSE DuplicatePointers(type, content) # {}

(***************************************************************************)
(* The names a bibliography list sends.  The list's own alias is already   *)
(* recorded when its elements are looked up.                               *)
(***************************************************************************)
ListedNames(u, list, alias) ==
    [i \in DOMAIN list |->
        prefixAlias(u, IF list[i] = alias THEN alias ELSE getJSAlias(u, list[i]))]

-----------------------------------------------------------------------------
(* addData, the only place where data is recorded or sent. *)

\* Mutant: the case 'csl' is missing from the switch.
SendNoCSL(u, type, alias, content, var) ==
    settings' = IF type = "csl" THEN settings
                ELSE Merge(settings, [type |-> type, name |-> prefixAlias(u, alias),
                                      var |-> var], content)

\* The switch at the end of addData and the load* method it selects.
Send(u, type, alias, content, var) ==
    LET KeyOf(n, v) == [type |-> type, name |-> n, var |-> v]
        name == prefixAlias(u, alias)
    IN \/ /\ type \in JsonType
          /\ settings' = Merge(settings, KeyOf(name, Null), content)
       \/ /\ type = "bibliography_list"
          /\ settings' = Merge(settings, KeyOf(name, Null),
                               ListedNames(u, content, alias))
       \/ /\ type = "locale"
          /\ settings' = Merge(settings, KeyOf(<<NoPrefix, alias>>, Null), content)
       \/ /\ type = "abbreviation" /\ var # Null
          /\ settings' = Merge(settings, KeyOf(name, var), content)
       \/ /\ type = "unknown" \/ (type = "abbreviation" /\ var = Null)
          /\ UNCHANGED settings

\* The alias is taken: return FALSE.
RefuseAlias(u, alias) ==
    /\ isAliasUsed(u, alias)
    /\ UNCHANGED dataVars

\* Mutant: the newest alias becomes the JavaScript name.
ShareContentRenaming(u, type, alias, content) ==
    /\ ~isAliasUsed(u, alias)
    /\ type # "locale"
    /\ \E p \in DuplicatePointers(type, content) :
          /\ aliasPointer' = aliasPointer \cup {<<p, u, alias>>}
          /\ jsAliases' = Put(jsAliases, p, alias)
    /\ UNCHANGED <<contentPointer, localizations, pointerCount, settings>>

\* The content is known: record one more alias for it, send nothing.
ShareContent(u, type, alias, content) ==
    /\ ~isAliasUsed(u, alias)
    /\ isContentDuplicated(type, content)
    /\ IF type = "locale"
       THEN /\ localizations' = Put(localizations, <<u, alias>>, content)
            /\ UNCHANGED aliasPointer
       ELSE /\ \E p \in DuplicatePointers(type, content) :
                  /\ \A q \in DuplicatePointers(type, content) : p <= q
                  /\ aliasPointer' = aliasPointer \cup {<<p, u, alias>>}
            /\ UNCHANGED localizations
    /\ UNCHANGED <<contentPointer, jsAliases, pointerCount, settings>>

\* Mutant: getNewPointer does not store the count it hands out.
LogAndSendSamePointer(u, type, alias, content, var) ==
    /\ ~isAliasUsed(u, alias)
    /\ ~isContentDuplicated(type, content)
    /\ type # "locale"
    /\ aliasPointer' = aliasPointer \cup {<<pointerCount, u, alias>>}
    /\ contentPointer' =
         [contentPointer EXCEPT ![type] = Put(@, pointerCount, content)]
    /\ jsAliases' = Put(jsAliases, pointerCount, alias)
    /\ UNCHANGED <<localizations, pointerCount>>
    /\ Send(u, type, alias, content, var)

\* New content: log it under a new pointer, then send it.
LogAndSend(u, type, alias, content, var) ==
    /\ ~isAliasUsed(u, alias)
    /\ ~isContentDuplicated(type, content)
    /\ pointerCount' = pointerCount + 1
    /\ IF type = "locale"
       THEN /\ localizations' = Put(localizations, <<u, alias>>, content)
            /\ UNCHANGED <<aliasPointer, contentPointer, jsAliases>>
       ELSE /\ aliasPointer' = aliasPointer \cup {<<pointerCount, u, alias>>}
            /\ contentPointer' =
                 [contentPointer EXCEPT ![type] = Put(@, pointerCount, content)]
            /\ jsAliases' = Put(jsAliases, pointerCount, alias)
            /\ UNCHANGED localizations
    /\ Send(u, type, alias, content, var)

addData(u, type, alias, content, var) ==
    \/ RefuseAlias(u, alias)
    \/ ShareContent(u, type, alias, content)
    \/ LogAndSend(u, type, alias, content, var)

\* Mutant: the converter is given the alias, before it is prefixed.
addMetaDataFromMODSBare(u, alias, mods) ==
    addData(u, "metadata", alias, [id |-> <<NoPrefix, alias>>, mods |-> mods], Null)

\* The converter writes the name it is sent under into the metadata as its id.
addMetaDataFromMODS(u, alias, mods) ==
    addData(u, "metadata", alias, [id |-> prefixAlias(u, alias), mods |-> mods], Null)

\* Mutant: the id is left without its prefix.
createBasicCitationObjectBare(u, jsAlias) == [item |-> <<NoPrefix, jsAlias>>]

createBasicCitationObject(u, jsAlias) == [item |-> prefixAlias(u, jsAlias)]

loadBasicCitationObject(u, metaAlias, alias) ==
    \/ /\ ~isAliasUsed(u, metaAlias)
       /\ UNCHANGED dataVars
    \/ /\ isAliasUsed(u, metaAlias)
       /\ addData(u, "citation", alias,
                  createBasicCitationObject(u, getJSAlias(u, metaAlias)), Null)

(***************************************************************************)
(* getCitationHTML: the names a span carries, each with the type of data   *)
(* the browser looks it up in and, as history, who asked for which alias.  *)
(* An unknown alias is FALSE, which isset() accepts: the name is then      *)
(* "uid_".  A call with neither citation nor list returns no span.         *)
(***************************************************************************)
Reference(u, type, alias) ==
    [type |-> type, by |-> u, alias |-> alias,
     name |-> prefixAlias(u, getJSAlias(u, alias))]

Optional(u, type, alias) == IF alias = Null THEN {} ELSE {Reference(u, type, alias)}

SpanOf(u, csl, citation, list, selector, abbreviations) ==
    {Reference(u, "csl", csl)}
      \cup Optional(u, "abbreviation", abbreviations)
      \cup IF citation # Null
           THEN Optional(u, "citation", citation)
           ELSE Optional(u, "bibliography_list", list)
                  \cup Optional(u, "bibliography_selector", selector)

-----------------------------------------------------------------------------
Init ==
    /\ classCount = 0
    /\ autoAliasCount = 0
    /\ pointerCount = 0
    /\ aliasPointer = {}
    /\ contentPointer = [t \in DataType |-> EmptyArray]
    /\ jsAliases = EmptyArray
    /\ localizations = EmptyArray
    /\ processorEnabled = FALSE
    /\ settings = EmptyArray
    /\ page = {}
    /\ job = Idle

\* new IslandoraCitationAPI()
Construct ==
    /\ job = Idle
    /\ classCount < MaxObjects
    /\ classCount' = classCount + 1
    /\ UNCHANGED <<autoAliasCount, dataVars, processorEnabled, page, job>>

LoadCiteprocJavascript ==
    /\ ~processorEnabled
    /\ processorEnabled' = TRUE
    /\ UNCHANGED <<classCount, autoAliasCount, dataVars, page, job>>

\* A call of a public method of object u that ends in one addData.
PublicCall(u) ==
    /\ job = Idle
    /\ u \in Objects
    /\ UNCHANGED <<classCount, autoAliasCount, processorEnabled, page, job>>

AddString(u) ==
    /\ PublicCall(u)
    /\ \E type \in CallerTypes \ {"bibliography_list", "abbreviation"}, alias \in CallerAliases,
          content \in Raw :
          addData(u, type, alias, content, Null)

AddAbbreviation(u) ==
    /\ PublicCall(u)
    /\ "abbreviation" \in CallerTypes
    /\ \E alias \in CallerAliases, content \in Raw, var \in VarType \cup {Null} :
          addData(u, "abbreviation", alias, content, var)

AddBibliographyList(u) ==
    /\ PublicCall(u)
    /\ \E alias \in CallerAliases, list \in AliasLists :
          addData(u, "bibliography_list", alias, list, Null)

\* addMetaData(.., 'mods'), and (.., 'pid') when the pid has a MODS datastream;
\* without one the converter throws before addData is reached.
AddMetaData(u) ==
    /\ PublicCall(u)
    /\ \E alias \in CallerAliases, mods \in Mods : addMetaDataFromMODS(u, alias, mods)

LoadBasicCitationObject(u) ==
    /\ PublicCall(u)
    /\ \E metaAlias, alias \in CallerAliases : loadBasicCitationObject(u, metaAlias, alias)

AddENUS(u) ==
    /\ PublicCall(u)
    /\ addData(u, "locale", ENUS, EnglishTerms, Null)

GetCitationHTML(u) ==
    /\ job = Idle
    /\ u \in Objects
    /\ \E csl, object \in CallerAliases, isList \in BOOLEAN,
          selector, abbreviations \in OptionalArgs :
          LET citation == IF isList THEN Null ELSE object
              span == SpanOf(u, csl, citation, object, selector, abbreviations)
          IN /\ page' = page \cup {span}
             /\ Cardinality(page') <= MaxSpans
    /\ UNCHANGED <<classCount, autoAliasCount, dataVars, processorEnabled, job>>

-----------------------------------------------------------------------------
(* getCitationHTMLFromPIDAndCSL: the style first, then one metadata object *)
(* per pid, then the citation or the list over them, then the span.        *)

\* getNewAlias skips the counts whose alias the object already uses.
IsNewAlias(u, from, n) ==
    /\ n \in DOMAIN AutoAlias
    /\ n >= from
    /\ ~isAliasUsed(u, AutoAlias[n])
    /\ \A m \in from .. n - 1 : isAliasUsed(u, AutoAlias[m])

\* Bounds of the model: enough auto aliases and room in the page for the call.
HasRoomFor(u, pids) ==
    /\ Cardinality(page) < MaxSpans
    /\ Cardinality({n \in DOMAIN AutoAlias :
                      n >= autoAliasCount /\ ~isAliasUsed(u, AutoAlias[n])})
         >= Len(pids) + 2

StartFromPIDAndCSL(u) ==
    /\ job = Idle
    /\ u \in Objects
    /\ \E n \in DOMAIN AutoAlias, csl \in Raw, pids \in PidLists :
          /\ HasRoomFor(u, pids)
          /\ IsNewAlias(u, autoAliasCount, n)
          /\ autoAliasCount' = n + 1
          /\ addData(u, "csl", AutoAlias[n], csl, Null)
          /\ job' = IF pids = <<>> THEN Idle
                    ELSE [stage |-> "pids", uid |-> u, csl |-> AutoAlias[n],
                          single |-> Len(pids) = 1, pids |-> pids,
                          list |-> <<>>, object |-> Null]
    /\ UNCHANGED <<classCount, processorEnabled, page>>

(***************************************************************************)
(* The next pid.  For a single pid the alias of the citation is drawn      *)
(* before the metadata is added.  A pid without MODS makes the converter   *)
(* throw: what was sent before stays sent, and no span is returned.        *)
(***************************************************************************)
AddNextPID ==
    /\ job # Idle
    /\ job.stage = "pids"
    /\ job.pids # <<>>
    /\ \E n, m \in DOMAIN AutoAlias :
          LET mods == ModsOf[Head(job.pids)]
          IN /\ IsNewAlias(job.uid, autoAliasCount, n)
             /\ IF job.single THEN IsNewAlias(job.uid, n + 1, m) ELSE m = n
             /\ autoAliasCount' = m + 1
             /\ \/ /\ mods = NotFound
                   /\ job' = Idle
                   /\ UNCHANGED dataVars
                \/ /\ mods # NotFound
                   /\ addMetaDataFromMODS(job.uid, AutoAlias[n], mods)
                   /\ job' = [job EXCEPT !.pids = Tail(@),
                                         !.list = Append(@, AutoAlias[n]),
                                         !.object = AutoAlias[m]]
    /\ UNCHANGED <<classCount, processorEnabled, page>>

AddAutoObject ==
    /\ job # Idle
    /\ job.stage = "pids"
    /\ job.pids = <<>>
    /\ \/ /\ job.single
          /\ loadBasicCitationObject(job.uid, Head(job.list), job.object)
          /\ job' = [job EXCEPT !.stage = "span"]
          /\ UNCHANGED autoAliasCount
       \/ /\ ~job.single
          /\ \E n \in DOMAIN AutoAlias :
                /\ IsNewAlias(job.uid, autoAliasCount, n)
                /\ autoAliasCount' = n + 1
                /\ addData(job.uid, "bibliography_list", AutoAlias[n], job.list, Null)
                /\ job' = [job EXCEPT !.stage = "span", !.object = AutoAlias[n]]
    /\ UNCHANGED <<classCount, processorEnabled, page>>

ReturnAutoSpan ==
    /\ job # Idle
    /\ job.stage = "span"
    /\ page' = page \cup
         {IF job.single THEN SpanOf(job.uid, job.csl, job.object, Null, Null, Null)
                        ELSE SpanOf(job.uid, job.csl, Null, job.object, Null, Null)}
    /\ job' = Idle
    /\ UNCHANGED <<classCount, autoAliasCount, dataVars, processorEnabled>>

-----------------------------------------------------------------------------
Next ==
    \/ Construct
    \/ LoadCiteprocJavascript
    \/ \E u \in Objects :
          \/ AddString(u)
          \/ AddAbbreviation(u)
          \/ AddBibliographyList(u)
          \/ AddMetaData(u)
          \/ LoadBasicCitationObject(u)
          \/ AddENUS(u)
          \/ GetCitationHTML(u)
          \/ StartFromPIDAndCSL(u)
    \/ AddNextPID
    \/ AddAutoObject
    \/ ReturnAutoSpan

Spec == Init /\ [][Next]_vars

-----------------------------------------------------------------------------
(* Properties *)

JobStep == [stage : {"pids", "span"}, uid : Nat, csl : Alias, single : BOOLEAN,
            pids : Seq(Pid), list : Seq(Alias), object : Alias \cup {Null}]

\* The class's arrays and the page's settings.
DataTypeOK ==
    /\ classCount \in Nat
    /\ pointerCount \in Nat
    /\ aliasPointer \subseteq (DOMAIN jsAliases) \X Objects \X Alias
    /\ DOMAIN jsAliases \subseteq 0 .. pointerCount - 1
    /\ \A p \in DOMAIN jsAliases : jsAliases[p] \in Alias
    /\ DOMAIN contentPointer = DataType
    /\ \A t \in DataType : \A p \in DOMAIN contentPointer[t] :
          p \in DOMAIN jsAliases /\ contentPointer[t][p] \in ContentOf[t]
    /\ DOMAIN localizations \subseteq Objects \X Alias
    /\ \A k \in DOMAIN localizations : localizations[k] \in Raw
    /\ \A k \in DOMAIN settings : k \in Key /\ settings[k] \in Seq(ValueOf[k.type])

\* Every pointer, uid and name in use was handed out; values have the shape
\* their type of data calls for.
TypeOK ==
    /\ DataTypeOK
    /\ autoAliasCount \in Nat
    /\ processorEnabled \in BOOLEAN
    /\ job = Idle \/ (job \in JobStep /\ job.uid \in Objects)

(***************************************************************************)
(* An alias of an object means one thing: at most one pointer or one       *)
(* locale, whatever mixture of types and objects it was added under, so    *)
(* the linear searches of getAliasPointer, getJSAlias and getContent       *)
(* cannot depend on the order of the calls.                                *)
(***************************************************************************)
AliasMeansOneThing ==
    \A u \in Objects, a \in Alias :
        /\ \A p, q \in PointersOf(u, a) : p = q
        /\ isLocaleName(u, a) => PointersOf(u, a) = {}

(***************************************************************************)
(* No content is logged twice under a type, whichever objects of the page  *)
(* added it: "only one copy of all the data" on the PHP side.              *)
(***************************************************************************)
ContentLoggedOnce ==
    \A t \in DataType : \A p, q \in DOMAIN contentPointer[t] :
        contentPointer[t][p] = contentPointer[t][q] => p = q

(***************************************************************************)
(* A prefixed name is sent at most once on a page, over all types,         *)
(* abbreviation kinds and objects, so array_merge_recursive never turns    *)
(* the string the browser parses into an array.                            *)
(***************************************************************************)
PrefixedNamesSentOnce ==
    \A k, l \in DOMAIN settings :
        k.name[1] # NoPrefix =>
            /\ Len(settings[k]) = 1
            /\ k.name = l.name => k = l

\* Types whose every logged content addData sends.
AlwaysSent == JsonType \cup {"bibliography_list"}

\* The data logged under pointer p is in the browser under object u's prefix.
IsSentBy(u, t, p) ==
    LET k == [type |-> t, name |-> prefixAlias(u, jsAliases[p]), var |-> Null]
    IN /\ k \in DOMAIN settings
       /\ t # "bibliography_list" => settings[k] = <<contentPointer[t][p]>>

(***************************************************************************)
(* Content is logged only if it is also sent: what addData later takes for *)
(* a duplicate is in the browser, under the alias jsAliases gives for it   *)
(* and the prefix of one of the page's objects.                            *)
(***************************************************************************)
LoggedContentIsSent ==
    \A t \in AlwaysSent : \A p \in DOMAIN contentPointer[t] :
        \E u \in Objects : IsSentBy(u, t, p)

\* The span was made after the data was added, and the alias names data of the
\* type the browser looks it up in.
IsProper(ref) ==
    /\ ref.name[2] # NotFound
    /\ \E p \in PointersOf(ref.by, ref.alias) : p \in DOMAIN contentPointer[ref.type]

\* The browser finds, under the referenced name, the content of the alias.
Resolves(ref) ==
    LET k == [type |-> ref.type, name |-> ref.name, var |-> Null]
    IN /\ k \in DOMAIN settings
       /\ ref.type # "bibliography_list" =>
             settings[k] = <<getContent(ref.by, ref.alias)>>

EveryReferenceResolves ==
    \A ref \in UNION page : ref.type \in AlwaysSent /\ IsProper(ref) => Resolves(ref)

(***************************************************************************)
(* On a page with one API object every name in a span leads to the content *)
(* its alias was given, however many aliases share that content and        *)
(* whatever was added after the span was emitted.                          *)
(***************************************************************************)
SoleObjectReferencesResolve == classCount = 1 => EveryReferenceResolves

\* A citation object made by loadBasicCitationObject cites an item that
\* retrieveItem finds, and whose own id is the name it was found under.
ItemIsRetrievable(name) ==
    LET k == [type |-> "metadata", name |-> name, var |-> Null]
    IN /\ k \in DOMAIN settings
       /\ settings[k][1] \notin Raw => settings[k][1].id = name

CitedItems ==
    {k \in DOMAIN settings : k.type = "citation" /\ settings[k][1] \notin Raw}

(***************************************************************************)
(* On a page with one API object, an item cited by a generated citation    *)
(* object over metadata is retrievable, under the id it carries.           *)
(***************************************************************************)
SoleObjectItemsRetrievable ==
    classCount = 1 =>
        \A k \in CitedItems :
            LET name == settings[k][1].item
                isMetadata == \E p \in DOMAIN contentPointer["metadata"] :
                                 jsAliases[p] = name[2]
            IN isMetadata => ItemIsRetrievable(name)

(***************************************************************************)
(* A name written into a span stays right: once an alias has a JavaScript  *)
(* name, no later call of any object gives it another.                     *)
(***************************************************************************)
JSAliasesAreStable ==
    [][\A u \in Objects, a \in Alias :
          isAliasUsed(u, a) => getJSAlias(u, a)' = getJSAlias(u, a)]_vars

-----------------------------------------------------------------------------
(* What the comments promise and the code does not keep. *)

\* Every abbreviation alias leads to data in the browser.
AbbreviationsSent ==
    \A p \in DOMAIN contentPointer["abbreviation"] :
        \E k \in DOMAIN settings :
            k.type = "abbreviation" /\ k.name[2] = jsAliases[p]
=============================================================================
