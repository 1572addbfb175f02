-------------------------- MODULE CitationPageProofs --------------------------
(***************************************************************************)
(* Proofs about a page in the browser.  What PHP does is a behaviour of    *)
(* CitationAPI, and nothing of it changes once the page is delivered, so   *)
(* that what the invariants of CitationAPI say of Drupal.settings holds    *)
(* whenever a span is filled.                                              *)
(***************************************************************************)
EXTENDS CitationPage, CitationAPIProofs

\* Every step of a page is a step of the PHP side or leaves it alone.
LEMMA PageStep ==
    ASSUME [PageNext]_pageVars
    PROVE  [Next]_vars
  <1>1. CASE Build
    BY <1>1 DEF Build
  <1>2. CASE Deliver \/ Behave \/ \E span \in page : Fill(span)
    BY <1>2 DEF Deliver, Behave, Fill, vars
  <1>3. CASE UNCHANGED pageVars
    BY <1>3 DEF pageVars
  <1>4. QED
    BY <1>1, <1>2, <1>3 DEF PageNext

\* The page with its browser implements the class and the senders it uses: what
\* holds of them on every page holds on this one.
THEOREM PageIsBuiltByAPI == PageSpec => Spec
  <1>1. PageInit => Init
    BY DEF PageInit
  <1>2. [PageNext]_pageVars => [Next]_vars
    BY PageStep
  <1>3. QED
    BY <1>1, <1>2, PTL DEF PageSpec, Spec

-----------------------------------------------------------------------------
(* What is in Drupal.settings. *)

\* Only locales are sent without the prefix of an object.
SentUnderObjects ==
    \A k \in DOMAIN settings : k.type # "locale" => k.name[1] \in Objects

\* Metadata converted from MODS carries the name it is sent under.
MetadataSentAsNamed ==
    \A k \in DOMAIN settings :
        k.type = "metadata" => settings[k][1] \in Raw \/ settings[k][1].id = k.name

\* A span has one name of a type of data.
SpansNameOnce ==
    \A span \in page : \A r, s \in span : r.type = s.type => r = s

SentInv == SentUnderObjects /\ MetadataSentAsNamed

LEMMA SendingKeepsSent ==
    ASSUME DataInv, SentInv, Objects \subseteq Objects',
           NEW u \in Objects, NEW type \in DataType \cup {"locale"}, NEW alias \in Alias,
           NEW content \in ContentOf[type], NEW var \in VarType \cup {Null},
           addData(u, type, alias, content, var),
           ContentNamesItself(u, type, alias, content)
    PROVE  SentInv'
  <1>1. CASE UNCHANGED settings
    BY <1>1 DEF SentInv, SentUnderObjects, MetadataSentAsNamed
  <1>2. CASE ~UNCHANGED settings
    <2>1. PICK k \in Key, v \in ValueOf[type] :
             /\ settings' = Merge(settings, k, v)
             /\ k.type = type
             /\ type # "locale" => k \notin DOMAIN settings /\ k.name = <<u, alias>>
             /\ type \in JsonType => v = content
      BY <1>2, AddDataSends
    <2>2. /\ DOMAIN settings' = DOMAIN settings \cup {k}
          /\ \A l \in DOMAIN settings : l # k => settings'[l] = settings[l]
      BY <2>1 DEF Merge, Put
    <2>3. type # "locale" => settings'[k] = <<v>>
      <3>1. Append(<<>>, v) = <<v>>
        OBVIOUS
      <3>2. QED
        BY <2>1, <3>1 DEF Merge, Put
    <2>4. SentUnderObjects'
      BY <2>1, <2>2 DEF SentInv, SentUnderObjects
    <2>5. MetadataSentAsNamed'
      <3>1. SUFFICES ASSUME NEW l \in DOMAIN settings', l.type = "metadata"
                     PROVE  settings'[l][1] \in Raw \/ settings'[l][1].id = l.name
        BY DEF MetadataSentAsNamed
      <3>2. CASE l = k
        <4>1. type = "metadata" /\ v = content /\ k.name = <<u, alias>>
          BY <2>1, <3>1, <3>2 DEF JsonType
        <4>2. content \in Raw \/ content.id = <<u, alias>>
          BY <4>1 DEF ContentNamesItself
        <4>3. settings'[k][1] = content
          BY <2>3, <4>1
        <4>4. QED
          BY <3>2, <4>1, <4>2, <4>3
      <3>3. CASE l # k
        BY <2>2, <3>1, <3>3 DEF SentInv, MetadataSentAsNamed
      <3>4. QED
        BY <3>2, <3>3
    <2>6. QED
      BY <2>4, <2>5 DEF SentInv
  <1>3. QED
    BY <1>1, <1>2

LEMMA StepKeepsSent ==
    ASSUME IInv, SentInv, [Next]_vars
    PROVE  SentInv'
  <1>1. DataInv /\ Objects \subseteq Objects'
    BY StepKeepsObjects DEF IInv
  <1>2. CASE UNCHANGED dataVars
    BY <1>1, <1>2 DEF dataVars, SentInv, SentUnderObjects, MetadataSentAsNamed
  <1>3. CASE AddsData
    <2>1. PICK u \in Objects, type \in DataType \cup {"locale"}, alias \in Alias :
             \E content \in ContentOf[type], var \in VarType \cup {Null} :
                /\ addData(u, type, alias, content, var)
                /\ ContentNamesItself(u, type, alias, content)
      BY <1>3 DEF AddsData
    <2>2. QED
      BY <1>1, <2>1, SendingKeepsSent
  <1>4. QED
    BY <1>2, <1>3, StepAddsData

-----------------------------------------------------------------------------
(* What is in a span. *)

LEMMA SpanOfNamesOnce ==
    ASSUME NEW u, NEW csl, NEW citation, NEW list, NEW selector, NEW abbreviations,
           NEW r \in SpanOf(u, csl, citation, list, selector, abbreviations),
           NEW s \in SpanOf(u, csl, citation, list, selector, abbreviations),
           r.type = s.type
    PROVE  r = s
  BY DEF SpanOf, Optional, Reference

\* A span that is new was made by SpanOf.
LEMMA StepMakesSpans ==
    ASSUME [Next]_vars, NEW span \in page'
    PROVE  \/ span \in page
           \/ \E u, csl, citation, list, selector, abbreviations :
                 span = SpanOf(u, csl, citation, list, selector, abbreviations)
  <1>1. CASE UNCHANGED page
    BY <1>1
  <1>2. ASSUME NEW u \in Objects, GetCitationHTML(u), span \notin page
        PROVE  \E csl, citation, list, selector, abbreviations :
                  span = SpanOf(u, csl, citation, list, selector, abbreviations)
    <2>1. PICK csl \in CallerAliases, object \in CallerAliases, isList \in BOOLEAN,
               selector \in OptionalArgs, abbreviations \in OptionalArgs :
             page' = page \cup {SpanOf(u, csl, IF isList THEN Null ELSE object, object,
                                       selector, abbreviations)}
      BY <1>2 DEF GetCitationHTML
    <2>2. span = SpanOf(u, csl, IF isList THEN Null ELSE object, object, selector, abbreviations)
      BY <1>2, <2>1
    <2>3. QED
      BY <2>2
  <1>3. CASE ReturnAutoSpan
    BY <1>3 DEF ReturnAutoSpan
  <1>4. \/ UNCHANGED page
        \/ \E u \in Objects : GetCitationHTML(u)
        \/ ReturnAutoSpan
    BY DEF Next, vars, Construct, LoadCiteprocJavascript, AddString, AddAbbreviation,
       AddBibliographyList, AddMetaData, LoadBasicCitationObject, AddENUS, PublicCall,
       StartFromPIDAndCSL, AddNextPID, AddAutoObject
  <1>5. QED
    BY <1>1, <1>2, <1>3, <1>4

LEMMA StepKeepsSpans ==
    ASSUME SpansNameOnce, [Next]_vars
    PROVE  SpansNameOnce'
  <1>1. SUFFICES ASSUME NEW span \in page', NEW r \in span, NEW s \in span, r.type = s.type
                 PROVE  r = s
    BY DEF SpansNameOnce
  <1>2. CASE span \in page
    BY <1>1, <1>2 DEF SpansNameOnce
  <1>3. ASSUME NEW u, NEW csl, NEW citation, NEW list, NEW selector, NEW abbreviations,
               span = SpanOf(u, csl, citation, list, selector, abbreviations)
        PROVE  r = s
    BY <1>1, <1>3, SpanOfNamesOnce
  <1>4. QED
    BY <1>2, <1>3, StepMakesSpans

-----------------------------------------------------------------------------
(* The locale. *)

ENUSKey == At("locale", <<NoPrefix, ENUS>>)

(***************************************************************************)
(* While there is at most one object, and no language but en-US, the       *)
(* locale is sent when it is recorded, and once.                           *)
(***************************************************************************)
LocaleSentOnce ==
    classCount <= 1 =>
        /\ DOMAIN localizations \subseteq {<<0, ENUS>>}
        /\ \A k \in DOMAIN settings : k.type = "locale" =>
              k = ENUSKey /\ Len(settings[k]) = 1 /\ isLocaleName(0, ENUS)
        /\ isLocaleName(0, ENUS) => ENUSKey \in DOMAIN settings

\* Other data leaves locales alone.
LEMMA OtherDataKeepsLocale ==
    ASSUME DataInv, LocaleSentOnce, UNCHANGED classCount,
           NEW u \in Objects, NEW type \in DataType, NEW alias \in Alias,
           NEW content \in ContentOf[type], NEW var \in VarType \cup {Null},
           addData(u, type, alias, content, var)
    PROVE  LocaleSentOnce'
  <1>1. type # "locale"
    BY DEF DataType, JsonType
  <1>2. UNCHANGED localizations
    BY <1>1 DEF addData, RefuseAlias, ShareContent, LogAndSend, dataVars
  <1>3. CASE UNCHANGED settings
    BY <1>2, <1>3 DEF LocaleSentOnce, isLocaleName
  <1>4. CASE ~UNCHANGED settings
    <2>1. PICK k \in Key, v \in ValueOf[type] :
             /\ settings' = Merge(settings, k, v)
             /\ k.type = type
      BY <1>4, AddDataSends
    <2>2. /\ DOMAIN settings' = DOMAIN settings \cup {k}
          /\ \A l \in DOMAIN settings : l # k => settings'[l] = settings[l]
      BY <2>1 DEF Merge, Put
    <2>3. k.type # "locale"
      BY <1>1, <2>1
    <2>4. QED
      BY <1>2, <2>2, <2>3 DEF LocaleSentOnce, isLocaleName
  <1>5. QED
    BY <1>3, <1>4

LEMMA LocaleKeepsLocale ==
    ASSUME LocaleSentOnce, UNCHANGED classCount, classCount = 1,
           DOMAIN localizations' \subseteq {<<0, ENUS>>},
           NEW alias \in Alias, NEW content, NEW var,
           addData(0, "locale", alias, content, var)
    PROVE  LocaleSentOnce'
  <1>1. CASE UNCHANGED dataVars
    BY <1>1 DEF dataVars, LocaleSentOnce, isLocaleName
  <1>2. CASE ~UNCHANGED dataVars
    <2>1. /\ ~isLocaleName(0, alias)
          /\ localizations' = Put(localizations, <<0, alias>>, content)
          /\ ShareContent(0, "locale", alias, content) \/ LogAndSend(0, "locale", alias, content, var)
      BY <1>2 DEF addData, RefuseAlias, ShareContent, LogAndSend, isAliasUsed
    <2>2. alias = ENUS
      BY <2>1 DEF Put
    <2>3. DOMAIN localizations = {}
      <3>1. classCount <= 1
        OBVIOUS
      <3>2. DOMAIN localizations \subseteq {<<0, ENUS>>}
        BY <3>1 DEF LocaleSentOnce
      <3>3. <<0, ENUS>> \notin DOMAIN localizations
        BY <2>1, <2>2 DEF isLocaleName
      <3>4. QED
        BY <3>2, <3>3
    <2>4. ENUSKey \notin DOMAIN settings
      BY <2>3 DEF LocaleSentOnce, isLocaleName, ENUSKey, At
    <2>5. settings' = Merge(settings, ENUSKey, content)
      <3>1. ~isContentDuplicated("locale", content)
        BY <2>3 DEF isContentDuplicated
      <3>2. Send(0, "locale", alias, content, var)
        BY <2>1, <3>1 DEF ShareContent, LogAndSend
      <3>3. QED
        BY <2>2, <3>2 DEF Send, JsonType, ENUSKey, At
    <2>6. /\ DOMAIN settings' = DOMAIN settings \cup {ENUSKey}
          /\ settings'[ENUSKey] = <<content>>
          /\ \A k \in DOMAIN settings : settings'[k] = settings[k]
      <3>1. Append(<<>>, content) = <<content>>
        OBVIOUS
      <3>2. QED
        BY <2>4, <2>5, <3>1 DEF Merge, Put
    <2>7. \A k \in DOMAIN settings : k.type # "locale"
      BY <2>3 DEF LocaleSentOnce, isLocaleName
    <2>8. isLocaleName(0, ENUS)' /\ DOMAIN localizations' \subseteq {<<0, ENUS>>}
      BY <2>1, <2>2, <2>3 DEF isLocaleName, Put
    <2>9. Len(settings'[ENUSKey]) = 1
      BY <2>6
    <2>10. ENUSKey' = ENUSKey
      BY DEF ENUSKey, At
    <2>11. QED
      BY <2>6, <2>7, <2>8, <2>9, <2>10 DEF LocaleSentOnce
  <1>3. QED
    BY <1>1, <1>2

LEMMA BuildKeepsLocale ==
    ASSUME IInv, LocaleSentOnce, Build
    PROVE  LocaleSentOnce'
  <1>1. Next /\ AliasesInUse'
    BY DEF Build
  <1>2. /\ DataInv /\ classCount \in Nat /\ classCount' \in Nat
        /\ Objects \subseteq Objects'
    <2>1. DataInv'
      BY <1>1, NextDataInv DEF IInv
    <2>2. QED
      BY <1>1, <2>1, StepKeepsObjects DEF IInv, DataInv, DataTypeOK
  <1>3. SUFFICES ASSUME classCount' <= 1 PROVE LocaleSentOnce'
    BY DEF LocaleSentOnce
  <1>4. classCount <= classCount'
    <2>1. \A m, n \in Nat : 0 .. m - 1 \subseteq 0 .. n - 1 => m <= n
      <3>1. SUFFICES ASSUME NEW m \in Nat, NEW n \in Nat, 0 .. m - 1 \subseteq 0 .. n - 1, ~(m <= n)
                     PROVE  FALSE
        OBVIOUS
      <3>2. n \in 0 .. m - 1 /\ n \notin 0 .. n - 1
        BY <3>1
      <3>3. QED
        BY <3>1, <3>2
    <2>2. QED
      BY <1>2, <2>1 DEF Objects
  <1>5. CASE UNCHANGED dataVars
    BY <1>2, <1>3, <1>4, <1>5 DEF dataVars, LocaleSentOnce, isLocaleName
  <1>6. CASE AddsData /\ UNCHANGED classCount
    <2>1. PICK u \in Objects, type \in DataType \cup {"locale"}, alias \in Alias :
             \E content \in ContentOf[type], var \in VarType \cup {Null} :
                addData(u, type, alias, content, var)
      BY <1>6 DEF AddsData
    <2>2. PICK content \in ContentOf[type], var \in VarType \cup {Null} :
             addData(u, type, alias, content, var)
      BY <2>1
    <2>3. CASE type \in DataType
      BY <1>2, <1>6, <2>2, <2>3, OtherDataKeepsLocale
    <2>4. CASE type = "locale"
      <3>1. u = 0 /\ classCount = 1
        BY <1>2, <1>3, <1>4 DEF Objects
      <3>2. DOMAIN localizations' \subseteq {<<0, ENUS>>}
        <4>1. DOMAIN localizations' \subseteq Objects' \X {ENUS}
          BY <1>1 DEF AliasesInUse
        <4>2. Objects' = {0}
          BY <1>6, <3>1 DEF Objects
        <4>3. QED
          BY <4>1, <4>2
      <3>3. QED
        BY <1>6, <2>2, <2>4, <3>1, <3>2, LocaleKeepsLocale
    <2>5. QED
      BY <2>3, <2>4
  <1>7. QED
    BY <1>1, <1>2, <1>5, <1>6, StepAddsData
-----------------------------------------------------------------------------
(* What PHP leaves in the page. *)

BuiltInv == SpanInv /\ SentInv /\ SpansNameOnce /\ LocaleSentOnce

LEMMA InitBuiltInv == PageInit => SentInv /\ SpansNameOnce /\ LocaleSentOnce
  <1>1. SUFFICES ASSUME Init PROVE SentInv /\ SpansNameOnce /\ LocaleSentOnce
    BY DEF PageInit
  <1>2. DOMAIN settings = {} /\ page = {} /\ DOMAIN localizations = {}
    BY <1>1 DEF Init, EmptyArray
  <1>3. QED
    BY <1>2 DEF SentInv, SentUnderObjects, MetadataSentAsNamed, SpansNameOnce, LocaleSentOnce,
       isLocaleName

LEMMA PageKeepsBuiltInv ==
    ASSUME IInv, SentInv, SpansNameOnce, LocaleSentOnce, [PageNext]_pageVars
    PROVE  SentInv' /\ SpansNameOnce' /\ LocaleSentOnce'
  <1>1. SentInv' /\ SpansNameOnce'
    BY PageStep, StepKeepsSent, StepKeepsSpans
  <1>2. CASE Build
    BY <1>1, <1>2, BuildKeepsLocale
  <1>3. CASE UNCHANGED vars
    BY <1>1, <1>3 DEF vars, dataVars, LocaleSentOnce, isLocaleName
  <1>4. Build \/ UNCHANGED vars
    BY DEF PageNext, Deliver, Behave, Fill, pageVars
  <1>5. QED
    BY <1>2, <1>3, <1>4

LEMMA BuiltInvariantHolds == PageSpec => []BuiltInv
  <1>1. SpanInv => IInv
    BY DEF SpanInv
  <1>2. SpanInv /\ SentInv /\ SpansNameOnce /\ LocaleSentOnce => BuiltInv
    BY DEF BuiltInv
  <1>3. QED
    BY <1>1, <1>2, InitBuiltInv, PageKeepsBuiltInv, PageIsBuiltByAPI, SpanInvariantHolds, PTL
       DEF PageSpec

-----------------------------------------------------------------------------
(* The loop. *)

(***************************************************************************)
(* The spans filled show what the settings say, and a loop over the page   *)
(* that came to its end filled them all, unless one of them threw, but for *)
(* those that list nothing.                                                *)
(***************************************************************************)
LoopInv ==
    /\ runs \in Nat
    /\ todo \subseteq page
    /\ ~delivered => runs = 0 /\ todo = {} /\ DOMAIN shown = {}
    /\ \A span \in DOMAIN shown :
          span \in page /\ Succeeds(span) /\ shown[span] = Output(span)
    /\ runs > 0 => \/ \A span \in page \ todo : span \in DOMAIN shown \/ ListsNothing(span)
                   \/ \E span \in page : ~Succeeds(span)

\* What a span shows depends on Drupal.settings alone.
LEMMA SettingsDecide ==
    ASSUME UNCHANGED settings, NEW span
    PROVE  /\ Succeeds(span)' <=> Succeeds(span)
           /\ Output(span)' = Output(span)
           /\ ListsNothing(span)' <=> ListsNothing(span)
  <1>1. \A type, name : /\ IsString(type, name)' <=> IsString(type, name)
                        /\ Value(type, name)' = Value(type, name)
    BY DEF IsString, Value, At
  <1>2. Asked(span)' = Asked(span)
    BY <1>1 DEF Asked, ListItems, CitedItemsOf, Names, Value, At
  <1>3. Succeeds(span)' <=> Succeeds(span)
    BY <1>1, <1>2 DEF Succeeds, Names, Has
  <1>4. Output(span)' = Output(span)
    BY <1>1, <1>2 DEF Output, Names, retrieveItem
  <1>5. ListsNothing(span)' <=> ListsNothing(span)
    BY <1>1, <1>3, <1>4 DEF ListsNothing, Names, Has
  <1>6. QED
    BY <1>3, <1>4, <1>5

LEMMA PageKeepsLoopInv ==
    ASSUME LoopInv, [PageNext]_pageVars
    PROVE  LoopInv'
  <1>1. CASE Build
    <2>1. UNCHANGED <<delivered, runs, todo, shown>> /\ ~delivered
      BY <1>1 DEF Build, browserVars
    <2>2. runs = 0 /\ todo = {} /\ DOMAIN shown = {}
      BY <2>1 DEF LoopInv
    <2>3. QED
      BY <2>1, <2>2 DEF LoopInv
  <1>2. ASSUME UNCHANGED vars
        PROVE  /\ page' = page
               /\ \A span : /\ Succeeds(span)' <=> Succeeds(span)
                            /\ Output(span)' = Output(span)
                            /\ ListsNothing(span)' <=> ListsNothing(span)
    BY <1>2, SettingsDecide DEF vars, dataVars
  <1>3. CASE Deliver
    <2>1. UNCHANGED <<vars, runs, todo, shown>> /\ delivered'
      BY <1>3 DEF Deliver
    <2>2. QED
      BY <1>2, <2>1 DEF LoopInv
  <1>4. CASE Behave
    <2>1. /\ UNCHANGED <<vars, delivered, shown>> /\ delivered
          /\ runs' = runs + 1 /\ todo' = page
      BY <1>4 DEF Behave
    <2>2. page' \ todo' = {}
      BY <1>2, <2>1
    <2>3. QED
      BY <1>2, <2>1, <2>2 DEF LoopInv
  <1>5. ASSUME NEW span \in page, Fill(span)
        PROVE  LoopInv'
    <2>1. UNCHANGED <<vars, delivered, runs>> /\ span \in todo
      BY <1>5 DEF Fill
    <2>2. delivered
      BY <2>1 DEF LoopInv
    <2>3. CASE Succeeds(span) /\ ~ListsNothing(span)
      <3>1. shown' = Put(shown, span, Output(span)) /\ todo' = todo \ {span}
        BY <1>5, <2>3 DEF Fill
      <3>2. /\ DOMAIN shown' = DOMAIN shown \cup {span}
            /\ shown'[span] = Output(span)
            /\ \A x \in DOMAIN shown : x # span => shown'[x] = shown[x]
        BY <3>1 DEF Put
      <3>3. QED
        BY <1>2, <2>1, <2>2, <2>3, <3>1, <3>2 DEF LoopInv
    <2>4. CASE ListsNothing(span)
      <3>1. UNCHANGED shown /\ todo' = todo \ {span}
        BY <1>5, <2>4 DEF Fill, ListsNothing
      <3>2. QED
        BY <1>2, <2>1, <2>2, <2>4, <3>1 DEF LoopInv
    <2>5. CASE ~Succeeds(span)
      <3>1. UNCHANGED shown /\ todo' = {}
        BY <1>5, <2>5 DEF Fill, ListsNothing
      <3>2. QED
        BY <1>2, <2>1, <2>2, <2>5, <3>1 DEF LoopInv
    <2>6. QED
      BY <2>3, <2>4, <2>5
  <1>6. CASE UNCHANGED pageVars
    <2>1. UNCHANGED <<vars, delivered, runs, todo, shown>>
      BY <1>6 DEF pageVars, browserVars
    <2>2. QED
      BY <1>2, <2>1 DEF LoopInv
  <1>7. QED
    BY <1>1, <1>3, <1>4, <1>5, <1>6 DEF PageNext

LEMMA LoopInvariantHolds == PageSpec => []LoopInv
  <1>1. PageInit => LoopInv
    BY DEF PageInit, LoopInv, Init
  <1>2. QED
    BY <1>1, PageKeepsLoopInv, PTL DEF PageSpec
-----------------------------------------------------------------------------
(* What names lead to. *)

\* With one name of a type per span, the names of the type are that name.
LEMMA OneName ==
    ASSUME SpansNameOnce, NEW span \in page, NEW ref \in span
    PROVE  Names(span, ref.type) = {ref.name}
  BY DEF SpansNameOnce, Names

\* A name that leads to content leads to it alone.
LEMMA ResolvedValue ==
    ASSUME NEW ref, ref.type # "bibliography_list", Resolves(ref)
    PROVE  /\ IsString(ref.type, ref.name)
           /\ Value(ref.type, ref.name) = getContent(ref.by, ref.alias)
  BY DEF Resolves, IsString, Value, At

LEMMA SoleObjectResolves ==
    ASSUME SoleObjectReferencesResolve, classCount = 1, NEW span \in page, NEW ref \in span,
           ref.type \in AlwaysSent, IsProper(ref)
    PROVE  Resolves(ref)
  BY DEF SoleObjectReferencesResolve, EveryReferenceResolves

(***************************************************************************)
(* On a page with one API object, the loop of ir_citation_run.js renders   *)
(* every span it fills with the style, the citation object and the         *)
(* selector its aliases stood for in PHP, and sys.retrieveItem gives it    *)
(* items that carry the id they are retrieved by.                          *)
(***************************************************************************)
THEOREM SpansShowWhatWasAsked == PageSpec => []ShownAsAsked
  <1>1. BuiltInv /\ LoopInv /\ SoleObjectReferencesResolve => ShownAsAsked
    <2>1. SUFFICES ASSUME BuiltInv, LoopInv, SoleObjectReferencesResolve, classCount = 1,
                          NEW span \in DOMAIN shown
                   PROVE  /\ \A ref \in span : IsProper(ref) =>
                                /\ ref.type = "csl" =>
                                      shown[span].csl = {getContent(ref.by, ref.alias)}
                                /\ ref.type = "citation" =>
                                      shown[span].citation = {getContent(ref.by, ref.alias)}
                                /\ ref.type = "bibliography_selector" =>
                                      shown[span].selector = {getContent(ref.by, ref.alias)}
                          /\ \A item \in shown[span].items :
                                \/ item \in Raw
                                \/ IsString("metadata", item.id) /\ retrieveItem(item.id) = item
      BY DEF ShownAsAsked
    <2>2. span \in page /\ Succeeds(span) /\ shown[span] = Output(span)
      BY <2>1 DEF LoopInv
    <2>3. /\ shown[span].csl = {Value("csl", n) : n \in Names(span, "csl")}
          /\ shown[span].citation = {Value("citation", n) : n \in Names(span, "citation")}
          /\ shown[span].selector =
               {Value("bibliography_selector", n) :
                  n \in {n \in Names(span, "bibliography_selector") :
                           IsString("bibliography_selector", n)}}
          /\ shown[span].items = {retrieveItem(n) : n \in Asked(span)}
      BY <2>2 DEF Output
    <2>4. ASSUME NEW ref \in span, IsProper(ref),
                 ref.type \in {"csl", "citation", "bibliography_selector"}
          PROVE  /\ Names(span, ref.type) = {ref.name}
                 /\ IsString(ref.type, ref.name)
                 /\ Value(ref.type, ref.name) = getContent(ref.by, ref.alias)
      <3>1. ref.type \in AlwaysSent /\ ref.type # "bibliography_list"
        BY <2>4 DEF AlwaysSent, JsonType
      <3>2. Resolves(ref)
        BY <2>1, <2>2, <2>4, <3>1, SoleObjectResolves
      <3>3. Names(span, ref.type) = {ref.name}
        BY <2>1, <2>2, OneName DEF BuiltInv
      <3>4. QED
        BY <3>1, <3>2, <3>3, ResolvedValue
    <2>5. ASSUME NEW ref \in span, IsProper(ref)
          PROVE  /\ ref.type = "csl" => shown[span].csl = {getContent(ref.by, ref.alias)}
                 /\ ref.type = "citation" =>
                       shown[span].citation = {getContent(ref.by, ref.alias)}
                 /\ ref.type = "bibliography_selector" =>
                       shown[span].selector = {getContent(ref.by, ref.alias)}
      <3>1. CASE ref.type = "csl"
        BY <2>3, <2>4, <2>5, <3>1
      <3>2. CASE ref.type = "citation"
        BY <2>3, <2>4, <2>5, <3>2
      <3>3. CASE ref.type = "bibliography_selector"
        BY <2>3, <2>4, <2>5, <3>3
      <3>4. QED
        BY <3>1, <3>2, <3>3
    <2>6. ASSUME NEW n \in Asked(span)
          PROVE  \/ retrieveItem(n) \in Raw
                 \/ IsString("metadata", retrieveItem(n).id) /\ retrieveItem(n).id = n
      <3>1. IsString("metadata", n)
        BY <2>2 DEF Succeeds
      <3>2. At("metadata", n) \in DOMAIN settings
        BY <3>1 DEF IsString
      <3>3. At("metadata", n).type = "metadata" /\ At("metadata", n).name = n
        BY DEF At
      <3>4. settings[At("metadata", n)][1] \in Raw \/ settings[At("metadata", n)][1].id = n
        BY <2>1, <3>2, <3>3 DEF BuiltInv, SentInv, MetadataSentAsNamed
      <3>5. QED
        BY <3>1, <3>4 DEF retrieveItem, Value
    <2>7. QED
      BY <2>3, <2>5, <2>6
  <1>2. QED
    BY <1>1, BuiltInvariantHolds, LoopInvariantHolds, PageIsBuiltByAPI, SpansResolve, PTL

-----------------------------------------------------------------------------
(* Callers that did right. *)

\* A name with the prefix of an object, in use, is a string.
LEMMA PrefixedIsString ==
    ASSUME DataInv, NEW type, NEW name, At(type, name) \in DOMAIN settings, name[1] \in Objects
    PROVE  IsString(type, name)
  <1>1. name[1] # NoPrefix
    BY NameType DEF DataInv
  <1>2. At(type, name).name = name
    BY DEF At
  <1>3. Len(settings[At(type, name)]) = 1
    BY <1>1, <1>2 DEF DataInv, PrefixedNamesSentOnce
  <1>4. QED
    BY <1>3 DEF IsString

\* The names the engine asks for are names.
LEMMA AskedNames ==
    ASSUME DataInv, NEW span, NEW n \in Asked(span),
           \A type \in {"citation", "bibliography_list"} : \A m \in Names(span, type) :
              IsString(type, m)
    PROVE  n \in Name
  <1>1. ASSUME NEW type \in DataType, NEW m, IsString(type, m)
        PROVE  Value(type, m) \in ValueOf[type]
    <2>1. /\ settings[At(type, m)] \in Seq(ValueOf[At(type, m).type])
          /\ Len(settings[At(type, m)]) = 1
      BY <1>1 DEF DataInv, DataTypeOK, IsString
    <2>2. At(type, m).type = type
      BY DEF At
    <2>3. QED
      BY <2>1, <2>2 DEF Value
  <1>2. ASSUME NEW m \in Names(span, "bibliography_list"), n \in ListItems(Value("bibliography_list", m))
        PROVE  n \in Name
    <2>1. "bibliography_list" \in DataType /\ ValueOf["bibliography_list"] = Seq(Name)
      BY DEF DataType, ValueOf, ContentOf
    <2>2. Value("bibliography_list", m) \in Seq(Name)
      BY <1>1, <1>2, <2>1
    <2>3. QED
      BY <1>2, <2>2 DEF ListItems
  <1>3. ASSUME NEW m \in Names(span, "citation"), n \in CitedItemsOf(Value("citation", m))
        PROVE  n \in Name
    <2>1. "citation" \in DataType /\ ValueOf["citation"] = Raw \cup CitationObject
      BY DEF DataType, JsonType, ValueOf, ContentOf
    <2>2. Value("citation", m) \in Raw \cup CitationObject
      BY <1>1, <1>3, <2>1
    <2>3. QED
      BY <1>3, <2>2, PageAssumption DEF CitedItemsOf, CitationObject
  <1> DEFINE lists == {ListItems(Value("bibliography_list", m)) : m \in Names(span, "bibliography_list")}
             cites == {CitedItemsOf(Value("citation", m)) : m \in Names(span, "citation")}
  <1>4. \A S \in lists : n \in S => n \in Name
    BY <1>2
  <1>5. \A S \in cites : n \in S => n \in Name
    BY <1>3
  <1>6. Asked(span) = (UNION lists) \cup (UNION cites)
    BY DEF Asked
  <1> HIDE DEF lists, cites
  <1>7. QED
    BY <1>4, <1>5, <1>6

LEMMA CallersSucceed ==
    ASSUME BuiltInv, SoleObjectReferencesResolve, classCount = 1, CallersDidRight,
           NEW span \in page
    PROVE  Succeeds(span)
  <1>1. DataInv /\ Objects = {0}
    BY DEF BuiltInv, SpanInv, IInv, Objects
  <1>2. IsString("locale", <<NoPrefix, ENUS>>)
    <2>1. isLocaleName(0, ENUS)
      BY <1>1 DEF CallersDidRight
    <2>2. classCount <= 1
      OBVIOUS
    <2>3. ENUSKey \in DOMAIN settings
      BY <2>1, <2>2 DEF BuiltInv, LocaleSentOnce
    <2>4. ENUSKey.type = "locale"
      BY DEF ENUSKey, At
    <2>5. Len(settings[ENUSKey]) = 1
      BY <2>2, <2>3, <2>4 DEF BuiltInv, LocaleSentOnce
    <2>6. QED
      BY <2>3, <2>5 DEF IsString, ENUSKey
  <1>3. ASSUME NEW ref \in span
        PROVE  IsProper(ref) /\ ref.by = 0 /\ ref.alias \in Alias /\ ref.name = <<0, getJSAlias(0, ref.alias)>>
    <2>1. IsProper(ref)
      BY DEF CallersDidRight
    <2>2. ref \in UNION page /\ ref.name[2] # NotFound
      BY <2>1 DEF IsProper
    <2>3. QED
      BY <1>1, <2>1, <2>2 DEF BuiltInv, SpanInv, SpanNamesAreCurrent, prefixAlias
  <1>4. ASSUME NEW type \in AlwaysSent, NEW n \in Names(span, type)
        PROVE  IsString(type, n)
    <2>1. PICK ref \in span : ref.type = type /\ ref.name = n
      BY <1>4 DEF Names
    <2>2. Resolves(ref)
      BY <1>3, <1>4, <2>1, SoleObjectResolves
    <2>3. At(type, n) \in DOMAIN settings
      BY <2>1, <2>2 DEF Resolves, At
    <2>4. n[1] \in Objects
      BY <1>1, <1>3, <2>1
    <2>5. QED
      BY <1>1, <2>3, <2>4, PrefixedIsString
  <1>5. \A type \in {"csl", "citation", "bibliography_list"} :
           \A n \in Names(span, type) : IsString(type, n)
    BY <1>4 DEF AlwaysSent, JsonType
  <1>6. ASSUME NEW n \in Names(span, "abbreviation")
        PROVE  \E k \in DOMAIN settings : k.type = "abbreviation" /\ k.name = n
    <2>1. PICK ref \in span : ref.type = "abbreviation" /\ ref.name = n
      BY <1>6 DEF Names
    <2>2. PICK p \in PointersOf(0, ref.alias) : p \in DOMAIN contentPointer["abbreviation"]
      BY <1>3, <2>1 DEF IsProper
    <2>3. getJSAlias(0, ref.alias) = jsAliases[p]
      BY <1>1, <1>3, <2>2, DataOfAlias DEF BuiltInv, SpanInv, DataType
    <2>4. PICK k \in DOMAIN settings : k.type = "abbreviation" /\ k.name[2] = jsAliases[p]
      BY <2>2 DEF CallersDidRight, AbbreviationsSent
    <2>5. k.name[1] = 0 /\ k.name \in Name
      BY <1>1, <2>4 DEF BuiltInv, SentInv, SentUnderObjects, DataInv, DataTypeOK, Key
    <2>6. k.name = <<0, jsAliases[p]>>
      BY <2>4, <2>5 DEF Name
    <2>7. QED
      BY <1>3, <2>1, <2>3, <2>4, <2>6
  <1>7. Has(span, "bibliography_selector") => \E k \in DOMAIN settings : k.type = "bibliography_selector"
    <2>1. SUFFICES ASSUME NEW n \in Names(span, "bibliography_selector")
                   PROVE  \E k \in DOMAIN settings : k.type = "bibliography_selector"
      BY DEF Has
    <2>2. At("bibliography_selector", n) \in DOMAIN settings
      BY <1>4 DEF AlwaysSent, JsonType, IsString
    <2>3. QED
      BY <2>2 DEF At
  <1>8. ASSUME NEW n \in Asked(span)
        PROVE  IsString("metadata", n)
    <2>1. IsMetadata(n)
      <3>1. PICK type \in {"citation", "bibliography_list"} : \E m \in Names(span, type) : TRUE
        BY <1>8 DEF Asked
      <3>2. QED
        BY <1>5, <3>1 DEF CallersDidRight
    <2>2. PICK p \in DOMAIN contentPointer["metadata"] : jsAliases[p] = n[2]
      BY <2>1 DEF IsMetadata
    <2>3. PICK u \in Objects : IsSentBy(u, "metadata", p)
      BY <1>1, <2>2 DEF DataInv, LoggedContentIsSent, AlwaysSent, JsonType
    <2>4. n \in Name
      BY <1>1, <1>5, AskedNames
    <2>5. n = <<0, jsAliases[p]>> /\ n[1] \in Objects
      BY <1>1, <2>1, <2>2, <2>4 DEF IsMetadata, Name
    <2>6. At("metadata", n) \in DOMAIN settings
      BY <1>1, <2>3, <2>5 DEF IsSentBy, At, prefixAlias
    <2>7. QED
      BY <1>1, <2>5, <2>6, PrefixedIsString
  <1>9. QED
    BY <1>2, <1>5, <1>6, <1>7, <1>8 DEF Succeeds

(***************************************************************************)
(* On a page with one API object whose callers did what they are asked to, *)
(* nothing throws in the loop of ir_citation_run.js: when it has come to   *)
(* its end, every span of the page is filled, but for those whose          *)
(* bibliography has no entries.                                            *)
(***************************************************************************)
THEOREM LoopsFillAllSpans == PageSpec => []SoleObjectSpansFilled
  <1>1. BuiltInv /\ LoopInv /\ SoleObjectReferencesResolve => SoleObjectSpansFilled
    <2>1. SUFFICES ASSUME BuiltInv, LoopInv, SoleObjectReferencesResolve, classCount = 1,
                          CallersDidRight, runs > 0, todo = {}
                   PROVE  AllFilled
      BY DEF SoleObjectSpansFilled, ObjectsKeepApart
    <2>2. \A span \in page : Succeeds(span)
      BY <2>1, CallersSucceed
    <2>3. QED
      BY <2>1, <2>2 DEF LoopInv, AllFilled
  <1>2. QED
    BY <1>1, BuiltInvariantHolds, LoopInvariantHolds, PageIsBuiltByAPI, SpansResolve, PTL
=============================================================================
