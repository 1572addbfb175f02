----------------------------- MODULE CitationPage -----------------------------
(***************************************************************************)
(* A page on both sides: PHP builds it with CitationAPI, and in the        *)
(* browser the Drupal behaviour of ir_citation_run.js fills its spans with *)
(* what they name in Drupal.settings.ir_citation, by way of the sys object *)
(* of ir_citation_sys.js.                                                  *)
(*                                                                         *)
(* Each span gets an engine of its own.  Whatever is missing throws inside *)
(* jQuery's each, which ends the loop: the spans after it keep what they   *)
(* have.  Drupal runs its behaviours again for content loaded later, and   *)
(* the loop then goes over all spans of the page once more.                *)
(*                                                                         *)
(* Abstractions: strings callers pass are well-formed, styles have a       *)
(* bibliography and no locale but en-US; callers place spans in any order. *)
(***************************************************************************)
EXTENDS CitationAPI

CONSTANTS
    CitedBy,    \* CitedBy[r]: the names cited by a raw citation object r
    SelectsNone,\* the selectors that no item of the page satisfies
    UsedFor,    \* bound: UsedFor[t], the aliases callers use for data of type t
    MaxRuns     \* bound: how often the behaviours are run

ASSUME PageAssumption ==
    /\ CitedBy \in [Raw -> SUBSET Name]
    /\ SelectsNone \subseteq Raw
    /\ UsedFor \in [DataType -> SUBSET Alias]
    /\ MaxRuns \in Nat \ {0}

VARIABLES
    delivered,  \* the page is in the browser
    runs,       \* the runs of the behaviour so far
    todo,       \* the spans the loop has not come to
    shown       \* what the spans filled so far show

browserVars == <<delivered, runs, todo, shown>>
pageVars == <<vars, browserVars>>

\* What a span names of a type of data, if anything.
Names(span, type) == {ref.name : ref \in {ref \in span : ref.type = type}}
Has(span, type) == Names(span, type) # {}

\* Drupal.settings.ir_citation[type][name], and whether it is a string: a name
\* sent twice is an array, which parseJSON reads as null.
At(type, name) == [type |-> type, name |-> name, var |-> Null]
IsString(type, name) == At(type, name) \in DOMAIN settings /\ Len(settings[At(type, name)]) = 1
Value(type, name) == settings[At(type, name)][1]

retrieveItem(name) == Value("metadata", name)

\* The names the engine asks retrieveItem for.
ListItems(list) == {list[i] : i \in DOMAIN list}
CitedItemsOf(citation) == IF citation \in Raw THEN CitedBy[citation] ELSE {citation.item}
Asked(span) ==
    (UNION {ListItems(Value("bibliography_list", n)) : n \in Names(span, "bibliography_list")})
      \cup (UNION {CitedItemsOf(Value("citation", n)) : n \in Names(span, "citation")})

\* Nothing throws: the engine gets its locale and a style, the data parses, the
\* selectors and abbreviations asked for have a table to be looked up in, and
\* every item is there.
Succeeds(span) ==
    /\ IsString("locale", <<NoPrefix, ENUS>>)
    /\ \A type \in {"csl", "citation", "bibliography_list"} :
          \A n \in Names(span, type) : IsString(type, n)
    /\ \A n \in Names(span, "abbreviation") :
          \E k \in DOMAIN settings : k.type = "abbreviation" /\ k.name = n
    /\ Has(span, "bibliography_selector") =>
          \E k \in DOMAIN settings : k.type = "bibliography_selector"
    /\ \A n \in Asked(span) : IsString("metadata", n)

\* What is made of a span; a selector that was not sent is null, and selects all.
Output(span) ==
    [csl |-> {Value("csl", n) : n \in Names(span, "csl")},
     citation |-> {Value("citation", n) : n \in Names(span, "citation")},
     selector |-> {Value("bibliography_selector", n) :
                     n \in {n \in Names(span, "bibliography_selector") :
                              IsString("bibliography_selector", n)}},
     items |-> {retrieveItem(n) : n \in Asked(span)}]

\* The bibliography a span asks for has no entries.
ListsNothing(span) ==
    /\ Succeeds(span)
    /\ Has(span, "bibliography_list")
    /\ \/ \A n \in Names(span, "bibliography_list") : Value("bibliography_list", n) = <<>>
       \/ Output(span).selector \cap SelectsNone # {}

------------------------------------------------------------------------------
PageInit ==
    /\ Init
    /\ delivered = FALSE
    /\ runs = 0
    /\ todo = {}
    /\ shown = [span \in {} |-> Null]

\* Bound of the model: what aliases are used for.
AliasesInUse ==
    /\ \A ref \in UNION page : ref.alias \in UsedFor[ref.type]
    /\ \A a \in aliasPointer : \A t \in DataType :
          a[1] \in DOMAIN contentPointer[t] => a[3] \in UsedFor[t]
    /\ DOMAIN localizations \subseteq Objects \X {ENUS}

Build ==
    /\ ~delivered
    /\ Next
    /\ AliasesInUse'
    /\ UNCHANGED browserVars

Deliver ==
    /\ ~delivered
    /\ job = Idle
    /\ delivered' = TRUE
    /\ UNCHANGED <<vars, runs, todo, shown>>

\* Drupal.behaviors.islandora_institutional_repository_cite_make, if the page
\* has it.
Behave ==
    /\ delivered /\ processorEnabled
    /\ runs < MaxRuns
    /\ todo = {}
    /\ runs' = runs + 1
    /\ todo' = page
    /\ UNCHANGED <<vars, delivered, shown>>

\* Mutant: a span that fails ends the loop, and one that is filled does too.
FillOne(span) ==
    /\ span \in todo
    /\ todo' = {}
    /\ shown' = IF Succeeds(span) /\ ~ListsNothing(span)
                THEN Put(shown, span, Output(span)) ELSE shown
    /\ UNCHANGED <<vars, delivered, runs>>

\* The callback of the loop: it fills a span, or leaves it as it is because its
\* bibliography has no entries, or throws.
Fill(span) ==
    /\ span \in todo
    /\ \/ /\ Succeeds(span) /\ ~ListsNothing(span)
          /\ shown' = Put(shown, span, Output(span))
          /\ todo' = todo \ {span}
       \/ /\ ListsNothing(span)
          /\ todo' = todo \ {span}
          /\ UNCHANGED shown
       \/ /\ ~Succeeds(span)
          /\ todo' = {}
          /\ UNCHANGED shown
    /\ UNCHANGED <<vars, delivered, runs>>

PageNext ==
    \/ Build
    \/ Deliver
    \/ Behave
    \/ \E span \in page : Fill(span)

\* The browser runs the behaviour on a page it has, and a loop to its end.
PageSpec ==
    /\ PageInit /\ [][PageNext]_pageVars
    /\ WF_pageVars(Behave) /\ WF_pageVars(\E span \in page : Fill(span))

------------------------------------------------------------------------------
\* An item that is metadata some object of the page sent.
IsMetadata(name) ==
    /\ name[1] \in Objects
    /\ \E p \in DOMAIN contentPointer["metadata"] : jsAliases[p] = name[2]

(***************************************************************************)
(* The callers did all they are asked to: the processor and the locale are *)
(* on the page, spans use aliases of data added before, lists and citation *)
(* objects name metadata, and abbreviations have a kind.                   *)
(***************************************************************************)
CallersDidRight ==
    /\ processorEnabled
    /\ \E u \in Objects : isLocaleName(u, ENUS)
    /\ \A ref \in UNION page : IsProper(ref)
    /\ \A span \in page : \A type \in {"citation", "bibliography_list"} : \A n \in Names(span, type) :
          IsString(type, n) => \A item \in Asked(span) : IsMetadata(item)
    /\ AbbreviationsSent

(***************************************************************************)
(* A span shows what its aliases stood for on the PHP side, however many   *)
(* aliases share a content, and items that carry the id they are cited by. *)
(***************************************************************************)
ShownAsAsked ==
    classCount = 1 =>
        \A span \in DOMAIN shown :
            /\ \A ref \in span : IsProper(ref) =>
                  /\ ref.type = "csl" => shown[span].csl = {getContent(ref.by, ref.alias)}
                  /\ ref.type = "citation" => shown[span].citation = {getContent(ref.by, ref.alias)}
                  /\ ref.type = "bibliography_selector" =>
                        shown[span].selector = {getContent(ref.by, ref.alias)}
            /\ \A item \in shown[span].items :
                  item \in Raw \/ (IsString("metadata", item.id) /\ retrieveItem(item.id) = item)

\* A span that lists nothing is rightly left as PHP made it.
AllFilled == \A span \in page : span \in DOMAIN shown \/ ListsNothing(span)

(***************************************************************************)
(* If the callers did right, every span of the page is filled in the end,  *)
(* on a page with one API object, but for bibliographies without entries.  *)
(***************************************************************************)
SpansAreFilled ==
    (delivered /\ classCount = 1 /\ CallersDidRight) ~> AllFilled

(***************************************************************************)
(* So it is for any number of API objects, which "don't step on each       *)
(* others feet": after a run of the behaviour all spans are filled.        *)
(***************************************************************************)
ObjectsKeepApart ==
    delivered /\ CallersDidRight /\ runs > 0 /\ todo = {} => AllFilled

(***************************************************************************)
(* With one API object it is true: no span whose callers did right throws, *)
(* so none keeps the loop from the spans after it.                         *)
(***************************************************************************)
SoleObjectSpansFilled == classCount = 1 => ObjectsKeepApart
==============================================================================
