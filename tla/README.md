# TLA+ models of ir_citation

`ir_citation` is a Drupal 6 module that puts formatted citations and
bibliographies of repository items on a page. PHP code collects styles, locales
and metadata and writes them, with empty spans, into the page; JavaScript in the
browser then looks the data up and renders every span with a copy of
citeproc-js. This directory models the parts of both halves that keep state,
checks the models with TLC and proves facts about them with TLAPS.

Contents: the inventory of the system, how modules and code correspond, the
runs, the proofs, where code and documentation disagree, what is left out, and
the plan.

## 1. Inventory

### The Drupal half (PHP, one request builds one page)

**IslandoraCitationAPI** (`src/ir_citation.api.inc`).
*State*: static arrays shared by all objects of a page (`$aliasPointer`,
`$contentPointer`, `$jsAliases`, and the counters of uids, pointers and auto
aliases) and per object a uid, its languages and whether citeproc is loaded.
*Operations*: `addData` for eight types of data, `addMetaData` (MODS or pid),
`loadBasicCitationObject`, `addENUS`, `getCitationHTML`,
`getCitationHTMLFromPIDAndCSL` and look-ups by alias.
*Interactions*: calls the senders below and the MODS converter; the spans it
returns name data the browser will look for.
*Hard*: content is shared between objects and aliases while names are prefixed
per object; names are resolved when a span is emitted and must stay right
afterwards; a call can fail after half its work; locales have no prefix.
*Correct when* an alias means one thing, content is logged and sent once, what
counts as a duplicate is in the browser, and every span leads to its data.

**Senders** (`src/ir_citation.inc`). `load_csl`, `load_metadata` and their like
call `drupal_add_js`, which merges settings: a name sent twice becomes an array
the browser cannot parse. *State*: `Drupal.settings.ir_citation`.

**Converter** (`src/mods_to_citeproc_json/converter.php`). A function from MODS
to citeproc JSON; no state. Throws when there is no MODS.

**Demo page and menu** (`src/ir_citation.module`). Uses the API; no state.

### The browser half (JavaScript, single-threaded)

**Page renderer and sys** (`src/ir_citation_run.js`, `src/ir_citation_sys.js`).
For each span: a new `CSL.Engine`, then `updateItems` and `makeBibliography`, or
`appendCitationCluster`. *Hard*: an exception for one span ends the loop over
all of them; behaviours run again when content is added; no engine knows about
the cites of another. *Correct when* every span is filled, with what its aliases
stood for in PHP.

**Item registry** (`src/citeproc-js/src/registry.js`, `api_update.js`). *State*:
the tokens of registered items, pools of items whose cites look alike
(`ambigcites`), the bibliography (`reflist`), the caller's list (`mylist`),
uncited items, and the work of the call under way (`touched`, `refreshes`,
`akeys`, `oldseq`). *Operations*: `updateItems`, `updateUncitedItems`,
`restoreProcessorState`; each is a sequence of ten methods. *Interactions*: asks
`sys.retrieveItem` for data, which may throw; calls the disambiguator; reports
tainted items and `bibchange` to `processCitationCluster`. *Hard*: incremental
updates that must give what a fresh processor gives; deletions that leave
partners to refresh; exceptions half-way; sort keys that are equal or missing.
*Correct when* the registry is the list, pools match cites, the bibliography is
sorted, suffixes number each class of look-alikes, and every change is reported.

**Disambiguation** (`disambig_cites.js`, `util_disambig.js`,
`util_names_disambig.js`). *State*: per item its settings (names shown, forms of
given names, extra text, year suffix), and a queue of lists that grows while it
is worked on. *Operation*: `runDisambig` on a pool, which raises one setting at a
time. *Hard*: the loop must end; settings of earlier calls are its starting
point; items leave their list on the way and are not looked at again. *Correct
when* it ends, and what it has settled differs if the style can make it differ.

**Name registry** (`disambig_names.js`). *State*: a tree of families, initials and
given names with the items that show each. *Operations*: `addname`, `evalname`,
`delitems`. *Interactions*: rendering asks it for the form of each name; it
taints items whose names must be rendered again. *Hard*: `delitems` must undo
`addname`, in a tree other items share; answers depend on what was registered
when. *Correct when* persons are told apart in all citations, and one person
looks the same in all.

**Citation clusters** (`api_cite.js`, `disambig_citations.js`, and
`restoreProcessorState` in `api_update.js`). *State*: the citations by id and in
document order (the same objects), their cites with position (first, subsequent,
ibid), first note and near-note. *Operations*: submit, append, preview, restore.
*Interactions*: hands the items cited to the registry, takes its taints back,
returns the texts that changed. *Hard*: the largest amount of state that has to
be put back after a preview; throws with half the state written; which
citations to render again. *Correct when* the caller's texts are what the
processor would render now, and a preview leaves no trace.

**Parallel citations and bibliographies** (`util_parallel.js`,
`api_bibliography.js`). *State*: marks on registered items (master, parallel,
siblings), set while cites are rendered. *Operations*: rendering a citation;
`makeBibliography`, with selection by include, exclude, select and quash.
*Hard*: marks are made on first references, stay when the document changes, and
arrays of siblings are shared; `makeBibliography` itself renders and marks.
*Correct when* every registered item is printed, in one entry, with reports of
its own case.

**Output queue** (`queue.js`, `obj_blob.js`). **Style compilation** (`build.js`,
`attributes.js`, `node_*.js`). **Rendering of names, dates, numbers, pages,
locales** (`util_*.js`). **XML parsers, tests, vendored jQuery and dojo**.

`PROJECT.json` lists all of these with their status, and under `hazards` the
places where each can go wrong.

### How the models fit together

    CitationAPI  <--EXTENDS--  CitationPage           PHP page, then browser loop

    Bibliography <--refined by--  ItemRegistry        what updateItems promises
         ^-------INSTANCE-------  CitationCluster     documents on top of it

    Disambiguation, NameReg, ParallelCites            what the registry calls on,
                                                      each with its own state

The models of the browser half are cut where the code's state is: `ItemRegistry`
decides which items are disambiguated together and numbers them,
`Disambiguation` works on one such class, `NameReg` on names over all classes,
`CitationCluster` on the order of citations, `ParallelCites` on marks. Where one
needs another it has its promise (`Bibliography`) or a constant.

## 2. Modules and code

| Module | Models |
|---|---|
| `CitationAPI` | the class IslandoraCitationAPI and the senders it calls |
| `CitationPage` | extends it by the browser: the loop over spans and the sys object |
| `ItemRegistry` | the item registry, and year-suffix disambiguation |
| `Bibliography` | what `updateItems` promises: one step per call |
| `CitationCluster` | citations of a document: submit, append, preview, restore |
| `Disambiguation` | `runDisambig` and its four modes on one class of items |
| `NameReg` | the name registry, and the given names citations show |
| `ParallelCites` | parallel citations, `makeBibliography` and its selection |
| `MC...` | instances of each for TLC |
| `CitationAPIProofs` | proofs about the class: its arrays, and what spans lead to |
| `CitationPageProofs` | proofs about the loop over spans, on top of those |
| `ItemRegistryProofs` | proofs about the registry: types, pools, classes and suffixes; order, reports and what is promised |
| `CitationClusterProofs` | proofs about documents: tables, positions and texts |
| `Folding` | folds over sequences, step by step, for the next three |
| `DisambiguationProofs` | proofs about the loop of `runDisambig` |
| `NameRegProofs` | proofs about the name registry and the names on show |
| `ParallelCitesProofs` | proofs about marks and bibliographies |

**CitationAPI.** Its variables are the class's static arrays under their own
names, with `settings` for `Drupal.settings.ir_citation` and `page` for the set
of emitted spans. One action per public method. `addData` has the code's three
outcomes: `RefuseAlias`, `ShareContent` and `LogAndSend`, the last with the
`switch` (`Send`). `getCitationHTMLFromPIDAndCSL` is the only method that can be
abandoned half-way, so it is a `job` of several steps; PHP runs nothing else
meanwhile (`PublicCall` asks for `job = Idle`). A name `"uid_alias"` is the pair
of both: uids are digits, so the concatenation is injective. MODS, styles and
locale strings are model values; the merge of `drupal_add_js` appends to a
sequence, and a sequence of two is an array in the browser.

**CitationPage.** PHP steps (`Build`) go on until the page is delivered
(`Deliver`); each run of the behaviour (`Behave`) puts all spans into `todo`, and
`Fill` takes one: it shows what the names lead to, or something throws, which
leaves jQuery's `each` and empties `todo`. A span whose bibliography has no
entries stays as PHP made it (`ListsNothing`, after `ir_citation_run.js:52`): its
list is empty, or no item satisfies its selector (those selectors are the
constant `SelectsNone`, empty in the runs). What can throw is in `Succeeds`:
missing names, arrays (`parseJSON` makes null of them), items that are not
there. What an engine makes of the data is `Output`, the data themselves.
`CallersDidRight` says what the properties ask of callers. `SpansAreFilled` is
the liveness property; `SoleObjectSpansFilled` is what of it is a safety
property: a loop that has come to its end has left no span empty that has something to
show.

**ItemRegistry.** A call starts with `UpdateItems`, `ClusterUpdate` (the
registry's part of `processCitationCluster`), `UpdateUncitedItems` or
`RestoreEmptyState`, each of which includes `init`; then `call.at` names the
method to run next, and each method is an action of its name. Nothing else runs
meanwhile: the methods are separate actions so that an exception leaves what
the methods before it did. Exceptions come from `retrieveItem` (`Missing`), from
`douncited` (more uncited items than places) and from `disYears` (a stale id in
a pool). What JavaScript leaves open is nondeterministic: the order in which a
pool or a refresh set is enumerated, and how `Array.sort` places tokens its
comparison does not tell apart. `shown` is a history variable: the list last
returned, with its suffixes. An item is a number that compares as its id does.
What a style makes of an item is in constants: `Cite` (its cite without
disambiguation) and `SortKey`. The style disambiguates by year suffix only; all
cites show as many names.

**Bibliography.** The abstract specification has one variable, `shown`, and one
step per call: the items asked for, sorted, and on look-alikes a suffix by their
place among each other. It has no memory of earlier calls. `ItemRegistry`
implements it (`Promise == INSTANCE Bibliography WITH shown <- shown`, and
`ReturnsWhatIsPromised == Promise!Spec`): only `renumber` changes `shown`.

**CitationCluster.** Each call is one action, including what it leaves when it
throws (`FailToRetrieve`, `FailToPosition`). `citationById` and
`citationByIndex` hold the same JavaScript objects; as values they are two
copies, and a change made through one table is written to both (`Through`, and
`ThroughNew` when a list is taken over).
`Positioned` evaluates positions with the code's conditions (`Position`,
`FirstReference` and `NearNote` are its three marks); `Tainted` is the set of
citations whose text is returned, and `Render` what the caller has afterwards.
The registry is `Bibliography`, so the model relies on what `ItemRegistry` was
checked for. `Bibliography` says which suffixes items have, not which changes are
reported: `TaintedItems` follows `dorefreshes` and `cloneAmbigConfig`, which taint
one of the items refreshed, the members of a class of two whose suffix is not
their place in it, and those of a larger class only if two of its suffixes differ. Cites without a sort key go last in either
direction (`GoesBefore`). Left out are grouped sorts (`api_cite.js:259-294`), which
only styles have that do not test positions (`node_citation.js:80-84`), and
`properties.unsorted` (`api_cite.js:299`, `:477`; `api_update.js:109`), which the
model's callers do not set. `document` is the caller's copy of the texts.
`MaySubmit` makes callers list only citations the processor knows (after a throw and a preview it may have forgotten one). Left out: the
string a preview returns, `properties.index`, and parallel cites.

**Disambiguation.** One action is one turn of the loop: two scans and the verdict
of the mode, with the cursors (`modeindex`, `nnameset`, `gnameset`, `gname`,
`advance`) the code keeps on the object. The rule is by-cite, names are rendered
short, family names differ within an item, sort keys are in order of the ids, and
no list passed to `updateItems` names an item twice.
Arrays of counts are compared as strings, as JavaScript's `>` does (`Text`).
`Printed` is what a citation shows of an item, where it is cited first and later:
in a style that tests positions, a first cite resets the given names that were
raised for its item (`util_names_disambig.js:128-130`). Where `decrementNames`
reads a row of the earlier settings that is missing, the code throws and the
model has no value; items of a class have the same rows.

**NameReg.** One action is one call that registers, refreshes, deletes and
renders, under the other rules for given names. The tree is a function from key
paths to the items listed there, in order of insertion, which decides what the
code takes first. A citation has one cite, base cites differ, and nothing sorts
by name.

**ParallelCites.** Cites are rendered through `StartCite`, `CloseCite` and
`ComposeSet`, which keep the code's names; `marks` are the properties of tokens,
with arrays of siblings as records of their holders, since they are shared by
reference. The style tests positions and sorts nothing; there is one citation
per note, and only the last is edited. `MaxSiblings` bounds arrays that
otherwise grow with every rendering.

**Comparison with the code.** The five models that follow algorithms closely were
compared with the sources of `src/citeproc-js` under a JavaScript engine: random
sequences of calls were run there and had to be behaviours of the model with the
same results: about 540 for `ItemRegistry` (results, suffixes, pools, numbers,
uncited marks, taints, `bibchange`, exceptions), 2,300 for `Disambiguation`
(settings and cites, 820 of them with the first and later cites printed), 990 for
`CitationCluster` (texts returned; up to four look-alikes, and missing sort keys), 3,150 for `NameReg` (the tree and the forms printed) and
4,650 for `ParallelCites` (marks, entries and exceptions).

## 3. What is checked

Every property of a passing run has a mutant: a plausible bug in a mapped
definition that TLC must catch under the same configuration.

| Run | Question | Bounds |
|---|---|---|
| `api_one` | Do aliases and spans keep their meaning, is content logged and sent once? | one object; aliases `b` and `en-US` plus five auto aliases, two of which are the same strings; data of six types; one string, one MODS document, three pids (two with equal MODS, one without); one span |
| `page_one` | Is every span filled with what PHP meant? | one object, two spans, styles under two aliases, lists with an item or none, behaviours run twice |
| `page_two` | Do objects keep apart? (They do not.) | two objects, one style, one span |
| `registry_changes` | Does a call return what a fresh processor would, and is every change reported? | two pairs of look-alikes; equal, distinct and missing keys; descending; numbered cites and bibliography; lists that repeat items; with and without sorting |
| `registry_straying` | What survives two pools, exceptions, uncited items and resets? | five items in two classes; item 5 always throws; uncited `<<2>>` |
| `cluster_edits` | Does the caller have the texts that are current? | three items, two alike; four clusters; five documents of up to three citations, in notes and text; cites sorted, one item without a key |
| `cluster_failures` | Do the tables agree whatever throws? | item 3 always throws; cites not sorted |
| `cluster_preview` | Does a preview leave the state as it was? (It does not: other note numbers stay in the citations, `api_cite.js:170`.) | as `cluster_edits` |
| `disambig_styles` | Does the loop end, and are settled items apart? | classes of up to four of five items, in any sequence of calls; nine lists of modes, among them all four together |
| `names_growing` | Are persons told apart, each alike everywhere? | five items, four namesakes; five styles; three citations, one removal |
| `parallel_marks` | Is an item in one entry, with its own case? | three reports of a case, one of another, a book; three citations; four selections and everything |
| `parallel_lost` | Is every registered item printed? (It is not.) | the same, two citations, no selection |

The largest runs have about 300,000 states (`parallel_marks`), 290,000
(`page_one`), 270,000 (`api_one`) and 190,000 (`registry_straying`); the others
have between 1,000 and 40,000. All state spaces are finite and explored
completely.

Why the bounds are enough. Every branch of `addData` depends on whether an alias
is used, whether content is known, and the type; two aliases and two contents
give all combinations. The caller's alias `b` is also an auto alias, so
`getNewAlias` has to skip it, and a pid without MODS abandons the call after the
style, and after another item, was sent. In the registry, a pool matters by
whether it has none, one, two or more members (`cloneAmbigConfig` treats two as a
special case); the lists contain prefixes, reorderings, deletions of one and of
several items, repetitions and the empty list. Positions look at the citation
before and at the first one: three citations have a first, a subsequent and an
"ibid" in any order, and a note and a text citation may lie between. A turn of
`runDisambig` splits a list in two, and may leave one item alone or several: four
items give each case and a list split twice. Names need two with equal initials,
two with different ones, one without a given name, and one person in two items.
A set of parallel cites is interrupted, continued or restarted by the third cite.

`CHECK_DEADLOCK` is off where the system or its bounds end: a page is complete
when its behaviours have run (`page_*`), documents have a largest length
(`names_growing`, `parallel_*`), and after an exception in `makeBibliography`
callers of `ParallelCites` begin anew. Elsewhere a caller can always make another
call, and deadlock is checked.

Conditions in properties are there because the statement is false without them;
section 6 says what happens then. `PoolsCoverRegistry` and `PoolsMatchCites`
differ on purpose: the first is what the code always keeps, the second what it
keeps when no call deletes from two pools at once. `SettledApart` leaves out
styles with both more names and given names (`TakesBack`) and with both extra
text and year suffixes (`StopsShort`), and first cites in styles that add given
names (`Loses`). `SpansAreFilled` and `SoleObjectSpansFilled` leave out
bibliographies without entries. `NamesApart` is about documents that only
grow, `InOneEntry` and `OneCasePerEntry` about documents that are not edited,
`FirstReportsPrinted` about those that also have no item twice in a citation, and
`OneForm` about rules that treat all authors alike.

**Fairness.** `Disambiguation` has weak fairness of `runDisambig`: a call of the
single thread runs its loop without waiting for anything, so a turn that can be
made is made. Whether there is another call is not assumed. `Terminates` then
says that the loop ends, which its comment only expects. `CitationPage` has weak
fairness of `Behave` and of `Fill`: the browser attaches behaviours to a page it
has received and runs their loops to the end. That PHP delivers a page is not
assumed. `SpansAreFilled` says that a span of a delivered page that has something to show is filled then,
whatever order the loop takes them in. Everywhere else calls are finite sequences
of steps over finite lists, and no fairness is assumed.

## 4. What is proved

For every value of the constants that satisfies the named assumptions of the
modules, which only say what kind of value each constant is (`AliasAssumption`,
`ContentAssumption`, `ItemAssumption`, `BoundAssumption` and their like). What a
theorem assumes beyond that stands in its `ASSUME`, and is listed here with what
the code does without it. `registry_changes`, `cluster_edits` and `page_one`
check the same properties on instances that satisfy these hypotheses.

### The class and the page

*CitationAPIProofs*: `TypeCorrect`, `AliasSafety` (`AliasMeansOneThing`),
`ContentSafety` (`ContentLoggedOnce`), `NameSafety` (`PrefixedNamesSentOnce`)
and `SentSafety` (`LoggedContentIsSent`). The properties are not inductive one
by one: that a name is sent once rests on every sent name having a logged alias,
and that an alias has one pointer rests on pointers being below `pointerCount`.
The invariant `IInv` joins them. Every action is one `addData` or leaves the
arrays alone, so each conjunct is shown for the three outcomes of `addData` and
lifted to `Next` once. They hold for any number of objects and spans.

*Spans* (later in the same module): `StableNames` (`JSAliasesAreStable`), an action property, for
any number of objects; and for pages with one object `SpansResolve`
(`SoleObjectReferencesResolve`) and `ItemsRetrievable`
(`SoleObjectItemsRetrievable`). `SpanInv` adds to `IInv` that a pointer is logged
under one type, that metadata carries the name it is sent under, that citations
name objects, and that the name written into a span is still the one
`getJSAlias` gives for its alias. The last is why `StableNames` matters: a span
is text, and nothing corrects it.

*CitationPageProofs*: `PageIsBuiltByAPI` (`PageSpec => Spec`: the page with its
browser refines the class), `SpansShowWhatWasAsked` (`ShownAsAsked`) and
`LoopsFillAllSpans` (`SoleObjectSpansFilled`). `BuiltInv` is what PHP leaves:
`SpanInv`, every setting sent by an object that exists, metadata sent under its
own name, spans with one name per type, and each locale sent once. `LoopInv` is
about the loop: what it filled, it filled with what the settings say, and if
spans are left over at its end, one of them threw. With one object and callers
that did right no span can throw, hence the third theorem. With two objects it is
false (`page_two`). Spans whose bibliography has no entries are left out of it, as
of the property.

### The item registry

*ItemRegistryProofs*: `TypeCorrect`; `PoolSafety` (`PoolsCoverRegistry`);
`UncitedSafety` (`UncitedListed`), all whatever is called and thrown; and,
assuming that `updateUncitedItems` is not called, `RegistrySafety`
(`RegistryIsListed`). `IInv` adds to the types what holds between the methods of
a call: after `doinserts` the whole list is registered, and items to be sorted
are registered until `setsortkeys`. In `PoolSafety` the interesting steps are
`dorefreshes`, which moves items to another pool and may leave them in their old
one, and `disYears`, which sets the pool of a token but only of members of that
pool. `UncitedSafety` needs that `init` appends every item of a list that was not
there (`WithUncited`: its first place is a new one) and that sorting is onto.

*Classes* (later in the same module): `PoolSafetyOfClasses` (`PoolsMatchCites`) and
`SuffixSafety` (`SuffixesNumberTheClass`). `ClassInv` says that a registered pool
is the class of all registered look-alikes, and that what is refreshed in one
call is of one class. `SuffixInv` follows a call: between calls every class is
`Counted` (its suffixes are 0 to n - 1, or none for one item), and in a call a
class that is not counted is one that `dorefreshes` or `disYears` will come to.
`CountedByDisYears` is the step that numbers.

*Order and reports* (last in the module): `CollationSafety` (`Collated`); the action properties
`NumberChangesAreReported`, `BibliographyChangesAreReported` and
`SuffixChangesAreReported`; and `ReturnsAsPromised` (`ReturnsWhatIsPromised`): the
registry implements `Bibliography`. Their invariants, each shown inductive
relative to those above:

- `KeyInv`: a token has sort keys, or is `touched` and will get them;
  `OrderInv`: numbers are places in the list until it is sorted, then in the
  sorted one.
- `NumberInv`: tokens have the numbers of the bibliography shown last until
  `rebuildlist` saves them in `oldseq`. `QuietInv`: until a call has set
  `bibchange`, nothing came, went or was disambiguated.
- `PairInv`, `ReportInv`: a class about to be disambiguated has no suffixes yet,
  and an item in a call has the suffix it was shown with, or is noted.
- `RankInv`: suffixes of look-alikes are in the order of their keys, at every
  step; it survives deletions since taking suffixes away keeps an order.
  `AskedInv`: `sorttokens` only moves the items.

In the refinement every step but `renumber` stutters. At `renumber` the list is
sorted by `OrderInv` and is a permutation by `AskedInv`; the suffixes of a class
are 0 to n - 1 in the order of keys (`SuffixInv`, `RankInv`), so that as many are
smaller than one of them as it says (`SmallerSuffixes`), which is how
`Bibliography` defines them.

| Hypothesis | Theorems | Without it |
|---|---|---|
| `UncitedLists = {}` | all but those of whatever is called | `douncited` marks tokens by place; a wrongly marked item stays when its list is gone |
| `OnePoolAtATime`: no call takes from two classes items with partners that stay | classes, suffixes, reports, refinement | `dorefreshes` gives all refreshed items the ambig key of the first (`registry.js:451`) |
| `Missing = {}` | suffixes, order, reports, refinement | a throw in `doinserts` drops the refreshes of the call, and `init` empties `touched` before the inserted tokens get sort keys |
| `~MayReset` | suffixes, reports, refinement | `CSL.Disambiguation` keeps the pools of the old registry |
| `"cites"`, `"bibliography" \in NumberedParts` | reports of numbers, of the bibliography | `renumber` compares numbers in such styles only |
| `PairsOnly`: no list has three look-alikes | reports of suffixes | `cloneAmbigConfig` compares two members of a larger pool (`util_disambig.js:109`) |
| `LookAlikesApart`: look-alikes have different sort keys | refinement | a list that is only reordered touches no pool, and its suffixes stay (`registry.js:599`) |

`Undisturbed` joins the first four.

### Documents

*CitationClusterProofs*, whatever is submitted, previewed, restored or thrown:
`TypesHold` (`TypeOK`), `OneCitationPerID` (`TablesAgree`) and `BackreferencesHold`
(`BackreferencesResolve`). `StateInv` adds to the tables that the document has
an id once and, while the processor's list is complete, a text of every citation
in it. Each call is put together from a lemma per stage: `Through` and
`ThroughNew` write to both tables, `Positioned` keeps ids and items, `Render`
writes texts of the citations it was given. `BackreferencesHold` is about one
evaluation: the note `FirstReference` finds has a cite that is evaluated as first.

*Texts* (later in the same module): `TextsStayCurrent` (`DocumentIsCurrent`), that the texts
a call does not return were right already, and `UneditedStays`
(`RestartChangesNothing`). `DocumentIsCurrent` is only about calls that returned
and is not inductive. `TextInv` says at all times that texts are what their saved
cites render to with the registry's suffixes, and that what either table holds of
a citation has the cites of its text, or will be evaluated, or makes the next
call throw. `UneditedStays` needs `Settled` (evaluating the cites of the document
gives them again) and, in a style that sorts, that they stay sorted
(`TablesInOrder`, `TextsInOrder`). That a text whose suffix changes is returned is
the lemma `ChangesAreTainted`: an item that lost its look-alike is the one that is
refreshed, one that was alone and is joined is a member of a class of two, and the
suffix of any other stays. Their hypotheses:

- `InPairs` in every step: at most two cited items look alike at a time, and no
  call takes items out of two such pairs. Of three or more, `cloneAmbigConfig`
  compares two (`util_disambig.js:109`), and of the items refreshed by a call only
  one is tainted (`registry.js:451`), so that texts with old suffixes are not
  returned; with three look-alikes TLC finds `DocumentIsCurrent` violated. Every
  step of `cluster_edits` satisfies it.
- `LookAlikesApart`: with equal keys suffixes follow the order of citations, and
  a restored processor sets the items in its registry first
  (`api_update.js:124`), so that changed suffixes are not reported.
- `SortedAt # "after positions"` for texts (see section 6 on citation numbers),
  and `OrderIsKept` for restarts: the style sorts no cites, or sorts them by
  keys that are numbers or missing, before positions, and nothing throws, since a call that throws
  leaves cites unsorted.

### Folds

The loops of `NameReg`, `ParallelCites` and `Disambiguation` are folds over lists,
which the community modules define through a recursive function on sets of places.
*Folding* shows that such a function exists and goes through a list place by
place (`FoldRuns`), so that what leads from each place to the next holds at the
end (`FoldLeads`), and what every step keeps, the fold keeps (`FoldKeeps`).
Theorems that are handed a predicate cannot be used here, so the induction is
over a *set* of places: the least place outside it, by the well-foundedness of
`<`, is a contradiction. The proof modules instantiate `Folding` once per loop.

### Disambiguation

*DisambiguationProofs*: `TypeCorrect` (`TypeOK`), for any names, titles and styles
and any lists callers pass: the indices of `runDisambig` stay in `lists` and
`modes`, `scanItems` is never given an empty list, whose first item it would read,
no item is in two lists, and what is registered is of the class. `TypeOK` is not
inductive. `IInv` adds that no list names an item twice (`Separate`) and that the
clashes kept for a scan that is repeated are those of the list at `pos`, fewer
than it has items (`ScanInv`).

`ScanSplits`, by the fold of `Folding`, says that a scan shares its list out
between partners and others; with fewer clashes than before there are others,
so that the list `Narrow` adds is not empty. `VerdictInv` says what a verdict
must keep to, `PlainInv` the same where no list is added, and a lemma for each
mode that it does; only `NoBetter` repeats a scan, and it leaves the list whole.
An exhausted mode hands on only if there is a next one (`IncrementIs`). What
cites look like is not used: the theorem holds whatever rendering does.

### Names

*NameRegProofs*, for any items, names, styles and lists: `TypeCorrect`,
`AlwaysApart` (`NamesApart`), `AlwaysOneForm` (`OneForm`) and `AlwaysNeeded`
(`NotMoreThanNeeded`). The inductive invariant is `TypeInv`, that the registry,
its index, the pools and the document speak of the same items (`Steady`), and
`GrowInv`: as long as citations are only added, the keys are those of the names
of indexed items and no others, and what the document shows of every name is
`Right`, that is, its item is listed at the level of the form shown, the form
stands for nobody else, is the one the counts ask for, and shows no more than
some other name requires.

The difficulty is the middle of a call. Registering a name makes others wrong at
once, and their citations are rendered again only at the end. So a name on show
is `Waiting`: it is right, or its item is tainted. Rendering a cite keeps what
waits (`KeptStep`): the items `evalname` does not taint are those listed at the
level of the new name's own form, and the new name is told from these
(`ParamSeparates`). In the end every citation of a tainted item has its turn,
which makes it right (`FreshRight`). When a citation is taken out nothing of this
holds (section 6), hence `removals = 0`.

The assumptions are the module's: a name has one part or three
(`NamesAssumption`), and a style that asks for initials has them
(`StylesAssumption`). `Part` is the set of parts of names, which proofs need and
TLC does not enumerate.

### Parallel citations and bibliographies

*ParallelCitesProofs*, for any items, cases, fields, selections and lists:

- `TypeCorrect` (`TypeOK`), with edits and exceptions.
- `AlwaysOneCase` (`OneCasePerEntry`), as long as no citation is replaced.
- `AlwaysInOneEntry` (`InOneEntry`) and `AlwaysFirstReportsPrinted`
  (`FirstReportsPrinted`), if also no citation has an item twice.
- `AlwaysMadeAgain` (`MadeAgainIsTheSame`), under the same two conditions.

`IInv` is that the marks are `Typed` and, until a citation is replaced, `Cased`:
who shares an array reports one case, and the first cite of a parallel item comes
right after one of its case. The same is said of the set of cites begun last
(`Whole`), which outlives a call. It is inductive because marks are made on first
cites only, an item has one first cite (`FirstOne`), and that cite stays where it
is when citations are added at the end. So an item that is forced into a set by
its mark meets its own case there.

`PInv` has what the other theorems need:

- *Who is a master* (`Ordered`). The first cite of a master begins a set
  (`Leads`), even if the series it is in was `Broken` by items known to be
  parallel; so a master is not marked parallel later. The array of a master has
  no holders but the master and the items on its list (`Led`), and no two masters
  share one.
- *Whom it has on its list* (`Chained`). First cites in a row, the first of an
  item that is not parallel and the others of parallel ones (`Chain`), are in one
  set, and its first item is the master of the others (`Holds`). In the middle of
  a citation the chain grows with the set (`Segment`, `Heads`).
- *What is left over* (`Idle`). The set that a call leaves has no first cite that
  could still be marked. So `makeBibliography`, which renders with it, makes
  masters at most and changes no list (`Grown`).
- *The bibliography so far* (`Parted`, `Reports`): entries are apart, an item to
  come is in none of them unless it is skipped, and an item that had its turn and
  is not parallel is shown with everybody on its list.

For `FirstReportsPrinted`, take a parallel item that does not come after another
report of its case in an earlier citation. The cites before its first cite are
first cites of the same case as far back as the items are parallel (`HeadOf`),
and the one before them is not parallel: they are a chain, whose head is printed
with all of them.

`Listed` is the invariant for `MadeAgainIsTheSame`: the last bibliography is what
the loop shows item by item (`Lists`) from some marks, and the marks have only
grown since. A loop from grown marks shows the same (`ListsSame`, `TurnSame`):
who is a master in both has the same list in both, who is parallel is parallel in
both, and who became a master in between has an empty list, so that its entry is
the one it would have alone. The two loops may still differ in what they skip:
an item that is shown alone is skipped afterwards if it is a master, but its
turn is over then (`Same`).

These theorems need that no citation has an item twice: the second cite of an
item ends a set in the middle and begins another (`StartCite`), and
`FirstReportsPrinted` is false without it: TLC found the single citation
1, 4, 1, 2, with 1 and 2 of a case and 4 of another, whose bibliography of
everything has the entries 1, 4 and an empty one for 2.

## 5. Only model-checked

- `SettledApart` of `Disambiguation`. What a turn of `runDisambig` settles depends
  on what several earlier turns compared, with settings that each rendering
  changes; it is checked for the classes of `MCDisambiguation`, and nothing is
  claimed for others.
- `InOneEntry` for citations that have an item twice, and `MadeAgainIsTheSame` for
  these and for documents with edits. No counterexample is known within the
  bounds of `parallel_marks`.
- `Terminates` and `SpansAreFilled` are liveness properties under fairness, which
  are out of the prover's reach. The safety part of the second is proved
  (`LoopsFillAllSpans`).
- Nothing is proved of what happens where a hypothesis of section 4 fails;
  `registry_straying` and `cluster_failures` check what is left then, and the
  theorems without hypotheses hold there too.
- The runs that expect a violation refute `ObjectsKeepApart`,
  `PreviewLeavesNoTrace` and `AllItemsPrinted`; no theorem is about these.

The lemmas use the library's facts on finite sets, functions and on the
well-foundedness of `<`; no module declares a RECURSIVE operator.

## 6. Where the code and its documentation disagree

With a run each (`findings` in `PROJECT.json` has the quotations):

- `page_two`: two objects share a style; the span of the second names data sent
  under the first one's prefix, and it and the spans after it stay empty.
- `cluster_preview`: a preview with other note numbers leaves them in the
  citations of the document.
- `parallel_lost`: a report cited alone and later together with a second one:
  the second is in no entry of the bibliography.

Met while modelling, part of the models, without a run of their own.

*The API and the page.* An abbreviation without `$var_type` is logged and never
sent (`ir_citation.api.inc:172`, `:130`). Locales are sent under their language
only: two objects that register different strings for a language send it twice,
although `addENUS` says this crashes (`ir_citation.api.inc:535`), and a string
known under one language is recorded and never sent under another. A list
element that is added after its list is sent as `<uid>_`. A MODS datastream that
is missing is not noticed by `load_meta_data_from_fedora_pid`, which tests the
bare constant `cite_mods` (`ir_citation.inc:53`). `retrieveLocale` is evaluated
between single quotes, so an apostrophe ends it (`ir_citation_sys.js:35`).
Look-alikes in different spans are not told apart, since each span has its own
engine.

*The item registry.*

- Items deleted from two pools at once leave partners in one pool that are alike
  in nothing (`registry.js:451`, against the comment at `:130`).
- In a pool of three or more, an item that sorts before two cited look-alikes
  shifts both suffixes and taints neither (`util_disambig.js:109`,
  `manual/citeproc-doc.rst:788`).
- `douncited` marks tokens by place: the wrong items can be marked as uncited,
  and are then never deleted (`registry.js:389`, `manual/citeproc-doc.rst:491`).
- Look-alikes with equal keys that change places in the caller's list change
  places in the bibliography and keep their suffixes (`registry.js:599`).
- Uncited items given to an empty registry are not remembered, and the next
  `updateItems` deletes them (`manual/citeproc-doc.rst:532`).
- After `restoreProcessorState([])` the disambiguator reads the old registry:
  look-alikes get no suffix (`api_update.js:62`).
- Items inserted by a call that threw have no sort keys when it is repeated.
- In styles without numbers, a bibliography whose items only change places is
  reported unchanged (`manual/citeproc-doc.rst:791`).

*Citations.* With three or more look-alikes in a document, citations whose suffixes
change are not all returned (`util_disambig.js:109`). Styles that sort cites by citation number sort them after positions
were evaluated (`api_cite.js:473`), so that "ibid" follows another order than the
one printed. A citation whose items could not be retrieved has no `sortedItems`,
and every later call that lists it throws. When a preview throws, the output
format stays that of the preview (`api_cite.js:56`).

*Disambiguation.* With names and given names both to be added, `decrementNames`
takes back names that told items of two lists apart, and settled items end with
one cite (`disambig_cites.js:464`, `:484`). In styles that test positions, the first
cite of an item loses the given names that were raised to tell it from others
(`util_names_disambig.js:128`): two items that later cites tell apart are both
"Doe et al." where they are cited first, and get no year suffix. `disNames` drops items from its list
unexamined when the first one is unique and two or more others are left (`:78`,
`:152`). `disExtraText` never hands a list on to `disYears`. Arrays of counts
are compared as strings, so ten names sort before nine (`:401`). An item without
a given name resets the settings it shares by reference, and "Al Doe" and "Doe"
both stay "Doe". With `initialize-with`, by-cite goes from family names to
initials and never to full given names. No sequence of calls was found that
makes the loop go on for ever.

*Names.* `delitems` drops a family that fewer than two items show under its bare
family name: Al and Bo Doe are cited, Bo is replaced by Abe, and the citations
read "Doe" and "Al Doe" (`disambig_names.js:307`). Under the rules for primary
names a second author raises a family's count without a taint, and one item is
printed in two ways (`disambig_names.js:157`). Taints raised while output is
rendered are lost. Counts are never lowered.

*Parallel citations.* When a citation of A and B is edited to B alone, B is in no
entry; edited to A alone, `makeBibliography` throws. An edit can file items of
two cases under one entry (`force_collapse`). A selection applies to masters
only: siblings are printed although excluded, and an excluded master leaves its
siblings as empty entries. A citation that is rendered again lists its siblings
twice within their entry.

## 7. Not modelled, and the plan

- *The converter* is a function from XML to JSON without state; operators over
  small documents could be checked against the table in its comments. (One line
  of it differs from the code: a MARC "book" is a book unless there is a host
  title or the local genre is `bookSection`, `converter.php:217`; no expression
  looks at `bookSection`.)
- *The output queue*, *dates, numbers and page ranges*, *names, terms and
  locales*: functions to strings, which enter as constants. The nesting of the
  queue's levels would be a module of its own.
- *Style compilation* happens once per engine; what depends on it is in constants
  and in the lists of styles.
- *Sort keys* are constants; how they are rendered is not modelled.
- *XML parsers, test harness, build scripts, demo data, vendored jQuery and dojo*:
  not this program's own logic.
- In `CitationCluster`: grouped sorts and `properties.unsorted` (section 2).
- In `CitationAPI`: direct calls of the senders with names of the caller's own,
  and `getAliasList`, which changes nothing.
- Between the models: a style that disambiguates by names and by year suffix at
  once is in no module as a whole (`ItemRegistry` numbers, `Disambiguation` adds
  names to one class); sorting by name with `NameReg`; parallel cites in
  `CitationCluster`.

What is left, most important first:

1. Composition: `CitationCluster` instantiates `Bibliography`, and
   `ItemRegistry` implements it; a theorem that joins both would replace the one
   by the other in the model of documents.
2. Weaker hypotheses: `SuffixSafety` where items may be missing, for lists that
   are called again until they succeed; `TextsStayCurrent` with look-alikes of
   equal keys that keep their order.
3. `Disambiguation`: that the first item of a list differs from the others of
   its list once it is settled, which needs what a rendering leaves of settings.
4. `NameReg` after removals: what an invariant can still say once `delitems` has
   dropped a family.

## 8. Running

`tlc -config MCItemRegistry_changes.cfg MCItemRegistry`, and so on for each
configuration, which is named after its module and run; a run takes from one
second to two and a half minutes.

The proofs are checked by `tlapm CitationAPIProofs.tla`, and likewise for
`CitationPageProofs`, `ItemRegistryProofs`, `CitationClusterProofs`, `Folding`,
`DisambiguationProofs`, `NameRegProofs` and `ParallelCitesProofs`.
Each takes up to seven minutes; a module does not check again the proofs of those
it extends.
