----------------------------- MODULE ParallelCites -----------------------------
(***************************************************************************)
(* Parallel citations and bibliographies in citeproc-js (util_parallel.js, *)
(* getBibliographyEntries): reports of one case that are cited together    *)
(* are run into one cite, and share one entry of the bibliography.         *)
(*                                                                         *)
(* CSL.Parallel looks for sets of cites while they are rendered.  It marks *)
(* the items of a set in the registry (master, parallel, siblings), on     *)
(* first references only, and makeBibliography goes by these marks.  The   *)
(* marks stay for as long as an item is registered.                        *)
(*                                                                         *)
(* Abstractions: the style tests positions and sorts nothing; reports of   *)
(* one case render alike but for volume, container and page, and of two    *)
(* cases do not; all cites are in notes, one citation in each.             *)
(***************************************************************************)
EXTENDS Integers, SequencesExt

CONSTANTS
    Item,         \* the ids of items
    Case,         \* Case[i]: the case item i reports, or None
    None,         \* not a legal case in a reporter; no mark; no selector
    Field,        \* Field[i]: the values of item i for its fields
    Clusters,     \* bound: the lists of items callers cite
    Selectors,    \* bound: what callers pass to makeBibliography
    MaxCitations, \* bound: the citations of a document
    MaxSiblings   \* bound: the siblings in one array, and the cites in one set

ASSUME ParallelAssumption ==
    /\ None \notin Item
    /\ Clusters \subseteq Seq(Item) \ {<<>>}
    /\ MaxCitations \in Nat /\ MaxSiblings \in Nat

VARIABLES
    document,   \* the items cited, citation by citation
    moved,      \* citations with a cite whose position rendering changed
    marks,      \* the marks of registered items
    run,        \* CSL.Parallel: the set begun last, and in_series
    bib,        \* history: the bibliography made since the last citation, if any
    rewritten   \* history: a citation was replaced

vars == <<document, moved, marks, run, bib, rewritten>>

\* The items cited are registered.
Cited(doc) == UNION {ToSet(doc[q]) : q \in DOMAIN doc}
Registered == Cited(document)

\* Registered items, in the order of their first cites.
AddTo(list, i) == IF Contains(list, i) THEN list ELSE Append(list, i)
AddAll(list, items) == FoldLeft(AddTo, list, items)
reflist == FoldLeft(AddAll, <<>>, document)

------------------------------------------------------------------------------
(* Marks.  An array of siblings is shared by the items that hold it.       *)

NoBib == [outcome |-> "none", selector |-> None, entries |-> <<>>]
NoMarks == [master |-> {}, parallel |-> [i \in Item |-> None], arrays |-> {}]

ArraysOf(m, i) == {a \in m.arrays : i \in a.holders}
SiblingsOf(m, i) == (CHOOSE a \in ArraysOf(m, i) : TRUE).list

\* The arrays without these items as holders.
Released(arrays, items) ==
    {b \in {[a EXCEPT !.holders = @ \ items] : a \in arrays} : b.holders # {}}

\* The marks that are left when items are no longer registered.
Forget(m, items) ==
    [master |-> m.master \ items,
     parallel |-> [i \in Item |-> IF i \in items THEN None ELSE m.parallel[i]],
     arrays |-> Released(m.arrays, items)]

\* Mutant: a master is not given siblings of its own.
MarkMasterAlone(m, i) == [m EXCEPT !.master = @ \cup {i}]

MarkMaster(m, i) ==
    [m EXCEPT !.master = @ \cup {i},
              !.arrays = Released(@, {i}) \cup {[holders |-> {i}, list |-> <<>>]}]

\* Mutant: siblings are copied, and not shared.
MarkSiblingCopying(m, i, prev) ==
    LET list == IF ArraysOf(m, prev) = {} THEN <<>> ELSE SiblingsOf(m, prev)
    IN  [m EXCEPT
            !.parallel[i] = IF m.parallel[prev] = None THEN prev ELSE m.parallel[prev],
            !.arrays = Released(@, {i}) \cup {[holders |-> {i}, list |-> Append(list, i)]}]

\* An item joins the siblings of the one before it, which may have none:
\* "This should never happen".
MarkSibling(m, i, prev) ==
    LET joined == ArraysOf(m, prev)
        kept == Released(m.arrays \ joined, {i})
    IN  [m EXCEPT
            !.parallel[i] = IF m.parallel[prev] = None THEN prev ELSE m.parallel[prev],
            !.arrays = IF joined = {} THEN kept \cup {[holders |-> {i}, list |-> <<i>>]}
                       ELSE kept \cup {[holders |-> a.holders \cup {i},
                                        list |-> Append(a.list, i)] : a \in joined}]

\* Mutant: masters are marked on subsequent references too.
MarkedSetAgain(m, set) ==
    FoldLeft(LAMBDA n, c : IF c = set[1] THEN MarkMaster(n, c.id)
                           ELSE IF c.first THEN MarkSibling(n, c.id, c.prev)
                           ELSE n,
             m, set)

\* The marks of a set of two or more, on first references.
MarkedCite(m, c, set) ==
    IF ~c.first THEN m
    ELSE IF c = set[1] THEN MarkMaster(m, c.id)
    ELSE MarkSibling(m, c.id, c.prev)

MarkedSet(m, set) == FoldLeft(LAMBDA n, c : MarkedCite(n, c, set), m, set)

------------------------------------------------------------------------------
(* A rendering: marks, the set begun and whether it goes on.               *)

StartCitation(r) == [r EXCEPT !.set = <<>>, !.series = TRUE]

ComposeSet(r) ==
    IF Len(r.set) = 1
    THEN [r EXCEPT !.set = IF r.series THEN @ ELSE <<>>, !.series = TRUE]
    ELSE [r EXCEPT !.marks = MarkedSet(@, r.set), !.set = <<>>, !.series = TRUE]

\* Mutant: a report of any case goes on with the series.
MatchesAny(r, c) == Case[c.id] # None

\* Whether the cite goes on with the series of the last one of the set.
\* Variables are noted of a report of a case only.
Matches(r, c) ==
    /\ Case[c.id] # None
    /\ r.set = <<>> \/ Case[Last(r.set).id] = Case[c.id]

\* An item known to be parallel joins the set in any case.
CloseCite(r, c) ==
    LET s == [r EXCEPT !.series = @ /\ Matches(r, c)]
        force_collapse == r.marks.parallel[c.id] # None
    IN  IF s.series \/ force_collapse THEN [s EXCEPT !.set = Append(@, c)]
        ELSE [ComposeSet(s) EXCEPT !.set = Append(@, c)]

\* StartCite: an item that comes again begins a new set.
StartCite(r, c) == IF r.set # <<>> /\ r.set[1].id = c.id THEN ComposeSet(r) ELSE r

getCite(r, c) == CloseCite(StartCite(r, c), c)

\* The cites of citation q.
CitesOf(doc, q) ==
    [k \in DOMAIN doc[q] |->
        [id |-> doc[q][k],
         first |-> /\ \A j \in 1 .. k - 1 : doc[q][j] # doc[q][k]
                   /\ \A p \in 1 .. q - 1 : ~Contains(doc[p], doc[q][k]),
         prev |-> IF k = 1 THEN None ELSE doc[q][k - 1]]]

\* The master of the cite before it is made "ibid" when it is rendered; it will
\* be found changed, and rendered again, by the next call.
RenderCite(s, c) ==
    LET master == IF c.prev = None THEN None ELSE StartCite(s.r, c).marks.parallel[c.prev]
    IN  [r |-> getCite(s.r, c), moved |-> s.moved \/ master = c.id]

process_CitationCluster(r, doc, q) ==
    LET s == FoldLeft(RenderCite, [r |-> StartCitation(r), moved |-> FALSE], CitesOf(doc, q))
    IN  [s EXCEPT !.r = ComposeSet(@)]

Rendered(w, doc, q) ==
    LET s == process_CitationCluster(w.r, doc, q)
    IN  [r |-> s.r, again |-> IF s.moved THEN w.again \cup {q} ELSE w.again]

\* The citations tainted by changed positions, then the one submitted.
Places(list) == [k \in DOMAIN list |-> k]

processCitationCluster(doc, q) ==
    LET kept == Forget(marks, Item \ Cited(doc))
        start == [r |-> [marks |-> kept, set |-> <<>>, series |-> TRUE], again |-> {}]
        tainted == FoldLeft(LAMBDA w, p : IF p \in moved \ {q} THEN Rendered(w, doc, p) ELSE w,
                            start, Places(document))
        end == Rendered(tainted, doc, q)
    IN  /\ document' = doc
        /\ marks' = end.r.marks
        /\ run' = [set |-> end.r.set, series |-> end.r.series]
        /\ moved' = end.again
        /\ bib' = NoBib

------------------------------------------------------------------------------
(* makeBibliography.                                                       *)

\* eval_spec: "none" and "" match an item that lacks the field.
eval_spec(spec, i) ==
    IF Field[i][spec.field] = {} THEN spec.value = "none"
    ELSE spec.value \in Field[i][spec.field]

AnyOf(specs, i) == \E spec \in specs : eval_spec(spec, i)
AllOf(specs, i) == \A spec \in specs : eval_spec(spec, i)

Included(selector, i) ==
    selector = None
    \/ /\ CASE selector.by = "include" -> AnyOf(selector.specs, i)
            [] selector.by = "exclude" -> ~AnyOf(selector.specs, i)
            [] selector.by = "select" -> AllOf(selector.specs, i)
            [] selector.by = "all" -> TRUE
       /\ selector.quash # None => ~AllOf(selector.quash, i)

\* Cites in a bibliography have no position.
Entry(i) == [id |-> i, first |-> FALSE, prev |-> None]

\* A master's entry has its siblings, registered or not; looking up the marks
\* of one that is not throws.
MasterEntry(b, i) ==
    LET siblings == SiblingsOf(b.r.marks, i)
        items == <<i>> \o siblings
        rendered == FoldLeft(getCite, StartCitation(b.r), [k \in DOMAIN items |-> Entry(items[k])])
    IN  IF ToSet(siblings) \subseteq Registered
        THEN [b EXCEPT !.r = ComposeSet(rendered),
                       !.entries = Append(@, items),
                       !.skips = @ \cup ToSet(items)]
        ELSE [b EXCEPT !.threw = TRUE]

SoleEntry(b, i) == [b EXCEPT !.r = getCite(@, Entry(i)), !.entries = Append(@, <<i>>)]

\* Mutant: an item is skipped only if it is a master itself.
BibEntryUnskipped(b, i, selector) ==
    IF b.threw \/ ~Included(selector, i) THEN b
    ELSE IF i \in b.r.marks.master THEN MasterEntry(b, i)
    ELSE SoleEntry(b, i)

\* An item with siblings that is not a master's, or whose master is not
\* printed, gets an entry without printed form.
BibEntry(b, i, selector) ==
    IF b.threw \/ ~Included(selector, i) \/ i \in b.skips THEN b
    ELSE IF i \in b.r.marks.master THEN MasterEntry(b, i)
    ELSE IF ArraysOf(b.r.marks, i) = {} THEN SoleEntry(b, i)
    ELSE [b EXCEPT !.entries = Append(@, <<>>)]

getBibliographyEntries(selector) ==
    FoldLeft(LAMBDA b, i : BibEntry(b, i, selector),
             [r |-> [marks |-> marks, set |-> run.set, series |-> run.series],
              entries |-> <<>>, skips |-> {}, threw |-> FALSE],
             reflist)

------------------------------------------------------------------------------
Init ==
    /\ document = <<>> /\ moved = {}
    /\ marks = NoMarks
    /\ run = [set |-> <<>>, series |-> TRUE]
    /\ bib = NoBib
    /\ rewritten = FALSE

\* After an exception the output queue is left open: callers begin anew.
Usable == bib.outcome # "threw"

Bounded ==
    /\ \A a \in marks'.arrays : Len(a.list) <= MaxSiblings
    /\ Len(run'.set) <= MaxSiblings

AddCitation ==
    /\ Usable
    /\ Len(document) < MaxCitations
    /\ \E items \in Clusters :
          processCitationCluster(Append(document, items), Len(document) + 1)
    /\ UNCHANGED rewritten

\* The last citation is edited: positions before it do not change.
ReplaceLastCitation ==
    /\ Usable
    /\ document # <<>>
    /\ \E items \in Clusters :
          processCitationCluster([document EXCEPT ![Len(document)] = items], Len(document))
    /\ rewritten' = TRUE

MakeBibliography ==
    /\ Usable
    /\ \E selector \in Selectors \cup {None} :
          LET end == getBibliographyEntries(selector)
          IN  /\ marks' = end.r.marks
              /\ run' = [set |-> end.r.set, series |-> end.r.series]
              /\ bib' = [outcome |-> IF end.threw THEN "threw" ELSE "returned",
                         selector |-> selector, entries |-> end.entries]
    /\ UNCHANGED <<document, moved, rewritten>>

Next ==
    /\ AddCitation \/ ReplaceLastCitation \/ MakeBibliography
    /\ Bounded

Spec == Init /\ [][Next]_vars

------------------------------------------------------------------------------
(* Properties.                                                             *)

Marks == [master : SUBSET Registered,
          parallel : [Item -> Item \cup {None}],
          arrays : SUBSET [holders : SUBSET Registered, list : Seq(Item)]]

\* Type correctness: only registered items are marked, no item holds two arrays
\* of siblings, and every master holds one.
TypeOK ==
    /\ document \in Seq(Seq(Item))
    /\ moved \subseteq DOMAIN document
    /\ marks \in Marks
    /\ \A i \in Item : Cardinality(ArraysOf(marks, i)) <= 1
    /\ \A i \in marks.master : ArraysOf(marks, i) # {}
    /\ bib.outcome \in {"none", "returned", "threw"}

Printed == UNION {ToSet(bib.entries[n]) : n \in DOMAIN bib.entries}

\* skips and siblings: as long as no citation was replaced, no reference is in
\* two entries of the bibliography.  Within one it may come twice: a citation
\* that is rendered again marks its siblings again.
InOneEntry ==
    ~rewritten =>
        \A m, n \in DOMAIN bib.entries :
            m # n => ToSet(bib.entries[m]) \cap ToSet(bib.entries[n]) = {}

\* CloseVariable and force_collapse: what shares an entry reports one case, as
\* long as no citation was replaced.
OneCasePerEntry ==
    ~rewritten =>
        \A n \in DOMAIN bib.entries : \A i, j \in ToSet(bib.entries[n]) :
            i # j => Case[i] # None /\ Case[i] = Case[j]

\* The citation with the first cite of an item.
FirstCited(i) == Min({q \in DOMAIN document : Contains(document[q], i)})

\* Whether a report of the same case was cited earlier than the item.
Follows(i) ==
    \E j \in Registered \ {i} :
        /\ Case[j] = Case[i] /\ Case[i] # None
        /\ FirstCited(j) < FirstCited(i)

\* No citation has an item twice.
NoRepeats(doc) == \A q \in DOMAIN doc : IsInjective(doc[q])

\* What was first cited on its own, or with the first of its case, is in the
\* bibliography of everything, as long as no citation has an item twice.
FirstReportsPrinted ==
    ~rewritten /\ NoRepeats(document) /\ bib.outcome = "returned" /\ bib.selector = None =>
        \A i \in Registered : ~Follows(i) => i \in Printed

\* makeBibliography marks items as well, but making a bibliography again, with
\* no citation in between, gives the same one.
MadeAgainIsTheSame ==
    [][bib.outcome = "returned" /\ bib'.outcome = "returned" /\ bib'.selector = bib.selector
            => bib'.entries = bib.entries]_vars

\* The manual: makeBibliography without an argument has "all items currently
\* registered in the processor".
AllItemsPrinted ==
    bib.outcome = "returned" /\ bib.selector = None =>
        Registered \subseteq Printed
==============================================================================
