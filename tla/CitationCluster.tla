--------------------------- MODULE CitationCluster ---------------------------
(***************************************************************************)
(* The citations of a document in citeproc-js: processCitationCluster,     *)
(* appendCitationCluster, previewCitationCluster and                       *)
(* restoreProcessorState, under a style that tests positions (update_mode  *)
(* is CSL.POSITION) and may add year suffixes.                             *)
(*                                                                         *)
(* A call runs to its end or throws; it is one action, and the state a     *)
(* throw leaves behind is part of it.  The registry of items enters by     *)
(* what updateItems promises (Bibliography), together with the items whose *)
(* suffix a call changed.  Cites have no parallel cites.                   *)
(***************************************************************************)
EXTENDS Integers, SequencesExt

CONSTANTS
    Item, Cite, SortKey, Undefined, Descending,  \* as in Bibliography; items
                      \* are numbered in the order their ids compare
    Missing,          \* items sys.retrieveItem throws on
    CitationID,       \* the ids of citations
    Locator,          \* what cites have as a locator, NoLocator included
    NoLocator,        \* a cite without a locator
    NearNoteDistance, \* citation.opt["near-note-distance"]
    SortedAt,         \* whether the style sorts cites, and when
    Mode, PreviewMode,\* output formats: of the document, of previews
    Clusters,         \* bound: the cites callers put in a citation
    Layouts           \* bound: the documents callers have: ids and notes

Positions == {"first", "subsequent", "ibid", "ibid-with-locator"}

\* Callers cite something in every citation, and no citation twice in a document.
ASSUME ClusterAssumption ==
    /\ Item \subseteq Nat
    /\ NearNoteDistance \in Nat
    /\ SortedAt \in {"never", "before positions", "after positions"}
    /\ Missing \subseteq Item
    /\ Undefined \notin Positions
    /\ \A cites \in Clusters :
          /\ cites # <<>>
          /\ cites \in Seq([id : Item, locator : Locator])
    /\ \A slots \in Layouts :
          /\ slots # <<>>
          /\ slots \in Seq([citationID : CitationID, noteIndex : Nat])
          /\ \A q, r \in DOMAIN slots : slots[q].citationID = slots[r].citationID => q = r

VARIABLES
    citationById,    \* the citations the processor knows, by id
    citationByIndex, \* the citations of the document, in order
    bibliography,    \* the registry's items, with their year suffixes
    mode,            \* opt.mode
    outcome,         \* how the last call ended
    document         \* history: the citations and texts the caller has

vars == <<citationById, citationByIndex, bibliography, mode, outcome, document>>

Registry == INSTANCE Bibliography
    WITH shown <- bibliography, Lists <- {}, NoSortFlags <- {}

-----------------------------------------------------------------------------
(* Positions.                                                              *)

\* A cite as the caller makes it.
Fresh(cite) == [id |-> cite.id, locator |-> cite.locator,
                position |-> Undefined, first |-> Undefined, near |-> Undefined]

\* The places up to p whose citations are evaluated together with that at p:
\* those in notes or those in the text.
Kin(doc, p) == {q \in 1 .. p : (doc[q].noteIndex = 0) <=> (doc[p].noteIndex = 0)}

\* The places that already cited the item of cite k at p.
Earlier(doc, p, k) ==
    {q \in Kin(doc, p) :
        \E n \in DOMAIN doc[q].sortedItems :
            /\ doc[q].sortedItems[n].id = doc[p].sortedItems[k].id
            /\ q = p => n < k}

\* The place and number of the cite right before cite k at p, if it may be
\* repeated by "ibid.": the one before it in the citation, or the only one of
\* the previous citation in the same or the previous note.
Preceding(doc, p, k) ==
    LET previous == Kin(doc, p) \ {p}
        prev == doc[Max(previous)]
    IN  IF k > 1 THEN {<<p, k - 1>>}
        ELSE IF /\ previous # {}
                /\ Len(prev.sortedItems) = 1
                /\ prev.noteIndex >= doc[p].noteIndex - 1
        THEN {<<Max(previous), 1>>}
        ELSE {}

Position(doc, p, k) ==
    LET cite == doc[p].sortedItems[k]
        ibid == {c \in Preceding(doc, p, k) : doc[c[1]].sortedItems[c[2]].id = cite.id}
        prev == CHOOSE c \in ibid : TRUE
        locator == doc[prev[1]].sortedItems[prev[2]].locator
    IN  IF Earlier(doc, p, k) = {} THEN "first"
        ELSE IF ibid = {} \/ (locator # NoLocator /\ cite.locator = NoLocator)
        THEN "subsequent"
        ELSE IF cite.locator = locator THEN "ibid"
        ELSE "ibid-with-locator"

\* Mutant: the number of the first reference is left when none is due.
FirstReferenceStale(doc, p, k) ==
    LET note == doc[Min(Earlier(doc, p, k))].noteIndex
    IN  IF Position(doc, p, k) = "subsequent" /\ note # doc[p].noteIndex
        THEN note
        ELSE IF doc[p].sortedItems[k].first = Undefined THEN 0
        ELSE doc[p].sortedItems[k].first

FirstReference(doc, p, k) ==
    LET note == doc[Min(Earlier(doc, p, k))].noteIndex
    IN  IF Position(doc, p, k) = "subsequent" /\ note # doc[p].noteIndex
        THEN note
        ELSE 0

NearNote(doc, p, k) ==
    LET last == doc[Max(Earlier(doc, p, k))].noteIndex
    IN  /\ doc[p].noteIndex # 0
        /\ Position(doc, p, k) # "first"
        /\ doc[p].noteIndex - last <= NearNoteDistance

\* The cites of the citation at place p, as position evaluation leaves them.
Evaluated(doc, p) ==
    [k \in DOMAIN doc[p].sortedItems |->
        [id |-> doc[p].sortedItems[k].id,
         locator |-> doc[p].sortedItems[k].locator,
         position |-> Position(doc, p, k),
         first |-> FirstReference(doc, p, k),
         near |-> NearNote(doc, p, k)]]

-----------------------------------------------------------------------------
(* Sorting, suffixes and texts.                                            *)

\* Cite a goes before cite b, whatever their order was: those without a key go
\* last in either direction.
GoesBefore(a, b) ==
    IF Undefined \in {SortKey[a.id], SortKey[b.id]}
    THEN SortKey[a.id] # Undefined /\ SortKey[b.id] = Undefined
    ELSE IF Descending THEN SortKey[a.id] > SortKey[b.id]
    ELSE SortKey[a.id] < SortKey[b.id]

\* The order the sort puts cites in, as the old number of each new one: equal
\* keys keep their order, because the arrays are short.  No style that tests
\* positions groups cites by author as it sorts them (grouped_sort), and no
\* caller asks for a citation as it is (properties.unsorted).
SortOrders(cites) ==
    {f \in Bijection(DOMAIN cites, DOMAIN cites) :
        \A k, l \in DOMAIN cites :
            k < l => \/ GoesBefore(cites[f[k]], cites[f[l]])
                     \/ ~GoesBefore(cites[f[l]], cites[f[k]]) /\ f[k] < f[l]}

\* Most styles sort before positions are evaluated, those that sort by citation
\* number after.
Rearranged(cites, f) == [k \in DOMAIN cites |-> cites[f[k]]]
SortBefore(cites, f) ==
    IF SortedAt = "before positions" THEN Rearranged(cites, f) ELSE cites
SortAfter(cites, f) ==
    IF SortedAt = "after positions" THEN Rearranged(cites, f) ELSE cites

ItemsOf(cites) == {cites[k].id : k \in DOMAIN cites}
Cited(doc) == UNION {ItemsOf(doc[q].sortedItems) : q \in DOMAIN doc}

\* Item i is cited in doc before every cite of item j.
CitedBefore(doc, i, j) ==
    \E q \in DOMAIN doc : \E k \in DOMAIN doc[q].sortedItems :
        /\ doc[q].sortedItems[k].id = i
        /\ \A r \in 1 .. q : \A n \in DOMAIN doc[r].sortedItems :
              doc[r].sortedItems[n].id = j => r = q /\ k < n

\* update_items: the items cited, in order of their first cite; there is one
\* such list.
CitedItems(doc) ==
    {ids \in [1 .. Cardinality(Cited(doc)) -> Cited(doc)] :
        /\ {ids[m] : m \in DOMAIN ids} = Cited(doc)
        /\ \A m, n \in DOMAIN ids : m < n => CitedBefore(doc, ids[m], ids[n])}

SuffixOf(entries) ==
    [i \in {e.id : e \in ToSet(entries)} |->
        (CHOOSE e \in ToSet(entries) : e.id = i).suffix]

Ids(entries) == {entries[m].id : m \in DOMAIN entries}
Alike(entries, i) == {j \in Ids(entries) : Cite[j] = Cite[i]}

\* The items that stay when a look-alike leaves (ItemRegistry's dorefreshes).
Refreshed(old, new) ==
    {i \in Ids(old) \cap Ids(new) : \E j \in Ids(old) \ Ids(new) : Cite[j] = Cite[i]}

\* The suffix an item has when its class is given suffixes.
Held(old, new, i) ==
    IF i \in Ids(old) \ Refreshed(old, new) THEN SuffixOf(old)[i] ELSE Registry!NoSuffix

\* ItemRegistry's TestsTaints: of a larger class only the first in order is
\* looked at.
TestsTaints(old, new, class) ==
    \/ Cardinality(class) = 2
    \/ \E first \in class :
          SuffixOf(new)[first] = 0 /\ Held(old, new, first) # Held(old, new, Min(class))

\* ItemRegistry's Resuffixed: the members of the classes that items joined or
\* left, if their suffix was not their place in order of id.
Resuffixed(old, new) ==
    {i \in Ids(new) :
        /\ \E j \in Alike(new, i) : j \notin Ids(old) \/ j \in Refreshed(old, new)
        /\ Cardinality(Alike(new, i)) > 1
        /\ TestsTaints(old, new, Alike(new, i))
        /\ Held(old, new, i) # Cardinality({j \in Alike(new, i) : j < i})}

\* What taintedItemIDs may be: of the items refreshed, whichever is first.
TaintedItems(old, new) ==
    IF Refreshed(old, new) = {} THEN {Resuffixed(old, new)}
    ELSE {Resuffixed(old, new) \cup {first} : first \in Refreshed(old, new)}

\* What process_CitationCluster makes of a citation's cites.
Text(cites, entries) ==
    [cites |-> cites,
     suffixes |-> [k \in DOMAIN cites |-> SuffixOf(entries)[cites[k].id]]]

-----------------------------------------------------------------------------
(* The calls.  slots is the caller's document: the citations before and    *)
(* after the one submitted, which is at place p.                           *)

Init ==
    /\ citationById = <<>>
    /\ citationByIndex = <<>>
    /\ bibliography = <<>>
    /\ mode = Mode
    /\ outcome = "none"
    /\ document = <<>>

IDs(list) == {list[q].citationID : q \in DOMAIN list}
OfID(list, id) == CHOOSE c \in ToSet(list) : c.citationID = id

\* setCitationId: the citation is registered before its items are retrieved.
setCitationId(slot, cites) ==
    [citationID |-> slot.citationID, noteIndex |-> slot.noteIndex,
     sortedItems |-> cites]
Register(c) ==
    [id \in DOMAIN citationById \cup {c.citationID} |->
        IF id = c.citationID THEN c ELSE citationById[id]]

Retrievable(cites) == \A c \in ToSet(cites) : c.id \notin Missing

\* The reconstituted list, with the note indexes the caller gives.
Listed(byId, slots) ==
    [q \in DOMAIN slots |->
        [byId[slots[q].citationID] EXCEPT !.noteIndex = slots[q].noteIndex]]

\* Mutant: objects are registered anew, and not changed in place.
ThroughNew(byId, list) ==
    [id \in DOMAIN byId |->
        IF id \in IDs(list) \ DOMAIN citationById THEN OfID(list, id) ELSE byId[id]]

\* The table of citations after it was changed through the list.
Through(byId, list) ==
    [id \in DOMAIN byId |-> IF id \in IDs(list) THEN OfID(list, id) ELSE byId[id]]

\* A citation whose items were never retrieved has no sortedItems.
Complete(list) == \A q \in DOMAIN list : list[q].sortedItems # Undefined

\* Mutants: suffixes do not count; the citations before p are left as they are.
TaintedByPosition(list, positioned, p, items) ==
    {q \in DOMAIN list \ {p} : positioned[q].sortedItems # list[q].sortedItems}
PositionedAfter(list, p, f) ==
    [q \in DOMAIN list |->
        IF q < p THEN list[q] ELSE [list[q] EXCEPT !.sortedItems = Evaluated(list, q)]]

\* Position evaluation of a list whose citation at place p is submitted and
\* has its cites sorted by f.
Positioned(list, p, f) ==
    LET sorted == [list EXCEPT ![p].sortedItems = SortBefore(@, f)]
    IN  [q \in DOMAIN list |->
            [list[q] EXCEPT !.sortedItems =
                IF q = p THEN SortAfter(Evaluated(sorted, q), f)
                ELSE Evaluated(sorted, q)]]

\* taintedCitationIDs, as places: positions that changed, suffixes that did.
Tainted(list, positioned, p, items) ==
    {q \in DOMAIN list \ {p} : positioned[q].sortedItems # list[q].sortedItems}
    \cup {q \in DOMAIN list : \E c \in ToSet(list[q].sortedItems) : c.id \in items}

\* The body of processCitationCluster, once the list is complete: registry,
\* positions, and the texts returned, which the caller puts in its document.
\* "old" is what the registry held.
Render(byId, list, p, old, saved) ==
    /\ \E ids \in CitedItems(list) : Registry!updateItems(ids, FALSE)
    /\ \E f \in SortOrders(list[p].sortedItems) :
          citationByIndex' = Positioned(list, p, f)
    /\ citationById' = Through(byId, citationByIndex')
    /\ outcome' = "returned"
    /\ \E items \in TaintedItems(old, bibliography') :
          LET returned == {p} \cup Tainted(list, citationByIndex', p, items)
          IN  document' = [q \in DOMAIN list |->
                  [citationID |-> list[q].citationID,
                   noteIndex |-> list[q].noteIndex,
                   text |-> IF q \in returned
                            THEN Text(citationByIndex'[q].sortedItems, bibliography')
                            ELSE saved[list[q].citationID]]]

Texts == [id \in CitationID |->
              IF id \in IDs(document) THEN OfID(document, id).text ELSE Undefined]

\* A throw of retrieveItem, after the citation was registered.
FailToRetrieve(slot, cites) ==
    /\ ~Retrievable(cites)
    /\ citationById' = Register(setCitationId(slot, Undefined))
    /\ UNCHANGED <<citationByIndex, bibliography, document>>
    /\ outcome' = "threw"

\* A throw on a listed citation that failed before, after the list was made.
FailToPosition(byId, list) ==
    /\ ~Complete(list)
    /\ citationById' = Through(byId, list)
    /\ citationByIndex' = list
    /\ UNCHANGED <<bibliography, document>>
    /\ outcome' = "threw"

processCitationCluster(cites, slots, p) ==
    LET byId == Register(setCitationId(slots[p], [k \in DOMAIN cites |-> Fresh(cites[k])]))
        list == Listed(byId, slots)
    IN  /\ mode' = mode
        /\ \/ FailToRetrieve(slots[p], cites)
           \/ Retrievable(cites) /\ FailToPosition(byId, list)
           \/ /\ Retrievable(cites)
              /\ Complete(list)
              /\ Render(byId, list, p, bibliography, Texts)

\* The list is the processor's own, with the note indexes it has.
appendCitationCluster(cites, here) ==
    LET pre == [q \in DOMAIN citationByIndex |->
                  [citationID |-> citationByIndex[q].citationID,
                   noteIndex |-> citationByIndex[q].noteIndex]]
    IN  processCitationCluster(cites, Append(pre, here), Len(pre) + 1)

\* A preview renders the submitted citation in another output format, without
\* touching the cites of the others, and puts things back; but not the note
\* indexes, nor the citations that are not in the document, nor anything when
\* it throws.
previewCitationCluster(cites, slots, p) ==
    LET byId == Register(setCitationId(slots[p], [k \in DOMAIN cites |-> Fresh(cites[k])]))
        list == Listed(byId, slots)
        others == IDs(list) \ {slots[p].citationID}
        restored == [q \in DOMAIN citationByIndex |->
            IF citationByIndex[q].citationID \in others
            THEN OfID(list, citationByIndex[q].citationID)
            ELSE citationByIndex[q]]
    IN  \/ FailToRetrieve(slots[p], cites) /\ mode' = PreviewMode
        \/ Retrievable(cites) /\ FailToPosition(byId, list) /\ mode' = PreviewMode
        \/ /\ Retrievable(cites)
           /\ Complete(list)
           /\ citationByIndex' = restored
           /\ citationById' = [id \in IDs(restored) |-> OfID(restored, id)]
           /\ Registry!updateItems([q \in DOMAIN bibliography |-> bibliography[q].id], FALSE)
           /\ mode' = mode
           /\ outcome' = "previewed"
           /\ UNCHANGED document

\* Mutant: copies keep the id of their original.
restoreWithCopies(slots, source) ==
    LET named == [q \in DOMAIN slots |-> [slots[q] EXCEPT !.citationID = source[@]]]
        list == [q \in DOMAIN named |->
            setCitationId(named[q], OfID(document, named[q].citationID).text.cites)]
    IN  /\ mode' = Mode
        /\ Render([id \in IDs(named) |-> OfID(list, id)], list, 1, bibliography', Texts)

\* In a new processor, which has registered the items by then: the citations
\* saved with the document, whose cites have the positions they had.  A copy of
\* a citation has its original as source, and setCitationId has given it an id
\* of its own.
restoreProcessorState(slots, source) ==
    LET list == [q \in DOMAIN slots |->
            setCitationId(slots[q], OfID(document, source[slots[q].citationID]).text.cites)]
    IN  /\ mode' = Mode
        /\ Render([id \in IDs(slots) |-> OfID(list, id)], list, 1, bibliography',
                  [id \in IDs(slots) |-> OfID(document, source[id]).text])

-----------------------------------------------------------------------------
(* The caller submits its document with one citation new or changed; the   *)
(* processor knows the others.                                             *)

MaySubmit(slots, p) ==
    IDs(slots) \ {slots[p].citationID} \subseteq IDs(document) \cap DOMAIN citationById

ProcessCitationCluster ==
    \E cites \in Clusters, slots \in Layouts : \E p \in DOMAIN slots :
        MaySubmit(slots, p) /\ processCitationCluster(cites, slots, p)

AppendCitationCluster ==
    \E cites \in Clusters, slots \in Layouts :
        LET here == slots[Len(slots)]
        IN  /\ here.citationID \notin IDs(citationByIndex)
            /\ appendCitationCluster(cites, here)

PreviewCitationCluster ==
    \E cites \in Clusters, slots \in Layouts : \E p \in DOMAIN slots :
        MaySubmit(slots, p) /\ previewCitationCluster(cites, slots, p)

\* The document's citations may have been moved and copied meanwhile.
Restart ==
    \E slots \in Layouts : \E source \in [IDs(slots) -> IDs(document)] :
        /\ IDs(document) \subseteq IDs(slots)
        /\ \A id \in IDs(document) : source[id] = id
        /\ restoreProcessorState(slots, source)

Next ==
    \/ ProcessCitationCluster
    \/ AppendCitationCluster
    \/ PreviewCitationCluster
    \/ Restart

Spec == Init /\ [][Next]_vars

-----------------------------------------------------------------------------
(* Properties.                                                             *)

Slots(list) == [q \in DOMAIN list |-> <<list[q].citationID, list[q].noteIndex>>]

Cites == [id : Item, locator : Locator,
          position : Positions \cup {Undefined},
          first : Nat \cup {Undefined}, near : BOOLEAN \cup {Undefined}]
Citations == [citationID : CitationID, noteIndex : Nat,
              sortedItems : Seq(Cites) \cup {Undefined}]

\* Type correctness: both tables hold citations, and the texts are complete.
TypeOK ==
    /\ DOMAIN citationById \subseteq CitationID
    /\ \A id \in DOMAIN citationById :
          citationById[id] \in Citations /\ citationById[id].citationID = id
    /\ citationByIndex \in Seq(Citations)
    /\ \A q, r \in DOMAIN citationByIndex :
          citationByIndex[q].citationID = citationByIndex[r].citationID => q = r
    /\ mode \in {Mode, PreviewMode}
    /\ outcome \in {"none", "returned", "threw", "previewed"}
    /\ document \in Seq([citationID : CitationID, noteIndex : Nat,
                         text : [cites : Seq(Cites), suffixes : Seq(Int)]])

\* The two tables hold the same objects, whatever was previewed or thrown: a
\* citation of the document is the one known by its id, except that one whose
\* items could not be retrieved may have taken its place there.  Position
\* evaluation reads the first table and rendering the second.
TablesAgree ==
    \A q \in DOMAIN citationByIndex :
        LET c == citationByIndex[q]
        IN  /\ c.citationID \in DOMAIN citationById
            /\ \/ citationById[c.citationID] = c
               \/ citationById[c.citationID].sortedItems = Undefined

\* After a call that returned, every text in the caller's document is what
\* its citation renders to now: whatever a call changed was returned.
DocumentIsCurrent ==
    outcome = "returned" =>
        /\ DOMAIN document = DOMAIN citationByIndex
        /\ \A q \in DOMAIN document :
              document[q].text = Text(Evaluated(citationByIndex, q), bibliography)

\* A citation with a note number refers to a note that has a first cite of
\* the same item.
BackreferencesResolve ==
    outcome = "returned" =>
        \A q \in DOMAIN citationByIndex :
            \A k \in DOMAIN citationByIndex[q].sortedItems :
                LET c == citationByIndex[q].sortedItems[k]
                IN  c.first # 0 =>
                        \E r \in 1 .. q :
                            /\ citationByIndex[r].noteIndex = c.first
                            /\ \E n \in DOMAIN citationByIndex[r].sortedItems :
                                  /\ citationByIndex[r].sortedItems[n].id = c.id
                                  /\ citationByIndex[r].sortedItems[n].position = "first"

\* Restoring a document that was not edited changes nothing the caller sees.
RestartChangesNothing ==
    [][(Restart /\ Slots(document') = Slots(document)) =>
            document' = document]_vars

\* What the manual and the code say of previews: the tables, the registry and
\* the output format are afterwards what they were.
PreviewLeavesNoTrace ==
    [][outcome' = "previewed" =>
        UNCHANGED <<citationById, citationByIndex, bibliography, mode>>]_vars
=============================================================================
