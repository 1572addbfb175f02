----------------------------- MODULE ItemRegistry -----------------------------
(***************************************************************************)
(* The registry of cited items of citeproc-js (CSL.Registry, updateItems,  *)
(* updateUncitedItems, restoreProcessorState of nothing) under a style     *)
(* that disambiguates by year suffix only, and the part of                 *)
(* CSL.Disambiguation that runs then (initVars, scanItems, disYears).      *)
(*                                                                         *)
(* One call at a time runs to its end or throws.  It is cut into the       *)
(* registry's methods, in their order: "call.at" is the method to run      *)
(* next.  An exception leaves what the methods did before it, and the      *)
(* caller can go on with other calls.                                      *)
(*                                                                         *)
(* An item is a number that compares as its id does, and is not "1", "2":  *)
(* ids that look like indices are enumerated in another order.  Its data   *)
(* do not change, so neither do the cite it renders to without             *)
(* disambiguation and its sort key.  All cites show as many names.         *)
(***************************************************************************)
EXTENDS Integers, Sequences, FiniteSets

CONSTANTS
    Item,          \* the ids of items
    Cite,          \* Cite[i]: getAmbiguousCite of item i
    SortKey,       \* SortKey[i]: its sort key, or Undefined
    Undefined,     \* JavaScript's undefined
    Descending,    \* the direction of the style's sort
    NumberedParts, \* where the style renders citation numbers
    Missing,       \* items sys.retrieveItem throws on
    Lists,         \* bound: the lists callers pass to updateItems
    UncitedLists,  \* bound: the lists callers pass to updateUncitedItems
    NoSortFlags,   \* bound: the values of nosort callers pass
    MayReset       \* bound: whether callers reset the processor

Cites == {Cite[i] : i \in Item}

ASSUME ItemAssumption ==
    /\ Item \subseteq Nat
    /\ IsFiniteSet(Item)
    /\ SortKey \in [Item -> Nat \cup {Undefined}]
    /\ DOMAIN Cite = Item
    /\ Descending \in BOOLEAN
    /\ NumberedParts \subseteq {"cites", "bibliography"}
    /\ Missing \subseteq Item

ASSUME BoundAssumption ==
    /\ Lists \subseteq Seq(Item)
    /\ UncitedLists \subseteq Seq(Item)
    /\ NoSortFlags \subseteq BOOLEAN
    /\ MayReset \in BOOLEAN

VARIABLES
    mylist,         \* the list of the last call, uncited items appended
    uncited,        \* the list of the last additive updateUncitedItems
    registry,       \* registry[i]: the token of a registered item
    ambigcites,     \* ambigcites[c]: the pool of items said to render to c
    akeys,          \* pools to be disambiguated
    reflist,        \* the bibliography
    refreshes,      \* items left in the pools of deleted ones
    touched,        \* items whose sort keys are out of date
    oldseq,         \* citation numbers before the call
    tracking,       \* tmp.taintedItemIDs is an object and not false
    taintedItemIDs, \* items processCitationCluster will render again
    bibchange,      \* return_data.bibchange of the last processCitationCluster
    captured,       \* the pools CSL.Disambiguation still reads after a reset
    call,           \* the call under way, or how the last one ended
    shown           \* history: the last list returned, with the suffixes

pools == <<ambigcites, akeys>>
changes == <<tracking, taintedItemIDs, bibchange>>
vars == <<mylist, uncited, registry, pools, reflist, refreshes, touched,
          oldseq, changes, captured, call, shown>>

NoSuffix == -1

Elements(s) == {s[p] : p \in DOMAIN s}
Positions(s, x) == {p \in DOMAIN s : s[p] = x}
Last(P) == CHOOSE p \in P : \A q \in P : q <= p

\* The ways to list a finite set, and the one that is in order of number.
Arrangements(S) ==
    {f \in [1 .. Cardinality(S) -> S] :
        \A j, k \in DOMAIN f : f[j] = f[k] => j = k}
InOrder(S) ==
    {f \in [1 .. Cardinality(S) -> S] :
        \A j, k \in DOMAIN f : j < k => f[j] < f[k]}

-----------------------------------------------------------------------------
(* Sorting.                                                                *)

\* Mutant: undefined keys change sides with the direction.
compareKeysTurned(a, b) ==
    LET ka == SortKey[a]
        kb == SortKey[b]
    IN  \/ ka # kb /\ (IF Descending THEN ka = Undefined ELSE kb = Undefined)
        \/ /\ ka # Undefined /\ kb # Undefined
           /\ IF Descending THEN ka > kb ELSE ka < kb
        \/ ka = kb /\ registry[a].seq < registry[b].seq

\* compareKeys(a, b) < 0, for tokens with sort keys: an undefined key is last
\* in both directions, and items with equal keys are in order of seq.
compareKeys(a, b) ==
    LET ka == SortKey[a]
        kb == SortKey[b]
    IN  \/ ka # Undefined /\ kb = Undefined
        \/ /\ ka # Undefined /\ kb # Undefined
           /\ IF Descending THEN ka > kb ELSE ka < kb
        \/ ka = kb /\ registry[a].seq < registry[b].seq

\* What Array.sort(compareKeys) can make of s, given as the arrays of its
\* elements; it need not be stable.  A token without sort keys goes by its
\* number as the first argument and last as the second: that is no order at
\* all, and any result is possible.
Sorted(arrays) ==
    {t \in arrays :
        (\A p \in DOMAIN t : registry[t[p]].sortkeys) =>
            \A p, q \in DOMAIN t : p < q => ~compareKeys(t[q], t[p])}

Sortings(s) ==
    Sorted({[k \in DOMAIN s |-> s[f[k]]] : f \in Arrangements(DOMAIN s)})

-----------------------------------------------------------------------------
(* Calls.                                                                  *)

Init ==
    /\ mylist = <<>> /\ uncited = <<>> /\ reflist = <<>> /\ oldseq = <<>>
    /\ registry = <<>>
    /\ ambigcites = [c \in Cites |-> {}]
    /\ akeys = {} /\ refreshes = {} /\ touched = {}
    /\ tracking = FALSE /\ taintedItemIDs = {} /\ bibchange = FALSE
    /\ captured = Undefined
    /\ call = [fn |-> "none", at |-> "returned", nosort |-> FALSE, todo |-> {}]
    /\ shown = <<>>

Ready == call.at \in {"returned", "threw"}
At(method) == call.at = method
Continue(method) == call' = [call EXCEPT !.at = method]
Throw == call' = [call EXCEPT !.at = "threw", !.todo = {}]

Begin(fn, nosort, method) ==
    /\ Ready
    /\ call' = [fn |-> fn, at |-> method, nosort |-> nosort, todo |-> {}]

\* tmp.taintedItemIDs with these added; while it is false, nothing comes of it.
Tainted(items) ==
    IF tracking THEN taintedItemIDs \cup items ELSE taintedItemIDs

\* The places of a list with items that are not in mylist yet.
NewPlaces(list) ==
    {p \in DOMAIN list :
        /\ list[p] \notin Elements(mylist)
        /\ \A q \in DOMAIN list : q < p => list[q] # list[p]}

\* Mutant: the uncited items are not added.
WithoutUncited(list) == list

\* The list of a call that does not add to the one before.
WithUncited(list) == list \o uncited

\* Mutant: touched is not emptied.
initKeepsTouched(list, uncited_flag) ==
    /\ \/ /\ uncited_flag /\ mylist # <<>>
          /\ uncited' = list
          /\ \E new \in InOrder(NewPlaces(list)) :
                mylist' = mylist \o [k \in DOMAIN new |-> list[new[k]]]
       \/ /\ ~uncited_flag \/ mylist = <<>>
          /\ mylist' = WithUncited(list)
          /\ UNCHANGED uncited
    /\ oldseq' = <<>>
    /\ refreshes' = {}
    /\ UNCHANGED <<touched, registry, pools, reflist, captured, shown>>

\* updateUncitedItems adds to the list if there is one, and only then is its
\* own list remembered.
init(list, uncited_flag) ==
    /\ \/ /\ uncited_flag /\ mylist # <<>>
          /\ uncited' = list
          /\ \E new \in InOrder(NewPlaces(list)) :
                mylist' = mylist \o [k \in DOMAIN new |-> list[new[k]]]
       \/ /\ ~uncited_flag \/ mylist = <<>>
          /\ mylist' = WithUncited(list)
          /\ UNCHANGED uncited
    /\ oldseq' = <<>>
    /\ refreshes' = {}
    /\ touched' = {}
    /\ UNCHANGED <<registry, pools, reflist, captured, shown>>

\* A caller, the citation renderer of the page for one, sets the items.
UpdateItems(list, nosort) ==
    /\ Begin("updateItems", nosort, "dodeletes")
    /\ init(list, FALSE)
    /\ UNCHANGED changes

\* processCitationCluster starts to note what changes and sets the items, each
\* one once.
ClusterUpdate(list) ==
    /\ \A p, q \in DOMAIN list : list[p] = list[q] => p = q
    /\ Begin("processCitationCluster", FALSE, "dodeletes")
    /\ init(list, FALSE)
    /\ tracking' = TRUE
    /\ taintedItemIDs' = {}
    /\ bibchange' = FALSE

UpdateUncitedItems(list, nosort) ==
    /\ Begin("updateUncitedItems", nosort, "doinserts")
    /\ init(list, TRUE)
    /\ UNCHANGED changes

\* restoreProcessorState([]) empties the registry before it drops it.  Callers
\* here do so when no item is uncited: nothing is left in the old registry.
RestoreEmptyState ==
    /\ MayReset
    /\ uncited = <<>>
    /\ \A i \in DOMAIN registry : ~registry[i].uncited
    /\ Begin("restoreProcessorState", FALSE, "dodeletes")
    /\ init(<<>>, FALSE)
    /\ UNCHANGED changes

-----------------------------------------------------------------------------
(* The registry's methods.                                                 *)

\* Mutant: an item that has partners is kept.
DeletedAlone ==
    {i \in DOMAIN registry :
        /\ i \notin Elements(mylist)
        /\ ~registry[i].uncited
        /\ ambigcites[registry[i].ambig] = {i}}

Deleted ==
    {i \in DOMAIN registry : i \notin Elements(mylist) /\ ~registry[i].uncited}

\* Mutant: deleted items stay in their pools.
LeftAll(c) == ambigcites[c]

Left(c) == ambigcites[c] \ {i \in Deleted : registry[i].ambig = c}

\* Mutant: one item makes no difference.
ChangedByTwo(items) == bibchange \/ Cardinality(items) > 1

Changed(items) == bibchange \/ items # {}

\* What the namereg would add to the refreshes is empty without the
\* disambiguation of names.  A refresh of an item deleted later is void, so
\* only what is left of the pools counts.
dodeletes ==
    /\ At("dodeletes")
    /\ registry' = [i \in DOMAIN registry \ Deleted |-> registry[i]]
    /\ ambigcites' = [c \in Cites |-> Left(c)]
    /\ refreshes' = UNION {Left(registry[i].ambig) : i \in Deleted}
    /\ bibchange' = Changed(Deleted)
    /\ Continue("doinserts")
    /\ UNCHANGED <<mylist, uncited, akeys, reflist, touched, oldseq, tracking,
                   taintedItemIDs, captured, shown>>

NewToken(i) ==
    [seq |-> 0, sortkeys |-> FALSE, ambig |-> Cite[i], suffix |-> NoSuffix,
     uncited |-> FALSE]

\* Every item up to the first one that cannot be retrieved.
doinserts ==
    /\ At("doinserts")
    /\ LET new == {p \in DOMAIN mylist : mylist[p] \notin DOMAIN registry}
           failing == {p \in new : mylist[p] \in Missing}
           inserted ==
               {mylist[p] : p \in {q \in new : \A f \in failing : q < f}}
       IN  /\ registry' = [i \in DOMAIN registry \cup inserted |->
                  IF i \in inserted THEN NewToken(i) ELSE registry[i]]
           /\ ambigcites' = [c \in Cites |->
                  ambigcites[c] \cup {i \in inserted : Cite[i] = c}]
           /\ akeys' = akeys \cup {Cite[i] : i \in inserted}
           /\ touched' = touched \cup inserted
           /\ bibchange' = Changed(inserted)
           /\ Continue(IF failing # {} THEN "threw"
                       ELSE IF call.fn = "updateUncitedItems" THEN "douncited"
                       ELSE "dorefreshes")
    /\ UNCHANGED <<mylist, uncited, reflist, refreshes, oldseq, tracking,
                   taintedItemIDs, captured, shown>>

\* As many items are marked as there are in uncited, from the start of mylist.
douncited ==
    /\ At("douncited")
    /\ registry' = [i \in DOMAIN registry |->
           IF i \in Elements(mylist)
           THEN [registry[i] EXCEPT !.uncited =
                    \E p \in DOMAIN mylist : p <= Len(uncited) /\ mylist[p] = i]
           ELSE registry[i]]
    /\ IF Len(uncited) > Len(mylist) THEN Throw ELSE Continue("rebuildlist")
    /\ UNCHANGED <<mylist, uncited, pools, reflist, refreshes, touched, oldseq,
                   changes, captured, shown>>

\* Mutant: nothing is refreshed.
RefreshedNone == {}

Refreshed == refreshes \cap DOMAIN registry

\* Mutant: items only join a pool that was empty.
PooledFirst(c, items) ==
    [ambigcites EXCEPT ![c] = IF @ = {} THEN items ELSE @]

Pooled(c, items) == [ambigcites EXCEPT ![c] = @ \cup items]

\* The ambig key of the first item refreshed is used for all of them.  Which
\* one is first is the order of a JavaScript object's keys.
dorefreshes ==
    /\ At("dorefreshes")
    /\ \/ /\ Refreshed = {}
          /\ UNCHANGED <<registry, pools, touched, taintedItemIDs>>
       \/ \E first \in Refreshed :
             /\ registry' = [i \in DOMAIN registry |->
                    IF i \in Refreshed
                    THEN [registry[i] EXCEPT !.ambig = Cite[first],
                             !.suffix = NoSuffix, !.sortkeys = FALSE]
                    ELSE registry[i]]
             /\ ambigcites' = Pooled(Cite[first], Refreshed)
             /\ akeys' = akeys \cup {Cite[first]}
             /\ touched' = touched \cup Refreshed
             /\ taintedItemIDs' = Tainted({first})
    /\ Continue("rebuildlist")
    /\ UNCHANGED <<mylist, uncited, reflist, refreshes, oldseq, tracking,
                   bibchange, captured, shown>>

\* Mutant: the number is saved after it is set.
OldSeqLate(i) == Last(Positions(mylist, i))

\* The number an item has when rebuildlist comes to its last place.
OldSeq(i) ==
    LET earlier == Positions(mylist, i) \ {Last(Positions(mylist, i))}
    IN  IF earlier = {} THEN registry[i].seq ELSE Last(earlier)

rebuildlist ==
    /\ At("rebuildlist")
    /\ reflist' = mylist
    /\ oldseq' = [i \in Elements(mylist) |-> OldSeq(i)]
    /\ registry' = [i \in DOMAIN registry |->
           IF i \in Elements(mylist)
           THEN [registry[i] EXCEPT !.seq = Last(Positions(mylist, i))]
           ELSE registry[i]]
    /\ Continue("setsortkeys")
    /\ UNCHANGED <<mylist, uncited, pools, refreshes, touched, changes,
                   captured, shown>>

setsortkeys ==
    /\ At("setsortkeys")
    /\ registry' = [i \in DOMAIN registry |->
           IF i \in touched THEN [registry[i] EXCEPT !.sortkeys = TRUE]
           ELSE registry[i]]
    /\ call' = [call EXCEPT !.at = "setdisambigs", !.todo = akeys]
    /\ UNCHANGED <<mylist, uncited, pools, reflist, refreshes, touched, oldseq,
                   changes, captured, shown>>

\* Mutant: suffixes are counted from 1.
SuffixFromOne(tokens, i) == CHOOSE p \in DOMAIN tokens : tokens[p] = i

SuffixOf(tokens, i) == (CHOOSE p \in DOMAIN tokens : tokens[p] = i) - 1

\* Mutant: a pool of two is no special case.
TestsTaintsOfMany(ids, first) ==
    registry[first].suffix #
        IF ids[1] \in DOMAIN registry THEN registry[ids[1]].suffix
        ELSE NoSuffix

\* cloneAmbigConfig looks for changed suffixes if the pool has two members or
\* the suffix of the first token in order was not that of the first id.
TestsTaints(ids, first) ==
    \/ Len(ids) = 2
    \/ registry[first].suffix #
          IF ids[1] \in DOMAIN registry THEN registry[ids[1]].suffix
          ELSE NoSuffix

\* Suffixes are compared with the place in order of id, up to the first member
\* that is no longer registered.
Resuffixed(ids) ==
    {ids[k] : k \in {n \in DOMAIN ids :
        /\ \A m \in 1 .. n : ids[m] \in DOMAIN registry
        /\ registry[ids[n]].suffix # n - 1}}

(***************************************************************************)
(* disYears on a pool of two or more, given in order of id, and on its     *)
(* registered members in the order of the bibliography.  A member that is  *)
(* not registered throws: in the test for taints, when all that is done is *)
(* to put the first token in the pool, or else after the last suffix.      *)
(***************************************************************************)
disYears(akey, ids, tokens) ==
    LET stale == Elements(ids) \ DOMAIN registry
        tests == TestsTaints(ids, tokens[1])
    IN  /\ registry' = [i \in DOMAIN registry |->
               IF i \notin Elements(tokens) THEN registry[i]
               ELSE IF ~tests \/ stale = {}
               THEN [registry[i] EXCEPT !.ambig = akey,
                        !.suffix = SuffixOf(tokens, i)]
               ELSE IF i = tokens[1] THEN [registry[i] EXCEPT !.ambig = akey]
               ELSE registry[i]]
        /\ taintedItemIDs' = Tainted(IF tests THEN Resuffixed(ids) ELSE {})
        /\ IF stale # {} THEN Throw
           ELSE call' = [call EXCEPT !.todo = @ \ {akey}]

\* CSL.Disambiguation was given the pools of the first registry, and keeps to
\* them after a reset.
disambiguated == IF captured = Undefined THEN ambigcites ELSE captured

\* disambiguate.run of one pool; the order of the pools is that of a
\* JavaScript object's keys.
DisambiguatePool ==
    /\ At("setdisambigs")
    /\ \E akey \in call.todo :
          LET pool == disambiguated[akey]
              live == pool \cap DOMAIN registry
          IN  \/ /\ Cardinality(pool) <= 1
                 /\ call' = [call EXCEPT !.todo = @ \ {akey}]
                 /\ UNCHANGED <<registry, taintedItemIDs>>
              \/ /\ Cardinality(pool) > 1
                 /\ captured # Undefined \/ live = {}
                 /\ Throw
                 /\ UNCHANGED <<registry, taintedItemIDs>>
              \/ /\ Cardinality(pool) > 1
                 /\ captured = Undefined /\ live # {}
                 /\ \E ids \in InOrder(pool), tokens \in Sorted(Arrangements(live)) :
                       disYears(akey, ids, tokens)
    /\ UNCHANGED <<mylist, uncited, pools, reflist, refreshes, touched, oldseq,
                   tracking, bibchange, captured, shown>>

\* The end of setdisambigs.
DisambiguationDone ==
    /\ At("setdisambigs")
    /\ call.todo = {}
    /\ akeys' = {}
    /\ Continue(IF call.nosort THEN "renumber" ELSE "sorttokens")
    /\ UNCHANGED <<mylist, uncited, registry, ambigcites, reflist, refreshes,
                   touched, oldseq, changes, captured, shown>>

sorttokens ==
    /\ At("sorttokens")
    /\ reflist' \in Sortings(reflist)
    /\ Continue("renumber")
    /\ UNCHANGED <<mylist, uncited, registry, pools, refreshes, touched, oldseq,
                   changes, captured, shown>>

Numbered(part) == part \in NumberedParts

Moved == {reflist[p] : p \in {q \in DOMAIN reflist : oldseq[reflist[q]] # q}}

\* The last method; getSortedIds is what the call returns.
renumber ==
    /\ At("renumber")
    /\ registry' = [i \in DOMAIN registry |->
           IF i \in Elements(reflist)
           THEN [registry[i] EXCEPT !.seq = Last(Positions(reflist, i))]
           ELSE registry[i]]
    /\ taintedItemIDs' = IF Numbered("cites") THEN Tainted(Moved)
                         ELSE taintedItemIDs
    /\ bibchange' = \/ bibchange
                    \/ tracking /\ Numbered("bibliography") /\ Moved # {}
    /\ shown' = [p \in DOMAIN reflist |->
                    [id |-> reflist[p], suffix |-> registry[reflist[p]].suffix]]
    /\ tracking' = (tracking /\ call.fn # "processCitationCluster")
    /\ Continue(IF call.fn = "restoreProcessorState" THEN "reset"
                ELSE "returned")
    /\ UNCHANGED <<mylist, uncited, pools, reflist, refreshes, touched, oldseq,
                   captured>>

\* restoreProcessorState([]) makes a new registry, and no new CSL.Disambiguation.
Reset ==
    /\ At("reset")
    /\ captured' = disambiguated
    /\ mylist' = <<>> /\ uncited' = <<>> /\ reflist' = <<>> /\ oldseq' = <<>>
    /\ registry' = <<>>
    /\ ambigcites' = [c \in Cites |-> {}]
    /\ akeys' = {} /\ refreshes' = {} /\ touched' = {}
    /\ bibchange' = FALSE
    /\ tracking' = FALSE
    /\ taintedItemIDs' = {}
    /\ shown' = <<>>
    /\ Continue("returned")

Next ==
    \/ \E list \in Lists, nosort \in NoSortFlags : UpdateItems(list, nosort)
    \/ \E list \in Lists : ClusterUpdate(list)
    \/ \E list \in UncitedLists, nosort \in NoSortFlags :
          UpdateUncitedItems(list, nosort)
    \/ RestoreEmptyState
    \/ dodeletes \/ doinserts \/ douncited \/ dorefreshes \/ rebuildlist
    \/ setsortkeys \/ DisambiguatePool \/ DisambiguationDone
    \/ sorttokens \/ renumber \/ Reset

Spec == Init /\ [][Next]_vars

-----------------------------------------------------------------------------
(* Properties.                                                             *)

Returned == At("returned")

Token == [seq : Nat, sortkeys : BOOLEAN, ambig : Cites,
          suffix : {NoSuffix} \cup Nat, uncited : BOOLEAN]

\* Tokens, pools and lists hold items and cites, and whatever a method looks
\* up by id is registered when it runs.
TypeOK ==
    /\ DOMAIN registry \subseteq Item
    /\ \A i \in DOMAIN registry : registry[i] \in Token
    /\ ambigcites \in [Cites -> SUBSET Item]
    /\ akeys \subseteq Cites
    /\ mylist \in Seq(Item) /\ uncited \in Seq(Item)
    /\ ~At("doinserts") /\ ~At("dodeletes") /\ ~Ready =>
          Elements(mylist) \subseteq DOMAIN registry
    /\ touched \subseteq Item
    /\ At("setsortkeys") => touched \subseteq DOMAIN registry
    /\ taintedItemIDs \subseteq Item

\* init, dodeletes and doinserts: the call leaves the items of its list in the
\* registry, and no other.
RegistryIsListed ==
    Returned => /\ DOMAIN registry = Elements(mylist)
                /\ Elements(reflist) = Elements(mylist)

\* registerAmbigToken and dodeletes: between calls, also after one that threw,
\* the pool of a cite is the registered items that render to it.
PoolsMatchCites ==
    Ready => \A c \in Cites :
        ambigcites[c] = {i \in DOMAIN registry : registry[i].ambig = c}

\* registerAmbigToken and dodeletes: whatever was called and thrown before, a
\* registered item is in the pool it believes to be in, so that deleting it
\* refreshes its partners.
PoolsCoverRegistry ==
    \A i \in DOMAIN registry : i \in ambigcites[registry[i].ambig]

Class(i) == {j \in DOMAIN registry : Cite[j] = Cite[i]}

\* disYears and dorefreshes: after a call an item has a suffix just when its
\* cite is ambiguous, and those of a cite are numbered from 0 without a gap.
SuffixesNumberTheClass ==
    Returned => \A i \in DOMAIN registry :
        {registry[j].suffix : j \in Class(i)} =
            IF Cardinality(Class(i)) = 1 THEN {NoSuffix}
            ELSE 0 .. Cardinality(Class(i)) - 1

\* sorttokens and renumber: the bibliography returned is in order of its keys,
\* items with equal keys as they are listed, and seq is the place in it.
Collated ==
    Returned =>
        /\ \A p, q \in DOMAIN reflist :
              p < q /\ ~call.nosort =>
                LET a == reflist[p]
                    b == reflist[q]
                IN  \/ SortKey[a] = SortKey[b] /\
                         Last(Positions(mylist, a)) <= Last(Positions(mylist, b))
                    \/ SortKey[a] # Undefined /\ SortKey[b] = Undefined
                    \/ /\ Undefined \notin {SortKey[a], SortKey[b]}
                       /\ IF Descending THEN SortKey[a] > SortKey[b]
                          ELSE SortKey[a] < SortKey[b]
        /\ \A i \in Elements(reflist) :
              registry[i].seq = Last(Positions(reflist, i))

\* init: the items remembered as uncited are in every bibliography returned.
UncitedListed ==
    Returned => Elements(uncited) \subseteq Elements(reflist)

ReturnedTo(fn) == At("renumber") /\ call.fn = fn /\ call'.at = "returned"

Suffix(list, i) ==
    list[CHOOSE p \in DOMAIN list : list[p].id = i].suffix

Ids(list) == {list[p].id : p \in DOMAIN list}

\* cloneAmbigConfig and dorefreshes: processCitationCluster renders again the
\* cites of every item that stays and whose year suffix is not what it was.
SuffixChangesReported ==
    [][ReturnedTo("processCitationCluster") =>
        \A i \in Ids(shown) \cap Ids(shown') :
            Suffix(shown, i) # Suffix(shown', i) => i \in taintedItemIDs']_vars

Number(list, i) == Last({p \in DOMAIN list : list[p].id = i})

\* renumber: under a style that numbers its cites, an item whose number changes
\* is rendered again.
NumberChangesReported ==
    [][ReturnedTo("processCitationCluster") =>
        \A i \in Ids(shown) \cap Ids(shown') :
            Number(shown, i) # Number(shown', i) => i \in taintedItemIDs']_vars

\* The manual: bibchange "indicates whether the document bibliography is in
\* need of refreshing as a result of the changes".
BibliographyChangesReported ==
    [][ReturnedTo("processCitationCluster") =>
        (shown' # shown => bibchange')]_vars

-----------------------------------------------------------------------------
(* The bibliography this registry should return.                           *)

Promise == INSTANCE Bibliography WITH shown <- shown

\* The lists returned, with their suffixes, are those of Bibliography: they
\* depend on the items asked for, and not on the calls made before.
ReturnsWhatIsPromised == Promise!Spec
=============================================================================
