------------------------------- MODULE NameReg -------------------------------
(***************************************************************************)
(* The processor's registry of names (CSL.Registry.NameReg) at work: the   *)
(* names of cited items, the items that show each name in each of its      *)
(* three forms, and the document whose citations show them.  One step is   *)
(* one call of processCitationCluster in a style that adds given names by  *)
(* one of the rules that look at all cites (not "by-cite", for which see   *)
(* Disambiguation) and does no other disambiguation.                       *)
(*                                                                         *)
(* A name is <<family, initials, given>>, or <<family>> for one without a  *)
(* given name, and its prefixes are the keys of the registry: namereg[key] *)
(* is the "items" of that level and the number of a key's children is its  *)
(* "count", which the code raises with each child and never lowers.        *)
(*                                                                         *)
(* Abstractions: every citation has one cite, of an item that differs from *)
(* all others in more than its names; nothing sorts by name; lists that    *)
(* the code keeps as object keys are sequences in order of insertion.      *)
(***************************************************************************)
EXTENDS Integers, FiniteSets, SequencesExt

CONSTANTS
    Item,       \* the items that may be cited
    Part,       \* the parts of names: families, initials, given names
    Names,      \* Names[i]: the names of item i, in order
    Styles,     \* the styles tried: [rule, form, initialize]
    MaxCites,   \* bound: the citations of the document
    MaxRemovals \* bound: the calls that take citations out of the document

Rule == {"all-names", "primary-name", "all-names-with-initials", "primary-name-with-initials"}

ASSUME NamesAssumption ==
    /\ Names \in [Item -> Seq(Seq(Part))]
    /\ \A i \in Item : \A k \in DOMAIN Names[i] : Len(Names[i][k]) \in {1, 3}
ASSUME StylesAssumption ==
    /\ \A s \in Styles : s.rule \in Rule /\ s.form \in {"short", "long"}
    \* Initials are asked for only where the style has them.
    /\ \A s \in Styles : s.initialize \/ s.rule \in {"all-names", "primary-name"}
ASSUME BoundsAssumption == MaxCites \in Nat \ {0} /\ MaxRemovals \in Nat

VARIABLES
    style,      \* the style of this processor
    namereg,    \* key |-> the items recorded as showing the name in that form
    nameind,    \* the items whose names the registry has indexed
    registry,   \* the registered items, in order of registration
    ambig,      \* the item under whose base cite a registered item is filed
    ambigcites, \* ambigcites[i]: the items filed under the base cite of i
    document,   \* the citations: [item, forms], forms as last returned
    removals    \* history: the calls that took citations out

vars == <<style, namereg, nameind, registry, ambig, ambigcites, document, removals>>

Family(name) == SubSeq(name, 1, 1)
Initials(name) == SubSeq(name, 1, 2)

AddTo(list, item) == IF Contains(list, item) THEN list ELSE Append(list, item)
AddAll(list, items) == FoldLeft(AddTo, list, items)

\* The places of a list, and those members of a list that are in a set.
Places(list) == [k \in DOMAIN list |-> k]
Among(set, list) ==
    FoldLeft(LAMBDA some, x : IF x \in set THEN Append(some, x) ELSE some, <<>>, list)

(***************************************************************************)
(* The working state of a call: the registries, the items it has tainted   *)
(* or wants refreshed, and the forms of the names just rendered.           *)
(***************************************************************************)
Working ==
    [names |-> namereg, indexed |-> nameind, items |-> registry, pool |-> ambig,
     pools |-> ambigcites, tainted |-> <<>>, refreshes |-> <<>>, forms |-> <<>>]

------------------------------------------------------------------------------
\* addname: every level of the name is there.
addname(reg, name) ==
    [key \in DOMAIN reg \cup {SubSeq(name, 1, n) : n \in 1 .. Len(name)} |->
        IF key \in DOMAIN reg THEN reg[key] ELSE <<>>]

\* The count kept at a level.
Count(reg, key) ==
    Cardinality({child \in DOMAIN reg : Len(child) = Len(key) + 1 /\ IsPrefix(key, child)})

\* The form a name has when nothing asks for more: 0 is the family name, 1 adds
\* initials and 2 the given name.
Plain == IF style.form = "short" THEN 0 ELSE IF style.initialize THEN 1 ELSE 2

\* What the rules ask for: given names or no more than initials, of all names of
\* a cite or of the first.
GivenNames == style.rule \in {"all-names", "primary-name"}
Later(num) == num > 1 /\ style.rule \in {"primary-name", "primary-name-with-initials"}

\* Mutant: the name itself counts as one to be told apart.
ParamAlone(reg, name, num) ==
    IF Len(name) = 1 \/ Later(num) THEN Plain
    ELSE IF GivenNames /\ (Count(reg, Initials(name)) > 1 \/ ~style.initialize) THEN 2
    ELSE 1

\* The form that tells the num-th name of an item from the others registered.
Param(reg, name, num) ==
    LET families == Count(reg, Family(name))
        spelled == Count(reg, Initials(name)) > 1 \/ (families > 1 /\ ~style.initialize)
    IN  IF Len(name) = 1 \/ Later(num) THEN Plain
        ELSE IF GivenNames /\ spelled THEN 2
        ELSE IF families > 1 THEN 1
        ELSE Plain

\* Mutant: only those at the top level are tainted.
evalnameTop(w, item, name, num) ==
    LET param == Param(w.names, name, num)
    IN  IF Len(name) = 1 \/ Later(num) THEN [w EXCEPT !.forms = Append(@, param)]
        ELSE [w EXCEPT !.forms = Append(@, param),
                       !.names[SubSeq(name, 1, param + 1)] = AddTo(@, item),
                       !.tainted = AddAll(@, RemoveFirst(w.names[Family(name)], item))]

\* evalname: the items listed at the other levels of the name are tainted, and
\* the item is listed at its own; a literal or a later name leaves no record.
evalname(w, item, name, num) ==
    LET param == Param(w.names, name, num)
        own == SubSeq(name, 1, param + 1)
        others == [n \in 1 .. 3 |-> RemoveFirst(w.names[SubSeq(name, 1, n)], item)]
    IN  IF Len(name) = 1 \/ Later(num) THEN [w EXCEPT !.forms = Append(@, param)]
        ELSE [w EXCEPT !.forms = Append(@, param),
                       !.names[own] = AddTo(@, item),
                       !.tainted = FoldLeft(LAMBDA t, n : AddAll(t, others[n]), @,
                                            Among({1, 2, 3} \ {param + 1}, <<1, 2, 3>>))]

\* Rendering a cite registers and evaluates its names one after the other.
Rendered(w, item) ==
    FoldLeft(LAMBDA v, num : evalname([v EXCEPT !.names = addname(@, Names[item][num])],
                                      item, Names[item][num], num),
             [w EXCEPT !.forms = <<>>, !.indexed = @ \cup {item}],
             Places(Names[item]))

------------------------------------------------------------------------------
(***************************************************************************)
(* delitems, for one name of an item that goes: the item is taken from the *)
(* lists of the name; the only one left in a list moves up a level; those  *)
(* left are to be refreshed; and a family with less than two items listed  *)
(* under the bare name is dropped, whoever else uses it.                   *)
(***************************************************************************)
MovedUp(reg, key, item) ==
    LET left == RemoveFirst(reg[key], item)
        up == Front(key)
    IN  IF Len(left) = 1 THEN [reg EXCEPT ![up] = Append(@, left[1]), ![key] = <<>>]
        ELSE [reg EXCEPT ![key] = left]

\* The list at the top, after which the family is dropped or stays.
TopLeft(w, family, item) ==
    LET left == RemoveFirst(w.names[family], item)
    IN  [w EXCEPT !.refreshes = AddAll(@, left),
                  !.names = IF Len(left) < 2
                            THEN [key \in {k \in DOMAIN @ : ~IsPrefix(family, k)} |-> @[key]]
                            ELSE [@ EXCEPT ![family] = left]]

\* The list of given names, where the items named are those with the initials.
GivenLeft(w, name, item) ==
    IF Len(name) = 1 \/ name \notin DOMAIN w.names THEN w
    ELSE LET reg == MovedUp(w.names, name, item)
             above == reg[Initials(name)]
             n == CHOOSE n \in {Len(reg[name]), Len(above)} :
                     n <= Len(reg[name]) /\ n <= Len(above)
         IN  [w EXCEPT !.names = reg, !.refreshes = AddAll(@, SubSeq(above, 1, n))]

InitialsLeft(w, name, item) ==
    IF Len(name) = 1 \/ Initials(name) \notin DOMAIN w.names THEN w
    ELSE LET reg == MovedUp(w.names, Initials(name), item)
         IN  [w EXCEPT !.names = reg, !.refreshes = AddAll(@, reg[Initials(name)])]

delname(w, name, item) ==
    IF Family(name) \notin DOMAIN w.names THEN w
    ELSE TopLeft(InitialsLeft(GivenLeft(w, name, item), name, item), Family(name), item)

\* Mutant: the index keeps the item.
delitemsIndexed(w, item) ==
    IF item \notin w.indexed THEN w
    ELSE FoldLeft(LAMBDA v, name : delname(v, name, item), w, AddAll(<<>>, Names[item]))

delitems(w, item) ==
    IF item \notin w.indexed THEN w
    ELSE [FoldLeft(LAMBDA v, name : delname(v, name, item), w, AddAll(<<>>, Names[item]))
             EXCEPT !.indexed = @ \ {item}]

------------------------------------------------------------------------------
\* dodeletes, for one item: its names, then its place in its pool.
Deleted(w, item) ==
    LET v == delitems(w, item)
        left == RemoveFirst(v.pools[v.pool[item]], item)
    IN  [v EXCEPT !.pools[v.pool[item]] = left,
                  !.refreshes = AddAll(@, left),
                  !.items = RemoveFirst(@, item)]

\* registerAmbigToken
Filed(w, akey, item) ==
    [w EXCEPT !.pool[item] = akey, !.pools[akey] = AddTo(@, item)]

\* doinserts, for one item: its base cite is rendered before it is registered.
Inserted(w, item) ==
    [Filed(Rendered(w, item), item, item) EXCEPT !.items = Append(@, item)]

\* dorefreshes: the first item is rendered anew and tainted; the others are
\* filed under its base cite.
Refreshed(w) ==
    LET todo == Among(ToSet(w.items), w.refreshes)
        first == Rendered(w, todo[1])
        Again(v, item) ==
            [Filed(v, todo[1], item) EXCEPT !.items = Append(RemoveFirst(@, item), item)]
    IN  IF todo = <<>> THEN w
        ELSE FoldLeft(Again, [first EXCEPT !.tainted = AddTo(@, todo[1])], todo)

updateItems(w, items) ==
    LET gone == Among(ToSet(w.items) \ ToSet(items), w.items)
        new == Among(ToSet(items) \ ToSet(w.items), items)
    IN  Refreshed(FoldLeft(Inserted, FoldLeft(Deleted, w, gone), new))

------------------------------------------------------------------------------
Init ==
    /\ style \in Styles
    /\ namereg = <<>>
    /\ nameind = {}
    /\ registry = <<>>
    /\ ambig = [i \in Item |-> i]
    /\ ambigcites = [i \in Item |-> <<>>]
    /\ document = <<>>
    /\ removals = 0

\* Mutant: only the edited citation is rendered.
TurnsOwn(tainted, cites, at) == <<at>>

\* The citations re-rendered: those of tainted items in the order of tainting,
\* then the edited one.
Turns(tainted, cites, at) ==
    LET of == [item \in Item |->
                  Among({k \in DOMAIN cites \ {at} : cites[k].item = item}, Places(cites))]
    IN  FoldLeft(LAMBDA turns, item : turns \o of[item], <<>>, tainted) \o <<at>>

\* The document after the call, with the working state it leaves.
Returned(w, cites, at) ==
    FoldLeft(LAMBDA r, k : LET v == Rendered(r.state, r.cites[k].item)
                           IN  [state |-> v, cites |-> [r.cites EXCEPT ![k].forms = v.forms]],
             [state |-> w, cites |-> cites],
             Turns(w.tainted, cites, at))

\* The caller cites an item at a place of the document and lists the citations
\* that are to stay.
processCitationCluster(item, kept, at) ==
    LET cites == InsertAt(kept, at, [item |-> item, forms |-> <<>>])
        items == AddAll(<<>>, [k \in DOMAIN cites |-> cites[k].item])
    IN  \E r \in {Returned(updateItems(Working, items), cites, at)} :
            /\ namereg' = r.state.names
            /\ nameind' = r.state.indexed
            /\ registry' = r.state.items
            /\ ambig' = r.state.pool
            /\ ambigcites' = r.state.pools
            /\ document' = r.cites
            /\ UNCHANGED style

Without(places) ==
    LET stay == Among(DOMAIN document \ places, Places(document))
    IN  [n \in DOMAIN stay |-> document[stay[n]]]

\* A citation is added, or put in the place of others.
Next ==
    \E item \in Item, out \in SUBSET DOMAIN document :
        LET kept == Without(out)
        IN  /\ Len(kept) < MaxCites
            /\ removals' = IF out = {} THEN removals ELSE removals + 1
            /\ removals' <= MaxRemovals
            /\ \E at \in 1 .. Len(kept) + 1 : processCitationCluster(item, kept, at)

Spec == Init /\ [][Next]_vars

------------------------------------------------------------------------------
\* The values of the variables, and that the registries speak of the same items.
TypeOK ==
    /\ style \in Styles
    /\ \A key \in DOMAIN namereg :
          /\ Len(key) \in 1 .. 3
          /\ namereg[key] \in Seq(Item)
          /\ \A n \in 1 .. Len(key) : SubSeq(key, 1, n) \in DOMAIN namereg
    /\ nameind = ToSet(registry)
    /\ ToSet(registry) = {document[k].item : k \in DOMAIN document}
    /\ \A i \in ToSet(registry) : ambig[i] \in Item /\ Contains(ambigcites[ambig[i]], i)
    /\ \A k \in DOMAIN document : DOMAIN document[k].forms = DOMAIN Names[document[k].item]

\* What a citation prints of a name in a form.
Printed(name, form) ==
    CASE form = 0 \/ Len(name) = 1 -> Family(name)
      [] form = 1 -> Initials(name)
      [] form = 2 -> name

\* The most that the style lets names show.
Most(name) == IF GivenNames THEN name ELSE Initials(name)

\* The names on show that the style's rule looks at: [name, form].
OnShow ==
    UNION {LET names == Names[cite.item]
           IN  {[name |-> names[n], form |-> cite.forms[n]] :
                   n \in {n \in DOMAIN names : Len(names[n]) = 3 /\ ~Later(n)}} :
           cite \in ToSet(document)}

(***************************************************************************)
(* No name on show could stand for another person on show: where the rule  *)
(* of the style can tell two names apart, what is printed of one does not  *)
(* also begin the other, whichever of their citations was rendered first.  *)
(***************************************************************************)
NamesStayApart ==
    \A a, b \in OnShow :
        Most(a.name) # Most(b.name) => ~IsPrefix(Printed(a.name, a.form), b.name)

(***************************************************************************)
(* So it is as long as citations are only added: registering a name taints *)
(* all items that show a name it could be taken for.                       *)
(***************************************************************************)
NamesApart == removals = 0 => NamesStayApart

(***************************************************************************)
(* Then also one person looks the same in every citation, whenever it was  *)
(* rendered, under the rules that look at all names.  (Under those for     *)
(* primary names a later author can raise the count of a family without    *)
(* tainting anybody, and one item is printed in two ways.)                 *)
(***************************************************************************)
OneForm ==
    removals = 0 /\ style.rule \in {"all-names", "all-names-with-initials"} =>
        \A a, b \in OnShow : a.name = b.name => a.form = b.form

(***************************************************************************)
(* And a given name or an initial is shown only on account of another name *)
(* of that family, and a given name, in a style with initials, of one that *)
(* has the same initials.                                                  *)
(***************************************************************************)
NotMoreThanNeeded ==
    removals = 0 =>
        \A a \in OnShow : a.form > Plain =>
            \E i \in ToSet(registry) : \E other \in ToSet(Names[i]) :
                /\ other # a.name
                /\ Len(other) = 3
                /\ Family(other) = Family(a.name)
                /\ a.form = 2 /\ style.initialize => Initials(other) = Initials(a.name)

==============================================================================
