----------------------------- MODULE Bibliography -----------------------------
(***************************************************************************)
(* What updateItems of citeproc-js promises its caller, whatever was       *)
(* called before: the items of the list, in order of the style's sort and  *)
(* of the list where it does not tell them apart, and on the items whose   *)
(* cites look alike a year suffix, counted in the same order.              *)
(***************************************************************************)
EXTENDS Integers, Sequences, FiniteSets

CONSTANTS
    Item,        \* the ids of items
    Cite,        \* Cite[i]: what item i renders to without a suffix
    SortKey,     \* SortKey[i]: a number, or Undefined
    Undefined,   \* no sort key: the item is last
    Descending,  \* the direction of the sort
    Lists,       \* the lists asked for
    NoSortFlags  \* whether the list is returned as it is

VARIABLE
    shown        \* the bibliography: entries with an id and a suffix

NoSuffix == -1

Listed(list) == {list[p] : p \in DOMAIN list}
Place(list, i) == CHOOSE p \in DOMAIN list :
    list[p] = i /\ \A q \in DOMAIN list : list[q] = i => q <= p

Precedes(list, i, j) ==
    IF SortKey[i] = SortKey[j] THEN Place(list, i) < Place(list, j)
    ELSE IF Undefined \in {SortKey[i], SortKey[j]} THEN SortKey[j] = Undefined
    ELSE IF Descending THEN SortKey[i] > SortKey[j]
    ELSE SortKey[i] < SortKey[j]

\* Duplicates stay, side by side.
IsSorted(list, s) ==
    /\ DOMAIN s = DOMAIN list
    /\ \A i \in Listed(list) :
          Cardinality({p \in DOMAIN s : s[p] = i}) =
              Cardinality({p \in DOMAIN list : list[p] = i})
    /\ \A p, q \in DOMAIN s : p < q => ~Precedes(list, s[q], s[p])

Suffix(list, i) ==
    LET alike == {j \in Listed(list) : Cite[j] = Cite[i]}
    IN  IF alike = {i} THEN NoSuffix
        ELSE Cardinality({j \in alike : Precedes(list, j, i)})

Entries(s, list) ==
    [p \in DOMAIN s |-> [id |-> s[p], suffix |-> Suffix(list, s[p])]]

Init == shown = <<>>

updateItems(list, nosort) ==
    IF nosort THEN shown' = Entries(list, list)
    ELSE \E s \in [DOMAIN list -> Listed(list)] :
            IsSorted(list, s) /\ shown' = Entries(s, list)

Next == \E list \in Lists, nosort \in NoSortFlags \cup {FALSE} :
            updateItems(list, nosort)

Spec == Init /\ [][Next]_shown
=============================================================================
