------------------------- MODULE ItemRegistryProofs -------------------------
(***************************************************************************)
(* Proofs about ItemRegistry, for any items, cites, sort keys and lists    *)
(* and whatever sys.retrieveItem throws on: type correctness; a registered *)
(* item is in the pool it believes to be in, which the refreshes of        *)
(* dodeletes rely on; uncited items stay listed; what is registered is     *)
(* what is listed, as long as updateUncitedItems is not called; and what   *)
(* the calls return: a bibliography in order of its keys, the changes      *)
(* processCitationCluster is told of, and, where no two look-alikes have   *)
(* equal keys, just the list and suffixes that Bibliography promises,      *)
(* whatever was called before.                                             *)
(***************************************************************************)
EXTENDS ItemRegistry, FiniteSetTheorems, WellFoundedInduction, TLAPS

-----------------------------------------------------------------------------
(* The inductive invariant. *)

Methods == {"dodeletes", "doinserts", "douncited", "dorefreshes",
            "rebuildlist", "setsortkeys", "setdisambigs", "sorttokens",
            "renumber", "reset"}

Functions == {"none", "updateItems", "updateUncitedItems",
              "processCitationCluster", "restoreProcessorState"}

\* What every step of every call keeps.
StateInv ==
    /\ DOMAIN registry \subseteq Item
    /\ \A i \in DOMAIN registry : registry[i] \in Token
    /\ ambigcites \in [Cites -> SUBSET Item]
    /\ akeys \subseteq Cites
    /\ mylist \in Seq(Item) /\ uncited \in Seq(Item) /\ reflist \in Seq(Item)
    /\ refreshes \subseteq Item
    /\ touched \subseteq Item
    /\ taintedItemIDs \subseteq Item

\* What holds between the methods of a call.
CallInv ==
    /\ call \in [fn : Functions, at : Methods \cup {"returned", "threw"},
                 nosort : BOOLEAN, todo : SUBSET Cites]
    /\ call.at \in {"dodeletes", "doinserts"} => touched = {}
    /\ call.at \in Methods \ {"dodeletes", "doinserts"} =>
          Elements(mylist) \subseteq DOMAIN registry
    /\ call.at \in {"douncited", "dorefreshes", "rebuildlist", "setsortkeys"} =>
          touched \subseteq DOMAIN registry

IInv == StateInv /\ CallInv /\ PoolsCoverRegistry

-----------------------------------------------------------------------------
(* Numbers, lists and tokens. *)

\* A set of numbers that is bounded has a last one.
LEMMA LastExists ==
    ASSUME NEW n \in Nat, NEW P \in SUBSET (1 .. n), P # {}
    PROVE  Last(P) \in P
  <1> DEFINE T == {n - p : p \in P}
  <1>1. T \subseteq Nat
    <2>1. \A p \in 1 .. n : n - p \in Nat
      OBVIOUS
    <2>2. \A p \in P : p \in 1 .. n
      OBVIOUS
    <2>3. QED
      BY <2>1, <2>2
  <1>2. T # {}
    OBVIOUS
  <1>3. PICK t \in T : \A s \in T : ~(<<s, t>> \in OpToRel(<, Nat))
    BY <1>1, <1>2, NatLessThanWellFounded, WFMin
  <1>4. \A s \in T : ~(s < t)
    BY <1>1, <1>3 DEF OpToRel
  <1>5. PICK p \in P : t = n - p
    OBVIOUS
  <1>6. \A q \in P : q <= p
    <2>1. SUFFICES ASSUME NEW q \in P PROVE q <= p
      OBVIOUS
    <2>2. ~(n - q < n - p)
      BY <1>4, <1>5
    <2>3. p \in 1 .. n /\ q \in 1 .. n
      OBVIOUS
    <2>4. p \in Int /\ q \in Int /\ n \in Int
      BY <2>3
    <2>5. QED
      BY <2>2, <2>4
  <1>7. QED
    BY <1>6 DEF Last

\* The last place of an item that is in a list is a number.
LEMMA LastPosition ==
    ASSUME NEW s \in Seq(Item), NEW i \in Elements(s)
    PROVE  Last(Positions(s, i)) \in Nat
  <1>1. Len(s) \in Nat /\ Positions(s, i) \in SUBSET (1 .. Len(s))
    BY DEF Positions
  <1>2. Positions(s, i) # {}
    BY DEF Positions, Elements
  <1>3. Last(Positions(s, i)) \in Positions(s, i)
    BY <1>1, <1>2, LastExists
  <1>4. QED
    BY <1>1, <1>3

\* Elements of a list of items are items.
LEMMA ElementsAreItems ==
    ASSUME NEW s \in Seq(Item)
    PROVE  Elements(s) \subseteq Item
  BY DEF Elements

\* A new list of items: what init appends for updateUncitedItems.
LEMMA AppendedPlaces ==
    ASSUME NEW s \in Seq(Item), NEW list \in Seq(Item),
           NEW S \in SUBSET (DOMAIN list), NEW new \in InOrder(S)
    PROVE  s \o [k \in DOMAIN new |-> list[new[k]]] \in Seq(Item)
  <1>1. IsFiniteSet(DOMAIN list)
    <2>1. DOMAIN list = 1 .. Len(list) /\ Len(list) \in Nat
      OBVIOUS
    <2>2. QED
      BY <2>1, FS_Interval
  <1>2. Cardinality(S) \in Nat
    BY <1>1, FS_Subset, FS_CardinalityType
  <1>3. DOMAIN new = 1 .. Cardinality(S) /\ \A k \in DOMAIN new : new[k] \in DOMAIN list
    BY DEF InOrder
  <1> DEFINE tail == [k \in DOMAIN new |-> list[new[k]]]
  <1>4. tail \in [1 .. Cardinality(S) -> Item]
    BY <1>3
  <1>5. tail \in Seq(Item)
    BY <1>2, <1>4
  <1>6. QED
    BY <1>5

\* Whatever the methods assign to its fields, a token stays one.
LEMMA FieldTypes ==
    ASSUME NEW t \in Token
    PROVE  /\ t.ambig \in Cites
           /\ \A n \in Nat : [t EXCEPT !.seq = n] \in Token
           /\ [t EXCEPT !.sortkeys = TRUE] \in Token
           /\ \A b \in BOOLEAN : [t EXCEPT !.uncited = b] \in Token
           /\ \A c \in Cites : [t EXCEPT !.ambig = c] \in Token
           /\ \A c \in Cites, n \in Nat :
                 [t EXCEPT !.ambig = c, !.suffix = n] \in Token
           /\ \A c \in Cites :
                 [t EXCEPT !.ambig = c, !.suffix = NoSuffix,
                           !.sortkeys = FALSE] \in Token
  BY DEF Token

-----------------------------------------------------------------------------
(* Each step keeps the invariant. *)

LEMMA InitInv == Init => IInv
  <1> SUFFICES ASSUME Init PROVE IInv
    OBVIOUS
  <1>1. <<>> \in Seq(Item) /\ DOMAIN <<>> = {}
    OBVIOUS
  <1>2. StateInv
    BY <1>1 DEF Init, StateInv
  <1>3. CallInv
    BY DEF Init, CallInv, Methods, Functions
  <1>4. PoolsCoverRegistry
    BY <1>1 DEF Init, PoolsCoverRegistry
  <1>5. QED
    BY <1>2, <1>3, <1>4 DEF IInv

\* init, whichever call makes it: the list is one of items.
LEMMA InitMethodInv ==
    ASSUME IInv, NEW list \in Seq(Item), NEW flag \in BOOLEAN, init(list, flag),
           taintedItemIDs' \subseteq Item, NEW fn \in Functions,
           NEW nosort \in BOOLEAN, NEW at \in {"dodeletes", "doinserts"},
           call' = [fn |-> fn, at |-> at, nosort |-> nosort, todo |-> {}]
    PROVE  IInv'
  <1>1. mylist' \in Seq(Item) /\ uncited' \in Seq(Item)
    <2>1. NewPlaces(list) \in SUBSET (DOMAIN list)
      BY DEF NewPlaces
    <2>2. CASE \E new \in InOrder(NewPlaces(list)) :
                  mylist' = mylist \o [k \in DOMAIN new |-> list[new[k]]]
      <3>1. mylist' \in Seq(Item)
        BY <2>1, <2>2, AppendedPlaces DEF IInv, StateInv
      <3>2. QED
        BY <3>1 DEF init, IInv, StateInv
    <2>3. CASE mylist' = list \o uncited
      BY <2>3 DEF init, IInv, StateInv
    <2>4. QED
      BY <2>2, <2>3 DEF init, WithUncited
  <1>2. StateInv'
    BY <1>1 DEF init, IInv, StateInv, pools
  <1>3. CallInv'
    BY DEF CallInv, Methods, init
  <1>4. PoolsCoverRegistry'
    BY DEF IInv, PoolsCoverRegistry, init, pools
  <1>5. QED
    BY <1>2, <1>3, <1>4 DEF IInv

LEMMA CallsInv ==
    ASSUME IInv,
           \/ \E list \in Lists, nosort \in NoSortFlags : UpdateItems(list, nosort)
           \/ \E list \in Lists : ClusterUpdate(list)
           \/ \E list \in UncitedLists, nosort \in NoSortFlags :
                 UpdateUncitedItems(list, nosort)
           \/ RestoreEmptyState
    PROVE  IInv'
  <1>1. taintedItemIDs \subseteq Item
    BY DEF IInv, StateInv
  <1>2. CASE \E list \in Lists, nosort \in NoSortFlags : UpdateItems(list, nosort)
    <2>1. PICK list \in Lists, nosort \in NoSortFlags : UpdateItems(list, nosort)
      BY <1>2
    <2>2. list \in Seq(Item) /\ nosort \in BOOLEAN
      BY BoundAssumption
    <2>3. call' = [fn |-> "updateItems", at |-> "dodeletes", nosort |-> nosort,
                   todo |-> {}]
      BY <2>1 DEF UpdateItems, Begin
    <2>4. init(list, FALSE) /\ taintedItemIDs' \subseteq Item
      BY <2>1, <1>1 DEF UpdateItems, changes
    <2>5. QED
      BY <2>2, <2>3, <2>4, InitMethodInv DEF Functions
  <1>3. CASE \E list \in Lists : ClusterUpdate(list)
    <2>1. PICK list \in Lists : ClusterUpdate(list)
      BY <1>3
    <2>2. list \in Seq(Item)
      BY BoundAssumption
    <2>3. call' = [fn |-> "processCitationCluster", at |-> "dodeletes",
                   nosort |-> FALSE, todo |-> {}]
      BY <2>1 DEF ClusterUpdate, Begin
    <2>4. init(list, FALSE) /\ taintedItemIDs' \subseteq Item
      BY <2>1 DEF ClusterUpdate
    <2>5. QED
      BY <2>2, <2>3, <2>4, InitMethodInv DEF Functions
  <1>4. CASE \E list \in UncitedLists, nosort \in NoSortFlags :
                 UpdateUncitedItems(list, nosort)
    <2>1. PICK list \in UncitedLists, nosort \in NoSortFlags :
                 UpdateUncitedItems(list, nosort)
      BY <1>4
    <2>2. list \in Seq(Item) /\ nosort \in BOOLEAN
      BY BoundAssumption
    <2>3. call' = [fn |-> "updateUncitedItems", at |-> "doinserts",
                   nosort |-> nosort, todo |-> {}]
      BY <2>1 DEF UpdateUncitedItems, Begin
    <2>4. init(list, TRUE) /\ taintedItemIDs' \subseteq Item
      BY <2>1, <1>1 DEF UpdateUncitedItems, changes
    <2>5. QED
      BY <2>2, <2>3, <2>4, InitMethodInv DEF Functions
  <1>5. CASE RestoreEmptyState
    <2>1. <<>> \in Seq(Item)
      OBVIOUS
    <2>2. call' = [fn |-> "restoreProcessorState", at |-> "dodeletes",
                   nosort |-> FALSE, todo |-> {}]
      BY <1>5 DEF RestoreEmptyState, Begin
    <2>3. init(<<>>, FALSE) /\ taintedItemIDs' \subseteq Item
      BY <1>5, <1>1 DEF RestoreEmptyState, changes
    <2>4. QED
      BY <2>1, <2>2, <2>3, InitMethodInv DEF Functions
  <1>6. QED
    BY <1>2, <1>3, <1>4, <1>5

\* Deleting takes an item out of the one pool it believes to be in.
LEMMA DeletesInv ==
    ASSUME IInv, dodeletes
    PROVE  IInv'
  <1>1. \A i \in DOMAIN registry' : i \in DOMAIN registry /\ i \notin Deleted
                                    /\ registry'[i] = registry[i]
    BY DEF dodeletes
  <1>2. \A c \in Cites : Left(c) \subseteq Item
    BY DEF Left, IInv, StateInv
  <1>3. StateInv'
    <2>1. refreshes' \subseteq Item
      <3>1. \A i \in Deleted : registry[i].ambig \in Cites
        BY FieldTypes DEF Deleted, IInv, StateInv
      <3>2. QED
        BY <1>2, <3>1 DEF dodeletes
    <2>2. ambigcites' \in [Cites -> SUBSET Item]
      BY <1>2 DEF dodeletes
    <2>3. QED
      BY <1>1, <2>1, <2>2 DEF dodeletes, IInv, StateInv
  <1>4. CallInv'
    BY DEF dodeletes, At, Continue, IInv, CallInv, Methods
  <1>5. PoolsCoverRegistry'
    <2>1. SUFFICES ASSUME NEW i \in DOMAIN registry'
                   PROVE  i \in ambigcites'[registry'[i].ambig]
      BY DEF PoolsCoverRegistry
    <2>2. i \in ambigcites[registry[i].ambig] /\ registry[i].ambig \in Cites
      BY <1>1, FieldTypes DEF IInv, StateInv, PoolsCoverRegistry
    <2>3. i \in Left(registry[i].ambig)
      BY <1>1, <2>2 DEF Left
    <2>4. QED
      BY <1>1, <2>2, <2>3 DEF dodeletes
  <1>6. QED
    BY <1>3, <1>4, <1>5 DEF IInv

\* An inserted item joins the pool of its cite, and the whole list is
\* registered unless an item could not be retrieved.
LEMMA InsertsInv ==
    ASSUME IInv, doinserts
    PROVE  IInv'
  <1> DEFINE new == {p \in DOMAIN mylist : mylist[p] \notin DOMAIN registry}
             failing == {p \in new : mylist[p] \in Missing}
             inserted == {mylist[p] : p \in {q \in new : \A f \in failing : q < f}}
  <1>1. /\ At("doinserts")
        /\ registry' = [i \in DOMAIN registry \cup inserted |->
                  IF i \in inserted THEN NewToken(i) ELSE registry[i]]
        /\ ambigcites' = [c \in Cites |->
                  ambigcites[c] \cup {i \in inserted : Cite[i] = c}]
        /\ akeys' = akeys \cup {Cite[i] : i \in inserted}
        /\ touched' = touched \cup inserted
        /\ Continue(IF failing # {} THEN "threw"
                       ELSE IF call.fn = "updateUncitedItems" THEN "douncited"
                       ELSE "dorefreshes")
        /\ UNCHANGED <<mylist, uncited, reflist, refreshes, taintedItemIDs>>
    BY DEF doinserts
  <1>2. inserted \subseteq Item
    BY DEF IInv, StateInv
  <1>3. \A i \in inserted : Cite[i] \in Cites /\ NewToken(i) \in Token
    BY <1>2 DEF Cites, NewToken, Token
  <1> HIDE DEF new, failing, inserted
  <1>4. StateInv'
    <2>1. DOMAIN registry' \subseteq Item
      BY <1>1, <1>2 DEF IInv, StateInv
    <2>2. \A i \in DOMAIN registry' : registry'[i] \in Token
      BY <1>1, <1>3 DEF IInv, StateInv
    <2>3. ambigcites' \in [Cites -> SUBSET Item]
      BY <1>1, <1>2 DEF IInv, StateInv
    <2>4. QED
      BY <1>1, <1>2, <1>3, <2>1, <2>2, <2>3 DEF IInv, StateInv
  <1>5. CallInv'
    <2>1. touched = {}
      BY <1>1 DEF At, IInv, CallInv
    <2>2. touched' \subseteq DOMAIN registry'
      BY <1>1, <2>1
    <2>3. failing = {} => Elements(mylist') \subseteq DOMAIN registry'
      <3>1. SUFFICES ASSUME failing = {}, NEW p \in DOMAIN mylist
                     PROVE  mylist[p] \in DOMAIN registry'
        BY <1>1 DEF Elements
      <3>2. CASE p \in new
        BY <1>1, <3>1, <3>2 DEF inserted
      <3>3. CASE p \notin new
        BY <1>1, <3>3 DEF new
      <3>4. QED
        BY <3>2, <3>3
    <2>4. QED
      BY <1>1, <2>2, <2>3 DEF Continue, At, IInv, CallInv, Methods
  <1>6. PoolsCoverRegistry'
    <2>1. SUFFICES ASSUME NEW i \in DOMAIN registry'
                   PROVE  i \in ambigcites'[registry'[i].ambig]
      BY DEF PoolsCoverRegistry
    <2>2. CASE i \in inserted
      <3>1. registry'[i].ambig = Cite[i]
        BY <1>1, <2>2 DEF NewToken
      <3>2. QED
        BY <1>1, <1>3, <2>2, <3>1
    <2>3. CASE i \notin inserted
      <3>1. i \in DOMAIN registry /\ registry'[i] = registry[i]
        BY <1>1, <2>3
      <3>2. registry[i].ambig \in Cites /\ i \in ambigcites[registry[i].ambig]
        BY <3>1, FieldTypes DEF IInv, StateInv, PoolsCoverRegistry
      <3>3. QED
        BY <1>1, <3>1, <3>2
    <2>4. QED
      BY <2>2, <2>3
  <1>7. QED
    BY <1>4, <1>5, <1>6 DEF IInv

\* A step that changes neither pools nor the ambig fields of tokens.
LEMMA TokensInv ==
    ASSUME IInv, DOMAIN registry' = DOMAIN registry, ambigcites' = ambigcites,
           \A i \in DOMAIN registry : registry'[i].ambig = registry[i].ambig
    PROVE  PoolsCoverRegistry'
  BY DEF IInv, PoolsCoverRegistry

LEMMA UncitedInv ==
    ASSUME IInv, douncited
    PROVE  IInv'
  <1>1. \A i \in DOMAIN registry : \/ registry'[i] = registry[i]
                                   \/ \E b \in BOOLEAN :
                                        registry'[i] = [registry[i] EXCEPT !.uncited = b]
    BY DEF douncited
  <1>2. DOMAIN registry' = DOMAIN registry
    BY DEF douncited
  <1>3. \A i \in DOMAIN registry : /\ registry'[i] \in Token
                                   /\ registry'[i].ambig = registry[i].ambig
    <2>1. SUFFICES ASSUME NEW i \in DOMAIN registry
                   PROVE  /\ registry'[i] \in Token
                          /\ registry'[i].ambig = registry[i].ambig
      OBVIOUS
    <2>2. registry[i] \in Token
      BY DEF IInv, StateInv
    <2>3. \A b \in BOOLEAN : [registry[i] EXCEPT !.uncited = b].ambig
                                = registry[i].ambig
      BY <2>2 DEF Token
    <2>4. QED
      BY <1>1, <2>2, <2>3, FieldTypes
  <1>4. StateInv'
    BY <1>2, <1>3 DEF douncited, IInv, StateInv, pools, changes
  <1>5. CallInv'
    BY <1>2 DEF douncited, At, Throw, Continue, IInv, CallInv, Methods
  <1>6. PoolsCoverRegistry'
    BY <1>2, <1>3, TokensInv DEF douncited, pools
  <1>7. QED
    BY <1>4, <1>5, <1>6 DEF IInv

\* Items left in the pools of deleted ones move to the pool of one cite.
LEMMA RefreshesInv ==
    ASSUME IInv, dorefreshes
    PROVE  IInv'
  <1>1. CallInv'
    BY DEF dorefreshes, At, Continue, IInv, CallInv, Methods, Refreshed
  <1>2. CASE UNCHANGED <<registry, pools, touched, taintedItemIDs>>
    BY <1>1, <1>2 DEF dorefreshes, IInv, StateInv, PoolsCoverRegistry, pools
  <1>3. ASSUME NEW first \in Refreshed,
               registry' = [i \in DOMAIN registry |->
                    IF i \in Refreshed
                    THEN [registry[i] EXCEPT !.ambig = Cite[first],
                             !.suffix = NoSuffix, !.sortkeys = FALSE]
                    ELSE registry[i]],
               ambigcites' = Pooled(Cite[first], Refreshed),
               akeys' = akeys \cup {Cite[first]},
               touched' = touched \cup Refreshed,
               taintedItemIDs' = Tainted({first})
        PROVE  IInv'
    <2>1. Refreshed \subseteq DOMAIN registry /\ DOMAIN registry \subseteq Item
      BY DEF Refreshed, IInv, StateInv
    <2>2. Cite[first] \in Cites
      BY <2>1 DEF Cites
    <2>3. \A i \in DOMAIN registry : registry'[i] \in Token
      BY <1>3, <2>2, FieldTypes DEF IInv, StateInv
    <2>4. /\ ambigcites' \in [Cites -> SUBSET Item]
          /\ \A c \in Cites : ambigcites[c] \subseteq ambigcites'[c]
          /\ Refreshed \subseteq ambigcites'[Cite[first]]
      BY <1>3, <2>1, <2>2 DEF Pooled, IInv, StateInv
    <2>5. StateInv'
      <3>1. UNCHANGED <<mylist, uncited, reflist, refreshes>>
        BY DEF dorefreshes
      <3>2. DOMAIN registry' = DOMAIN registry
        BY <1>3
      <3>3. taintedItemIDs' \subseteq Item
        BY <1>3, <2>1 DEF Tainted, IInv, StateInv
      <3>4. akeys' \subseteq Cites /\ touched' \subseteq Item
        BY <1>3, <2>1, <2>2 DEF IInv, StateInv
      <3>5. QED
        BY <2>1, <2>3, <2>4, <3>1, <3>2, <3>3, <3>4 DEF StateInv, IInv
    <2>6. PoolsCoverRegistry'
      <3>1. SUFFICES ASSUME NEW i \in DOMAIN registry
                     PROVE  i \in ambigcites'[registry'[i].ambig]
        BY <1>3 DEF PoolsCoverRegistry
      <3>2. registry[i] \in Token /\ registry[i].ambig \in Cites
        BY FieldTypes DEF IInv, StateInv
      <3>3. CASE i \in Refreshed
        <4>1. registry'[i].ambig = Cite[first]
          BY <1>3, <3>2, <3>3 DEF Token
        <4>2. QED
          BY <2>4, <3>3, <4>1
      <3>4. CASE i \notin Refreshed
        BY <1>3, <2>4, <3>2, <3>4 DEF IInv, PoolsCoverRegistry
      <3>5. QED
        BY <3>3, <3>4
    <2>7. QED
      BY <1>1, <2>5, <2>6 DEF IInv
  <1>4. QED
    BY <1>2, <1>3 DEF dorefreshes, pools

\* Numbering a list of items, as rebuildlist and renumber do.
LEMMA NumberingTokens ==
    ASSUME StateInv, NEW s \in Seq(Item),
           registry' = [i \in DOMAIN registry |->
               IF i \in Elements(s)
               THEN [registry[i] EXCEPT !.seq = Last(Positions(s, i))]
               ELSE registry[i]]
    PROVE  /\ DOMAIN registry' = DOMAIN registry
           /\ \A i \in DOMAIN registry : registry'[i] \in Token
           /\ \A i \in DOMAIN registry : registry'[i].ambig = registry[i].ambig
  <1>1. SUFFICES ASSUME NEW i \in DOMAIN registry
                 PROVE  /\ registry'[i] \in Token
                        /\ registry'[i].ambig = registry[i].ambig
    OBVIOUS
  <1>2. registry[i] \in Token
    BY DEF StateInv
  <1>3. CASE i \in Elements(s)
    <2>1. PICK n \in Nat : registry'[i] = [registry[i] EXCEPT !.seq = n]
      BY <1>3, LastPosition
    <2>2. [registry[i] EXCEPT !.seq = n].ambig = registry[i].ambig
      BY <1>2 DEF Token
    <2>3. QED
      BY <1>2, <2>1, <2>2, FieldTypes
  <1>4. CASE i \notin Elements(s)
    BY <1>2, <1>4
  <1>5. QED
    BY <1>3, <1>4

LEMMA RebuildInv ==
    ASSUME IInv, rebuildlist
    PROVE  IInv'
  <1>1. mylist \in Seq(Item) /\ StateInv
    BY DEF IInv, StateInv
  <1>2. registry' = [i \in DOMAIN registry |->
           IF i \in Elements(mylist)
           THEN [registry[i] EXCEPT !.seq = Last(Positions(mylist, i))]
           ELSE registry[i]]
    BY DEF rebuildlist
  <1>3. /\ DOMAIN registry' = DOMAIN registry
        /\ \A i \in DOMAIN registry : registry'[i] \in Token
        /\ \A i \in DOMAIN registry : registry'[i].ambig = registry[i].ambig
    BY <1>1, <1>2, NumberingTokens
  <1>4. StateInv'
    BY <1>3 DEF rebuildlist, IInv, StateInv, pools, changes
  <1>5. CallInv'
    BY <1>3 DEF rebuildlist, At, Continue, IInv, CallInv, Methods
  <1>6. PoolsCoverRegistry'
    BY <1>3, TokensInv DEF rebuildlist, pools
  <1>7. QED
    BY <1>4, <1>5, <1>6 DEF IInv

LEMMA SortKeysInv ==
    ASSUME IInv, setsortkeys
    PROVE  IInv'
  <1>1. DOMAIN registry' = DOMAIN registry
    BY DEF setsortkeys
  <1>2. \A i \in DOMAIN registry : /\ registry'[i] \in Token
                                   /\ registry'[i].ambig = registry[i].ambig
    <2>1. SUFFICES ASSUME NEW i \in DOMAIN registry
                   PROVE  /\ registry'[i] \in Token
                          /\ registry'[i].ambig = registry[i].ambig
      OBVIOUS
    <2>2. registry[i] \in Token
      BY DEF IInv, StateInv
    <2>3. [registry[i] EXCEPT !.sortkeys = TRUE].ambig = registry[i].ambig
      BY <2>2 DEF Token
    <2>4. QED
      BY <2>2, <2>3, FieldTypes DEF setsortkeys
  <1>3. StateInv'
    BY <1>1, <1>2 DEF setsortkeys, IInv, StateInv, pools, changes
  <1>4. CallInv'
    BY <1>1 DEF setsortkeys, At, IInv, StateInv, CallInv, Methods
  <1>5. PoolsCoverRegistry'
    BY <1>1, <1>2, TokensInv DEF setsortkeys, pools
  <1>6. QED
    BY <1>3, <1>4, <1>5 DEF IInv

\* disYears gives suffixes to registered members of the pool, and with them the
\* pool as the one they are in.
LEMMA DisYearsTokens ==
    ASSUME IInv, NEW akey \in Cites, NEW ids \in InOrder(ambigcites[akey]),
           NEW tokens \in Arrangements(ambigcites[akey] \cap DOMAIN registry),
           disYears(akey, ids, tokens)
    PROVE  /\ DOMAIN registry' = DOMAIN registry
           /\ \A i \in DOMAIN registry :
                 /\ registry'[i] \in Token
                 /\ i \in ambigcites[registry'[i].ambig]
           /\ taintedItemIDs' \subseteq Item
  <1>1. DOMAIN registry' = DOMAIN registry
    BY DEF disYears
  <1>2. /\ DOMAIN tokens \subseteq Nat \ {0}
        /\ Elements(tokens) \subseteq ambigcites[akey]
    <2>1. /\ DOMAIN tokens = 1 .. Cardinality(ambigcites[akey] \cap DOMAIN registry)
          /\ \A p \in DOMAIN tokens : tokens[p] \in ambigcites[akey]
      BY DEF Arrangements
    <2>2. Cardinality(ambigcites[akey] \cap DOMAIN registry) \in Nat
      BY ItemAssumption, FS_Subset, FS_CardinalityType DEF IInv, StateInv
    <2>3. DOMAIN tokens \subseteq Nat \ {0}
      BY <2>1, <2>2
    <2>4. Elements(tokens) \subseteq ambigcites[akey]
      BY <2>1 DEF Elements
    <2>5. QED
      BY <2>3, <2>4
  <1>3. ASSUME NEW i \in DOMAIN registry
        PROVE  registry'[i] \in Token /\ i \in ambigcites[registry'[i].ambig]
    <2>1. registry[i] \in Token /\ i \in ambigcites[registry[i].ambig]
      BY DEF IInv, StateInv, PoolsCoverRegistry
    <2>2. \/ registry'[i] = registry[i]
          \/ /\ i \in Elements(tokens)
             /\ \/ registry'[i] = [registry[i] EXCEPT !.ambig = akey]
                \/ registry'[i] = [registry[i] EXCEPT !.ambig = akey,
                                       !.suffix = SuffixOf(tokens, i)]
      BY DEF disYears
    <2>3. i \in Elements(tokens) => SuffixOf(tokens, i) \in Nat
      BY <1>2 DEF SuffixOf, Elements
    <2>4. \A n \in Nat :
            /\ [registry[i] EXCEPT !.ambig = akey].ambig = akey
            /\ [registry[i] EXCEPT !.ambig = akey, !.suffix = n].ambig = akey
      BY <2>1 DEF Token
    <2>5. CASE registry'[i] = registry[i]
      BY <2>1, <2>5
    <2>6. CASE /\ i \in Elements(tokens)
               /\ registry'[i] = [registry[i] EXCEPT !.ambig = akey]
      BY <1>2, <2>1, <2>4, <2>6, FieldTypes
    <2>7. CASE /\ i \in Elements(tokens)
               /\ registry'[i] = [registry[i] EXCEPT !.ambig = akey,
                                       !.suffix = SuffixOf(tokens, i)]
      <3>1. PICK n \in Nat : n = SuffixOf(tokens, i)
        BY <2>3, <2>7
      <3>2. registry'[i] = [registry[i] EXCEPT !.ambig = akey, !.suffix = n]
        BY <2>7, <3>1
      <3>3. registry'[i] \in Token
        <4>1. [registry[i] EXCEPT !.ambig = akey, !.suffix = n] \in Token
          BY <2>1 DEF Token
        <4>2. QED
          BY <3>2, <4>1, Zenon
      <3>4. registry'[i].ambig = akey
        BY <2>4, <3>2
      <3>5. QED
        BY <1>2, <2>7, <3>3, <3>4
    <2>8. QED
      BY <2>2, <2>5, <2>6, <2>7
  <1>4. taintedItemIDs' \subseteq Item
    <2>1. \A k \in DOMAIN ids : ids[k] \in Item
      BY DEF InOrder, IInv, StateInv
    <2>2. Resuffixed(ids) \subseteq Item
      BY <2>1 DEF Resuffixed
    <2>3. QED
      BY <2>2 DEF disYears, Tainted, IInv, StateInv
  <1>5. QED
    BY <1>1, <1>3, <1>4

LEMMA DisambiguateInv ==
    ASSUME IInv, DisambiguatePool
    PROVE  IInv'
  <1>1. PICK akey \in call.todo :
          LET pool == disambiguated[akey]
              live == pool \cap DOMAIN registry
          IN  \/ /\ Cardinality(pool) <= 1
                 /\ call' = [call EXCEPT !.todo = @ \ {akey}]
                 /\ UNCHANGED <<registry, taintedItemIDs>>
              \/ /\ Cardinality(pool) > 1
                 /\ captured # Undefined \/ live = {}
                 /\ Throw
                 /\ UNCHANGED <<registry, taintedItemIDs>>
              \/ /\ Cardinality(pool) > 1
                 /\ captured = Undefined /\ live # {}
                 /\ \E ids \in InOrder(pool), tokens \in Sorted(Arrangements(live)) :
                       disYears(akey, ids, tokens)
    BY DEF DisambiguatePool
  <1>2. akey \in Cites
    BY DEF IInv, CallInv
  <1>3. /\ DOMAIN registry' = DOMAIN registry
        /\ \A i \in DOMAIN registry :
              registry'[i] \in Token /\ i \in ambigcites[registry'[i].ambig]
        /\ taintedItemIDs' \subseteq Item
    <2>1. CASE UNCHANGED <<registry, taintedItemIDs>>
      BY <2>1 DEF IInv, StateInv, PoolsCoverRegistry
    <2>2. ASSUME captured = Undefined,
                 NEW ids \in InOrder(disambiguated[akey]),
                 NEW tokens \in Sorted(Arrangements(disambiguated[akey] \cap DOMAIN registry)),
                 disYears(akey, ids, tokens)
          PROVE  /\ DOMAIN registry' = DOMAIN registry
                 /\ \A i \in DOMAIN registry :
                       registry'[i] \in Token /\ i \in ambigcites[registry'[i].ambig]
                 /\ taintedItemIDs' \subseteq Item
      <3>1. disambiguated[akey] = ambigcites[akey]
        BY <2>2 DEF disambiguated
      <3>2. tokens \in Arrangements(ambigcites[akey] \cap DOMAIN registry)
        BY <3>1 DEF Sorted
      <3>3. QED
        BY <1>2, <2>2, <3>1, <3>2, DisYearsTokens
    <2>3. QED
      BY <1>1, <2>1, <2>2
  <1>4. /\ UNCHANGED <<mylist, uncited, pools, reflist, refreshes, touched>>
        /\ At("setdisambigs")
        /\ \/ call' = [call EXCEPT !.todo = @ \ {akey}]
           \/ Throw
    <2>1. \A ids, tokens : disYears(akey, ids, tokens) =>
              \/ call' = [call EXCEPT !.todo = @ \ {akey}]
              \/ Throw
      BY DEF disYears
    <2>2. QED
      BY <1>1, <2>1 DEF DisambiguatePool
  <1>5. StateInv'
    BY <1>3, <1>4 DEF IInv, StateInv, pools
  <1>6. CallInv'
    BY <1>3, <1>4 DEF Throw, At, IInv, CallInv, Methods
  <1>7. PoolsCoverRegistry'
    BY <1>3, <1>4 DEF PoolsCoverRegistry, pools
  <1>8. QED
    BY <1>5, <1>6, <1>7 DEF IInv

LEMMA DoneInv ==
    ASSUME IInv, DisambiguationDone
    PROVE  IInv'
  <1>1. StateInv'
    BY DEF DisambiguationDone, IInv, StateInv, changes
  <1>2. CallInv'
    BY DEF DisambiguationDone, At, Continue, IInv, CallInv, Methods
  <1>3. PoolsCoverRegistry'
    BY DEF DisambiguationDone, IInv, PoolsCoverRegistry
  <1>4. QED
    BY <1>1, <1>2, <1>3 DEF IInv

\* A sorted list has the items of the list.
LEMMA SortInv ==
    ASSUME IInv, sorttokens
    PROVE  IInv'
  <1>1. reflist' \in Seq(Item)
    <2>1. reflist \in Seq(Item) /\ Len(reflist) \in Nat
      BY DEF IInv, StateInv
    <2>2. PICK f \in Arrangements(DOMAIN reflist) :
              reflist' = [k \in DOMAIN reflist |-> reflist[f[k]]]
      BY DEF sorttokens, Sortings, Sorted
    <2>3. f \in [DOMAIN reflist -> DOMAIN reflist]
      <3>1. Cardinality(DOMAIN reflist) = Len(reflist)
        <4>1. \A n \in Nat : Cardinality(1 .. n) = n
          BY FS_Interval
        <4>2. QED
          BY <2>1, <4>1
      <3>2. QED
        BY <2>1, <2>2, <3>1 DEF Arrangements
    <2>4. reflist' \in [1 .. Len(reflist) -> Item]
      BY <2>1, <2>2, <2>3
    <2>5. QED
      BY <2>1, <2>4
  <1>2. StateInv'
    BY <1>1 DEF sorttokens, IInv, StateInv, pools, changes
  <1>3. CallInv'
    BY DEF sorttokens, At, Continue, IInv, CallInv, Methods
  <1>4. PoolsCoverRegistry'
    BY DEF sorttokens, IInv, PoolsCoverRegistry, pools
  <1>5. QED
    BY <1>2, <1>3, <1>4 DEF IInv

LEMMA RenumberInv ==
    ASSUME IInv, renumber
    PROVE  IInv'
  <1>1. reflist \in Seq(Item) /\ StateInv
    BY DEF IInv, StateInv
  <1>2. registry' = [i \in DOMAIN registry |->
           IF i \in Elements(reflist)
           THEN [registry[i] EXCEPT !.seq = Last(Positions(reflist, i))]
           ELSE registry[i]]
    BY DEF renumber
  <1>3. /\ DOMAIN registry' = DOMAIN registry
        /\ \A i \in DOMAIN registry : registry'[i] \in Token
        /\ \A i \in DOMAIN registry : registry'[i].ambig = registry[i].ambig
    BY <1>1, <1>2, NumberingTokens
  <1>4. taintedItemIDs' \subseteq Item
    <2>1. Moved \subseteq Item
      BY <1>1 DEF Moved
    <2>2. QED
      BY <2>1 DEF renumber, Tainted, IInv, StateInv
  <1>5. StateInv'
    BY <1>3, <1>4 DEF renumber, IInv, StateInv, pools
  <1>6. CallInv'
    BY <1>3 DEF renumber, At, Continue, IInv, CallInv, Methods
  <1>7. PoolsCoverRegistry'
    BY <1>3, TokensInv DEF renumber, pools
  <1>8. QED
    BY <1>5, <1>6, <1>7 DEF IInv

LEMMA ResetInv ==
    ASSUME IInv, Reset
    PROVE  IInv'
  <1>1. <<>> \in Seq(Item) /\ DOMAIN <<>> = {}
    OBVIOUS
  <1>2. StateInv'
    BY <1>1 DEF Reset, StateInv
  <1>3. CallInv'
    BY DEF Reset, At, Continue, IInv, CallInv, Methods
  <1>4. PoolsCoverRegistry'
    BY <1>1 DEF Reset, PoolsCoverRegistry
  <1>5. QED
    BY <1>2, <1>3, <1>4 DEF IInv

LEMMA StutterInv ==
    ASSUME IInv, UNCHANGED vars
    PROVE  IInv'
  BY DEF IInv, StateInv, CallInv, PoolsCoverRegistry, vars, pools, changes

LEMMA NextInv == IInv /\ [Next]_vars => IInv'
  <1> SUFFICES ASSUME IInv, [Next]_vars PROVE IInv'
    OBVIOUS
  <1>1. CASE \/ \E list \in Lists, nosort \in NoSortFlags : UpdateItems(list, nosort)
             \/ \E list \in Lists : ClusterUpdate(list)
             \/ \E list \in UncitedLists, nosort \in NoSortFlags :
                   UpdateUncitedItems(list, nosort)
             \/ RestoreEmptyState
    BY <1>1, CallsInv
  <1>2. CASE dodeletes \/ doinserts \/ douncited \/ dorefreshes \/ rebuildlist
    BY <1>2, DeletesInv, InsertsInv, UncitedInv, RefreshesInv, RebuildInv
  <1>3. CASE setsortkeys \/ DisambiguatePool \/ DisambiguationDone
    BY <1>3, SortKeysInv, DisambiguateInv, DoneInv
  <1>4. CASE sorttokens \/ renumber \/ Reset
    BY <1>4, SortInv, RenumberInv, ResetInv
  <1>5. CASE UNCHANGED vars
    BY <1>5, StutterInv
  <1>6. QED
    BY <1>1, <1>2, <1>3, <1>4, <1>5 DEF Next

-----------------------------------------------------------------------------
(* Which items are listed.  The list of a call has the items remembered as *)
(* uncited, rebuildlist copies it, and sorting only changes the places.    *)

\* The methods that come after rebuildlist.
Rebuilt == {"setsortkeys", "setdisambigs", "sorttokens", "renumber", "reset",
            "returned"}

ListInv ==
    /\ Elements(uncited) \subseteq Elements(mylist)
    /\ call.at \in Rebuilt => Elements(reflist) = Elements(mylist)

\* A finite set arranged has all its elements in the arrangement.
LEMMA ArrangementOnto ==
    ASSUME NEW n \in Nat, NEW f \in Arrangements(1 .. n), NEW k \in 1 .. n
    PROVE  \E j \in 1 .. n : f[j] = k
  <1>1. IsFiniteSet(1 .. n) /\ Cardinality(1 .. n) = n
    BY FS_Interval
  <1>2. f \in Injection(1 .. n, 1 .. n)
    <2>1. /\ f \in [1 .. n -> 1 .. n]
          /\ \A j, l \in 1 .. n : f[j] = f[l] => j = l
      BY <1>1 DEF Arrangements
    <2>2. QED
      BY <2>1 DEF Injection, IsInjective
  <1>3. f \in Surjection(1 .. n, 1 .. n)
    BY <1>1, <1>2, FS_Injection
  <1>4. QED
    BY <1>3 DEF Surjection

LEMMA SortedElements ==
    ASSUME NEW s \in Seq(Item), NEW t \in Sortings(s)
    PROVE  Elements(t) = Elements(s)
  <1>1. PICK f \in Arrangements(DOMAIN s) : t = [k \in DOMAIN s |-> s[f[k]]]
    BY DEF Sortings, Sorted
  <1>2. DOMAIN s = 1 .. Len(s) /\ Len(s) \in Nat
    OBVIOUS
  <1>3. f \in [DOMAIN s -> DOMAIN s]
    <2>1. \A n \in Nat : Cardinality(1 .. n) = n
      BY FS_Interval
    <2>2. Cardinality(DOMAIN s) = Len(s)
      BY <1>2, <2>1
    <2>3. QED
      BY <1>2, <2>2 DEF Arrangements
  <1>4. \A k \in DOMAIN s : \E j \in DOMAIN s : f[j] = k
    <2>1. PICK n \in Nat : n = Len(s)
      BY <1>2
    <2>2. f \in Arrangements(1 .. n)
      BY <1>2, <2>1
    <2>3. \A k \in 1 .. n : \E j \in 1 .. n : f[j] = k
      BY <2>2, ArrangementOnto
    <2>4. QED
      BY <1>2, <2>1, <2>3
  <1>5. Elements(t) \subseteq Elements(s)
    BY <1>1, <1>3 DEF Elements
  <1>6. Elements(s) \subseteq Elements(t)
    BY <1>1, <1>4 DEF Elements
  <1>7. QED
    BY <1>5, <1>6

\* The elements of two lists joined.
LEMMA JoinedElements ==
    ASSUME NEW s \in Seq(Item), NEW t \in Seq(Item)
    PROVE  Elements(s \o t) = Elements(s) \cup Elements(t)
  <1>1. /\ Len(s) \in Nat /\ Len(t) \in Nat
        /\ DOMAIN s = 1 .. Len(s) /\ DOMAIN t = 1 .. Len(t)
        /\ DOMAIN (s \o t) = 1 .. Len(s) + Len(t)
        /\ \A p \in 1 .. Len(s) : (s \o t)[p] = s[p]
        /\ \A p \in 1 .. Len(t) : (s \o t)[Len(s) + p] = t[p]
    OBVIOUS
  <1>2. ASSUME NEW p \in DOMAIN (s \o t)
        PROVE  (s \o t)[p] \in Elements(s) \cup Elements(t)
    <2>1. CASE p <= Len(s)
      BY <1>1, <2>1 DEF Elements
    <2>2. CASE p > Len(s)
      <3>1. p - Len(s) \in 1 .. Len(t) /\ p = Len(s) + (p - Len(s))
        BY <1>1, <2>2
      <3>2. (s \o t)[p] = t[p - Len(s)]
        BY <1>1, <3>1
      <3>3. QED
        BY <1>1, <3>1, <3>2 DEF Elements
    <2>3. QED
      BY <1>1, <2>1, <2>2
  <1>3. Elements(s) \subseteq Elements(s \o t)
    BY <1>1 DEF Elements
  <1>4. Elements(t) \subseteq Elements(s \o t)
    <2>1. \A p \in DOMAIN t : Len(s) + p \in DOMAIN (s \o t)
      BY <1>1
    <2>2. QED
      BY <1>1, <2>1 DEF Elements
  <1>5. QED
    BY <1>2, <1>3, <1>4 DEF Elements

\* A set of numbers has a first one.
LEMMA FirstExists ==
    ASSUME NEW P, P \subseteq Nat, P # {}
    PROVE  \E p \in P : \A q \in P : p <= q
  <1>1. PICK p \in P : \A q \in P : ~(<<q, p>> \in OpToRel(<, Nat))
    BY NatLessThanWellFounded, WFMin
  <1>2. \A q \in P : ~(q < p)
    BY <1>1 DEF OpToRel
  <1>3. QED
    BY <1>2

\* What init appends is all of the list that was not there before.
LEMMA AppendedElements ==
    ASSUME mylist \in Seq(Item), NEW list \in Seq(Item),
           NEW new \in InOrder(NewPlaces(list))
    PROVE  Elements(list) \subseteq
               Elements(mylist \o [k \in DOMAIN new |-> list[new[k]]])
  <1> DEFINE tail == [k \in DOMAIN new |-> list[new[k]]]
  <1>1. DOMAIN list = 1 .. Len(list) /\ Len(list) \in Nat
    OBVIOUS
  <1>2. NewPlaces(list) \subseteq DOMAIN list
    BY DEF NewPlaces
  <1>3. IsFiniteSet(NewPlaces(list)) /\ Cardinality(NewPlaces(list)) \in Nat
    <2>1. IsFiniteSet(DOMAIN list)
      BY <1>1, FS_Interval
    <2>2. QED
      BY <1>2, <2>1, FS_Subset, FS_CardinalityType
  <1>4. PICK n \in Nat : n = Cardinality(NewPlaces(list))
    BY <1>3
  <1>5. /\ new \in [1 .. n -> NewPlaces(list)]
        /\ \A j, k \in 1 .. n : j < k => new[j] < new[k]
    BY <1>4 DEF InOrder
  <1>6. new \in Surjection(1 .. n, NewPlaces(list))
    <2>1. \A j, k \in 1 .. n : new[j] = new[k] => j = k
      <3>1. SUFFICES ASSUME NEW j \in 1 .. n, NEW k \in 1 .. n, new[j] = new[k]
                     PROVE  j = k
        OBVIOUS
      <3>2. new[j] \in Nat /\ new[k] \in Nat
        BY <1>1, <1>2, <1>5
      <3>3. ~(j < k) /\ ~(k < j)
        BY <1>5, <3>1, <3>2
      <3>4. QED
        BY <3>3
    <2>2. new \in Injection(1 .. n, NewPlaces(list))
      BY <1>5, <2>1 DEF Injection, IsInjective
    <2>3. Cardinality(1 .. n) = n
      BY FS_Interval
    <2>4. QED
      BY <1>3, <1>4, <2>2, <2>3, FS_Injection
  <1>7. \A p \in NewPlaces(list) : list[p] \in Elements(tail)
    BY <1>5, <1>6 DEF Surjection, Elements
  <1>8. tail \in Seq(Item)
    <2>1. tail \in [1 .. n -> Item]
      BY <1>2, <1>5
    <2>2. QED
      BY <2>1
  <1>9. Elements(mylist \o tail) = Elements(mylist) \cup Elements(tail)
    BY <1>8, JoinedElements
  <1>10. ASSUME NEW i \in Elements(list), i \notin Elements(mylist)
         PROVE  i \in Elements(tail)
    <2> DEFINE P == {p \in DOMAIN list : list[p] = i}
    <2>1. P \subseteq Nat /\ P # {}
      BY <1>1 DEF Elements
    <2>2. PICK p \in P : \A q \in P : p <= q
      BY <2>1, FirstExists
    <2>3. p \in DOMAIN list /\ list[p] = i
      OBVIOUS
    <2>4. \A q \in DOMAIN list : q < p => list[q] # list[p]
      BY <1>1, <2>2
    <2>5. p \in NewPlaces(list)
      BY <1>10, <2>3, <2>4 DEF NewPlaces
    <2>6. QED
      BY <1>7, <2>3, <2>5
  <1>11. QED
    BY <1>9, <1>10

LEMMA InitMethodList ==
    ASSUME IInv, ListInv, NEW list \in Seq(Item), NEW flag \in BOOLEAN,
           init(list, flag), call'.at \in {"dodeletes", "doinserts"}
    PROVE  ListInv'
  <1>1. mylist \in Seq(Item) /\ uncited \in Seq(Item)
    BY DEF IInv, StateInv
  <1>2. CASE /\ uncited' = list
             /\ \E new \in InOrder(NewPlaces(list)) :
                  mylist' = mylist \o [k \in DOMAIN new |-> list[new[k]]]
    BY <1>1, <1>2, AppendedElements DEF ListInv, Rebuilt
  <1>3. CASE mylist' = list \o uncited /\ UNCHANGED uncited
    BY <1>1, <1>3, JoinedElements DEF ListInv, Rebuilt
  <1>4. QED
    BY <1>2, <1>3 DEF init, WithUncited

LEMMA ListNext == IInv /\ ListInv /\ [Next]_vars => ListInv'
  <1> SUFFICES ASSUME IInv, ListInv, [Next]_vars PROVE ListInv'
    OBVIOUS
  <1>1. <<>> \in Seq(Item) /\ TRUE \in BOOLEAN /\ FALSE \in BOOLEAN
    OBVIOUS
  <1>2. CASE \E list \in Lists, nosort \in NoSortFlags : UpdateItems(list, nosort)
    <2>1. PICK list \in Lists, nosort \in NoSortFlags : UpdateItems(list, nosort)
      BY <1>2
    <2>2. list \in Seq(Item) /\ init(list, FALSE) /\ call'.at = "dodeletes"
      BY <2>1, BoundAssumption DEF UpdateItems, Begin
    <2>3. QED
      BY <1>1, <2>2, InitMethodList
  <1>3. CASE \E list \in Lists : ClusterUpdate(list)
    <2>1. PICK list \in Lists : ClusterUpdate(list)
      BY <1>3
    <2>2. list \in Seq(Item) /\ init(list, FALSE) /\ call'.at = "dodeletes"
      BY <2>1, BoundAssumption DEF ClusterUpdate, Begin
    <2>3. QED
      BY <1>1, <2>2, InitMethodList
  <1>4. CASE \E list \in UncitedLists, nosort \in NoSortFlags :
                 UpdateUncitedItems(list, nosort)
    <2>1. PICK list \in UncitedLists, nosort \in NoSortFlags :
                 UpdateUncitedItems(list, nosort)
      BY <1>4
    <2>2. list \in Seq(Item) /\ init(list, TRUE) /\ call'.at = "doinserts"
      BY <2>1, BoundAssumption DEF UpdateUncitedItems, Begin
    <2>3. QED
      BY <1>1, <2>2, InitMethodList
  <1>5. CASE RestoreEmptyState
    <2>1. init(<<>>, FALSE) /\ call'.at = "dodeletes"
      BY <1>5 DEF RestoreEmptyState, Begin
    <2>2. QED
      BY <1>1, <2>1, InitMethodList
  <1>6. CASE dodeletes \/ doinserts \/ douncited \/ dorefreshes
    <2>1. /\ UNCHANGED <<mylist, uncited>>
          /\ \E at : call'.at = at /\ at \notin Rebuilt
      BY <1>6 DEF dodeletes, doinserts, douncited, dorefreshes, Continue, Throw,
                  Rebuilt, IInv, CallInv
    <2>2. QED
      BY <2>1 DEF ListInv
  <1>7. CASE rebuildlist
    BY <1>7 DEF rebuildlist, ListInv
  <1>8. CASE setsortkeys \/ DisambiguatePool \/ DisambiguationDone \/ renumber
    <2>1. UNCHANGED <<mylist, uncited, reflist>> /\ call.at \in Rebuilt
      BY <1>8 DEF setsortkeys, DisambiguatePool, DisambiguationDone, renumber,
                  At, Rebuilt
    <2>2. QED
      BY <2>1 DEF ListInv
  <1>9. CASE sorttokens
    <2>1. UNCHANGED <<mylist, uncited>> /\ call.at \in Rebuilt
      BY <1>9 DEF sorttokens, At, Rebuilt
    <2>2. Elements(reflist') = Elements(reflist)
      BY <1>9, SortedElements DEF sorttokens, IInv, StateInv
    <2>3. QED
      BY <2>1, <2>2 DEF ListInv
  <1>10. CASE Reset
    BY <1>10 DEF Reset, ListInv, Elements
  <1>11. CASE UNCHANGED vars
    BY <1>11 DEF ListInv, vars
  <1>12. QED
    BY <1>2, <1>3, <1>4, <1>5, <1>6, <1>7, <1>8, <1>9, <1>10, <1>11 DEF Next

-----------------------------------------------------------------------------
(* Which items are registered, as long as nobody calls updateUncitedItems: *)
(* dodeletes leaves only listed items, and doinserts adds the others.      *)

\* The methods that come after doinserts, if it does not throw.
Inserted == Methods \ {"dodeletes", "doinserts"}

RegisteredInv ==
    /\ uncited = <<>>
    /\ \A i \in DOMAIN registry : registry[i].uncited = FALSE
    /\ call.fn # "updateUncitedItems" /\ call.at # "douncited"
    /\ call.at = "doinserts" => DOMAIN registry \subseteq Elements(mylist)
    /\ call.at \in Inserted \cup {"returned"} =>
          DOMAIN registry = Elements(mylist)

\* Only douncited marks a token as uncited.
LEMMA UncitedField ==
    ASSUME NEW t \in Token
    PROVE  /\ \A n : [t EXCEPT !.seq = n].uncited = t.uncited
           /\ [t EXCEPT !.sortkeys = TRUE].uncited = t.uncited
           /\ \A c : [t EXCEPT !.ambig = c].uncited = t.uncited
  BY DEF Token

\* A step between doinserts and the end of the call.
LEMMA LateStep ==
    ASSUME RegisteredInv, DOMAIN registry' = DOMAIN registry,
           \A i \in DOMAIN registry : registry'[i].uncited = registry[i].uncited,
           UNCHANGED <<mylist, uncited>>, call'.fn = call.fn,
           call.at \in Inserted,
           call'.at \in (Inserted \ {"douncited"}) \cup {"returned", "threw"}
    PROVE  RegisteredInv'
  BY DEF RegisteredInv, Inserted, Methods

LEMMA RegisteredCalls ==
    ASSUME IInv, RegisteredInv, NEW list, init(list, FALSE),
           call'.fn # "updateUncitedItems", call'.at = "dodeletes"
    PROVE  RegisteredInv'
  BY DEF RegisteredInv, init, Inserted, Methods

LEMMA RegisteredNext ==
    ASSUME UncitedLists = {}
    PROVE  IInv /\ RegisteredInv /\ [Next]_vars => RegisteredInv'
  <1> SUFFICES ASSUME IInv, RegisteredInv, [Next]_vars PROVE RegisteredInv'
    OBVIOUS
  <1>1. CASE \E list \in Lists, nosort \in NoSortFlags : UpdateItems(list, nosort)
    <2>1. PICK list \in Lists, nosort \in NoSortFlags : UpdateItems(list, nosort)
      BY <1>1
    <2>2. /\ init(list, FALSE)
          /\ call' = [fn |-> "updateItems", at |-> "dodeletes", nosort |-> nosort,
                      todo |-> {}]
      BY <2>1 DEF UpdateItems, Begin
    <2>3. QED
      BY <2>2, RegisteredCalls
  <1>2. CASE \E list \in Lists : ClusterUpdate(list)
    <2>1. PICK list \in Lists : ClusterUpdate(list)
      BY <1>2
    <2>2. /\ init(list, FALSE)
          /\ call' = [fn |-> "processCitationCluster", at |-> "dodeletes",
                      nosort |-> FALSE, todo |-> {}]
      BY <2>1 DEF ClusterUpdate, Begin
    <2>3. QED
      BY <2>2, RegisteredCalls
  <1>3. CASE RestoreEmptyState
    BY <1>3, RegisteredCalls DEF RestoreEmptyState, Begin
  <1>4. CASE dodeletes
    <2>1. /\ DOMAIN registry' = DOMAIN registry \ Deleted
          /\ \A i \in DOMAIN registry' : registry'[i] = registry[i]
          /\ UNCHANGED <<mylist, uncited>>
          /\ call'.at = "doinserts" /\ call'.fn = call.fn
      BY <1>4 DEF dodeletes, Continue, IInv, CallInv
    <2>2. DOMAIN registry' \subseteq Elements(mylist)
      BY <2>1 DEF Deleted, RegisteredInv
    <2>3. QED
      BY <2>1, <2>2 DEF RegisteredInv, Inserted, Methods
  <1>5. CASE doinserts
    <2> DEFINE new == {p \in DOMAIN mylist : mylist[p] \notin DOMAIN registry}
               failing == {p \in new : mylist[p] \in Missing}
               inserted == {mylist[p] : p \in {q \in new : \A f \in failing : q < f}}
    <2>1. /\ At("doinserts")
          /\ registry' = [i \in DOMAIN registry \cup inserted |->
                    IF i \in inserted THEN NewToken(i) ELSE registry[i]]
          /\ Continue(IF failing # {} THEN "threw"
                         ELSE IF call.fn = "updateUncitedItems" THEN "douncited"
                         ELSE "dorefreshes")
          /\ UNCHANGED <<mylist, uncited>>
      BY <1>5 DEF doinserts
    <2>2. inserted \subseteq Elements(mylist)
      BY DEF Elements
    <2>3. DOMAIN registry \subseteq Elements(mylist)
      BY <2>1 DEF At, RegisteredInv
    <2>4. IInv'
      BY <1>5, InsertsInv
    <2>5. \A i \in DOMAIN registry' : registry'[i].uncited = FALSE
      BY <2>1 DEF NewToken, RegisteredInv
    <2>6. /\ call'.fn = call.fn
          /\ call'.at = IF failing # {} THEN "threw" ELSE "dorefreshes"
      BY <2>1 DEF Continue, RegisteredInv, IInv, CallInv
    <2>7. DOMAIN registry' \subseteq Elements(mylist')
      BY <2>1, <2>2, <2>3
    <2>8. call'.at \in Inserted => Elements(mylist') \subseteq DOMAIN registry'
      BY <2>4 DEF IInv, CallInv, Inserted
    <2> HIDE DEF new, failing, inserted
    <2>9. QED
      BY <2>1, <2>5, <2>6, <2>7, <2>8 DEF RegisteredInv, Inserted, Methods
  <1>6. CASE douncited
    BY <1>6 DEF douncited, At, RegisteredInv
  <1>7. ASSUME dorefreshes \/ rebuildlist \/ setsortkeys \/ renumber
        PROVE  RegisteredInv'
    <2>1. \A i \in DOMAIN registry : registry[i] \in Token
      BY DEF IInv, StateInv
    <2>2. /\ DOMAIN registry' = DOMAIN registry
          /\ \A i \in DOMAIN registry : registry'[i].uncited = registry[i].uncited
      <3>1. CASE dorefreshes
        <4>1. CASE UNCHANGED registry
          BY <4>1
        <4>2. CASE \E first \in Refreshed :
                 registry' = [i \in DOMAIN registry |->
                    IF i \in Refreshed
                    THEN [registry[i] EXCEPT !.ambig = Cite[first],
                             !.suffix = NoSuffix, !.sortkeys = FALSE]
                    ELSE registry[i]]
          <5>1. PICK first \in Refreshed :
                 registry' = [i \in DOMAIN registry |->
                    IF i \in Refreshed
                    THEN [registry[i] EXCEPT !.ambig = Cite[first],
                             !.suffix = NoSuffix, !.sortkeys = FALSE]
                    ELSE registry[i]]
            BY <4>2
          <5>2. \A i \in DOMAIN registry :
                   [registry[i] EXCEPT !.ambig = Cite[first], !.suffix = NoSuffix,
                       !.sortkeys = FALSE].uncited = registry[i].uncited
            BY <2>1 DEF Token
          <5>3. QED
            BY <5>1, <5>2
        <4>3. QED
          BY <3>1, <4>1, <4>2 DEF dorefreshes
      <3>2. CASE rebuildlist
        BY <2>1, <3>2, UncitedField DEF rebuildlist
      <3>3. CASE setsortkeys
        BY <2>1, <3>3, UncitedField DEF setsortkeys
      <3>4. CASE renumber
        BY <2>1, <3>4, UncitedField DEF renumber
      <3>5. QED
        BY <1>7, <3>1, <3>2, <3>3, <3>4
    <2>3. /\ UNCHANGED <<mylist, uncited>>
          /\ call'.fn = call.fn /\ call.at \in Inserted
          /\ call'.at \in (Inserted \ {"douncited"}) \cup {"returned", "threw"}
      BY <1>7 DEF dorefreshes, rebuildlist, setsortkeys, renumber, Continue, At,
                  Inserted, Methods, IInv, CallInv
    <2>4. QED
      BY <2>2, <2>3, LateStep
  <1>8. CASE DisambiguatePool
    <2>1. /\ UNCHANGED <<mylist, uncited>> /\ call.at = "setdisambigs"
          /\ \E akey \in call.todo : \E ids, tokens :
                \/ /\ UNCHANGED registry
                   /\ call' = [call EXCEPT !.todo = @ \ {akey}] \/ Throw
                \/ disYears(akey, ids, tokens)
      BY <1>8 DEF DisambiguatePool, At
    <2>2. PICK akey \in call.todo : \E ids, tokens :
                \/ /\ UNCHANGED registry
                   /\ call' = [call EXCEPT !.todo = @ \ {akey}] \/ Throw
                \/ disYears(akey, ids, tokens)
      BY <2>1
    <2>3. call'.fn = call.fn /\ call'.at \in {"setdisambigs", "threw"}
      BY <2>1, <2>2 DEF disYears, Throw, IInv, CallInv
    <2>4. /\ DOMAIN registry' = DOMAIN registry
          /\ \A i \in DOMAIN registry : registry'[i].uncited = registry[i].uncited
      <3>1. CASE UNCHANGED registry
        BY <3>1
      <3>2. ASSUME NEW ids, NEW tokens, disYears(akey, ids, tokens)
            PROVE  /\ DOMAIN registry' = DOMAIN registry
                   /\ \A i \in DOMAIN registry :
                         registry'[i].uncited = registry[i].uncited
        <4>1. ASSUME NEW i \in DOMAIN registry
              PROVE  registry'[i].uncited = registry[i].uncited
          <5>1. registry[i] \in Token
            BY DEF IInv, StateInv
          <5>2. \/ registry'[i] = registry[i]
                \/ registry'[i] = [registry[i] EXCEPT !.ambig = akey]
                \/ registry'[i] = [registry[i] EXCEPT !.ambig = akey,
                                       !.suffix = SuffixOf(tokens, i)]
            BY <3>2 DEF disYears
          <5>3. [registry[i] EXCEPT !.ambig = akey].uncited = registry[i].uncited
            BY <5>1, UncitedField
          <5>4. [registry[i] EXCEPT !.ambig = akey,
                    !.suffix = SuffixOf(tokens, i)].uncited = registry[i].uncited
            BY <5>1 DEF Token
          <5>5. QED
            BY <5>2, <5>3, <5>4, Zenon
        <4>2. QED
          BY <3>2, <4>1 DEF disYears
      <3>3. QED
        BY <2>2, <3>1, <3>2
    <2>5. QED
      BY <2>1, <2>3, <2>4, LateStep DEF Inserted, Methods
  <1>9. CASE DisambiguationDone \/ sorttokens
    <2>1. /\ UNCHANGED <<registry, mylist, uncited>>
          /\ call'.fn = call.fn /\ call.at \in Inserted
          /\ call'.at \in (Inserted \ {"douncited"}) \cup {"returned", "threw"}
      BY <1>9 DEF DisambiguationDone, sorttokens, Continue, At, Inserted, Methods,
                  IInv, CallInv
    <2>2. QED
      BY <2>1, LateStep
  <1>10. CASE Reset
    <2>1. /\ mylist' = <<>> /\ uncited' = <<>> /\ registry' = <<>>
          /\ call'.fn = call.fn /\ call'.at = "returned"
      BY <1>10 DEF Reset, Continue, IInv, CallInv
    <2>2. DOMAIN <<>> = {} /\ Elements(<<>>) = {}
      BY DEF Elements
    <2>3. QED
      BY <2>1, <2>2 DEF RegisteredInv, Inserted, Methods
  <1>11. CASE UNCHANGED vars
    BY <1>11 DEF RegisteredInv, vars
  <1>12. QED
    BY <1>1, <1>2, <1>3, <1>4, <1>5, <1>6, <1>7, <1>8, <1>9, <1>10, <1>11 DEF Next

-----------------------------------------------------------------------------
(* The theorems. *)

LEMMA InvariantHolds == Spec => []IInv
  BY InitInv, NextInv, PTL DEF Spec

\* updateItems, updateUncitedItems and restoreProcessorState: whatever is
\* called and thrown, tokens, pools and lists keep their types, and each method
\* finds registered what it looks up.
THEOREM TypeCorrect == Spec => []TypeOK
  <1>1. IInv => TypeOK
    BY DEF IInv, StateInv, CallInv, Methods, TypeOK, At, Ready
  <1>2. QED
    BY <1>1, InvariantHolds, PTL

\* registerAmbigToken and dodeletes: whatever is called and thrown, a registered
\* item is in the pool that its deletion will refresh.
THEOREM PoolSafety == Spec => []PoolsCoverRegistry
  <1>1. IInv => PoolsCoverRegistry
    BY DEF IInv
  <1>2. QED
    BY <1>1, InvariantHolds, PTL

\* init and rebuildlist: the items remembered as uncited are in every
\* bibliography returned, whatever was called and thrown before.
THEOREM UncitedSafety == Spec => []UncitedListed
  <1>1. Init => ListInv
    BY DEF Init, ListInv
  <1>2. ListInv => UncitedListed
    BY DEF ListInv, Rebuilt, UncitedListed, Returned, At
  <1>3. QED
    BY <1>1, <1>2, ListNext, InvariantHolds, PTL DEF Spec

\* init, dodeletes and doinserts: as long as nobody calls updateUncitedItems, a
\* call that returns leaves the items of its list registered, and no other.
THEOREM RegistrySafety ==
    ASSUME UncitedLists = {}
    PROVE  Spec => []RegistryIsListed
  <1>1. Init => ListInv /\ RegisteredInv
    BY DEF Init, ListInv, RegisteredInv, Elements, Inserted, Methods
  <1>2. IInv /\ RegisteredInv /\ [Next]_vars => RegisteredInv'
    BY RegisteredNext
  <1>3. ListInv /\ RegisteredInv => RegistryIsListed
    BY DEF ListInv, RegisteredInv, Rebuilt, RegistryIsListed, Returned, At
  <1>4. QED
    BY <1>1, <1>2, <1>3, ListNext, InvariantHolds, PTL DEF Spec

-----------------------------------------------------------------------------
(***************************************************************************)
(* Proofs about the classes of look-alikes of ItemRegistry, for callers    *)
(* that keep clear of two cases the code gets wrong: updateUncitedItems,   *)
(* whose marks keep items registered that are not listed, and a list that  *)
(* takes items from two pools at once, whose partners dorefreshes puts     *)
(* into one.  Then pools match cites; and as long as nothing throws, what  *)
(* disYears and dorefreshes leave behind numbers every class.              *)
(***************************************************************************)

(* What the methods do to the fields of tokens. *)

\* Tokens stay, with the cite and the suffix they have.
KeepsClasses ==
    /\ DOMAIN registry' = DOMAIN registry
    /\ \A i \in DOMAIN registry :
          /\ registry'[i].ambig = registry[i].ambig
          /\ registry'[i].suffix = registry[i].suffix

\* Numbering changes seq only.
LEMMA NumberedFields ==
    ASSUME StateInv, NEW s \in Seq(Item),
           registry' = [i \in DOMAIN registry |->
               IF i \in Elements(s)
               THEN [registry[i] EXCEPT !.seq = Last(Positions(s, i))]
               ELSE registry[i]]
    PROVE  /\ KeepsClasses
           /\ \A i \in DOMAIN registry :
                 /\ registry'[i].sortkeys = registry[i].sortkeys
                 /\ i \in Elements(s) => registry'[i].seq = Last(Positions(s, i))
                 /\ i \notin Elements(s) => registry'[i].seq = registry[i].seq
  <1>1. \A i \in DOMAIN registry : registry[i] \in Token
    BY DEF StateInv
  <1> DEFINE place(i) == Last(Positions(s, i))
  <1>2. registry' = [i \in DOMAIN registry |->
               IF i \in Elements(s) THEN [registry[i] EXCEPT !.seq = place(i)]
               ELSE registry[i]]
    OBVIOUS
  <1> HIDE DEF place
  <1>3. \A i \in DOMAIN registry :
           /\ registry'[i].ambig = registry[i].ambig
           /\ registry'[i].suffix = registry[i].suffix
           /\ registry'[i].sortkeys = registry[i].sortkeys
           /\ i \in Elements(s) => registry'[i].seq = place(i)
           /\ i \notin Elements(s) => registry'[i].seq = registry[i].seq
    BY <1>1, <1>2 DEF Token
  <1>4. QED
    BY <1>3 DEF KeepsClasses, place

LEMMA RebuildFields ==
    ASSUME StateInv, rebuildlist
    PROVE  /\ KeepsClasses
           /\ \A i \in DOMAIN registry :
                 /\ registry'[i].sortkeys = registry[i].sortkeys
                 /\ i \in Elements(mylist) => registry'[i].seq = Last(Positions(mylist, i))
  BY NumberedFields DEF rebuildlist, StateInv

LEMMA RenumberFields ==
    ASSUME StateInv, renumber
    PROVE  /\ KeepsClasses
           /\ \A i \in DOMAIN registry :
                 /\ registry'[i].sortkeys = registry[i].sortkeys
                 /\ i \in Elements(reflist) => registry'[i].seq = Last(Positions(reflist, i))
  BY NumberedFields DEF renumber, StateInv

LEMMA SortKeysFields ==
    ASSUME StateInv, setsortkeys
    PROVE  /\ KeepsClasses
           /\ \A i \in DOMAIN registry :
                 /\ registry'[i].seq = registry[i].seq
                 /\ i \in touched => registry'[i].sortkeys
                 /\ i \notin touched => registry'[i].sortkeys = registry[i].sortkeys
  <1>1. \A i \in DOMAIN registry : registry[i] \in Token
    BY DEF StateInv
  <1>2. registry' = [i \in DOMAIN registry |->
           IF i \in touched THEN [registry[i] EXCEPT !.sortkeys = TRUE] ELSE registry[i]]
    BY DEF setsortkeys
  <1>3. \A i \in DOMAIN registry :
           /\ registry'[i].ambig = registry[i].ambig
           /\ registry'[i].suffix = registry[i].suffix
           /\ registry'[i].seq = registry[i].seq
           /\ i \in touched => registry'[i].sortkeys
           /\ i \notin touched => registry'[i].sortkeys = registry[i].sortkeys
    BY <1>1, <1>2 DEF Token
  <1>4. QED
    BY <1>2, <1>3 DEF KeepsClasses

LEMMA DeletedFields ==
    ASSUME dodeletes
    PROVE  /\ DOMAIN registry' = DOMAIN registry \ Deleted
           /\ \A i \in DOMAIN registry' : registry'[i] = registry[i]
  BY DEF dodeletes

\* The items doinserts registers: all that are not, if nothing is missing.
Inserting ==
    LET new == {p \in DOMAIN mylist : mylist[p] \notin DOMAIN registry}
    IN  {mylist[p] : p \in {q \in new :
            \A f \in {r \in new : mylist[r] \in Missing} : q < f}}

LEMMA InsertedFields ==
    ASSUME StateInv, doinserts
    PROVE  /\ DOMAIN registry' = DOMAIN registry \cup Inserting
           /\ Inserting \cap DOMAIN registry = {}
           /\ Inserting \subseteq Elements(mylist)
           /\ \A i \in DOMAIN registry : registry'[i] = registry[i]
           /\ \A i \in Inserting : registry'[i] = NewToken(i)
           /\ ambigcites' = [c \in Cites |-> ambigcites[c] \cup {i \in Inserting : Cite[i] = c}]
           /\ akeys' = akeys \cup {Cite[i] : i \in Inserting}
           /\ touched' = touched \cup Inserting
  <1>1. /\ registry' = [i \in DOMAIN registry \cup Inserting |->
                  IF i \in Inserting THEN NewToken(i) ELSE registry[i]]
        /\ ambigcites' = [c \in Cites |-> ambigcites[c] \cup {i \in Inserting : Cite[i] = c}]
        /\ akeys' = akeys \cup {Cite[i] : i \in Inserting}
        /\ touched' = touched \cup Inserting
    BY Zenon DEF doinserts, Inserting
  <1>2. Inserting \cap DOMAIN registry = {} /\ Inserting \subseteq Elements(mylist)
    BY DEF Inserting, Elements
  <1> HIDE DEF Inserting
  <1>3. QED
    BY <1>1, <1>2

\* dorefreshes gives all items it refreshes the cite of one of them.
LEMMA RefreshedFields ==
    ASSUME StateInv, dorefreshes
    PROVE  \/ Refreshed = {} /\ UNCHANGED <<registry, pools, touched, taintedItemIDs>>
           \/ \E first \in Refreshed :
                 /\ DOMAIN registry' = DOMAIN registry
                 /\ \A i \in DOMAIN registry :
                       /\ registry'[i].seq = registry[i].seq
                       /\ i \notin Refreshed => registry'[i] = registry[i]
                       /\ i \in Refreshed => /\ registry'[i].ambig = Cite[first]
                                             /\ registry'[i].suffix = NoSuffix
                 /\ ambigcites' = Pooled(Cite[first], Refreshed)
                 /\ akeys' = akeys \cup {Cite[first]}
                 /\ touched' = touched \cup Refreshed
  <1>1. \A i \in DOMAIN registry : registry[i] \in Token
    BY DEF StateInv
  <1>2. ASSUME NEW first \in Refreshed,
               registry' = [i \in DOMAIN registry |->
                    IF i \in Refreshed
                    THEN [registry[i] EXCEPT !.ambig = Cite[first],
                             !.suffix = NoSuffix, !.sortkeys = FALSE]
                    ELSE registry[i]]
        PROVE  /\ DOMAIN registry' = DOMAIN registry
               /\ \A i \in DOMAIN registry :
                     /\ registry'[i].seq = registry[i].seq
                     /\ i \notin Refreshed => registry'[i] = registry[i]
                     /\ i \in Refreshed => /\ registry'[i].ambig = Cite[first]
                                           /\ registry'[i].suffix = NoSuffix
    BY <1>1, <1>2 DEF Token
  <1>3. QED
    BY <1>2 DEF dorefreshes

-----------------------------------------------------------------------------
(* Pools match cites. *)

\* An item of list l whose cite some item has that list m keeps.
KeepsPartner(l, m, i) == \E k \in Elements(l) \cap Elements(m) : Cite[k] = Cite[i]

\* Going from one list to another, items with partners that stay are only taken
\* from one class: dorefreshes would give the partners of all of them one cite.
OnePoolAtATime ==
    \A l, m \in Lists : \A i, j \in Elements(l) \ Elements(m) :
        KeepsPartner(l, m, i) /\ KeepsPartner(l, m, j) => Cite[i] = Cite[j]

\* Also the list that restoreProcessorState passes.
AllLists == Lists \cup {<<>>}

\* What was registered before dodeletes was on one list.
OnOneList == \E list \in AllLists : DOMAIN registry \subseteq Elements(list)

ClassInv ==
    /\ mylist \in AllLists
    /\ \A i \in DOMAIN registry : registry[i].ambig = Cite[i]
    /\ \A c \in Cites : ambigcites[c] = {i \in DOMAIN registry : Cite[i] = c}
    /\ \A i, j \in refreshes : Cite[i] = Cite[j]
    /\ IF call.at = "dodeletes" THEN OnOneList
       ELSE DOMAIN registry \subseteq Elements(mylist)

\* A call begins with its list, and what was registered was listed before.
LEMMA ClassCalls ==
    ASSUME RegisteredInv, ClassInv, Ready, NEW list \in AllLists, list \in Seq(Item),
           init(list, FALSE), call'.at = "dodeletes"
    PROVE  ClassInv'
  <1>1. mylist' = list /\ refreshes' = {} /\ UNCHANGED <<registry, ambigcites>>
    <2>1. list \o <<>> = list
      OBVIOUS
    <2>2. QED
      BY <2>1 DEF init, WithUncited, RegisteredInv, pools
  <1>2. DOMAIN registry \subseteq Elements(mylist)
    BY DEF ClassInv, Ready
  <1>3. OnOneList'
    BY <1>1, <1>2 DEF OnOneList, ClassInv
  <1>4. QED
    BY <1>1, <1>3 DEF ClassInv

\* What is left of the pools of deleted items is of one class.
LEMMA ClassDeletes ==
    ASSUME OnePoolAtATime, IInv, RegisteredInv, ClassInv, dodeletes
    PROVE  ClassInv'
  <1>1. /\ DOMAIN registry' = DOMAIN registry \ Deleted
        /\ \A i \in DOMAIN registry' : registry'[i] = registry[i]
        /\ ambigcites' = [c \in Cites |-> Left(c)]
        /\ refreshes' = UNION {Left(registry[i].ambig) : i \in Deleted}
        /\ mylist' = mylist
        /\ call.at = "dodeletes" /\ call'.at = "doinserts"
    BY DeletedFields DEF dodeletes, At, Continue, IInv, CallInv
  <1>2. Deleted = {i \in DOMAIN registry : i \notin Elements(mylist)}
    BY DEF Deleted, RegisteredInv
  <1>3. \A c \in Cites : Left(c) = {i \in DOMAIN registry : Cite[i] = c /\ i \notin Deleted}
    BY <1>2 DEF Left, ClassInv
  <1>4. \A i \in Deleted : registry[i].ambig = Cite[i] /\ Cite[i] \in Cites
    BY <1>2 DEF ClassInv, IInv, StateInv, Cites
  <1>5. PICK l \in AllLists : DOMAIN registry \subseteq Elements(l)
    BY <1>1 DEF ClassInv, OnOneList
  <1>6. ASSUME NEW k \in refreshes'
        PROVE  \E i \in Deleted : /\ Cite[i] = Cite[k]
                                  /\ l \in Lists /\ mylist \in Lists
                                  /\ i \in Elements(l) \ Elements(mylist)
                                  /\ KeepsPartner(l, mylist, i)
    <2>1. PICK i \in Deleted : k \in Left(Cite[i])
      BY <1>1, <1>4
    <2>2. k \in DOMAIN registry /\ Cite[k] = Cite[i] /\ k \in Elements(mylist)
      BY <1>2, <1>3, <1>4, <2>1
    <2>3. k \in Elements(l) /\ i \in Elements(l) \ Elements(mylist)
      BY <1>2, <1>5, <2>2
    <2>4. KeepsPartner(l, mylist, i)
      BY <2>2, <2>3 DEF KeepsPartner
    <2>5. l \in Lists /\ mylist \in Lists
      <3>1. Elements(<<>>) = {}
        BY DEF Elements
      <3>2. QED
        BY <3>1, <2>2, <2>3 DEF ClassInv, AllLists
    <2>6. QED
      BY <2>2, <2>3, <2>4, <2>5
  <1>7. \A j, k \in refreshes' : Cite[j] = Cite[k]
    BY <1>6 DEF OnePoolAtATime
  <1>8. \A c \in Cites : ambigcites'[c] = {i \in DOMAIN registry' : Cite[i] = c}
    BY <1>1, <1>3
  <1>9. \A i \in DOMAIN registry' : registry'[i].ambig = Cite[i]
    BY <1>1 DEF ClassInv
  <1>10. DOMAIN registry' \subseteq Elements(mylist')
    BY <1>1, <1>2
  <1>11. QED
    BY <1>1, <1>7, <1>8, <1>9, <1>10 DEF ClassInv

LEMMA ClassInserts ==
    ASSUME IInv, ClassInv, doinserts
    PROVE  ClassInv'
  <1>1. /\ DOMAIN registry' = DOMAIN registry \cup Inserting
        /\ Inserting \subseteq Elements(mylist)
        /\ \A i \in DOMAIN registry : registry'[i] = registry[i]
        /\ \A i \in Inserting : registry'[i] = NewToken(i)
        /\ ambigcites' = [c \in Cites |-> ambigcites[c] \cup {i \in Inserting : Cite[i] = c}]
    BY InsertedFields DEF IInv
  <1>2. mylist' = mylist /\ refreshes' = refreshes
    BY DEF doinserts
  <1>3. call.at = "doinserts" /\ call'.at # "dodeletes"
    BY DEF doinserts, At, Continue, IInv, CallInv
  <1>4. \A i \in DOMAIN registry' : registry'[i].ambig = Cite[i]
    BY <1>1 DEF NewToken, ClassInv
  <1>5. \A c \in Cites : ambigcites'[c] = {i \in DOMAIN registry' : Cite[i] = c}
    BY <1>1 DEF ClassInv
  <1>6. DOMAIN registry' \subseteq Elements(mylist')
    BY <1>1, <1>2, <1>3 DEF ClassInv
  <1>7. QED
    BY <1>2, <1>3, <1>4, <1>5, <1>6 DEF ClassInv

\* The cite dorefreshes gives to all is the one each of them has.
LEMMA ClassRefreshes ==
    ASSUME IInv, ClassInv, dorefreshes
    PROVE  ClassInv'
  <1>1. /\ UNCHANGED <<mylist, refreshes>>
        /\ call.at = "dorefreshes" /\ call'.at = "rebuildlist"
    BY DEF dorefreshes, At, Continue, IInv, CallInv
  <1>2. CASE UNCHANGED <<registry, pools>>
    BY <1>1, <1>2 DEF ClassInv, pools
  <1>3. ASSUME NEW first \in Refreshed,
               DOMAIN registry' = DOMAIN registry,
               \A i \in DOMAIN registry :
                  /\ i \notin Refreshed => registry'[i] = registry[i]
                  /\ i \in Refreshed => registry'[i].ambig = Cite[first],
               ambigcites' = Pooled(Cite[first], Refreshed)
        PROVE  ClassInv'
    <2>1. Refreshed \subseteq refreshes /\ Refreshed \subseteq DOMAIN registry
      BY DEF Refreshed
    <2>2. \A i \in Refreshed : Cite[i] = Cite[first]
      BY <2>1 DEF ClassInv
    <2>3. \A i \in DOMAIN registry : registry'[i].ambig = Cite[i]
      BY <1>3, <2>2 DEF ClassInv
    <2>4. ambigcites' = ambigcites
      <3>1. Cite[first] \in Cites /\ ambigcites \in [Cites -> SUBSET Item]
        BY <2>1 DEF Cites, IInv, StateInv
      <3>2. Refreshed \subseteq ambigcites[Cite[first]]
        BY <2>1, <2>2, <3>1 DEF ClassInv
      <3>3. QED
        BY <1>3, <3>1, <3>2 DEF Pooled
    <2>5. QED
      BY <1>1, <1>3, <2>3, <2>4 DEF ClassInv
  <1>4. QED
    <2>1. StateInv
      BY DEF IInv
    <2>2. \/ UNCHANGED <<registry, pools>>
          \/ \E first \in Refreshed :
                 /\ DOMAIN registry' = DOMAIN registry
                 /\ \A i \in DOMAIN registry :
                       /\ i \notin Refreshed => registry'[i] = registry[i]
                       /\ i \in Refreshed => registry'[i].ambig = Cite[first]
                 /\ ambigcites' = Pooled(Cite[first], Refreshed)
      BY <2>1, RefreshedFields
    <2>3. QED
      BY <1>2, <1>3, <2>2

\* A step that changes neither pools nor lists, and keeps the ambig fields.
LEMMA ClassKept ==
    ASSUME ClassInv, DOMAIN registry' = DOMAIN registry,
           \A i \in DOMAIN registry : registry'[i].ambig = registry[i].ambig,
           UNCHANGED <<mylist, refreshes, ambigcites>>,
           call.at # "dodeletes", call'.at # "dodeletes"
    PROVE  ClassInv'
  BY DEF ClassInv

\* disYears puts into the pool only items that are in it already.
LEMMA ClassDisambiguates ==
    ASSUME IInv, ClassInv, DisambiguatePool
    PROVE  ClassInv'
  <1>1. PICK akey \in call.todo :
          \/ UNCHANGED registry
          \/ /\ captured = Undefined
             /\ \E ids \in InOrder(disambiguated[akey]),
                   tokens \in Sorted(Arrangements(disambiguated[akey] \cap DOMAIN registry)) :
                      disYears(akey, ids, tokens)
    BY DEF DisambiguatePool
  <1>2. akey \in Cites
    BY DEF IInv, CallInv
  <1>3. /\ UNCHANGED <<mylist, refreshes, ambigcites>>
        /\ call.at # "dodeletes" /\ call'.at # "dodeletes"
    <2>1. /\ UNCHANGED <<mylist, refreshes, ambigcites>> /\ At("setdisambigs")
          /\ \/ \E a : call' = [call EXCEPT !.todo = @ \ {a}]
             \/ Throw
      BY DEF DisambiguatePool, disYears, pools
    <2>2. QED
      BY <2>1 DEF At, Throw, IInv, CallInv
  <1>4. CASE UNCHANGED registry
    BY <1>3, <1>4, ClassKept
  <1>5. ASSUME captured = Undefined, NEW ids \in InOrder(disambiguated[akey]),
               NEW tokens \in Sorted(Arrangements(disambiguated[akey] \cap DOMAIN registry)),
               disYears(akey, ids, tokens)
        PROVE  ClassInv'
    <2>1. Elements(tokens) \subseteq {i \in DOMAIN registry : Cite[i] = akey}
      <3>1. disambiguated[akey] = {i \in DOMAIN registry : Cite[i] = akey}
        BY <1>2, <1>5 DEF disambiguated, ClassInv
      <3>2. tokens \in Arrangements(disambiguated[akey] \cap DOMAIN registry)
        BY <1>5 DEF Sorted
      <3>3. QED
        BY <3>1, <3>2 DEF Arrangements, Elements
    <2>2. ASSUME NEW i \in DOMAIN registry
          PROVE  registry'[i].ambig = registry[i].ambig
      <3>1. registry[i] \in Token /\ registry[i].ambig = Cite[i]
        BY DEF IInv, StateInv, ClassInv
      <3>2. \/ registry'[i] = registry[i]
            \/ /\ i \in Elements(tokens)
               /\ \/ registry'[i] = [registry[i] EXCEPT !.ambig = akey]
                  \/ registry'[i] = [registry[i] EXCEPT !.ambig = akey,
                                       !.suffix = SuffixOf(tokens, i)]
        BY <1>5 DEF disYears
      <3>3. /\ [registry[i] EXCEPT !.ambig = akey].ambig = akey
            /\ \A n : [registry[i] EXCEPT !.ambig = akey, !.suffix = n].ambig = akey
        BY <3>1 DEF Token
      <3>4. i \in Elements(tokens) => registry[i].ambig = akey
        BY <2>1, <3>1
      <3>5. QED
        BY <3>2, <3>3, <3>4, Zenon
    <2>3. DOMAIN registry' = DOMAIN registry
      BY <1>5 DEF disYears
    <2>4. QED
      BY <1>3, <2>2, <2>3, ClassKept
  <1>6. QED
    BY <1>1, <1>4, <1>5

LEMMA ClassNext ==
    ASSUME UncitedLists = {}, OnePoolAtATime
    PROVE  IInv /\ RegisteredInv /\ ClassInv /\ [Next]_vars => ClassInv'
  <1> SUFFICES ASSUME IInv, RegisteredInv, ClassInv, [Next]_vars PROVE ClassInv'
    OBVIOUS
  <1>1. CASE \E list \in Lists, nosort \in NoSortFlags : UpdateItems(list, nosort)
    <2>1. PICK list \in Lists, nosort \in NoSortFlags : UpdateItems(list, nosort)
      BY <1>1
    <2>2. /\ Ready /\ init(list, FALSE) /\ call'.at = "dodeletes"
          /\ list \in AllLists /\ list \in Seq(Item)
      BY <2>1, BoundAssumption DEF UpdateItems, Begin, AllLists
    <2>3. QED
      BY <2>2, ClassCalls
  <1>2. CASE \E list \in Lists : ClusterUpdate(list)
    <2>1. PICK list \in Lists : ClusterUpdate(list)
      BY <1>2
    <2>2. /\ Ready /\ init(list, FALSE) /\ call'.at = "dodeletes"
          /\ list \in AllLists /\ list \in Seq(Item)
      BY <2>1, BoundAssumption DEF ClusterUpdate, Begin, AllLists
    <2>3. QED
      BY <2>2, ClassCalls
  <1>3. CASE RestoreEmptyState
    <2>1. Ready /\ init(<<>>, FALSE) /\ call'.at = "dodeletes"
      BY <1>3 DEF RestoreEmptyState, Begin
    <2>2. <<>> \in AllLists /\ <<>> \in Seq(Item)
      BY DEF AllLists
    <2>3. QED
      BY <2>1, <2>2, ClassCalls
  <1>4. CASE dodeletes \/ doinserts \/ dorefreshes \/ DisambiguatePool
    BY <1>4, ClassDeletes, ClassInserts, ClassRefreshes, ClassDisambiguates
  <1>5. CASE douncited
    BY <1>5 DEF douncited, At, RegisteredInv
  <1>6. CASE rebuildlist \/ setsortkeys \/ renumber
    <2>1. /\ DOMAIN registry' = DOMAIN registry
          /\ \A i \in DOMAIN registry : registry'[i].ambig = registry[i].ambig
      BY <1>6, RebuildFields, SortKeysFields, RenumberFields DEF KeepsClasses, IInv
    <2>2. /\ UNCHANGED <<mylist, refreshes, ambigcites>>
          /\ call.at # "dodeletes" /\ call'.at # "dodeletes"
      BY <1>6 DEF rebuildlist, setsortkeys, renumber, pools, At, Continue, IInv, CallInv
    <2>3. QED
      BY <2>1, <2>2, ClassKept
  <1>7. CASE DisambiguationDone \/ sorttokens
    <2>1. /\ UNCHANGED <<registry, mylist, refreshes, ambigcites>>
          /\ call.at # "dodeletes" /\ call'.at # "dodeletes"
      BY <1>7 DEF DisambiguationDone, sorttokens, pools, At, Continue, IInv, CallInv
    <2>2. QED
      BY <2>1, ClassKept
  <1>8. CASE Reset
    <2>1. /\ mylist' = <<>> /\ registry' = <<>> /\ refreshes' = {}
          /\ ambigcites' = [c \in Cites |-> {}] /\ call'.at = "returned"
      BY <1>8 DEF Reset, Continue, IInv, CallInv
    <2>2. DOMAIN registry' = {}
      BY <2>1
    <2>3. QED
      BY <2>1, <2>2 DEF ClassInv, AllLists
  <1>9. CASE UNCHANGED vars
    BY <1>9 DEF ClassInv, OnOneList, vars, pools
  <1>10. QED
    BY <1>1, <1>2, <1>3, <1>4, <1>5, <1>6, <1>7, <1>8, <1>9 DEF Next

LEMMA ClassInit == Init => ClassInv
  <1> SUFFICES ASSUME Init PROVE ClassInv
    OBVIOUS
  <1>1. DOMAIN registry = {}
    BY DEF Init
  <1>2. QED
    BY <1>1 DEF Init, ClassInv, AllLists

\* registerAmbigToken and dodeletes: as long as nobody calls updateUncitedItems
\* and no list takes from two pools items with partners that stay, the pool of a
\* cite is, between calls, the registered items that render to it.  This holds
\* after calls that threw and after a reset, too.
THEOREM PoolSafetyOfClasses ==
    ASSUME UncitedLists = {}, OnePoolAtATime
    PROVE  Spec => []PoolsMatchCites
  <1>1. Init => RegisteredInv
    BY DEF Init, RegisteredInv, Elements, Inserted, Methods
  <1>2. IInv /\ RegisteredInv /\ [Next]_vars => RegisteredInv'
    BY RegisteredNext
  <1>3. IInv /\ RegisteredInv /\ ClassInv /\ [Next]_vars => ClassInv'
    BY ClassNext
  <1>4. ClassInv => PoolsMatchCites
    BY DEF ClassInv, PoolsMatchCites
  <1>5. QED
    BY <1>1, <1>2, <1>3, <1>4, ClassInit, InvariantHolds, PTL DEF Spec

-----------------------------------------------------------------------------
(* Suffixes.  A throw drops the refreshes of the call, and a reset leaves  *)
(* disYears with the old pools, so nothing is to be missing and the        *)
(* processor is not to be reset.                                           *)

Undisturbed == UncitedLists = {} /\ OnePoolAtATime /\ Missing = {} /\ ~MayReset

\* Then no call throws.
CalmInv ==
    /\ captured = Undefined
    /\ call.fn # "restoreProcessorState"
    /\ call.at \notin {"threw", "reset"}

Pool(c) == {i \in DOMAIN registry : Cite[i] = c}

\* The suffixes of a class of n look-alikes.
Numbering(n) == IF n = 1 THEN {NoSuffix} ELSE 0 .. n - 1

Counted(c) == {registry[i].suffix : i \in Pool(c)} = Numbering(Cardinality(Pool(c)))

\* disYears does nothing to a pool of one: its item must have no suffix already.
Fresh(c) == Cardinality(Pool(c)) = 1 => \A i \in Pool(c) : registry[i].suffix = NoSuffix

\* Between calls every class is numbered.  In a call, a class that is not is
\* one that dorefreshes or disYears will come to.
SuffixInv ==
    /\ call.at \in {"returned", "dodeletes", "sorttokens", "renumber"} =>
          akeys = {} /\ \A c \in Cites : Counted(c)
    /\ call.at = "doinserts" =>
          akeys = {} /\ \A c \in Cites : Counted(c) \/ Pool(c) \subseteq refreshes
    /\ call.at = "dorefreshes" => \A c \in Cites :
          Counted(c) \/ (c \in akeys /\ Fresh(c)) \/ Pool(c) \cap refreshes # {}
    /\ call.at \in {"rebuildlist", "setsortkeys"} => \A c \in Cites :
          Counted(c) \/ (c \in akeys /\ Fresh(c))
    /\ call.at = "setdisambigs" => \A c \in Cites :
          Counted(c) \/ (c \in call.todo /\ Fresh(c))

LEMMA PoolsAreFinite ==
    ASSUME StateInv, NEW c
    PROVE  IsFiniteSet(Pool(c)) /\ Cardinality(Pool(c)) \in Nat
  <1>1. Pool(c) \in SUBSET Item /\ IsFiniteSet(Item)
    BY ItemAssumption DEF Pool, StateInv
  <1>2. QED
    BY <1>1, FS_Subset, FS_CardinalityType

\* A class whose items and suffixes stay is numbered as it was.
LEMMA SameClass ==
    ASSUME NEW c, Pool(c)' = Pool(c),
           \A i \in Pool(c) : registry'[i].suffix = registry[i].suffix
    PROVE  (Counted(c) => Counted(c)') /\ (Fresh(c) => Fresh(c)')
  <1>1. {registry'[i].suffix : i \in Pool(c)} = {registry[i].suffix : i \in Pool(c)}
    OBVIOUS
  <1>2. (Counted(c) => Counted(c)')
    BY <1>1 DEF Counted
  <1>3. (Fresh(c) => Fresh(c)')
    BY DEF Fresh
  <1>4. QED
    BY <1>2, <1>3

LEMMA AllSame ==
    ASSUME KeepsClasses, NEW c
    PROVE  /\ Pool(c)' = Pool(c)
           /\ Counted(c) => Counted(c)'
           /\ Fresh(c) => Fresh(c)'
  <1>1. /\ Pool(c)' = Pool(c)
        /\ \A i \in Pool(c) : registry'[i].suffix = registry[i].suffix
    BY DEF KeepsClasses, Pool
  <1>2. QED
    BY <1>1, SameClass

\* An empty class is numbered, and so is one item without a suffix.
LEMMA SmallClasses ==
    ASSUME StateInv, NEW c, Cardinality(Pool(c)) <= 1,
           Counted(c) \/ Fresh(c) \/ Pool(c) = {}
    PROVE  Counted(c)
  <1>1. IsFiniteSet(Pool(c)) /\ Cardinality(Pool(c)) \in Nat
    BY PoolsAreFinite
  <1>2. CASE Pool(c) = {}
    <2>1. Cardinality(Pool(c)) = 0
      BY <1>2, FS_EmptySet
    <2>2. {registry[i].suffix : i \in Pool(c)} = {}
      BY <1>2
    <2>3. Numbering(0) = {}
      BY DEF Numbering
    <2>4. QED
      BY <2>1, <2>2, <2>3, Zenon DEF Counted
  <1>3. CASE Pool(c) # {} /\ Fresh(c)
    <2>1. Cardinality(Pool(c)) = 1
      BY <1>1, <1>3, FS_EmptySet
    <2>2. {registry[i].suffix : i \in Pool(c)} = {NoSuffix}
      BY <1>3, <2>1 DEF Fresh
    <2>3. QED
      BY <2>1, <2>2 DEF Counted, Numbering
  <1>4. QED
    BY <1>2, <1>3

\* The places of an arrangement of a finite set, counted from 0.
LEMMA ArrangedSuffixes ==
    ASSUME NEW S, IsFiniteSet(S), NEW tokens \in Arrangements(S)
    PROVE  /\ Elements(tokens) = S
           /\ {SuffixOf(tokens, i) : i \in S} = 0 .. Cardinality(S) - 1
  <1>1. PICK n \in Nat : n = Cardinality(S)
    BY FS_CardinalityType
  <1>2. /\ tokens \in [1 .. n -> S]
        /\ \A j, k \in 1 .. n : tokens[j] = tokens[k] => j = k
    BY <1>1 DEF Arrangements
  <1>3. tokens \in Surjection(1 .. n, S)
    <2>1. tokens \in Injection(1 .. n, S)
      BY <1>2 DEF Injection, IsInjective
    <2>2. Cardinality(1 .. n) = n
      BY FS_Interval
    <2>3. QED
      BY <1>1, <2>1, <2>2, FS_Injection
  <1>4. Elements(tokens) = S
    BY <1>2, <1>3 DEF Elements, Surjection
  <1>5. ASSUME NEW p \in 1 .. n PROVE SuffixOf(tokens, tokens[p]) = p - 1
    <2>1. \A q \in DOMAIN tokens : tokens[q] = tokens[p] <=> q = p
      BY <1>2
    <2>2. p \in DOMAIN tokens
      BY <1>2
    <2>3. (CHOOSE q \in DOMAIN tokens : tokens[q] = tokens[p]) = p
      BY <2>1, <2>2
    <2>4. QED
      BY <2>3 DEF SuffixOf
  <1>6. \A i \in S : SuffixOf(tokens, i) \in 0 .. n - 1
    <2>1. \A i \in S : \E p \in 1 .. n : tokens[p] = i
      BY <1>3 DEF Surjection
    <2>2. QED
      BY <1>5, <2>1
  <1>7. \A m \in 0 .. n - 1 : \E i \in S : SuffixOf(tokens, i) = m
    <2>1. SUFFICES ASSUME NEW m \in 0 .. n - 1
                   PROVE  \E i \in S : SuffixOf(tokens, i) = m
      OBVIOUS
    <2>2. m + 1 \in 1 .. n /\ m + 1 - 1 = m
      OBVIOUS
    <2>3. SuffixOf(tokens, tokens[m + 1]) = m /\ tokens[m + 1] \in S
      BY <1>2, <1>5, <2>2
    <2>4. QED
      BY <2>3
  <1> HIDE DEF SuffixOf
  <1>8. QED
    BY <1>1, <1>4, <1>6, <1>7

\* Under ClassInv a registered pool is the class, and no member of it is gone.
LEMMA CountedByDisYears ==
    ASSUME IInv, ClassInv, CalmInv, NEW akey \in Cites,
           NEW ids \in InOrder(disambiguated[akey]),
           NEW tokens \in Sorted(Arrangements(disambiguated[akey] \cap DOMAIN registry)),
           disYears(akey, ids, tokens), Cardinality(disambiguated[akey]) > 1
    PROVE  /\ DOMAIN registry' = DOMAIN registry
           /\ Counted(akey)'
           /\ tokens \in Arrangements(Pool(akey))
           /\ \A i \in Pool(akey) : registry'[i].suffix = SuffixOf(tokens, i)
           /\ \A i \in DOMAIN registry : i \notin Pool(akey) => registry'[i] = registry[i]
           /\ call' = [call EXCEPT !.todo = @ \ {akey}]
  <1>1. /\ disambiguated[akey] = Pool(akey)
        /\ disambiguated[akey] \cap DOMAIN registry = Pool(akey)
    BY DEF disambiguated, CalmInv, ClassInv, Pool
  <1>2. IsFiniteSet(Pool(akey)) /\ Cardinality(Pool(akey)) \in Nat
    BY PoolsAreFinite DEF IInv
  <1>3. tokens \in Arrangements(Pool(akey))
    BY <1>1 DEF Sorted
  <1>4. /\ Elements(tokens) = Pool(akey)
        /\ {SuffixOf(tokens, i) : i \in Pool(akey)} = 0 .. Cardinality(Pool(akey)) - 1
    BY <1>2, <1>3, ArrangedSuffixes
  <1>5. Elements(ids) \ DOMAIN registry = {}
    BY <1>1 DEF InOrder, Elements, Pool
  <1>6. /\ registry' = [i \in DOMAIN registry |->
               IF i \notin Elements(tokens) THEN registry[i]
               ELSE [registry[i] EXCEPT !.ambig = akey,
                        !.suffix = SuffixOf(tokens, i)]]
        /\ call' = [call EXCEPT !.todo = @ \ {akey}]
    BY <1>5 DEF disYears
  <1>7. \A i \in Pool(akey) : registry'[i].suffix = SuffixOf(tokens, i)
    <2>1. SUFFICES ASSUME NEW i \in Pool(akey)
                   PROVE  registry'[i].suffix = SuffixOf(tokens, i)
      OBVIOUS
    <2>2. i \in DOMAIN registry /\ registry[i] \in Token
      BY DEF Pool, IInv, StateInv
    <2>3. \A n : [registry[i] EXCEPT !.ambig = akey, !.suffix = n].suffix = n
      BY <2>2 DEF Token
    <2>4. registry'[i] = [registry[i] EXCEPT !.ambig = akey,
                              !.suffix = SuffixOf(tokens, i)]
      BY <1>4, <1>6, <2>2
    <2>5. QED
      BY <2>3, <2>4, Zenon
  <1>8. Pool(akey)' = Pool(akey)
    BY <1>6 DEF Pool
  <1>9. Counted(akey)'
    <2>1. {registry'[i].suffix : i \in Pool(akey)} = {SuffixOf(tokens, i) : i \in Pool(akey)}
      BY <1>7
    <2>2. Cardinality(Pool(akey)) # 1
      BY <1>1, <1>2
    <2>3. QED
      BY <1>4, <1>8, <2>1, <2>2 DEF Counted, Numbering
  <1>10. QED
    BY <1>3, <1>4, <1>6, <1>7, <1>9

LEMMA CalmNext ==
    ASSUME Undisturbed
    PROVE  IInv /\ RegisteredInv /\ ClassInv /\ CalmInv /\ [Next]_vars => CalmInv'
  <1> SUFFICES ASSUME IInv, RegisteredInv, ClassInv, CalmInv, [Next]_vars PROVE CalmInv'
    OBVIOUS
  <1>1. CASE \E list \in Lists, nosort \in NoSortFlags : UpdateItems(list, nosort)
    BY <1>1 DEF UpdateItems, Begin, init, CalmInv
  <1>2. CASE \E list \in Lists : ClusterUpdate(list)
    BY <1>2 DEF ClusterUpdate, Begin, init, CalmInv
  <1>3. ~RestoreEmptyState /\ ~Reset /\ ~douncited
    BY DEF RestoreEmptyState, Undisturbed, Reset, douncited, At, CalmInv, RegisteredInv
  <1>4. CASE doinserts
    <2>1. {p \in {q \in DOMAIN mylist : mylist[q] \notin DOMAIN registry} :
              mylist[p] \in Missing} = {}
      BY DEF Undisturbed
    <2>2. captured' = captured /\ call' = [call EXCEPT !.at = "dorefreshes"]
      BY <1>4, <2>1 DEF doinserts, Continue, RegisteredInv
    <2>3. QED
      BY <2>2 DEF CalmInv, IInv, CallInv
  <1>5. CASE dodeletes \/ dorefreshes \/ rebuildlist \/ sorttokens
    BY <1>5 DEF dodeletes, dorefreshes, rebuildlist, sorttokens, Continue, CalmInv,
                IInv, CallInv
  <1>6. CASE setsortkeys
    BY <1>6 DEF setsortkeys, CalmInv, IInv, CallInv
  <1>7. CASE DisambiguationDone
    BY <1>7 DEF DisambiguationDone, Continue, CalmInv, IInv, CallInv
  <1>8. CASE renumber
    BY <1>8 DEF renumber, Continue, CalmInv, IInv, CallInv
  <1>9. CASE DisambiguatePool
    <2>1. PICK akey \in call.todo :
            \/ call' = [call EXCEPT !.todo = @ \ {akey}]
            \/ /\ Cardinality(disambiguated[akey]) > 1
               /\ \/ captured # Undefined
                  \/ disambiguated[akey] \cap DOMAIN registry = {}
                  \/ \E ids \in InOrder(disambiguated[akey]),
                        tokens \in Sorted(Arrangements(disambiguated[akey] \cap DOMAIN registry)) :
                           disYears(akey, ids, tokens)
      BY <1>9 DEF DisambiguatePool
    <2>2. akey \in Cites /\ captured = Undefined
      BY DEF IInv, CallInv, CalmInv
    <2>3. disambiguated[akey] = Pool(akey) /\ Pool(akey) \subseteq DOMAIN registry
      BY <2>2 DEF disambiguated, ClassInv, Pool
    <2>4. call' = [call EXCEPT !.todo = @ \ {akey}]
      <3>1. CASE disambiguated[akey] \cap DOMAIN registry = {} /\ Cardinality(disambiguated[akey]) > 1
        <4>1. Pool(akey) = {}
          BY <2>3, <3>1
        <4>2. QED
          BY <2>3, <3>1, <4>1, FS_EmptySet
      <3>2. QED
        BY <2>1, <2>2, <3>1, CountedByDisYears
    <2>5. captured' = captured
      BY <1>9 DEF DisambiguatePool
    <2>6. QED
      BY <2>4, <2>5 DEF CalmInv, IInv, CallInv
  <1>10. CASE UNCHANGED vars
    BY <1>10 DEF CalmInv, vars
  <1>11. QED
    BY <1>1, <1>2, <1>3, <1>4, <1>5, <1>6, <1>7, <1>8, <1>9, <1>10 DEF Next, Undisturbed

\* A call is only begun when all classes are numbered.
LEMMA SuffixCalls ==
    ASSUME CalmInv, SuffixInv, Ready, NEW list, init(list, FALSE), call'.at = "dodeletes"
    PROVE  SuffixInv'
  <1>1. UNCHANGED <<registry, akeys>> /\ call.at = "returned"
    BY DEF init, pools, Ready, CalmInv
  <1>2. \A c \in Cites : Counted(c)'
    BY <1>1, AllSame DEF SuffixInv, KeepsClasses
  <1>3. QED
    BY <1>1, <1>2 DEF SuffixInv

\* A class that loses an item is refreshed, if anything is left of it.
LEMMA SuffixDeletes ==
    ASSUME IInv, RegisteredInv, ClassInv, SuffixInv, dodeletes
    PROVE  SuffixInv'
  <1>1. /\ DOMAIN registry' = DOMAIN registry \ Deleted
        /\ \A i \in DOMAIN registry' : registry'[i] = registry[i]
    BY DeletedFields
  <1>2. /\ refreshes' = UNION {Left(registry[i].ambig) : i \in Deleted}
        /\ akeys' = akeys
        /\ call.at = "dodeletes" /\ call'.at = "doinserts"
    BY DEF dodeletes, At, Continue, IInv, CallInv
  <1>3. akeys = {} /\ \A c \in Cites : Counted(c)
    BY <1>2 DEF SuffixInv
  <1>4. ASSUME NEW c \in Cites
        PROVE  Counted(c)' \/ (Pool(c) \subseteq refreshes)'
    <2>1. CASE \E i \in Deleted : Cite[i] = c
      <3>1. PICK i \in Deleted : Cite[i] = c
        BY <2>1
      <3>2. registry[i].ambig = c
        BY <3>1 DEF Deleted, ClassInv
      <3>3. Pool(c)' \subseteq Left(c)
        BY <1>1 DEF Pool, Left, ClassInv
      <3>4. QED
        BY <1>2, <3>2, <3>3
    <2>2. CASE \A i \in Deleted : Cite[i] # c
      <3>1. Pool(c)' = Pool(c)
        BY <1>1, <2>2 DEF Pool
      <3>2. \A i \in Pool(c) : registry'[i].suffix = registry[i].suffix
        BY <1>1, <2>2 DEF Pool
      <3>3. QED
        BY <1>3, <3>1, <3>2, SameClass
    <2>3. QED
      BY <2>1, <2>2
  <1>5. QED
    BY <1>2, <1>3, <1>4 DEF SuffixInv

\* A class that gains an item is to be disambiguated.
LEMMA SuffixInserts ==
    ASSUME IInv, SuffixInv, doinserts
    PROVE  SuffixInv'
  <1>1. /\ DOMAIN registry' = DOMAIN registry \cup Inserting
        /\ Inserting \cap DOMAIN registry = {}
        /\ \A i \in DOMAIN registry : registry'[i] = registry[i]
        /\ \A i \in Inserting : registry'[i] = NewToken(i)
        /\ akeys' = akeys \cup {Cite[i] : i \in Inserting}
    BY InsertedFields DEF IInv
  <1>2. refreshes' = refreshes
    BY DEF doinserts
  <1>3. call.at = "doinserts"
    BY DEF doinserts, At
  <1>4. call'.at \in {"dorefreshes", "douncited", "threw"}
    BY DEF doinserts, Continue, IInv, CallInv
  <1>5. \A c \in Cites : Counted(c) \/ Pool(c) \subseteq refreshes
    BY <1>3 DEF SuffixInv
  <1>6. ASSUME NEW c \in Cites
        PROVE  Counted(c)' \/ (c \in akeys' /\ Fresh(c)') \/ Pool(c)' \cap refreshes' # {}
    <2>1. CASE \E i \in Inserting : Cite[i] = c
      <3>1. PICK i \in Inserting : Cite[i] = c
        BY <2>1
      <3>2. c \in akeys' /\ i \in Pool(c)' /\ registry'[i].suffix = NoSuffix
        BY <1>1, <3>1 DEF Pool, NewToken
      <3>3. ASSUME Cardinality(Pool(c)') = 1 PROVE \A j \in Pool(c)' : j = i
        <4>1. StateInv'
          BY InsertsInv DEF IInv
        <4>2. IsFiniteSet(Pool(c)')
          <5>1. Pool(c)' \in SUBSET Item /\ IsFiniteSet(Item)
            BY <4>1, ItemAssumption DEF Pool, StateInv
          <5>2. QED
            BY <5>1, FS_Subset
        <4>3. PICK x : Pool(c)' = {x}
          BY <3>3, <4>2, FS_Singleton
        <4>4. QED
          BY <3>2, <4>3
      <3>4. Fresh(c)'
        BY <3>2, <3>3 DEF Fresh
      <3>5. QED
        BY <3>2, <3>4
    <2>2. CASE \A i \in Inserting : Cite[i] # c
      <3>1. Pool(c)' = Pool(c)
        BY <1>1, <2>2 DEF Pool
      <3>2. \A i \in Pool(c) : registry'[i].suffix = registry[i].suffix
        BY <1>1 DEF Pool
      <3>3. CASE Counted(c)
        BY <3>1, <3>2, <3>3, SameClass
      <3>4. CASE Pool(c) \subseteq refreshes /\ Pool(c) # {}
        BY <1>2, <3>1, <3>4
      <3>5. CASE Pool(c) = {}
        <4>1. StateInv
          BY DEF IInv
        <4>2. Cardinality(Pool(c)) <= 1
          BY <3>5, FS_EmptySet
        <4>3. Counted(c)
          BY <3>5, <4>1, <4>2, SmallClasses
        <4>4. QED
          BY <3>1, <3>2, <4>3, SameClass
      <3>6. QED
        BY <1>5, <3>3, <3>4, <3>5
    <2>3. QED
      BY <2>1, <2>2
  <1>7. QED
    BY <1>4, <1>6 DEF SuffixInv

\* The one class that is refreshed is to be disambiguated, and has no suffixes
\* if one item is left of it.
LEMMA SuffixRefreshes ==
    ASSUME IInv, ClassInv, SuffixInv, dorefreshes
    PROVE  SuffixInv'
  <1>1. call.at = "dorefreshes" /\ call'.at = "rebuildlist"
    BY DEF dorefreshes, At, Continue, IInv, CallInv
  <1>2. \A c \in Cites : \/ Counted(c) \/ (c \in akeys /\ Fresh(c))
                         \/ Pool(c) \cap refreshes # {}
    BY <1>1 DEF SuffixInv
  <1>3. \A c \in Cites : Pool(c) \cap refreshes \subseteq Refreshed
    BY DEF Pool, Refreshed
  <1>4. CASE Refreshed = {} /\ UNCHANGED <<registry, pools>>
    <2>1. \A c \in Cites : Counted(c)' \/ (c \in akeys' /\ Fresh(c)')
      BY <1>2, <1>3, <1>4, AllSame DEF KeepsClasses, pools
    <2>2. QED
      BY <1>1, <2>1 DEF SuffixInv
  <1>5. ASSUME NEW first \in Refreshed,
               DOMAIN registry' = DOMAIN registry,
               \A i \in DOMAIN registry :
                  /\ i \notin Refreshed => registry'[i] = registry[i]
                  /\ i \in Refreshed => registry'[i].suffix = NoSuffix,
               akeys' = akeys \cup {Cite[first]}
        PROVE  SuffixInv'
    <2>1. \A i \in Refreshed : i \in DOMAIN registry /\ Cite[i] = Cite[first]
      BY DEF Refreshed, ClassInv
    <2>2. \A c : Pool(c)' = Pool(c)
      BY <1>5 DEF Pool
    <2>3. ASSUME NEW c \in Cites
          PROVE  Counted(c)' \/ (c \in akeys' /\ Fresh(c)')
      <3>1. CASE c # Cite[first]
        <4>1. \A i \in Pool(c) : registry'[i].suffix = registry[i].suffix
          BY <1>5, <2>1, <3>1 DEF Pool
        <4>2. Pool(c) \cap refreshes = {}
          BY <1>3, <2>1, <3>1 DEF Pool
        <4>3. (Counted(c) => Counted(c)') /\ (Fresh(c) => Fresh(c)')
          BY <2>2, <4>1, SameClass
        <4>4. QED
          BY <1>2, <1>5, <4>2, <4>3
      <3>2. CASE c = Cite[first]
        <4>1. first \in Pool(c)
          BY <2>1, <3>2 DEF Pool
        <4>2. Fresh(c)'
          <5>1. SUFFICES ASSUME Cardinality(Pool(c)) = 1, NEW i \in Pool(c)
                         PROVE  registry'[i].suffix = NoSuffix
            BY <2>2 DEF Fresh
          <5>2. i = first
            BY <4>1, <5>1, PoolsAreFinite, FS_Singleton DEF IInv
          <5>3. QED
            BY <1>5, <2>1, <5>2
        <4>3. QED
          BY <1>5, <3>2, <4>2
      <3>3. QED
        BY <3>1, <3>2
    <2>4. QED
      BY <1>1, <2>3 DEF SuffixInv
  <1>6. QED
    <2>1. StateInv
      BY DEF IInv
    <2>2. \/ Refreshed = {} /\ UNCHANGED <<registry, pools>>
          \/ \E first \in Refreshed :
                 /\ DOMAIN registry' = DOMAIN registry
                 /\ \A i \in DOMAIN registry :
                       /\ i \notin Refreshed => registry'[i] = registry[i]
                       /\ i \in Refreshed => registry'[i].suffix = NoSuffix
                 /\ akeys' = akeys \cup {Cite[first]}
      BY <2>1, RefreshedFields
    <2>3. QED
      BY <1>4, <1>5, <2>2

\* disYears numbers a class, and takes it from those to be disambiguated.
LEMMA SuffixDisambiguates ==
    ASSUME IInv, ClassInv, CalmInv, SuffixInv, DisambiguatePool, CalmInv'
    PROVE  SuffixInv'
  <1>1. PICK akey \in call.todo :
          \/ /\ Cardinality(disambiguated[akey]) <= 1
             /\ call' = [call EXCEPT !.todo = @ \ {akey}]
             /\ UNCHANGED registry
          \/ Throw
          \/ /\ Cardinality(disambiguated[akey]) > 1
             /\ \E ids \in InOrder(disambiguated[akey]),
                   tokens \in Sorted(Arrangements(disambiguated[akey] \cap DOMAIN registry)) :
                      disYears(akey, ids, tokens)
    BY DEF DisambiguatePool
  <1>2. akey \in Cites /\ call.at = "setdisambigs"
    BY DEF DisambiguatePool, At, IInv, CallInv
  <1>3. disambiguated[akey] = Pool(akey)
    BY <1>2 DEF disambiguated, ClassInv, CalmInv, Pool
  <1>4. \A c \in Cites : Counted(c) \/ (c \in call.todo /\ Fresh(c))
    BY <1>2 DEF SuffixInv
  <1>5. ~Throw
    BY DEF Throw, CalmInv, IInv, CallInv
  <1>6. /\ call' = [call EXCEPT !.todo = @ \ {akey}]
        /\ Counted(akey)'
        /\ \A c \in Cites \ {akey} : /\ Counted(c) => Counted(c)'
                                     /\ Fresh(c) => Fresh(c)'
    <2>1. CASE /\ Cardinality(disambiguated[akey]) <= 1
               /\ call' = [call EXCEPT !.todo = @ \ {akey}]
               /\ UNCHANGED registry
      <3>1. StateInv
        BY DEF IInv
      <3>2. Counted(akey)
        BY <1>2, <1>3, <1>4, <2>1, <3>1, SmallClasses
      <3>3. KeepsClasses
        BY <2>1 DEF KeepsClasses
      <3>4. QED
        BY <2>1, <3>2, <3>3, AllSame
    <2>2. ASSUME Cardinality(disambiguated[akey]) > 1,
                 NEW ids \in InOrder(disambiguated[akey]),
                 NEW tokens \in Sorted(Arrangements(disambiguated[akey] \cap DOMAIN registry)),
                 disYears(akey, ids, tokens)
          PROVE  /\ call' = [call EXCEPT !.todo = @ \ {akey}]
                 /\ Counted(akey)'
                 /\ \A c \in Cites \ {akey} : /\ Counted(c) => Counted(c)'
                                              /\ Fresh(c) => Fresh(c)'
      <3>1. /\ DOMAIN registry' = DOMAIN registry
            /\ Counted(akey)'
            /\ \A i \in DOMAIN registry : i \notin Pool(akey) => registry'[i] = registry[i]
            /\ call' = [call EXCEPT !.todo = @ \ {akey}]
        BY <1>2, <2>2, CountedByDisYears
      <3>2. ASSUME NEW c \in Cites \ {akey}
            PROVE  (Counted(c) => Counted(c)') /\ (Fresh(c) => Fresh(c)')
        <4>1. Pool(c)' = Pool(c)
          BY <3>1 DEF Pool
        <4>2. \A i \in Pool(c) : registry'[i].suffix = registry[i].suffix
          BY <3>1 DEF Pool
        <4>3. QED
          BY <4>1, <4>2, SameClass
      <3>3. QED
        BY <3>1, <3>2
    <2>3. QED
      BY <1>1, <1>5, <2>1, <2>2
  <1>7. call'.at = "setdisambigs" /\ call'.todo = call.todo \ {akey}
    BY <1>2, <1>6 DEF IInv, CallInv
  <1>8. \A c \in Cites : Counted(c)' \/ (c \in call'.todo /\ Fresh(c)')
    BY <1>4, <1>6, <1>7
  <1>9. QED
    BY <1>7, <1>8 DEF SuffixInv

\* A step that keeps cites and suffixes, and what is to be disambiguated.
LEMMA SuffixKept ==
    ASSUME IInv, SuffixInv,
           \/ rebuildlist \/ setsortkeys \/ DisambiguationDone \/ sorttokens
           \/ renumber /\ call'.at # "reset"
    PROVE  SuffixInv'
  <1>1. KeepsClasses
    <2>1. CASE rebuildlist \/ setsortkeys \/ renumber
      BY <2>1, RebuildFields, SortKeysFields, RenumberFields DEF IInv
    <2>2. CASE DisambiguationDone \/ sorttokens
      BY <2>2 DEF DisambiguationDone, sorttokens, KeepsClasses
    <2>3. QED
      BY <2>1, <2>2
  <1>2. \A c \in Cites : (Counted(c) => Counted(c)') /\ (Fresh(c) => Fresh(c)')
    BY <1>1, AllSame
  <1>3. CASE rebuildlist
    <2>1. akeys' = akeys /\ call.at = "rebuildlist" /\ call'.at = "setsortkeys"
      BY <1>3 DEF rebuildlist, pools, At, Continue, IInv, CallInv
    <2>2. QED
      BY <1>2, <2>1 DEF SuffixInv
  <1>4. CASE setsortkeys
    <2>1. /\ call.at = "setsortkeys"
          /\ call'.at = "setdisambigs" /\ call'.todo = akeys
      BY <1>4 DEF setsortkeys, At, IInv, CallInv
    <2>2. QED
      BY <1>2, <2>1 DEF SuffixInv
  <1>5. CASE DisambiguationDone
    <2>1. /\ akeys' = {} /\ call.at = "setdisambigs" /\ call.todo = {}
          /\ call'.at \in {"renumber", "sorttokens"}
      BY <1>5 DEF DisambiguationDone, At, Continue, IInv, CallInv
    <2>2. QED
      BY <1>2, <2>1 DEF SuffixInv
  <1>6. CASE sorttokens
    <2>1. akeys' = akeys /\ call.at = "sorttokens" /\ call'.at = "renumber"
      BY <1>6 DEF sorttokens, pools, At, Continue, IInv, CallInv
    <2>2. QED
      BY <1>2, <2>1 DEF SuffixInv
  <1>7. CASE renumber /\ call'.at # "reset"
    <2>1. akeys' = akeys /\ call.at = "renumber" /\ call'.at = "returned"
      BY <1>7 DEF renumber, pools, At, Continue, IInv, CallInv
    <2>2. QED
      BY <1>2, <2>1 DEF SuffixInv
  <1>8. QED
    BY <1>3, <1>4, <1>5, <1>6, <1>7

LEMMA SuffixNext ==
    ASSUME Undisturbed
    PROVE  IInv /\ RegisteredInv /\ ClassInv /\ CalmInv /\ SuffixInv /\ [Next]_vars
              => SuffixInv'
  <1> SUFFICES ASSUME IInv, RegisteredInv, ClassInv, CalmInv, SuffixInv, [Next]_vars
               PROVE  SuffixInv'
    OBVIOUS
  <1>1. CalmInv'
    BY CalmNext
  <1>2. CASE \E list \in Lists, nosort \in NoSortFlags : UpdateItems(list, nosort)
    <2>1. PICK list \in Lists, nosort \in NoSortFlags : UpdateItems(list, nosort)
      BY <1>2
    <2>2. Ready /\ init(list, FALSE) /\ call'.at = "dodeletes"
      BY <2>1 DEF UpdateItems, Begin
    <2>3. QED
      BY <2>2, SuffixCalls
  <1>3. CASE \E list \in Lists : ClusterUpdate(list)
    <2>1. PICK list \in Lists : ClusterUpdate(list)
      BY <1>3
    <2>2. Ready /\ init(list, FALSE) /\ call'.at = "dodeletes"
      BY <2>1 DEF ClusterUpdate, Begin
    <2>3. QED
      BY <2>2, SuffixCalls
  <1>4. ~RestoreEmptyState /\ ~Reset /\ ~douncited
    BY DEF RestoreEmptyState, Undisturbed, Reset, douncited, At, CalmInv, RegisteredInv
  <1>5. CASE dodeletes \/ doinserts \/ dorefreshes \/ DisambiguatePool
    BY <1>1, <1>5, SuffixDeletes, SuffixInserts, SuffixRefreshes, SuffixDisambiguates
  <1>6. CASE \/ rebuildlist \/ setsortkeys \/ DisambiguationDone \/ sorttokens
             \/ renumber
    BY <1>1, <1>6, SuffixKept DEF CalmInv
  <1>7. CASE UNCHANGED vars
    <2>1. KeepsClasses /\ UNCHANGED <<akeys, refreshes, call>>
      BY <1>7 DEF vars, pools, KeepsClasses
    <2>2. \A c \in Cites : /\ Pool(c)' = Pool(c)
                           /\ Counted(c) => Counted(c)'
                           /\ Fresh(c) => Fresh(c)'
      BY <2>1, AllSame
    <2>3. QED
      BY <2>1, <2>2 DEF SuffixInv
  <1>8. QED
    BY <1>2, <1>3, <1>4, <1>5, <1>6, <1>7 DEF Next, Undisturbed

LEMMA SuffixInit == Init => SuffixInv /\ CalmInv
  <1> SUFFICES ASSUME Init PROVE SuffixInv /\ CalmInv
    OBVIOUS
  <1>1. \A c : Pool(c) = {}
    BY DEF Init, Pool
  <1>2. StateInv
    BY InitInv DEF IInv
  <1>3. \A c \in Cites : Counted(c)
    BY <1>1, <1>2, SmallClasses, FS_EmptySet
  <1>4. QED
    BY <1>3 DEF Init, SuffixInv, CalmInv

\* The invariants of undisturbed calls, for the theorems below.
LEMMA UndisturbedHolds ==
    ASSUME Undisturbed
    PROVE  Spec => [](IInv /\ RegisteredInv /\ ClassInv /\ CalmInv /\ SuffixInv)
  <1>1. UncitedLists = {} /\ OnePoolAtATime
    BY DEF Undisturbed
  <1>2. Init => RegisteredInv
    BY DEF Init, RegisteredInv, Elements, Inserted, Methods
  <1>3. IInv /\ RegisteredInv /\ [Next]_vars => RegisteredInv'
    BY <1>1, RegisteredNext
  <1>4. IInv /\ RegisteredInv /\ ClassInv /\ [Next]_vars => ClassInv'
    BY <1>1, ClassNext
  <1>5. IInv /\ RegisteredInv /\ ClassInv /\ CalmInv /\ [Next]_vars => CalmInv'
    BY CalmNext
  <1>6. IInv /\ RegisteredInv /\ ClassInv /\ CalmInv /\ SuffixInv /\ [Next]_vars
              => SuffixInv'
    BY SuffixNext
  <1>7. QED
    BY <1>2, <1>3, <1>4, <1>5, <1>6, ClassInit, SuffixInit, InvariantHolds, PTL DEF Spec

\* dodeletes, dorefreshes and disYears: if besides no item is missing and the
\* processor is not reset, then after every call an item has a suffix just when
\* its cite is ambiguous, and those of a cite are numbered from 0 without a gap,
\* however many items came and went.
THEOREM SuffixSafety ==
    ASSUME Undisturbed
    PROVE  Spec => []SuffixesNumberTheClass
  <1>1. IInv /\ CalmInv /\ SuffixInv => SuffixesNumberTheClass
    <2>1. SUFFICES ASSUME IInv, SuffixInv, Returned, NEW i \in DOMAIN registry
                   PROVE  {registry[j].suffix : j \in Class(i)} =
                             IF Cardinality(Class(i)) = 1 THEN {NoSuffix}
                             ELSE 0 .. Cardinality(Class(i)) - 1
      BY DEF SuffixesNumberTheClass
    <2>2. Class(i) = Pool(Cite[i]) /\ Cite[i] \in Cites
      BY <2>1 DEF Class, Pool, Cites, IInv, StateInv
    <2>3. Counted(Cite[i])
      BY <2>1, <2>2 DEF SuffixInv, Returned, At
    <2>4. QED
      BY <2>2, <2>3, Zenon DEF Counted, Numbering
  <1>2. QED
    BY <1>1, UndisturbedHolds, PTL

-----------------------------------------------------------------------------
(* The bibliography is in order.                                           *)

\* A token has its sort keys when it is sorted or can be: setsortkeys gives
\* them to all that are touched, and touched is only emptied after that.
KeyInv ==
    IF call.at \in {"doinserts", "dorefreshes", "rebuildlist", "setsortkeys"}
    THEN \A i \in DOMAIN registry : registry[i].sortkeys \/ i \in touched
    ELSE \A i \in DOMAIN registry : registry[i].sortkeys

\* s is in order of its keys, and of list where the keys are equal.
InOrderOfKeys(s, list) ==
    \A p, q \in DOMAIN s :
        p < q =>
            LET a == s[p]
                b == s[q]
            IN  \/ SortKey[a] = SortKey[b] /\
                     Last(Positions(list, a)) <= Last(Positions(list, b))
                \/ SortKey[a] # Undefined /\ SortKey[b] = Undefined
                \/ /\ Undefined \notin {SortKey[a], SortKey[b]}
                   /\ IF Descending THEN SortKey[a] > SortKey[b]
                      ELSE SortKey[a] < SortKey[b]

\* Numbers are those of the list until it is sorted, and then of the sorted one.
OrderInv ==
    /\ call.at \in {"setsortkeys", "setdisambigs", "sorttokens"} => reflist = mylist
    /\ call.at \in {"setsortkeys", "setdisambigs", "sorttokens", "renumber"} =>
          \A i \in Elements(mylist) : registry[i].seq = Last(Positions(mylist, i))
    /\ call.at \in {"renumber", "reset", "returned"} /\ ~call.nosort =>
          InOrderOfKeys(reflist, mylist)
    /\ call.at = "sorttokens" => ~call.nosort
    /\ call.at = "renumber" /\ call.nosort => reflist = mylist
    /\ call.at \in {"reset", "returned"} =>
          \A i \in Elements(reflist) : registry[i].seq = Last(Positions(reflist, i))

LEMMA KeyNext ==
    ASSUME UncitedLists = {}, Missing = {}
    PROVE  IInv /\ RegisteredInv /\ KeyInv /\ [Next]_vars => KeyInv'
  <1> SUFFICES ASSUME IInv, RegisteredInv, KeyInv, [Next]_vars PROVE KeyInv'
    OBVIOUS
  <1>1. CASE \/ \E list \in Lists, nosort \in NoSortFlags : UpdateItems(list, nosort)
             \/ \E list \in Lists : ClusterUpdate(list)
             \/ RestoreEmptyState
    <2>1. Ready /\ UNCHANGED registry /\ call'.at = "dodeletes"
      BY <1>1 DEF UpdateItems, ClusterUpdate, RestoreEmptyState, Begin, init
    <2>2. QED
      BY <2>1 DEF KeyInv, Ready
  <1>2. CASE dodeletes
    <2>1. call.at = "dodeletes" /\ call'.at = "doinserts"
      BY <1>2 DEF dodeletes, At, Continue, IInv, CallInv
    <2>2. QED
      BY <1>2, <2>1, DeletedFields DEF KeyInv
  <1>3. CASE doinserts
    <2>1. {p \in {q \in DOMAIN mylist : mylist[q] \notin DOMAIN registry} :
              mylist[p] \in Missing} = {}
      OBVIOUS
    <2>2. call' = [call EXCEPT !.at = "dorefreshes"] /\ call.at = "doinserts"
      BY <1>3, <2>1 DEF doinserts, Continue, At, RegisteredInv
    <2>3. call'.at = "dorefreshes"
      BY <2>2 DEF IInv, CallInv
    <2>4. /\ DOMAIN registry' = DOMAIN registry \cup Inserting
          /\ \A i \in DOMAIN registry : registry'[i] = registry[i]
          /\ touched' = touched \cup Inserting
      BY <1>3, InsertedFields DEF IInv
    <2>5. QED
      BY <2>2, <2>3, <2>4 DEF KeyInv
  <1>4. CASE dorefreshes
    <2>1. call.at = "dorefreshes" /\ call'.at = "rebuildlist"
      BY <1>4 DEF dorefreshes, At, Continue, IInv, CallInv
    <2>2. /\ DOMAIN registry' = DOMAIN registry
          /\ \A i \in DOMAIN registry : i \in touched' \/ registry'[i] = registry[i]
          /\ touched \subseteq touched'
      <3>1. StateInv
        BY DEF IInv
      <3>2. QED
        BY <1>4, <3>1, RefreshedFields
    <2>3. QED
      BY <2>1, <2>2 DEF KeyInv
  <1>5. CASE rebuildlist
    <2>1. /\ call.at = "rebuildlist" /\ call'.at = "setsortkeys"
          /\ touched' = touched
      BY <1>5 DEF rebuildlist, At, Continue, IInv, CallInv
    <2>2. QED
      BY <1>5, <2>1, RebuildFields DEF KeyInv, KeepsClasses, IInv
  <1>6. CASE setsortkeys
    <2>1. call.at = "setsortkeys" /\ call'.at = "setdisambigs"
      BY <1>6 DEF setsortkeys, At, IInv, CallInv
    <2>2. QED
      BY <1>6, <2>1, SortKeysFields DEF KeyInv, KeepsClasses, IInv
  <1>7. CASE DisambiguatePool
    <2>1. PICK akey \in call.todo :
            \/ UNCHANGED registry
            \/ \E ids, tokens : disYears(akey, ids, tokens)
      BY <1>7 DEF DisambiguatePool
    <2>2. call.at = "setdisambigs" /\ call'.at \in {"setdisambigs", "threw"}
      BY <1>7 DEF DisambiguatePool, disYears, Throw, At, IInv, CallInv
    <2>3. ASSUME NEW ids, NEW tokens, disYears(akey, ids, tokens)
          PROVE  /\ DOMAIN registry' = DOMAIN registry
                 /\ \A i \in DOMAIN registry :
                       registry'[i].sortkeys = registry[i].sortkeys
      <3>1. ASSUME NEW i \in DOMAIN registry
            PROVE  registry'[i].sortkeys = registry[i].sortkeys
        <4>1. \/ registry'[i] = registry[i]
              \/ registry'[i] = [registry[i] EXCEPT !.ambig = akey]
              \/ registry'[i] = [registry[i] EXCEPT !.ambig = akey,
                                     !.suffix = SuffixOf(tokens, i)]
          BY <2>3 DEF disYears
        <4>2. /\ [registry[i] EXCEPT !.ambig = akey].sortkeys = registry[i].sortkeys
              /\ \A n : [registry[i] EXCEPT !.ambig = akey, !.suffix = n].sortkeys
                           = registry[i].sortkeys
          BY DEF IInv, StateInv, Token
        <4>3. QED
          BY <4>1, <4>2, Zenon
      <3>2. QED
        BY <2>3, <3>1 DEF disYears
    <2>4. /\ DOMAIN registry' = DOMAIN registry
          /\ \A i \in DOMAIN registry : registry'[i].sortkeys = registry[i].sortkeys
      BY <2>1, <2>3
    <2>5. QED
      BY <2>2, <2>4 DEF KeyInv
  <1>8. CASE DisambiguationDone \/ sorttokens
    <2>1. /\ UNCHANGED registry
          /\ call.at \in {"setdisambigs", "sorttokens"}
          /\ call'.at \in {"sorttokens", "renumber"}
      BY <1>8 DEF DisambiguationDone, sorttokens, At, Continue, IInv, CallInv
    <2>2. QED
      BY <2>1 DEF KeyInv
  <1>9. CASE renumber
    <2>1. call.at = "renumber" /\ call'.at \in {"returned", "reset"}
      BY <1>9 DEF renumber, At, Continue, IInv, CallInv
    <2>2. QED
      BY <1>9, <2>1, RenumberFields DEF KeyInv, KeepsClasses, IInv
  <1>10. CASE Reset
    <2>1. DOMAIN registry' = {}
      BY <1>10 DEF Reset
    <2>2. QED
      BY <2>1 DEF KeyInv
  <1>11. ~douncited
    BY DEF douncited, At, RegisteredInv
  <1>12. CASE UNCHANGED vars
    BY <1>12 DEF KeyInv, vars
  <1>13. QED
    BY <1>1, <1>2, <1>3, <1>4, <1>5, <1>6, <1>7, <1>8, <1>9, <1>10, <1>11, <1>12
       DEF Next

\* What sorting makes of a list whose tokens all have sort keys, their numbers
\* being their places in the list.
LEMMA SortedInOrder ==
    ASSUME mylist \in Seq(Item), NEW t \in Sortings(mylist),
           Elements(mylist) \subseteq DOMAIN registry,
           \A i \in DOMAIN registry : registry[i].sortkeys,
           \A i \in Elements(mylist) : registry[i].seq = Last(Positions(mylist, i))
    PROVE  InOrderOfKeys(t, mylist)
  <1>1. Elements(t) = Elements(mylist)
    BY SortedElements
  <1>2. \A p \in DOMAIN t : t[p] \in Elements(mylist)
    BY <1>1 DEF Elements
  <1>3. \A p \in DOMAIN t : registry[t[p]].sortkeys
    BY <1>2
  <1>4. \A p, q \in DOMAIN t : p < q => ~compareKeys(t[q], t[p])
    BY <1>3 DEF Sortings, Sorted
  <1>5. ASSUME NEW p \in DOMAIN t, NEW q \in DOMAIN t, p < q
        PROVE  LET a == t[p]
                   b == t[q]
               IN  \/ SortKey[a] = SortKey[b] /\
                        Last(Positions(mylist, a)) <= Last(Positions(mylist, b))
                   \/ SortKey[a] # Undefined /\ SortKey[b] = Undefined
                   \/ /\ Undefined \notin {SortKey[a], SortKey[b]}
                      /\ IF Descending THEN SortKey[a] > SortKey[b]
                         ELSE SortKey[a] < SortKey[b]
    <2> DEFINE a == t[p]
               b == t[q]
               ka == SortKey[a]
               kb == SortKey[b]
               na == Last(Positions(mylist, a))
               nb == Last(Positions(mylist, b))
    <2>1. a \in Item /\ b \in Item
      BY <1>2, ElementsAreItems
    <2>2. ka \in Nat \cup {Undefined} /\ kb \in Nat \cup {Undefined}
      BY <2>1, ItemAssumption
    <2>3. na \in Nat /\ nb \in Nat /\ registry[a].seq = na /\ registry[b].seq = nb
      BY <1>2, LastPosition
    <2>4. ~compareKeys(b, a)
      BY <1>4, <1>5
    <2>5. ~ \/ kb # Undefined /\ ka = Undefined
            \/ /\ kb # Undefined /\ ka # Undefined
               /\ IF Descending THEN kb > ka ELSE kb < ka
            \/ kb = ka /\ nb < na
      BY <2>3, <2>4 DEF compareKeys
    <2> HIDE DEF a, b, ka, kb, na, nb
    <2>6. \/ ka = kb /\ na <= nb
          \/ ka # Undefined /\ kb = Undefined
          \/ /\ Undefined \notin {ka, kb}
             /\ IF Descending THEN ka > kb ELSE ka < kb
      BY <2>2, <2>3, <2>5
    <2>7. QED
      BY <2>6 DEF a, b, ka, kb, na, nb
  <1>6. QED
    BY <1>5 DEF InOrderOfKeys

LEMMA OrderNext ==
    ASSUME UncitedLists = {}, Missing = {}
    PROVE  IInv /\ RegisteredInv /\ ListInv /\ KeyInv /\ OrderInv /\ [Next]_vars => OrderInv'
  <1> SUFFICES ASSUME IInv, RegisteredInv, ListInv, KeyInv, OrderInv, [Next]_vars
               PROVE  OrderInv'
    OBVIOUS
  <1>1. CASE \/ \E list \in Lists, nosort \in NoSortFlags : UpdateItems(list, nosort)
             \/ \E list \in Lists : ClusterUpdate(list)
             \/ RestoreEmptyState
    <2>1. UNCHANGED registry /\ call'.at = "dodeletes"
      BY <1>1 DEF UpdateItems, ClusterUpdate, RestoreEmptyState, Begin, init
    <2>2. QED
      BY <2>1 DEF OrderInv
  <1>2. CASE dodeletes \/ doinserts \/ dorefreshes
    <2>1. call'.at \in {"doinserts", "dorefreshes", "douncited", "threw", "rebuildlist"}
      BY <1>2 DEF dodeletes, doinserts, dorefreshes, Continue, IInv, CallInv
    <2>2. QED
      BY <2>1 DEF OrderInv
  <1>3. CASE rebuildlist
    <2>1. /\ reflist' = mylist /\ mylist' = mylist
          /\ call.at = "rebuildlist" /\ call'.at = "setsortkeys"
      BY <1>3 DEF rebuildlist, At, Continue, IInv, CallInv
    <2>2. Elements(mylist) \subseteq DOMAIN registry
      BY <2>1 DEF IInv, CallInv, Methods
    <2>3. \A i \in Elements(mylist) : registry'[i].seq = Last(Positions(mylist, i))
      <3>1. StateInv
        BY DEF IInv
      <3>2. QED
        BY <1>3, <2>2, <3>1, RebuildFields
    <2>4. QED
      BY <2>1, <2>3 DEF OrderInv
  <1>4. ASSUME setsortkeys \/ DisambiguatePool
        PROVE  OrderInv'
    <2>1. /\ UNCHANGED <<mylist, reflist>>
          /\ call.at \in {"setsortkeys", "setdisambigs"}
          /\ call'.at \in {"setdisambigs", "threw"}
      BY <1>4 DEF setsortkeys, DisambiguatePool, disYears, Throw, At, IInv, CallInv
    <2>2. \A i \in DOMAIN registry : registry'[i].seq = registry[i].seq
      <3>1. CASE setsortkeys
        BY <3>1, SortKeysFields DEF IInv
      <3>2. CASE DisambiguatePool
        <4>1. PICK akey \in call.todo :
                \/ UNCHANGED registry
                \/ \E ids, tokens : disYears(akey, ids, tokens)
          BY <3>2 DEF DisambiguatePool
        <4>2. ASSUME NEW ids, NEW tokens, disYears(akey, ids, tokens),
                     NEW i \in DOMAIN registry
              PROVE  registry'[i].seq = registry[i].seq
          <5>1. \/ registry'[i] = registry[i]
                \/ registry'[i] = [registry[i] EXCEPT !.ambig = akey]
                \/ registry'[i] = [registry[i] EXCEPT !.ambig = akey,
                                       !.suffix = SuffixOf(tokens, i)]
            BY <4>2 DEF disYears
          <5>2. /\ [registry[i] EXCEPT !.ambig = akey].seq = registry[i].seq
                /\ \A n : [registry[i] EXCEPT !.ambig = akey, !.suffix = n].seq
                             = registry[i].seq
            BY DEF IInv, StateInv, Token
          <5>3. QED
            BY <5>1, <5>2, Zenon
        <4>3. QED
          BY <4>1, <4>2
      <3>3. QED
        BY <1>4, <3>1, <3>2
    <2>3. Elements(mylist) \subseteq DOMAIN registry
      BY <2>1 DEF IInv, CallInv, Methods
    <2>4. QED
      BY <2>1, <2>2, <2>3 DEF OrderInv
  <1>5. CASE DisambiguationDone
    <2>1. /\ UNCHANGED <<mylist, reflist, registry>>
          /\ call.at = "setdisambigs" /\ call'.nosort = call.nosort
          /\ call'.at = IF call.nosort THEN "renumber" ELSE "sorttokens"
      BY <1>5 DEF DisambiguationDone, At, Continue, IInv, CallInv
    <2>2. QED
      BY <2>1 DEF OrderInv
  <1>6. CASE sorttokens
    <2>1. /\ UNCHANGED <<mylist, registry>>
          /\ call.at = "sorttokens" /\ call'.at = "renumber"
      BY <1>6 DEF sorttokens, At, Continue, IInv, CallInv
    <2>2. reflist = mylist /\ reflist' \in Sortings(mylist)
      BY <1>6, <2>1 DEF sorttokens, OrderInv
    <2>3. InOrderOfKeys(reflist', mylist)
      <3>1. mylist \in Seq(Item) /\ Elements(mylist) \subseteq DOMAIN registry
        BY <2>1 DEF IInv, StateInv, CallInv, Methods
      <3>2. \A i \in DOMAIN registry : registry[i].sortkeys
        BY <2>1 DEF KeyInv
      <3>3. \A i \in Elements(mylist) : registry[i].seq = Last(Positions(mylist, i))
        BY <2>1 DEF OrderInv
      <3>4. QED
        BY <2>2, <3>1, <3>2, <3>3, SortedInOrder
    <2>4. call'.nosort = call.nosort /\ ~call.nosort
      <3>1. call'.nosort = call.nosort
        BY <1>6 DEF sorttokens, Continue, IInv, CallInv
      <3>2. QED
        BY <2>1, <3>1 DEF OrderInv
    <2>5. InOrderOfKeys(reflist, mylist)'
      BY <2>1, <2>3 DEF InOrderOfKeys
    <2>6. QED
      BY <2>1, <2>4, <2>5 DEF OrderInv
  <1>7. CASE renumber
    <2>1. /\ UNCHANGED <<mylist, reflist>>
          /\ call.at = "renumber" /\ call'.at \in {"returned", "reset"}
          /\ call'.nosort = call.nosort
      BY <1>7 DEF renumber, At, Continue, IInv, CallInv
    <2>2. Elements(reflist) \subseteq DOMAIN registry
      BY <2>1 DEF ListInv, Rebuilt, IInv, CallInv, Methods
    <2>3. \A i \in Elements(reflist) : registry'[i].seq = Last(Positions(reflist, i))
      <3>1. StateInv
        BY DEF IInv
      <3>2. QED
        BY <1>7, <2>2, <3>1, RenumberFields
    <2>4. ~call.nosort => InOrderOfKeys(reflist, mylist)'
      BY <2>1 DEF OrderInv, InOrderOfKeys
    <2>5. QED
      BY <2>1, <2>3, <2>4 DEF OrderInv
  <1>8. CASE Reset
    <2>1. reflist' = <<>> /\ call'.at = "returned"
      BY <1>8 DEF Reset, Continue, IInv, CallInv
    <2>2. DOMAIN reflist' = {}
      BY <2>1
    <2>3. QED
      BY <2>1, <2>2 DEF OrderInv, InOrderOfKeys, Elements
  <1>9. ~douncited
    BY DEF douncited, At, RegisteredInv
  <1>10. CASE UNCHANGED vars
    BY <1>10 DEF OrderInv, InOrderOfKeys, vars
  <1>11. QED
    BY <1>1, <1>2, <1>3, <1>4, <1>5, <1>6, <1>7, <1>8, <1>9, <1>10 DEF Next

LEMMA OrderInit == Init => KeyInv /\ OrderInv
  <1> SUFFICES ASSUME Init PROVE KeyInv /\ OrderInv
    OBVIOUS
  <1>1. DOMAIN registry = {} /\ DOMAIN reflist = {} /\ call.at = "returned"
    BY DEF Init
  <1>2. QED
    BY <1>1 DEF KeyInv, OrderInv, InOrderOfKeys, Elements

\* setsortkeys, sorttokens and renumber: as long as nobody calls
\* updateUncitedItems and no item is missing, every bibliography returned is in
\* order of its keys, items with equal keys as they are listed, and seq is the
\* place in it, also after disYears threw and after a reset.
THEOREM CollationSafety ==
    ASSUME UncitedLists = {}, Missing = {}
    PROVE  Spec => []Collated
  <1>1. Init => ListInv /\ RegisteredInv
    BY DEF Init, ListInv, RegisteredInv, Elements, Inserted, Methods
  <1>2. IInv /\ RegisteredInv /\ [Next]_vars => RegisteredInv'
    BY RegisteredNext
  <1>3. IInv /\ RegisteredInv /\ KeyInv /\ [Next]_vars => KeyInv'
    BY KeyNext
  <1>4. IInv /\ RegisteredInv /\ ListInv /\ KeyInv /\ OrderInv /\ [Next]_vars => OrderInv'
    BY OrderNext
  <1>5. OrderInv => Collated
    <2>1. SUFFICES ASSUME OrderInv, Returned PROVE Collated
      BY DEF Collated
    <2>2. \A i \in Elements(reflist) : registry[i].seq = Last(Positions(reflist, i))
      BY <2>1 DEF OrderInv, Returned, At
    <2>3. CASE call.nosort
      BY <2>2, <2>3 DEF Collated
    <2>4. CASE ~call.nosort
      <3>1. InOrderOfKeys(reflist, mylist)
        BY <2>1, <2>4 DEF OrderInv, Returned, At
      <3>2. QED
        BY <2>2, <3>1, Zenon DEF Collated, InOrderOfKeys
    <2>5. QED
      BY <2>3, <2>4
  <1>6. QED
    BY <1>1, <1>2, <1>3, <1>4, <1>5, ListNext, OrderInit, InvariantHolds, PTL DEF Spec

-----------------------------------------------------------------------------
(* What is shown, and what is noted in a call of processCitationCluster.   *)

\* The methods before and after rebuildlist, and those that do not run in
\* processCitationCluster left out.
Before == {"dodeletes", "doinserts", "dorefreshes", "rebuildlist"}
After == {"setsortkeys", "setdisambigs", "sorttokens", "renumber"}

InCluster == call.fn = "processCitationCluster" /\ ~Ready

\* What is shown of an item.
Entry == [id : Item, suffix : {NoSuffix} \cup Nat]

\* The list shown last has all that was registered then; its numbers are those
\* of the tokens until rebuildlist moves them to oldseq.
NumberInv ==
    /\ shown \in Seq(Entry)
    /\ call.at \in {"returned", "dodeletes"} => Ids(shown) = DOMAIN registry
    /\ call.at \in Before =>
          Ids(shown) \cap Elements(mylist) \subseteq DOMAIN registry
    /\ call.at \in Before \cup {"returned"} =>
          \A i \in Ids(shown) \cap DOMAIN registry : registry[i].seq = Number(shown, i)
    /\ InCluster => tracking /\ \A p, q \in DOMAIN mylist : mylist[p] = mylist[q] => p = q
    /\ InCluster /\ call.at \in After =>
          \A i \in Ids(shown) \cap Elements(mylist) : oldseq[i] = Number(shown, i)

SuffixShown(p) ==
    shown[p].id \in DOMAIN registry /\ registry[shown[p].id].suffix = shown[p].suffix

\* As long as a call of processCitationCluster has not noted a change of the
\* bibliography, nothing came or went, and no suffix has changed.
QuietInv ==
    /\ call.at = "returned" => \A p \in DOMAIN shown : SuffixShown(p)
    /\ InCluster /\ ~bibchange =>
          /\ refreshes = {} /\ akeys = {} /\ call.todo = {}
          /\ Ids(shown) = DOMAIN registry
          /\ \A p \in DOMAIN shown : SuffixShown(p)

\* The last of a bounded set of numbers.
LEMMA LastIsLast ==
    ASSUME NEW n \in Nat, NEW P \in SUBSET (1 .. n), P # {}
    PROVE  Last(P) \in P /\ \A q \in P : q <= Last(P)
  <1> DEFINE T == {n - p : p \in P}
  <1>0. T \subseteq Nat
    <2>1. \A p \in 1 .. n : n - p \in Nat
      OBVIOUS
    <2>2. \A p \in P : p \in 1 .. n
      OBVIOUS
    <2>3. QED
      BY <2>1, <2>2
  <1>1. T # {}
    OBVIOUS
  <1>2. PICK t \in T : \A u \in T : t <= u
    BY <1>0, <1>1, FirstExists
  <1>3. PICK p \in P : t = n - p
    OBVIOUS
  <1>4. \A q \in P : q <= p
    <2>1. SUFFICES ASSUME NEW q \in P PROVE q <= p
      OBVIOUS
    <2>2. n - p <= n - q
      BY <1>2, <1>3
    <2>3. p \in 1 .. n /\ q \in 1 .. n
      OBVIOUS
    <2>4. p \in Int /\ q \in Int /\ n \in Int
      BY <2>3
    <2>5. QED
      BY <2>2, <2>4
  <1>5. QED
    BY <1>4 DEF Last

LEMMA LastPlace ==
    ASSUME NEW T, NEW s \in Seq(T), NEW P \in SUBSET (DOMAIN s), P # {}
    PROVE  Last(P) \in P /\ \A q \in P : q <= Last(P)
  <1>1. DOMAIN s = 1 .. Len(s) /\ Len(s) \in Nat
    OBVIOUS
  <1>2. QED
    BY <1>1, LastIsLast

LEMMA NumberInList ==
    ASSUME NEW T, NEW s \in Seq(T), NEW i \in Ids(s)
    PROVE  /\ Number(s, i) \in DOMAIN s /\ s[Number(s, i)].id = i
           /\ \A q \in DOMAIN s : s[q].id = i => q <= Number(s, i)
  <1> DEFINE P == {p \in DOMAIN s : s[p].id = i}
  <1>1. P # {} /\ P \in SUBSET (DOMAIN s)
    BY DEF Ids
  <1>2. Last(P) \in P /\ \A q \in P : q <= Last(P)
    BY <1>1, LastPlace
  <1>3. QED
    BY <1>2 DEF Number

\* An item that is listed once has its old number read from its token.
LEMMA OldSeqOfOnce ==
    ASSUME mylist \in Seq(Item), NEW i \in Elements(mylist),
           \A p, q \in DOMAIN mylist : mylist[p] = mylist[q] => p = q
    PROVE  OldSeq(i) = registry[i].seq
  <1>1. Positions(mylist, i) # {} /\ Positions(mylist, i) \in SUBSET (DOMAIN mylist)
    BY DEF Positions, Elements
  <1>2. Last(Positions(mylist, i)) \in Positions(mylist, i)
    BY <1>1, LastPlace
  <1>3. \A p, q \in Positions(mylist, i) : p = q
    BY DEF Positions
  <1>4. Positions(mylist, i) \ {Last(Positions(mylist, i))} = {}
    BY <1>2, <1>3
  <1>5. QED
    BY <1>4 DEF OldSeq

\* What renumber shows.
LEMMA RenumberShows ==
    ASSUME StateInv, renumber, Elements(reflist) \subseteq DOMAIN registry
    PROVE  /\ shown' \in Seq(Entry)
           /\ DOMAIN shown' = DOMAIN reflist
           /\ \A p \in DOMAIN reflist : /\ shown'[p].id = reflist[p]
                                        /\ shown'[p].suffix = registry[reflist[p]].suffix
           /\ Ids(shown') = Elements(reflist)
           /\ \A i : Number(shown', i) = Last(Positions(reflist, i))
  <1>1. /\ shown' = [p \in DOMAIN reflist |->
                      [id |-> reflist[p], suffix |-> registry[reflist[p]].suffix]]
        /\ reflist \in Seq(Item)
    BY DEF renumber, StateInv
  <1>2. DOMAIN reflist = 1 .. Len(reflist) /\ Len(reflist) \in Nat
    BY <1>1
  <1>3. \A p \in DOMAIN reflist : reflist[p] \in Item /\ registry[reflist[p]] \in Token
    BY <1>1 DEF Elements, StateInv
  <1>4. \A p \in DOMAIN reflist : registry[reflist[p]].suffix \in {NoSuffix} \cup Nat
    BY <1>3 DEF Token
  <1>5. shown' \in [1 .. Len(reflist) -> Entry]
    BY <1>1, <1>2, <1>3, <1>4 DEF Entry
  <1>6. shown' \in Seq(Entry)
    BY <1>2, <1>5
  <1>7. \A p \in DOMAIN reflist : /\ shown'[p].id = reflist[p]
                                  /\ shown'[p].suffix = registry[reflist[p]].suffix
    BY <1>1
  <1>8. DOMAIN shown' = DOMAIN reflist
    BY <1>1
  <1>9. \A i : {p \in DOMAIN shown' : shown'[p].id = i} = Positions(reflist, i)
    BY <1>7, <1>8 DEF Positions
  <1>10. Ids(shown') = Elements(reflist)
    BY <1>7, <1>8 DEF Ids, Elements
  <1>11. QED
    BY <1>6, <1>7, <1>8, <1>9, <1>10 DEF Number

\* The list of a call is what was given, and processCitationCluster is given
\* each item once.
LEMMA NumberCalls ==
    ASSUME RegisteredInv, CalmInv, NumberInv, Ready, NEW list, list \in Seq(Item),
           init(list, FALSE), call'.at = "dodeletes", shown' = shown,
           call'.fn = "processCitationCluster" =>
               tracking' /\ \A p, q \in DOMAIN list : list[p] = list[q] => p = q
    PROVE  NumberInv'
  <1>1. mylist' = list /\ UNCHANGED registry
    <2>1. list \o <<>> = list
      OBVIOUS
    <2>2. QED
      BY <2>1 DEF init, WithUncited, RegisteredInv
  <1>2. call.at = "returned"
    BY DEF Ready, CalmInv
  <1>3. QED
    BY <1>1, <1>2 DEF NumberInv, InCluster, Ready, Before, After

\* A method before rebuildlist that is not its call's first or last step.
LEMMA NumberBefore ==
    ASSUME NumberInv, call.at \in Before, call'.at \in Before \ {"dodeletes"},
           call'.fn = call.fn,
           UNCHANGED <<mylist, shown, tracking>>,
           DOMAIN registry \cap Elements(mylist) \subseteq DOMAIN registry',
           \A i \in DOMAIN registry' :
               \/ i \in DOMAIN registry /\ registry'[i].seq = registry[i].seq
               \/ i \in Elements(mylist) \ DOMAIN registry
    PROVE  NumberInv'
  <1>1. Ids(shown) \cap Elements(mylist) \subseteq DOMAIN registry
    BY DEF NumberInv
  <1>2. Ids(shown) \cap Elements(mylist) \subseteq DOMAIN registry'
    BY <1>1
  <1>3. \A i \in Ids(shown) \cap DOMAIN registry' : registry'[i].seq = Number(shown, i)
    BY <1>1 DEF NumberInv
  <1>4. call.at \notin {"returned", "threw"} /\ call'.at \notin {"returned", "dodeletes", "threw"}
        /\ call'.at \notin After
    BY DEF Before, After
  <1>5. InCluster' => InCluster
    BY <1>4 DEF InCluster, Ready
  <1>6. QED
    BY <1>2, <1>3, <1>4, <1>5 DEF NumberInv

\* A method after rebuildlist, except for renumber.
LEMMA NumberAfter ==
    ASSUME NumberInv, call.at \in After, call'.at \in After, call'.fn = call.fn,
           UNCHANGED <<mylist, shown, tracking, oldseq>>
    PROVE  NumberInv'
  BY DEF NumberInv, Before, After, InCluster, Ready

LEMMA NumberNext ==
    ASSUME Undisturbed
    PROVE  IInv /\ RegisteredInv /\ ListInv /\ CalmInv /\ OrderInv /\ NumberInv
              /\ CalmInv' /\ OrderInv' /\ [Next]_vars => NumberInv'
  <1> SUFFICES ASSUME IInv, RegisteredInv, ListInv, CalmInv, OrderInv, NumberInv,
                      CalmInv', OrderInv', [Next]_vars
               PROVE  NumberInv'
    OBVIOUS
  <1>1. CASE \E list \in Lists, nosort \in NoSortFlags : UpdateItems(list, nosort)
    <2>1. PICK list \in Lists, nosort \in NoSortFlags : UpdateItems(list, nosort)
      BY <1>1
    <2>2. /\ Ready /\ init(list, FALSE) /\ list \in Seq(Item)
          /\ call'.at = "dodeletes" /\ call'.fn = "updateItems"
      BY <2>1, BoundAssumption DEF UpdateItems, Begin
    <2>3. shown' = shown
      BY <2>2 DEF init
    <2>4. QED
      BY <2>2, <2>3, NumberCalls
  <1>2. CASE \E list \in Lists : ClusterUpdate(list)
    <2>1. PICK list \in Lists : ClusterUpdate(list)
      BY <1>2
    <2>2. /\ Ready /\ init(list, FALSE) /\ list \in Seq(Item)
          /\ call'.at = "dodeletes" /\ tracking' = TRUE
          /\ \A p, q \in DOMAIN list : list[p] = list[q] => p = q
      BY <2>1, BoundAssumption DEF ClusterUpdate, Begin
    <2>3. shown' = shown
      BY <2>2 DEF init
    <2>4. QED
      BY <2>2, <2>3, NumberCalls
  <1>3. ~RestoreEmptyState /\ ~Reset /\ ~douncited
    BY DEF RestoreEmptyState, Undisturbed, Reset, douncited, At, CalmInv, RegisteredInv
  <1>4. CASE dodeletes
    <2>1. /\ call.at = "dodeletes" /\ call'.at = "doinserts" /\ call'.fn = call.fn
          /\ UNCHANGED <<mylist, shown, tracking>>
      BY <1>4 DEF dodeletes, At, Continue, IInv, CallInv
    <2>2. /\ DOMAIN registry' = DOMAIN registry \ Deleted
          /\ \A i \in DOMAIN registry' : registry'[i] = registry[i]
      BY <1>4, DeletedFields
    <2>3. DOMAIN registry \cap Elements(mylist) \subseteq DOMAIN registry'
      BY <2>2 DEF Deleted
    <2>4. QED
      BY <2>1, <2>2, <2>3, NumberBefore DEF Before
  <1>5. CASE doinserts
    <2>1. /\ call.at = "doinserts" /\ call'.fn = call.fn
          /\ call'.at \in {"dorefreshes", "douncited", "threw"}
          /\ UNCHANGED <<mylist, shown, tracking>>
      BY <1>5 DEF doinserts, At, Continue, IInv, CallInv
    <2>2. call'.at = "dorefreshes"
      <3>1. call'.at # "threw"
        BY DEF CalmInv
      <3>2. call'.at # "douncited"
        BY <1>5, RegisteredNext DEF Next, Undisturbed, RegisteredInv
      <3>3. QED
        BY <2>1, <3>1, <3>2
    <2>3. /\ DOMAIN registry' = DOMAIN registry \cup Inserting
          /\ Inserting \cap DOMAIN registry = {}
          /\ Inserting \subseteq Elements(mylist)
          /\ \A i \in DOMAIN registry : registry'[i] = registry[i]
      BY <1>5, InsertedFields DEF IInv
    <2>4. QED
      BY <2>1, <2>2, <2>3, NumberBefore DEF Before
  <1>6. CASE dorefreshes
    <2>1. /\ call.at = "dorefreshes" /\ call'.at = "rebuildlist" /\ call'.fn = call.fn
          /\ UNCHANGED <<mylist, shown, tracking>>
      BY <1>6 DEF dorefreshes, At, Continue, IInv, CallInv
    <2>2. /\ DOMAIN registry' = DOMAIN registry
          /\ \A i \in DOMAIN registry : registry'[i].seq = registry[i].seq
      <3>1. StateInv
        BY DEF IInv
      <3>2. QED
        BY <1>6, <3>1, RefreshedFields
    <2>3. QED
      BY <2>1, <2>2, NumberBefore DEF Before
  <1>7. CASE rebuildlist
    <2>1. /\ call.at = "rebuildlist" /\ call'.at = "setsortkeys" /\ call'.fn = call.fn
          /\ UNCHANGED <<mylist, shown, tracking>>
          /\ oldseq' = [i \in Elements(mylist) |-> OldSeq(i)]
      BY <1>7 DEF rebuildlist, changes, At, Continue, IInv, CallInv
    <2>2. mylist \in Seq(Item)
      BY DEF IInv, StateInv
    <2>3. ASSUME InCluster, NEW i \in Ids(shown) \cap Elements(mylist)
          PROVE  oldseq'[i] = Number(shown, i)
      <3>1. \A p, q \in DOMAIN mylist : mylist[p] = mylist[q] => p = q
        BY <2>3 DEF NumberInv
      <3>2. OldSeq(i) = registry[i].seq
        BY <2>2, <3>1, OldSeqOfOnce
      <3>3. registry[i].seq = Number(shown, i)
        BY <2>1 DEF NumberInv, Before
      <3>4. QED
        BY <2>1, <3>2, <3>3
    <2>4. InCluster' => InCluster
      BY <2>1 DEF InCluster, Ready
    <2>5. QED
      BY <2>1, <2>3, <2>4 DEF NumberInv, Before, After
  <1>8. CASE setsortkeys \/ DisambiguatePool \/ DisambiguationDone \/ sorttokens
    <2>1. call.at \in After /\ call'.at \in After \cup {"threw"} /\ call'.fn = call.fn
      BY <1>8 DEF setsortkeys, DisambiguatePool, disYears, DisambiguationDone, sorttokens,
                  At, Continue, Throw, After, IInv, CallInv
    <2>2. UNCHANGED <<mylist, shown, tracking, oldseq>>
      BY <1>8 DEF setsortkeys, DisambiguatePool, DisambiguationDone, sorttokens, changes
    <2>3. call'.at # "threw"
      BY DEF CalmInv
    <2>4. QED
      BY <2>1, <2>2, <2>3, NumberAfter
  <1>9. CASE renumber
    <2>1. call.at = "renumber" /\ call'.at = "returned" /\ UNCHANGED reflist
      BY <1>9 DEF renumber, At, Continue, CalmInv, IInv, CallInv
    <2>2. DOMAIN registry = Elements(reflist)
      BY <2>1 DEF RegisteredInv, Inserted, Methods, ListInv, Rebuilt
    <2>3. DOMAIN registry' = DOMAIN registry
      BY <1>9, RenumberFields DEF KeepsClasses, IInv
    <2>4. /\ shown' \in Seq(Entry)
          /\ Ids(shown') = Elements(reflist)
          /\ \A i : Number(shown', i) = Last(Positions(reflist, i))
      <3>1. StateInv
        BY DEF IInv
      <3>2. QED
        BY <1>9, <2>2, <3>1, RenumberShows
    <2>5. \A i \in Elements(reflist) : registry'[i].seq = Last(Positions(reflist, i))
      BY <2>1 DEF OrderInv
    <2>6. ~InCluster'
      BY <2>1 DEF InCluster, Ready
    <2>7. QED
      BY <2>1, <2>2, <2>3, <2>4, <2>5, <2>6 DEF NumberInv, Before
  <1>10. CASE UNCHANGED vars
    BY <1>10 DEF NumberInv, InCluster, Ready, changes, vars
  <1>11. QED
    BY <1>1, <1>2, <1>3, <1>4, <1>5, <1>6, <1>7, <1>8, <1>9, <1>10 DEF Next, Undisturbed

LEMMA NumberInit == Init => NumberInv
  <1> SUFFICES ASSUME Init PROVE NumberInv
    OBVIOUS
  <1>1. shown = <<>> /\ registry = <<>> /\ call.at = "returned"
    BY DEF Init
  <1>2. <<>> \in Seq(Entry) /\ DOMAIN shown = {} /\ DOMAIN registry = {}
    BY <1>1
  <1>3. Ids(shown) = {}
    BY <1>2 DEF Ids
  <1>4. QED
    BY <1>1, <1>2, <1>3 DEF NumberInv, Before, After, InCluster, Ready

\* The invariants of this module where nothing throws, for the theorems below.
LEMMA ReturnsHold ==
    ASSUME Undisturbed
    PROVE  Spec => [](ListInv /\ KeyInv /\ OrderInv /\ NumberInv)
  <1>1. UncitedLists = {} /\ Missing = {}
    BY DEF Undisturbed
  <1>2. IInv /\ RegisteredInv /\ KeyInv /\ [Next]_vars => KeyInv'
    BY <1>1, KeyNext
  <1>3. IInv /\ RegisteredInv /\ ListInv /\ KeyInv /\ OrderInv /\ [Next]_vars => OrderInv'
    BY <1>1, OrderNext
  <1>4. IInv /\ RegisteredInv /\ ListInv /\ CalmInv /\ OrderInv /\ NumberInv
              /\ CalmInv' /\ OrderInv' /\ [Next]_vars => NumberInv'
    BY NumberNext
  <1>5. Init => ListInv
    BY DEF Init, ListInv
  <1>6. QED
    BY <1>2, <1>3, <1>4, <1>5, ListNext, OrderInit, NumberInit, UndisturbedHolds,
       PTL DEF Spec

\* Only renumber ends a call of processCitationCluster.
LEMMA RenumberReturns ==
    ASSUME IInv, [Next]_vars, ReturnedTo("processCitationCluster")
    PROVE  renumber
  <1>1. call.at = "renumber" /\ call'.at = "returned"
    BY DEF ReturnedTo, At
  <1>2. ~UNCHANGED vars
    BY <1>1 DEF vars
  <1>3. ~ \/ \E list \in Lists, nosort \in NoSortFlags : UpdateItems(list, nosort)
          \/ \E list \in Lists : ClusterUpdate(list)
          \/ \E list \in UncitedLists, nosort \in NoSortFlags :
                UpdateUncitedItems(list, nosort)
          \/ RestoreEmptyState
    BY <1>1 DEF UpdateItems, ClusterUpdate, UpdateUncitedItems, RestoreEmptyState,
                Begin, Ready
  <1>4. ~(dodeletes \/ doinserts \/ douncited \/ dorefreshes \/ rebuildlist)
    BY <1>1 DEF dodeletes, doinserts, douncited, dorefreshes, rebuildlist, At
  <1>5. ~(setsortkeys \/ DisambiguatePool \/ DisambiguationDone \/ sorttokens \/ Reset)
    BY <1>1 DEF setsortkeys, DisambiguatePool, DisambiguationDone, sorttokens, Reset, At
  <1>6. QED
    BY <1>2, <1>3, <1>4, <1>5 DEF Next

\* rebuildlist and renumber: where nothing throws, under a style that numbers
\* its cites, processCitationCluster renders again every item that stays in the
\* bibliography and whose number is not what it was, also after calls of
\* updateItems that list items twice.
THEOREM NumberChangesAreReported ==
    ASSUME Undisturbed, "cites" \in NumberedParts
    PROVE  Spec => NumberChangesReported
  <1>1. IInv /\ ListInv /\ NumberInv /\ [Next]_vars =>
           (ReturnedTo("processCitationCluster") =>
              \A i \in Ids(shown) \cap Ids(shown') :
                 Number(shown, i) # Number(shown', i) => i \in taintedItemIDs')
    <2>1. SUFFICES ASSUME IInv, ListInv, NumberInv, [Next]_vars,
                          ReturnedTo("processCitationCluster"),
                          NEW i \in Ids(shown) \cap Ids(shown'),
                          Number(shown, i) # Number(shown', i)
                   PROVE  i \in taintedItemIDs'
      OBVIOUS
    <2>2. renumber /\ call.at = "renumber"
      BY <2>1, RenumberReturns DEF ReturnedTo, At
    <2>3. Elements(reflist) = Elements(mylist) /\ Elements(reflist) \subseteq DOMAIN registry
      BY <2>1, <2>2 DEF ListInv, Rebuilt, IInv, CallInv, Methods
    <2>4. Ids(shown') = Elements(reflist) /\ Number(shown', i) = Last(Positions(reflist, i))
      BY <2>1, <2>2, <2>3, RenumberShows DEF IInv
    <2>5. InCluster
      BY <2>1, <2>2 DEF InCluster, ReturnedTo, Ready
    <2>6. tracking /\ oldseq[i] = Number(shown, i)
      BY <2>1, <2>2, <2>3, <2>4, <2>5 DEF NumberInv, After
    <2>7. Last(Positions(reflist, i)) \in Positions(reflist, i)
      <3>1. reflist \in Seq(Item)
        BY <2>1 DEF IInv, StateInv
      <3>2. Positions(reflist, i) # {} /\ Positions(reflist, i) \in SUBSET (DOMAIN reflist)
        BY <2>1, <2>4 DEF Positions, Elements
      <3>3. QED
        BY <3>1, <3>2, LastPlace
    <2>8. i \in Moved
      BY <2>1, <2>4, <2>6, <2>7 DEF Moved, Positions
    <2>9. taintedItemIDs' = Tainted(Moved)
      BY <2>2 DEF renumber, Numbered
    <2>10. QED
      BY <2>6, <2>8, <2>9 DEF Tainted
  <1>2. QED
    BY <1>1, ReturnsHold, InvariantHolds, PTL DEF Spec, NumberChangesReported

\* A step of processCitationCluster in which nothing comes, goes or is
\* disambiguated.
LEMMA QuietStep ==
    ASSUME QuietInv, InCluster, ~bibchange, KeepsClasses, shown' = shown,
           refreshes' = {}, akeys' = {}, call'.todo = {}, call'.at # "returned"
    PROVE  QuietInv'
  <1>1. /\ Ids(shown) = DOMAIN registry
        /\ \A p \in DOMAIN shown : SuffixShown(p)
    BY DEF QuietInv
  <1>2. shown' = shown
    OBVIOUS
  <1>3. \A p \in DOMAIN shown : SuffixShown(p)'
    BY <1>1, <1>2 DEF SuffixShown, KeepsClasses
  <1>4. Ids(shown)' = DOMAIN registry'
    BY <1>1, <1>2 DEF KeepsClasses, Ids
  <1>5. QED
    BY <1>2, <1>3, <1>4 DEF QuietInv

LEMMA QuietCalls ==
    ASSUME CalmInv, SuffixInv, NumberInv, QuietInv, Ready, NEW list, init(list, FALSE),
           shown' = shown, call'.at = "dodeletes", call'.todo = {}
    PROVE  QuietInv'
  <1>1. /\ call.at = "returned"
        /\ UNCHANGED <<registry, akeys, shown>> /\ refreshes' = {}
    BY DEF Ready, CalmInv, init, pools
  <1>2. akeys = {} /\ Ids(shown) = DOMAIN registry
    BY <1>1 DEF SuffixInv, NumberInv
  <1>3. \A p \in DOMAIN shown : SuffixShown(p)'
    BY <1>1 DEF QuietInv, SuffixShown
  <1>4. QED
    BY <1>1, <1>2, <1>3 DEF QuietInv, Ids

LEMMA QuietNext ==
    ASSUME Undisturbed
    PROVE  IInv /\ RegisteredInv /\ ListInv /\ CalmInv /\ SuffixInv /\ NumberInv
              /\ QuietInv /\ CalmInv' /\ [Next]_vars => QuietInv'
  <1> SUFFICES ASSUME IInv, RegisteredInv, ListInv, CalmInv, SuffixInv, NumberInv,
                      QuietInv, CalmInv', [Next]_vars
               PROVE  QuietInv'
    OBVIOUS
  <1>1. CASE \E list \in Lists, nosort \in NoSortFlags : UpdateItems(list, nosort)
    <2>1. PICK list \in Lists, nosort \in NoSortFlags : UpdateItems(list, nosort)
      BY <1>1
    <2>2. Ready /\ init(list, FALSE) /\ call'.at = "dodeletes" /\ call'.todo = {}
      BY <2>1 DEF UpdateItems, Begin
    <2>3. shown' = shown
      BY <2>2 DEF init
    <2>4. QED
      BY <2>2, <2>3, QuietCalls
  <1>2. CASE \E list \in Lists : ClusterUpdate(list)
    <2>1. PICK list \in Lists : ClusterUpdate(list)
      BY <1>2
    <2>2. Ready /\ init(list, FALSE) /\ call'.at = "dodeletes" /\ call'.todo = {}
      BY <2>1 DEF ClusterUpdate, Begin
    <2>3. shown' = shown
      BY <2>2 DEF init
    <2>4. QED
      BY <2>2, <2>3, QuietCalls
  <1>3. ~RestoreEmptyState /\ ~Reset /\ ~douncited
    BY DEF RestoreEmptyState, Undisturbed, Reset, douncited, At, CalmInv, RegisteredInv
  <1>4. CASE dodeletes
    <2>1. /\ call.at = "dodeletes" /\ call'.at = "doinserts"
          /\ call'.fn = call.fn /\ call'.todo = call.todo
          /\ UNCHANGED <<shown, akeys>>
          /\ bibchange' = (bibchange \/ Deleted # {})
          /\ refreshes' = UNION {Left(registry[i].ambig) : i \in Deleted}
      BY <1>4 DEF dodeletes, Changed, At, Continue, IInv, CallInv
    <2>2. CASE InCluster' /\ ~bibchange'
      <3>1. InCluster /\ ~bibchange /\ Deleted = {}
        BY <2>1, <2>2 DEF InCluster, Ready
      <3>2. KeepsClasses
        BY <1>4, <3>1, DeletedFields DEF KeepsClasses
      <3>3. refreshes' = {}
        BY <2>1, <3>1
      <3>4. akeys' = {} /\ call'.todo = {}
        BY <2>1, <3>1 DEF QuietInv
      <3>5. QED
        BY <2>1, <2>2, <3>1, <3>2, <3>3, <3>4, QuietStep
    <2>3. CASE ~InCluster' \/ bibchange'
      BY <2>1, <2>3 DEF QuietInv
    <2>4. QED
      BY <2>2, <2>3
  <1>5. CASE doinserts
    <2>1. /\ call.at = "doinserts" /\ call'.at \in {"dorefreshes", "douncited", "threw"}
          /\ call'.fn = call.fn /\ call'.todo = call.todo
          /\ UNCHANGED <<shown, refreshes>>
      BY <1>5 DEF doinserts, At, Continue, IInv, CallInv
    <2>2. bibchange' = Changed(Inserting)
      BY <1>5, Zenon DEF doinserts, Inserting
    <2>3. /\ DOMAIN registry' = DOMAIN registry \cup Inserting
          /\ \A i \in DOMAIN registry : registry'[i] = registry[i]
          /\ akeys' = akeys \cup {Cite[i] : i \in Inserting}
      BY <1>5, InsertedFields DEF IInv
    <2>4. CASE InCluster' /\ ~bibchange'
      <3>1. InCluster /\ ~bibchange /\ Inserting = {}
        BY <2>1, <2>2, <2>4 DEF InCluster, Ready, Changed
      <3>2. KeepsClasses
        BY <2>3, <3>1 DEF KeepsClasses
      <3>3. refreshes' = {} /\ akeys' = {} /\ call'.todo = {}
        BY <2>1, <2>3, <3>1 DEF QuietInv
      <3>4. QED
        BY <2>1, <2>4, <3>1, <3>2, <3>3, QuietStep
    <2>5. CASE ~InCluster' \/ bibchange'
      BY <2>1, <2>5 DEF QuietInv
    <2>6. QED
      BY <2>4, <2>5
  <1>6. CASE \/ dorefreshes \/ rebuildlist \/ setsortkeys \/ DisambiguatePool
             \/ DisambiguationDone \/ sorttokens
    <2>1. /\ call'.fn = call.fn /\ call'.at \notin {"returned", "dodeletes"} /\ ~Ready
      BY <1>6 DEF dorefreshes, rebuildlist, setsortkeys, DisambiguatePool, disYears,
                  DisambiguationDone, sorttokens, At, Continue, Throw, Ready, IInv, CallInv
    <2>2. UNCHANGED <<shown, bibchange, refreshes>>
      BY <1>6 DEF dorefreshes, rebuildlist, setsortkeys, DisambiguatePool,
                  DisambiguationDone, sorttokens, changes
    <2>3. CASE InCluster' /\ ~bibchange'
      <3>1. InCluster /\ ~bibchange /\ ~DisambiguatePool
        <4>1. InCluster /\ ~bibchange
          BY <2>1, <2>2, <2>3 DEF InCluster
        <4>2. call.todo = {}
          BY <4>1 DEF QuietInv
        <4>3. QED
          BY <4>1, <4>2 DEF DisambiguatePool
      <3>2. refreshes = {} /\ akeys = {} /\ call.todo = {}
        BY <3>1 DEF QuietInv
      <3>3. KeepsClasses /\ akeys' = {} /\ call'.todo = {}
        <4>1. CASE dorefreshes
          <5>1. Refreshed = {}
            BY <3>2 DEF Refreshed
          <5>2. UNCHANGED <<registry, akeys>> /\ call'.todo = call.todo
            BY <4>1, <5>1 DEF dorefreshes, pools, Continue, IInv, CallInv
          <5>3. QED
            BY <3>2, <5>2 DEF KeepsClasses
        <4>2. CASE rebuildlist
          BY <3>2, <4>2, RebuildFields DEF rebuildlist, pools, Continue, IInv, CallInv
        <4>3. CASE setsortkeys
          BY <3>2, <4>3, SortKeysFields DEF setsortkeys, pools, IInv, CallInv
        <4>4. CASE DisambiguationDone \/ sorttokens
          BY <3>2, <4>4 DEF DisambiguationDone, sorttokens, pools, KeepsClasses,
                            Continue, IInv, CallInv
        <4>5. QED
          BY <1>6, <3>1, <4>1, <4>2, <4>3, <4>4
      <3>4. Ids(shown)' = DOMAIN registry' /\ \A p \in DOMAIN shown : SuffixShown(p)'
        BY <2>2, <3>1, <3>3 DEF QuietInv, KeepsClasses, SuffixShown, Ids
      <3>5. QED
        BY <2>1, <2>2, <3>2, <3>3, <3>4 DEF QuietInv
    <2>4. CASE ~InCluster' \/ bibchange'
      BY <2>1, <2>4 DEF QuietInv
    <2>5. QED
      BY <2>3, <2>4
  <1>7. CASE renumber
    <2>1. call.at = "renumber" /\ call'.at = "returned"
      BY <1>7 DEF renumber, At, Continue, CalmInv, IInv, CallInv
    <2>2. Elements(reflist) = DOMAIN registry /\ StateInv
      BY <2>1 DEF RegisteredInv, Inserted, Methods, ListInv, Rebuilt, IInv
    <2>3. KeepsClasses
      BY <1>7, <2>2, RenumberFields
    <2>4. /\ DOMAIN shown' = DOMAIN reflist
          /\ \A p \in DOMAIN reflist : /\ shown'[p].id = reflist[p]
                                       /\ shown'[p].suffix = registry[reflist[p]].suffix
      BY <1>7, <2>2, RenumberShows
    <2>5. \A p \in DOMAIN reflist : reflist[p] \in DOMAIN registry
      BY <2>2 DEF Elements
    <2>6. \A p \in DOMAIN shown' : SuffixShown(p)'
      BY <2>3, <2>4, <2>5 DEF SuffixShown, KeepsClasses
    <2>7. ~InCluster'
      BY <2>1 DEF InCluster, Ready
    <2>8. QED
      BY <2>6, <2>7 DEF QuietInv
  <1>8. CASE UNCHANGED vars
    BY <1>8 DEF QuietInv, SuffixShown, InCluster, Ready, Ids, changes, pools, vars
  <1>9. QED
    BY <1>1, <1>2, <1>3, <1>4, <1>5, <1>6, <1>7, <1>8 DEF Next, Undisturbed

LEMMA QuietInit == Init => QuietInv
  <1> SUFFICES ASSUME Init PROVE QuietInv
    OBVIOUS
  <1>1. DOMAIN shown = {} /\ call.at = "returned"
    BY DEF Init
  <1>2. QED
    BY <1>1 DEF QuietInv, InCluster, Ready

\* A list whose items have in the list shown before the number that is their
\* place, and all of them, is that list.
LEMMA SamePlaces ==
    ASSUME shown \in Seq(Entry), reflist \in Seq(Item), Ids(shown) = Elements(reflist),
           \A p \in DOMAIN reflist : Number(shown, reflist[p]) = p
    PROVE  /\ DOMAIN shown = DOMAIN reflist
           /\ \A p \in DOMAIN reflist : shown[p].id = reflist[p]
  <1>1. ASSUME NEW p \in DOMAIN reflist
        PROVE  p \in DOMAIN shown /\ shown[p].id = reflist[p]
    <2>1. reflist[p] \in Ids(shown)
      BY DEF Elements
    <2>2. QED
      BY <2>1, NumberInList
  <1>2. /\ DOMAIN shown = 1 .. Len(shown) /\ Len(shown) \in Nat
        /\ DOMAIN reflist = 1 .. Len(reflist) /\ Len(reflist) \in Nat
    OBVIOUS
  <1>3. Len(reflist) <= Len(shown)
    BY <1>1, <1>2
  <1>4. ~(Len(shown) > Len(reflist))
    <2>1. SUFFICES ASSUME Len(shown) > Len(reflist) PROVE FALSE
      OBVIOUS
    <2>2. Len(shown) \in DOMAIN shown
      BY <1>2, <2>1
    <2>3. shown[Len(shown)].id \in Ids(shown)
      BY <2>2 DEF Ids
    <2>4. PICK p \in DOMAIN reflist : reflist[p] = shown[Len(shown)].id
      BY <2>3 DEF Elements
    <2>5. Len(shown) <= Number(shown, reflist[p])
      BY <2>2, <2>3, <2>4, NumberInList
    <2>6. Number(shown, reflist[p]) = p /\ p <= Len(reflist) /\ p \in Nat
      BY <1>2, <2>4
    <2>7. QED
      BY <1>2, <2>1, <2>5, <2>6
  <1>5. Len(shown) = Len(reflist)
    <2>1. \A m, n \in Nat : n <= m /\ ~(m > n) => m = n
      OBVIOUS
    <2>2. QED
      BY <1>2, <1>3, <1>4, <2>1
  <1>6. DOMAIN shown = DOMAIN reflist
    BY <1>2, <1>5
  <1>7. QED
    BY <1>1, <1>6

\* dodeletes, doinserts and renumber: where nothing throws, under a style that
\* numbers its bibliography, processCitationCluster notes a change of the
\* bibliography whenever an item, a place or a year suffix in it is not what it
\* was, whatever was called before.
THEOREM BibliographyChangesAreReported ==
    ASSUME Undisturbed, "bibliography" \in NumberedParts
    PROVE  Spec => BibliographyChangesReported
  <1>1. IInv /\ RegisteredInv /\ ListInv /\ NumberInv /\ QuietInv /\ [Next]_vars =>
           (ReturnedTo("processCitationCluster") => (shown' # shown => bibchange'))
    <2>1. SUFFICES ASSUME IInv, RegisteredInv, ListInv, NumberInv, QuietInv, [Next]_vars,
                          ReturnedTo("processCitationCluster"), ~bibchange'
                   PROVE  shown' = shown
      OBVIOUS
    <2>2. renumber /\ call.at = "renumber"
      BY <2>1, RenumberReturns DEF ReturnedTo, At
    <2>3. InCluster
      BY <2>1, <2>2 DEF InCluster, ReturnedTo, Ready
    <2>4. tracking
      BY <2>1, <2>3 DEF NumberInv
    <2>5. ~bibchange /\ Moved = {}
      BY <2>1, <2>2, <2>4 DEF renumber, Numbered
    <2>6. /\ Ids(shown) = DOMAIN registry
          /\ \A p \in DOMAIN shown : SuffixShown(p)
      BY <2>1, <2>3, <2>5 DEF QuietInv
    <2>7. Elements(reflist) = Elements(mylist) /\ Elements(reflist) = DOMAIN registry
      BY <2>1, <2>2 DEF ListInv, Rebuilt, RegisteredInv, Inserted, Methods
    <2>8. shown \in Seq(Entry) /\ reflist \in Seq(Item) /\ StateInv
      BY <2>1 DEF NumberInv, IInv, StateInv
    <2>9. ASSUME NEW p \in DOMAIN reflist
          PROVE  Number(shown, reflist[p]) = p
      <3>1. oldseq[reflist[p]] = p
        BY <2>5 DEF Moved
      <3>2. reflist[p] \in Ids(shown) \cap Elements(mylist)
        BY <2>6, <2>7 DEF Elements
      <3>3. oldseq[reflist[p]] = Number(shown, reflist[p])
        BY <2>1, <2>2, <2>3, <3>2 DEF NumberInv, After
      <3>4. QED
        BY <3>1, <3>3
    <2>10. /\ DOMAIN shown = DOMAIN reflist
           /\ \A p \in DOMAIN reflist : shown[p].id = reflist[p]
      BY <2>6, <2>7, <2>8, <2>9, SamePlaces
    <2>11. /\ shown' \in Seq(Entry)
           /\ DOMAIN shown' = DOMAIN reflist
           /\ \A p \in DOMAIN reflist : /\ shown'[p].id = reflist[p]
                                        /\ shown'[p].suffix = registry[reflist[p]].suffix
      BY <2>2, <2>7, <2>8, RenumberShows
    <2>12. \A p \in DOMAIN reflist : shown[p].suffix = registry[reflist[p]].suffix
      BY <2>6, <2>10 DEF SuffixShown
    <2>13. QED
      <3>1. \A s \in Seq(Entry) : \A p \in DOMAIN s : s[p] \in Entry
        OBVIOUS
      <3>2. \A e, f \in Entry : e.id = f.id /\ e.suffix = f.suffix => e = f
        BY DEF Entry
      <3>3. \A p \in DOMAIN shown : shown'[p] = shown[p]
        BY <2>8, <2>10, <2>11, <2>12, <3>1, <3>2
      <3>4. DOMAIN shown' = DOMAIN shown
        BY <2>10, <2>11
      <3>5. QED
        BY <2>8, <2>11, <3>3, <3>4
  <1>2. IInv /\ RegisteredInv /\ ListInv /\ CalmInv /\ SuffixInv /\ NumberInv
              /\ QuietInv /\ CalmInv' /\ [Next]_vars => QuietInv'
    BY QuietNext
  <1>3. QED
    BY <1>1, <1>2, QuietInit, ReturnsHold, UndisturbedHolds,
       PTL DEF Spec, BibliographyChangesReported

-----------------------------------------------------------------------------
(* The list returned is the one that is promised.                          *)

\* The style's sort tells all look-alikes apart.
LookAlikesApart ==
    \A i, j \in Item : i # j /\ Cite[i] = Cite[j] => SortKey[i] # SortKey[j]

\* i is before j by their keys.
KeyBefore(i, j) ==
    \/ SortKey[i] # Undefined /\ SortKey[j] = Undefined
    \/ /\ Undefined \notin {SortKey[i], SortKey[j]}
       /\ IF Descending THEN SortKey[i] > SortKey[j] ELSE SortKey[i] < SortKey[j]

\* The suffixes of look-alikes are in the order of their keys, as far as they
\* have any.
RankInv ==
    \A i, j \in DOMAIN registry :
        /\ Cite[i] = Cite[j] /\ KeyBefore(i, j)
        /\ registry[i].suffix # NoSuffix /\ registry[j].suffix # NoSuffix
        => registry[i].suffix < registry[j].suffix

\* What a call was asked for, and that sorting only moved it.
AskedInv ==
    /\ ~Ready => mylist \in Lists /\ call.nosort \in NoSortFlags \cup {FALSE}
    /\ call.at = "renumber" =>
          /\ DOMAIN reflist = DOMAIN mylist
          /\ \A i \in Elements(mylist) :
                Cardinality(Positions(reflist, i)) = Cardinality(Positions(mylist, i))

\* A step that sets no suffix but takes some away.
LEMMA RankKept ==
    ASSUME RankInv,
           \A i \in DOMAIN registry' :
               \/ registry'[i].suffix = NoSuffix
               \/ i \in DOMAIN registry /\ registry'[i].suffix = registry[i].suffix
    PROVE  RankInv'
  BY DEF RankInv, KeyBefore

\* Sorted tokens are in order of their keys, and so are their places.
LEMMA RankedByDisYears ==
    ASSUME NEW S, NEW tokens \in Sorted(Arrangements(S)), IsFiniteSet(S),
           S \subseteq Item, \A i \in S : registry[i].sortkeys,
           NEW i \in S, NEW j \in S, KeyBefore(i, j)
    PROVE  SuffixOf(tokens, i) < SuffixOf(tokens, j)
  <1>1. /\ tokens \in Arrangements(S)
        /\ (\A p \in DOMAIN tokens : registry[tokens[p]].sortkeys) =>
              \A p, q \in DOMAIN tokens : p < q => ~compareKeys(tokens[q], tokens[p])
    BY DEF Sorted
  <1>2. PICK n \in Nat : n = Cardinality(S)
    BY FS_CardinalityType
  <1>3. tokens \in [1 .. n -> S] /\ Elements(tokens) = S
    BY <1>1, <1>2, ArrangedSuffixes DEF Arrangements
  <1>4. \A p, q \in 1 .. n : p < q => ~compareKeys(tokens[q], tokens[p])
    BY <1>1, <1>3
  <1>5. compareKeys(i, j)
    BY DEF KeyBefore, compareKeys
  <1>6. i # j
    <2>1. SortKey[i] \in Nat \cup {Undefined}
      BY ItemAssumption
    <2>2. QED
      BY <2>1 DEF KeyBefore
  <1>7. \A k \in S : SuffixOf(tokens, k) + 1 \in 1 .. n /\ tokens[SuffixOf(tokens, k) + 1] = k
    <2>1. SUFFICES ASSUME NEW k \in S
                   PROVE  SuffixOf(tokens, k) + 1 \in 1 .. n
                          /\ tokens[SuffixOf(tokens, k) + 1] = k
      OBVIOUS
    <2>2. \E p \in DOMAIN tokens : tokens[p] = k
      BY <1>3 DEF Elements
    <2> DEFINE place == CHOOSE p \in DOMAIN tokens : tokens[p] = k
    <2>3. place \in 1 .. n /\ tokens[place] = k
      BY <1>3, <2>2
    <2>4. SuffixOf(tokens, k) = place - 1
      BY DEF SuffixOf
    <2> HIDE DEF place
    <2>5. SuffixOf(tokens, k) + 1 = place
      BY <2>3, <2>4
    <2>6. QED
      BY <2>3, <2>5
  <1> DEFINE u == SuffixOf(tokens, i)
             v == SuffixOf(tokens, j)
  <1>8. /\ u + 1 \in 1 .. n /\ tokens[u + 1] = i
        /\ v + 1 \in 1 .. n /\ tokens[v + 1] = j
    BY <1>7
  <1>9. ~(v + 1 < u + 1) /\ u + 1 # v + 1
    BY <1>4, <1>5, <1>6, <1>8
  <1>10. u \in Int /\ v \in Int
    <2>1. \A k \in S : SuffixOf(tokens, k) \in 0 .. n - 1
      BY <1>1, <1>2, ArrangedSuffixes
    <2>2. QED
      BY <2>1
  <1> HIDE DEF u, v
  <1>11. u < v
    BY <1>8, <1>9, <1>10
  <1>12. QED
    BY <1>11 DEF u, v

LEMMA RankDisambiguates ==
    ASSUME IInv, ClassInv, CalmInv, KeyInv, RankInv, DisambiguatePool
    PROVE  RankInv'
  <1>1. PICK akey \in call.todo :
          \/ UNCHANGED registry
          \/ /\ Cardinality(disambiguated[akey]) > 1
             /\ \E ids \in InOrder(disambiguated[akey]),
                   tokens \in Sorted(Arrangements(disambiguated[akey] \cap DOMAIN registry)) :
                      disYears(akey, ids, tokens)
    BY DEF DisambiguatePool
  <1>2. akey \in Cites /\ call.at = "setdisambigs"
    BY DEF DisambiguatePool, At, IInv, CallInv
  <1>3. CASE UNCHANGED registry
    BY <1>3, RankKept
  <1>4. ASSUME Cardinality(disambiguated[akey]) > 1,
               NEW ids \in InOrder(disambiguated[akey]),
               NEW tokens \in Sorted(Arrangements(disambiguated[akey] \cap DOMAIN registry)),
               disYears(akey, ids, tokens)
        PROVE  RankInv'
    <2>1. /\ DOMAIN registry' = DOMAIN registry
          /\ \A i \in Pool(akey) : registry'[i].suffix = SuffixOf(tokens, i)
          /\ \A i \in DOMAIN registry : i \notin Pool(akey) => registry'[i] = registry[i]
      BY <1>2, <1>4, CountedByDisYears
    <2>2. tokens \in Sorted(Arrangements(Pool(akey)))
      <3>1. disambiguated[akey] \cap DOMAIN registry = Pool(akey)
        BY <1>2 DEF disambiguated, ClassInv, CalmInv, Pool
      <3>2. QED
        BY <1>4, <3>1
    <2>3. /\ IsFiniteSet(Pool(akey)) /\ Pool(akey) \subseteq Item
          /\ \A i \in Pool(akey) : registry[i].sortkeys
      BY <1>2, PoolsAreFinite DEF Pool, KeyInv, IInv, StateInv
    <2>4. SUFFICES ASSUME NEW i \in DOMAIN registry, NEW j \in DOMAIN registry,
                          Cite[i] = Cite[j], KeyBefore(i, j),
                          registry'[i].suffix # NoSuffix, registry'[j].suffix # NoSuffix
                   PROVE  registry'[i].suffix < registry'[j].suffix
      BY <2>1 DEF RankInv, KeyBefore
    <2>5. CASE Cite[i] = akey
      <3>1. i \in Pool(akey) /\ j \in Pool(akey)
        BY <2>4, <2>5 DEF Pool
      <3>2. SuffixOf(tokens, i) < SuffixOf(tokens, j)
        BY <2>2, <2>3, <2>4, <3>1, RankedByDisYears
      <3>3. QED
        BY <2>1, <3>1, <3>2
    <2>6. CASE Cite[i] # akey
      <3>1. registry'[i] = registry[i] /\ registry'[j] = registry[j]
        BY <2>1, <2>4, <2>6 DEF Pool
      <3>2. QED
        BY <2>4, <3>1 DEF RankInv
    <2>7. QED
      BY <2>5, <2>6
  <1>5. QED
    BY <1>1, <1>3, <1>4

LEMMA RankNext ==
    ASSUME Undisturbed
    PROVE  IInv /\ RegisteredInv /\ ClassInv /\ CalmInv /\ KeyInv /\ RankInv
              /\ [Next]_vars => RankInv'
  <1> SUFFICES ASSUME IInv, RegisteredInv, ClassInv, CalmInv, KeyInv, RankInv, [Next]_vars
               PROVE  RankInv'
    OBVIOUS
  <1>1. ~RestoreEmptyState /\ ~Reset /\ ~douncited
    BY DEF RestoreEmptyState, Undisturbed, Reset, douncited, At, CalmInv, RegisteredInv
  <1>2. CASE \/ \E list \in Lists, nosort \in NoSortFlags : UpdateItems(list, nosort)
             \/ \E list \in Lists : ClusterUpdate(list)
             \/ DisambiguationDone \/ sorttokens \/ UNCHANGED vars
    <2>1. UNCHANGED registry
      BY <1>2 DEF UpdateItems, ClusterUpdate, init, DisambiguationDone, sorttokens, vars
    <2>2. QED
      BY <2>1, RankKept
  <1>3. CASE dodeletes
    BY <1>3, DeletedFields, RankKept
  <1>4. CASE doinserts
    <2>1. \A i : NewToken(i).suffix = NoSuffix
      BY DEF NewToken
    <2>2. QED
      BY <1>4, <2>1, InsertedFields, RankKept DEF IInv
  <1>5. CASE dorefreshes
    <2>1. StateInv
      BY DEF IInv
    <2>2. \A i \in DOMAIN registry' :
             \/ registry'[i].suffix = NoSuffix
             \/ i \in DOMAIN registry /\ registry'[i].suffix = registry[i].suffix
      BY <1>5, <2>1, RefreshedFields
    <2>3. QED
      BY <2>2, RankKept
  <1>6. CASE rebuildlist \/ setsortkeys \/ renumber
    <2>1. KeepsClasses
      BY <1>6, RebuildFields, SortKeysFields, RenumberFields DEF IInv
    <2>2. QED
      BY <2>1, RankKept DEF KeepsClasses
  <1>7. CASE DisambiguatePool
    BY <1>7, RankDisambiguates
  <1>8. QED
    BY <1>1, <1>2, <1>3, <1>4, <1>5, <1>6, <1>7 DEF Next, Undisturbed

\* Every item is in a sorted list as often as in the list.
LEMMA SortedPermutes ==
    ASSUME NEW s \in Seq(Item), NEW t \in Sortings(s), NEW i
    PROVE  /\ DOMAIN t = DOMAIN s
           /\ Cardinality(Positions(t, i)) = Cardinality(Positions(s, i))
  <1>1. PICK f \in Arrangements(DOMAIN s) : t = [k \in DOMAIN s |-> s[f[k]]]
    BY DEF Sortings, Sorted
  <1>2. PICK n \in Nat : DOMAIN s = 1 .. n
    OBVIOUS
  <1>3. /\ f \in [1 .. n -> 1 .. n]
        /\ \A j, k \in 1 .. n : f[j] = f[k] => j = k
    <2>1. Cardinality(1 .. n) = n
      BY FS_Interval
    <2>2. QED
      BY <1>1, <1>2, <2>1 DEF Arrangements
  <1>4. \A k \in 1 .. n : \E j \in 1 .. n : f[j] = k
    BY <1>1, <1>2, ArrangementOnto
  <1> DEFINE A == Positions(t, i)
             B == Positions(s, i)
             g == [k \in A |-> f[k]]
  <1>5. A \subseteq 1 .. n /\ B \subseteq 1 .. n
    BY <1>1, <1>2 DEF Positions
  <1>6. \A k \in 1 .. n : k \in A <=> f[k] \in B
    BY <1>1, <1>2, <1>3 DEF Positions
  <1> HIDE DEF A, B
  <1>7. g \in Surjection(A, B)
    <2>1. g \in [A -> B]
      BY <1>5, <1>6
    <2>2. \A b \in B : \E k \in A : g[k] = b
      BY <1>4, <1>5, <1>6
    <2>3. QED
      BY <2>1, <2>2 DEF Surjection
  <1>8. g \in Injection(A, B)
    <2>1. \A j, k \in A : g[j] = g[k] => j = k
      BY <1>3, <1>5
    <2>2. QED
      BY <1>7, <2>1 DEF Injection, IsInjective, Surjection
  <1>9. IsFiniteSet(A)
    <2>1. A \in SUBSET (1 .. n) /\ IsFiniteSet(1 .. n)
      BY <1>5, FS_Interval
    <2>2. QED
      BY <2>1, FS_Subset
  <1>10. Cardinality(A) = Cardinality(B)
    BY <1>7, <1>8, <1>9, FS_Surjection
  <1>11. QED
    BY <1>1, <1>10 DEF A, B

LEMMA AskedNext ==
    ASSUME Undisturbed
    PROVE  IInv /\ RegisteredInv /\ CalmInv /\ OrderInv /\ AskedInv /\ CalmInv'
              /\ [Next]_vars => AskedInv'
  <1> SUFFICES ASSUME IInv, RegisteredInv, CalmInv, OrderInv, AskedInv, CalmInv', [Next]_vars
               PROVE  AskedInv'
    OBVIOUS
  <1>1. ~RestoreEmptyState /\ ~Reset /\ ~douncited
    BY DEF RestoreEmptyState, Undisturbed, Reset, douncited, At, CalmInv, RegisteredInv
  <1>2. CASE \E list \in Lists, nosort \in NoSortFlags : UpdateItems(list, nosort)
    <2>1. PICK list \in Lists, nosort \in NoSortFlags : UpdateItems(list, nosort)
      BY <1>2
    <2>2. /\ init(list, FALSE) /\ list \in Seq(Item)
          /\ call'.at = "dodeletes" /\ call'.nosort = nosort
      BY <2>1, BoundAssumption DEF UpdateItems, Begin
    <2>3. list \o <<>> = list
      BY <2>2
    <2>4. mylist' = list
      BY <2>2, <2>3 DEF init, WithUncited, RegisteredInv
    <2>5. QED
      BY <2>2, <2>4 DEF AskedInv
  <1>3. CASE \E list \in Lists : ClusterUpdate(list)
    <2>1. PICK list \in Lists : ClusterUpdate(list)
      BY <1>3
    <2>2. /\ init(list, FALSE) /\ list \in Seq(Item)
          /\ call'.at = "dodeletes" /\ call'.nosort = FALSE
      BY <2>1, BoundAssumption DEF ClusterUpdate, Begin
    <2>3. list \o <<>> = list
      BY <2>2
    <2>4. mylist' = list
      BY <2>2, <2>3 DEF init, WithUncited, RegisteredInv
    <2>5. QED
      BY <2>2, <2>4 DEF AskedInv
  <1>4. CASE \/ dodeletes \/ doinserts \/ dorefreshes \/ rebuildlist \/ setsortkeys
             \/ DisambiguatePool
    <2>1. mylist' = mylist /\ call'.nosort = call.nosort /\ call'.at # "renumber" /\ ~Ready
      BY <1>4 DEF dodeletes, doinserts, dorefreshes, rebuildlist, setsortkeys,
                  DisambiguatePool, disYears, At, Continue, Throw, Ready, IInv, CallInv
    <2>2. QED
      BY <2>1 DEF AskedInv
  <1>5. CASE DisambiguationDone
    <2>1. /\ UNCHANGED <<mylist, reflist>> /\ call'.nosort = call.nosort
          /\ call.at = "setdisambigs" /\ ~Ready
      BY <1>5 DEF DisambiguationDone, At, Continue, Ready, IInv, CallInv
    <2>2. reflist = mylist
      BY <2>1 DEF OrderInv
    <2>3. QED
      BY <2>1, <2>2 DEF AskedInv
  <1>6. CASE sorttokens
    <2>1. /\ mylist' = mylist /\ call'.nosort = call.nosort
          /\ call.at = "sorttokens" /\ ~Ready
      BY <1>6 DEF sorttokens, At, Continue, Ready, IInv, CallInv
    <2>2. reflist' \in Sortings(mylist) /\ mylist \in Seq(Item)
      BY <1>6, <2>1 DEF sorttokens, OrderInv, IInv, StateInv
    <2>3. /\ DOMAIN reflist' = DOMAIN mylist
          /\ \A i : Cardinality(Positions(reflist', i)) = Cardinality(Positions(mylist, i))
      BY <2>2, SortedPermutes
    <2>4. mylist \in Lists /\ call.nosort \in NoSortFlags \cup {FALSE}
      BY <2>1 DEF AskedInv
    <2>5. mylist' \in Lists /\ call'.nosort \in NoSortFlags \cup {FALSE}
      BY <2>1, <2>4
    <2>6. DOMAIN reflist' = DOMAIN mylist'
      BY <2>1, <2>3
    <2>7. \A i : Cardinality(Positions(reflist', i)) = Cardinality(Positions(mylist', i))
      BY <2>1, <2>3
    <2>8. \A i \in Elements(mylist') :
             Cardinality(Positions(reflist', i)) = Cardinality(Positions(mylist', i))
      BY <2>7
    <2>9. QED
      BY <2>5, <2>6, <2>8, Zenon DEF AskedInv
  <1>7. CASE renumber
    <2>1. call'.at = "returned"
      BY <1>7 DEF renumber, Continue, CalmInv, IInv, CallInv
    <2>2. QED
      BY <2>1 DEF AskedInv, Ready
  <1>8. CASE UNCHANGED vars
    <2>1. UNCHANGED <<mylist, reflist, call>>
      BY <1>8 DEF vars
    <2>2. \A i : Cardinality(Positions(reflist', i)) = Cardinality(Positions(reflist, i))
      BY <2>1
    <2>3. \A i : Cardinality(Positions(mylist', i)) = Cardinality(Positions(mylist, i))
      BY <2>1
    <2>4. Elements(mylist') = Elements(mylist) /\ (Ready' <=> Ready)
      BY <2>1 DEF Ready
    <2>5. QED
      BY <2>1, <2>2, <2>3, <2>4 DEF AskedInv
  <1>9. QED
    BY <1>1, <1>2, <1>3, <1>4, <1>5, <1>6, <1>7, <1>8 DEF Next, Undisturbed

LEMMA AskedInit == Init => RankInv /\ AskedInv
  <1> SUFFICES ASSUME Init PROVE RankInv /\ AskedInv
    OBVIOUS
  <1>1. DOMAIN registry = {} /\ call.at = "returned"
    BY DEF Init
  <1>2. QED
    BY <1>1 DEF RankInv, AskedInv, Ready

\* The place of an item in the list asked for is its last.
LEMMA PlaceIsLast ==
    ASSUME NEW list \in Seq(Item), NEW i \in Elements(list)
    PROVE  Promise!Place(list, i) = Last(Positions(list, i))
  <1> DEFINE last == Last(Positions(list, i))
             IsPlace(p) == list[p] = i /\ \A q \in DOMAIN list : list[q] = i => q <= p
  <1>1. Positions(list, i) # {} /\ Positions(list, i) \in SUBSET (DOMAIN list)
    BY DEF Positions, Elements
  <1>2. last \in Positions(list, i) /\ \A q \in Positions(list, i) : q <= last
    BY <1>1, LastPlace
  <1>3. last \in DOMAIN list /\ IsPlace(last)
    BY <1>2 DEF Positions
  <1>4. \A p \in DOMAIN list : IsPlace(p) => p = last
    <2>1. DOMAIN list = 1 .. Len(list) /\ Len(list) \in Nat
      OBVIOUS
    <2>2. SUFFICES ASSUME NEW p \in DOMAIN list, IsPlace(p) PROVE p = last
      OBVIOUS
    <2>3. p <= last /\ last <= p
      BY <1>3, <2>2
    <2> HIDE DEF last
    <2>4. p \in Nat /\ last \in Nat
      BY <1>3, <2>1
    <2>5. QED
      BY <2>3, <2>4
  <1> HIDE DEF last
  <1>5. (CHOOSE p \in DOMAIN list : IsPlace(p)) = last
    BY <1>3, <1>4
  <1>6. QED
    BY <1>5 DEF Promise!Place, last

\* Items with different keys are in the order of the keys.
LEMMA PrecedesByKey ==
    ASSUME NEW list, NEW i \in Item, NEW j \in Item, SortKey[i] # SortKey[j]
    PROVE  Promise!Precedes(list, i, j) <=> KeyBefore(i, j)
  BY DEF Promise!Precedes, KeyBefore

\* The suffixes of a class of n are 0 to n - 1: as many are smaller than one of
\* them as it says.
LEMMA SmallerSuffixes ==
    ASSUME NEW P, IsFiniteSet(P), NEW f \in [P -> Nat],
           {f[j] : j \in P} = 0 .. Cardinality(P) - 1, NEW i \in P
    PROVE  /\ Cardinality({j \in P : f[j] < f[i]}) = f[i]
           /\ \A j, k \in P : f[j] = f[k] => j = k
  <1>1. PICK n \in Nat : n = Cardinality(P)
    BY FS_CardinalityType
  <1>2. f \in Surjection(P, 0 .. n - 1)
    <2>1. \A j \in P : f[j] \in 0 .. n - 1
      BY <1>1
    <2>2. f \in [P -> 0 .. n - 1]
      BY <2>1
    <2>3. \A m \in 0 .. n - 1 : \E j \in P : f[j] = m
      BY <1>1
    <2>4. QED
      BY <2>2, <2>3 DEF Surjection
  <1>3. Cardinality(0 .. n - 1) = n
    BY FS_Interval
  <1>4. f \in Injection(P, 0 .. n - 1)
    BY <1>1, <1>2, <1>3, FS_Surjection
  <1>5. \A j, k \in P : f[j] = f[k] => j = k
    BY <1>4 DEF Injection, IsInjective
  <1> DEFINE L == {j \in P : f[j] < f[i]}
             g == [j \in L |-> f[j]]
             m == f[i]
  <1>6. m \in Nat /\ m \in 0 .. n - 1
    BY <1>2 DEF Surjection
  <1>7. g \in Surjection(L, 0 .. m - 1)
    <2>1. g \in [L -> 0 .. m - 1]
      <3>1. \A j \in L : f[j] \in 0 .. m - 1
        BY <1>6
      <3>2. QED
        BY <3>1
    <2>2. \A k \in 0 .. m - 1 : \E j \in L : g[j] = k
      <3>1. SUFFICES ASSUME NEW k \in 0 .. m - 1 PROVE \E j \in L : g[j] = k
        OBVIOUS
      <3>2. k \in 0 .. n - 1 /\ k < m
        BY <1>6
      <3>3. PICK j \in P : f[j] = k
        BY <1>2, <3>2 DEF Surjection
      <3>4. j \in L
        BY <3>2, <3>3
      <3>5. QED
        BY <3>3, <3>4
    <2>3. QED
      BY <2>1, <2>2 DEF Surjection
  <1>8. g \in Injection(L, 0 .. m - 1)
    <2>1. \A j, k \in L : g[j] = g[k] => j = k
      BY <1>5
    <2>2. QED
      BY <1>7, <2>1 DEF Injection, IsInjective, Surjection
  <1>9. IsFiniteSet(L)
    <2>1. L \in SUBSET P
      OBVIOUS
    <2>2. QED
      BY <2>1, FS_Subset
  <1>10. Cardinality(0 .. m - 1) = m
    BY <1>6, FS_Interval
  <1>11. Cardinality(L) = m
    <2> HIDE DEF L, g, m
    <2>1. QED
      BY <1>7, <1>8, <1>9, <1>10, FS_Surjection
  <1>12. QED
    BY <1>5, <1>11

\* The instance of the abstract specification counts as this module does.
LEMMA SameCardinality == ASSUME NEW S PROVE Promise!Cardinality(S) = Cardinality(S)
  BY DEF Promise!Cardinality, Cardinality

\* Where all classes are numbered in the order of their keys, an item has the
\* suffix that is promised.
LEMMA SuffixAsPromised ==
    ASSUME LookAlikesApart, StateInv, RankInv, DOMAIN registry = Elements(mylist),
           \A c \in Cites : Counted(c), NEW i \in Elements(mylist)
    PROVE  registry[i].suffix = Promise!Suffix(mylist, i)
  <1> DEFINE c == Cite[i]
             n == Cardinality(Pool(c))
             alike == {j \in Promise!Listed(mylist) : Cite[j] = Cite[i]}
  <1>1. i \in Item /\ c \in Cites /\ i \in Pool(c) /\ Pool(c) \subseteq Item
    BY DEF StateInv, Cites, Pool
  <1>2. alike = Pool(c)
    BY DEF Promise!Listed, Elements, Pool
  <1>3. IsFiniteSet(Pool(c)) /\ n \in Nat
    BY PoolsAreFinite
  <1>4. {registry[j].suffix : j \in Pool(c)} = Numbering(n)
    BY <1>1 DEF Counted
  <1> DEFINE below == {j \in Pool(c) : Promise!Precedes(mylist, j, i)}
  <1>5. Promise!Suffix(mylist, i) =
           IF Pool(c) = {i} THEN NoSuffix ELSE Cardinality(below)
    <2>1. Promise!Suffix(mylist, i) =
             IF alike = {i} THEN Promise!NoSuffix
             ELSE Promise!Cardinality({j \in alike : Promise!Precedes(mylist, j, i)})
      BY DEF Promise!Suffix
    <2>2. Promise!NoSuffix = NoSuffix
      BY DEF Promise!NoSuffix, NoSuffix
    <2> HIDE DEF alike
    <2>3. {j \in alike : Promise!Precedes(mylist, j, i)} = below
      BY <1>2
    <2>4. QED
      BY <1>2, <2>1, <2>2, <2>3, SameCardinality
  <1> HIDE DEF c, alike
  <1>6. CASE Pool(c) = {i}
    <2>1. n = 1
      BY <1>6, FS_Singleton
    <2>2. registry[i].suffix \in {NoSuffix}
      BY <1>1, <1>4, <2>1 DEF Numbering
    <2>3. QED
      BY <1>5, <1>6, <2>2
  <1>7. CASE Pool(c) # {i}
    <2> DEFINE f == [j \in Pool(c) |-> registry[j].suffix]
    <2>1. n # 1
      BY <1>1, <1>3, <1>7, FS_Singleton
    <2>2. {f[j] : j \in Pool(c)} = 0 .. n - 1
      BY <1>4, <2>1 DEF Numbering
    <2>3. \A j \in Pool(c) : f[j] \in 0 .. n - 1
      BY <2>2
    <2>4. f \in [Pool(c) -> Nat]
      BY <2>3
    <2>5. \A j \in Pool(c) : registry[j].suffix # NoSuffix /\ registry[j].suffix = f[j]
      BY <2>3 DEF NoSuffix
    <2>6. \A j, k \in Pool(c) : KeyBefore(j, k) => f[j] < f[k]
      <3>1. \A j \in Pool(c) : j \in DOMAIN registry /\ Cite[j] = c
        BY DEF Pool
      <3>2. QED
        BY <2>5, <3>1 DEF RankInv
    <2> HIDE DEF f
    <2>7. Cardinality({j \in Pool(c) : f[j] < f[i]}) = f[i]
      <3>1. IsFiniteSet(Pool(c)) /\ i \in Pool(c)
        BY <1>1, <1>3
      <3> HIDE DEF c
      <3>2. QED
        BY <3>1, <2>2, <2>4, SmallerSuffixes
    <2>8. ASSUME NEW j \in Pool(c)
          PROVE  Promise!Precedes(mylist, j, i) <=> f[j] < f[i]
      <3>1. CASE j = i
        <4>1. ~Promise!Precedes(mylist, i, i)
          <5>1. Promise!Place(mylist, i) \in Nat
            <6>1. mylist \in Seq(Item)
              BY DEF StateInv
            <6>2. QED
              BY <6>1, PlaceIsLast, LastPosition
          <5>2. QED
            BY <5>1 DEF Promise!Precedes
        <4>2. ~(f[i] < f[i])
          BY <1>1, <2>4
        <4>3. QED
          BY <3>1, <4>1, <4>2
      <3>2. CASE j # i
        <4>1. j \in Item /\ Cite[j] = c /\ Cite[i] = c
          BY <1>1 DEF Pool
        <4>2. SortKey[j] # SortKey[i]
          BY <1>1, <3>2, <4>1 DEF LookAlikesApart
        <4>3. Promise!Precedes(mylist, j, i) <=> KeyBefore(j, i)
          BY <1>1, <4>1, <4>2, PrecedesByKey
        <4>4. KeyBefore(j, i) \/ KeyBefore(i, j)
          <5>1. SortKey[i] \in Nat \cup {Undefined} /\ SortKey[j] \in Nat \cup {Undefined}
            BY <1>1, <4>1, ItemAssumption
          <5>2. QED
            BY <4>2, <5>1 DEF KeyBefore
        <4>5. f[i] < f[j] => ~(f[j] < f[i])
          BY <1>1, <2>4
        <4>6. QED
          BY <1>1, <2>6, <4>3, <4>4, <4>5
      <3>3. QED
        BY <3>1, <3>2
    <2>9. {j \in Pool(c) : Promise!Precedes(mylist, j, i)} = {j \in Pool(c) : f[j] < f[i]}
      BY <2>8
    <2>10. QED
      BY <1>1, <1>5, <1>7, <2>5, <2>7, <2>9
  <1>8. QED
    BY <1>6, <1>7


\* sorttokens puts a list in the order that is promised.
LEMMA SortedAsPromised ==
    ASSUME NEW s, NEW list \in Seq(Item), DOMAIN s = DOMAIN list,
           Elements(s) \subseteq Elements(list),
           \A i \in Elements(list) :
              Cardinality(Positions(s, i)) = Cardinality(Positions(list, i)),
           InOrderOfKeys(s, list)
    PROVE  Promise!IsSorted(list, s)
  <1>1. \A i \in Promise!Listed(list) :
           Promise!Cardinality({p \in DOMAIN s : s[p] = i}) =
              Promise!Cardinality({p \in DOMAIN list : list[p] = i})
    <2>1. \A i \in Elements(list) :
             Promise!Cardinality(Positions(s, i)) = Promise!Cardinality(Positions(list, i))
      BY SameCardinality
    <2>2. QED
      BY <2>1, Zenon DEF Promise!Listed, Elements, Positions
  <1>2. ASSUME NEW p \in DOMAIN s, NEW q \in DOMAIN s, p < q
        PROVE  ~Promise!Precedes(list, s[q], s[p])
    <2> DEFINE a == s[p]
               b == s[q]
    <2>1. a \in Elements(list) /\ b \in Elements(list)
      BY DEF Elements
    <2>2. a \in Item /\ b \in Item
      BY <2>1 DEF Elements
    <2>3. \/ SortKey[a] = SortKey[b] /\ Last(Positions(list, a)) <= Last(Positions(list, b))
          \/ SortKey[a] # Undefined /\ SortKey[b] = Undefined
          \/ /\ Undefined \notin {SortKey[a], SortKey[b]}
             /\ IF Descending THEN SortKey[a] > SortKey[b] ELSE SortKey[a] < SortKey[b]
      BY <1>2, Zenon DEF InOrderOfKeys
    <2>4. SortKey[a] \in Nat \cup {Undefined} /\ SortKey[b] \in Nat \cup {Undefined}
      BY <2>2, ItemAssumption
    <2> HIDE DEF a, b
    <2>5. CASE SortKey[a] = SortKey[b]
      <3>1. Last(Positions(list, a)) <= Last(Positions(list, b))
        BY <2>3, <2>4, <2>5
      <3>2. /\ Promise!Place(list, a) = Last(Positions(list, a))
            /\ Promise!Place(list, b) = Last(Positions(list, b))
        BY <2>1, PlaceIsLast
      <3>3. /\ Last(Positions(list, a)) \in DOMAIN list
            /\ Last(Positions(list, b)) \in DOMAIN list
        <4>1. \A i \in Elements(list) :
                 Positions(list, i) # {} /\ Positions(list, i) \in SUBSET (DOMAIN list)
          BY DEF Positions, Elements
        <4>2. \A i \in Elements(list) : Last(Positions(list, i)) \in Positions(list, i)
          BY <4>1, LastPlace
        <4>3. QED
          BY <2>1, <4>1, <4>2
      <3>4. DOMAIN list \subseteq Nat
        OBVIOUS
      <3>5. ~(Promise!Place(list, b) < Promise!Place(list, a))
        BY <3>1, <3>2, <3>3, <3>4
      <3>6. ~Promise!Precedes(list, b, a)
        BY <2>5, <3>5 DEF Promise!Precedes
      <3>7. QED
        BY <3>6 DEF a, b
    <2>6. CASE SortKey[a] # SortKey[b]
      <3>1. ~KeyBefore(b, a)
        BY <2>3, <2>4, <2>6 DEF KeyBefore
      <3>2. ~Promise!Precedes(list, b, a)
        BY <2>2, <2>6, <3>1, PrecedesByKey
      <3>3. QED
        BY <3>2 DEF a, b
    <2>7. QED
      BY <2>5, <2>6
  <1>3. QED
    BY <1>1, <1>2, Zenon DEF Promise!IsSorted

\* renumber returns the list that was asked for, as it is promised.
LEMMA RenumberPromises ==
    ASSUME LookAlikesApart, IInv, RegisteredInv, ListInv, SuffixInv, OrderInv,
           RankInv, AskedInv, renumber
    PROVE  Promise!Next
  <1>1. call.at = "renumber"
    BY DEF renumber, At
  <1>2. mylist \in Lists /\ mylist \in Seq(Item) /\ call.nosort \in NoSortFlags \cup {FALSE}
    BY <1>1 DEF AskedInv, Ready, IInv, StateInv
  <1>3. DOMAIN registry = Elements(mylist) /\ Elements(reflist) = Elements(mylist)
    BY <1>1 DEF RegisteredInv, Inserted, Methods, ListInv, Rebuilt
  <1>4. \A c \in Cites : Counted(c)
    BY <1>1 DEF SuffixInv
  <1>5. \A i \in Elements(mylist) : registry[i].suffix = Promise!Suffix(mylist, i)
    BY <1>3, <1>4, SuffixAsPromised DEF IInv
  <1>6. \A p \in DOMAIN reflist : reflist[p] \in Elements(mylist)
    BY <1>3 DEF Elements
  <1>7. shown' = Promise!Entries(reflist, mylist)
    <2>1. shown' = [p \in DOMAIN reflist |->
                       [id |-> reflist[p], suffix |-> registry[reflist[p]].suffix]]
      BY DEF renumber
    <2>2. \A p \in DOMAIN reflist :
             registry[reflist[p]].suffix = Promise!Suffix(mylist, reflist[p])
      BY <1>5, <1>6
    <2>3. QED
      BY <2>1, <2>2 DEF Promise!Entries
  <1>8. CASE call.nosort
    <2>1. reflist = mylist
      BY <1>1, <1>8 DEF OrderInv
    <2>2. Promise!updateItems(mylist, call.nosort)
      BY <1>7, <1>8, <2>1 DEF Promise!updateItems
    <2>3. QED
      BY <1>2, <2>2 DEF Promise!Next
  <1>9. CASE ~call.nosort
    <2>1. InOrderOfKeys(reflist, mylist)
      BY <1>1, <1>9 DEF OrderInv
    <2>2. /\ DOMAIN reflist = DOMAIN mylist
          /\ \A i \in Elements(mylist) :
                Cardinality(Positions(reflist, i)) = Cardinality(Positions(mylist, i))
      BY <1>1 DEF AskedInv
    <2>3. Promise!IsSorted(mylist, reflist)
      BY <1>2, <1>3, <2>1, <2>2, SortedAsPromised
    <2>4. reflist \in [DOMAIN mylist -> Promise!Listed(mylist)]
      <3>1. Promise!Listed(mylist) = Elements(mylist)
        BY DEF Promise!Listed, Elements
      <3>2. reflist \in Seq(Item)
        BY DEF IInv, StateInv
      <3>3. reflist = [p \in DOMAIN reflist |-> reflist[p]]
        BY <3>2
      <3>4. QED
        BY <1>6, <2>2, <3>1, <3>3
    <2>5. Promise!updateItems(mylist, call.nosort)
      BY <1>7, <1>9, <2>3, <2>4 DEF Promise!updateItems
    <2>6. QED
      BY <1>2, <2>5 DEF Promise!Next
  <1>10. QED
    BY <1>8, <1>9

\* updateItems and processCitationCluster: where nothing throws and the style's
\* sort tells look-alikes apart, every list returned is the one Bibliography
\* promises for the items asked for, sorted and with its suffixes, and nothing
\* of the calls made before it, their order or the places where they were
\* interrupted shows in it.
THEOREM ReturnsAsPromised ==
    ASSUME Undisturbed, LookAlikesApart
    PROVE  Spec => ReturnsWhatIsPromised
  <1>1. Init => Promise!Init
    BY DEF Init, Promise!Init
  <1>2. IInv /\ RegisteredInv /\ ListInv /\ CalmInv /\ SuffixInv /\ OrderInv /\ RankInv
              /\ AskedInv /\ [Next]_vars => [Promise!Next]_shown
    <2>1. SUFFICES ASSUME IInv, RegisteredInv, ListInv, CalmInv, SuffixInv, OrderInv,
                          RankInv, AskedInv, [Next]_vars
                   PROVE  [Promise!Next]_shown
      OBVIOUS
    <2>2. ~Reset
      BY <2>1 DEF Reset, At, CalmInv
    <2>3. CASE renumber
      BY <2>1, <2>3, RenumberPromises
    <2>4. CASE \/ \E list \in Lists, nosort \in NoSortFlags : UpdateItems(list, nosort)
               \/ \E list \in Lists : ClusterUpdate(list)
               \/ \E list \in UncitedLists, nosort \in NoSortFlags :
                     UpdateUncitedItems(list, nosort)
               \/ RestoreEmptyState
      <3>1. UNCHANGED shown
        BY <2>4 DEF UpdateItems, ClusterUpdate, UpdateUncitedItems, RestoreEmptyState, init
      <3>2. QED
        BY <3>1
    <2>5. CASE \/ dodeletes \/ doinserts \/ douncited \/ dorefreshes \/ rebuildlist
               \/ setsortkeys \/ DisambiguatePool \/ DisambiguationDone \/ sorttokens
               \/ UNCHANGED vars
      <3>1. UNCHANGED shown
        BY <2>5 DEF dodeletes, doinserts, douncited, dorefreshes, rebuildlist, setsortkeys,
                    DisambiguatePool, DisambiguationDone, sorttokens, vars
      <3>2. QED
        BY <3>1
    <2>6. QED
      BY <2>1, <2>2, <2>3, <2>4, <2>5 DEF Next
  <1>3. IInv /\ RegisteredInv /\ ClassInv /\ CalmInv /\ KeyInv /\ RankInv
              /\ [Next]_vars => RankInv'
    BY RankNext
  <1>4. IInv /\ RegisteredInv /\ CalmInv /\ OrderInv /\ AskedInv /\ CalmInv'
              /\ [Next]_vars => AskedInv'
    BY AskedNext
  <1>5. QED
    BY <1>1, <1>2, <1>3, <1>4, AskedInit, ReturnsHold, UndisturbedHolds,
       PTL DEF Spec, ReturnsWhatIsPromised, Promise!Spec

-----------------------------------------------------------------------------
(* Changed suffixes are reported as long as look-alikes come in pairs.     *)

Pairs(S) ==
    \A i, j, k \in S : Cite[i] = Cite[j] /\ Cite[j] = Cite[k] => i = j \/ j = k \/ i = k

\* No list has three look-alikes.
PairsOnly == \A list \in Lists : Pairs(Elements(list))

\* At most one item is refreshed, and it is the only one left of its class.  No
\* item of a class that is to be disambiguated has a suffix then.
PairInv ==
    /\ call.at \in {"doinserts", "dorefreshes"} => \A j, k \in refreshes : j = k
    /\ call.at = "doinserts" =>
          /\ akeys = {}
          /\ \A j \in refreshes, i \in DOMAIN registry : Cite[i] = Cite[j] => i = j
    /\ call.at = "dorefreshes" => \A i \in DOMAIN registry :
          Cite[i] \in akeys \/ (\E j \in refreshes : Cite[j] = Cite[i]) =>
              registry[i].suffix = NoSuffix \/ i \in refreshes
    /\ call.at \in {"rebuildlist", "setsortkeys"} => \A i \in DOMAIN registry :
          Cite[i] \in akeys => registry[i].suffix = NoSuffix
    /\ call.at = "setdisambigs" => \A i \in DOMAIN registry :
          Cite[i] \in call.todo => registry[i].suffix = NoSuffix

\* In a call of processCitationCluster an item that stays has the suffix it was
\* shown with, or is noted.
ReportInv ==
    InCluster => \A p \in DOMAIN shown :
        shown[p].id \in DOMAIN registry \cap Elements(mylist) =>
            SuffixShown(p) \/ shown[p].id \in taintedItemIDs

LEMMA ListsOfPairs ==
    ASSUME PairsOnly, ClassInv
    PROVE  /\ Pairs(Elements(mylist))
           /\ Pairs(DOMAIN registry)
  <1>1. Pairs(Elements(<<>>))
    BY DEF Pairs, Elements
  <1>2. \A list \in AllLists : Pairs(Elements(list))
    BY <1>1 DEF PairsOnly, AllLists
  <1>3. Pairs(Elements(mylist))
    BY <1>2 DEF ClassInv
  <1>4. Pairs(DOMAIN registry)
    <2>1. PICK list \in AllLists : DOMAIN registry \subseteq Elements(list)
      BY DEF ClassInv, OnOneList
    <2>2. Pairs(Elements(list))
      BY <1>2
    <2>3. QED
      BY <2>1, <2>2 DEF Pairs
  <1>5. QED
    BY <1>3, <1>4

LEMMA PairDeletes ==
    ASSUME OnePoolAtATime, PairsOnly, IInv, RegisteredInv, ClassInv, SuffixInv, dodeletes
    PROVE  PairInv'
  <1>1. /\ DOMAIN registry' = DOMAIN registry \ Deleted
        /\ refreshes' = UNION {Left(registry[i].ambig) : i \in Deleted}
        /\ akeys' = akeys
        /\ call.at = "dodeletes" /\ call'.at = "doinserts"
    BY DEF dodeletes, At, Continue, IInv, CallInv
  <1>2. akeys' = {}
    BY <1>1 DEF SuffixInv
  <1>3. Pairs(DOMAIN registry)
    BY ListsOfPairs
  <1>4. ASSUME NEW j \in refreshes'
        PROVE  /\ j \in DOMAIN registry'
               /\ \A i \in DOMAIN registry' : Cite[i] = Cite[j] => i = j
    <2>1. PICK d \in Deleted : j \in Left(registry[d].ambig)
      BY <1>1
    <2>2. d \in DOMAIN registry /\ registry[d].ambig = Cite[d] /\ Cite[d] \in Cites
      BY DEF Deleted, ClassInv, Cites, IInv, StateInv
    <2>3. j \in DOMAIN registry /\ Cite[j] = Cite[d] /\ j \notin Deleted
      BY <2>1, <2>2 DEF Left, ClassInv
    <2>4. \A i \in DOMAIN registry \ Deleted : Cite[i] = Cite[j] => i = j
      BY <1>3, <2>2, <2>3 DEF Pairs
    <2>5. QED
      BY <1>1, <2>3, <2>4
  <1>5. \A j, k \in refreshes' : Cite[j] = Cite[k]
    BY ClassDeletes DEF ClassInv
  <1>6. \A j, k \in refreshes' : j = k
    BY <1>4, <1>5
  <1>7. QED
    BY <1>1, <1>2, <1>4, <1>6 DEF PairInv

LEMMA PairInserts ==
    ASSUME PairsOnly, IInv, ClassInv, SuffixInv, PairInv, doinserts
    PROVE  PairInv'
  <1>1. /\ DOMAIN registry' = DOMAIN registry \cup Inserting
        /\ Inserting \cap DOMAIN registry = {}
        /\ Inserting \subseteq Elements(mylist)
        /\ \A i \in DOMAIN registry : registry'[i] = registry[i]
        /\ \A i \in Inserting : registry'[i] = NewToken(i)
        /\ akeys' = akeys \cup {Cite[i] : i \in Inserting}
    BY InsertedFields DEF IInv
  <1>2. /\ call.at = "doinserts" /\ call'.at \in {"dorefreshes", "douncited", "threw"}
        /\ refreshes' = refreshes
    BY DEF doinserts, At, Continue, IInv, CallInv
  <1>3. /\ akeys = {} /\ \A j, k \in refreshes : j = k
        /\ \A j \in refreshes, i \in DOMAIN registry : Cite[i] = Cite[j] => i = j
    BY <1>2 DEF PairInv
  <1>4. Pairs(Elements(mylist)) /\ DOMAIN registry \subseteq Elements(mylist)
    BY <1>2, ListsOfPairs DEF ClassInv
  <1>5. ASSUME NEW i \in DOMAIN registry', i \notin refreshes,
               Cite[i] \in akeys' \/ \E j \in refreshes : Cite[j] = Cite[i]
        PROVE  registry'[i].suffix = NoSuffix
    <2>1. CASE i \in Inserting
      BY <1>1, <2>1 DEF NewToken
    <2>2. CASE i \in DOMAIN registry
      <3>1. PICK k \in Inserting : Cite[k] = Cite[i]
        BY <1>1, <1>3, <1>5, <2>2
      <3>2. \A m \in Pool(Cite[i]) : m = i
        <4>1. \A m \in Pool(Cite[i]) : m \in DOMAIN registry /\ Cite[m] = Cite[i]
          BY DEF Pool
        <4>2. k \in Elements(mylist) /\ k \notin DOMAIN registry
          BY <1>1
        <4>3. \A m \in DOMAIN registry : Cite[m] = Cite[i] => m = i
          BY <1>4, <2>2, <3>1, <4>2 DEF Pairs
        <4>4. QED
          BY <4>1, <4>3
      <3>3. Pool(Cite[i]) = {i}
        BY <2>2, <3>2 DEF Pool
      <3>4. Cite[i] \in Cites
        BY <2>2 DEF Cites, IInv, StateInv
      <3>5. Counted(Cite[i])
        BY <1>2, <1>5, <3>3, <3>4 DEF SuffixInv
      <3>6. Cardinality({i}) = 1
        BY FS_Singleton
      <3>7. {registry[m].suffix : m \in {i}} = {NoSuffix}
        BY <3>3, <3>5, <3>6 DEF Counted, Numbering
      <3>8. QED
        BY <1>1, <2>2, <3>7
    <2>3. QED
      BY <1>1, <2>1, <2>2
  <1>6. QED
    BY <1>2, <1>3, <1>5 DEF PairInv

LEMMA PairRefreshes ==
    ASSUME IInv, PairInv, dorefreshes
    PROVE  PairInv'
  <1>1. call.at = "dorefreshes" /\ call'.at = "rebuildlist"
    BY DEF dorefreshes, At, Continue, IInv, CallInv
  <1>2. \A i \in DOMAIN registry :
           Cite[i] \in akeys \/ (\E j \in refreshes : Cite[j] = Cite[i]) =>
               registry[i].suffix = NoSuffix \/ i \in Refreshed
    BY <1>1 DEF PairInv, Refreshed
  <1>3. CASE Refreshed = {} /\ UNCHANGED <<registry, pools>>
    BY <1>1, <1>2, <1>3 DEF PairInv, pools
  <1>4. ASSUME NEW first \in Refreshed,
               DOMAIN registry' = DOMAIN registry,
               \A i \in DOMAIN registry :
                  /\ i \notin Refreshed => registry'[i] = registry[i]
                  /\ i \in Refreshed => registry'[i].suffix = NoSuffix,
               akeys' = akeys \cup {Cite[first]}
        PROVE  PairInv'
    <2>1. first \in refreshes
      BY DEF Refreshed
    <2>2. \A i \in DOMAIN registry' : Cite[i] \in akeys' => registry'[i].suffix = NoSuffix
      BY <1>2, <1>4, <2>1
    <2>3. QED
      BY <1>1, <2>2 DEF PairInv
  <1>5. QED
    BY <1>3, <1>4, RefreshedFields DEF IInv

\* disYears leaves the suffixes of the other classes.
LEMMA PairDisambiguates ==
    ASSUME IInv, ClassInv, CalmInv, PairInv, DisambiguatePool, CalmInv'
    PROVE  PairInv'
  <1>1. PICK akey \in call.todo :
          \/ /\ call' = [call EXCEPT !.todo = @ \ {akey}]
             /\ UNCHANGED registry
          \/ Throw
          \/ /\ Cardinality(disambiguated[akey]) > 1
             /\ \E ids \in InOrder(disambiguated[akey]),
                   tokens \in Sorted(Arrangements(disambiguated[akey] \cap DOMAIN registry)) :
                      disYears(akey, ids, tokens)
    BY DEF DisambiguatePool
  <1>2. akey \in Cites /\ call.at = "setdisambigs"
    BY DEF DisambiguatePool, At, IInv, CallInv
  <1>3. ~Throw
    BY DEF Throw, CalmInv, IInv, CallInv
  <1>4. /\ call' = [call EXCEPT !.todo = @ \ {akey}]
        /\ DOMAIN registry' = DOMAIN registry
        /\ \A i \in DOMAIN registry : i \notin Pool(akey) => registry'[i] = registry[i]
    BY <1>1, <1>2, <1>3, CountedByDisYears
  <1>5. call'.at = "setdisambigs" /\ call'.todo = call.todo \ {akey}
    BY <1>2, <1>4 DEF IInv, CallInv
  <1>6. \A i \in DOMAIN registry : Cite[i] \in call'.todo => i \notin Pool(akey)
    BY <1>5 DEF Pool
  <1>7. \A i \in DOMAIN registry' : Cite[i] \in call'.todo => registry'[i].suffix = NoSuffix
    BY <1>2, <1>4, <1>5, <1>6 DEF PairInv
  <1>8. QED
    BY <1>5, <1>7 DEF PairInv

LEMMA PairNext ==
    ASSUME Undisturbed, PairsOnly
    PROVE  IInv /\ RegisteredInv /\ ClassInv /\ CalmInv /\ SuffixInv /\ PairInv
              /\ CalmInv' /\ [Next]_vars => PairInv'
  <1> SUFFICES ASSUME IInv, RegisteredInv, ClassInv, CalmInv, SuffixInv, PairInv,
                      CalmInv', [Next]_vars
               PROVE  PairInv'
    OBVIOUS
  <1>1. ~RestoreEmptyState /\ ~Reset /\ ~douncited
    BY DEF RestoreEmptyState, Undisturbed, Reset, douncited, At, CalmInv, RegisteredInv
  <1>2. CASE \/ \E list \in Lists, nosort \in NoSortFlags : UpdateItems(list, nosort)
             \/ \E list \in Lists : ClusterUpdate(list)
    <2>1. \A fn, nosort : Begin(fn, nosort, "dodeletes") => call'.at = "dodeletes"
      BY DEF Begin
    <2>2. call'.at = "dodeletes"
      BY <1>2, <2>1, Zenon DEF UpdateItems, ClusterUpdate
    <2>3. QED
      BY <2>2 DEF PairInv
  <1>3. CASE dodeletes
    BY <1>3, PairDeletes DEF Undisturbed
  <1>4. CASE doinserts
    BY <1>4, PairInserts
  <1>5. CASE dorefreshes
    BY <1>5, PairRefreshes
  <1>6. CASE rebuildlist
    <2>1. /\ call.at = "rebuildlist" /\ call'.at = "setsortkeys"
          /\ akeys' = akeys
      BY <1>6 DEF rebuildlist, At, Continue, pools, IInv, CallInv
    <2>2. KeepsClasses
      BY <1>6, RebuildFields DEF IInv
    <2>3. QED
      BY <2>1, <2>2 DEF PairInv, KeepsClasses
  <1>7. CASE setsortkeys
    <2>1. call.at = "setsortkeys" /\ call'.at = "setdisambigs" /\ call'.todo = akeys
      BY <1>7 DEF setsortkeys, At, IInv, CallInv
    <2>2. KeepsClasses
      BY <1>7, SortKeysFields DEF IInv
    <2>3. QED
      BY <2>1, <2>2 DEF PairInv, KeepsClasses
  <1>8. CASE DisambiguatePool
    BY <1>8, PairDisambiguates
  <1>9. CASE DisambiguationDone \/ sorttokens \/ renumber
    <2>1. call'.at \in {"sorttokens", "renumber", "reset", "returned"}
      BY <1>9 DEF DisambiguationDone, sorttokens, renumber, Continue, IInv, CallInv
    <2>2. QED
      BY <2>1 DEF PairInv
  <1>10. CASE UNCHANGED vars
    BY <1>10 DEF PairInv, vars, pools
  <1>11. QED
    BY <1>1, <1>2, <1>3, <1>4, <1>5, <1>6, <1>7, <1>8, <1>9, <1>10 DEF Next, Undisturbed

\* disYears on a pair that has no suffixes yet: both are noted.
LEMMA PairIsTainted ==
    ASSUME PairsOnly, IInv, ClassInv, CalmInv, PairInv, tracking,
           call.at = "setdisambigs", NEW akey \in call.todo,
           Cardinality(disambiguated[akey]) > 1,
           NEW ids \in InOrder(disambiguated[akey]),
           NEW tokens \in Sorted(Arrangements(disambiguated[akey] \cap DOMAIN registry)),
           disYears(akey, ids, tokens)
    PROVE  Pool(akey) \subseteq taintedItemIDs'
  <1> DEFINE P == Pool(akey)
  <1>1. akey \in Cites /\ disambiguated[akey] = P /\ P \subseteq DOMAIN registry
    BY DEF disambiguated, CalmInv, ClassInv, Pool, IInv, CallInv
  <1>2. IsFiniteSet(P) /\ Cardinality(P) \in Nat /\ P \subseteq Nat
    BY <1>1, PoolsAreFinite, ItemAssumption DEF IInv, StateInv
  <1>3. \A i, j, k \in P : i = j \/ j = k \/ i = k
    BY ListsOfPairs DEF Pairs, Pool
  <1>4. \A i \in P : registry[i].suffix = NoSuffix
    BY DEF PairInv, Pool
  <1> HIDE DEF P
  <1>5. Cardinality(P) = 2
    <2>1. P # {} /\ \A i : P # {i}
      BY <1>1, <1>2, FS_EmptySet, FS_Singleton
    <2>2. PICK i \in P, j \in P : i # j
      BY <2>1
    <2>3. P = {i} \cup {j}
      BY <1>3, <2>2
    <2>4. Cardinality({i}) = 1 /\ IsFiniteSet({i}) /\ j \notin {i}
      BY <2>2, FS_Singleton
    <2>5. Cardinality({i} \cup {j}) = 1 + 1
      BY <2>4, FS_AddElement
    <2>6. QED
      BY <2>3, <2>5
  <1>6. /\ ids \in [1 .. 2 -> P]
        /\ ids[1] \in P /\ ids[2] \in P /\ ids[1] < ids[2]
    BY <1>1, <1>5 DEF InOrder
  <1>7. Len(ids) = 2 /\ DOMAIN ids = 1 .. 2
    BY <1>6
  <1>8. taintedItemIDs' = taintedItemIDs \cup Resuffixed(ids)
    BY <1>7 DEF disYears, TestsTaints, Tainted
  <1>9. \A k \in 1 .. 2 : ids[k] \in Resuffixed(ids)
    <2>1. SUFFICES ASSUME NEW k \in 1 .. 2 PROVE ids[k] \in Resuffixed(ids)
      OBVIOUS
    <2>2. \A m \in 1 .. k : ids[m] \in DOMAIN registry
      BY <1>1, <1>6
    <2>3. registry[ids[k]].suffix # k - 1
      BY <1>4, <1>6 DEF NoSuffix
    <2>4. QED
      BY <1>7, <2>2, <2>3 DEF Resuffixed
  <1>10. \A i \in P : i = ids[1] \/ i = ids[2]
    <2>1. ids[1] \in Nat /\ ids[2] \in Nat
      BY <1>2, <1>6
    <2>2. ids[1] # ids[2]
      BY <1>6, <2>1
    <2>3. QED
      BY <1>3, <1>6, <2>2
  <1>11. QED
    BY <1>8, <1>9, <1>10 DEF P

\* A step that keeps what was noted, and the suffixes of the items that were
\* registered.
LEMMA ReportKept ==
    ASSUME ReportInv, InCluster,
           \A i \in DOMAIN registry : i \in DOMAIN registry' =>
               registry'[i].suffix = registry[i].suffix,
           \A p \in DOMAIN shown : shown[p].id \in DOMAIN registry' \cap Elements(mylist) =>
               shown[p].id \in DOMAIN registry,
           UNCHANGED <<shown, mylist, taintedItemIDs>>
    PROVE  ReportInv'
  BY DEF ReportInv, SuffixShown

\* A step that may change suffixes, of items it notes.
LEMMA ReportNoted ==
    ASSUME ReportInv, InCluster, DOMAIN registry' = DOMAIN registry,
           taintedItemIDs \subseteq taintedItemIDs',
           \A i \in DOMAIN registry :
               registry'[i].suffix = registry[i].suffix \/ i \in taintedItemIDs',
           UNCHANGED <<shown, mylist>>
    PROVE  ReportInv'
  BY DEF ReportInv, SuffixShown

LEMMA ReportRefreshes ==
    ASSUME IInv, NumberInv, PairInv, ReportInv, InCluster, dorefreshes
    PROVE  ReportInv'
  <1>1. call.at = "dorefreshes" /\ tracking /\ UNCHANGED <<shown, mylist>>
    BY DEF dorefreshes, At, NumberInv
  <1>2. CASE Refreshed = {}
    <2>1. UNCHANGED <<registry, taintedItemIDs>>
      BY <1>2 DEF dorefreshes
    <2>2. QED
      BY <1>1, <2>1, ReportKept
  <1>3. CASE Refreshed # {}
    <2>1. PICK first \in Refreshed : taintedItemIDs' = Tainted({first})
      BY <1>3 DEF dorefreshes
    <2>2. Refreshed \subseteq {first}
      BY <1>1 DEF PairInv, Refreshed
    <2>3. /\ DOMAIN registry' = DOMAIN registry
          /\ \A i \in DOMAIN registry : i \notin Refreshed => registry'[i] = registry[i]
      BY <1>3, RefreshedFields DEF IInv
    <2>4. taintedItemIDs' = taintedItemIDs \cup {first}
      BY <1>1, <2>1 DEF Tainted
    <2>5. \A i \in DOMAIN registry :
             registry'[i].suffix = registry[i].suffix \/ i \in taintedItemIDs'
      BY <2>2, <2>3, <2>4
    <2>6. QED
      BY <1>1, <2>3, <2>4, <2>5, ReportNoted
  <1>4. QED
    BY <1>2, <1>3

LEMMA ReportDisambiguates ==
    ASSUME PairsOnly, IInv, ClassInv, CalmInv, NumberInv, PairInv, ReportInv, InCluster,
           DisambiguatePool, CalmInv'
    PROVE  ReportInv'
  <1>1. PICK akey \in call.todo :
          \/ UNCHANGED <<registry, taintedItemIDs>>
          \/ /\ Cardinality(disambiguated[akey]) > 1
             /\ \E ids \in InOrder(disambiguated[akey]),
                   tokens \in Sorted(Arrangements(disambiguated[akey] \cap DOMAIN registry)) :
                      disYears(akey, ids, tokens)
    BY DEF DisambiguatePool
  <1>2. /\ akey \in Cites /\ call.at = "setdisambigs" /\ tracking
        /\ UNCHANGED <<shown, mylist>>
    BY DEF DisambiguatePool, At, IInv, CallInv, NumberInv
  <1>3. CASE UNCHANGED <<registry, taintedItemIDs>>
    BY <1>2, <1>3, ReportKept
  <1>4. ASSUME Cardinality(disambiguated[akey]) > 1,
               NEW ids \in InOrder(disambiguated[akey]),
               NEW tokens \in Sorted(Arrangements(disambiguated[akey] \cap DOMAIN registry)),
               disYears(akey, ids, tokens)
        PROVE  ReportInv'
    <2>1. /\ DOMAIN registry' = DOMAIN registry
          /\ \A i \in DOMAIN registry : i \notin Pool(akey) => registry'[i] = registry[i]
      BY <1>2, <1>4, CountedByDisYears
    <2>2. Pool(akey) \subseteq taintedItemIDs'
      BY <1>2, <1>4, PairIsTainted
    <2>3. taintedItemIDs \subseteq taintedItemIDs'
      BY <1>4 DEF disYears, Tainted
    <2>4. \A i \in DOMAIN registry :
             registry'[i].suffix = registry[i].suffix \/ i \in taintedItemIDs'
      BY <2>1, <2>2
    <2>5. QED
      BY <1>2, <2>1, <2>3, <2>4, ReportNoted
  <1>5. QED
    BY <1>1, <1>3, <1>4

LEMMA ReportNext ==
    ASSUME Undisturbed, PairsOnly
    PROVE  IInv /\ RegisteredInv /\ ClassInv /\ CalmInv /\ NumberInv /\ QuietInv /\ PairInv
              /\ ReportInv /\ CalmInv' /\ [Next]_vars => ReportInv'
  <1> SUFFICES ASSUME IInv, RegisteredInv, ClassInv, CalmInv, NumberInv, QuietInv, PairInv,
                      ReportInv, CalmInv', [Next]_vars
               PROVE  ReportInv'
    OBVIOUS
  <1>1. ~RestoreEmptyState /\ ~Reset /\ ~douncited
    BY DEF RestoreEmptyState, Undisturbed, Reset, douncited, At, CalmInv, RegisteredInv
  <1>2. CASE \E list \in Lists, nosort \in NoSortFlags : UpdateItems(list, nosort)
    <2>1. call'.fn = "updateItems"
      BY <1>2 DEF UpdateItems, Begin
    <2>2. QED
      BY <2>1 DEF ReportInv, InCluster
  <1>3. CASE \E list \in Lists : ClusterUpdate(list)
    <2>1. call.at = "returned" /\ UNCHANGED <<registry, shown>>
      BY <1>3 DEF ClusterUpdate, Begin, Ready, CalmInv, init
    <2>2. \A p \in DOMAIN shown : SuffixShown(p)
      BY <2>1 DEF QuietInv
    <2>3. QED
      BY <2>1, <2>2 DEF ReportInv, SuffixShown
  <1>4. ASSUME InCluster', ~Ready, call'.fn = call.fn, dodeletes \/ doinserts \/ dorefreshes
                  \/ rebuildlist \/ setsortkeys \/ DisambiguatePool \/ DisambiguationDone
                  \/ sorttokens
        PROVE  ReportInv'
    <2>1. InCluster
      BY <1>4 DEF InCluster
    <2>2. CASE dodeletes
      <3>1. UNCHANGED <<shown, mylist, taintedItemIDs>>
        BY <2>2 DEF dodeletes
      <3>2. /\ DOMAIN registry' \subseteq DOMAIN registry
            /\ \A i \in DOMAIN registry' : registry'[i] = registry[i]
        BY <2>2, DeletedFields
      <3>3. QED
        BY <2>1, <3>1, <3>2, ReportKept
    <2>3. CASE doinserts
      <3>1. call.at = "doinserts" /\ UNCHANGED <<shown, mylist, taintedItemIDs>>
        BY <2>3 DEF doinserts, At
      <3>2. \A p \in DOMAIN shown : shown[p].id \in Elements(mylist) =>
               shown[p].id \in DOMAIN registry
        BY <3>1 DEF NumberInv, Before, Ids
      <3>3. \A i \in DOMAIN registry : registry'[i] = registry[i]
        BY <2>3, InsertedFields DEF IInv
      <3>4. QED
        BY <2>1, <3>1, <3>2, <3>3, ReportKept
    <2>4. CASE dorefreshes
      BY <2>1, <2>4, ReportRefreshes
    <2>5. CASE rebuildlist \/ setsortkeys \/ DisambiguationDone \/ sorttokens
      <3>1. KeepsClasses
        BY <2>5, RebuildFields, SortKeysFields
           DEF IInv, DisambiguationDone, sorttokens, KeepsClasses
      <3>2. UNCHANGED <<shown, mylist, taintedItemIDs>>
        BY <2>5 DEF rebuildlist, setsortkeys, DisambiguationDone, sorttokens, changes
      <3>3. QED
        BY <2>1, <3>1, <3>2, ReportKept DEF KeepsClasses
    <2>6. CASE DisambiguatePool
      BY <2>1, <2>6, ReportDisambiguates
    <2>7. QED
      BY <1>4, <2>2, <2>3, <2>4, <2>5, <2>6
  <1>5. CASE renumber
    <2>1. call'.at = "returned"
      BY <1>5 DEF renumber, Continue, CalmInv, IInv, CallInv
    <2>2. QED
      BY <2>1 DEF ReportInv, InCluster, Ready
  <1>6. CASE UNCHANGED vars
    BY <1>6 DEF ReportInv, InCluster, Ready, SuffixShown, vars, changes
  <1>7. ASSUME dodeletes \/ doinserts \/ dorefreshes \/ rebuildlist \/ setsortkeys
                  \/ DisambiguatePool \/ DisambiguationDone \/ sorttokens
        PROVE  call'.fn = call.fn /\ ~Ready
    BY <1>7 DEF dodeletes, doinserts, dorefreshes, rebuildlist, setsortkeys, DisambiguatePool,
                disYears, DisambiguationDone, sorttokens, At, Continue, Throw, Ready, IInv, CallInv
  <1>8. ~InCluster' => ReportInv'
    BY DEF ReportInv
  <1>9. QED
    BY <1>1, <1>2, <1>3, <1>4, <1>5, <1>6, <1>7, <1>8 DEF Next, Undisturbed

LEMMA PairInit == Init => PairInv /\ ReportInv
  <1> SUFFICES ASSUME Init PROVE PairInv /\ ReportInv
    OBVIOUS
  <1>1. call.at = "returned"
    BY DEF Init
  <1>2. QED
    BY <1>1 DEF PairInv, ReportInv, InCluster, Ready

\* cloneAmbigConfig and dorefreshes: where nothing throws and no list has three
\* look-alikes, processCitationCluster renders again every item that stays in
\* the bibliography and whose year suffix is not what it was, whichever of a
\* pair comes, goes or is exchanged for another.
THEOREM SuffixChangesAreReported ==
    ASSUME Undisturbed, PairsOnly
    PROVE  Spec => SuffixChangesReported
  <1>1. IInv /\ ListInv /\ ReportInv /\ [Next]_vars =>
           (ReturnedTo("processCitationCluster") =>
              \A i \in Ids(shown) \cap Ids(shown') :
                 Suffix(shown, i) # Suffix(shown', i) => i \in taintedItemIDs')
    <2>1. SUFFICES ASSUME IInv, ListInv, ReportInv, [Next]_vars,
                          ReturnedTo("processCitationCluster"),
                          NEW i \in Ids(shown) \cap Ids(shown'),
                          Suffix(shown, i) # Suffix(shown', i)
                   PROVE  i \in taintedItemIDs'
      OBVIOUS
    <2>2. renumber /\ call.at = "renumber" /\ InCluster
      BY <2>1, RenumberReturns DEF ReturnedTo, At, InCluster, Ready
    <2>3. Elements(reflist) = Elements(mylist) /\ Elements(reflist) \subseteq DOMAIN registry
      BY <2>1, <2>2 DEF ListInv, Rebuilt, IInv, CallInv, Methods
    <2>4. /\ DOMAIN shown' = DOMAIN reflist
          /\ \A p \in DOMAIN reflist : /\ shown'[p].id = reflist[p]
                                       /\ shown'[p].suffix = registry[reflist[p]].suffix
          /\ Ids(shown') = Elements(reflist)
      BY <2>1, <2>2, <2>3, RenumberShows DEF IInv
    <2>5. PICK p \in DOMAIN shown : shown[p].id = i /\ Suffix(shown, i) = shown[p].suffix
      BY <2>1, Zenon DEF Ids, Suffix
    <2>6. Suffix(shown', i) = registry[i].suffix
      <3>1. PICK q \in DOMAIN shown' :
               shown'[q].id = i /\ Suffix(shown', i) = shown'[q].suffix
        BY <2>1, Zenon DEF Ids, Suffix
      <3>2. QED
        BY <2>4, <3>1
    <2>7. i \in DOMAIN registry \cap Elements(mylist)
      BY <2>1, <2>3, <2>4
    <2>8. i \in taintedItemIDs
      BY <2>1, <2>2, <2>5, <2>6, <2>7 DEF ReportInv, SuffixShown
    <2>9. taintedItemIDs \subseteq taintedItemIDs'
      BY <2>2 DEF renumber, Tainted
    <2>10. QED
      BY <2>8, <2>9
  <1>2. IInv /\ RegisteredInv /\ ClassInv /\ CalmInv /\ SuffixInv /\ PairInv
              /\ CalmInv' /\ [Next]_vars => PairInv'
    BY PairNext
  <1>3. IInv /\ RegisteredInv /\ ClassInv /\ CalmInv /\ NumberInv /\ QuietInv /\ PairInv
              /\ ReportInv /\ CalmInv' /\ [Next]_vars => ReportInv'
    BY ReportNext
  <1>4. IInv /\ RegisteredInv /\ ListInv /\ CalmInv /\ SuffixInv /\ NumberInv
              /\ QuietInv /\ CalmInv' /\ [Next]_vars => QuietInv'
    BY QuietNext
  <1>5. QED
    BY <1>1, <1>2, <1>3, <1>4, PairInit, QuietInit, ReturnsHold, UndisturbedHolds,
       PTL DEF Spec, SuffixChangesReported
=============================================================================
