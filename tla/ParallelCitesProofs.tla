------------------------- MODULE ParallelCitesProofs --------------------------
(***************************************************************************)
(* Proofs about ParallelCites: for any items, cases and lists, marks are   *)
(* on registered items only, no item holds two arrays of siblings, and as  *)
(* long as no citation was replaced, an entry reports one case; and if no  *)
(* citation has an item twice, no item is in two entries, and what was     *)
(* cited first of its case is in the bibliography of everything, which     *)
(* does not change when it is made again.                                  *)
(*                                                                         *)
(* The inductive invariant IInv says that the marks, and the set of cites  *)
(* begun last, are sound for the document: a first cite that follows       *)
(* another cite in a set comes after a report of its case, and so does the *)
(* first cite of every item marked as parallel, which joins a set whatever *)
(* comes before it.  Marks are made on first cites only, and an item has   *)
(* one first cite (FirstOne), which stays where it is until a citation is  *)
(* replaced.                                                               *)
(*                                                                         *)
(* A second one, PInv, is about who is a master (Ordered) and whom it has  *)
(* on its list (Chained).  A master's first cite begins a set (Leads), so  *)
(* a master is never marked parallel later, and the array of a master has  *)
(* the members of that set only (Led).  First cites in a row, the first of *)
(* an item that is not parallel and the others of parallel ones (Chain),   *)
(* are one set, whose first item has the others on its list (Holds).       *)
(* Between calls the set left over holds no first cite that could be       *)
(* marked (Idle), so a bibliography makes masters at most (Grown), the     *)
(* entries made so far stay apart (Parted), and an item that is not        *)
(* parallel is shown with its list when it has had its turn (Reports).     *)
(* What a bibliography makes masters has an empty list, so two of them     *)
(* show the same item by item (Same): the last one is always the one from  *)
(* some marks that have only grown since (Listed).                         *)
(*                                                                         *)
(* The code's loops over sets, cites, citations and reflist are folds of   *)
(* ParallelCites; module Folding turns each into steps.                    *)
(***************************************************************************)
EXTENDS ParallelCites, FiniteSetTheorems, WellFoundedInduction, TLAPS

-----------------------------------------------------------------------------
(* Documents. *)

Documents == Seq(Seq(Item))
Cites == [id : Item, first : BOOLEAN, prev : Item \cup {None}]

\* The first cite of each item.
Firsts(doc) ==
    {c \in Cites : /\ c.first
                   /\ \E q \in DOMAIN doc : \E k \in DOMAIN doc[q] : c = CitesOf(doc, q)[k]}

\* Two reports of one case; a cite that comes after one of its case.
Alike(i, j) == Case[i] = Case[j] /\ Case[i] # None
Fits(c) == c.prev \in Item /\ Alike(c.prev, c.id)

\* The members of a list and its places.
LEMMA ToSetSeq ==
    ASSUME NEW A, NEW list \in Seq(A)
    PROVE  /\ ToSet(list) \subseteq A
           /\ DOMAIN list = 1 .. Len(list) /\ Len(list) \in Nat
           /\ \A k \in DOMAIN list : list[k] \in ToSet(list) /\ list[k] \in A
  BY DEF ToSet

\* Contains is membership.
LEMMA ContainsIn ==
    ASSUME NEW A, NEW list \in Seq(A), NEW x
    PROVE  Contains(list, x) <=> x \in ToSet(list)
  BY DEF Contains, ToSet

\* Appending adds one member at the end.
LEMMA AppendIn ==
    ASSUME NEW A, NEW list \in Seq(A), NEW x \in A
    PROVE  /\ Append(list, x) \in Seq(A)
           /\ ToSet(Append(list, x)) = ToSet(list) \cup {x}
           /\ Len(Append(list, x)) = Len(list) + 1
           /\ DOMAIN Append(list, x) = 1 .. Len(list) + 1
           /\ \A k \in 1 .. Len(list) : Append(list, x)[k] = list[k]
           /\ Append(list, x)[Len(list) + 1] = x
           /\ Append(list, x) # <<>>
           /\ Last(Append(list, x)) = x
  <1> DEFINE t == Append(list, x)
  <1>1. /\ t \in Seq(A) /\ Len(t) = Len(list) + 1
        /\ \A k \in 1 .. Len(list) : t[k] = list[k]
        /\ t[Len(list) + 1] = x
        /\ t # <<>>
    OBVIOUS
  <1> HIDE DEF t
  <1>2. DOMAIN t = 1 .. Len(list) + 1 /\ DOMAIN list = 1 .. Len(list) /\ Len(list) \in Nat
    BY <1>1
  <1>3. DOMAIN t = DOMAIN list \cup {Len(list) + 1}
    BY <1>2
  <1>4. ToSet(t) = ToSet(list) \cup {x}
    BY <1>1, <1>2, <1>3 DEF ToSet
  <1>5. Last(t) = x
    BY <1>1 DEF Last
  <1>6. QED
    BY <1>1, <1>2, <1>4, <1>5 DEF t

\* The cites of a citation.
LEMMA CitesIn ==
    ASSUME ParallelAssumption, NEW doc \in Documents, NEW q \in DOMAIN doc
    PROVE  /\ CitesOf(doc, q) \in Seq(Cites)
           /\ Len(CitesOf(doc, q)) = Len(doc[q])
           /\ DOMAIN CitesOf(doc, q) = DOMAIN doc[q]
           /\ DOMAIN doc[q] = 1 .. Len(doc[q]) /\ Len(doc[q]) \in Nat
           /\ \A k \in DOMAIN doc[q] :
                 /\ CitesOf(doc, q)[k] \in Cites
                 /\ CitesOf(doc, q)[k].id = doc[q][k]
                 /\ doc[q][k] \in Cited(doc) /\ doc[q][k] \in Item
                 /\ k = 1 => CitesOf(doc, q)[k].prev = None
                 /\ k > 1 => /\ k - 1 \in DOMAIN doc[q]
                             /\ CitesOf(doc, q)[k].prev = doc[q][k - 1]
                 /\ CitesOf(doc, q)[k].first => CitesOf(doc, q)[k] \in Firsts(doc)
  <1>1. doc[q] \in Seq(Item)
    BY DEF Documents
  <1>2. DOMAIN doc[q] = 1 .. Len(doc[q]) /\ Len(doc[q]) \in Nat
        /\ \A k \in DOMAIN doc[q] : doc[q][k] \in ToSet(doc[q]) /\ doc[q][k] \in Item
    BY <1>1, ToSetSeq
  <1>3. ASSUME NEW k \in DOMAIN doc[q]
        PROVE  /\ CitesOf(doc, q)[k].id = doc[q][k]
               /\ CitesOf(doc, q)[k].first \in BOOLEAN
               /\ CitesOf(doc, q)[k].prev = IF k = 1 THEN None ELSE doc[q][k - 1]
               /\ CitesOf(doc, q)[k] = [id |-> CitesOf(doc, q)[k].id,
                                        first |-> CitesOf(doc, q)[k].first,
                                        prev |-> CitesOf(doc, q)[k].prev]
    BY DEF CitesOf
  <1>4. ASSUME NEW k \in DOMAIN doc[q], k # 1
        PROVE  k > 1 /\ k - 1 \in DOMAIN doc[q]
    BY <1>2, <1>4
  <1>5. ASSUME NEW k \in DOMAIN doc[q]
        PROVE  CitesOf(doc, q)[k] \in Cites
    <2>1. CitesOf(doc, q)[k].prev \in Item \cup {None}
      BY <1>2, <1>3, <1>4
    <2>2. CitesOf(doc, q)[k].id \in Item
      BY <1>2, <1>3
    <2> DEFINE x == CitesOf(doc, q)[k]
    <2>3. /\ x = [id |-> x.id, first |-> x.first, prev |-> x.prev]
          /\ x.id \in Item /\ x.first \in BOOLEAN /\ x.prev \in Item \cup {None}
      BY <1>3, <2>1, <2>2
    <2> HIDE DEF x
    <2>4. x \in Cites
      BY <2>3 DEF Cites
    <2>5. QED
      BY <2>4 DEF x
  <1>6. DOMAIN CitesOf(doc, q) = DOMAIN doc[q]
    BY DEF CitesOf
  <1>7. CitesOf(doc, q) = [k \in 1 .. Len(doc[q]) |-> CitesOf(doc, q)[k]]
    BY <1>2 DEF CitesOf
  <1>8. CitesOf(doc, q) \in Seq(Cites) /\ Len(CitesOf(doc, q)) = Len(doc[q])
    <2> DEFINE t == CitesOf(doc, q)
    <2>1. t = [k \in 1 .. Len(doc[q]) |-> t[k]] /\ \A k \in 1 .. Len(doc[q]) : t[k] \in Cites
      BY <1>2, <1>5, <1>7
    <2> HIDE DEF t
    <2>2. t \in Seq(Cites) /\ Len(t) = Len(doc[q])
      BY <1>2, <2>1
    <2>3. QED
      BY <2>2 DEF t
  <1>9. \A k \in DOMAIN doc[q] : doc[q][k] \in Cited(doc)
    BY <1>2 DEF Cited
  <1>10. \A k \in DOMAIN doc[q] :
            CitesOf(doc, q)[k].first => CitesOf(doc, q)[k] \in Firsts(doc)
    BY <1>5 DEF Firsts
  <1>11. ASSUME NEW k \in DOMAIN doc[q]
         PROVE  /\ k = 1 => CitesOf(doc, q)[k].prev = None
                /\ k > 1 => CitesOf(doc, q)[k].prev = doc[q][k - 1]
    <2>1. k \in Int /\ (k > 1 => k # 1)
      BY <1>2
    <2>2. QED
      BY <1>3, <2>1
  <1>12. QED
    BY <1>2, <1>3, <1>4, <1>5, <1>6, <1>8, <1>9, <1>10, <1>11

\* What is cited is cited in some place.
LEMMA CitedIn ==
    ASSUME NEW doc \in Documents
    PROVE  /\ Cited(doc) \subseteq Item
           /\ DOMAIN doc = 1 .. Len(doc) /\ Len(doc) \in Nat
           /\ \A i : i \in Cited(doc) <=>
                 \E q \in DOMAIN doc : \E k \in DOMAIN doc[q] : doc[q][k] = i
  <1>1. DOMAIN doc = 1 .. Len(doc) /\ Len(doc) \in Nat /\ \A q \in DOMAIN doc : doc[q] \in Seq(Item)
    BY DEF Documents
  <1>2. \A q \in DOMAIN doc : ToSet(doc[q]) \subseteq Item
    BY <1>1, ToSetSeq
  <1>3. QED
    BY <1>1, <1>2 DEF Cited, ToSet

\* An item has one first cite, and that is in one place.
LEMMA FirstPlace ==
    ASSUME ParallelAssumption, NEW doc \in Documents,
           NEW p \in DOMAIN doc, NEW j \in DOMAIN doc[p],
           NEW q \in DOMAIN doc, NEW k \in DOMAIN doc[q],
           CitesOf(doc, p)[j].first, CitesOf(doc, q)[k].first, doc[p][j] = doc[q][k]
    PROVE  p = q /\ j = k
  <1>1. ASSUME NEW r \in DOMAIN doc, NEW l \in DOMAIN doc[r], CitesOf(doc, r)[l].first
        PROVE  /\ \A n \in 1 .. l - 1 : doc[r][n] # doc[r][l]
               /\ \A s \in 1 .. r - 1 : ~Contains(doc[s], doc[r][l])
    BY <1>1 DEF CitesOf
  <1>2. DOMAIN doc = 1 .. Len(doc) /\ Len(doc) \in Nat
        /\ \A r \in DOMAIN doc : doc[r] \in Seq(Item)
    BY DEF Documents
  <1>3. ASSUME NEW r \in DOMAIN doc, NEW l \in DOMAIN doc[r]
        PROVE  Contains(doc[r], doc[r][l]) /\ l \in Nat /\ r \in Nat /\ l >= 1 /\ r >= 1
    <2>1. doc[r][l] \in ToSet(doc[r]) /\ DOMAIN doc[r] = 1 .. Len(doc[r]) /\ Len(doc[r]) \in Nat
      BY <1>2, ToSetSeq
    <2>2. QED
      BY <1>2, <2>1, ContainsIn
  <1>4. ~(p < q) /\ ~(q < p)
    <2>1. p < q => p \in 1 .. q - 1
      BY <1>3
    <2>2. q < p => q \in 1 .. p - 1
      BY <1>3
    <2>3. QED
      BY <1>1, <1>3, <2>1, <2>2
  <1>5. p = q
    BY <1>2, <1>4
  <1>6. ~(j < k) /\ ~(k < j)
    <2>1. j < k => j \in 1 .. k - 1
      BY <1>3
    <2>2. k < j => k \in 1 .. j - 1
      BY <1>3
    <2>3. QED
      BY <1>1, <1>5, <2>1, <2>2
  <1>7. QED
    BY <1>3, <1>5, <1>6

\* An item has one first cite.
LEMMA FirstOne ==
    ASSUME ParallelAssumption, NEW doc \in Documents,
           NEW c \in Firsts(doc), NEW d \in Firsts(doc), c.id = d.id
    PROVE  c = d
  <1>1. PICK p \in DOMAIN doc : \E j \in DOMAIN doc[p] : c = CitesOf(doc, p)[j]
    BY DEF Firsts
  <1>2. PICK j \in DOMAIN doc[p] : c = CitesOf(doc, p)[j]
    BY <1>1
  <1>3. PICK q \in DOMAIN doc : \E k \in DOMAIN doc[q] : d = CitesOf(doc, q)[k]
    BY DEF Firsts
  <1>4. PICK k \in DOMAIN doc[q] : d = CitesOf(doc, q)[k]
    BY <1>3
  <1>5. c.first /\ d.first
    BY DEF Firsts
  <1>6. doc[p][j] = doc[q][k]
    BY <1>2, <1>4, CitesIn
  <1>7. p = q /\ j = k
    BY <1>2, <1>4, <1>5, <1>6, FirstPlace
  <1>8. QED
    BY <1>2, <1>4, <1>7

\* A citation at the end leaves the cites before it; what is first in it was
\* not cited.
LEMMA Appended ==
    ASSUME ParallelAssumption, NEW doc \in Documents, NEW items \in Seq(Item),
           NEW more, more = Append(doc, items)
    PROVE  /\ more \in Documents
           /\ Len(more) = Len(doc) + 1 /\ more[Len(doc) + 1] = items
           /\ DOMAIN more = DOMAIN doc \cup {Len(doc) + 1} /\ Len(doc) + 1 \notin DOMAIN doc
           /\ \A q \in DOMAIN doc : more[q] = doc[q] /\ CitesOf(more, q) = CitesOf(doc, q)
           /\ Cited(more) = Cited(doc) \cup ToSet(items)
           /\ \A k \in DOMAIN items :
                 CitesOf(more, Len(doc) + 1)[k].first => items[k] \notin Cited(doc)
           /\ \A c \in Firsts(more) : c.id \in Cited(doc) => c \in Firsts(doc)
  <1> DEFINE n == Len(doc) + 1
  <1>1. /\ more \in Documents /\ Len(more) = n /\ n \in Nat
        /\ DOMAIN doc = 1 .. Len(doc) /\ Len(doc) \in Nat
        /\ DOMAIN more = 1 .. n
        /\ more[n] = items /\ \A q \in DOMAIN doc : more[q] = doc[q]
    <2> DEFINE t == Append(doc, items)
    <2>1. /\ t \in Documents /\ Len(t) = n /\ n \in Nat
          /\ DOMAIN doc = 1 .. Len(doc) /\ Len(doc) \in Nat
          /\ DOMAIN t = 1 .. n
          /\ t[n] = items /\ \A q \in DOMAIN doc : t[q] = doc[q]
      BY DEF Documents
    <2> HIDE DEF t, n
    <2>2. QED
      BY <2>1 DEF t
  <1>2. DOMAIN more = DOMAIN doc \cup {n} /\ n \notin DOMAIN doc
    BY <1>1
  <1> HIDE DEF n
  <1>3. ASSUME NEW q \in DOMAIN doc
        PROVE  CitesOf(more, q) = CitesOf(doc, q)
    <2>1. \A p \in 1 .. q - 1 : p \in DOMAIN doc
      BY <1>1
    <2>2. \A p \in 1 .. q - 1 : more[p] = doc[p]
      BY <1>1, <2>1
    <2>3. more[q] = doc[q]
      BY <1>1
    <2>4. QED
      BY <2>2, <2>3 DEF CitesOf
  <1>4. Cited(more) = Cited(doc) \cup ToSet(items)
    BY <1>1, <1>2 DEF Cited
  <1>5. ASSUME NEW k \in DOMAIN items, CitesOf(more, n)[k].first
        PROVE  items[k] \notin Cited(doc)
    <2>1. \A p \in 1 .. n - 1 : ~Contains(more[p], items[k])
      BY <1>1, <1>5 DEF CitesOf
    <2>2. 1 .. n - 1 = DOMAIN doc
      BY <1>1 DEF n
    <2>3. \A p \in DOMAIN doc : doc[p] \in Seq(Item) /\ ~Contains(doc[p], items[k])
      BY <1>1, <2>1, <2>2 DEF Documents
    <2>4. \A p \in DOMAIN doc : items[k] \notin ToSet(doc[p])
      BY <2>3, ContainsIn
    <2>5. QED
      BY <2>4 DEF Cited
  <1>6. ASSUME NEW c \in Firsts(more), c.id \in Cited(doc)
        PROVE  c \in Firsts(doc)
    <2>1. PICK q \in DOMAIN more : \E k \in DOMAIN more[q] : c = CitesOf(more, q)[k]
      BY DEF Firsts
    <2>2. PICK k \in DOMAIN more[q] : c = CitesOf(more, q)[k]
      BY <2>1
    <2>3. c.first /\ c \in Cites
      BY DEF Firsts
    <2>4. q # n
      <3>1. SUFFICES ASSUME q = n PROVE FALSE
        OBVIOUS
      <3>2. c.id = items[k] /\ k \in DOMAIN items
        <4>1. more[n] = items /\ n \in DOMAIN more /\ k \in DOMAIN more[n]
              /\ c = CitesOf(more, n)[k]
          BY <1>1, <1>2, <2>2, <3>1
        <4>2. more \in Documents
          BY <1>1
        <4>3. CitesOf(more, n)[k].id = more[n][k]
          BY <4>1, <4>2, CitesIn
        <4>4. QED
          BY <4>1, <4>3
      <3>3. QED
        BY <1>5, <1>6, <2>2, <2>3, <3>1, <3>2
    <2>5. q \in DOMAIN doc /\ more[q] = doc[q] /\ CitesOf(more, q) = CitesOf(doc, q)
      BY <1>1, <1>2, <1>3, <2>4
    <2>6. QED
      BY <2>2, <2>3, <2>5 DEF Firsts
  <1>7. QED
    BY <1>1, <1>2, <1>3, <1>4, <1>5, <1>6 DEF n

-----------------------------------------------------------------------------
(* Marks. *)

Arrays == [holders : SUBSET Item, list : Seq(Item)]
MarkSets == [master : SUBSET Item,
             parallel : [Item -> Item \cup {None}],
             arrays : SUBSET Arrays]

\* The items marked as parallel.
Parallel(m) == {i \in Item : m.parallel[i] # None}

\* No item holds two arrays, and every master holds one.
Apart(arrays) == \A a, b \in arrays : a # b => a.holders \cap b.holders = {}
Typed(m, doc) ==
    /\ m \in MarkSets
    /\ m.master \subseteq Cited(doc)
    /\ \A a \in m.arrays : a.holders \subseteq Cited(doc)
    /\ Apart(m.arrays)
    /\ \A i \in m.master : ArraysOf(m, i) # {}

\* Who shares an array reports one case, and so does the item whose first cite
\* comes before that of a parallel item.
OneCase(items) == \A i, j \in items : i # j => Alike(i, j)
Cased(m, doc) ==
    /\ \A a \in m.arrays : OneCase(a.holders \cup ToSet(a.list))
    /\ \A i \in Parallel(m) : /\ i \in Cited(doc) /\ Case[i] # None
                              /\ \A c \in Firsts(doc) : c.id = i => Fits(c)

\* The second as long as nothing was replaced.
Sound(m, doc, replaced) == Typed(m, doc) /\ (~replaced => Cased(m, doc))

\* The arrays of an item.
LEMMA ArraysOfIn ==
    ASSUME NEW m, NEW i, NEW a
    PROVE  a \in ArraysOf(m, i) <=> a \in m.arrays /\ i \in a.holders
  BY DEF ArraysOf

\* An array of siblings without some holders.
Less(a, items) == [holders |-> a.holders \ items, list |-> a.list]

\* The arrays that are left when some items hold them no more.
LEMMA ReleasedIs ==
    ASSUME NEW arrays \in SUBSET Arrays, NEW items, NEW b
    PROVE  b \in Released(arrays, items) <=>
              b.holders # {} /\ \E a \in arrays : b = Less(a, items)
  <1>1. ASSUME NEW a \in arrays
        PROVE  [a EXCEPT !.holders = @ \ items] = Less(a, items)
    <2> DEFINE v == a.holders \ items
    <2>1. a \in Arrays
      OBVIOUS
    <2> HIDE DEF v
    <2>2. [a EXCEPT !.holders = v] = [holders |-> v, list |-> a.list]
      BY <2>1 DEF Arrays
    <2>3. QED
      BY <2>2 DEF v, Less
  <1>2. QED
    BY <1>1 DEF Released

\* They are arrays.
LEMMA ReleasedIn ==
    ASSUME NEW arrays \in SUBSET Arrays, NEW items
    PROVE  Released(arrays, items) \in SUBSET Arrays
  <1>1. \A a \in arrays : Less(a, items) \in Arrays
    BY DEF Arrays, Less
  <1>2. QED
    BY <1>1, ReleasedIs

\* An array without some holders keeps its list.
LEMMA LessIs ==
    ASSUME NEW a, NEW items
    PROVE  Less(a, items).holders = a.holders \ items /\ Less(a, items).list = a.list
  BY DEF Less

\* No item holds two of them.
LEMMA ReleasedApart ==
    ASSUME NEW arrays \in SUBSET Arrays, NEW items, Apart(arrays)
    PROVE  Apart(Released(arrays, items))
  <1>1. SUFFICES ASSUME NEW b \in Released(arrays, items), NEW d \in Released(arrays, items),
                        b # d
                 PROVE  b.holders \cap d.holders = {}
    BY DEF Apart
  <1>2. PICK a \in arrays : b = Less(a, items)
    BY ReleasedIs
  <1>3. PICK c \in arrays : d = Less(c, items)
    BY ReleasedIs
  <1>4. a.holders \cap c.holders = {}
    BY <1>1, <1>2, <1>3 DEF Apart
  <1>5. QED
    BY <1>2, <1>3, <1>4, LessIs

\* The same for one item.
Freed(arrays, i) == Released(arrays, {i})
Without(a, i) == Less(a, {i})

\* The array keeps its list.
LEMMA WithoutIs ==
    ASSUME NEW a, NEW i
    PROVE  Without(a, i).holders = a.holders \ {i} /\ Without(a, i).list = a.list
  BY DEF Without, Less

\* The arrays that are left when one item holds them no more.
LEMMA FreedIs ==
    ASSUME NEW arrays \in SUBSET Arrays, NEW i, NEW b
    PROVE  b \in Freed(arrays, i) <=>
              b.holders # {} /\ \E a \in arrays : b = Without(a, i)
  <1> DEFINE items == {i}
  <1>1. Freed(arrays, i) = Released(arrays, items) /\ \A a : Without(a, i) = Less(a, items)
    BY DEF Freed, Without
  <1> HIDE DEF items
  <1>2. QED
    BY <1>1, ReleasedIs

\* They are arrays, apart, and have no holders but the others.
LEMMA FreedIn ==
    ASSUME NEW arrays \in SUBSET Arrays, NEW i
    PROVE  /\ Freed(arrays, i) \in SUBSET Arrays
           /\ Apart(arrays) => Apart(Freed(arrays, i))
  <1> DEFINE items == {i}
  <1>1. Freed(arrays, i) = Released(arrays, items)
    BY DEF Freed
  <1> HIDE DEF items
  <1>2. QED
    BY <1>1, ReleasedIn, ReleasedApart

\* Where such an array is from.
LEMMA FreedFrom ==
    ASSUME NEW arrays \in SUBSET Arrays, NEW i, NEW b \in Freed(arrays, i)
    PROVE  b.holders # {} /\ \E a \in arrays : b = Without(a, i)
  BY FreedIs

\* Marks with two parts replaced.
LEMMA ExceptIs ==
    ASSUME NEW m \in MarkSets, NEW v, NEW w, NEW n
    PROVE  /\ n = [m EXCEPT !.master = v, !.arrays = w] =>
                 n = [master |-> v, parallel |-> m.parallel, arrays |-> w]
           /\ n = [m EXCEPT !.parallel = v, !.arrays = w] =>
                 n = [master |-> m.master, parallel |-> v, arrays |-> w]
  BY DEF MarkSets

\* Arrays without an item, and one that it holds.
LEMMA OneMoreArray ==
    ASSUME NEW arrays \in SUBSET Arrays, Apart(arrays), NEW i,
           NEW new \in Arrays, i \in new.holders,
           \A a \in arrays : a.holders \cap (new.holders \ {i}) = {}
    PROVE  /\ Freed(arrays, i) \cup {new} \in SUBSET Arrays
           /\ Apart(Freed(arrays, i) \cup {new})
  <1>1. \A b \in Freed(arrays, i) : b.holders \cap new.holders = {}
    <2>1. SUFFICES ASSUME NEW b \in Freed(arrays, i)
                   PROVE  b.holders \cap new.holders = {}
      OBVIOUS
    <2>2. PICK a \in arrays : b = Without(a, i)
      BY FreedFrom
    <2>3. QED
      BY <2>2, WithoutIs
  <1>2. Apart(Freed(arrays, i))
    BY FreedIn
  <1>3. Apart(Freed(arrays, i) \cup {new})
    BY <1>1, <1>2 DEF Apart
  <1>4. QED
    BY <1>3, FreedIn

\* What the items of a typed document's marks are.
LEMMA TypedIs ==
    ASSUME NEW doc, NEW m, Typed(m, doc)
    PROVE  /\ m = [master |-> m.master, parallel |-> m.parallel, arrays |-> m.arrays]
           /\ m.master \in SUBSET Item /\ m.master \subseteq Cited(doc)
           /\ m.parallel \in [Item -> Item \cup {None}]
           /\ m.arrays \in SUBSET Arrays /\ Apart(m.arrays)
           /\ \A a \in m.arrays : a.holders \subseteq Cited(doc)
           /\ \A i \in m.master : ArraysOf(m, i) # {}
  BY DEF Typed, MarkSets

\* MarkMaster: the master holds an array of its own.
LEMMA MarkMasterIs ==
    ASSUME NEW doc \in Documents, NEW m, Typed(m, doc), NEW i \in Cited(doc)
    PROVE  /\ MarkMaster(m, i).master = m.master \cup {i}
           /\ MarkMaster(m, i).parallel = m.parallel
           /\ MarkMaster(m, i).arrays =
                 Freed(m.arrays, i) \cup {[holders |-> {i}, list |-> <<>>]}
           /\ Parallel(MarkMaster(m, i)) = Parallel(m)
           /\ Typed(MarkMaster(m, i), doc)
  <1> DEFINE new == [holders |-> {i}, list |-> <<>>]
             n == MarkMaster(m, i)
  <1>1. i \in Item
    BY CitedIn
  <1>2. /\ m = [master |-> m.master, parallel |-> m.parallel, arrays |-> m.arrays]
        /\ m.arrays \in SUBSET Arrays /\ Apart(m.arrays)
    BY TypedIs
  <1>3. /\ n.master = m.master \cup {i} /\ n.parallel = m.parallel
        /\ n.arrays = Freed(m.arrays, i) \cup {new}
        /\ n = [master |-> n.master, parallel |-> n.parallel, arrays |-> n.arrays]
    <2>1. n = [master |-> m.master \cup {i}, parallel |-> m.parallel,
               arrays |-> Freed(m.arrays, i) \cup {new}]
      <3> DEFINE more == Freed(m.arrays, i) \cup {new}
                 masters == m.master \cup {i}
      <3>1. n = [m EXCEPT !.master = masters, !.arrays = more]
        BY DEF MarkMaster, Freed
      <3> HIDE DEF n, more, masters
      <3>2. m \in MarkSets
        BY DEF Typed
      <3>3. n = [master |-> masters, parallel |-> m.parallel, arrays |-> more]
        BY <3>1, <3>2, ExceptIs
      <3>4. QED
        BY <3>3 DEF more, masters
    <2> HIDE DEF n, new
    <2>2. QED
      BY <2>1
  <1>4. new \in Arrays /\ i \in new.holders /\ new.holders \ {i} = {} /\ new.holders = {i}
    BY <1>1 DEF Arrays
  <1> HIDE DEF new, n
  <1>5. n.arrays \in SUBSET Arrays /\ Apart(n.arrays)
    BY <1>2, <1>3, <1>4, OneMoreArray
  <1>6. ASSUME NEW j \in n.master PROVE ArraysOf(n, j) # {}
    <2>1. CASE j = i
      BY <1>3, <1>4, <2>1, ArraysOfIn
    <2>2. CASE j # i
      <3>1. j \in m.master /\ ArraysOf(m, j) # {}
        BY <1>3, <2>2, TypedIs
      <3>2. PICK a \in m.arrays : j \in a.holders
        BY <3>1, ArraysOfIn
      <3>3. j \in Without(a, i).holders
        BY <2>2, <3>2, WithoutIs
      <3>4. Without(a, i) \in Freed(m.arrays, i)
        BY <1>2, <3>3, FreedIs
      <3>5. QED
        BY <1>3, <3>3, <3>4, ArraysOfIn
    <2>3. QED
      BY <2>1, <2>2
  <1>7. ASSUME NEW b \in n.arrays PROVE b.holders \subseteq Cited(doc)
    <2>1. CASE b = new
      BY <1>4, <2>1
    <2>2. CASE b \in Freed(m.arrays, i)
      <3>1. PICK a \in m.arrays : b = Without(a, i)
        BY <1>2, <2>2, FreedIs
      <3>2. QED
        BY <3>1, WithoutIs, TypedIs
    <2>3. QED
      BY <1>3, <2>1, <2>2
  <1>8. n \in MarkSets
    <2>1. n.master \in SUBSET Item /\ n.parallel \in [Item -> Item \cup {None}]
      BY <1>1, <1>3, TypedIs
    <2>2. QED
      BY <1>3, <1>5, <2>1 DEF MarkSets
  <1>9. Parallel(n) = Parallel(m)
    BY <1>3 DEF Parallel
  <1>10. Typed(n, doc)
    <2>1. n.master \subseteq Cited(doc)
      BY <1>3, TypedIs
    <2>2. QED
      BY <1>5, <1>6, <1>7, <1>8, <2>1 DEF Typed
  <1>11. QED
    BY <1>3, <1>9, <1>10 DEF n, new

\* A registered item is made a master.
LEMMA MarkMasterSound ==
    ASSUME NEW doc \in Documents, NEW replaced, NEW m, Sound(m, doc, replaced),
           NEW i \in Cited(doc)
    PROVE  Sound(MarkMaster(m, i), doc, replaced)
  <1>1. Typed(m, doc)
    BY DEF Sound
  <1>2. Typed(MarkMaster(m, i), doc)
    BY <1>1, MarkMasterIs
  <1>3. ASSUME Cased(m, doc) PROVE Cased(MarkMaster(m, i), doc)
    <2>1. ASSUME NEW b \in MarkMaster(m, i).arrays
          PROVE  OneCase(b.holders \cup ToSet(b.list))
      <3>1. CASE b = [holders |-> {i}, list |-> <<>>]
        BY <3>1 DEF OneCase, ToSet
      <3>2. CASE b \in Freed(m.arrays, i)
        <4>1. m.arrays \in SUBSET Arrays
          BY <1>1, TypedIs
        <4>2. PICK a \in m.arrays : b = Without(a, i)
          BY <3>2, <4>1, FreedIs
        <4>3. OneCase(a.holders \cup ToSet(a.list))
          BY <1>3 DEF Cased
        <4>4. QED
          BY <4>2, <4>3, WithoutIs DEF OneCase
      <3>3. MarkMaster(m, i).arrays = Freed(m.arrays, i) \cup {[holders |-> {i}, list |-> <<>>]}
        BY <1>1, MarkMasterIs
      <3>4. QED
        BY <3>1, <3>2, <3>3
    <2>2. Parallel(MarkMaster(m, i)) = Parallel(m)
      BY <1>1, MarkMasterIs
    <2>3. QED
      BY <1>3, <2>1, <2>2 DEF Cased
  <1>4. QED
    BY <1>2, <1>3 DEF Sound

\* MarkSibling: the sibling joins the array of the item before it, if any.
Base(m, prev, a) ==
    \/ ArraysOf(m, prev) = {} /\ a = [holders |-> {}, list |-> <<>>]
    \/ ArraysOf(m, prev) = {a}
Joined(a, i) == [holders |-> a.holders \cup {i}, list |-> Append(a.list, i)]

\* There is an array to join.
LEMMA BaseIs ==
    ASSUME NEW doc, NEW m, Typed(m, doc), NEW prev
    PROVE  \E a \in Arrays : Base(m, prev, a)
  <1>1. m.arrays \in SUBSET Arrays /\ Apart(m.arrays)
    BY TypedIs
  <1>2. CASE ArraysOf(m, prev) = {}
    <2> DEFINE a == [holders |-> {}, list |-> <<>>]
    <2>1. a \in Arrays /\ Base(m, prev, a)
      BY <1>2 DEF Arrays, Base
    <2> HIDE DEF a
    <2>2. QED
      BY <2>1
  <1>3. CASE ArraysOf(m, prev) # {}
    <2>1. PICK a \in ArraysOf(m, prev) : TRUE
      BY <1>3
    <2>2. \A b \in ArraysOf(m, prev) : b = a
      BY <1>1, <2>1, ArraysOfIn DEF Apart
    <2>3. ArraysOf(m, prev) = {a} /\ a \in Arrays
      BY <1>1, <2>1, <2>2, ArraysOfIn
    <2>4. QED
      BY <2>3 DEF Base
  <1>4. QED
    BY <1>2, <1>3

\* It is the array of the item before, or a new one.
LEMMA BaseIn ==
    ASSUME NEW m, NEW prev, NEW a, Base(m, prev, a)
    PROVE  \/ a.holders = {} /\ a.list = <<>> /\ ArraysOf(m, prev) = {}
           \/ a \in m.arrays /\ prev \in a.holders /\ ArraysOf(m, prev) = {a}
  <1>1. CASE ArraysOf(m, prev) = {} /\ a = [holders |-> {}, list |-> <<>>]
    BY <1>1
  <1>2. CASE ArraysOf(m, prev) = {a}
    BY <1>2, ArraysOfIn
  <1>3. QED
    BY <1>1, <1>2 DEF Base

\* What the array is when the sibling has joined.
LEMMA JoinedIs ==
    ASSUME NEW a \in Arrays, NEW i \in Item
    PROVE  /\ Joined(a, i) \in Arrays
           /\ Joined(a, i).holders = a.holders \cup {i}
           /\ Joined(a, i).list = Append(a.list, i)
           /\ ToSet(Joined(a, i).list) = ToSet(a.list) \cup {i}
  <1>1. a.list \in Seq(Item) /\ a.holders \in SUBSET Item
    BY DEF Arrays
  <1>2. Append(a.list, i) \in Seq(Item) /\ ToSet(Append(a.list, i)) = ToSet(a.list) \cup {i}
    BY <1>1, AppendIn
  <1>3. QED
    BY <1>1, <1>2 DEF Joined, Arrays

\* What the arrays are when an item has joined those of the one before it.
JoinedArrays(m, i, prev, a) ==
    Freed(m.arrays \ ArraysOf(m, prev), i) \cup {Joined(a, i)}

\* MarkSibling: the marks it leaves.
LEMMA MarkSiblingIs ==
    ASSUME ParallelAssumption, NEW doc \in Documents, NEW m, Typed(m, doc),
           NEW i \in Cited(doc), NEW prev \in Item, NEW a \in Arrays, Base(m, prev, a)
    PROVE  /\ MarkSibling(m, i, prev).master = m.master
           /\ Parallel(MarkSibling(m, i, prev)) = Parallel(m) \cup {i}
           /\ MarkSibling(m, i, prev).arrays = JoinedArrays(m, i, prev, a)
           /\ Typed(MarkSibling(m, i, prev), doc)
  <1> DEFINE joined == ArraysOf(m, prev)
             rest == m.arrays \ joined
             kept == Freed(rest, i)
             n == MarkSibling(m, i, prev)
             p == IF m.parallel[prev] = None THEN prev ELSE m.parallel[prev]
  <1>1. i \in Item /\ i # None /\ prev # None
    BY CitedIn DEF ParallelAssumption
  <1>2. /\ m = [master |-> m.master, parallel |-> m.parallel, arrays |-> m.arrays]
        /\ m.parallel \in [Item -> Item \cup {None}]
        /\ m.arrays \in SUBSET Arrays /\ Apart(m.arrays)
    BY TypedIs
  <1>3. /\ n.master = m.master /\ n.parallel = [m.parallel EXCEPT ![i] = p]
        /\ n.arrays = JoinedArrays(m, i, prev, a)
        /\ n = [master |-> n.master, parallel |-> n.parallel, arrays |-> n.arrays]
    <2> DEFINE more == IF joined = {} THEN kept \cup {[holders |-> {i}, list |-> <<i>>]}
                       ELSE kept \cup {[holders |-> d.holders \cup {i},
                                        list |-> Append(d.list, i)] : d \in joined}
    <2>1. n = [master |-> m.master, parallel |-> [m.parallel EXCEPT ![i] = p],
               arrays |-> more]
      <3> DEFINE par == [m.parallel EXCEPT ![i] = p]
      <3>1. n = [m EXCEPT !.parallel = par, !.arrays = more]
        BY DEF MarkSibling, Freed
      <3> HIDE DEF n, more, par
      <3>2. m \in MarkSets
        BY DEF Typed
      <3>3. n = [master |-> m.master, parallel |-> par, arrays |-> more]
        BY <3>1, <3>2, ExceptIs
      <3>4. QED
        BY <3>3 DEF par
    <2>2. more = JoinedArrays(m, i, prev, a)
      <3>1. CASE joined = {}
        <4>1. a = [holders |-> {}, list |-> <<>>]
          BY <3>1 DEF Base
        <4>2. Joined(a, i) = [holders |-> {i}, list |-> <<i>>]
          BY <4>1 DEF Joined
        <4>3. QED
          BY <3>1, <4>2 DEF JoinedArrays
      <3>2. CASE joined # {}
        <4>1. joined = {a}
          BY <3>2 DEF Base
        <4>2. QED
          BY <4>1 DEF Joined, JoinedArrays
      <3>3. QED
        BY <3>1, <3>2
    <2> HIDE DEF n, p, more
    <2>3. QED
      BY <2>1, <2>2
  <1>4. p \in Item
    BY <1>2
  <1> HIDE DEF n, p
  <1>5. n.parallel \in [Item -> Item \cup {None}] /\ Parallel(n) = Parallel(m) \cup {i}
    <2>1. n.parallel \in [Item -> Item \cup {None}]
      BY <1>2, <1>3, <1>4
    <2>2. p # None
      BY <1>4 DEF ParallelAssumption
    <2>3. n.parallel[i] = p /\ \A j \in Item \ {i} : n.parallel[j] = m.parallel[j]
      BY <1>1, <1>2, <1>3
    <2>4. QED
      BY <2>1, <2>2, <2>3, <1>1 DEF Parallel
  <1>6. Joined(a, i) \in Arrays /\ Joined(a, i).holders = a.holders \cup {i}
    BY <1>1, JoinedIs
  <1>7. /\ a.holders \subseteq Cited(doc)
        /\ \A b \in rest : b.holders \cap (Joined(a, i).holders \ {i}) = {}
    <2>1. CASE a.holders = {}
      BY <1>6, <2>1
    <2>2. CASE a \in m.arrays /\ joined = {a}
      <3>1. \A b \in rest : b.holders \cap a.holders = {}
        BY <1>2, <2>2 DEF Apart
      <3>2. QED
        BY <1>6, <2>2, <3>1, TypedIs
    <2>3. QED
      BY <2>1, <2>2, BaseIn
  <1>8. rest \in SUBSET Arrays /\ rest \subseteq m.arrays
    BY <1>2
  <1>9. n.arrays = kept \cup {Joined(a, i)}
    BY <1>3 DEF JoinedArrays
  <1>10. n.arrays \in SUBSET Arrays /\ Apart(n.arrays)
    <2>1. Apart(rest)
      BY <1>2, <1>8 DEF Apart
    <2>2. i \in Joined(a, i).holders
      BY <1>6
    <2> HIDE DEF rest
    <2>3. QED
      BY <1>6, <1>7, <1>8, <1>9, <2>1, <2>2, OneMoreArray
  <1>11. ASSUME NEW j \in n.master PROVE ArraysOf(n, j) # {}
    <2>1. CASE j = i
      <3>1. Joined(a, i) \in n.arrays /\ i \in Joined(a, i).holders
        BY <1>6, <1>9
      <3>2. QED
        BY <2>1, <3>1, ArraysOfIn
    <2>2. CASE j # i
      <3>1. j \in m.master /\ ArraysOf(m, j) # {}
        BY <1>3, TypedIs
      <3>2. PICK b \in m.arrays : j \in b.holders
        BY <3>1, ArraysOfIn
      <3>3. CASE b \in joined
        <4>1. b = a
          BY <3>3, BaseIn
        <4>2. j \in Joined(a, i).holders /\ Joined(a, i) \in n.arrays
          BY <1>6, <1>9, <3>2, <4>1
        <4>3. QED
          BY <4>2, ArraysOfIn
      <3>4. CASE b \notin joined
        <4>1. b \in rest /\ j \in Without(b, i).holders
          BY <2>2, <3>2, <3>4, WithoutIs
        <4>2. Without(b, i) \in kept
          <5> HIDE DEF rest
          <5>1. QED
            BY <1>8, <4>1, FreedIs
        <4>3. QED
          BY <1>9, <4>1, <4>2, ArraysOfIn
      <3>5. QED
        BY <3>3, <3>4
    <2>3. QED
      BY <2>1, <2>2
  <1>12. ASSUME NEW b \in n.arrays PROVE b.holders \subseteq Cited(doc)
    <2>1. CASE b = Joined(a, i)
      BY <1>6, <1>7, <2>1
    <2>2. CASE b \in kept
      <3>1. PICK d \in rest : b = Without(d, i)
        <4> HIDE DEF rest
        <4>1. QED
          BY <1>8, <2>2, FreedFrom
      <3>2. d.holders \subseteq Cited(doc)
        BY <1>8, <3>1, TypedIs
      <3>3. QED
        BY <3>1, <3>2, WithoutIs
    <2>3. QED
      BY <1>9, <2>1, <2>2
  <1>13. n \in MarkSets /\ n.master \subseteq Cited(doc)
    <2>1. n.master \in SUBSET Item /\ n.master \subseteq Cited(doc)
      BY <1>3, TypedIs
    <2>2. QED
      BY <1>3, <1>5, <1>10, <2>1 DEF MarkSets
  <1>14. Typed(n, doc)
    BY <1>10, <1>11, <1>12, <1>13 DEF Typed
  <1>15. QED
    BY <1>3, <1>5, <1>14 DEF n

\* An item whose first cite follows its case is made a sibling.
LEMMA MarkSiblingSound ==
    ASSUME ParallelAssumption, NEW doc \in Documents, NEW replaced, NEW m,
           Sound(m, doc, replaced),
           NEW c \in Firsts(doc), c.id \in Cited(doc), c.prev \in Item, ~replaced => Fits(c)
    PROVE  Sound(MarkSibling(m, c.id, c.prev), doc, replaced)
  <1> DEFINE i == c.id
             prev == c.prev
             n == MarkSibling(m, i, prev)
  <1>1. i \in Cited(doc) /\ i \in Item /\ prev \in Item
    BY CitedIn
  <1>2. \A d \in Firsts(doc) : d.id = i => d = c
    BY FirstOne
  <1>3. ~replaced => Alike(prev, i)
    BY DEF Fits
  <1>4. n = MarkSibling(m, c.id, c.prev)
    OBVIOUS
  <1> HIDE DEF i, prev
  <1>5. Typed(m, doc)
    BY DEF Sound
  <1>6. PICK a \in Arrays : Base(m, prev, a)
    BY <1>5, BaseIs
  <1>7. /\ Parallel(n) = Parallel(m) \cup {i} /\ n.arrays = JoinedArrays(m, i, prev, a)
        /\ Typed(n, doc)
    BY <1>5, <1>6, <1>1, MarkSiblingIs
  <1>8. ASSUME ~replaced PROVE Cased(n, doc)
    <2>1. Cased(m, doc) /\ Alike(prev, i) /\ Fits(c)
      BY <1>8, <1>3 DEF Sound
    <2>2. ASSUME NEW b \in n.arrays
          PROVE  OneCase(b.holders \cup ToSet(b.list))
      <3>1. CASE b = Joined(a, i)
        <4>1. ToSet(b.list) = ToSet(a.list) \cup {i} /\ b.holders = a.holders \cup {i}
          BY <1>1, <3>1, JoinedIs
        <4>2. CASE a.holders = {} /\ a.list = <<>>
          <5>1. b.holders = {i} /\ ToSet(b.list) = {i}
            BY <4>1, <4>2 DEF ToSet
          <5>2. QED
            BY <5>1 DEF OneCase
        <4>3. CASE a \in m.arrays /\ prev \in a.holders
          <5>1. OneCase(a.holders \cup ToSet(a.list))
            BY <2>1, <4>3 DEF Cased
          <5>2. \A j \in a.holders \cup ToSet(a.list) : Alike(j, i) /\ Alike(i, j)
            BY <2>1, <4>3, <5>1 DEF OneCase, Alike
          <5>3. b.holders \cup ToSet(b.list) = (a.holders \cup ToSet(a.list)) \cup {i}
            BY <4>1
          <5>4. QED
            BY <5>1, <5>2, <5>3 DEF OneCase
        <4>4. QED
          BY <1>6, <4>2, <4>3, BaseIn
      <3>2. CASE b \in Freed(m.arrays \ ArraysOf(m, prev), i)
        <4>1. m.arrays \ ArraysOf(m, prev) \in SUBSET Arrays
          BY <1>5, TypedIs
        <4>2. PICK d \in m.arrays \ ArraysOf(m, prev) : b = Without(d, i)
          <5> DEFINE rest == m.arrays \ ArraysOf(m, prev)
          <5> HIDE DEF rest
          <5>1. rest \in SUBSET Arrays /\ b \in Freed(rest, i)
            BY <3>2, <4>1 DEF rest
          <5>2. \E d \in rest : b = Without(d, i)
            BY <5>1, FreedFrom
          <5>3. QED
            BY <5>2 DEF rest
        <4>3. OneCase(d.holders \cup ToSet(d.list))
          BY <2>1 DEF Cased
        <4>4. QED
          BY <4>2, <4>3, WithoutIs DEF OneCase
      <3>3. QED
        BY <1>7, <2>2, <3>1, <3>2 DEF JoinedArrays
    <2>3. Case[i] # None /\ \A d \in Firsts(doc) : d.id = i => Fits(d)
      BY <1>2, <2>1 DEF Alike
    <2>4. \A j \in Parallel(n) : /\ j \in Cited(doc) /\ Case[j] # None
                                 /\ \A d \in Firsts(doc) : d.id = j => Fits(d)
      BY <1>7, <1>1, <2>1, <2>3 DEF Cased
    <2>5. QED
      BY <2>2, <2>4 DEF Cased
  <1>9. QED
    BY <1>7, <1>8, <1>4 DEF Sound

-----------------------------------------------------------------------------
(* Sets of cites, and renderings. *)

FMark == INSTANCE Folding WITH Op <- MarkedCite

Renderings == [marks : MarkSets, set : Seq(Cites), series : BOOLEAN]

\* What a set has: registered items; and where a first cite follows another
\* cite in it, a report of the case before it.
Whole(set, doc, replaced) ==
    \A n \in DOMAIN set :
        /\ set[n].id \in Cited(doc)
        /\ set[n].first => set[n] \in Firsts(doc)
        /\ set[n].first /\ n > 1 => set[n].prev \in Item /\ (~replaced => Fits(set[n]))

Good(r, doc, replaced) ==
    r \in Renderings /\ Sound(r.marks, doc, replaced) /\ Whole(r.set, doc, replaced)

\* The marks once the set is composed.
Composed(r) == IF Len(r.set) = 1 THEN r.marks ELSE MarkedSet(r.marks, r.set)
Goes(r, c) == r.series /\ Matches(r, c)
Forced(r, c) == r.marks.parallel[c.id] # None

\* The parts of a rendering.
LEMMA RenderingIs ==
    ASSUME NEW r \in Renderings
    PROVE  /\ r = [marks |-> r.marks, set |-> r.set, series |-> r.series]
           /\ r.marks \in MarkSets /\ r.set \in Seq(Cites) /\ r.series \in BOOLEAN
  BY DEF Renderings

\* Some of its fields replaced.
LEMMA SetReplaced ==
    ASSUME NEW r \in Renderings, NEW v, NEW s, s = [r EXCEPT !.set = v]
    PROVE  s = [marks |-> r.marks, set |-> v, series |-> r.series]
  BY DEF Renderings

\* The same for in_series.
LEMMA SeriesReplaced ==
    ASSUME NEW r \in Renderings, NEW w, NEW s, s = [r EXCEPT !.series = w]
    PROVE  s = [marks |-> r.marks, set |-> r.set, series |-> w]
  BY DEF Renderings

\* The same for both.
LEMMA BothReplaced ==
    ASSUME NEW r \in Renderings, NEW v, NEW w, NEW s, s = [r EXCEPT !.set = v, !.series = w]
    PROVE  s = [marks |-> r.marks, set |-> v, series |-> w]
  BY DEF Renderings

\* The set of a record replaced.
LEMMA SetOfReplaced ==
    ASSUME NEW x, NEW y, NEW z, NEW v,
           NEW r, r = [marks |-> x, set |-> y, series |-> z],
           NEW s, s = [r EXCEPT !.set = v]
    PROVE  s = [marks |-> x, set |-> v, series |-> z]
  OBVIOUS

\* A citation begins with no set.
LEMMA StartCitationIs ==
    ASSUME NEW r \in Renderings
    PROVE  StartCitation(r) = [marks |-> r.marks, set |-> <<>>, series |-> TRUE]
  <1> DEFINE s == StartCitation(r)
             v == <<>>
             w == TRUE
  <1>1. s = [r EXCEPT !.set = v, !.series = w]
    BY DEF StartCitation
  <1> HIDE DEF s, v, w
  <1>2. s = [marks |-> r.marks, set |-> v, series |-> w]
    BY <1>1, BothReplaced
  <1>3. QED
    BY <1>2 DEF s, v, w

\* A set is composed: it is marked if it has two cites or more.
LEMMA ComposeSetIs ==
    ASSUME NEW r \in Renderings
    PROVE  ComposeSet(r) = [marks |-> Composed(r),
                            set |-> IF Len(r.set) = 1 /\ r.series THEN r.set ELSE <<>>,
                            series |-> TRUE]
  <1> DEFINE s == ComposeSet(r)
             v == IF r.series THEN r.set ELSE <<>>
             w == TRUE
             e == <<>>
             u == MarkedSet(r.marks, r.set)
  <1>1. CASE Len(r.set) = 1
    <2>1. s = [r EXCEPT !.set = v, !.series = w]
      BY <1>1 DEF ComposeSet
    <2> HIDE DEF s, v, w
    <2>2. s = [marks |-> r.marks, set |-> v, series |-> w]
      BY <2>1, BothReplaced
    <2>3. QED
      BY <1>1, <2>2 DEF s, v, w, Composed
  <1>2. CASE Len(r.set) # 1
    <2>1. s = [r EXCEPT !.marks = u, !.set = e, !.series = w]
      BY <1>2 DEF ComposeSet
    <2> HIDE DEF s, e, w, u
    <2>2. s = [marks |-> u, set |-> e, series |-> w]
      BY <2>1 DEF Renderings
    <2>3. QED
      BY <1>2, <2>2 DEF s, e, w, u, Composed
  <1>3. QED
    BY <1>1, <1>2

\* A cite joins the set, or begins a new one.
LEMMA CloseCiteIs ==
    ASSUME NEW r \in Renderings, NEW c \in Cites
    PROVE  /\ Goes(r, c) \/ Forced(r, c) =>
                 CloseCite(r, c) = [marks |-> r.marks, set |-> Append(r.set, c),
                                    series |-> Goes(r, c)]
           /\ ~Goes(r, c) /\ ~Forced(r, c) =>
                 CloseCite(r, c) = [marks |-> Composed(r), set |-> <<c>>, series |-> TRUE]
  <1> DEFINE w == r.series /\ Matches(r, c)
             s == [r EXCEPT !.series = w]
  <1>1. w = Goes(r, c) /\ w \in BOOLEAN
    BY DEF Goes
  <1>2. s = [marks |-> r.marks, set |-> r.set, series |-> w]
    <2> HIDE DEF w
    <2>1. QED
      BY SeriesReplaced
  <1>3. s \in Renderings /\ s.series = w /\ s.set = r.set /\ s.marks = r.marks
    <2>1. r.marks \in MarkSets /\ r.set \in Seq(Cites) /\ w \in BOOLEAN
      BY <1>1, RenderingIs
    <2> HIDE DEF s, w
    <2>2. QED
      BY <1>2, <2>1 DEF Renderings
  <1>4. CloseCite(r, c) =
           IF s.series \/ r.marks.parallel[c.id] # None
           THEN [s EXCEPT !.set = Append(@, c)]
           ELSE [ComposeSet(s) EXCEPT !.set = Append(@, c)]
    BY DEF CloseCite
  <1> HIDE DEF s, w
  <1>5. CASE Goes(r, c) \/ Forced(r, c)
    <2> DEFINE t == Append(s.set, c)
    <2>1. CloseCite(r, c) = [s EXCEPT !.set = t]
      BY <1>1, <1>3, <1>4, <1>5 DEF Forced
    <2> HIDE DEF t
    <2>2. CloseCite(r, c) = [marks |-> s.marks, set |-> t, series |-> s.series]
      BY <1>3, <2>1, SetReplaced
    <2>3. QED
      BY <1>1, <1>3, <1>5, <2>2 DEF t
  <1>6. CASE ~Goes(r, c) /\ ~Forced(r, c)
    <2>1. ~s.series
      BY <1>1, <1>3, <1>6
    <2> DEFINE d == ComposeSet(s)
               e == <<>>
               t == Append(d.set, c)
    <2>2. d = [marks |-> Composed(s), set |-> e, series |-> TRUE]
      BY <1>3, <2>1, ComposeSetIs
    <2>3. Composed(s) = Composed(r)
      BY <1>3 DEF Composed
    <2> DEFINE f == CloseCite(r, c)
               g == Composed(s)
               y == TRUE
    <2>4. f = [d EXCEPT !.set = t]
      BY <1>4, <1>6, <2>1 DEF Forced
    <2>5. t = <<c>>
      BY <2>2
    <2> HIDE DEF d, t, e, f, g, y
    <2>6. d = [marks |-> g, set |-> e, series |-> y]
      BY <2>2 DEF g, y
    <2>7. f = [marks |-> g, set |-> t, series |-> y]
      BY <2>4, <2>6, SetOfReplaced
    <2>8. QED
      BY <1>6, <2>3, <2>5, <2>7 DEF f, g, y
  <1>7. QED
    BY <1>5, <1>6

\* Composing a set keeps the marks sound.
LEMMA MarkedSetSound ==
    ASSUME ParallelAssumption, NEW doc \in Documents, NEW replaced, NEW m \in MarkSets,
           Sound(m, doc, replaced), NEW set \in Seq(Cites), Whole(set, doc, replaced)
    PROVE  MarkedSet(m, set) \in MarkSets /\ Sound(MarkedSet(m, set), doc, replaced)
  <1> DEFINE X == {n \in MarkSets : Sound(n, doc, replaced)}
             Y == [k \in 0 .. Len(set) |-> X]
  <1>1. MarkedSet(m, set) = FMark!Folded(m, set, set)
    BY DEF MarkedSet, FoldLeft, MapThenFoldSet, Max, FMark!Folded, FMark!Last
  <1>2. DOMAIN set = 1 .. Len(set) /\ Len(set) \in Nat
    OBVIOUS
  <1>3. ASSUME NEW n \in X, NEW k \in 1 .. Len(set)
        PROVE  MarkedCite(n, set[k], set) \in X
    <2> DEFINE c == set[k]
    <2>1. n \in MarkSets /\ Sound(n, doc, replaced) /\ k \in DOMAIN set /\ c \in Cites
      BY <1>2
    <2> HIDE DEF X, c
    <2>2. CASE ~c.first
      BY <2>2 DEF MarkedCite, c
    <2>3. CASE c.first /\ c = set[1]
      <3>1. c.id \in Cited(doc)
        BY <2>1 DEF Whole, c
      <3>2. Sound(MarkMaster(n, c.id), doc, replaced)
        BY <2>1, <3>1, MarkMasterSound
      <3>3. MarkMaster(n, c.id) \in MarkSets
        BY <3>2 DEF Sound, Typed
      <3>4. QED
        BY <2>3, <3>2, <3>3 DEF MarkedCite, X, c
    <2>4. CASE c.first /\ c # set[1]
      <3>1. k > 1
        BY <1>2, <2>4 DEF c
      <3>2. /\ c.id \in Cited(doc) /\ c \in Firsts(doc)
            /\ c.prev \in Item /\ (~replaced => Fits(c))
        BY <2>1, <2>4, <3>1 DEF Whole, c
      <3>3. Sound(MarkSibling(n, c.id, c.prev), doc, replaced)
        BY <2>1, <3>2, MarkSiblingSound
      <3>4. MarkSibling(n, c.id, c.prev) \in MarkSets
        BY <3>3 DEF Sound, Typed
      <3>5. QED
        BY <2>4, <3>3, <3>4 DEF MarkedCite, X, c
    <2>5. QED
      BY <2>2, <2>3, <2>4
  <1>4. m \in Y[0]
    BY <1>2
  <1>5. FMark!Leads(Y, set, Len(set), set)
    <2>1. SUFFICES ASSUME NEW k \in 1 .. Len(set), NEW n \in Y[k - 1]
                   PROVE  MarkedCite(n, set[k], set) \in Y[k]
      BY DEF FMark!Leads
    <2>2. k \in 0 .. Len(set) /\ k - 1 \in 0 .. Len(set)
      BY <1>2
    <2> HIDE DEF X
    <2>3. n \in X
      BY <2>2
    <2>4. QED
      BY <1>3, <2>2, <2>3
  <1>6. FMark!Folded(m, set, set) \in Y[Len(set)]
    <2> HIDE DEF Y
    <2>1. QED
      BY <1>2, <1>4, <1>5, FMark!FoldLeads
  <1>7. QED
    BY <1>1, <1>2, <1>6

\* The marks are sound when the set is composed.
LEMMA ComposedSound ==
    ASSUME ParallelAssumption, NEW doc \in Documents, NEW replaced, NEW r, Good(r, doc, replaced)
    PROVE  Composed(r) \in MarkSets /\ Sound(Composed(r), doc, replaced)
  <1>1. r.marks \in MarkSets /\ r.set \in Seq(Cites)
    BY RenderingIs DEF Good
  <1>2. QED
    BY <1>1, MarkedSetSound DEF Good, Composed

\* The empty set.
LEMMA WholeEmpty ==
    ASSUME NEW doc, NEW replaced
    PROVE  Whole(<<>>, doc, replaced)
  BY DEF Whole

\* The rendering is good when the set is composed.
LEMMA ComposeSetGood ==
    ASSUME ParallelAssumption, NEW doc \in Documents, NEW replaced, NEW r, Good(r, doc, replaced)
    PROVE  /\ Good(ComposeSet(r), doc, replaced)
           /\ ComposeSet(r).set = <<>> \/ ComposeSet(r).set = r.set
  <1> DEFINE s == ComposeSet(r)
             set == IF Len(r.set) = 1 /\ r.series THEN r.set ELSE <<>>
  <1>1. r \in Renderings
    BY DEF Good
  <1>2. s = [marks |-> Composed(r), set |-> set, series |-> TRUE]
    BY <1>1, ComposeSetIs
  <1>3. set = r.set \/ set = <<>>
    OBVIOUS
  <1>4. set \in Seq(Cites) /\ Whole(set, doc, replaced)
    BY <1>1, <1>3, RenderingIs, WholeEmpty DEF Good
  <1> HIDE DEF s, set
  <1>5. Composed(r) \in MarkSets /\ Sound(Composed(r), doc, replaced)
    BY ComposedSound
  <1>6. s \in Renderings /\ s.marks = Composed(r) /\ s.set = set
    BY <1>2, <1>4, <1>5 DEF Renderings
  <1>7. Good(s, doc, replaced)
    BY <1>4, <1>5, <1>6 DEF Good
  <1>8. QED
    BY <1>3, <1>6, <1>7 DEF s

\* A cite closed: it is the last of the set.
LEMMA CloseCiteGood ==
    ASSUME ParallelAssumption, NEW doc \in Documents, NEW replaced, NEW r, Good(r, doc, replaced),
           NEW c \in Cites, c.id \in Cited(doc),
           c.first => c \in Firsts(doc) /\ (r.set # <<>> => c.prev = Last(r.set).id)
    PROVE  /\ Good(CloseCite(r, c), doc, replaced)
           /\ CloseCite(r, c).set # <<>> /\ Last(CloseCite(r, c).set) = c
  <1> DEFINE s == CloseCite(r, c)
  <1>1. r \in Renderings /\ r.marks \in MarkSets /\ r.set \in Seq(Cites)
        /\ Sound(r.marks, doc, replaced) /\ Whole(r.set, doc, replaced)
    BY RenderingIs DEF Good
  <1>2. CASE Goes(r, c) \/ Forced(r, c)
    <2> DEFINE t == Append(r.set, c)
    <2>1. s = [marks |-> r.marks, set |-> t, series |-> Goes(r, c)]
      BY <1>1, <1>2, CloseCiteIs
    <2>2. /\ t \in Seq(Cites) /\ t # <<>> /\ Last(t) = c
          /\ DOMAIN t = 1 .. Len(r.set) + 1 /\ t[Len(r.set) + 1] = c
          /\ \A n \in 1 .. Len(r.set) : t[n] = r.set[n]
      BY <1>1, AppendIn
    <2>3. Goes(r, c) \in BOOLEAN
      BY <1>1, RenderingIs DEF Goes
    <2> HIDE DEF s, t
    <2>4. DOMAIN r.set = 1 .. Len(r.set) /\ Len(r.set) \in Nat
      BY <1>1
    <2>5. ASSUME r.set # <<>>, c.first
          PROVE  c.prev \in Item /\ (~replaced => Fits(c))
      <3> DEFINE l == Last(r.set)
      <3>1. Len(r.set) \in DOMAIN r.set /\ l = r.set[Len(r.set)]
        BY <1>1, <2>5 DEF Last
      <3>2. c.prev = l.id /\ l \in Cites /\ c \in Firsts(doc)
        BY <1>1, <2>4, <2>5, <3>1
      <3>3. c.prev \in Item
        BY <3>2 DEF Cites
      <3>4. ASSUME ~replaced PROVE Fits(c)
        <4>1. CASE Goes(r, c)
          BY <2>5, <3>2, <3>3, <4>1 DEF Goes, Matches, Fits, Alike
        <4>2. CASE Forced(r, c)
          <5>1. c.id \in Parallel(r.marks)
            BY <4>2 DEF Forced, Parallel, Cites
          <5>2. Cased(r.marks, doc)
            BY <1>1, <3>4 DEF Sound
          <5>3. QED
            BY <3>2, <5>1, <5>2 DEF Cased
        <4>3. QED
          BY <1>2, <4>1, <4>2
      <3>5. QED
        BY <3>3, <3>4
    <2>6. Whole(t, doc, replaced)
      <3>1. SUFFICES ASSUME NEW n \in DOMAIN t
                     PROVE  /\ t[n].id \in Cited(doc)
                            /\ t[n].first => t[n] \in Firsts(doc)
                            /\ t[n].first /\ n > 1 =>
                                  t[n].prev \in Item /\ (~replaced => Fits(t[n]))
        BY DEF Whole
      <3>2. CASE n = Len(r.set) + 1
        <4>1. t[n] = c /\ (n > 1 => r.set # <<>>)
          BY <2>2, <2>4, <3>2
        <4>2. QED
          BY <2>5, <4>1
      <3>3. CASE n # Len(r.set) + 1
        <4>1. n \in DOMAIN r.set /\ t[n] = r.set[n]
          BY <2>2, <2>4, <3>3
        <4>2. QED
          BY <1>1, <4>1 DEF Whole
      <3>4. QED
        BY <3>2, <3>3
    <2>7. s \in Renderings /\ s.marks = r.marks /\ s.set = t
      BY <1>1, <2>1, <2>2, <2>3 DEF Renderings
    <2>8. QED
      BY <1>1, <2>2, <2>6, <2>7 DEF Good, s
  <1>3. CASE ~Goes(r, c) /\ ~Forced(r, c)
    <2> DEFINE t == <<c>>
    <2>1. s = [marks |-> Composed(r), set |-> t, series |-> TRUE]
      BY <1>1, <1>3, CloseCiteIs
    <2>2. t \in Seq(Cites) /\ t # <<>> /\ Last(t) = c /\ DOMAIN t = {1} /\ t[1] = c
      BY DEF Last
    <2>3. Composed(r) \in MarkSets /\ Sound(Composed(r), doc, replaced)
      BY ComposedSound
    <2> HIDE DEF s, t
    <2>4. Whole(t, doc, replaced)
      BY <2>2 DEF Whole
    <2>5. s \in Renderings /\ s.marks = Composed(r) /\ s.set = t
      BY <2>1, <2>2, <2>3 DEF Renderings
    <2>6. QED
      BY <2>2, <2>3, <2>4, <2>5 DEF Good, s
  <1>4. QED
    BY <1>2, <1>3

\* A cite rendered: it is the last of the set.
LEMMA getCiteGood ==
    ASSUME ParallelAssumption, NEW doc \in Documents, NEW replaced, NEW r, Good(r, doc, replaced),
           NEW c \in Cites, c.id \in Cited(doc),
           c.first => c \in Firsts(doc) /\ (r.set # <<>> => c.prev = Last(r.set).id)
    PROVE  /\ Good(getCite(r, c), doc, replaced)
           /\ getCite(r, c).set # <<>> /\ Last(getCite(r, c).set) = c
  <1> DEFINE s == StartCite(r, c)
  <1>1. s = r \/ s = ComposeSet(r)
    BY DEF StartCite
  <1>2. Good(s, doc, replaced) /\ (s.set = <<>> \/ s.set = r.set)
    BY <1>1, ComposeSetGood
  <1>3. getCite(r, c) = CloseCite(s, c)
    BY DEF getCite
  <1> HIDE DEF s
  <1>4. c.first => c \in Firsts(doc) /\ (s.set # <<>> => c.prev = Last(s.set).id)
    BY <1>2
  <1>5. QED
    BY <1>2, <1>3, <1>4, CloseCiteGood

-----------------------------------------------------------------------------
(* Citations. *)

RenderStep(s, c, z) == RenderCite(s, c)
FRender == INSTANCE Folding WITH Op <- RenderStep

\* A citation that is being rendered, after k of its cites.
Rendering == [r : Renderings, moved : BOOLEAN]
After(s, doc, q, k, replaced) ==
    /\ s \in Rendering
    /\ Good(s.r, doc, replaced)
    /\ k = 0 => s.r.set = <<>>
    /\ k > 0 => s.r.set # <<>> /\ Last(s.r.set) = CitesOf(doc, q)[k]

\* A rendering is good when a citation begins.
LEMMA StartGood ==
    ASSUME NEW doc, NEW replaced, NEW r \in Renderings, Sound(r.marks, doc, replaced)
    PROVE  Good(StartCitation(r), doc, replaced) /\ StartCitation(r).set = <<>>
  <1> DEFINE s == StartCitation(r)
             e == <<>>
             t == TRUE
  <1>1. s = [marks |-> r.marks, set |-> e, series |-> t]
    BY StartCitationIs
  <1>2. r.marks \in MarkSets /\ e \in Seq(Cites) /\ t \in BOOLEAN /\ Whole(e, doc, replaced)
    BY RenderingIs, WholeEmpty
  <1> HIDE DEF s, e, t
  <1>3. s \in Renderings /\ s.marks = r.marks /\ s.set = e
    BY <1>1, <1>2 DEF Renderings
  <1>4. Good(s, doc, replaced) /\ s.set = e
    BY <1>2, <1>3 DEF Good
  <1>5. QED
    BY <1>4 DEF s, e

\* A cite is rendered.
LEMMA RenderCiteGood ==
    ASSUME ParallelAssumption, NEW doc \in Documents, NEW replaced, NEW q \in DOMAIN doc,
           NEW k \in 1 .. Len(doc[q]), NEW s, After(s, doc, q, k - 1, replaced)
    PROVE  After(RenderCite(s, CitesOf(doc, q)[k]), doc, q, k, replaced)
  <1> DEFINE c == CitesOf(doc, q)[k]
             t == RenderCite(s, c)
  <1>1. k \in DOMAIN doc[q] /\ DOMAIN doc[q] = 1 .. Len(doc[q]) /\ Len(doc[q]) \in Nat
    BY CitesIn
  <1>2. /\ c \in Cites /\ c.id = doc[q][k] /\ doc[q][k] \in Cited(doc)
        /\ c.first => c \in Firsts(doc)
        /\ k > 1 => k - 1 \in DOMAIN doc[q] /\ c.prev = doc[q][k - 1]
    BY <1>1, CitesIn
  <1>3. s.r.set # <<>> => k > 1 /\ Last(s.r.set).id = doc[q][k - 1]
    <2>1. SUFFICES ASSUME s.r.set # <<>> PROVE k > 1 /\ Last(s.r.set).id = doc[q][k - 1]
      OBVIOUS
    <2>2. k - 1 # 0 /\ k > 1
      BY <1>1, <2>1 DEF After
    <2>3. Last(s.r.set) = CitesOf(doc, q)[k - 1] /\ k - 1 \in DOMAIN doc[q]
      BY <1>1, <1>2, <2>2 DEF After
    <2>4. QED
      BY <2>2, <2>3, CitesIn
  <1>4. t = [r |-> getCite(s.r, c), moved |-> t.moved] /\ t.moved \in BOOLEAN
    BY DEF RenderCite, After, Rendering
  <1> HIDE DEF c
  <1>5. /\ Good(getCite(s.r, c), doc, replaced)
        /\ getCite(s.r, c).set # <<>> /\ Last(getCite(s.r, c).set) = c
    BY <1>2, <1>3, getCiteGood DEF After
  <1> HIDE DEF t
  <1>6. t \in Rendering /\ t.r = getCite(s.r, c)
    <2>1. getCite(s.r, c) \in Renderings
      BY <1>5 DEF Good
    <2>2. QED
      BY <1>4, <2>1 DEF Rendering
  <1>7. After(t, doc, q, k, replaced)
    BY <1>1, <1>5, <1>6 DEF After, c
  <1>8. QED
    BY <1>7 DEF t, c

\* A citation is rendered.
LEMMA ClusterGood ==
    ASSUME ParallelAssumption, NEW doc \in Documents, NEW replaced, NEW q \in DOMAIN doc,
           NEW r \in Renderings, Sound(r.marks, doc, replaced)
    PROVE  /\ process_CitationCluster(r, doc, q) \in Rendering
           /\ Good(process_CitationCluster(r, doc, q).r, doc, replaced)
  <1> DEFINE b == [r |-> StartCitation(r), moved |-> FALSE]
             cites == CitesOf(doc, q)
             n == Len(doc[q])
             S == {s \in Rendering : Good(s.r, doc, replaced)}
             Y == [k \in 0 .. n |-> {s \in S : After(s, doc, q, k, replaced)}]
             end == FoldLeft(RenderCite, b, cites)
  <1>1. end = FRender!Folded(b, cites, 0)
    BY DEF RenderStep, FoldLeft, MapThenFoldSet, Max, FRender!Folded, FRender!Last
  <1>2. DOMAIN cites = 1 .. n /\ n \in Nat
    BY CitesIn
  <1>3. b \in Y[0]
    <2>1. Good(b.r, doc, replaced) /\ b.r.set = <<>>
      BY StartGood
    <2>2. b.r \in Renderings /\ b \in Rendering
      BY <2>1 DEF Rendering, Good
    <2> HIDE DEF b
    <2>3. After(b, doc, q, 0, replaced)
      BY <2>1, <2>2 DEF After
    <2>4. 0 \in 0 .. n
      BY <1>2
    <2>5. QED
      BY <2>1, <2>2, <2>3, <2>4
  <1>4. FRender!Leads(Y, cites, n, 0)
    <2>1. SUFFICES ASSUME NEW k \in 1 .. n, NEW s \in Y[k - 1]
                   PROVE  RenderCite(s, cites[k]) \in Y[k]
      BY DEF FRender!Leads, RenderStep
    <2>2. k \in 0 .. n /\ k - 1 \in 0 .. n
      BY <1>2
    <2>3. After(s, doc, q, k - 1, replaced)
      BY <2>2
    <2> DEFINE t == RenderCite(s, cites[k])
    <2>4. After(t, doc, q, k, replaced)
      BY <2>3, RenderCiteGood
    <2> HIDE DEF t, cites, n
    <2>5. t \in S
      BY <2>4 DEF After
    <2>6. QED
      BY <2>2, <2>4, <2>5 DEF t
  <1>5. FRender!Folded(b, cites, 0) \in Y[n]
    <2> HIDE DEF Y, cites, n
    <2>1. QED
      BY <1>2, <1>3, <1>4, FRender!FoldLeads
  <1>6. end \in S
    <2> HIDE DEF S, end
    <2>1. n \in 0 .. n
      BY <1>2
    <2>2. QED
      BY <1>1, <1>5, <2>1
  <1>7. process_CitationCluster(r, doc, q) = [end EXCEPT !.r = ComposeSet(@)]
    BY DEF process_CitationCluster
  <1> HIDE DEF end, b, cites, n, Y
  <1>8. /\ end \in Rendering
        /\ Good(ComposeSet(end.r), doc, replaced)
    BY <1>6, ComposeSetGood
  <1> DEFINE v == ComposeSet(end.r)
             t == process_CitationCluster(r, doc, q)
  <1>9. t = [end EXCEPT !.r = v]
    BY <1>7
  <1>10. v \in Renderings
    BY <1>8 DEF Good
  <1> HIDE DEF v, t
  <1>11. t \in Rendering /\ t.r = v
    BY <1>8, <1>9, <1>10 DEF Rendering
  <1>12. QED
    BY <1>8, <1>11 DEF v, t

-----------------------------------------------------------------------------
(* Calls. *)

\* What a call has while it renders citations.
Work(w, doc, replaced) ==
    /\ w = [r |-> w.r, again |-> w.again]
    /\ Good(w.r, doc, replaced)
    /\ w.again \subseteq DOMAIN doc

\* A citation is rendered within a call.
LEMMA RenderedGood ==
    ASSUME ParallelAssumption, NEW doc \in Documents, NEW replaced, NEW q \in DOMAIN doc,
           NEW w, Work(w, doc, replaced)
    PROVE  Work(Rendered(w, doc, q), doc, replaced)
  <1> DEFINE s == process_CitationCluster(w.r, doc, q)
  <1>1. w.r \in Renderings /\ Sound(w.r.marks, doc, replaced)
    BY DEF Work, Good
  <1>2. Good(s.r, doc, replaced)
    BY <1>1, ClusterGood
  <1>3. Rendered(w, doc, q) = [r |-> s.r, again |-> IF s.moved THEN w.again \cup {q} ELSE w.again]
    BY DEF Rendered
  <1> HIDE DEF s
  <1>4. QED
    BY <1>2, <1>3 DEF Work

TaintedStep(w, p, z) == IF p \in z.places THEN Rendered(w, z.doc, p) ELSE w
FTainted == INSTANCE Folding WITH Op <- TaintedStep

Tainted(w, doc, places, list) ==
    FoldLeft(LAMBDA x, p : IF p \in places THEN Rendered(x, doc, p) ELSE x, w, Places(list))

\* The tainted citations are rendered.
LEMMA TaintedGood ==
    ASSUME ParallelAssumption, NEW doc \in Documents, NEW replaced,
           NEW list \in Documents, NEW places, places \cap DOMAIN list \subseteq DOMAIN doc,
           NEW w, Work(w, doc, replaced)
    PROVE  Work(Tainted(w, doc, places, list), doc, replaced)
  <1> DEFINE n == Len(list)
             X == {x \in {[r |-> u, again |-> a] : u \in Renderings, a \in SUBSET DOMAIN doc} :
                      Work(x, doc, replaced)}
             Y == [k \in 0 .. n |-> X]
             z == [places |-> places, doc |-> doc]
             s == Places(list)
  <1>1. Tainted(w, doc, places, list) = FTainted!Folded(w, s, z)
    BY DEF Tainted, TaintedStep, FoldLeft, MapThenFoldSet, Max, FTainted!Folded, FTainted!Last
  <1>2. DOMAIN s = 1 .. n /\ n \in Nat /\ DOMAIN list = 1 .. n /\ \A k \in 1 .. n : s[k] = k
    BY DEF Documents, Places
  <1>3. ASSUME NEW x
        PROVE  x \in X <=> Work(x, doc, replaced)
    BY DEF Work, Good
  <1> HIDE DEF X
  <1>4. w \in Y[0]
    BY <1>2, <1>3
  <1>5. FTainted!Leads(Y, s, n, z)
    <2>1. SUFFICES ASSUME NEW k \in 1 .. n, NEW x \in Y[k - 1]
                   PROVE  TaintedStep(x, s[k], z) \in Y[k]
      BY DEF FTainted!Leads
    <2>2. k \in 0 .. n /\ k - 1 \in 0 .. n
      BY <1>2
    <2>3. Work(x, doc, replaced)
      BY <1>3, <2>2
    <2>4. TaintedStep(x, s[k], z) = IF k \in places THEN Rendered(x, doc, k) ELSE x
      BY <1>2 DEF TaintedStep
    <2>5. k \in places => k \in DOMAIN doc
      BY <1>2
    <2>6. Work(TaintedStep(x, s[k], z), doc, replaced)
      BY <2>3, <2>4, <2>5, RenderedGood
    <2>7. QED
      BY <1>3, <2>2, <2>6
  <1>6. FTainted!Folded(w, s, z) \in Y[n]
    <2> HIDE DEF Y, s, n, z
    <2>1. QED
      BY <1>2, <1>4, <1>5, FTainted!FoldLeads
  <1>7. n \in 0 .. n
    BY <1>2
  <1>8. QED
    BY <1>1, <1>3, <1>6, <1>7

-----------------------------------------------------------------------------
(* The marks that are left. *)

\* Of an item that is still cited, and keeps its first cite.
Carried(doc, more) == \A c \in Firsts(more) : c.id \in Cited(doc) => c \in Firsts(doc)

\* Forget: the marks it leaves.
LEMMA ForgetIs ==
    ASSUME NEW doc \in Documents, NEW m, Typed(m, doc), NEW items
    PROVE  /\ Forget(m, items).master = m.master \ items
           /\ Forget(m, items).arrays = Released(m.arrays, items)
           /\ Parallel(Forget(m, items)) = Parallel(m) \ items
           /\ Forget(m, items) \in MarkSets
  <1> DEFINE n == Forget(m, items)
             par == [i \in Item |-> IF i \in items THEN None ELSE m.parallel[i]]
  <1>1. n = [master |-> m.master \ items, parallel |-> par, arrays |-> Released(m.arrays, items)]
    BY DEF Forget
  <1>2. /\ m.master \in SUBSET Item /\ m.parallel \in [Item -> Item \cup {None}]
        /\ m.arrays \in SUBSET Arrays
    BY TypedIs
  <1>3. par \in [Item -> Item \cup {None}]
    BY <1>2
  <1>4. Released(m.arrays, items) \in SUBSET Arrays
    BY <1>2, ReleasedIn
  <1>5. \A i \in Item : par[i] # None <=> i \notin items /\ m.parallel[i] # None
    OBVIOUS
  <1> HIDE DEF n, par
  <1>6. n.parallel = par
    BY <1>1
  <1>7. Parallel(n) = Parallel(m) \ items
    BY <1>5, <1>6 DEF Parallel
  <1>8. n \in MarkSets
    BY <1>1, <1>2, <1>3, <1>4 DEF MarkSets
  <1>9. QED
    BY <1>1, <1>7, <1>8 DEF n

\* Where an array that is left is from.
LEMMA ReleasedFrom ==
    ASSUME NEW arrays \in SUBSET Arrays, NEW items, NEW b \in Released(arrays, items)
    PROVE  b.holders # {} /\ \E a \in arrays : b = Less(a, items)
  BY ReleasedIs

\* The marks that are left are sound for the new document.
LEMMA ForgetSound ==
    ASSUME ParallelAssumption, NEW doc \in Documents, NEW replaced, NEW m,
           Sound(m, doc, replaced), NEW more \in Documents, NEW again,
           ~again => ~replaced /\ Carried(doc, more)
    PROVE  /\ Forget(m, Item \ Cited(more)) \in MarkSets
           /\ Sound(Forget(m, Item \ Cited(more)), more, again)
  <1> DEFINE items == Item \ Cited(more)
             n == Forget(m, items)
  <1>1. Typed(m, doc)
    BY DEF Sound
  <1>2. /\ n.master = m.master \ items /\ n.arrays = Released(m.arrays, items)
        /\ Parallel(n) = Parallel(m) \ items /\ n \in MarkSets
    BY <1>1, ForgetIs
  <1>3. /\ m.master \in SUBSET Item /\ m.arrays \in SUBSET Arrays /\ Apart(m.arrays)
        /\ \A i \in m.master : ArraysOf(m, i) # {}
    BY <1>1, TypedIs
  <1>4. \A i \in Item : i \notin items <=> i \in Cited(more)
    OBVIOUS
  <1> HIDE DEF n, items
  <1>5. ASSUME NEW b \in n.arrays
        PROVE  \E a \in m.arrays : b.holders = a.holders \ items /\ b.list = a.list
    <2>1. b \in Released(m.arrays, items) /\ m.arrays \in SUBSET Arrays
      BY <1>2, <1>3
    <2>2. \E a \in m.arrays : b = Less(a, items)
      BY <2>1, ReleasedFrom
    <2>3. QED
      BY <2>2, LessIs
  <1>6. Typed(n, more)
    <2>1. n.master \subseteq Cited(more)
      BY <1>2, <1>3, <1>4
    <2>2. \A b \in n.arrays : b.holders \subseteq Cited(more)
      <3>1. TAKE b \in n.arrays
      <3>2. PICK a \in m.arrays : b.holders = a.holders \ items
        BY <1>5
      <3>3. a.holders \subseteq Item
        BY <1>3 DEF Arrays
      <3>4. QED
        BY <1>4, <3>2, <3>3
    <2>3. Apart(n.arrays)
      BY <1>2, <1>3, ReleasedApart
    <2>4. \A i \in n.master : ArraysOf(n, i) # {}
      <3>1. TAKE i \in n.master
      <3>2. i \in m.master /\ i \notin items
        BY <1>2
      <3>3. PICK a \in m.arrays : i \in a.holders
        BY <1>3, <3>2, ArraysOfIn
      <3>4. i \in Less(a, items).holders
        BY <3>2, <3>3, LessIs
      <3>5. Less(a, items) \in n.arrays
        BY <1>2, <1>3, <3>4, ReleasedIs
      <3>6. QED
        BY <3>4, <3>5, ArraysOfIn
    <2>5. QED
      BY <1>2, <2>1, <2>2, <2>3, <2>4 DEF Typed
  <1>7. ASSUME ~again PROVE Cased(n, more)
    <2>1. Cased(m, doc) /\ Carried(doc, more)
      BY <1>7 DEF Sound
    <2>2. \A b \in n.arrays : OneCase(b.holders \cup ToSet(b.list))
      <3>1. TAKE b \in n.arrays
      <3>2. PICK a \in m.arrays : b.holders = a.holders \ items /\ b.list = a.list
        BY <1>5
      <3>3. OneCase(a.holders \cup ToSet(a.list))
        BY <2>1 DEF Cased
      <3>4. QED
        BY <3>2, <3>3 DEF OneCase
    <2>3. ASSUME NEW i \in Parallel(n)
          PROVE  /\ i \in Cited(more) /\ Case[i] # None
                 /\ \A c \in Firsts(more) : c.id = i => Fits(c)
      <3>1. i \in Parallel(m) /\ i \notin items /\ i \in Item
        BY <1>2 DEF Parallel
      <3>2. i \in Cited(doc) /\ Case[i] # None /\ \A c \in Firsts(doc) : c.id = i => Fits(c)
        BY <2>1, <3>1 DEF Cased
      <3>3. \A c \in Firsts(more) : c.id = i => c \in Firsts(doc)
        BY <2>1, <3>2 DEF Carried
      <3>4. QED
        BY <1>4, <3>1, <3>2, <3>3
    <2>4. QED
      BY <2>2, <2>3 DEF Cased
  <1>8. Sound(n, more, again)
    BY <1>6, <1>7 DEF Sound
  <1>9. QED
    BY <1>2, <1>8 DEF n, items

-----------------------------------------------------------------------------
(* Registered items in order. *)

AddStep(list, i, z) == AddTo(list, i)
FAdd == INSTANCE Folding WITH Op <- AddStep
AddAllStep(list, items, z) == AddAll(list, items)
FAddAll == INSTANCE Folding WITH Op <- AddAllStep

\* Adding an item keeps the members distinct.
LEMMA AddToIn ==
    ASSUME NEW A, NEW list \in Seq(A), IsInjective(list), NEW i \in A
    PROVE  AddTo(list, i) \in Seq(A) /\ IsInjective(AddTo(list, i))
  <1>1. CASE Contains(list, i)
    BY <1>1 DEF AddTo
  <1>2. CASE ~Contains(list, i)
    <2> DEFINE t == Append(list, i)
    <2>1. AddTo(list, i) = t
      BY <1>2 DEF AddTo
    <2>2. i \notin ToSet(list)
      BY <1>2, ContainsIn
    <2>3. /\ t \in Seq(A) /\ DOMAIN t = 1 .. Len(list) + 1
          /\ \A k \in 1 .. Len(list) : t[k] = list[k]
          /\ t[Len(list) + 1] = i
      BY AppendIn
    <2>4. DOMAIN list = 1 .. Len(list) /\ Len(list) \in Nat
          /\ \A k \in DOMAIN list : list[k] # i
      BY <2>2, ToSetSeq
    <2> HIDE DEF t
    <2>5. ASSUME NEW j \in DOMAIN t, NEW k \in DOMAIN t, t[j] = t[k]
          PROVE  j = k
      <3>1. \A l \in DOMAIN t : l = Len(list) + 1 \/ l \in DOMAIN list
        BY <2>3, <2>4
      <3>2. \A l \in DOMAIN list : t[l] = list[l] /\ t[l] # i
        BY <2>3, <2>4
      <3>3. QED
        BY <2>3, <2>5, <3>1, <3>2 DEF IsInjective
    <2>6. QED
      BY <2>1, <2>3, <2>5 DEF IsInjective
  <1>3. QED
    BY <1>1, <1>2

\* Adding items keeps the members distinct.
LEMMA AddAllIn ==
    ASSUME NEW A, NEW list \in Seq(A), IsInjective(list), NEW items \in Seq(A)
    PROVE  AddAll(list, items) \in Seq(A) /\ IsInjective(AddAll(list, items))
  <1> DEFINE X == {l \in Seq(A) : IsInjective(l)}
             n == Len(items)
             Y == [k \in 0 .. n |-> X]
  <1>1. AddAll(list, items) = FAdd!Folded(list, items, 0)
    BY DEF AddAll, AddStep, FoldLeft, MapThenFoldSet, Max, FAdd!Folded, FAdd!Last
  <1>2. DOMAIN items = 1 .. n /\ n \in Nat /\ \A k \in 1 .. n : items[k] \in A
    OBVIOUS
  <1>3. ASSUME NEW l \in X, NEW k \in 1 .. n
        PROVE  AddTo(l, items[k]) \in X
    BY <1>2, AddToIn
  <1>4. list \in Y[0]
    BY <1>2
  <1>5. FAdd!Leads(Y, items, n, 0)
    <2>1. SUFFICES ASSUME NEW k \in 1 .. n, NEW l \in Y[k - 1]
                   PROVE  AddTo(l, items[k]) \in Y[k]
      BY DEF FAdd!Leads, AddStep
    <2>2. k \in 0 .. n /\ k - 1 \in 0 .. n
      BY <1>2
    <2> HIDE DEF X
    <2>3. QED
      BY <1>3, <2>2
  <1>6. FAdd!Folded(list, items, 0) \in Y[n]
    <2> HIDE DEF Y, n
    <2>1. QED
      BY <1>2, <1>4, <1>5, FAdd!FoldLeads
  <1>7. n \in 0 .. n
    BY <1>2
  <1>8. QED
    BY <1>1, <1>6, <1>7

\* The reflist of a document.
RefsOf(doc) == FoldLeft(AddAll, <<>>, doc)

\* reflist has registered items, each once.
LEMMA RefsIn ==
    ASSUME NEW doc \in Documents
    PROVE  RefsOf(doc) \in Seq(Cited(doc)) /\ IsInjective(RefsOf(doc))
  <1> DEFINE A == Cited(doc)
             X == {l \in Seq(A) : IsInjective(l)}
             n == Len(doc)
             Y == [k \in 0 .. n |-> X]
             e == <<>>
  <1>1. RefsOf(doc) = FAddAll!Folded(e, doc, 0)
    BY DEF RefsOf, AddAllStep, FoldLeft, MapThenFoldSet, Max, FAddAll!Folded, FAddAll!Last
  <1>2. DOMAIN doc = 1 .. n /\ n \in Nat
    BY DEF Documents
  <1>3. \A k \in 1 .. n : doc[k] \in Seq(A)
    <2>1. TAKE k \in 1 .. n
    <2>2. doc[k] \in Seq(Item) /\ ToSet(doc[k]) \subseteq A
      BY <1>2 DEF Documents, Cited
    <2>3. \A j \in 1 .. Len(doc[k]) : doc[k][j] \in A
      BY <2>2, ToSetSeq
    <2> HIDE DEF A
    <2>4. QED
      BY <2>2, <2>3
  <1> HIDE DEF A
  <1>4. ASSUME NEW l \in X, NEW k \in 1 .. n
        PROVE  AddAll(l, doc[k]) \in X
    BY <1>3, AddAllIn
  <1>5. e \in Y[0]
    BY <1>2 DEF IsInjective
  <1>6. FAddAll!Leads(Y, doc, n, 0)
    <2>1. SUFFICES ASSUME NEW k \in 1 .. n, NEW l \in Y[k - 1]
                   PROVE  AddAll(l, doc[k]) \in Y[k]
      BY DEF FAddAll!Leads, AddAllStep
    <2>2. k \in 0 .. n /\ k - 1 \in 0 .. n
      BY <1>2
    <2> HIDE DEF X
    <2>3. QED
      BY <1>4, <2>2
  <1>7. FAddAll!Folded(e, doc, 0) \in Y[n]
    <2> HIDE DEF Y, n, e
    <2>1. QED
      BY <1>2, <1>5, <1>6, FAddAll!FoldLeads
  <1>8. n \in 0 .. n
    BY <1>2
  <1>9. QED
    BY <1>1, <1>7, <1>8 DEF A

-----------------------------------------------------------------------------
(* Bibliographies. *)

GetStep(r, c, z) == getCite(r, c)
FGet == INSTANCE Folding WITH Op <- GetStep

Bibs == [r : Renderings, entries : Seq(Seq(Item)), skips : SUBSET Item, threw : BOOLEAN]

\* Entries that report one case each.
EntryCases(entries) == \A n \in DOMAIN entries : OneCase(ToSet(entries[n]))
BibGood(b, doc, replaced) ==
    /\ b \in Bibs
    /\ Good(b.r, doc, replaced)
    /\ ~replaced => EntryCases(b.entries)

\* The cites of entries.
LEMMA EntryIn ==
    ASSUME NEW i \in Item
    PROVE  Entry(i) \in Cites /\ Entry(i).id = i /\ ~Entry(i).first
  BY DEF Entry, Cites

\* The parts of a bibliography in progress.
LEMMA BibIs ==
    ASSUME NEW b \in Bibs
    PROVE  /\ b.r \in Renderings /\ b.entries \in Seq(Seq(Item)) /\ b.skips \in SUBSET Item
           /\ b.threw \in BOOLEAN
  BY DEF Bibs

\* One more entry, of one case.
LEMMA EntryAdded ==
    ASSUME NEW entries \in Seq(Seq(Item)), NEW items \in Seq(Item)
    PROVE  /\ Append(entries, items) \in Seq(Seq(Item))
           /\ EntryCases(entries) /\ OneCase(ToSet(items)) => EntryCases(Append(entries, items))
  <1> DEFINE t == Append(entries, items)
             S == Seq(Item)
  <1>1. /\ t \in Seq(S) /\ DOMAIN t = 1 .. Len(entries) + 1
        /\ \A k \in 1 .. Len(entries) : t[k] = entries[k]
        /\ t[Len(entries) + 1] = items
    <2> HIDE DEF S, t
    <2>1. items \in S /\ entries \in Seq(S)
      BY DEF S
    <2>2. QED
      BY <2>1, AppendIn DEF t
  <1>2. DOMAIN entries = 1 .. Len(entries) /\ Len(entries) \in Nat
    OBVIOUS
  <1> HIDE DEF t
  <1>3. ASSUME NEW n \in DOMAIN t
        PROVE  \/ n \in DOMAIN entries /\ t[n] = entries[n]
               \/ t[n] = items
    BY <1>1, <1>2
  <1>4. QED
    BY <1>1, <1>3 DEF EntryCases, t

\* An entry for an item alone.
LEMMA SoleEntryGood ==
    ASSUME ParallelAssumption, NEW doc \in Documents, NEW replaced, NEW b,
           BibGood(b, doc, replaced), NEW i \in Cited(doc)
    PROVE  BibGood(SoleEntry(b, i), doc, replaced)
  <1> DEFINE u == getCite(b.r, Entry(i))
             l == <<i>>
             v == Append(b.entries, l)
             t == SoleEntry(b, i)
  <1>1. b \in Bibs /\ i \in Item
    BY CitedIn DEF BibGood
  <1>2. Good(u, doc, replaced)
    BY <1>1, EntryIn, getCiteGood DEF BibGood
  <1>3. l \in Seq(Item) /\ OneCase(ToSet(l))
    BY <1>1 DEF OneCase, ToSet
  <1>4. t = [b EXCEPT !.r = u, !.entries = v]
    BY DEF SoleEntry
  <1> HIDE DEF u, l, t
  <1>5. v \in Seq(Seq(Item)) /\ (EntryCases(b.entries) => EntryCases(v))
    BY <1>1, <1>3, BibIs, EntryAdded
  <1> HIDE DEF v
  <1>6. u \in Renderings
    BY <1>2 DEF Good
  <1>7. t \in Bibs /\ t.r = u /\ t.entries = v
    BY <1>1, <1>4, <1>5, <1>6 DEF Bibs
  <1>8. QED
    BY <1>2, <1>5, <1>7 DEF BibGood, t

\* The siblings of an item are the list of an array it holds.
LEMMA SiblingsAre ==
    ASSUME NEW m, NEW i, ArraysOf(m, i) # {}
    PROVE  \E a \in m.arrays : i \in a.holders /\ SiblingsOf(m, i) = a.list
  <1>1. (CHOOSE a \in ArraysOf(m, i) : TRUE) \in ArraysOf(m, i)
    OBVIOUS
  <1>2. QED
    BY <1>1, ArraysOfIn DEF SiblingsOf

\* A list with one more member in front.
LEMMA OneBefore ==
    ASSUME NEW A, NEW i \in A, NEW list \in Seq(A)
    PROVE  /\ <<i>> \o list \in Seq(A)
           /\ ToSet(<<i>> \o list) = {i} \cup ToSet(list)
  <1> DEFINE t == <<i>> \o list
             n == Len(list)
  <1>1. /\ t \in Seq(A) /\ Len(t) = n + 1 /\ t[1] = i
        /\ \A k \in 1 .. n : t[k + 1] = list[k]
        /\ DOMAIN list = 1 .. n /\ n \in Nat
    OBVIOUS
  <1> HIDE DEF t, n
  <1>2. DOMAIN t = 1 .. n + 1
    BY <1>1
  <1>3. ASSUME NEW x \in ToSet(t) PROVE x \in {i} \cup ToSet(list)
    <2>1. PICK k \in 1 .. n + 1 : t[k] = x
      BY <1>2 DEF ToSet
    <2>2. CASE k = 1
      BY <1>1, <2>1, <2>2
    <2>3. CASE k # 1
      <3>1. k - 1 \in 1 .. n /\ (k - 1) + 1 = k
        BY <1>1, <2>3
      <3>2. x = list[k - 1]
        BY <1>1, <2>1, <3>1
      <3>3. QED
        BY <1>1, <3>1, <3>2 DEF ToSet
    <2>4. QED
      BY <2>2, <2>3
  <1>4. ASSUME NEW x \in ToSet(list) PROVE x \in ToSet(t)
    <2>1. PICK k \in 1 .. n : list[k] = x
      BY <1>1 DEF ToSet
    <2>2. k + 1 \in 1 .. n + 1 /\ t[k + 1] = x
      BY <1>1, <2>1
    <2>3. QED
      BY <1>2, <2>2 DEF ToSet
  <1>5. i \in ToSet(t)
    <2>1. 1 \in 1 .. n + 1
      BY <1>1
    <2>2. QED
      BY <1>1, <1>2, <2>1 DEF ToSet
  <1>6. QED
    BY <1>1, <1>3, <1>4, <1>5 DEF t

\* The cites of an entry.
EntryCites(items) == [k \in DOMAIN items |-> Entry(items[k])]

\* The cites of an entry are rendered.
LEMMA EntryRendered ==
    ASSUME ParallelAssumption, NEW doc \in Documents, NEW replaced, NEW r,
           Good(r, doc, replaced), NEW items \in Seq(Cited(doc))
    PROVE  Good(FoldLeft(getCite, r, EntryCites(items)), doc, replaced)
  <1> DEFINE X == {x \in Renderings : Good(x, doc, replaced)}
             n == Len(items)
             Y == [k \in 0 .. n |-> X]
             s == EntryCites(items)
  <1>1. FoldLeft(getCite, r, s) = FGet!Folded(r, s, 0)
    BY DEF GetStep, FoldLeft, MapThenFoldSet, Max, FGet!Folded, FGet!Last
  <1>2. /\ DOMAIN s = 1 .. n /\ n \in Nat
        /\ \A k \in 1 .. n : s[k] = Entry(items[k]) /\ items[k] \in Cited(doc)
    BY DEF EntryCites
  <1> HIDE DEF s, n
  <1>3. ASSUME NEW x \in X, NEW k \in 1 .. n
        PROVE  getCite(x, s[k]) \in X
    <2>1. items[k] \in Cited(doc) /\ items[k] \in Item /\ s[k] = Entry(items[k])
      BY <1>2, CitedIn
    <2>2. s[k] \in Cites /\ s[k].id \in Cited(doc) /\ ~s[k].first
      BY <2>1, EntryIn
    <2>3. Good(x, doc, replaced)
      OBVIOUS
    <2>4. Good(getCite(x, s[k]), doc, replaced)
      BY <2>2, <2>3, getCiteGood
    <2>5. QED
      BY <2>4 DEF Good
  <1>4. r \in Y[0]
    BY <1>2 DEF Good
  <1>5. FGet!Leads(Y, s, n, 0)
    <2>1. SUFFICES ASSUME NEW k \in 1 .. n, NEW x \in Y[k - 1]
                   PROVE  getCite(x, s[k]) \in Y[k]
      BY DEF FGet!Leads, GetStep
    <2>2. k \in 0 .. n /\ k - 1 \in 0 .. n
      BY <1>2
    <2> HIDE DEF X
    <2>3. QED
      BY <1>3, <2>2
  <1>6. FGet!Folded(r, s, 0) \in Y[n]
    <2> HIDE DEF Y
    <2>1. QED
      BY <1>2, <1>4, <1>5, FGet!FoldLeads
  <1>7. n \in 0 .. n
    BY <1>2
  <1>8. QED
    BY <1>1, <1>6, <1>7 DEF s

\* An entry for a master and its siblings.
LEMMA MasterEntryGood ==
    ASSUME ParallelAssumption, document \in Documents, NEW b,
           BibGood(b, document, rewritten), NEW i \in b.r.marks.master
    PROVE  BibGood(MasterEntry(b, i), document, rewritten)
  <1> DEFINE siblings == SiblingsOf(b.r.marks, i)
             items == <<i>> \o siblings
             cites == EntryCites(items)
             rendered == FoldLeft(getCite, StartCitation(b.r), cites)
             t == MasterEntry(b, i)
  <1>1. b \in Bibs /\ Good(b.r, document, rewritten) /\ Sound(b.r.marks, document, rewritten)
        /\ b.r \in Renderings
    BY DEF BibGood, Good
  <1>2. Typed(b.r.marks, document)
    BY <1>1 DEF Sound
  <1>3. i \in Cited(document) /\ i \in Item /\ ArraysOf(b.r.marks, i) # {}
    BY <1>2, TypedIs
  <1>4. PICK a \in b.r.marks.arrays : i \in a.holders /\ siblings = a.list
    BY <1>3, SiblingsAre
  <1>5. siblings \in Seq(Item)
    BY <1>2, <1>4, TypedIs DEF Arrays
  <1> HIDE DEF siblings
  <1>6. items \in Seq(Item) /\ ToSet(items) = {i} \cup ToSet(siblings)
    BY <1>3, <1>5, OneBefore
  <1>7. ~rewritten => OneCase(ToSet(items))
    <2>1. SUFFICES ASSUME ~rewritten PROVE OneCase(ToSet(items))
      OBVIOUS
    <2>2. OneCase(a.holders \cup ToSet(a.list))
      BY <1>1, <1>4, <2>1 DEF Sound, Cased
    <2>3. QED
      BY <1>4, <1>6, <2>2 DEF OneCase
  <1>8. CASE ToSet(siblings) \subseteq Registered
    <2> DEFINE u == ComposeSet(rendered)
               v == Append(b.entries, items)
               w == b.skips \cup ToSet(items)
    <2>1. t = [b EXCEPT !.r = u, !.entries = v, !.skips = w]
      BY <1>8 DEF MasterEntry, siblings, EntryCites
    <2>2. items \in Seq(Cited(document))
      <3>1. \A k \in 1 .. Len(siblings) : siblings[k] \in Cited(document)
        BY <1>5, <1>8, ToSetSeq DEF Registered
      <3>2. siblings \in Seq(Cited(document))
        BY <1>5, <3>1
      <3>3. QED
        BY <1>3, <3>2, OneBefore
    <2>3. Good(StartCitation(b.r), document, rewritten)
      BY <1>1, StartGood
    <2> HIDE DEF items
    <2>4. Good(rendered, document, rewritten)
      BY <2>2, <2>3, EntryRendered
    <2> HIDE DEF rendered
    <2>5. Good(u, document, rewritten)
      BY <2>4, ComposeSetGood
    <2>6. v \in Seq(Seq(Item)) /\ (~rewritten => EntryCases(v))
      BY <1>1, <1>6, <1>7, BibIs, EntryAdded DEF BibGood
    <2>7. w \in SUBSET Item
      BY <1>1, <1>3, <1>5, <1>6, BibIs, ToSetSeq
    <2> HIDE DEF u, v, w, t
    <2>8. u \in Renderings
      BY <2>5 DEF Good
    <2>9. t \in Bibs /\ t.r = u /\ t.entries = v
      BY <1>1, <2>1, <2>6, <2>7, <2>8 DEF Bibs
    <2>10. QED
      BY <2>5, <2>6, <2>9 DEF BibGood, t
  <1>9. CASE ~(ToSet(siblings) \subseteq Registered)
    <2> DEFINE x == TRUE
    <2>1. t = [b EXCEPT !.threw = x] /\ x \in BOOLEAN
      BY <1>9 DEF MasterEntry, siblings
    <2> HIDE DEF t, x
    <2>2. t \in Bibs /\ t.r = b.r /\ t.entries = b.entries
      BY <1>1, <2>1 DEF Bibs
    <2>3. QED
      BY <1>1, <2>2 DEF BibGood, t
  <1>10. QED
    BY <1>8, <1>9

\* An item has its turn in makeBibliography.
LEMMA BibEntryGood ==
    ASSUME ParallelAssumption, document \in Documents, NEW b,
           BibGood(b, document, rewritten), NEW i \in Cited(document), NEW selector
    PROVE  BibGood(BibEntry(b, i, selector), document, rewritten)
  <1> DEFINE e == <<>>
             v == Append(b.entries, e)
             t == [b EXCEPT !.entries = v]
  <1>1. BibGood(t, document, rewritten)
    <2>1. b \in Bibs
      BY DEF BibGood
    <2>2. e \in Seq(Item) /\ OneCase(ToSet(e))
      BY DEF OneCase, ToSet
    <2> HIDE DEF e
    <2>3. v \in Seq(Seq(Item)) /\ (EntryCases(b.entries) => EntryCases(v))
      BY <2>1, <2>2, BibIs, EntryAdded
    <2> HIDE DEF v
    <2>4. t \in Bibs /\ t.r = b.r /\ t.entries = v
      BY <2>1, <2>3 DEF Bibs
    <2>5. QED
      BY <2>3, <2>4 DEF BibGood
  <1>2. i \in b.r.marks.master => BibGood(MasterEntry(b, i), document, rewritten)
    BY MasterEntryGood
  <1>3. BibGood(SoleEntry(b, i), document, rewritten)
    BY SoleEntryGood
  <1>4. \/ BibEntry(b, i, selector) = b
        \/ i \in b.r.marks.master /\ BibEntry(b, i, selector) = MasterEntry(b, i)
        \/ BibEntry(b, i, selector) = SoleEntry(b, i)
        \/ BibEntry(b, i, selector) = t
    BY DEF BibEntry
  <1>5. QED
    BY <1>1, <1>2, <1>3, <1>4

BibStep(b, i, z) == BibEntry(b, i, z)
FBib == INSTANCE Folding WITH Op <- BibStep

\* What is rendered goes on from here.
Going == [marks |-> marks, set |-> run.set, series |-> run.series]
Opened == [r |-> Going, entries |-> <<>>, skips |-> {}, threw |-> FALSE]

IInv ==
    /\ document \in Documents
    /\ moved \subseteq DOMAIN document
    /\ run = [set |-> run.set, series |-> run.series]
    /\ Good(Going, document, rewritten)
    /\ bib.outcome \in {"none", "returned", "threw"}
    /\ bib.entries \in Seq(Seq(Item))
    /\ ~rewritten => EntryCases(bib.entries)

\* The loop over reflist.
LEMMA BibliographyGood ==
    ASSUME ParallelAssumption, IInv, NEW selector
    PROVE  BibGood(getBibliographyEntries(selector), document, rewritten)
  <1> DEFINE X == {b \in Bibs : BibGood(b, document, rewritten)}
             s == RefsOf(document)
             n == Len(s)
             Y == [k \in 0 .. n |-> X]
             o == Opened
  <1>1. getBibliographyEntries(selector) = FBib!Folded(o, s, selector)
    BY DEF getBibliographyEntries, Opened, Going, RefsOf, reflist, BibStep,
           FoldLeft, MapThenFoldSet, Max, FBib!Folded, FBib!Last
  <1>2. s \in Seq(Cited(document))
    BY RefsIn DEF IInv
  <1> HIDE DEF s
  <1>3. DOMAIN s = 1 .. n /\ n \in Nat /\ \A k \in 1 .. n : s[k] \in Cited(document)
    BY <1>2
  <1>4. BibGood(o, document, rewritten)
    <2>1. Good(Going, document, rewritten) /\ Going \in Renderings
      BY DEF IInv, Good
    <2> DEFINE e == <<>>
               f == {}
    <2>2. e \in Seq(Seq(Item)) /\ EntryCases(e) /\ f \in SUBSET Item
      BY DEF EntryCases
    <2>3. o = [r |-> Going, entries |-> e, skips |-> f, threw |-> FALSE]
      BY DEF Opened
    <2> HIDE DEF e, f, o
    <2>4. o \in Bibs /\ o.r = Going /\ o.entries = e
      BY <2>1, <2>2, <2>3 DEF Bibs
    <2>5. QED
      BY <2>1, <2>2, <2>4 DEF BibGood
  <1> HIDE DEF o, n
  <1>5. ASSUME NEW b \in X, NEW k \in 1 .. n
        PROVE  BibEntry(b, s[k], selector) \in X
    <2>1. BibGood(BibEntry(b, s[k], selector), document, rewritten)
      BY <1>3, BibEntryGood DEF IInv
    <2>2. QED
      BY <2>1 DEF BibGood
  <1>6. o \in Y[0]
    BY <1>3, <1>4 DEF BibGood
  <1>7. FBib!Leads(Y, s, n, selector)
    <2>1. SUFFICES ASSUME NEW k \in 1 .. n, NEW b \in Y[k - 1]
                   PROVE  BibEntry(b, s[k], selector) \in Y[k]
      BY DEF FBib!Leads, BibStep
    <2>2. k \in 0 .. n /\ k - 1 \in 0 .. n
      BY <1>3
    <2> HIDE DEF X
    <2>3. QED
      BY <1>5, <2>2
  <1>8. FBib!Folded(o, s, selector) \in Y[n]
    <2> HIDE DEF Y
    <2>1. QED
      BY <1>3, <1>6, <1>7, FBib!FoldLeads
  <1>9. n \in 0 .. n
    BY <1>3
  <1>10. QED
    BY <1>1, <1>8, <1>9

-----------------------------------------------------------------------------
(* The system. *)

\* The initial state.
LEMMA InitGood ==
    ASSUME ParallelAssumption, Init
    PROVE  IInv
  <1>1. document \in Documents /\ moved \subseteq DOMAIN document
    BY DEF Init, Documents
  <1>2. NoMarks \in MarkSets
    BY DEF NoMarks, MarkSets
  <1>3. Sound(NoMarks, document, rewritten)
    <2>1. NoMarks.master = {} /\ NoMarks.arrays = {} /\ Parallel(NoMarks) = {}
      BY DEF NoMarks, Parallel
    <2>2. Typed(NoMarks, document)
      BY <1>2, <2>1 DEF Typed, Apart
    <2>3. Cased(NoMarks, document)
      BY <2>1 DEF Cased
    <2>4. QED
      BY <2>2, <2>3 DEF Sound
  <1>4. run = [set |-> <<>>, series |-> TRUE] /\ marks = NoMarks
    BY DEF Init
  <1> DEFINE e == <<>>
             t == TRUE
             b == Going
  <1>5. b = [marks |-> NoMarks, set |-> e, series |-> t] /\ e \in Seq(Cites) /\ t \in BOOLEAN
    BY <1>4 DEF Going
  <1>6. Whole(e, document, rewritten)
    BY WholeEmpty
  <1> HIDE DEF e, t, b
  <1>7. b \in Renderings /\ b.marks = NoMarks /\ b.set = e
    BY <1>2, <1>5 DEF Renderings
  <1>8. Good(b, document, rewritten)
    BY <1>3, <1>6, <1>7 DEF Good
  <1>9. /\ bib.outcome = "none" /\ bib.entries = <<>>
    BY DEF Init, NoBib
  <1>10. bib.entries \in Seq(Seq(Item)) /\ EntryCases(bib.entries)
    BY <1>9 DEF EntryCases
  <1>11. QED
    BY <1>1, <1>4, <1>8, <1>9, <1>10 DEF IInv, b

\* processCitationCluster.
LEMMA CallGood ==
    ASSUME ParallelAssumption, IInv, NEW doc \in Documents, NEW q \in DOMAIN doc,
           DOMAIN document \subseteq DOMAIN doc, NEW again, rewritten' = again,
           ~again => ~rewritten /\ Carried(document, doc),
           processCitationCluster(doc, q)
    PROVE  IInv'
  <1> DEFINE kept == Forget(marks, Item \ Cited(doc))
             e == <<>>
             t == TRUE
             r == [marks |-> kept, set |-> e, series |-> t]
             none == {}
             start == [r |-> r, again |-> none]
             places == moved \ {q}
             tainted == Tainted(start, doc, places, document)
             end == Rendered(tainted, doc, q)
  <1>1. document \in Documents /\ Sound(marks, document, rewritten)
    BY DEF IInv, Good, Going
  <1>2. kept \in MarkSets /\ Sound(kept, doc, again)
    BY <1>1, ForgetSound
  <1>3. /\ document' = doc /\ marks' = end.r.marks
        /\ run' = [set |-> end.r.set, series |-> end.r.series]
        /\ moved' = end.again /\ bib' = NoBib
    BY DEF processCitationCluster, Tainted
  <1>4. r = [marks |-> kept, set |-> e, series |-> t] /\ e \in Seq(Cites) /\ t \in BOOLEAN
        /\ Whole(e, doc, again)
    BY WholeEmpty
  <1> HIDE DEF kept, e, t, r
  <1>5. r \in Renderings /\ r.marks = kept /\ r.set = e
    BY <1>2, <1>4 DEF Renderings
  <1>6. Good(r, doc, again)
    BY <1>2, <1>4, <1>5 DEF Good
  <1>7. Work(start, doc, again)
    BY <1>6 DEF Work
  <1> HIDE DEF start
  <1>8. places \cap DOMAIN document \subseteq DOMAIN doc
    OBVIOUS
  <1> HIDE DEF places
  <1>9. Work(tainted, doc, again)
    BY <1>1, <1>7, <1>8, TaintedGood
  <1> HIDE DEF tainted
  <1>10. Work(end, doc, again)
    BY <1>9, RenderedGood
  <1> HIDE DEF end
  <1>11. Good(end.r, doc, again) /\ end.again \subseteq DOMAIN doc /\ end.r \in Renderings
    BY <1>10 DEF Work, Good
  <1>12. /\ end.r = [marks |-> end.r.marks, set |-> end.r.set, series |-> end.r.series]
    BY <1>11, RenderingIs
  <1>13. Going' = end.r
    BY <1>3, <1>12 DEF Going
  <1>14. /\ bib'.outcome = "none" /\ bib'.entries = <<>>
    BY <1>3 DEF NoBib
  <1>15. bib'.entries \in Seq(Seq(Item)) /\ EntryCases(bib'.entries)
    BY <1>14 DEF EntryCases
  <1>16. run' = [set |-> run'.set, series |-> run'.series]
    BY <1>3
  <1>17. QED
    BY <1>3, <1>11, <1>13, <1>14, <1>15, <1>16 DEF IInv

\* A citation is added.
LEMMA AddGood ==
    ASSUME ParallelAssumption, IInv, AddCitation
    PROVE  IInv'
  <1>1. PICK items \in Clusters :
            processCitationCluster(Append(document, items), Len(document) + 1)
    BY DEF AddCitation
  <1>2. PICK doc : doc = Append(document, items)
    OBVIOUS
  <1>3. PICK q : q = Len(document) + 1
    OBVIOUS
  <1>4. PICK again : again = rewritten
    OBVIOUS
  <1>5. document \in Documents /\ items \in Seq(Item)
    BY DEF IInv, ParallelAssumption
  <1>6. /\ doc \in Documents /\ DOMAIN doc = DOMAIN document \cup {Len(document) + 1}
        /\ Carried(document, doc)
    BY <1>2, <1>5, Appended DEF Carried
  <1>7. rewritten' = again
    BY <1>4 DEF AddCitation
  <1>8. processCitationCluster(doc, q)
    BY <1>1, <1>2, <1>3
  <1>9. q \in DOMAIN doc /\ DOMAIN document \subseteq DOMAIN doc
    BY <1>3, <1>6
  <1>10. QED
    BY <1>4, <1>6, <1>7, <1>8, <1>9, CallGood

\* The last citation is edited.
LEMMA ReplaceGood ==
    ASSUME ParallelAssumption, IInv, ReplaceLastCitation
    PROVE  IInv'
  <1>1. PICK items \in Clusters :
            processCitationCluster([document EXCEPT ![Len(document)] = items], Len(document))
    BY DEF ReplaceLastCitation
  <1>2. PICK doc : doc = [document EXCEPT ![Len(document)] = items]
    OBVIOUS
  <1>3. PICK q : q = Len(document)
    OBVIOUS
  <1>4. PICK again : again = TRUE
    OBVIOUS
  <1>5. document \in Documents /\ document # <<>> /\ items \in Seq(Item)
    BY DEF IInv, ParallelAssumption, ReplaceLastCitation
  <1>6. /\ doc \in Documents /\ DOMAIN doc = DOMAIN document /\ q \in DOMAIN doc
    BY <1>2, <1>3, <1>5 DEF Documents
  <1>7. rewritten' = again
    BY <1>4 DEF ReplaceLastCitation
  <1>8. processCitationCluster(doc, q)
    BY <1>1, <1>2, <1>3
  <1>9. QED
    BY <1>4, <1>6, <1>7, <1>8, CallGood

\* A bibliography is made.
LEMMA BibGoodStep ==
    ASSUME ParallelAssumption, IInv, MakeBibliography
    PROVE  IInv'
  <1>1. PICK selector \in Selectors \cup {None} :
           LET end == getBibliographyEntries(selector)
           IN  /\ marks' = end.r.marks
               /\ run' = [set |-> end.r.set, series |-> end.r.series]
               /\ bib' = [outcome |-> IF end.threw THEN "threw" ELSE "returned",
                          selector |-> selector, entries |-> end.entries]
    BY DEF MakeBibliography
  <1> DEFINE g == getBibliographyEntries(selector)
  <1>2. PICK end : end = g
    OBVIOUS
  <1>3. /\ marks' = end.r.marks
        /\ run' = [set |-> end.r.set, series |-> end.r.series]
        /\ bib' = [outcome |-> IF end.threw THEN "threw" ELSE "returned",
                   selector |-> selector, entries |-> end.entries]
    BY <1>1, <1>2
  <1>4. BibGood(end, document, rewritten)
    BY <1>2, BibliographyGood
  <1>5. UNCHANGED <<document, moved, rewritten>>
    BY DEF MakeBibliography
  <1>6. end \in Bibs /\ Good(end.r, document, rewritten) /\ end.r \in Renderings
        /\ (~rewritten => EntryCases(end.entries))
    BY <1>4 DEF BibGood, Good
  <1>7. end.r = [marks |-> end.r.marks, set |-> end.r.set, series |-> end.r.series]
    BY <1>6, RenderingIs
  <1>8. Going' = end.r
    BY <1>3, <1>7 DEF Going
  <1>9. /\ bib'.outcome \in {"none", "returned", "threw"}
        /\ bib'.entries = end.entries /\ bib'.entries \in Seq(Seq(Item))
    BY <1>3, <1>6, BibIs
  <1>10. run' = [set |-> run'.set, series |-> run'.series]
    BY <1>3
  <1>11. QED
    BY <1>5, <1>6, <1>8, <1>9, <1>10 DEF IInv

\* Nothing changes.
LEMMA StutterGood ==
    ASSUME IInv, UNCHANGED vars
    PROVE  IInv'
  BY DEF IInv, vars, Going

\* The inductive invariant.
LEMMA AlwaysGood ==
    ASSUME ParallelAssumption
    PROVE  Spec => []IInv
  <1>1. Init => IInv
    BY InitGood
  <1>2. IInv /\ [Next]_vars => IInv'
    BY AddGood, ReplaceGood, BibGoodStep, StutterGood DEF Next
  <1>3. QED
    BY <1>1, <1>2, PTL DEF Spec

\* No item holds two arrays.
LEMMA ArraysOne ==
    ASSUME NEW doc, NEW m, Typed(m, doc), NEW i
    PROVE  Cardinality(ArraysOf(m, i)) <= 1
  <1>1. \A a, b \in ArraysOf(m, i) : a = b
    BY TypedIs, ArraysOfIn DEF Apart
  <1>2. CASE ArraysOf(m, i) = {}
    BY <1>2, FS_EmptySet
  <1>3. CASE ArraysOf(m, i) # {}
    <2>1. PICK a : a \in ArraysOf(m, i)
      BY <1>3
    <2> DEFINE one == {a}
    <2>2. ArraysOf(m, i) = one
      BY <1>1, <2>1
    <2>3. Cardinality(one) = 1
      BY FS_Singleton
    <2> HIDE DEF one
    <2>4. Cardinality(ArraysOf(m, i)) = 1
      BY <2>2, <2>3
    <2>5. QED
      BY <2>4
  <1>4. QED
    BY <1>2, <1>3

\* For any items and lists: registered items only are marked, no item holds
\* two arrays of siblings, and every master holds one.
THEOREM TypeCorrect == Spec => []TypeOK
  <1>1. ParallelAssumption
    BY ParallelAssumption
  <1>2. IInv => TypeOK
    <2>1. SUFFICES ASSUME IInv PROVE TypeOK
      OBVIOUS
    <2>2. marks \in MarkSets /\ Typed(marks, document)
      BY <2>1 DEF IInv, Good, Going, Sound, Typed
    <2>3. marks \in Marks
      <3>1. /\ marks = [master |-> marks.master, parallel |-> marks.parallel,
                        arrays |-> marks.arrays]
            /\ marks.master \in SUBSET Registered
            /\ marks.parallel \in [Item -> Item \cup {None}]
            /\ marks.arrays \in SUBSET Arrays
            /\ \A a \in marks.arrays : a.holders \subseteq Registered
        BY <2>2, TypedIs DEF Registered
      <3>2. marks.arrays \in SUBSET [holders : SUBSET Registered, list : Seq(Item)]
        BY <3>1 DEF Arrays
      <3>3. QED
        BY <3>1, <3>2 DEF Marks
    <2>4. \A i \in Item : Cardinality(ArraysOf(marks, i)) <= 1
      BY <2>2, ArraysOne
    <2>5. \A i \in marks.master : ArraysOf(marks, i) # {}
      BY <2>2, TypedIs
    <2>6. QED
      BY <2>1, <2>3, <2>4, <2>5 DEF IInv, TypeOK, Documents
  <1>3. QED
    BY <1>1, <1>2, AlwaysGood, PTL

\* For any items, cases and lists, and as long as no citation was replaced:
\* an entry has reports of one case (CloseVariable and force_collapse).
THEOREM AlwaysOneCase == Spec => []OneCasePerEntry
  <1>1. ParallelAssumption
    BY ParallelAssumption
  <1>2. IInv => OneCasePerEntry
    BY DEF IInv, OneCasePerEntry, EntryCases, OneCase, Alike
  <1>3. QED
    BY <1>1, <1>2, AlwaysGood, PTL

-----------------------------------------------------------------------------
(* Who is a master: marks of documents whose lists repeat no item. *)

\* At cite k the series is broken: an item known to be parallel joined the
\* set after one of another case, and all after it up to k are known, too.
Broken(doc, m, q, k) ==
    \E e \in 2 .. k : /\ ~Alike(doc[q][e - 1], doc[q][e])
                      /\ \A l \in e .. k : doc[q][l] \in Parallel(m)

\* An item that is not known to be parallel begins a set at cite k.
Opens(doc, m, q, k) ==
    k = 1 \/ ~Alike(doc[q][k - 1], doc[q][k]) \/ Broken(doc, m, q, k - 1)

\* The first cite of the item does.
Leads(doc, m, i) ==
    \A q \in DOMAIN doc : \A k \in DOMAIN doc[q] :
        CitesOf(doc, q)[k].first /\ doc[q][k] = i => Opens(doc, m, q, k)

\* The array of a master: it is held by the master and those on its list, and
\* the item before the first cite of each of these holds it, too.
Led(a, i, doc) ==
    /\ a.holders \subseteq {i} \cup ToSet(a.list)
    /\ ToSet(a.list) \subseteq a.holders
    /\ \A j \in ToSet(a.list) : \A c \in Firsts(doc) : c.id = j => c.prev \in a.holders

Ordered(m, doc) ==
    /\ m.master \cap Parallel(m) = {}
    /\ \A i \in m.master : Leads(doc, m, i)
    /\ \A a \in m.arrays : ToSet(a.list) \subseteq Parallel(m)
    /\ \A a \in m.arrays : \A i \in m.master \cap a.holders : Led(a, i, doc)
    /\ \A i \in Parallel(m) : ArraysOf(m, i) # {}
    /\ \A a \in m.arrays : a.holders # {} /\ a.holders \subseteq m.master \cup Parallel(m)

\* More parallel items: what began a set still does.
LEMMA LeadsStill ==
    ASSUME NEW doc, NEW m, NEW n, Parallel(m) \subseteq Parallel(n), NEW i, Leads(doc, m, i)
    PROVE  Leads(doc, n, i)
  <1>1. ASSUME NEW q, NEW k, Broken(doc, m, q, k) PROVE Broken(doc, n, q, k)
    BY <1>1 DEF Broken
  <1>2. QED
    BY <1>1 DEF Leads, Opens

\* An item that is not parallel, and leads, is made a master.
LEMMA MarkMasterOrdered ==
    ASSUME ParallelAssumption, NEW doc \in Documents, NEW m, Typed(m, doc), Ordered(m, doc),
           NEW i \in Cited(doc), i \notin Parallel(m), Leads(doc, m, i)
    PROVE  Ordered(MarkMaster(m, i), doc)
  <1> DEFINE new == [holders |-> {i}, list |-> <<>>]
             n == MarkMaster(m, i)
  <1>1. /\ n.master = m.master \cup {i} /\ n.arrays = Freed(m.arrays, i) \cup {new}
        /\ Parallel(n) = Parallel(m) /\ m.arrays \in SUBSET Arrays
    BY MarkMasterIs, TypedIs
  <1>2. new.holders = {i} /\ ToSet(new.list) = {}
    BY DEF ToSet
  <1> HIDE DEF n, new
  <1>3. ASSUME NEW b \in Freed(m.arrays, i)
        PROVE  b.holders # {} /\ \E a \in m.arrays : b.holders = a.holders \ {i} /\ b.list = a.list
    <2>1. m.arrays \in SUBSET Arrays
      BY <1>1
    <2>2. b.holders # {} /\ \E a \in m.arrays : b = Without(a, i)
      BY <2>1, FreedFrom
    <2>3. QED
      BY <2>2, WithoutIs
  <1>4. n.master \cap Parallel(n) = {}
    BY <1>1 DEF Ordered
  <1>5. \A j \in n.master : Leads(doc, n, j)
    BY <1>1, LeadsStill DEF Ordered
  <1>6. ASSUME NEW b \in n.arrays
        PROVE  /\ ToSet(b.list) \subseteq Parallel(n)
               /\ b.holders # {} /\ b.holders \subseteq n.master \cup Parallel(n)
    <2>1. CASE b = new
      BY <1>1, <1>2, <2>1
    <2>2. CASE b \in Freed(m.arrays, i)
      BY <1>1, <1>3, <2>2 DEF Ordered
    <2>3. QED
      BY <1>1, <2>1, <2>2
  <1>7. ASSUME NEW b \in n.arrays, NEW j \in n.master \cap b.holders
        PROVE  Led(b, j, doc)
    <2>1. CASE b = new
      BY <1>2, <2>1 DEF Led
    <2>2. CASE b \in Freed(m.arrays, i)
      <3>1. PICK a \in m.arrays : b.holders = a.holders \ {i} /\ b.list = a.list
        BY <1>3, <2>2
      <3>2. j \in m.master /\ j \in a.holders /\ j # i
        BY <1>1, <1>7, <3>1
      <3>3. Led(a, j, doc) /\ ToSet(a.list) \subseteq Parallel(m)
        BY <3>2 DEF Ordered
      <3>4. i \notin a.holders
        BY <3>2, <3>3 DEF Led
      <3>5. b.holders = a.holders
        BY <3>1, <3>4
      <3>6. QED
        BY <3>1, <3>3, <3>5 DEF Led
    <2>3. QED
      BY <1>1, <2>1, <2>2
  <1>8. ASSUME NEW j \in Parallel(n)
        PROVE  ArraysOf(n, j) # {}
    <2>1. j \in Parallel(m) /\ j # i
      BY <1>1
    <2>2. PICK a \in m.arrays : j \in a.holders
      BY <2>1, ArraysOfIn DEF Ordered
    <2>3. j \in Without(a, i).holders
      BY <2>1, <2>2, WithoutIs
    <2>4. Without(a, i) \in n.arrays
      BY <1>1, <2>3, FreedIs
    <2>5. QED
      BY <2>3, <2>4, ArraysOfIn
  <1>9. QED
    BY <1>4, <1>5, <1>6, <1>7, <1>8 DEF Ordered, n

\* An item whose first cite follows another is made a sibling.
LEMMA MarkSiblingOrdered ==
    ASSUME ParallelAssumption, NEW doc \in Documents, NEW m, Typed(m, doc), Ordered(m, doc),
           NEW c \in Firsts(doc), c.id \in Cited(doc), c.prev \in Item, c.id \notin m.master
    PROVE  Ordered(MarkSibling(m, c.id, c.prev), doc)
  <1> DEFINE i == c.id
             prev == c.prev
             n == MarkSibling(m, i, prev)
             rest == m.arrays \ ArraysOf(m, prev)
  <1>1. i \in Cited(doc) /\ i \in Item /\ prev \in Item /\ i \notin m.master
    BY CitedIn
  <1>2. \A d \in Firsts(doc) : d.id = i => d.prev = prev
    BY FirstOne
  <1>3. n = MarkSibling(m, c.id, c.prev)
    OBVIOUS
  <1>4. rest \subseteq m.arrays /\ \A a \in m.arrays : a \in rest <=> prev \notin a.holders
    BY ArraysOfIn
  <1> HIDE DEF i, prev
  <1>5. PICK a \in Arrays : Base(m, prev, a)
    BY BaseIs
  <1>6. /\ n.master = m.master /\ Parallel(n) = Parallel(m) \cup {i}
        /\ n.arrays = Freed(rest, i) \cup {Joined(a, i)}
        /\ m.arrays \in SUBSET Arrays
    <2>1. /\ n.master = m.master /\ Parallel(n) = Parallel(m) \cup {i}
          /\ n.arrays = JoinedArrays(m, i, prev, a)
      BY <1>5, <1>1, MarkSiblingIs
    <2>2. m.arrays \in SUBSET Arrays
      BY TypedIs
    <2> HIDE DEF n
    <2>3. QED
      BY <2>1, <2>2 DEF JoinedArrays
  <1>7. /\ Joined(a, i).holders = a.holders \cup {i}
        /\ ToSet(Joined(a, i).list) = ToSet(a.list) \cup {i}
    BY <1>1, JoinedIs
  <1>8. \/ a.holders = {} /\ ToSet(a.list) = {}
        \/ a \in m.arrays /\ prev \in a.holders
    <2>1. a.list = <<>> => ToSet(a.list) = {}
      BY DEF ToSet
    <2>2. QED
      BY <1>5, <2>1, BaseIn
  <1> HIDE DEF n, rest
  <1>9. ASSUME NEW b \in Freed(rest, i)
        PROVE  b.holders # {} /\ \E d \in rest : b.holders = d.holders \ {i} /\ b.list = d.list
    <2>1. rest \in SUBSET Arrays
      BY <1>6, <1>4
    <2>2. b.holders # {} /\ \E d \in rest : b = Without(d, i)
      BY <2>1, FreedFrom
    <2>3. QED
      BY <2>2, WithoutIs
  <1>10. n.master \cap Parallel(n) = {}
    BY <1>6, <1>1 DEF Ordered
  <1>11. \A j \in n.master : Leads(doc, n, j)
    <2>1. Parallel(m) \subseteq Parallel(n)
      BY <1>6
    <2>2. QED
      BY <1>6, <2>1, LeadsStill DEF Ordered
  <1>12. ASSUME NEW b \in n.arrays
        PROVE  /\ ToSet(b.list) \subseteq Parallel(n)
               /\ b.holders # {} /\ b.holders \subseteq n.master \cup Parallel(n)
    <2>1. CASE b = Joined(a, i)
      BY <1>6, <1>7, <1>8, <2>1 DEF Ordered
    <2>2. CASE b \in Freed(rest, i)
      BY <1>6, <1>9, <1>4, <2>2 DEF Ordered
    <2>3. QED
      BY <1>6, <2>1, <2>2
  <1>13. ASSUME NEW b \in n.arrays, NEW j \in n.master \cap b.holders
        PROVE  Led(b, j, doc)
    <2>1. CASE b = Joined(a, i)
      <3>1. j \in m.master /\ j # i /\ j \in a.holders
        BY <1>6, <1>7, <1>13, <1>1, <2>1
      <3>2. a \in m.arrays /\ prev \in a.holders
        BY <1>8, <3>1
      <3>3. Led(a, j, doc)
        BY <3>1, <3>2 DEF Ordered
      <3>4. b.holders = a.holders \cup {i} /\ ToSet(b.list) = ToSet(a.list) \cup {i}
        BY <1>7, <2>1
      <3>5. QED
        BY <1>2, <3>2, <3>3, <3>4 DEF Led
    <2>2. CASE b \in Freed(rest, i)
      <3>1. PICK d \in rest : b.holders = d.holders \ {i} /\ b.list = d.list
        BY <1>9, <2>2
      <3>2. d \in m.arrays /\ prev \notin d.holders /\ j \in m.master /\ j \in d.holders
        BY <1>6, <1>13, <1>4, <3>1
      <3>3. Led(d, j, doc) /\ j # i
        BY <1>1, <3>2 DEF Ordered
      <3>4. c \in Firsts(doc) /\ c.id = i /\ c.prev = prev
        BY DEF i, prev
      <3>5. i \notin ToSet(d.list)
        BY <3>2, <3>3, <3>4 DEF Led
      <3>6. i \notin d.holders
        BY <3>3, <3>5 DEF Led
      <3>7. b.holders = d.holders
        BY <3>1, <3>6
      <3>8. QED
        BY <3>1, <3>3, <3>7 DEF Led
    <2>3. QED
      BY <1>6, <2>1, <2>2
  <1>14. ASSUME NEW j \in Parallel(n)
         PROVE  ArraysOf(n, j) # {}
    <2>1. CASE j = i
      <3>1. Joined(a, i) \in n.arrays /\ i \in Joined(a, i).holders
        BY <1>6, <1>7
      <3>2. QED
        BY <2>1, <3>1, ArraysOfIn
    <2>2. CASE j # i
      <3>1. j \in Parallel(m)
        BY <1>6, <2>2
      <3>2. PICK d \in m.arrays : j \in d.holders
        BY <3>1, ArraysOfIn DEF Ordered
      <3>3. CASE d \in rest
        <4>1. j \in Without(d, i).holders
          BY <2>2, <3>2, WithoutIs
        <4>2. rest \in SUBSET Arrays
          BY <1>6, <1>4
        <4>3. Without(d, i) \in n.arrays
          BY <1>6, <3>3, <4>1, <4>2, FreedIs
        <4>4. QED
          BY <4>1, <4>3, ArraysOfIn
      <3>4. CASE d \notin rest
        <4>1. d \in ArraysOf(m, prev)
          BY <3>4 DEF rest
        <4>2. d = a
          BY <1>5, <4>1, BaseIn
        <4>3. Joined(a, i) \in n.arrays /\ j \in Joined(a, i).holders
          BY <1>6, <1>7, <3>2, <4>2
        <4>4. QED
          BY <4>3, ArraysOfIn
      <3>5. QED
        BY <3>3, <3>4
    <2>3. QED
      BY <2>1, <2>2
  <1>15. Ordered(n, doc)
    BY <1>10, <1>11, <1>12, <1>13, <1>14 DEF Ordered
  <1>16. QED
    BY <1>15, <1>3

-----------------------------------------------------------------------------
(* The sets of a citation that repeats no item. *)

\* The first cite of a set is of an item not known to be parallel that begins
\* sets; the others' first cites are not of masters.
Tidy(m, set, doc) ==
    /\ set # <<>> /\ set[1].first => set[1].id \notin Parallel(m) /\ Leads(doc, m, set[1].id)
    /\ \A n \in DOMAIN set : n > 1 /\ set[n].first => set[n].id \notin m.master

\* No two cites of one item.
Distinct(set) == \A n, l \in DOMAIN set : set[n].id = set[l].id => n = l

\* The marks m have become n, with a set composed: its first cites, but for
\* that of its first item, may have become parallel, and the first one a master.
Marked(m, n, set) ==
    /\ Parallel(m) \subseteq Parallel(n)
    /\ \A i \in Parallel(n) \ Parallel(m) :
          \E k \in DOMAIN set : k > 1 /\ set[k].first /\ i = set[k].id
    /\ m.master \subseteq n.master
    /\ \A i \in n.master \ m.master : set # <<>> /\ i = set[1].id

Reached(m, n, set, doc) == Typed(n, doc) /\ Ordered(n, doc) /\ Marked(m, n, set)

\* A cite of a set is marked, as long as the marks before it are ordered.
LEMMA MarkedCiteOrdered ==
    ASSUME ParallelAssumption, NEW doc \in Documents, NEW m,
           NEW set \in Seq(Cites), NEW replaced, Whole(set, doc, replaced),
           Tidy(m, set, doc), Distinct(set),
           NEW k \in DOMAIN set, NEW n, Reached(m, n, set, doc), k = 1 => n = m
    PROVE  Reached(m, MarkedCite(n, set[k], set), set, doc)
  <1> DEFINE c == set[k]
             u == MarkedCite(n, c, set)
  <1>1. DOMAIN set = 1 .. Len(set) /\ Len(set) \in Nat /\ \A l \in DOMAIN set : set[l] \in Cites
    OBVIOUS
  <1>2. k = 1 \/ k > 1
    BY <1>1
  <1>3. /\ Typed(n, doc) /\ Ordered(n, doc) /\ Marked(m, n, set)
        /\ c \in Cites /\ c.id \in Cited(doc) /\ set # <<>> /\ 1 \in DOMAIN set
    BY <1>1 DEF Whole, Reached
  <1>4. CASE ~c.first
    BY <1>4 DEF MarkedCite
  <1> HIDE DEF c
  <1>5. CASE c.first /\ c = set[1]
    <2> DEFINE t == MarkMaster(n, c.id)
    <2>1. k = 1
      BY <1>3, <1>5 DEF Distinct, c
    <2>2. n = m
      BY <2>1
    <2>3. c.id \notin Parallel(n) /\ Leads(doc, n, c.id)
      BY <1>3, <1>5, <2>2 DEF Tidy
    <2>4. Ordered(t, doc)
      BY <1>3, <2>3, MarkMasterOrdered
    <2>5. t.master = n.master \cup {c.id} /\ Parallel(t) = Parallel(n) /\ Typed(t, doc)
      BY <1>3, MarkMasterIs
    <2>6. u = t
      BY <1>5 DEF MarkedCite
    <2> HIDE DEF t, u
    <2>7. Marked(m, t, set)
      BY <1>3, <1>5, <2>2, <2>5 DEF Marked
    <2>8. QED
      BY <2>4, <2>5, <2>6, <2>7 DEF Reached, u, c
  <1>6. CASE c.first /\ c # set[1]
    <2> DEFINE t == MarkSibling(n, c.id, c.prev)
    <2>1. k > 1
      BY <1>2, <1>6 DEF c
    <2>2. c \in Firsts(doc) /\ c.prev \in Item /\ c.id \notin m.master
      BY <1>6, <2>1 DEF Whole, Tidy, c
    <2>3. c.id # set[1].id
      BY <1>3, <2>1 DEF Distinct, c
    <2>4. c.id \notin n.master
      BY <1>3, <2>2, <2>3 DEF Marked
    <2>5. Ordered(t, doc)
      BY <1>3, <2>2, <2>4, MarkSiblingOrdered
    <2>6. PICK a \in Arrays : Base(n, c.prev, a)
      BY <1>3, BaseIs
    <2>7. t.master = n.master /\ Parallel(t) = Parallel(n) \cup {c.id} /\ Typed(t, doc)
      BY <1>3, <2>2, <2>6, MarkSiblingIs
    <2>8. u = t
      BY <1>6 DEF MarkedCite
    <2> HIDE DEF t, u
    <2>9. ASSUME NEW i \in Parallel(t) \ Parallel(m)
          PROVE  \E l \in DOMAIN set : l > 1 /\ set[l].first /\ i = set[l].id
      <3>1. CASE i = c.id
        BY <1>6, <2>1, <3>1 DEF c
      <3>2. CASE i # c.id
        BY <1>3, <2>7, <2>9, <3>2 DEF Marked
      <3>3. QED
        BY <3>1, <3>2
    <2>10. Marked(m, t, set)
      BY <1>3, <2>7, <2>9 DEF Marked
    <2>11. QED
      BY <2>5, <2>7, <2>8, <2>10 DEF Reached, u, c
  <1>7. QED
    BY <1>4, <1>5, <1>6 DEF c

\* A master that has an item on the list of its array.
Holds(m, h, i) == h \in m.master /\ \E a \in m.arrays : h \in a.holders /\ i \in ToSet(a.list)

\* Another item is made a master.
LEMMA MarkMasterHolds ==
    ASSUME ParallelAssumption, NEW doc \in Documents, NEW m, Typed(m, doc),
           NEW h, NEW i, Holds(m, h, i), NEW x \in Cited(doc), x # h
    PROVE  Holds(MarkMaster(m, x), h, i)
  <1> DEFINE n == MarkMaster(m, x)
             arrays == m.arrays
  <1>1. /\ n.master = m.master \cup {x} /\ Freed(arrays, x) \subseteq n.arrays
        /\ arrays \in SUBSET Arrays
    BY MarkMasterIs, TypedIs
  <1>2. PICK a \in arrays : h \in a.holders /\ i \in ToSet(a.list)
    BY DEF Holds
  <1>3. h \in Without(a, x).holders /\ i \in ToSet(Without(a, x).list)
    BY <1>2, WithoutIs
  <1> HIDE DEF n, arrays
  <1>4. Without(a, x) \in Freed(arrays, x)
    BY <1>1, <1>2, <1>3, FreedIs
  <1>5. Holds(n, h, i)
    BY <1>1, <1>3, <1>4 DEF Holds
  <1>6. QED
    BY <1>5 DEF n

\* Another item is made a sibling.
LEMMA MarkSiblingHolds ==
    ASSUME ParallelAssumption, NEW doc \in Documents, NEW m, Typed(m, doc),
           NEW h, NEW i, Holds(m, h, i), NEW x \in Cited(doc), x # h, NEW prev \in Item
    PROVE  Holds(MarkSibling(m, x, prev), h, i)
  <1> DEFINE n == MarkSibling(m, x, prev)
             rest == m.arrays \ ArraysOf(m, prev)
  <1>1. PICK b \in Arrays : Base(m, prev, b)
    BY BaseIs
  <1>2. n.master = m.master /\ n.arrays = Freed(rest, x) \cup {Joined(b, x)}
        /\ m.arrays \in SUBSET Arrays
    <2>1. n.master = m.master /\ n.arrays = JoinedArrays(m, x, prev, b)
      BY <1>1, MarkSiblingIs
    <2>2. m.arrays \in SUBSET Arrays
      BY TypedIs
    <2> HIDE DEF n
    <2>3. QED
      BY <2>1, <2>2 DEF JoinedArrays
  <1>3. PICK a \in m.arrays : h \in a.holders /\ i \in ToSet(a.list)
    BY DEF Holds
  <1>4. rest \in SUBSET Arrays /\ (a \notin rest => a \in ArraysOf(m, prev))
    BY <1>2
  <1> HIDE DEF n, rest
  <1>5. CASE a \in rest
    <2>1. h \in Without(a, x).holders /\ i \in ToSet(Without(a, x).list)
      BY <1>3, WithoutIs
    <2>2. Without(a, x) \in n.arrays
      BY <1>2, <1>4, <1>5, <2>1, FreedIs
    <2>3. QED
      BY <1>2, <2>1, <2>2 DEF Holds, n
  <1>6. CASE a \notin rest
    <2>1. a = b
      BY <1>1, <1>4, <1>6, BaseIn
    <2>2. x \in Item
      BY CitedIn
    <2>3. Joined(b, x).holders = b.holders \cup {x}
          /\ ToSet(Joined(b, x).list) = ToSet(b.list) \cup {x}
      BY <2>2, JoinedIs
    <2>4. QED
      BY <1>2, <1>3, <2>1, <2>3 DEF Holds, n
  <1>7. QED
    BY <1>5, <1>6

\* Each first cite of the set follows the one before.
Runs(set) == \A k \in DOMAIN set : \A j \in DOMAIN set : k = j + 1 => set[k].prev = set[j].id

\* The cites of the set up to k are all first ones.
AllFirst(set, k) == \A l \in 1 .. k : set[l].first

\* What the first k cites of the set have come to: all but the first are
\* parallel; and the first one, if no other cite is among them, has them on its
\* list, and the last one as a holder.
Kept(m, n, set, k) ==
    /\ \A l \in 2 .. k : set[l].first => set[l].id \in Parallel(n)
    /\ \A h, i : /\ Holds(m, h, i)
                 /\ ~(set # <<>> /\ set[1].first /\ h = set[1].id)
                 => Holds(n, h, i)
    /\ \A f \in 2 .. k : AllFirst(set, f) => Holds(n, set[1].id, set[f].id)
    /\ k > 0 /\ AllFirst(set, k) =>
          /\ set[1].id \in n.master
          /\ \E a \in n.arrays : set[1].id \in a.holders /\ set[k].id \in a.holders

\* The first cite of a set.
LEMMA HeadKept ==
    ASSUME ParallelAssumption, NEW doc \in Documents, NEW m,
           NEW set \in Seq(Cites), set # <<>>, set[1].first, Typed(m, doc),
           set[1].id \in Cited(doc)
    PROVE  Kept(m, MarkMaster(m, set[1].id), set, 1)
  <1> DEFINE c == set[1].id
             t == MarkMaster(m, c)
             new == [holders |-> {c}, list |-> <<>>]
  <1>1. t.master = m.master \cup {c} /\ new \in t.arrays
    BY MarkMasterIs
  <1>2. c \in new.holders
    OBVIOUS
  <1>3. ASSUME NEW h, NEW i, Holds(m, h, i), h # c
        PROVE  Holds(t, h, i)
    BY <1>3, MarkMasterHolds
  <1> HIDE DEF new, t
  <1>4. 2 .. 1 = {} /\ 1 > 0
    OBVIOUS
  <1>5. Kept(m, t, set, 1)
    BY <1>1, <1>2, <1>3, <1>4 DEF Kept
  <1>6. QED
    BY <1>5 DEF t

\* A sibling.
LEMMA TailKept ==
    ASSUME ParallelAssumption, NEW doc \in Documents, NEW m, NEW n, Typed(n, doc),
           NEW set \in Seq(Cites), NEW k \in DOMAIN set, NEW j \in DOMAIN set, k = j + 1,
           NEW c, c = set[k], c.first, c.id \in Cited(doc), c.prev = set[j].id,
           c.prev \in Item, c.id \notin n.master, Kept(m, n, set, j)
    PROVE  Kept(m, MarkSibling(n, c.id, c.prev), set, k)
  <1> DEFINE t == MarkSibling(n, c.id, c.prev)
             rest == n.arrays \ ArraysOf(n, c.prev)
  <1>1. DOMAIN set = 1 .. Len(set) /\ Len(set) \in Nat /\ j \in Nat /\ j > 0 /\ k \in Nat
        /\ 1 .. k = (1 .. j) \cup {k} /\ 2 .. k = (2 .. j) \cup {k} /\ k # 1
    OBVIOUS
  <1>2. PICK b \in Arrays : Base(n, c.prev, b)
    BY BaseIs
  <1>3. /\ t.master = n.master /\ Parallel(t) = Parallel(n) \cup {c.id}
        /\ Joined(b, c.id) \in t.arrays
    <2>1. /\ t.master = n.master /\ Parallel(t) = Parallel(n) \cup {c.id}
          /\ t.arrays = JoinedArrays(n, c.id, c.prev, b)
      BY <1>2, MarkSiblingIs
    <2> HIDE DEF t
    <2>2. QED
      BY <2>1 DEF JoinedArrays
  <1>4. c.id \in Item
    BY CitedIn
  <1>5. Joined(b, c.id).holders = b.holders \cup {c.id}
        /\ ToSet(Joined(b, c.id).list) = ToSet(b.list) \cup {c.id}
    BY <1>4, JoinedIs
  <1>6. ASSUME NEW h, NEW i, Holds(n, h, i)
        PROVE  Holds(t, h, i)
    <2>1. h # c.id
      BY <1>6 DEF Holds
    <2>2. QED
      BY <1>6, <2>1, MarkSiblingHolds
  <1> HIDE DEF t
  <1>7. ASSUME AllFirst(set, k)
        PROVE  /\ set[1].id \in t.master /\ Holds(t, set[1].id, set[k].id)
               /\ \E a \in t.arrays : set[1].id \in a.holders /\ set[k].id \in a.holders
    <2>1. AllFirst(set, j)
      BY <1>1, <1>7 DEF AllFirst
    <2>2. set[1].id \in n.master
      BY <1>1, <2>1 DEF Kept
    <2>3. PICK a \in n.arrays : set[1].id \in a.holders /\ set[j].id \in a.holders
      BY <1>1, <2>1 DEF Kept
    <2>4. a = b
      <3> DEFINE x == c.prev
      <3>1. a \in ArraysOf(n, x)
        BY <2>3, ArraysOfIn
      <3>2. ArraysOf(n, x) = {} \/ ArraysOf(n, x) = {b}
        BY <1>2, BaseIn
      <3>3. QED
        BY <3>1, <3>2
    <2>5. QED
      BY <1>3, <1>5, <2>2, <2>3, <2>4 DEF Holds
  <1>8. ASSUME NEW f \in 2 .. k, AllFirst(set, f)
        PROVE  Holds(t, set[1].id, set[f].id)
    <2>1. CASE f = k
      BY <1>7, <1>8, <2>1
    <2>2. CASE f # k
      BY <1>1, <1>6, <1>8, <2>2 DEF Kept
    <2>3. QED
      BY <2>1, <2>2
  <1>9. \A l \in 2 .. k : set[l].first => set[l].id \in Parallel(t)
    BY <1>1, <1>3 DEF Kept
  <1>10. \A h, i : Holds(m, h, i) /\ ~(set # <<>> /\ set[1].first /\ h = set[1].id)
                 => Holds(t, h, i)
    BY <1>6 DEF Kept
  <1>11. Kept(m, t, set, k)
    BY <1>7, <1>8, <1>9, <1>10 DEF Kept
  <1>12. QED
    BY <1>11 DEF t

\* Any cite of a set.
LEMMA MarkedCiteKept ==
    ASSUME ParallelAssumption, NEW doc \in Documents, NEW m,
           NEW set \in Seq(Cites), NEW replaced, Whole(set, doc, replaced),
           Tidy(m, set, doc), Distinct(set), Runs(set),
           NEW k \in DOMAIN set, NEW n, Reached(m, n, set, doc), k = 1 => n = m,
           NEW j, j = k - 1, Kept(m, n, set, j)
    PROVE  Kept(m, MarkedCite(n, set[k], set), set, k)
  <1> DEFINE c == set[k]
             u == MarkedCite(n, c, set)
  <1>1. DOMAIN set = 1 .. Len(set) /\ Len(set) \in Nat /\ k \in Nat /\ k > 0 /\ k = j + 1
        /\ 1 .. k = (1 .. j) \cup {k} /\ 2 .. k \subseteq (2 .. j) \cup {k} /\ j \in Nat
    OBVIOUS
  <1>2. k = 1 \/ (k > 1 /\ j \in DOMAIN set)
    BY <1>1
  <1>3. /\ Typed(n, doc) /\ Marked(m, n, set)
        /\ c.id \in Cited(doc) /\ set # <<>> /\ 1 \in DOMAIN set
    BY <1>1 DEF Whole, Reached
  <1>4. CASE ~c.first
    <2>1. u = n
      BY <1>4 DEF MarkedCite
    <2>2. ~AllFirst(set, k)
      BY <1>1, <1>4 DEF AllFirst
    <2> HIDE DEF u
    <2>3. \A l \in 2 .. k : set[l].first => set[l].id \in Parallel(n)
      BY <1>1, <1>4 DEF Kept
    <2>4. \A f \in 2 .. k : AllFirst(set, f) => Holds(n, set[1].id, set[f].id)
      BY <1>1, <2>2 DEF Kept
    <2>5. Kept(m, n, set, k)
      BY <2>2, <2>3, <2>4 DEF Kept
    <2>6. QED
      BY <2>1, <2>5 DEF u
  <1> HIDE DEF c
  <1>5. CASE c.first /\ c = set[1]
    <2>1. k = 1
      BY <1>3, <1>5 DEF Distinct, c
    <2>2. u = MarkMaster(m, set[1].id)
      BY <1>5, <2>1 DEF MarkedCite
    <2>3. Kept(m, MarkMaster(m, set[1].id), set, 1)
      BY <1>3, <1>5, <2>1, HeadKept
    <2> HIDE DEF u
    <2>4. QED
      BY <2>1, <2>2, <2>3 DEF u, c
  <1>6. CASE c.first /\ c # set[1]
    <2>1. k > 1 /\ j \in DOMAIN set
      BY <1>2, <1>6 DEF c
    <2>2. c.prev \in Item /\ c.id \notin m.master
      BY <1>6, <2>1 DEF Whole, Tidy, c
    <2>3. c.id # set[1].id
      BY <1>3, <2>1 DEF Distinct, c
    <2>4. c.id \notin n.master
      BY <1>3, <2>2, <2>3 DEF Marked
    <2>5. c.prev = set[j].id /\ c = set[k]
      BY <1>1, <2>1 DEF Runs, c
    <2>6. u = MarkSibling(n, c.id, c.prev)
      BY <1>6 DEF MarkedCite
    <2> HIDE DEF u
    <2>7. Kept(m, u, set, k)
      BY <1>1, <1>3, <1>6, <2>1, <2>2, <2>4, <2>5, <2>6, TailKept
    <2>8. QED
      BY <2>7 DEF u, c
  <1>7. QED
    BY <1>4, <1>5, <1>6 DEF c

\* A set is marked.
LEMMA MarkedSetOrdered ==
    ASSUME ParallelAssumption, NEW doc \in Documents, NEW m, Typed(m, doc), Ordered(m, doc),
           NEW set \in Seq(Cites), NEW replaced, Whole(set, doc, replaced),
           Tidy(m, set, doc), Distinct(set), Runs(set)
    PROVE  /\ Reached(m, MarkedSet(m, set), set, doc)
           /\ Kept(m, MarkedSet(m, set), set, Len(set))
  <1> DEFINE Y == [k \in 0 .. Len(set) |->
                      {n \in MarkSets : /\ Reached(m, n, set, doc)
                                        /\ Kept(m, n, set, k)
                                        /\ k = 0 => n = m}]
  <1>1. MarkedSet(m, set) = FMark!Folded(m, set, set)
    BY DEF MarkedSet, FoldLeft, MapThenFoldSet, Max, FMark!Folded, FMark!Last
  <1>2. DOMAIN set = 1 .. Len(set) /\ Len(set) \in Nat
    OBVIOUS
  <1>3. m \in Y[0]
    <2>1. Reached(m, m, set, doc) /\ m \in MarkSets
      BY DEF Marked, Reached, Typed
    <2>2. Kept(m, m, set, 0)
      <3>1. 2 .. 0 = {} /\ ~(0 > 0)
        OBVIOUS
      <3>2. QED
        BY <3>1 DEF Kept
    <2>3. 0 \in 0 .. Len(set)
      BY <1>2
    <2>4. QED
      BY <2>1, <2>2, <2>3
  <1>4. FMark!Leads(Y, set, Len(set), set)
    <2>1. SUFFICES ASSUME NEW k \in 1 .. Len(set), NEW n \in Y[k - 1]
                   PROVE  MarkedCite(n, set[k], set) \in Y[k]
      BY DEF FMark!Leads
    <2> DEFINE j == k - 1
               u == MarkedCite(n, set[k], set)
    <2>2. k \in 0 .. Len(set) /\ j \in 0 .. Len(set) /\ k # 0 /\ k \in DOMAIN set
          /\ (k = 1 => j = 0) /\ j = k - 1
      BY <1>2
    <2>3. Reached(m, n, set, doc) /\ Kept(m, n, set, j) /\ (j = 0 => n = m)
      BY <2>2
    <2> HIDE DEF j
    <2>4. Reached(m, u, set, doc)
      BY <2>2, <2>3, MarkedCiteOrdered
    <2>5. Kept(m, u, set, k)
      BY <2>2, <2>3, MarkedCiteKept
    <2> HIDE DEF u
    <2>6. u \in MarkSets
      BY <2>4 DEF Reached, Typed
    <2>7. u \in Y[k]
      BY <2>2, <2>4, <2>5, <2>6
    <2>8. QED
      BY <2>7 DEF u
  <1>5. FMark!Folded(m, set, set) \in Y[Len(set)]
    <2> HIDE DEF Y
    <2>1. QED
      BY <1>2, <1>3, <1>4, FMark!FoldLeads
  <1>6. Len(set) \in 0 .. Len(set)
    BY <1>2
  <1>7. QED
    BY <1>1, <1>5, <1>6

\* The marks are ordered when the set is composed.
LEMMA ComposedOrdered ==
    ASSUME ParallelAssumption, NEW doc \in Documents, NEW replaced, NEW r,
           Good(r, doc, replaced), Ordered(r.marks, doc), Tidy(r.marks, r.set, doc),
           Distinct(r.set), Runs(r.set)
    PROVE  /\ Ordered(Composed(r), doc) /\ Marked(r.marks, Composed(r), r.set)
           /\ Len(r.set) # 1 => Kept(r.marks, Composed(r), r.set, Len(r.set))
  <1>1. r.set \in Seq(Cites) /\ Typed(r.marks, doc) /\ Whole(r.set, doc, replaced)
    BY RenderingIs DEF Good, Sound
  <1>2. CASE Len(r.set) = 1
    BY <1>2 DEF Composed, Marked
  <1>3. CASE Len(r.set) # 1
    BY <1>1, <1>3, MarkedSetOrdered DEF Composed, Reached
  <1>4. QED
    BY <1>2, <1>3

-----------------------------------------------------------------------------
(* Where series are broken. *)

\* No series is broken at the first cite.
LEMMA BrokenNone ==
    ASSUME NEW doc, NEW m, NEW q, NEW k \in Nat, k <= 1
    PROVE  ~Broken(doc, m, q, k)
  <1>1. 2 .. k = {}
    OBVIOUS
  <1>2. QED
    BY <1>1 DEF Broken

\* Whether the series is broken at a cite, from the one before it.
LEMMA BrokenNext ==
    ASSUME NEW doc, NEW m, NEW q, NEW k \in Nat, k >= 2
    PROVE  Broken(doc, m, q, k) <=>
              /\ doc[q][k] \in Parallel(m)
              /\ ~Alike(doc[q][k - 1], doc[q][k]) \/ Broken(doc, m, q, k - 1)
  <1>1. ASSUME Broken(doc, m, q, k)
        PROVE  /\ doc[q][k] \in Parallel(m)
               /\ ~Alike(doc[q][k - 1], doc[q][k]) \/ Broken(doc, m, q, k - 1)
    <2>1. PICK e \in 2 .. k : /\ ~Alike(doc[q][e - 1], doc[q][e])
                              /\ \A l \in e .. k : doc[q][l] \in Parallel(m)
      BY <1>1 DEF Broken
    <2>2. k \in e .. k
      OBVIOUS
    <2>3. CASE e = k
      BY <2>1, <2>2, <2>3
    <2>4. CASE e # k
      <3>1. e \in 2 .. k - 1 /\ \A l \in e .. k - 1 : l \in e .. k
        BY <2>4
      <3>2. Broken(doc, m, q, k - 1)
        BY <2>1, <3>1 DEF Broken
      <3>3. QED
        BY <2>1, <2>2, <3>2
    <2>5. QED
      BY <2>3, <2>4
  <1>2. ASSUME doc[q][k] \in Parallel(m), ~Alike(doc[q][k - 1], doc[q][k])
        PROVE  Broken(doc, m, q, k)
    <2>1. k \in 2 .. k /\ \A l \in k .. k : l = k
      OBVIOUS
    <2>2. QED
      BY <1>2, <2>1 DEF Broken
  <1>3. ASSUME doc[q][k] \in Parallel(m), Broken(doc, m, q, k - 1)
        PROVE  Broken(doc, m, q, k)
    <2>1. PICK e \in 2 .. k - 1 : /\ ~Alike(doc[q][e - 1], doc[q][e])
                                  /\ \A l \in e .. k - 1 : doc[q][l] \in Parallel(m)
      BY <1>3 DEF Broken
    <2>2. e \in 2 .. k /\ \A l \in e .. k : l = k \/ l \in e .. k - 1
      OBVIOUS
    <2>3. \A l \in e .. k : doc[q][l] \in Parallel(m)
      BY <1>3, <2>1, <2>2
    <2>4. QED
      BY <2>1, <2>2, <2>3 DEF Broken
  <1>4. QED
    BY <1>1, <1>2, <1>3

\* With more parallel items, it still is.
LEMMA BrokenStill ==
    ASSUME NEW doc, NEW m, NEW n, Parallel(m) \subseteq Parallel(n), NEW q, NEW k,
           Broken(doc, m, q, k)
    PROVE  Broken(doc, n, q, k)
  BY DEF Broken

\* An item leads if its first cite is where it opens a set.
LEMMA LeadsAt ==
    ASSUME ParallelAssumption, NEW doc \in Documents, NEW m, NEW q \in DOMAIN doc,
           NEW k \in DOMAIN doc[q], CitesOf(doc, q)[k].first
    PROVE  Leads(doc, m, doc[q][k]) <=> Opens(doc, m, q, k)
  <1>1. ASSUME NEW p \in DOMAIN doc, NEW j \in DOMAIN doc[p],
               CitesOf(doc, p)[j].first, doc[p][j] = doc[q][k]
        PROVE  p = q /\ j = k
    BY <1>1, FirstPlace
  <1>2. QED
    BY <1>1 DEF Leads

-----------------------------------------------------------------------------
(* A citation that repeats no item, cite by cite. *)

\* The set has the last cites up to k.
Segment(set, doc, q, k) ==
    /\ Len(set) <= k
    /\ \A n \in DOMAIN set : set[n] = CitesOf(doc, q)[(k - Len(set)) + n]

\* The cites of a segment.
LEMMA SegmentIs ==
    ASSUME ParallelAssumption, NEW doc \in Documents, NoRepeats(doc), NEW q \in DOMAIN doc,
           NEW k \in 0 .. Len(doc[q]), NEW set \in Seq(Cites), Segment(set, doc, q, k)
    PROVE  /\ DOMAIN set = 1 .. Len(set) /\ Len(set) \in Nat /\ k \in Nat
           /\ \A n \in DOMAIN set : /\ (k - Len(set)) + n \in DOMAIN doc[q]
                                    /\ (k - Len(set)) + n <= k
                                    /\ set[n].id = doc[q][(k - Len(set)) + n]
           /\ \A n \in DOMAIN set : \A l \in DOMAIN doc[q] : l > k => set[n].id # doc[q][l]
           /\ Distinct(set)
           /\ set # <<>> =>
                 1 \in DOMAIN set /\ Last(set) = CitesOf(doc, q)[k] /\ k \in DOMAIN doc[q]
  <1>1. DOMAIN set = 1 .. Len(set) /\ Len(set) \in Nat /\ k \in Nat
        /\ DOMAIN doc[q] = 1 .. Len(doc[q]) /\ Len(doc[q]) \in Nat
    BY CitesIn
  <1>2. ASSUME NEW n \in DOMAIN set
        PROVE  /\ (k - Len(set)) + n \in DOMAIN doc[q]
               /\ (k - Len(set)) + n <= k
               /\ set[n].id = doc[q][(k - Len(set)) + n]
    <2>1. (k - Len(set)) + n \in DOMAIN doc[q] /\ (k - Len(set)) + n <= k
      BY <1>1 DEF Segment
    <2>2. QED
      BY <2>1, CitesIn DEF Segment
  <1>3. IsInjective(doc[q])
    BY DEF NoRepeats
  <1>4. ASSUME NEW n \in DOMAIN set, NEW l \in DOMAIN doc[q], l > k
        PROVE  set[n].id # doc[q][l]
    <2>1. (k - Len(set)) + n # l
      BY <1>1, <1>2, <1>4
    <2>2. QED
      BY <1>2, <1>3, <2>1 DEF IsInjective
  <1>5. ASSUME NEW n \in DOMAIN set, NEW l \in DOMAIN set, set[n].id = set[l].id
        PROVE  n = l
    <2>1. (k - Len(set)) + n = (k - Len(set)) + l
      BY <1>2, <1>3, <1>5 DEF IsInjective
    <2>2. QED
      BY <1>1, <2>1
  <1>6. ASSUME set # <<>>
        PROVE  1 \in DOMAIN set /\ Last(set) = CitesOf(doc, q)[k] /\ k \in DOMAIN doc[q]
    <2>1. Len(set) \in DOMAIN set /\ 1 \in DOMAIN set /\ (k - Len(set)) + Len(set) = k
      BY <1>1, <1>6
    <2>2. k \in DOMAIN doc[q]
      BY <1>1, <1>2, <2>1
    <2>3. QED
      BY <2>1, <2>2 DEF Last, Segment
  <1>7. QED
    BY <1>1, <1>2, <1>4, <1>5, <1>6 DEF Distinct

\* No item of a segment comes again.
LEMMA SegmentApart ==
    ASSUME ParallelAssumption, NEW doc \in Documents, NoRepeats(doc), NEW q \in DOMAIN doc,
           NEW k \in 0 .. Len(doc[q]), NEW set \in Seq(Cites), Segment(set, doc, q, k),
           NEW n \in DOMAIN set, NEW l \in DOMAIN doc[q], l > k
    PROVE  set[n].id # doc[q][l]
  BY SegmentIs

\* A segment has no two cites of one item.
LEMMA SegmentDistinct ==
    ASSUME ParallelAssumption, NEW doc \in Documents, NoRepeats(doc), NEW q \in DOMAIN doc,
           NEW k \in 0 .. Len(doc[q]), NEW set \in Seq(Cites), Segment(set, doc, q, k)
    PROVE  /\ DOMAIN set = 1 .. Len(set) /\ Len(set) \in Nat /\ Distinct(set)
           /\ set # <<>> => 1 \in DOMAIN set
  BY SegmentIs

\* In a segment, each cite comes after the one before it.
LEMMA SegmentRuns ==
    ASSUME ParallelAssumption, NEW doc \in Documents, NoRepeats(doc), NEW q \in DOMAIN doc,
           NEW k \in 0 .. Len(doc[q]), NEW set \in Seq(Cites), Segment(set, doc, q, k)
    PROVE  Runs(set)
  <1>1. SUFFICES ASSUME NEW n \in DOMAIN set, NEW l \in DOMAIN set, n = l + 1
                 PROVE  set[n].prev = set[l].id
    BY DEF Runs
  <1> DEFINE u == (k - Len(set)) + n
             v == (k - Len(set)) + l
  <1>2. DOMAIN set = 1 .. Len(set) /\ Len(set) \in Nat /\ k \in Nat /\ l \in Nat
    BY SegmentIs
  <1>3. u \in DOMAIN doc[q] /\ v \in DOMAIN doc[q] /\ set[l].id = doc[q][v]
    BY SegmentIs
  <1>4. set[n] = CitesOf(doc, q)[u]
    BY DEF Segment
  <1>5. u - 1 = v
    BY <1>2, <1>1
  <1>6. v \in Nat /\ v > 0
    BY <1>3, CitesIn
  <1> HIDE DEF u, v
  <1>7. u > 1
    <2>1. u \in Nat
      BY <1>3, CitesIn
    <2>2. QED
      BY <1>5, <1>6, <2>1
  <1>8. CitesOf(doc, q)[u].prev = doc[q][u - 1]
    BY <1>3, <1>7, CitesIn
  <1>9. QED
    BY <1>3, <1>4, <1>5, <1>8

-----------------------------------------------------------------------------
(* Chains: first cites in a row. *)

\* The cites j to k of citation q: first ones, of an item that is not parallel
\* and then of parallel ones.
Chain(m, doc, q, j, k) ==
    /\ j < k
    /\ \A l \in j .. k : CitesOf(doc, q)[l].first
    /\ doc[q][j] \notin Parallel(m)
    /\ \A l \in j + 1 .. k : doc[q][l] \in Parallel(m)

\* The item at the beginning of a chain has the others on its list.
Chained(m, doc) ==
    \A q \in DOMAIN doc : \A j, k \in DOMAIN doc[q] :
        Chain(m, doc, q, j, k) => Holds(m, doc[q][j], doc[q][k])

Linked(m, doc) == Ordered(m, doc) /\ Chained(m, doc)

\* A set begins a citation, or with an item that is not known to be parallel.
Heads(m, set, k) == set = <<>> \/ Len(set) = k \/ set[1].id \notin Parallel(m)

\* A chain that begins where the set does.
LEMMA HeadChained ==
    ASSUME ParallelAssumption, NEW doc \in Documents, NoRepeats(doc), NEW q \in DOMAIN doc,
           NEW k \in 0 .. Len(doc[q]), NEW set \in Seq(Cites), Segment(set, doc, q, k),
           NEW m, NEW n, Marked(m, n, set), Kept(m, n, set, Len(set)), set # <<>>,
           NEW e \in DOMAIN doc[q], e = k - Len(set) + 1,
           NEW l \in DOMAIN doc[q], e < l, \A p \in e .. l : CitesOf(doc, q)[p].first,
           l <= k
    PROVE  Holds(n, doc[q][e], doc[q][l])
  <1> DEFINE f == l - e + 1
  <1>1. DOMAIN set = 1 .. Len(set) /\ Len(set) \in Nat /\ k \in Nat /\ Len(set) <= k
        /\ l \in Nat /\ e \in Nat
    BY SegmentIs, CitesIn DEF Segment
  <1>2. f \in 2 .. Len(set) /\ f \in DOMAIN set /\ 1 \in DOMAIN set
        /\ (k - Len(set)) + f = l /\ (k - Len(set)) + 1 = e
    BY <1>1
  <1>3. AllFirst(set, f)
    <2>1. SUFFICES ASSUME NEW p \in 1 .. f PROVE set[p].first
      BY DEF AllFirst
    <2> DEFINE b == k - Len(set)
    <2>2. b \in Int /\ b + f = l /\ b + 1 = e /\ f \in Nat /\ p \in Nat /\ f <= Len(set)
      BY <1>1, <1>2
    <2>3. set[p] = CitesOf(doc, q)[b + p] /\ p \in DOMAIN set
      <3>1. p \in DOMAIN set
        BY <1>1, <2>2
      <3>2. QED
        BY <3>1 DEF Segment
    <2> HIDE DEF b, f
    <2>4. b + p \in e .. l
      BY <1>1, <2>1, <2>2
    <2>5. QED
      BY <2>3, <2>4
  <1> HIDE DEF f
  <1>4. set[f].id = doc[q][l] /\ set[1].id = doc[q][e]
    <2>1. /\ set[f].id = doc[q][(k - Len(set)) + f]
          /\ set[1].id = doc[q][(k - Len(set)) + 1]
      BY <1>2, SegmentIs
    <2>2. QED
      BY <1>2, <2>1
  <1>5. QED
    BY <1>2, <1>3, <1>4 DEF Kept

\* The first cite of a set, and where it is.
LEMMA SegmentHead ==
    ASSUME ParallelAssumption, NEW doc \in Documents, NoRepeats(doc), NEW q \in DOMAIN doc,
           NEW k \in 0 .. Len(doc[q]), NEW set \in Seq(Cites), Segment(set, doc, q, k),
           set # <<>>
    PROVE  \E e \in DOMAIN doc[q] :
              /\ e = k - Len(set) + 1 /\ e <= k /\ e \in Nat
              /\ set[1] = CitesOf(doc, q)[e] /\ set[1].id = doc[q][e]
              /\ 1 \in DOMAIN set
  <1> DEFINE e == (k - Len(set)) + 1
  <1>1. 1 \in DOMAIN set
    BY SegmentIs
  <1>2. e \in DOMAIN doc[q] /\ e <= k /\ set[1].id = doc[q][e]
    BY <1>1, SegmentIs
  <1>3. set[1] = CitesOf(doc, q)[e]
    BY <1>1 DEF Segment
  <1>4. e \in Nat
    BY <1>2, CitesIn
  <1>5. e = k - Len(set) + 1
    OBVIOUS
  <1> HIDE DEF e
  <1>6. QED
    BY <1>1, <1>2, <1>3, <1>4, <1>5

\* A chain goes on no longer than the set that was composed.
LEMMA SetChained ==
    ASSUME ParallelAssumption, NEW doc \in Documents, NoRepeats(doc), NEW q \in DOMAIN doc,
           NEW k \in 0 .. Len(doc[q]), NEW set \in Seq(Cites), Segment(set, doc, q, k),
           NEW m, \A l \in DOMAIN doc[q] : l = k + 1 => doc[q][l] \notin Parallel(m),
           NEW n, Marked(m, n, set), Kept(m, n, set, Len(set)), set # <<>>,
           NEW e \in DOMAIN doc[q], e = k - Len(set) + 1, e <= k,
           NEW l \in DOMAIN doc[q], Chain(n, doc, q, e, l)
    PROVE  Holds(n, doc[q][e], doc[q][l])
  <1>1. /\ DOMAIN doc[q] = 1 .. Len(doc[q]) /\ Len(doc[q]) \in Nat
        /\ l \in Nat /\ e \in Nat /\ k \in Nat
    BY CitesIn
  <1>2. l <= k
    <2>1. SUFFICES ASSUME l > k PROVE FALSE
      BY <1>1
    <2> DEFINE o == k + 1
    <2>2. o \in DOMAIN doc[q] /\ o \in e + 1 .. l /\ o > k /\ o = k + 1
      BY <1>1, <2>1
    <2> HIDE DEF o
    <2>3. doc[q][o] \in Parallel(n) /\ doc[q][o] \notin Parallel(m)
      BY <2>2 DEF Chain
    <2>4. PICK f \in DOMAIN set : doc[q][o] = set[f].id
      BY <2>3 DEF Marked
    <2>5. QED
      BY <2>2, <2>4, SegmentIs
  <1>3. QED
    BY <1>2, HeadChained DEF Chain

\* The marks stay linked when the set is composed.
LEMMA ComposedLinked ==
    ASSUME ParallelAssumption, NEW doc \in Documents, NoRepeats(doc), NEW q \in DOMAIN doc,
           NEW k \in 0 .. Len(doc[q]), NEW r, Good(r, doc, FALSE), Linked(r.marks, doc),
           Tidy(r.marks, r.set, doc), Segment(r.set, doc, q, k), Heads(r.marks, r.set, k),
           \A l \in DOMAIN doc[q] : l = k + 1 => doc[q][l] \notin Parallel(r.marks)
    PROVE  Linked(Composed(r), doc) /\ Marked(r.marks, Composed(r), r.set)
  <1> DEFINE m == r.marks
             n == Composed(r)
             set == r.set
  <1>1. /\ set \in Seq(Cites) /\ Segment(set, doc, q, k) /\ Heads(m, set, k)
        /\ \A l \in DOMAIN doc[q] : l = k + 1 => doc[q][l] \notin Parallel(m)
        /\ Ordered(m, doc) /\ Chained(m, doc)
    BY RenderingIs DEF Good, Linked
  <1>2. Len(set) = 1 => n = m
    BY DEF Composed
  <1>3. Distinct(set) /\ Runs(set) /\ k \in Nat /\ Len(set) \in Nat
        /\ DOMAIN set = 1 .. Len(set)
    <2> HIDE DEF set
    <2>1. QED
      BY <1>1, SegmentIs, SegmentRuns
  <1>4. Ordered(n, doc) /\ Marked(m, n, set) /\ (Len(set) # 1 => Kept(m, n, set, Len(set)))
    BY <1>1, <1>3, ComposedOrdered
  <1> HIDE DEF m, n, set
  <1>5. \A y \in DOMAIN set : set[y] = CitesOf(doc, q)[(k - Len(set)) + y]
    BY <1>1 DEF Segment
  <1>6. \A y \in DOMAIN set : /\ (k - Len(set)) + y \in DOMAIN doc[q]
                               /\ set[y].id = doc[q][(k - Len(set)) + y]
    BY <1>1, SegmentIs
  <1>7. ASSUME Len(set) # 1, NEW p \in DOMAIN doc,
               NEW j \in DOMAIN doc[p], NEW l \in DOMAIN doc[p], Chain(n, doc, p, j, l)
        PROVE  Holds(n, doc[p][j], doc[p][l])
    <2>1. /\ j \in Nat /\ l \in Nat /\ j < l /\ j \in j .. l
          /\ CitesOf(doc, p)[j].first /\ doc[p][j] \notin Parallel(n)
          /\ DOMAIN doc[p] = 1 .. Len(doc[p]) /\ Len(doc[p]) \in Nat
      <3>1. j \in Nat /\ l \in Nat /\ j < l
            /\ DOMAIN doc[p] = 1 .. Len(doc[p]) /\ Len(doc[p]) \in Nat
        BY <1>7, CitesIn DEF Chain
      <3>2. j \in j .. l
        BY <3>1
      <3>3. QED
        BY <1>7, <3>1, <3>2 DEF Chain
    <2>2. Kept(m, n, set, Len(set))
      BY <1>4, <1>7
    <2>3. ASSUME NEW e \in DOMAIN doc[q], e = k - Len(set) + 1, e <= k, set # <<>>, p = q, j = e
          PROVE  Holds(n, doc[p][j], doc[p][l])
      BY <1>1, <1>4, <1>7, <2>2, <2>3, SetChained
    <2>4. CASE \A g \in j + 1 .. l : doc[p][g] \in Parallel(m)
      <3>1. Chain(m, doc, p, j, l)
        BY <1>4, <1>7, <2>4 DEF Chain, Marked
      <3>2. Holds(m, doc[p][j], doc[p][l])
        BY <1>1, <3>1 DEF Chained
      <3>3. CASE set # <<>> /\ set[1].first /\ doc[p][j] = set[1].id
        <4>1. PICK e \in DOMAIN doc[q] :
                 /\ e = k - Len(set) + 1 /\ e <= k /\ e \in Nat
                 /\ set[1] = CitesOf(doc, q)[e] /\ set[1].id = doc[q][e]
          BY <1>1, <3>3, SegmentHead
        <4>2. CitesOf(doc, q)[e].first /\ doc[q][e] = doc[p][j]
          BY <3>3, <4>1
        <4>3. p = q /\ j = e
          BY <2>1, <4>2, FirstPlace
        <4>4. QED
          BY <2>3, <3>3, <4>1, <4>3
      <3>4. CASE ~(set # <<>> /\ set[1].first /\ doc[p][j] = set[1].id)
        BY <2>2, <3>2, <3>4 DEF Kept
      <3>5. QED
        BY <3>3, <3>4
    <2>5. CASE \E g \in j + 1 .. l : doc[p][g] \notin Parallel(m)
      <3>1. PICK g \in j + 1 .. l : doc[p][g] \notin Parallel(m)
        BY <2>5
      <3>2. g \in DOMAIN doc[p] /\ g \in j .. l /\ g \in Nat /\ g > j /\ g <= l
        BY <2>1
      <3>3. doc[p][g] \in Parallel(n) /\ CitesOf(doc, p)[g].first
        BY <1>7, <3>2 DEF Chain
      <3>4. PICK f \in DOMAIN set : f > 1 /\ set[f].first /\ doc[p][g] = set[f].id
        BY <1>4, <3>1, <3>3 DEF Marked
      <3>5. set # <<>> /\ f \in Nat
        BY <1>3, <3>4
      <3>6. PICK e \in DOMAIN doc[q] :
               /\ e = k - Len(set) + 1 /\ e <= k /\ e \in Nat
               /\ set[1] = CitesOf(doc, q)[e] /\ set[1].id = doc[q][e]
               /\ 1 \in DOMAIN set
        BY <1>1, <3>5, SegmentHead
      <3> DEFINE x == (k - Len(set)) + f
      <3>7. x \in DOMAIN doc[q] /\ set[f] = CitesOf(doc, q)[x] /\ set[f].id = doc[q][x]
        BY <1>5, <1>6
      <3>8. p = q /\ g = x
        <4> HIDE DEF x
        <4>1. CitesOf(doc, q)[x].first /\ doc[p][g] = doc[q][x]
          BY <3>4, <3>7
        <4>2. QED
          BY <3>2, <3>3, <3>7, <4>1, FirstPlace
      <3>9. CASE j > e
        <4> DEFINE y == j - e + 1
        <4>1. y \in 2 .. Len(set) /\ y \in DOMAIN set /\ (k - Len(set)) + y = j
          <5> DEFINE b == Len(set)
          <5>1. j < x /\ j \in Int /\ b \in Nat /\ k \in Int /\ f \in Int /\ f <= b
            BY <1>3, <2>1, <3>2, <3>8
          <5>2. e = k - b + 1 /\ e \in Int /\ j > e
            BY <3>6, <3>9
          <5>3. x = (k - b) + f /\ y = j - e + 1 /\ x \in Int /\ y \in Int
            BY <5>1, <5>2
          <5> HIDE DEF b, x, y
          <5>4. y >= 2
            BY <5>1, <5>2, <5>3
          <5>5. (k - b) + y = j
            BY <5>1, <5>2, <5>3
          <5>6. y <= b
            BY <5>1, <5>3, <5>5
          <5>7. QED
            BY <1>3, <5>1, <5>3, <5>4, <5>5, <5>6 DEF b
        <4> HIDE DEF y
        <4>2. set[y] = CitesOf(doc, q)[(k - Len(set)) + y]
              /\ set[y].id = doc[q][(k - Len(set)) + y]
          BY <4>1, <1>5, <1>6
        <4>3. set[y] = CitesOf(doc, q)[j] /\ set[y].id = doc[q][j]
          BY <4>1, <4>2
        <4>4. doc[q][j] \in Parallel(n)
          BY <2>1, <2>2, <3>8, <4>1, <4>3 DEF Kept
        <4>5. QED
          BY <2>1, <3>8, <4>4
      <3>10. CASE j < e
        <4>1. e \in j + 1 .. l
          <5>1. x <= l /\ x > e
            BY <1>3, <3>2, <3>4, <3>5, <3>6, <3>8
          <5>2. QED
            BY <2>1, <3>6, <3>10, <5>1
        <4>2. set[1].id \in Parallel(n)
          BY <1>7, <3>6, <3>8, <4>1 DEF Chain
        <4>3. set[1].id \in Parallel(m)
          <5>1. SUFFICES ASSUME set[1].id \notin Parallel(m) PROVE FALSE
            OBVIOUS
          <5>2. PICK y \in DOMAIN set : y > 1 /\ set[1].id = set[y].id
            BY <1>4, <4>2, <5>1 DEF Marked
          <5>3. y = 1
            BY <1>3, <3>6, <5>2 DEF Distinct
          <5>4. QED
            BY <5>2, <5>3
        <4>4. Len(set) = k
          BY <1>1, <3>5, <4>3 DEF Heads
        <4>5. e = 1 /\ j >= 1
          BY <1>3, <2>1, <3>6, <4>4
        <4>6. QED
          BY <2>1, <3>10, <4>5
      <3>11. CASE j = e
        BY <2>3, <3>5, <3>6, <3>8, <3>11
      <3>12. QED
        BY <2>1, <3>6, <3>9, <3>10, <3>11
    <2>6. QED
      BY <2>4, <2>5
  <1>8. Chained(n, doc)
    BY <1>1, <1>2, <1>7 DEF Chained
  <1>9. QED
    BY <1>4, <1>8 DEF Linked, m, n, set

\* The first cites that are still to be marked are not of masters.
Fresh(r, doc, q, k) ==
    \A l \in DOMAIN doc[q] :
        l > k - Len(r.set) /\ CitesOf(doc, q)[l].first => doc[q][l] \notin r.marks.master

InStep(r, doc, q, k, fresh) ==
    /\ Good(r, doc, FALSE)
    /\ Linked(r.marks, doc)
    /\ Tidy(r.marks, r.set, doc)
    /\ Segment(r.set, doc, q, k)
    /\ Heads(r.marks, r.set, k)
    /\ k > 0 => r.set # <<>>
    /\ r.series <=> ~Broken(doc, r.marks, q, k)
    /\ fresh => Fresh(r, doc, q, k)

\* What is known of the next cite.
NextCite(r, c, doc, q, k, h) ==
    /\ getCite(r, c) = CloseCite(r, c)
    /\ Good(CloseCite(r, c), doc, FALSE)
    /\ c \in Cites /\ c.id = doc[q][k] /\ doc[q][k] \in Item
    /\ k \in DOMAIN doc[q] /\ k \in Nat /\ h \in 0 .. Len(doc[q])
    /\ k = 1 => r.set = <<>>
    /\ k > 1 => r.set # <<>> /\ Last(r.set).id = doc[q][h] /\ h \in DOMAIN doc[q]
    /\ r \in Renderings /\ r.set \in Seq(Cites) /\ Segment(r.set, doc, q, h)

\* A first cite of an item known to be parallel follows another.
LEMMA FirstNotParallel ==
    ASSUME ParallelAssumption, NEW doc \in Documents, NEW m, Cased(m, doc), NEW q \in DOMAIN doc,
           1 \in DOMAIN doc[q], CitesOf(doc, q)[1].first
    PROVE  doc[q][1] \notin Parallel(m)
  <1> DEFINE c == CitesOf(doc, q)[1]
  <1>1. c \in Firsts(doc) /\ c.id = doc[q][1] /\ c.prev = None
    BY CitesIn
  <1> HIDE DEF c
  <1>2. c.id \in Parallel(m) => c.prev \in Item
    BY <1>1 DEF Cased, Fits
  <1>3. QED
    BY <1>1, <1>2 DEF ParallelAssumption

\* What getCite is in such a citation: no item comes again.
LEMMA getCiteIs ==
    ASSUME ParallelAssumption, NEW doc \in Documents, NoRepeats(doc), NEW q \in DOMAIN doc,
           NEW k \in 1 .. Len(doc[q]), NEW h, h = k - 1,
           NEW r, NEW fresh, InStep(r, doc, q, h, fresh),
           NEW c, c = CitesOf(doc, q)[k]
    PROVE  NextCite(r, c, doc, q, k, h)
  <1>1. k \in DOMAIN doc[q] /\ DOMAIN doc[q] = 1 .. Len(doc[q]) /\ Len(doc[q]) \in Nat
        /\ k \in Nat /\ h \in 0 .. Len(doc[q])
    BY CitesIn
  <1>2. /\ c \in Cites /\ c.id = doc[q][k] /\ doc[q][k] \in Cited(doc) /\ doc[q][k] \in Item
        /\ c.first => c \in Firsts(doc)
        /\ k > 1 => h \in DOMAIN doc[q] /\ c.prev = doc[q][h]
    BY <1>1, CitesIn
  <1>3. r \in Renderings /\ r.set \in Seq(Cites) /\ Segment(r.set, doc, q, h)
        /\ Good(r, doc, FALSE) /\ (h > 0 => r.set # <<>>)
    BY RenderingIs DEF InStep, Good
  <1>4. k = 1 => r.set = <<>>
    <2>1. Len(r.set) <= h /\ Len(r.set) \in Nat
      BY <1>3 DEF Segment
    <2>2. QED
      BY <1>3, <2>1
  <1>5. k > 1 => r.set # <<>> /\ Last(r.set).id = doc[q][h]
    <2>1. SUFFICES ASSUME k > 1 PROVE r.set # <<>> /\ Last(r.set).id = doc[q][h]
      OBVIOUS
    <2>2. r.set # <<>>
      BY <1>1, <1>3, <2>1
    <2>3. Last(r.set) = CitesOf(doc, q)[h] /\ h \in DOMAIN doc[q]
      BY <1>1, <1>3, <2>2, SegmentIs
    <2>4. QED
      BY <2>2, <2>3, CitesIn
  <1>6. k = 1 \/ k > 1
    BY <1>1
  <1>7. ASSUME r.set # <<>> PROVE r.set[1].id # c.id
    <2>1. 1 \in DOMAIN r.set
      BY <1>1, <1>3, <1>7, SegmentIs
    <2>2. k > h
      BY <1>1
    <2> DEFINE e == r.set
    <2>3. h \in 0 .. Len(doc[q]) /\ e \in Seq(Cites) /\ Segment(e, doc, q, h)
      BY <1>1, <1>3
    <2> HIDE DEF e
    <2>4. \A j \in DOMAIN e : \A l \in DOMAIN doc[q] : l > h => e[j].id # doc[q][l]
      BY <2>3, SegmentApart
    <2>5. QED
      BY <1>1, <1>2, <2>1, <2>2, <2>4 DEF e
  <1>8. getCite(r, c) = CloseCite(r, c)
    BY <1>7 DEF getCite, StartCite
  <1>9. Good(CloseCite(r, c), doc, FALSE)
    <2>1. c.first => c \in Firsts(doc) /\ (r.set # <<>> => c.prev = Last(r.set).id)
      BY <1>2, <1>4, <1>5, <1>6
    <2>2. c.id \in Cited(doc) /\ c \in Cites
      BY <1>2
    <2>3. QED
      BY <1>3, <2>1, <2>2, CloseCiteGood
  <1>10. QED
    BY <1>1, <1>2, <1>3, <1>4, <1>5, <1>8, <1>9 DEF NextCite

\* The cite joins the set.
LEMMA JoinsInStep ==
    ASSUME ParallelAssumption, NEW doc \in Documents, NoRepeats(doc), NEW q \in DOMAIN doc,
           NEW k \in 1 .. Len(doc[q]), NEW h, h = k - 1,
           NEW r, NEW fresh, InStep(r, doc, q, h, fresh),
           NEW c, c = CitesOf(doc, q)[k], Goes(r, c) \/ Forced(r, c)
    PROVE  InStep(getCite(r, c), doc, q, k, fresh)
  <1> DEFINE s == getCite(r, c)
             t == Append(r.set, c)
  <1>1. NextCite(r, c, doc, q, k, h)
    BY getCiteIs
  <1>2. /\ getCite(r, c) = CloseCite(r, c) /\ Good(CloseCite(r, c), doc, FALSE)
        /\ c \in Cites /\ c.id = doc[q][k] /\ doc[q][k] \in Item
        /\ k \in DOMAIN doc[q] /\ k \in Nat /\ h \in 0 .. Len(doc[q])
        /\ k = 1 => r.set = <<>>
        /\ k > 1 => /\ r.set # <<>> /\ Last(r.set).id = doc[q][h]
                    /\ h \in DOMAIN doc[q]
        /\ r \in Renderings /\ r.set \in Seq(Cites) /\ Segment(r.set, doc, q, h)
    BY <1>1 DEF NextCite
  <1>3. CloseCite(r, c) = [marks |-> r.marks, set |-> t, series |-> Goes(r, c)]
    BY <1>2, CloseCiteIs
  <1>4. /\ t \in Seq(Cites) /\ t # <<>> /\ Len(t) = Len(r.set) + 1
        /\ DOMAIN t = 1 .. Len(r.set) + 1 /\ t[Len(r.set) + 1] = c
        /\ \A n \in 1 .. Len(r.set) : t[n] = r.set[n]
    BY <1>2, AppendIn
  <1>5. DOMAIN r.set = 1 .. Len(r.set) /\ Len(r.set) \in Nat
    BY <1>2
  <1> DEFINE g == Goes(r, c)
  <1>6. s.marks = r.marks /\ s.set = t /\ s.series = g
    <2>1. s = CloseCite(r, c)
      BY <1>2
    <2>2. CloseCite(r, c) = [marks |-> r.marks, set |-> t, series |-> g]
      BY <1>3
    <2> HIDE DEF s, t, g
    <2>3. QED
      BY <2>1, <2>2
  <1>7. Good(s, doc, FALSE)
    BY <1>2
  <1> HIDE DEF s, t
  <1>8. k = 1 \/ k > 1
    BY <1>2
  <1>9. Forced(r, c) <=> doc[q][k] \in Parallel(r.marks)
    BY <1>2 DEF Forced, Parallel
  <1>10. Cased(r.marks, doc) /\ Ordered(r.marks, doc) /\ Tidy(r.marks, r.set, doc)
        /\ Linked(r.marks, doc)
    BY DEF InStep, Good, Sound, Linked
  <1>11. r.series <=> ~Broken(doc, r.marks, q, h)
    BY DEF InStep
  <1>12. k > 1 => (Goes(r, c) <=> r.series /\ Alike(doc[q][h], doc[q][k]))
    BY <1>2 DEF Goes, Matches, Alike
  <1>13. s.series <=> ~Broken(doc, s.marks, q, k)
    <2>1. CASE k = 1
      <3>1. ~Broken(doc, r.marks, q, k) /\ ~Broken(doc, r.marks, q, h)
        BY <1>2, <2>1, BrokenNone
      <3>2. Goes(r, c) <=> Case[c.id] # None
        BY <1>2, <1>11, <2>1, <3>1 DEF Goes, Matches
      <3>3. Forced(r, c) => Case[c.id] # None
        BY <1>2, <1>9, <1>10 DEF Cased
      <3>4. QED
        BY <1>6, <3>1, <3>2, <3>3
    <2>2. CASE k > 1
      <3>1. Broken(doc, r.marks, q, k) <=>
               /\ doc[q][k] \in Parallel(r.marks)
               /\ ~Alike(doc[q][h], doc[q][k]) \/ Broken(doc, r.marks, q, h)
        <4>1. k >= 2
          BY <1>2, <2>2
        <4>2. QED
          BY <1>2, <4>1, BrokenNext
      <3>2. QED
        BY <1>6, <1>9, <1>11, <1>12, <2>2, <3>1
    <2>3. QED
      BY <1>8, <2>1, <2>2
  <1>14. Segment(t, doc, q, k)
    <2>1. Len(t) <= k
      BY <1>2, <1>4, <1>5 DEF Segment
    <2>2. k - Len(t) = h - Len(r.set)
      BY <1>2, <1>4, <1>5
    <2>3. ASSUME NEW n \in DOMAIN t
          PROVE  t[n] = CitesOf(doc, q)[(k - Len(t)) + n]
      <3>1. CASE n = Len(r.set) + 1
        <4>1. (h - Len(r.set)) + n = k
          BY <1>2, <1>5, <3>1
        <4>2. QED
          BY <1>4, <2>2, <3>1, <4>1
      <3>2. CASE n # Len(r.set) + 1
        <4>1. n \in DOMAIN r.set /\ t[n] = r.set[n]
          BY <1>4, <1>5, <3>2
        <4>2. QED
          BY <1>2, <2>2, <4>1 DEF Segment
      <3>3. QED
        BY <3>1, <3>2
    <2>4. QED
      BY <2>1, <2>3 DEF Segment
  <1>15. Tidy(r.marks, t, doc)
    <2>1. ASSUME t[1].first
          PROVE  t[1].id \notin Parallel(r.marks) /\ Leads(doc, r.marks, t[1].id)
      <3>1. CASE k = 1
        <4>1. t[1] = c
          BY <1>2, <1>4, <3>1
        <4>2. c.id \notin Parallel(r.marks)
          BY <1>2, <1>10, <2>1, <3>1, <4>1, FirstNotParallel
        <4>3. Leads(doc, r.marks, c.id)
          BY <1>2, <2>1, <3>1, <4>1, LeadsAt DEF Opens
        <4>4. QED
          BY <4>1, <4>2, <4>3
      <3>2. CASE k > 1
        <4>1. t[1] = r.set[1] /\ r.set # <<>>
          BY <1>2, <1>4, <1>5, <3>2
        <4>2. QED
          BY <1>10, <2>1, <4>1 DEF Tidy
      <3>3. QED
        BY <1>8, <3>1, <3>2
    <2>2. ASSUME NEW n \in DOMAIN t, n > 1, t[n].first
          PROVE  t[n].id \notin r.marks.master
      <3>1. CASE n = Len(r.set) + 1
        <4>1. k > 1 /\ t[n] = c
          <5>1. r.set # <<>> /\ t[n] = c
            BY <1>4, <1>5, <2>2, <3>1
          <5>2. QED
            BY <1>2, <1>8, <5>1
        <4>2. CASE Forced(r, c)
          BY <1>2, <1>9, <1>10, <4>1, <4>2 DEF Ordered
        <4>3. CASE Goes(r, c)
          <5>1. SUFFICES ASSUME c.id \in r.marks.master PROVE FALSE
            BY <4>1
          <5>2. Opens(doc, r.marks, q, k)
            BY <1>2, <1>10, <2>2, <4>1, <5>1 DEF Ordered, Leads
          <5>3. QED
            BY <1>11, <1>12, <4>1, <4>3, <5>2 DEF Opens
        <4>4. QED
          BY <4>2, <4>3
      <3>2. CASE n # Len(r.set) + 1
        <4>1. n \in DOMAIN r.set /\ t[n] = r.set[n]
          BY <1>4, <1>5, <3>2
        <4>2. QED
          BY <1>10, <2>2, <4>1 DEF Tidy
      <3>3. QED
        BY <3>1, <3>2
    <2>3. QED
      BY <2>1, <2>2 DEF Tidy
  <1>16. fresh => Fresh(s, doc, q, k)
    <2>1. k - Len(t) = h - Len(r.set)
      BY <1>2, <1>4, <1>5
    <2>2. QED
      BY <1>6, <2>1 DEF InStep, Fresh
  <1>17. Heads(r.marks, t, k)
    <2>1. CASE k = 1
      BY <1>2, <1>4, <1>5, <2>1 DEF Heads
    <2>2. CASE k > 1
      <3>1. r.set # <<>> /\ t[1] = r.set[1]
        BY <1>2, <1>4, <1>5, <2>2
      <3>2. Len(r.set) = h => Len(t) = k
        BY <1>2, <1>4
      <3>3. QED
        BY <3>1, <3>2 DEF InStep, Heads
    <2>3. QED
      BY <1>8, <2>1, <2>2
  <1>18. InStep(s, doc, q, k, fresh)
    BY <1>2, <1>4, <1>6, <1>7, <1>10, <1>13, <1>14, <1>15, <1>16, <1>17 DEF InStep, g
  <1>19. QED
    BY <1>18 DEF s

\* The cite begins a new set.
LEMMA BeginsInStep ==
    ASSUME ParallelAssumption, NEW doc \in Documents, NoRepeats(doc), NEW q \in DOMAIN doc,
           NEW k \in 1 .. Len(doc[q]), NEW h, h = k - 1,
           NEW r, NEW fresh, InStep(r, doc, q, h, fresh),
           NEW c, c = CitesOf(doc, q)[k], ~Goes(r, c), ~Forced(r, c)
    PROVE  InStep(getCite(r, c), doc, q, k, fresh)
  <1> DEFINE s == getCite(r, c)
             t == <<c>>
             n == Composed(r)
  <1>1. NextCite(r, c, doc, q, k, h)
    BY getCiteIs
  <1>2. /\ getCite(r, c) = CloseCite(r, c) /\ Good(CloseCite(r, c), doc, FALSE)
        /\ c \in Cites /\ c.id = doc[q][k] /\ doc[q][k] \in Item
        /\ k \in DOMAIN doc[q] /\ k \in Nat /\ h \in 0 .. Len(doc[q])
        /\ k = 1 => r.set = <<>>
        /\ k > 1 => /\ r.set # <<>> /\ Last(r.set).id = doc[q][h]
                    /\ h \in DOMAIN doc[q]
        /\ r \in Renderings /\ r.set \in Seq(Cites) /\ Segment(r.set, doc, q, h)
    BY <1>1 DEF NextCite
  <1>3. CloseCite(r, c) = [marks |-> n, set |-> t, series |-> TRUE]
    BY <1>2, CloseCiteIs
  <1>4. t # <<>> /\ Len(t) = 1 /\ DOMAIN t = {1} /\ t[1] = c
    OBVIOUS
  <1>5. Cased(r.marks, doc) /\ Linked(r.marks, doc) /\ Tidy(r.marks, r.set, doc)
        /\ Good(r, doc, FALSE) /\ Heads(r.marks, r.set, h)
    BY DEF InStep, Good, Sound
  <1>6. /\ DOMAIN r.set = 1 .. Len(r.set) /\ Len(r.set) \in Nat
        /\ \A j \in DOMAIN r.set : \A l \in DOMAIN doc[q] : l > h => r.set[j].id # doc[q][l]
        /\ Distinct(r.set)
        /\ r.set # <<>> => 1 \in DOMAIN r.set
    <2> DEFINE e == r.set
    <2>1. h \in 0 .. Len(doc[q]) /\ e \in Seq(Cites) /\ Segment(e, doc, q, h)
      BY <1>2
    <2> HIDE DEF e
    <2>2. /\ DOMAIN e = 1 .. Len(e) /\ Len(e) \in Nat /\ Distinct(e)
          /\ e # <<>> => 1 \in DOMAIN e
      BY <2>1, SegmentDistinct
    <2>3. \A j \in DOMAIN e : \A l \in DOMAIN doc[q] : l > h => e[j].id # doc[q][l]
      BY <2>1, SegmentApart
    <2>4. QED
      BY <2>2, <2>3 DEF e
  <1>7. Linked(n, doc) /\ Marked(r.marks, n, r.set)
    <2>1. \A l \in DOMAIN doc[q] : l = h + 1 => doc[q][l] \notin Parallel(r.marks)
      BY <1>2 DEF Forced, Parallel
    <2> HIDE DEF n
    <2>2. QED
      BY <1>2, <1>5, <2>1, ComposedLinked DEF n
  <1>8. s.marks = n /\ s.set = t /\ s.series = TRUE
    <2> DEFINE g == TRUE
    <2>1. s = CloseCite(r, c)
      BY <1>2
    <2>2. CloseCite(r, c) = [marks |-> n, set |-> t, series |-> g]
      BY <1>3
    <2> HIDE DEF s, t, n, g
    <2>3. s.marks = n /\ s.set = t /\ s.series = g
      BY <2>1, <2>2
    <2>4. QED
      BY <2>3 DEF g
  <1>9. Good(s, doc, FALSE)
    BY <1>2
  <1> HIDE DEF s, t, n
  <1>10. k = 1 \/ k > 1
    BY <1>2
  <1>11. k > h
    BY <1>2
  <1>12. doc[q][k] \notin Parallel(n)
    <2>1. doc[q][k] \notin Parallel(r.marks)
      BY <1>2 DEF Forced, Parallel
    <2>2. \A j \in DOMAIN r.set : r.set[j].id # doc[q][k]
      BY <1>2, <1>6, <1>11
    <2>3. QED
      BY <1>7, <2>1, <2>2 DEF Marked
  <1>13. ~Broken(doc, n, q, k)
    <2>1. CASE k = 1
      BY <1>2, <2>1, BrokenNone
    <2>2. CASE k > 1
      <3>1. k >= 2
        BY <1>2, <2>2
      <3>2. QED
        BY <1>2, <1>12, <3>1, BrokenNext
    <2>3. QED
      BY <1>10, <2>1, <2>2
  <1>14. Segment(t, doc, q, k)
    <2>1. 1 <= k /\ h + 1 = k
      BY <1>2
    <2>2. QED
      BY <1>4, <2>1 DEF Segment
  <1>15. Opens(doc, n, q, k)
    <2>1. CASE k = 1
      BY <2>1 DEF Opens
    <2>2. CASE k > 1
      <3>1. CASE ~r.series
        <4>1. Broken(doc, r.marks, q, h)
          BY <3>1 DEF InStep
        <4>2. Broken(doc, n, q, h)
          BY <1>7, <4>1, BrokenStill DEF Marked
        <4>3. QED
          BY <4>2 DEF Opens
      <3>2. CASE r.series
        <4>1. ~Alike(doc[q][h], doc[q][k])
          BY <1>2, <2>2, <3>2 DEF Goes, Matches, Alike
        <4>2. QED
          BY <4>1 DEF Opens
      <3>3. QED
        BY <3>1, <3>2
    <2>3. QED
      BY <1>10, <2>1, <2>2
  <1>16. Tidy(n, t, doc)
    <2>1. c.first => Leads(doc, n, c.id)
      BY <1>2, <1>15, LeadsAt
    <2>2. QED
      BY <1>2, <1>4, <1>12, <2>1 DEF Tidy
  <1>17. fresh => Fresh(s, doc, q, k)
    <2>1. SUFFICES ASSUME fresh, NEW l \in DOMAIN doc[q], l > h,
                          CitesOf(doc, q)[l].first
                   PROVE  doc[q][l] \notin n.master
      BY <1>4, <1>8 DEF Fresh
    <2>2. l > h - Len(r.set)
      <3> DEFINE e == Len(r.set)
      <3>1. l \in Nat
        BY CitesIn
      <3>2. h \in Int /\ e \in Nat /\ l > h
        BY <1>2, <1>6, <2>1
      <3> HIDE DEF e
      <3>3. l > h - e
        BY <3>1, <3>2
      <3>4. QED
        BY <3>3 DEF e
    <2>3. doc[q][l] \notin r.marks.master
      BY <2>1, <2>2 DEF InStep, Fresh
    <2>4. r.set # <<>> => doc[q][l] # r.set[1].id
      BY <1>6, <2>1
    <2>5. QED
      BY <1>7, <2>3, <2>4 DEF Marked
  <1>18. Heads(n, t, k)
    BY <1>2, <1>4, <1>12 DEF Heads
  <1>19. InStep(s, doc, q, k, fresh)
    BY <1>2, <1>4, <1>7, <1>8, <1>9, <1>13, <1>14, <1>16, <1>17, <1>18 DEF InStep
  <1>20. QED
    BY <1>19 DEF s

-----------------------------------------------------------------------------
(* Whole citations that repeat no item. *)

\* The next cite of the citation is rendered.
LEMMA NextInStep ==
    ASSUME ParallelAssumption, NEW doc \in Documents, NoRepeats(doc), NEW q \in DOMAIN doc,
           NEW k \in 1 .. Len(doc[q]), NEW h, h = k - 1,
           NEW r, NEW fresh, InStep(r, doc, q, h, fresh),
           NEW c, c = CitesOf(doc, q)[k]
    PROVE  InStep(getCite(r, c), doc, q, k, fresh)
  <1>1. CASE Goes(r, c) \/ Forced(r, c)
    BY <1>1, JoinsInStep
  <1>2. CASE ~Goes(r, c) /\ ~Forced(r, c)
    BY <1>2, BeginsInStep
  <1>3. QED
    BY <1>1, <1>2

\* No master is first cited here.
FirstsFree(m, doc, q) ==
    \A l \in DOMAIN doc[q] : CitesOf(doc, q)[l].first => doc[q][l] \notin m.master

\* A citation begins.
LEMMA StartInStep ==
    ASSUME ParallelAssumption, NEW doc \in Documents, NEW q \in DOMAIN doc,
           NEW r \in Renderings, Sound(r.marks, doc, FALSE), Linked(r.marks, doc),
           NEW fresh, fresh => FirstsFree(r.marks, doc, q)
    PROVE  InStep(StartCitation(r), doc, q, 0, fresh)
  <1> DEFINE s == StartCitation(r)
             e == <<>>
             t == TRUE
  <1>1. Good(s, doc, FALSE)
    BY StartGood
  <1>2. s = [marks |-> r.marks, set |-> e, series |-> t]
    BY StartCitationIs
  <1>3. Len(e) = 0 /\ DOMAIN e = {} /\ e = <<>> /\ t = TRUE
    OBVIOUS
  <1> HIDE DEF s, e, t
  <1>4. s.marks = r.marks /\ s.set = e /\ s.series = t
    BY <1>2
  <1>5. Tidy(s.marks, s.set, doc) /\ Segment(s.set, doc, q, 0) /\ Heads(s.marks, s.set, 0)
    BY <1>3, <1>4 DEF Tidy, Segment, Heads
  <1>6. fresh => Fresh(s, doc, q, 0)
    BY <1>4 DEF Fresh, FirstsFree
  <1>7. ~Broken(doc, s.marks, q, 0)
    <2> DEFINE z == 0
    <2>1. z \in Nat /\ z <= 1
      OBVIOUS
    <2> HIDE DEF z
    <2>2. ~Broken(doc, s.marks, q, z)
      BY <2>1, BrokenNone
    <2>3. QED
      BY <2>2 DEF z
  <1>8. ~(0 > 0)
    OBVIOUS
  <1>9. InStep(s, doc, q, 0, fresh)
    BY <1>1, <1>3, <1>4, <1>5, <1>6, <1>7, <1>8 DEF InStep
  <1>10. QED
    BY <1>9 DEF s

\* All cites of a citation.
LEMMA CitationInStep ==
    ASSUME ParallelAssumption, NEW doc \in Documents, NoRepeats(doc), NEW q \in DOMAIN doc,
           NEW r \in Renderings, Sound(r.marks, doc, FALSE), Linked(r.marks, doc),
           NEW fresh, fresh => FirstsFree(r.marks, doc, q),
           NEW end, end = FoldLeft(RenderCite, [r |-> StartCitation(r), moved |-> FALSE],
                                   CitesOf(doc, q))
    PROVE  /\ end \in Rendering
           /\ InStep(end.r, doc, q, Len(doc[q]), fresh)
  <1> DEFINE b == [r |-> StartCitation(r), moved |-> FALSE]
             cites == CitesOf(doc, q)
             n == Len(doc[q])
             Y == [k \in 0 .. n |-> {s \in Rendering : InStep(s.r, doc, q, k, fresh)}]
  <1>1. end = FRender!Folded(b, cites, 0)
    BY DEF RenderStep, FoldLeft, MapThenFoldSet, Max, FRender!Folded, FRender!Last
  <1>2. DOMAIN cites = 1 .. n /\ n \in Nat
    BY CitesIn
  <1>3. b \in Y[0]
    <2>1. InStep(b.r, doc, q, 0, fresh)
      BY StartInStep
    <2>2. b.r \in Renderings /\ b \in Rendering
      <3>1. StartCitation(r) \in Renderings
        BY <2>1 DEF InStep, Good
      <3>2. QED
        BY <3>1 DEF Rendering
    <2> HIDE DEF b
    <2>3. 0 \in 0 .. n
      BY <1>2
    <2>4. QED
      BY <2>1, <2>2, <2>3
  <1>4. FRender!Leads(Y, cites, n, 0)
    <2>1. SUFFICES ASSUME NEW k \in 1 .. n, NEW s \in Y[k - 1]
                   PROVE  RenderCite(s, cites[k]) \in Y[k]
      BY DEF FRender!Leads, RenderStep
    <2> DEFINE h == k - 1
               c == CitesOf(doc, q)[k]
    <2>2. k \in 0 .. n /\ h \in 0 .. n
      BY <1>2
    <2>3. s \in Rendering /\ InStep(s.r, doc, q, h, fresh)
      BY <2>2
    <2>4. h = k - 1 /\ c = CitesOf(doc, q)[k]
      OBVIOUS
    <2>5. RenderCite(s, c) = [r |-> getCite(s.r, c), moved |-> RenderCite(s, c).moved]
          /\ RenderCite(s, c).moved \in BOOLEAN
      BY <2>3 DEF RenderCite, Rendering
    <2> DEFINE t == RenderCite(s, c)
               g == getCite(s.r, c)
    <2> HIDE DEF h, c
    <2>6. InStep(g, doc, q, k, fresh)
      BY <2>3, <2>4, NextInStep
    <2>7. g \in Renderings
      BY <2>6 DEF InStep, Good
    <2>8. t = [r |-> g, moved |-> t.moved] /\ t.moved \in BOOLEAN
      BY <2>5
    <2> HIDE DEF t, g
    <2>9. t \in Rendering /\ InStep(t.r, doc, q, k, fresh)
      BY <2>6, <2>7, <2>8 DEF Rendering
    <2> HIDE DEF n
    <2>10. QED
      BY <2>2, <2>9 DEF t, c
  <1>5. FRender!Folded(b, cites, 0) \in Y[n]
    <2> HIDE DEF Y, cites, n
    <2>1. QED
      BY <1>2, <1>3, <1>4, FRender!FoldLeads
  <1>6. n \in 0 .. n
    BY <1>2
  <1>7. QED
    BY <1>1, <1>5, <1>6

\* What is left of the sets: but for the first, its cites are not first ones;
\* and a first cite is of an item that begins sets and is not marked.
Idle(r, doc) ==
    /\ Linked(r.marks, doc)
    /\ \A n \in DOMAIN r.set : r.set[n].first =>
          /\ n = 1
          /\ r.set[1].id \notin Parallel(r.marks)
          /\ r.set[1].id \notin r.marks.master
          /\ Leads(doc, r.marks, r.set[1].id)

\* A citation is rendered.
LEMMA ClusterLinked ==
    ASSUME ParallelAssumption, NEW doc \in Documents, NoRepeats(doc), NEW q \in DOMAIN doc,
           NEW r \in Renderings, Sound(r.marks, doc, FALSE), Linked(r.marks, doc),
           NEW fresh, fresh => FirstsFree(r.marks, doc, q),
           NEW s, s = process_CitationCluster(r, doc, q)
    PROVE  /\ Linked(s.r.marks, doc)
           /\ fresh => Idle(s.r, doc)
  <1>1. PICK end : end = FoldLeft(RenderCite, [r |-> StartCitation(r), moved |-> FALSE],
                                  CitesOf(doc, q))
    OBVIOUS
  <1> DEFINE k == Len(doc[q])
             u == end.r
             v == ComposeSet(u)
             m == Composed(u)
             set == IF Len(u.set) = 1 /\ u.series THEN u.set ELSE <<>>
             t == TRUE
  <1>2. end \in Rendering /\ InStep(u, doc, q, k, fresh)
    BY <1>1, CitationInStep
  <1>3. s = [end EXCEPT !.r = v]
    BY <1>1 DEF process_CitationCluster
  <1>4. k \in Nat /\ k \in 0 .. Len(doc[q])
    BY CitesIn
  <1>5. /\ u \in Renderings /\ u.set \in Seq(Cites) /\ Good(u, doc, FALSE)
        /\ Linked(u.marks, doc) /\ Tidy(u.marks, u.set, doc) /\ Segment(u.set, doc, q, k)
        /\ Heads(u.marks, u.set, k)
        /\ fresh => Fresh(u, doc, q, k)
    BY <1>2, RenderingIs DEF InStep, Good
  <1>6. v = [marks |-> m, set |-> set, series |-> t]
    BY <1>5, ComposeSetIs
  <1>7. \A l \in DOMAIN doc[q] : l # k + 1
    BY <1>4, CitesIn
  <1>8. Linked(m, doc)
    <2> HIDE DEF k, u
    <2>1. QED
      BY <1>4, <1>5, <1>7, ComposedLinked
  <1>9. s.r = v
    <2> HIDE DEF v
    <2>1. QED
      BY <1>2, <1>3 DEF Rendering
  <1>10. ASSUME fresh, NEW n \in DOMAIN set, set[n].first
         PROVE  /\ n = 1 /\ set[1].id \notin Parallel(m)
                /\ set[1].id \notin m.master /\ Leads(doc, m, set[1].id)
    <2>1. Len(u.set) = 1 /\ set = u.set
      BY <1>10
    <2>2. m = u.marks
      BY <2>1 DEF Composed
    <2>3. DOMAIN u.set = 1 .. Len(u.set)
      BY <1>5
    <2>4. n = 1 /\ u.set # <<>> /\ u.set[1].first
      BY <1>10, <2>1, <2>3
    <2>5. u.set[1].id \notin Parallel(m) /\ Leads(doc, m, u.set[1].id)
      BY <1>5, <2>2, <2>4 DEF Tidy
    <2>6. u.set[1] = CitesOf(doc, q)[(k - Len(u.set)) + 1] /\ Len(u.set) <= k
      BY <1>5, <2>1, <2>4 DEF Segment
    <2>7. (k - Len(u.set)) + 1 = k /\ k > k - Len(u.set) /\ k \in DOMAIN doc[q]
      BY <1>4, <2>1, <2>6, CitesIn
    <2>8. u.set[1] = CitesOf(doc, q)[k] /\ u.set[1].id = doc[q][k]
      <3> DEFINE l == (k - Len(u.set)) + 1
                 c == u.set[1]
      <3>1. l = k /\ c = CitesOf(doc, q)[l] /\ k \in DOMAIN doc[q]
        BY <2>6, <2>7
      <3> HIDE DEF l, c, k
      <3>2. c = CitesOf(doc, q)[k] /\ c.id = doc[q][k]
        BY <3>1, CitesIn
      <3>3. QED
        BY <3>2 DEF c
    <2>9. doc[q][k] \notin u.marks.master
      BY <1>5, <1>10, <2>4, <2>7, <2>8 DEF Fresh
    <2>10. QED
      BY <2>1, <2>2, <2>4, <2>5, <2>8, <2>9
  <1> HIDE DEF m, set, t, v
  <1>11. s.r.marks = m /\ s.r.set = set
    BY <1>6, <1>9
  <1>12. QED
    BY <1>8, <1>10, <1>11 DEF Idle

-----------------------------------------------------------------------------
(* A citation added. *)

\* No registered item is forgotten.
LEMMA ForgetNone ==
    ASSUME NEW doc \in Documents, NEW m, Typed(m, doc), Cased(m, doc), Ordered(m, doc),
           NEW items, items \cap Cited(doc) = {}
    PROVE  Forget(m, items) = m
  <1>1. /\ m = [master |-> m.master, parallel |-> m.parallel, arrays |-> m.arrays]
        /\ m.master \subseteq Cited(doc)
        /\ m.parallel \in [Item -> Item \cup {None}]
        /\ m.arrays \in SUBSET Arrays
        /\ \A a \in m.arrays : a.holders \subseteq Cited(doc)
    BY TypedIs
  <1>2. m.master \ items = m.master
    BY <1>1
  <1>3. \A i \in Item : i \in items => m.parallel[i] = None
    BY DEF Cased, Parallel
  <1> DEFINE par == [i \in Item |-> IF i \in items THEN None ELSE m.parallel[i]]
  <1>4. par = m.parallel
    BY <1>1, <1>3
  <1>5. Released(m.arrays, items) = m.arrays
    <2>1. ASSUME NEW a \in m.arrays
          PROVE  Less(a, items) = a /\ a.holders # {}
      <3>1. a.holders \ items = a.holders /\ a.holders # {}
        BY <1>1 DEF Ordered
      <3>2. a = [holders |-> a.holders, list |-> a.list]
        BY <1>1 DEF Arrays
      <3>3. QED
        BY <3>1, <3>2 DEF Less
    <2>2. ASSUME NEW b
          PROVE  b \in Released(m.arrays, items) <=> b \in m.arrays
      <3> DEFINE arrays == m.arrays
      <3>1. arrays \in SUBSET Arrays
        BY <1>1
      <3> HIDE DEF arrays
      <3>2. b \in Released(arrays, items) <=>
                b.holders # {} /\ \E a \in arrays : b = Less(a, items)
        BY <3>1, ReleasedIs
      <3>3. QED
        BY <2>1, <3>2 DEF arrays
    <2>3. QED
      BY <2>2
  <1>6. Forget(m, items) = [master |-> m.master \ items, parallel |-> par,
                            arrays |-> Released(m.arrays, items)]
    BY DEF Forget
  <1>7. QED
    BY <1>1, <1>2, <1>4, <1>5, <1>6

\* The cites before the citation at the end.
LEMMA CitesStay ==
    ASSUME ParallelAssumption, NEW doc \in Documents, NEW items \in Seq(Item),
           NEW more, more = Append(doc, items), NEW q \in DOMAIN doc
    PROVE  more[q] = doc[q] /\ CitesOf(more, q) = CitesOf(doc, q)
  <1>1. \A p \in DOMAIN doc : more[p] = doc[p]
    BY Appended
  <1>2. \A p \in 1 .. q - 1 : p \in DOMAIN doc
    BY DEF Documents
  <1>3. \A p \in 1 .. q - 1 : more[p] = doc[p]
    BY <1>1, <1>2
  <1>4. QED
    BY <1>1, <1>3 DEF CitesOf

\* The citation at the end changes nothing of what the marks say.
LEMMA OrderedMore ==
    ASSUME ParallelAssumption, NEW doc \in Documents, NEW items \in Seq(Item),
           NEW more, more = Append(doc, items),
           NEW m, Typed(m, doc), Cased(m, doc), Ordered(m, doc)
    PROVE  Ordered(m, more)
  <1> DEFINE n == Len(doc) + 1
  <1>1. /\ more \in Documents
        /\ DOMAIN more = DOMAIN doc \cup {n} /\ more[n] = items
        /\ \A q \in DOMAIN doc : more[q] = doc[q] /\ CitesOf(more, q) = CitesOf(doc, q)
        /\ \A k \in DOMAIN items : CitesOf(more, n)[k].first => items[k] \notin Cited(doc)
        /\ \A c \in Firsts(more) : c.id \in Cited(doc) => c \in Firsts(doc)
    <2>1. /\ more \in Documents
          /\ DOMAIN more = DOMAIN doc \cup {Len(doc) + 1} /\ more[Len(doc) + 1] = items
      BY Appended
    <2>2. \A q \in DOMAIN doc : more[q] = doc[q] /\ CitesOf(more, q) = CitesOf(doc, q)
      BY CitesStay
    <2>3. \A k \in DOMAIN items :
              CitesOf(more, Len(doc) + 1)[k].first => items[k] \notin Cited(doc)
      BY Appended
    <2>4. \A c \in Firsts(more) : c.id \in Cited(doc) => c \in Firsts(doc)
      BY Appended
    <2>5. QED
      BY <2>1, <2>2, <2>3, <2>4
  <1> HIDE DEF n
  <1>2. ASSUME NEW i \in m.master
        PROVE  Leads(more, m, i)
    <2>1. i \in Cited(doc) /\ Leads(doc, m, i)
      BY TypedIs DEF Ordered
    <2>2. SUFFICES ASSUME NEW q \in DOMAIN more, NEW k \in DOMAIN more[q],
                          CitesOf(more, q)[k].first, more[q][k] = i
                   PROVE  Opens(more, m, q, k)
      BY DEF Leads
    <2>3. q # n
      BY <1>1, <2>1, <2>2
    <2>4. q \in DOMAIN doc /\ more[q] = doc[q] /\ CitesOf(more, q) = CitesOf(doc, q)
      BY <1>1, <2>3
    <2>5. Opens(doc, m, q, k)
      BY <2>1, <2>2, <2>4 DEF Leads
    <2>6. QED
      BY <2>4, <2>5 DEF Opens, Broken
  <1>3. ASSUME NEW a \in m.arrays, NEW i \in m.master \cap a.holders
        PROVE  Led(a, i, more)
    <2>1. Led(a, i, doc) /\ ToSet(a.list) \subseteq Cited(doc)
      BY DEF Ordered, Cased
    <2>2. QED
      BY <1>1, <2>1 DEF Led
  <1>4. QED
    BY <1>2, <1>3 DEF Ordered

\* Nor of what they say of chains.
LEMMA LinkedMore ==
    ASSUME ParallelAssumption, NEW doc \in Documents, NEW items \in Seq(Item),
           NEW more, more = Append(doc, items),
           NEW m, Typed(m, doc), Cased(m, doc), Linked(m, doc)
    PROVE  Linked(m, more)
  <1>1. Ordered(m, more)
    BY OrderedMore DEF Linked
  <1> DEFINE n == Len(doc) + 1
  <1>2. /\ more \in Documents /\ DOMAIN more = DOMAIN doc \cup {n} /\ more[n] = items
    BY Appended
  <1>3. \A q \in DOMAIN doc : more[q] = doc[q] /\ CitesOf(more, q) = CitesOf(doc, q)
    BY CitesStay
  <1>4. \A k \in DOMAIN items : CitesOf(more, n)[k].first => items[k] \notin Cited(doc)
    BY Appended
  <1> HIDE DEF n
  <1>5. ASSUME NEW q \in DOMAIN more, NEW j \in DOMAIN more[q], NEW k \in DOMAIN more[q],
               Chain(m, more, q, j, k)
        PROVE  Holds(m, more[q][j], more[q][k])
    <2>1. CASE q \in DOMAIN doc
      <3>1. Chain(m, doc, q, j, k)
        BY <1>3, <1>5, <2>1 DEF Chain
      <3>2. QED
        BY <1>3, <2>1, <3>1 DEF Linked, Chained
    <2>2. CASE q = n
      <3>1. k \in j .. k /\ k \in j + 1 .. k
        BY <1>2, <1>5, CitesIn DEF Chain
      <3>2. CitesOf(more, n)[k].first /\ items[k] \in Parallel(m) /\ k \in DOMAIN items
        BY <1>2, <1>5, <2>2, <3>1 DEF Chain
      <3>3. items[k] \notin Cited(doc)
        BY <1>4, <3>2
      <3>4. QED
        BY <3>2, <3>3 DEF Cased
    <2>3. QED
      BY <1>2, <2>1, <2>2
  <1>6. QED
    BY <1>1, <1>5 DEF Linked, Chained

\* The same within a call.
LEMMA RenderedLinked ==
    ASSUME ParallelAssumption, NEW doc \in Documents, NoRepeats(doc), NEW q \in DOMAIN doc,
           NEW w, Work(w, doc, FALSE), Linked(w.r.marks, doc),
           NEW fresh, fresh => FirstsFree(w.r.marks, doc, q)
    PROVE  /\ Work(Rendered(w, doc, q), doc, FALSE)
           /\ Linked(Rendered(w, doc, q).r.marks, doc)
           /\ fresh => Idle(Rendered(w, doc, q).r, doc)
  <1> DEFINE s == process_CitationCluster(w.r, doc, q)
             t == Rendered(w, doc, q)
  <1>1. Work(t, doc, FALSE)
    BY RenderedGood
  <1>2. t.r = s.r
    BY DEF Rendered
  <1>3. w.r \in Renderings /\ Sound(w.r.marks, doc, FALSE)
    BY DEF Work, Good
  <1>4. s = process_CitationCluster(w.r, doc, q)
    OBVIOUS
  <1> HIDE DEF s, t
  <1>5. Linked(s.r.marks, doc) /\ (fresh => Idle(s.r, doc))
    <2> DEFINE r == w.r
    <2>1. /\ r \in Renderings /\ Sound(r.marks, doc, FALSE) /\ Linked(r.marks, doc)
          /\ fresh => FirstsFree(r.marks, doc, q)
          /\ s = process_CitationCluster(r, doc, q)
      BY <1>3, <1>4
    <2> HIDE DEF r
    <2>2. QED
      BY <2>1, ClusterLinked
  <1>6. QED
    BY <1>1, <1>2, <1>5 DEF t

\* Only the cites of a citation matter.
LEMMA RenderedSame ==
    ASSUME NEW doc, NEW more, NEW q, CitesOf(more, q) = CitesOf(doc, q), NEW w
    PROVE  Rendered(w, more, q) = Rendered(w, doc, q)
  <1> DEFINE b == [r |-> StartCitation(w.r), moved |-> FALSE]
  <1>1. ASSUME NEW d
        PROVE  process_CitationCluster(w.r, d, q) =
                  LET s == FRender!Folded(b, CitesOf(d, q), 0)
                  IN  [s EXCEPT !.r = ComposeSet(@)]
    BY DEF process_CitationCluster, RenderStep, FoldLeft, MapThenFoldSet, Max,
           FRender!Folded, FRender!Last
  <1>2. process_CitationCluster(w.r, more, q) = process_CitationCluster(w.r, doc, q)
    BY <1>1
  <1>3. QED
    BY <1>2 DEF Rendered

\* The tainted citations are rendered.
LEMMA TaintedLinked ==
    ASSUME ParallelAssumption, NEW doc \in Documents, NoRepeats(doc),
           NEW more, \A q \in DOMAIN doc : CitesOf(more, q) = CitesOf(doc, q), NEW places,
           NEW w, Work(w, doc, FALSE), Linked(w.r.marks, doc)
    PROVE  LET t == Tainted(w, more, places, doc)
           IN  Work(t, doc, FALSE) /\ Linked(t.r.marks, doc)
  <1>1. PICK no : no = FALSE
    OBVIOUS
  <1> DEFINE n == Len(doc)
             X == {x \in {[r |-> u, again |-> a] : u \in Renderings, a \in SUBSET DOMAIN doc} :
                      Work(x, doc, no) /\ Linked(x.r.marks, doc)}
             Y == [k \in 0 .. n |-> X]
             z == [places |-> places, doc |-> more]
             s == Places(doc)
  <1>2. Tainted(w, more, places, doc) = FTainted!Folded(w, s, z)
    BY DEF Tainted, TaintedStep, FoldLeft, MapThenFoldSet, Max, FTainted!Folded, FTainted!Last
  <1>3. DOMAIN s = 1 .. n /\ n \in Nat /\ DOMAIN doc = 1 .. n /\ \A k \in 1 .. n : s[k] = k
    BY DEF Documents, Places
  <1>4. ASSUME NEW x
        PROVE  x \in X <=> Work(x, doc, no) /\ Linked(x.r.marks, doc)
    BY DEF Work, Good
  <1> HIDE DEF X
  <1>5. w \in Y[0]
    <2>1. Work(w, doc, no)
      BY <1>1
    <2>2. w \in X /\ 0 \in 0 .. n
      BY <1>3, <1>4, <2>1
    <2>3. QED
      BY <2>2
  <1>6. FTainted!Leads(Y, s, n, z)
    <2>1. SUFFICES ASSUME NEW k \in 1 .. n, NEW x \in Y[k - 1]
                   PROVE  TaintedStep(x, s[k], z) \in Y[k]
      BY DEF FTainted!Leads
    <2>2. k \in 0 .. n /\ k - 1 \in 0 .. n
      BY <1>3
    <2>3. Work(x, doc, FALSE) /\ Linked(x.r.marks, doc)
      BY <1>1, <1>4, <2>2
    <2>4. TaintedStep(x, s[k], z) = IF k \in places THEN Rendered(x, more, k) ELSE x
      BY <1>3 DEF TaintedStep
    <2>5. k \in DOMAIN doc
      BY <1>3
    <2>6. Rendered(x, more, k) = Rendered(x, doc, k)
      BY <2>5, RenderedSame
    <2>7. Work(Rendered(x, doc, k), doc, FALSE) /\ Linked(Rendered(x, doc, k).r.marks, doc)
      <3>1. PICK fresh : fresh = FALSE
        OBVIOUS
      <3>2. fresh => FirstsFree(x.r.marks, doc, k)
        BY <3>1
      <3>3. QED
        BY <2>3, <2>5, <3>2, RenderedLinked
    <2>8. TaintedStep(x, s[k], z) \in X
      BY <1>1, <1>4, <2>3, <2>4, <2>6, <2>7
    <2>9. QED
      BY <2>2, <2>8
  <1>7. FTainted!Folded(w, s, z) \in Y[n]
    <2> HIDE DEF Y, s, n, z
    <2>1. QED
      BY <1>3, <1>5, <1>6, FTainted!FoldLeads
  <1>8. n \in 0 .. n
    BY <1>3
  <1>9. QED
    BY <1>1, <1>2, <1>4, <1>7, <1>8

\* A call that adds a citation.
LEMMA AddIdle ==
    ASSUME ParallelAssumption, IInv, ~rewritten, NoRepeats(document) => Idle(Going, document),
           NEW items \in Clusters, rewritten' = rewritten,
           processCitationCluster(Append(document, items), Len(document) + 1),
           NoRepeats(document')
    PROVE  Idle(Going', document')
  <1>1. PICK doc : doc = Append(document, items)
    OBVIOUS
  <1>2. PICK q : q = Len(document) + 1
    OBVIOUS
  <1>3. processCitationCluster(doc, q)
    BY <1>1, <1>2
  <1> DEFINE kept == Forget(marks, Item \ Cited(doc))
             e == <<>>
             t == TRUE
             r == [marks |-> kept, set |-> e, series |-> t]
             none == {}
             start == [r |-> r, again |-> none]
             places == moved \ {q}
             tainted == Tainted(start, doc, places, document)
             end == Rendered(tainted, doc, q)
  <1>4. /\ document \in Documents /\ Sound(marks, document, FALSE) /\ items \in Seq(Item)
        /\ moved \subseteq DOMAIN document
    BY DEF IInv, Good, Going, ParallelAssumption, Sound
  <1>5. Typed(marks, document) /\ Cased(marks, document)
    BY <1>4 DEF Sound
  <1>6. /\ document' = doc /\ marks' = end.r.marks
        /\ run' = [set |-> end.r.set, series |-> end.r.series]
    BY <1>3 DEF processCitationCluster, Tainted
  <1>7. /\ doc \in Documents /\ DOMAIN doc = DOMAIN document \cup {q} /\ q \notin DOMAIN document
        /\ doc[q] = items /\ Cited(doc) = Cited(document) \cup ToSet(items)
    <2>1. /\ doc \in Documents /\ DOMAIN doc = DOMAIN document \cup {Len(document) + 1}
          /\ doc[Len(document) + 1] = items
      BY <1>1, <1>4, Appended
    <2>2. Len(document) + 1 \notin DOMAIN document
      BY <1>4 DEF Documents
    <2>3. Cited(doc) = Cited(document) \cup ToSet(items)
      BY <1>1, <1>4, Appended
    <2>4. QED
      BY <1>2, <2>1, <2>2, <2>3
  <1>8. \A p \in DOMAIN document : doc[p] = document[p]
    BY <1>1, <1>4, Appended
  <1>9. \A k \in DOMAIN items : CitesOf(doc, q)[k].first => items[k] \notin Cited(document)
    BY <1>1, <1>2, <1>4, Appended
  <1>10. \A c \in Firsts(doc) : c.id \in Cited(document) => c \in Firsts(document)
    BY <1>1, <1>4, Appended
  <1>11. \A p \in DOMAIN document : CitesOf(doc, p) = CitesOf(document, p)
    BY <1>1, <1>4, CitesStay
  <1>12. NoRepeats(doc) /\ NoRepeats(document) /\ Linked(marks, document)
    <2>1. NoRepeats(doc)
      BY <1>6
    <2>2. NoRepeats(document)
      BY <1>7, <1>8, <2>1 DEF NoRepeats
    <2>3. QED
      BY <2>1, <2>2 DEF Idle, Going
  <1>13. kept = marks
    <2> DEFINE others == Item \ Cited(doc)
    <2>1. others \cap Cited(document) = {}
      BY <1>7
    <2> HIDE DEF others
    <2>2. Forget(marks, others) = marks
      BY <1>4, <1>12, <1>5, <2>1, ForgetNone DEF Linked
    <2>3. QED
      BY <2>2 DEF others
  <1>14. /\ r = [marks |-> kept, set |-> e, series |-> t] /\ e \in Seq(Cites) /\ t \in BOOLEAN
         /\ Whole(e, doc, FALSE) /\ Whole(e, document, FALSE)
    <2>1. Whole(e, doc, FALSE) /\ Whole(e, document, FALSE)
      BY DEF Whole
    <2>2. e \in Seq(Cites) /\ t \in BOOLEAN
      OBVIOUS
    <2>3. r = [marks |-> kept, set |-> e, series |-> t]
      OBVIOUS
    <2> HIDE DEF kept, e, t, r
    <2>4. QED
      BY <2>1, <2>2, <2>3
  <1> HIDE DEF kept, e, t, r
  <1>15. r \in Renderings /\ r.marks = marks /\ r.set = e
    BY <1>5, <1>13, <1>14 DEF Renderings, Typed
  <1>16. Good(r, document, FALSE)
    BY <1>4, <1>14, <1>15 DEF Good
  <1>17. Sound(marks, doc, FALSE)
    <2>1. Carried(document, doc)
      BY <1>10 DEF Carried
    <2>2. Sound(kept, doc, FALSE)
      BY <1>4, <1>7, <2>1, ForgetSound DEF kept
    <2>3. QED
      BY <1>13, <2>2
  <1>18. Good(r, doc, FALSE)
    BY <1>14, <1>15, <1>17 DEF Good
  <1>19. Work(start, document, FALSE) /\ Work(start, doc, FALSE) /\ start.r = r
    BY <1>16, <1>18 DEF Work
  <1> HIDE DEF start
  <1>20. Linked(start.r.marks, document)
    BY <1>12, <1>15, <1>19
  <1>21. places \cap DOMAIN document \subseteq DOMAIN doc
    BY <1>7
  <1> HIDE DEF places
  <1>22. Work(tainted, doc, FALSE)
    BY <1>4, <1>7, <1>19, <1>21, TaintedGood
  <1>23. Work(tainted, document, FALSE) /\ Linked(tainted.r.marks, document)
    BY <1>4, <1>12, <1>11, <1>19, <1>20, TaintedLinked
  <1> HIDE DEF tainted
  <1>24. /\ Typed(tainted.r.marks, document) /\ Cased(tainted.r.marks, document)
    BY <1>23 DEF Work, Good, Sound
  <1> DEFINE m == tainted.r.marks
  <1>25. Linked(m, doc)
    <2>1. Typed(m, document) /\ Cased(m, document) /\ Linked(m, document)
      BY <1>23, <1>24
    <2> HIDE DEF m
    <2>2. QED
      BY <1>1, <1>4, <2>1, LinkedMore
  <1>26. FirstsFree(m, doc, q)
    <2>1. m.master \subseteq Cited(document)
      BY <1>24 DEF Typed
    <2>2. QED
      BY <1>7, <1>9, <2>1 DEF FirstsFree
  <1>27. PICK fresh : fresh = TRUE
    OBVIOUS
  <1>28. fresh => FirstsFree(m, doc, q)
    BY <1>26
  <1>29. q \in DOMAIN doc
    BY <1>7
  <1>30. Work(end, doc, FALSE) /\ (fresh => Idle(end.r, doc))
    BY <1>7, <1>12, <1>22, <1>25, <1>28, <1>29, RenderedLinked
  <1>31. Idle(end.r, doc)
    BY <1>27, <1>30
  <1> HIDE DEF end
  <1>32. end.r \in Renderings
    BY <1>30 DEF Work, Good
  <1>33. end.r = [marks |-> end.r.marks, set |-> end.r.set, series |-> end.r.series]
    BY <1>32, RenderingIs
  <1>34. Going' = end.r
    BY <1>6, <1>33 DEF Going
  <1>35. QED
    BY <1>6, <1>31, <1>34

-----------------------------------------------------------------------------
(* Cites of a bibliography are no first ones: no item becomes parallel. *)

\* The marks of n say all that those of m do, the parallel items are the same,
\* and masters that are new have nobody on their lists.
Grown(m, n) ==
    /\ Parallel(n) = Parallel(m)
    /\ m.master \subseteq n.master
    /\ m.arrays \subseteq n.arrays
    /\ \A i \in n.master \ m.master : \E a \in n.arrays : i \in a.holders /\ a.list = <<>>

\* Nothing changes.
LEMMA GrownSame ==
    ASSUME NEW m
    PROVE  Grown(m, m)
  BY DEF Grown

\* Chains have stayed the same.
LEMMA GrownLinked ==
    ASSUME NEW doc, NEW m, NEW n, Linked(m, doc), Ordered(n, doc), Grown(m, n)
    PROVE  Linked(n, doc)
  <1>1. ASSUME NEW q, NEW j, NEW k, Chain(n, doc, q, j, k)
        PROVE  Chain(m, doc, q, j, k)
    BY <1>1 DEF Chain, Grown
  <1>2. ASSUME NEW h, NEW i, Holds(m, h, i)
        PROVE  Holds(n, h, i)
    BY <1>2 DEF Holds, Grown
  <1>3. QED
    BY <1>1, <1>2 DEF Linked, Chained

\* One change after another.
LEMMA GrownOn ==
    ASSUME NEW m, NEW n, NEW o, Grown(m, n), Grown(n, o)
    PROVE  Grown(m, o)
  BY DEF Grown

\* An item that is not parallel is made a master.
LEMMA MarkMasterGrown ==
    ASSUME NEW doc \in Documents, NEW m, Typed(m, doc), Ordered(m, doc),
           NEW i \in Cited(doc), i \notin Parallel(m), i \notin m.master
    PROVE  Grown(m, MarkMaster(m, i))
  <1> DEFINE n == MarkMaster(m, i)
             new == [holders |-> {i}, list |-> <<>>]
             arrays == m.arrays
  <1>1. /\ n.master = m.master \cup {i} /\ n.arrays = Freed(arrays, i) \cup {new}
        /\ Parallel(n) = Parallel(m) /\ arrays \in SUBSET Arrays
    BY MarkMasterIs, TypedIs
  <1>2. ASSUME NEW a \in arrays
        PROVE  a \in Freed(arrays, i)
    <2>1. a.holders # {} /\ i \notin a.holders
      BY DEF Ordered
    <2>2. a = [holders |-> a.holders, list |-> a.list]
      BY <1>1 DEF Arrays
    <2>3. Without(a, i) = a
      BY <2>1, <2>2 DEF Without, Less
    <2> HIDE DEF arrays
    <2>4. QED
      BY <1>1, <2>1, <2>3, FreedIs
  <1>3. new \in n.arrays /\ i \in new.holders /\ new.list = <<>>
    BY <1>1
  <1> HIDE DEF n, new
  <1>4. Grown(m, n)
    BY <1>1, <1>2, <1>3 DEF Grown
  <1>5. QED
    BY <1>4 DEF n

\* What composing the set left marks.
LEMMA IdleMarked ==
    ASSUME ParallelAssumption, NEW doc \in Documents, NEW r, Good(r, doc, FALSE), Idle(r, doc)
    PROVE  Linked(Composed(r), doc) /\ Grown(r.marks, Composed(r))
  <1> DEFINE set == r.set
             m == r.marks
             p == IF set # <<>> /\ set[1].first THEN MarkMaster(m, set[1].id) ELSE m
             X == {m, p}
             Y == [k \in 0 .. Len(set) |-> IF k = 0 THEN {m} ELSE {p}]
  <1>1. /\ set \in Seq(Cites) /\ Typed(m, doc) /\ Linked(m, doc)
        /\ \A n \in DOMAIN set : set[n].id \in Cited(doc)
        /\ \A n \in DOMAIN set : set[n].first =>
              n = 1 /\ set[1].id \notin Parallel(m) /\ set[1].id \notin m.master
              /\ Leads(doc, m, set[1].id)
    BY RenderingIs DEF Good, Sound, Whole, Idle
  <1>2. DOMAIN set = 1 .. Len(set) /\ Len(set) \in Nat
    BY <1>1
  <1>3. MarkedSet(m, set) = FMark!Folded(m, set, set)
    BY DEF MarkedSet, FoldLeft, MapThenFoldSet, Max, FMark!Folded, FMark!Last
  <1> HIDE DEF set, m
  <1>4. Linked(p, doc) /\ Grown(m, p)
    <2>1. CASE set # <<>> /\ set[1].first
      <3>1. 1 \in DOMAIN set
        BY <1>1, <1>2, <2>1
      <3> DEFINE i == set[1].id
      <3>2. i \in Cited(doc) /\ i \notin Parallel(m) /\ i \notin m.master /\ Leads(doc, m, i)
        BY <1>1, <2>1, <3>1
      <3>3. p = MarkMaster(m, i)
        BY <2>1
      <3> HIDE DEF i, p
      <3>4. QED
        BY <1>1, <3>2, <3>3, MarkMasterOrdered, MarkMasterGrown, GrownLinked DEF Linked
    <2>2. CASE ~(set # <<>> /\ set[1].first)
      BY <1>1, <2>2, GrownSame
    <2>3. QED
      BY <2>1, <2>2
  <1>5. ASSUME NEW k \in 1 .. Len(set), NEW n, n = IF k = 1 THEN m ELSE p
        PROVE  MarkedCite(n, set[k], set) = p
    <2>1. k \in DOMAIN set /\ set # <<>>
      BY <1>2
    <2>2. CASE k = 1
      BY <1>5, <2>1, <2>2 DEF MarkedCite
    <2>3. CASE k # 1
      <3>1. ~set[k].first
        BY <1>1, <2>1, <2>3
      <3>2. QED
        BY <1>5, <2>3, <3>1 DEF MarkedCite
    <2>4. QED
      BY <2>2, <2>3
  <1> HIDE DEF p
  <1>6. MarkedSet(m, set) \in X
    <2>1. m \in Y[0]
      BY <1>2
    <2>2. FMark!Leads(Y, set, Len(set), set)
      <3>1. SUFFICES ASSUME NEW k \in 1 .. Len(set), NEW n \in Y[k - 1]
                     PROVE  MarkedCite(n, set[k], set) \in Y[k]
        BY DEF FMark!Leads
      <3>2. k \in 0 .. Len(set) /\ k - 1 \in 0 .. Len(set) /\ k # 0 /\ (k - 1 = 0 <=> k = 1)
        BY <1>2
      <3>3. n = IF k = 1 THEN m ELSE p
        BY <3>1, <3>2
      <3>4. MarkedCite(n, set[k], set) = p
        BY <1>5, <3>3
      <3>5. QED
        BY <3>2, <3>4
    <2>3. Len(set) \in 0 .. Len(set)
      BY <1>2
    <2>4. FMark!Folded(m, set, set) \in Y[Len(set)]
      <3> DEFINE l == Len(set)
      <3>1. DOMAIN set = 1 .. l /\ l \in Nat /\ FMark!Leads(Y, set, l, set)
        BY <1>2, <2>2
      <3> HIDE DEF Y, l
      <3>2. FMark!Folded(m, set, set) \in Y[l]
        BY <2>1, <3>1, FMark!FoldLeads
      <3>3. QED
        BY <3>2 DEF l
    <2>5. QED
      BY <1>3, <2>3, <2>4
  <1>7. Composed(r) \in X
    BY <1>6 DEF Composed, set, m
  <1>8. QED
    BY <1>1, <1>4, <1>7, GrownSame DEF m

\* The set is composed.
LEMMA ComposeIdle ==
    ASSUME ParallelAssumption, NEW doc \in Documents, NEW r, Good(r, doc, FALSE), Idle(r, doc)
    PROVE  Idle(ComposeSet(r), doc) /\ Grown(r.marks, ComposeSet(r).marks)
  <1> DEFINE m == Composed(r)
             set == IF Len(r.set) = 1 /\ r.series THEN r.set ELSE <<>>
             t == TRUE
             v == ComposeSet(r)
  <1>1. r \in Renderings
    BY DEF Good
  <1>2. v = [marks |-> m, set |-> set, series |-> t]
    BY <1>1, ComposeSetIs
  <1>3. Linked(m, doc) /\ Grown(r.marks, m)
    BY IdleMarked
  <1>4. ASSUME NEW n \in DOMAIN set, set[n].first
        PROVE  /\ n = 1 /\ set[1].id \notin Parallel(m)
               /\ set[1].id \notin m.master /\ Leads(doc, m, set[1].id)
    <2>1. Len(r.set) = 1 /\ set = r.set
      BY <1>4
    <2>2. m = r.marks
      BY <2>1 DEF Composed
    <2>3. QED
      BY <1>4, <2>1, <2>2 DEF Idle
  <1> HIDE DEF m, set, t, v
  <1>5. v.marks = m /\ v.set = set
    BY <1>2
  <1>6. Idle(v, doc) /\ Grown(r.marks, v.marks)
    BY <1>3, <1>4, <1>5 DEF Idle
  <1>7. QED
    BY <1>6 DEF v

\* A cite joins the set, or begins a new one.
LEMMA CloseIdle ==
    ASSUME ParallelAssumption, NEW doc \in Documents, NEW r, Good(r, doc, FALSE), Idle(r, doc),
           NEW c \in Cites, ~c.first
    PROVE  Idle(CloseCite(r, c), doc) /\ Grown(r.marks, CloseCite(r, c).marks)
  <1> DEFINE v == CloseCite(r, c)
  <1>1. r \in Renderings /\ r.set \in Seq(Cites)
    BY RenderingIs DEF Good
  <1>2. CASE Goes(r, c) \/ Forced(r, c)
    <2> DEFINE t == Append(r.set, c)
               g == Goes(r, c)
    <2>1. v = [marks |-> r.marks, set |-> t, series |-> g]
      BY <1>1, <1>2, CloseCiteIs
    <2>2. /\ DOMAIN t = 1 .. Len(r.set) + 1 /\ t[Len(r.set) + 1] = c
          /\ \A n \in 1 .. Len(r.set) : t[n] = r.set[n]
          /\ DOMAIN r.set = 1 .. Len(r.set) /\ Len(r.set) \in Nat
      BY <1>1, AppendIn
    <2> HIDE DEF t, g, v
    <2>3. v.marks = r.marks /\ v.set = t
      BY <2>1
    <2>4. ASSUME NEW n \in DOMAIN t, t[n].first
          PROVE  n = 1 /\ n \in DOMAIN r.set /\ t[1] = r.set[1] /\ r.set[1].first
      <3>1. n # Len(r.set) + 1
        BY <2>2, <2>4
      <3>2. n \in DOMAIN r.set /\ t[n] = r.set[n]
        BY <2>2, <3>1
      <3>3. QED
        BY <2>4, <3>2 DEF Idle
    <2>5. Idle(v, doc)
      BY <2>3, <2>4 DEF Idle
    <2>6. QED
      BY <2>3, <2>5, GrownSame DEF v
  <1>3. CASE ~Goes(r, c) /\ ~Forced(r, c)
    <2> DEFINE t == <<c>>
               m == Composed(r)
               g == TRUE
    <2>1. v = [marks |-> m, set |-> t, series |-> g]
      BY <1>1, <1>3, CloseCiteIs
    <2>2. Linked(m, doc) /\ Grown(r.marks, m)
      BY IdleMarked
    <2>3. \A n \in DOMAIN t : ~t[n].first
      OBVIOUS
    <2> HIDE DEF t, m, g, v
    <2>4. v.marks = m /\ v.set = t
      BY <2>1
    <2>5. Idle(v, doc) /\ Grown(r.marks, v.marks)
      BY <2>2, <2>3, <2>4 DEF Idle
    <2>6. QED
      BY <2>5 DEF v
  <1>4. QED
    BY <1>2, <1>3

\* A cite of a bibliography is rendered.
LEMMA getCiteIdle ==
    ASSUME ParallelAssumption, NEW doc \in Documents, NEW r, Good(r, doc, FALSE), Idle(r, doc),
           NEW c \in Cites, ~c.first
    PROVE  Idle(getCite(r, c), doc) /\ Grown(r.marks, getCite(r, c).marks)
  <1> DEFINE s == StartCite(r, c)
  <1>1. s = r \/ s = ComposeSet(r)
    BY DEF StartCite
  <1>2. getCite(r, c) = CloseCite(s, c)
    BY DEF getCite
  <1> HIDE DEF s
  <1>3. Good(ComposeSet(r), doc, FALSE)
    BY ComposeSetGood
  <1>4. Good(s, doc, FALSE) /\ Idle(s, doc) /\ Grown(r.marks, s.marks)
    BY <1>1, <1>3, ComposeIdle, GrownSame
  <1>5. Idle(CloseCite(s, c), doc) /\ Grown(s.marks, CloseCite(s, c).marks)
    BY <1>4, CloseIdle
  <1>6. QED
    BY <1>2, <1>4, <1>5, GrownOn

-----------------------------------------------------------------------------
(* Entries of a bibliography share no item. *)

\* An entry: its first item was walked through and is not parallel; the others
\* are parallel, and hold one array with it, a master.
Headed(items, m, seen) ==
    /\ items[1] \in seen /\ items[1] \notin Parallel(m)
    /\ \A x \in ToSet(items) \ {items[1]} :
          /\ x \in Parallel(m) /\ items[1] \in m.master
          /\ \E a \in m.arrays : items[1] \in a.holders /\ x \in a.holders

Parted(entries, m, seen) ==
    /\ \A n \in DOMAIN entries : entries[n] # <<>> => Headed(entries[n], m, seen)
    /\ \A n, l \in DOMAIN entries :
          n # l /\ entries[n] # <<>> /\ entries[l] # <<>> => entries[n][1] # entries[l][1]

EntriesApart(entries) ==
    \A n, l \in DOMAIN entries : n # l => ToSet(entries[n]) \cap ToSet(entries[l]) = {}

\* Entries stay parted when marks and items are added.
LEMMA PartedStill ==
    ASSUME NEW entries, NEW m, NEW seen, Parted(entries, m, seen), NEW n, Grown(m, n),
           NEW more, seen \subseteq more
    PROVE  Parted(entries, n, more)
  <1>1. ASSUME NEW items, Headed(items, m, seen)
        PROVE  Headed(items, n, more)
    BY <1>1 DEF Headed, Grown
  <1>2. QED
    BY <1>1 DEF Parted

\* One more entry, of an item that was not walked through.
LEMMA PartedNext ==
    ASSUME NEW entries \in Seq(Seq(Item)), NEW m, NEW seen, Parted(entries, m, seen),
           NEW n, Grown(m, n), NEW i, i \notin seen, NEW more, more = seen \cup {i},
           NEW items \in Seq(Item),
           items # <<>> => items[1] = i /\ Headed(items, n, more)
    PROVE  Parted(Append(entries, items), n, more)
  <1> DEFINE t == Append(entries, items)
             S == Seq(Item)
             e == Len(entries)
  <1>1. /\ DOMAIN t = 1 .. e + 1
        /\ \A k \in 1 .. e : t[k] = entries[k]
        /\ t[e + 1] = items
    <2> HIDE DEF S, t
    <2>1. items \in S /\ entries \in Seq(S)
      BY DEF S
    <2>2. QED
      BY <2>1, AppendIn DEF t
  <1>2. DOMAIN entries = 1 .. e /\ e \in Nat
    OBVIOUS
  <1> HIDE DEF t, e
  <1>3. ASSUME NEW k \in DOMAIN t
        PROVE  \/ k \in DOMAIN entries /\ t[k] = entries[k]
               \/ k = e + 1 /\ t[k] = items
    BY <1>1, <1>2
  <1>4. Parted(entries, n, more)
    BY PartedStill
  <1>5. \A k \in DOMAIN t : t[k] # <<>> => Headed(t[k], n, more)
    BY <1>3, <1>4 DEF Parted
  <1>6. \A k \in DOMAIN entries : entries[k] # <<>> => entries[k][1] # i
    BY DEF Parted, Headed
  <1>7. ASSUME NEW k \in DOMAIN t, NEW l \in DOMAIN t, k # l, t[k] # <<>>, t[l] # <<>>
        PROVE  t[k][1] # t[l][1]
    <2>1. CASE k \in DOMAIN entries /\ t[k] = entries[k] /\ l \in DOMAIN entries
               /\ t[l] = entries[l]
      BY <1>7, <2>1 DEF Parted
    <2>2. CASE k \in DOMAIN entries /\ t[k] = entries[k] /\ t[l] = items
      BY <1>6, <1>7, <2>2
    <2>3. CASE l \in DOMAIN entries /\ t[l] = entries[l] /\ t[k] = items
      BY <1>6, <1>7, <2>3
    <2>4. QED
      BY <1>3, <1>7, <2>1, <2>2, <2>3
  <1>8. QED
    BY <1>5, <1>7 DEF Parted, t

\* An item held by two masters' arrays would make them one.
LEMMA PartedApart ==
    ASSUME NEW doc, NEW m, Typed(m, doc), Ordered(m, doc), NEW entries \in Seq(Seq(Item)),
           NEW seen, Parted(entries, m, seen)
    PROVE  EntriesApart(entries)
  <1>1. SUFFICES ASSUME NEW n \in DOMAIN entries, NEW l \in DOMAIN entries, n # l,
                        NEW x, x \in ToSet(entries[n]), x \in ToSet(entries[l])
                 PROVE  FALSE
    BY DEF EntriesApart
  <1> DEFINE e == entries[n]
             f == entries[l]
  <1>2. e # <<>> /\ f # <<>>
    BY <1>1 DEF ToSet
  <1>3. Headed(e, m, seen) /\ Headed(f, m, seen) /\ e[1] # f[1]
    BY <1>1, <1>2 DEF Parted
  <1>4. x \in ToSet(e) /\ x \in ToSet(f)
    BY <1>1
  <1> HIDE DEF e, f
  <1>5. x # e[1] /\ x # f[1]
    BY <1>3, <1>4 DEF Headed
  <1>6. PICK a \in m.arrays : e[1] \in a.holders /\ x \in a.holders
    BY <1>3, <1>4, <1>5 DEF Headed
  <1>7. PICK b \in m.arrays : f[1] \in b.holders /\ x \in b.holders
    BY <1>3, <1>4, <1>5 DEF Headed
  <1>8. a = b
    BY <1>6, <1>7, TypedIs DEF Apart
  <1>9. e[1] \in m.master /\ f[1] \in m.master /\ f[1] \notin Parallel(m)
    BY <1>3, <1>4, <1>5 DEF Headed
  <1>10. Led(a, e[1], doc) /\ ToSet(a.list) \subseteq Parallel(m)
    BY <1>6, <1>9 DEF Ordered
  <1>11. f[1] \in {e[1]} \cup ToSet(a.list)
    BY <1>7, <1>8, <1>10 DEF Led
  <1>12. QED
    BY <1>3, <1>9, <1>10, <1>11

-----------------------------------------------------------------------------
(* makeBibliography. *)

\* While the items are walked through.
BibParted(b, seen) ==
    /\ BibGood(b, document, rewritten)
    /\ Idle(b.r, document)
    /\ Parted(b.entries, b.r.marks, seen)

\* The parts of a bibliography in progress.
LEMMA BibPartedIs ==
    ASSUME NEW b, ~rewritten, BibGood(b, document, rewritten)
    PROVE  /\ b \in Bibs /\ Good(b.r, document, FALSE) /\ Typed(b.r.marks, document)
           /\ b.entries \in Seq(Seq(Item))
           /\ b.r \in Renderings
  BY BibIs DEF BibGood, Good, Sound, Whole

\* An entry for an item alone.
LEMMA SoleParted ==
    ASSUME ParallelAssumption, document \in Documents, ~rewritten, NEW b, NEW seen,
           BibParted(b, seen), NEW i \in Cited(document), i \notin seen,
           ArraysOf(b.r.marks, i) = {}, NEW more, more = seen \cup {i}
    PROVE  BibParted(SoleEntry(b, i), more) /\ Grown(b.r.marks, SoleEntry(b, i).r.marks)
  <1> DEFINE u == getCite(b.r, Entry(i))
             l == <<i>>
             v == Append(b.entries, l)
             t == SoleEntry(b, i)
  <1>1. BibGood(t, document, rewritten)
    BY SoleEntryGood DEF BibParted
  <1>2. /\ b \in Bibs /\ Good(b.r, document, FALSE) /\ b.entries \in Seq(Seq(Item))
        /\ Idle(b.r, document) /\ Parted(b.entries, b.r.marks, seen) /\ i \in Item
    BY BibPartedIs, CitedIn DEF BibParted
  <1>3. Idle(u, document) /\ Grown(b.r.marks, u.marks)
    BY <1>2, EntryIn, getCiteIdle
  <1>4. i \notin Parallel(b.r.marks)
    BY <1>2 DEF Idle, Linked, Ordered
  <1>5. l \in Seq(Item) /\ l # <<>> /\ l[1] = i /\ ToSet(l) = {i}
    BY <1>2 DEF ToSet
  <1>6. t = [b EXCEPT !.r = u, !.entries = v]
    BY DEF SoleEntry
  <1> HIDE DEF u, l, t
  <1>7. Headed(l, u.marks, more)
    BY <1>3, <1>4, <1>5 DEF Headed, Grown
  <1>8. Parted(v, u.marks, more)
    <2> DEFINE m == b.r.marks
               n == u.marks
               e == b.entries
    <2>1. /\ e \in Seq(Seq(Item)) /\ Parted(e, m, seen) /\ Grown(m, n)
          /\ l # <<>> => l[1] = i /\ Headed(l, n, more)
      BY <1>2, <1>3, <1>5, <1>7
    <2> HIDE DEF m, n, e
    <2>2. Parted(Append(e, l), n, more)
      BY <1>5, <2>1, PartedNext
    <2>3. QED
      BY <2>2 DEF e, n
  <1> HIDE DEF v
  <1>9. t.r = u /\ t.entries = v
    BY <1>2, <1>6 DEF Bibs
  <1>10. BibParted(t, more) /\ Grown(b.r.marks, t.r.marks)
    BY <1>1, <1>3, <1>8, <1>9 DEF BibParted
  <1>11. QED
    BY <1>10 DEF t

\* The cites of an entry, one by one.
LEMMA EntryIdle ==
    ASSUME ParallelAssumption, NEW doc \in Documents, NEW r,
           Good(r, doc, FALSE), Idle(r, doc), NEW items \in Seq(Cited(doc)),
           NEW end, end = FoldLeft(getCite, r, EntryCites(items))
    PROVE  Good(end, doc, FALSE) /\ Idle(end, doc) /\ Grown(r.marks, end.marks)
  <1>1. PICK no : no = FALSE
    OBVIOUS
  <1> DEFINE X == {x \in Renderings : Good(x, doc, no) /\ Idle(x, doc)
                                      /\ Grown(r.marks, x.marks)}
             n == Len(items)
             Y == [k \in 0 .. n |-> X]
             s == EntryCites(items)
  <1>2. end = FGet!Folded(r, s, 0)
    BY DEF GetStep, FoldLeft, MapThenFoldSet, Max, FGet!Folded, FGet!Last
  <1>3. /\ DOMAIN s = 1 .. n /\ n \in Nat
        /\ \A k \in 1 .. n : s[k] = Entry(items[k]) /\ items[k] \in Cited(doc)
    BY DEF EntryCites
  <1> HIDE DEF s, n
  <1>4. ASSUME NEW x \in X, NEW k \in 1 .. n
        PROVE  getCite(x, s[k]) \in X
    <2>1. items[k] \in Cited(doc) /\ items[k] \in Item /\ s[k] = Entry(items[k])
      BY <1>3, CitedIn
    <2>2. s[k] \in Cites /\ s[k].id \in Cited(doc) /\ ~s[k].first
      BY <2>1, EntryIn
    <2>3. Good(x, doc, FALSE) /\ Idle(x, doc) /\ Grown(r.marks, x.marks)
      BY <1>1
    <2>4. Good(getCite(x, s[k]), doc, FALSE)
      BY <2>2, <2>3, getCiteGood
    <2>5. Idle(getCite(x, s[k]), doc) /\ Grown(x.marks, getCite(x, s[k]).marks)
      BY <2>2, <2>3, getCiteIdle
    <2>6. Grown(r.marks, getCite(x, s[k]).marks)
      BY <2>3, <2>5, GrownOn
    <2>7. getCite(x, s[k]) \in Renderings
      BY <2>4 DEF Good
    <2>8. QED
      BY <1>1, <2>4, <2>5, <2>6, <2>7
  <1>5. r \in Y[0]
    <2>1. r \in Renderings /\ Grown(r.marks, r.marks) /\ 0 \in 0 .. n
      BY <1>3, GrownSame DEF Good
    <2>2. QED
      BY <1>1, <2>1
  <1>6. FGet!Leads(Y, s, n, 0)
    <2>1. SUFFICES ASSUME NEW k \in 1 .. n, NEW x \in Y[k - 1]
                   PROVE  getCite(x, s[k]) \in Y[k]
      BY DEF FGet!Leads, GetStep
    <2>2. k \in 0 .. n /\ k - 1 \in 0 .. n
      BY <1>3
    <2> HIDE DEF X
    <2>3. QED
      BY <1>4, <2>2
  <1>7. FGet!Folded(r, s, 0) \in Y[n]
    <2> HIDE DEF Y
    <2>1. QED
      BY <1>3, <1>5, <1>6, FGet!FoldLeads
  <1>8. n \in 0 .. n
    BY <1>3
  <1>9. QED
    BY <1>1, <1>2, <1>7, <1>8

\* An entry begins with no set.
LEMMA StartIdle ==
    ASSUME NEW doc, NEW r \in Renderings, Linked(r.marks, doc)
    PROVE  Idle(StartCitation(r), doc) /\ StartCitation(r).marks = r.marks
  <1> DEFINE s == StartCitation(r)
             e == <<>>
             t == TRUE
  <1>1. s = [marks |-> r.marks, set |-> e, series |-> t]
    BY StartCitationIs
  <1>2. DOMAIN e = {}
    OBVIOUS
  <1> HIDE DEF s, e, t
  <1>3. s.marks = r.marks /\ s.set = e
    BY <1>1
  <1>4. Idle(s, doc)
    BY <1>2, <1>3 DEF Idle
  <1>5. QED
    BY <1>3, <1>4 DEF s

\* A master's entry.
LEMMA MasterHeaded ==
    ASSUME NEW doc, NEW m, Ordered(m, doc), NEW n, Grown(m, n), NEW i, i \in m.master,
           NEW a \in m.arrays, i \in a.holders,
           NEW items, items[1] = i, ToSet(items) = {i} \cup ToSet(a.list),
           NEW more, i \in more
    PROVE  Headed(items, n, more)
  <1>1. Led(a, i, doc) /\ i \notin Parallel(m) /\ ToSet(a.list) \subseteq Parallel(m)
    BY DEF Ordered
  <1>2. ASSUME NEW x \in ToSet(items) \ {i}
        PROVE  x \in Parallel(n) /\ i \in n.master /\ a \in n.arrays /\ x \in a.holders
    BY <1>1 DEF Led, Grown
  <1>3. QED
    BY <1>1, <1>2 DEF Headed, Grown

\* An entry for a master and its siblings.
LEMMA MasterParted ==
    ASSUME ParallelAssumption, document \in Documents, ~rewritten, NEW b, NEW seen,
           BibParted(b, seen), NEW i \in Cited(document), i \notin seen,
           i \in b.r.marks.master, NEW more, more = seen \cup {i}
    PROVE  BibParted(MasterEntry(b, i), more) /\ Grown(b.r.marks, MasterEntry(b, i).r.marks)
  <1> DEFINE siblings == SiblingsOf(b.r.marks, i)
             items == <<i>> \o siblings
             start == StartCitation(b.r)
             rendered == FoldLeft(getCite, start, EntryCites(items))
             t == MasterEntry(b, i)
  <1>1. BibGood(t, document, rewritten)
    BY MasterEntryGood DEF BibParted
  <1>2. /\ b \in Bibs /\ Good(b.r, document, FALSE) /\ b.entries \in Seq(Seq(Item))
        /\ Idle(b.r, document) /\ Parted(b.entries, b.r.marks, seen) /\ i \in Item
        /\ b.r \in Renderings /\ Typed(b.r.marks, document) /\ Ordered(b.r.marks, document)
    BY BibPartedIs, CitedIn DEF BibParted, Idle, Linked
  <1>3. ArraysOf(b.r.marks, i) # {}
    BY <1>2, TypedIs
  <1>4. PICK a \in b.r.marks.arrays : i \in a.holders /\ siblings = a.list
    BY <1>3, SiblingsAre
  <1>5. siblings \in Seq(Item)
    BY <1>2, <1>4, TypedIs DEF Arrays
  <1>6. CASE ToSet(siblings) \subseteq Registered
    <2> DEFINE u == ComposeSet(rendered)
               v == Append(b.entries, items)
               w == b.skips \cup ToSet(items)
    <2>1. t = [b EXCEPT !.r = u, !.entries = v, !.skips = w]
      BY <1>6 DEF MasterEntry, EntryCites
    <2> HIDE DEF siblings
    <2>2. /\ items \in Seq(Cited(document)) /\ items \in Seq(Item)
          /\ items[1] = i /\ ToSet(items) = {i} \cup ToSet(siblings)
      <3>1. \A k \in 1 .. Len(siblings) : siblings[k] \in Cited(document)
        BY <1>5, <1>6, ToSetSeq DEF Registered
      <3>2. siblings \in Seq(Cited(document))
        BY <1>5, <3>1
      <3>3. items \in Seq(Cited(document)) /\ items \in Seq(Item)
            /\ ToSet(items) = {i} \cup ToSet(siblings)
        BY <1>2, <1>5, <3>2, OneBefore
      <3>4. items[1] = i
        BY <1>2, <1>5
      <3>5. QED
        BY <3>3, <3>4
    <2>3. Good(start, document, FALSE) /\ Idle(start, document) /\ start.marks = b.r.marks
      <3>1. Sound(b.r.marks, document, FALSE) /\ Linked(b.r.marks, document)
        BY <1>2 DEF Good, Idle
      <3>2. QED
        BY <1>2, <3>1, StartGood, StartIdle
    <2>4. rendered = FoldLeft(getCite, start, EntryCites(items))
      OBVIOUS
    <2> HIDE DEF items, start
    <2>5. Good(rendered, document, FALSE) /\ Idle(rendered, document)
          /\ Grown(start.marks, rendered.marks)
      <3> HIDE DEF rendered
      <3>1. QED
        BY <2>2, <2>3, <2>4, EntryIdle
    <2> HIDE DEF rendered
    <2>6. Idle(u, document) /\ Grown(b.r.marks, u.marks)
      <3>1. Idle(u, document) /\ Grown(rendered.marks, u.marks)
        BY <2>5, ComposeIdle
      <3>2. QED
        BY <2>3, <2>5, <3>1, GrownOn
    <2> HIDE DEF u, w
    <2>7. items[1] = i /\ Headed(items, u.marks, more)
      <3> DEFINE m == b.r.marks
                 n == u.marks
      <3>1. /\ Ordered(m, document) /\ Grown(m, n) /\ i \in m.master /\ a \in m.arrays
            /\ i \in a.holders /\ i \in more
            /\ items[1] = i /\ ToSet(items) = {i} \cup ToSet(a.list)
        BY <1>2, <1>4, <2>2, <2>6
      <3> HIDE DEF m, n
      <3>2. Headed(items, n, more)
        BY <3>1, MasterHeaded
      <3>3. QED
        BY <3>1, <3>2 DEF n
    <2>8. Parted(v, u.marks, more)
      <3> DEFINE m == b.r.marks
                 n == u.marks
                 e == b.entries
      <3>1. /\ e \in Seq(Seq(Item)) /\ Parted(e, m, seen) /\ Grown(m, n)
            /\ items # <<>> => items[1] = i /\ Headed(items, n, more)
        BY <1>2, <2>6, <2>7
      <3> HIDE DEF m, n, e
      <3>2. Parted(Append(e, items), n, more)
        BY <2>2, <3>1, PartedNext
      <3>3. QED
        BY <3>2 DEF e, n
    <2> HIDE DEF v, t
    <2>9. t.r = u /\ t.entries = v
      BY <1>2, <2>1 DEF Bibs
    <2>10. BibParted(t, more) /\ Grown(b.r.marks, t.r.marks)
      BY <1>1, <2>6, <2>8, <2>9 DEF BibParted, t
    <2>11. QED
      BY <2>10 DEF t
  <1>7. CASE ~(ToSet(siblings) \subseteq Registered)
    <2> DEFINE x == TRUE
    <2>1. t = [b EXCEPT !.threw = x]
      BY <1>7 DEF MasterEntry
    <2> HIDE DEF t, x
    <2>2. t.r = b.r /\ t.entries = b.entries
      BY <1>2, <2>1 DEF Bibs
    <2>3. Parted(b.entries, b.r.marks, more)
      BY <1>2, PartedStill, GrownSame
    <2>4. BibParted(t, more) /\ Grown(b.r.marks, t.r.marks)
      BY <1>1, <1>2, <2>2, <2>3, GrownSame DEF BibParted, t
    <2>5. QED
      BY <2>4 DEF t
  <1>8. QED
    BY <1>6, <1>7

\* An item has its turn in makeBibliography.
LEMMA BibEntryParted ==
    ASSUME ParallelAssumption, document \in Documents, ~rewritten, NEW b, NEW seen,
           BibParted(b, seen), NEW i \in Cited(document), i \notin seen,
           NEW more, more = seen \cup {i}, NEW selector
    PROVE  /\ BibParted(BibEntry(b, i, selector), more)
           /\ Grown(b.r.marks, BibEntry(b, i, selector).r.marks)
  <1> DEFINE e == <<>>
             v == Append(b.entries, e)
             t == [b EXCEPT !.entries = v]
             u == BibEntry(b, i, selector)
  <1>1. SUFFICES BibParted(u, more) /\ Grown(b.r.marks, u.r.marks)
    OBVIOUS
  <1>2. /\ b \in Bibs /\ BibGood(b, document, rewritten) /\ b.entries \in Seq(Seq(Item))
        /\ Idle(b.r, document) /\ Parted(b.entries, b.r.marks, seen)
    BY BibPartedIs DEF BibParted
  <1>3. BibGood(u, document, rewritten)
    BY <1>2, BibEntryGood
  <1>4. CASE u = b
    <2>1. Parted(b.entries, b.r.marks, more)
      BY <1>2, PartedStill, GrownSame
    <2> HIDE DEF u
    <2>2. QED
      BY <1>2, <1>4, <2>1, GrownSame DEF BibParted
  <1>5. CASE u = t
    <2>1. e \in Seq(Item) /\ e = <<>>
      OBVIOUS
    <2>2. Grown(b.r.marks, b.r.marks)
      BY GrownSame
    <2> HIDE DEF e
    <2>3. Parted(v, b.r.marks, more)
      BY <1>2, <2>1, <2>2, PartedNext
    <2> HIDE DEF v
    <2>4. t.r = b.r /\ t.entries = v
      BY <1>2 DEF Bibs
    <2> HIDE DEF t, u
    <2>5. u.r = b.r /\ u.entries = v
      BY <1>5, <2>4
    <2>6. QED
      BY <1>2, <1>3, <2>2, <2>3, <2>5 DEF BibParted
  <1>6. i \in b.r.marks.master =>
           BibParted(MasterEntry(b, i), more) /\ Grown(b.r.marks, MasterEntry(b, i).r.marks)
    BY MasterParted
  <1>7. ArraysOf(b.r.marks, i) = {} =>
           BibParted(SoleEntry(b, i), more) /\ Grown(b.r.marks, SoleEntry(b, i).r.marks)
    BY SoleParted
  <1>8. \/ u = b
        \/ i \in b.r.marks.master /\ u = MasterEntry(b, i)
        \/ ArraysOf(b.r.marks, i) = {} /\ u = SoleEntry(b, i)
        \/ u = t
    BY DEF BibEntry
  <1> HIDE DEF u, t
  <1>9. QED
    BY <1>4, <1>5, <1>6, <1>7, <1>8

-----------------------------------------------------------------------------
(* What a bibliography of everything shows. *)

Shown(entries) == UNION {ToSet(entries[n]) : n \in DOMAIN entries}

\* The items that had their turn and are not parallel are shown, with those on
\* their lists; m are the marks at the beginning.
Reports(b, seen, m) ==
    /\ Grown(m, b.r.marks)
    /\ b.skips \subseteq Parallel(m) \cup seen
    /\ ~b.threw => \A h \in seen \ Parallel(m) :
                      /\ h \in Shown(b.entries)
                      /\ \A i : Holds(m, h, i) => i \in Shown(b.entries)

\* One more entry.
LEMMA ShownNext ==
    ASSUME NEW e \in Seq(Seq(Item)), NEW items \in Seq(Item)
    PROVE  Shown(Append(e, items)) = Shown(e) \cup ToSet(items)
  <1> DEFINE t == Append(e, items)
             p == Len(e) + 1
  <1>1. /\ DOMAIN e = 1 .. Len(e) /\ Len(e) \in Nat /\ DOMAIN t = 1 .. p
        /\ \A n \in 1 .. Len(e) : t[n] = e[n]
        /\ t[p] = items
    BY AppendIn
  <1> HIDE DEF t
  <1>2. DOMAIN t = DOMAIN e \cup {p}
    BY <1>1
  <1>3. \A n \in DOMAIN e : t[n] = e[n]
    BY <1>1
  <1>4. t[p] = items
    BY <1>1
  <1> HIDE DEF p
  <1>5. Shown(t) \subseteq Shown(e) \cup ToSet(items)
    <2>1. SUFFICES ASSUME NEW n \in DOMAIN t
                   PROVE  ToSet(t[n]) \subseteq Shown(e) \cup ToSet(items)
      BY Zenon DEF Shown
    <2>2. CASE n = p
      BY <1>4, <2>2, Zenon
    <2>3. CASE n \in DOMAIN e
      <3>1. t[n] = e[n]
        BY <1>3, <2>3, Zenon
      <3>2. ToSet(e[n]) \subseteq Shown(e)
        BY <2>3, Zenon DEF Shown
      <3>3. QED
        BY <3>1, <3>2, Zenon
    <2>4. QED
      BY <1>2, <2>2, <2>3, Zenon
  <1>6. Shown(e) \subseteq Shown(t)
    <2>1. SUFFICES ASSUME NEW n \in DOMAIN e
                   PROVE  ToSet(e[n]) \subseteq Shown(t)
      BY Zenon DEF Shown
    <2>2. t[n] = e[n] /\ n \in DOMAIN t
      BY <1>2, <1>3, Zenon
    <2>3. ToSet(t[n]) \subseteq Shown(t)
      BY <2>2, Zenon DEF Shown
    <2>4. QED
      BY <2>2, <2>3, Zenon
  <1>7. ToSet(items) \subseteq Shown(t)
    <2>1. p \in DOMAIN t
      BY <1>2, Zenon
    <2>2. ToSet(t[p]) \subseteq Shown(t)
      BY <2>1, Zenon DEF Shown
    <2>3. QED
      BY <1>4, <2>2, Zenon
  <1>8. Shown(t) = Shown(e) \cup ToSet(items)
    BY <1>5, <1>6, <1>7
  <1>9. QED
    BY <1>8 DEF t

\* A turn that shows some items.
LEMMA ReportsNext ==
    ASSUME NEW b, NEW seen, NEW m, Reports(b, seen, m), b.entries \in Seq(Seq(Item)),
           NEW i, NEW more, more = seen \cup {i}, NEW t, Grown(b.r.marks, t.r.marks),
           NEW items \in Seq(Item), t.entries = Append(b.entries, items),
           t.skips \subseteq b.skips \cup ToSet(items), t.threw = b.threw,
           t.skips \subseteq b.skips \/ ToSet(items) \subseteq Parallel(m) \cup {i},
           i \notin Parallel(m) =>
              i \in ToSet(items) /\ \A x : Holds(m, i, x) => x \in ToSet(items)
    PROVE  Reports(t, more, m)
  <1>1. Shown(t.entries) = Shown(b.entries) \cup ToSet(items)
    BY ShownNext
  <1>2. Grown(m, t.r.marks)
    BY GrownOn DEF Reports
  <1>3. t.skips \subseteq Parallel(m) \cup more
    BY DEF Reports
  <1>4. QED
    BY <1>1, <1>2, <1>3 DEF Reports

\* An item has its turn in a bibliography of everything.
LEMMA BibEntryReports ==
    ASSUME ParallelAssumption, document \in Documents, ~rewritten, NEW b, NEW seen,
           BibParted(b, seen), NEW i \in Cited(document), i \notin seen,
           NEW more, more = seen \cup {i}, NEW m, Reports(b, seen, m),
           NEW t, t = BibEntry(b, i, None), Grown(b.r.marks, t.r.marks)
    PROVE  Reports(t, more, m)
  <1>1. /\ b \in Bibs /\ b.entries \in Seq(Seq(Item)) /\ i \in Item
        /\ Typed(b.r.marks, document) /\ Ordered(b.r.marks, document)
        /\ Grown(m, b.r.marks)
    BY BibPartedIs, CitedIn DEF BibParted, Idle, Linked, Reports
  <1>2. CASE b.threw
    <2>1. t = b
      BY <1>2 DEF BibEntry
    <2>2. QED
      BY <1>2, <2>1 DEF Reports
  <1>3. CASE ~b.threw /\ i \in b.skips
    <2>1. t = b
      BY <1>3 DEF BibEntry
    <2>2. i \in Parallel(m)
      BY <1>3 DEF Reports
    <2>3. QED
      BY <2>1, <2>2 DEF Reports
  <1>4. CASE ~b.threw /\ i \notin b.skips /\ i \in b.r.marks.master
    <2> DEFINE siblings == SiblingsOf(b.r.marks, i)
               items == <<i>> \o siblings
               v == Append(b.entries, items)
               w == b.skips \cup ToSet(items)
               u == ComposeSet(FoldLeft(getCite, StartCitation(b.r),
                                        [k \in DOMAIN items |-> Entry(items[k])]))
               y == TRUE
    <2>1. t = MasterEntry(b, i)
      BY <1>4 DEF BibEntry, Included
    <2>2. ArraysOf(b.r.marks, i) # {}
      BY <1>1, <1>4, TypedIs
    <2>3. PICK a \in b.r.marks.arrays : i \in a.holders /\ siblings = a.list
      BY <2>2, SiblingsAre
    <2>4. siblings \in Seq(Item)
      BY <1>1, <2>3, TypedIs DEF Arrays
    <2>5. /\ ToSet(siblings) \subseteq Registered =>
                t = [b EXCEPT !.r = u, !.entries = v, !.skips = w]
          /\ ~(ToSet(siblings) \subseteq Registered) => t = [b EXCEPT !.threw = y]
      BY <2>1 DEF MasterEntry
    <2> HIDE DEF siblings
    <2>6. items \in Seq(Item) /\ ToSet(items) = {i} \cup ToSet(siblings)
      BY <1>1, <2>4, OneBefore
    <2> HIDE DEF items, u
    <2>7. CASE ToSet(siblings) \subseteq Registered
      <3> HIDE DEF v, w
      <3>1. t.entries = v /\ t.skips = w /\ t.threw = b.threw
        BY <1>1, <2>5, <2>7 DEF Bibs
      <3>2. ToSet(siblings) \subseteq Parallel(m)
        BY <1>1, <2>3 DEF Ordered, Grown
      <3>3. ASSUME NEW x, Holds(m, i, x)
            PROVE  x \in ToSet(siblings)
        <4>1. PICK d \in m.arrays : i \in d.holders /\ x \in ToSet(d.list)
          BY <3>3 DEF Holds
        <4>2. d = a
          BY <1>1, <2>3, <4>1, TypedIs DEF Apart, Grown
        <4>3. QED
          BY <2>3, <4>1, <4>2
      <3>4. QED
        BY <1>1, <2>6, <3>1, <3>2, <3>3, ReportsNext DEF v, w
    <2>8. CASE ~(ToSet(siblings) \subseteq Registered)
      <3> HIDE DEF y
      <3>1. t.skips = b.skips /\ t.threw = y
        BY <1>1, <2>5, <2>8 DEF Bibs
      <3>2. Grown(m, t.r.marks)
        BY <1>1, GrownOn
      <3>3. QED
        BY <3>1, <3>2 DEF Reports, y
    <2>9. QED
      BY <2>7, <2>8
  <1>5. CASE ~b.threw /\ i \notin b.skips /\ i \notin b.r.marks.master
    <2>1. \A x : ~Holds(m, i, x)
      BY <1>1, <1>5 DEF Holds, Grown
    <2>2. CASE ArraysOf(b.r.marks, i) = {}
      <3> DEFINE l == <<i>>
                 v == Append(b.entries, l)
                 u == getCite(b.r, Entry(i))
      <3>1. t = [b EXCEPT !.r = u, !.entries = v]
        BY <1>5, <2>2 DEF BibEntry, Included, SoleEntry
      <3>2. l \in Seq(Item) /\ ToSet(l) = {i}
        BY <1>1 DEF ToSet
      <3> HIDE DEF l, u
      <3>3. t.entries = Append(b.entries, l) /\ t.skips = b.skips /\ t.threw = b.threw
        <4> HIDE DEF v
        <4>1. t.entries = v /\ t.skips = b.skips /\ t.threw = b.threw
          BY <1>1, <3>1 DEF Bibs
        <4>2. QED
          BY <4>1 DEF v
      <3>4. QED
        BY <1>1, <2>1, <3>2, <3>3, ReportsNext
    <2>3. CASE ArraysOf(b.r.marks, i) # {}
      <3> DEFINE l == <<>>
                 v == Append(b.entries, l)
      <3>1. t = [b EXCEPT !.entries = v]
        BY <1>5, <2>3 DEF BibEntry, Included
      <3>2. l \in Seq(Item)
        OBVIOUS
      <3> HIDE DEF l
      <3>3. t.entries = Append(b.entries, l) /\ t.skips = b.skips /\ t.threw = b.threw
        <4> HIDE DEF v
        <4>1. t.entries = v /\ t.skips = b.skips /\ t.threw = b.threw
          BY <1>1, <3>1 DEF Bibs
        <4>2. QED
          BY <4>1 DEF v
      <3>4. i \in Parallel(m)
        BY <1>1, <1>5, <2>3, ArraysOfIn DEF Ordered, Grown
      <3>5. QED
        BY <1>1, <3>2, <3>3, <3>4, ReportsNext
    <2>4. QED
      BY <2>2, <2>3
  <1>6. QED
    BY <1>2, <1>3, <1>4, <1>5

-----------------------------------------------------------------------------
(* Every registered item has its turn. *)

\* Adding an item keeps the others.
LEMMA AddToAll ==
    ASSUME NEW list \in Seq(Item), NEW i \in Item
    PROVE  /\ AddTo(list, i) \in Seq(Item)
           /\ ToSet(list) \subseteq ToSet(AddTo(list, i)) /\ i \in ToSet(AddTo(list, i))
  <1>1. CASE Contains(list, i)
    BY <1>1, ContainsIn DEF AddTo
  <1>2. CASE ~Contains(list, i)
    BY <1>2, AppendIn DEF AddTo
  <1>3. QED
    BY <1>1, <1>2

\* So does adding items.
LEMMA AddAllAll ==
    ASSUME NEW list \in Seq(Item), NEW items \in Seq(Item)
    PROVE  /\ AddAll(list, items) \in Seq(Item)
           /\ ToSet(list) \subseteq ToSet(AddAll(list, items))
           /\ ToSet(items) \subseteq ToSet(AddAll(list, items))
  <1> DEFINE n == Len(items)
             Y == [k \in 0 .. n |-> {l \in Seq(Item) : /\ ToSet(list) \subseteq ToSet(l)
                                                       /\ \A j \in 1 .. k : items[j] \in ToSet(l)}]
  <1>1. AddAll(list, items) = FAdd!Folded(list, items, 0)
    BY DEF AddAll, AddStep, FoldLeft, MapThenFoldSet, Max, FAdd!Folded, FAdd!Last
  <1>2. DOMAIN items = 1 .. n /\ n \in Nat /\ \A k \in 1 .. n : items[k] \in Item
    OBVIOUS
  <1>3. list \in Y[0]
    BY <1>2
  <1>4. FAdd!Leads(Y, items, n, 0)
    <2>1. SUFFICES ASSUME NEW k \in 1 .. n, NEW l \in Y[k - 1]
                   PROVE  AddTo(l, items[k]) \in Y[k]
      BY DEF FAdd!Leads, AddStep
    <2> DEFINE t == AddTo(l, items[k])
    <2>2. k \in 0 .. n /\ k - 1 \in 0 .. n /\ 1 .. k = (1 .. k - 1) \cup {k}
      BY <1>2
    <2>3. l \in Seq(Item) /\ ToSet(list) \subseteq ToSet(l)
          /\ \A j \in 1 .. k - 1 : items[j] \in ToSet(l)
      BY <2>2
    <2>4. t \in Seq(Item) /\ ToSet(l) \subseteq ToSet(t) /\ items[k] \in ToSet(t)
      BY <1>2, <2>3, AddToAll
    <2> HIDE DEF t
    <2>5. \A j \in 1 .. k : items[j] \in ToSet(t)
      BY <2>2, <2>3, <2>4
    <2>6. t \in Y[k]
      BY <2>2, <2>3, <2>4, <2>5
    <2>7. QED
      BY <2>6 DEF t
  <1>5. FAdd!Folded(list, items, 0) \in Y[n]
    <2> HIDE DEF Y, n
    <2>1. QED
      BY <1>2, <1>3, <1>4, FAdd!FoldLeads
  <1> DEFINE t == AddAll(list, items)
  <1>6. t \in Y[n] /\ n \in 0 .. n
    BY <1>1, <1>2, <1>5
  <1> HIDE DEF t
  <1>7. t \in Seq(Item) /\ ToSet(list) \subseteq ToSet(t) /\ \A j \in 1 .. n : items[j] \in ToSet(t)
    BY <1>6
  <1>8. ToSet(items) \subseteq ToSet(t)
    BY <1>2, <1>7 DEF ToSet
  <1>9. QED
    BY <1>7, <1>8 DEF t

\* reflist has all registered items.
LEMMA RefsAll ==
    ASSUME NEW doc \in Documents
    PROVE  Cited(doc) \subseteq ToSet(RefsOf(doc))
  <1> DEFINE n == Len(doc)
             Y == [k \in 0 .. n |->
                      {l \in Seq(Item) : \A j \in 1 .. k : ToSet(doc[j]) \subseteq ToSet(l)}]
             e == <<>>
  <1>1. RefsOf(doc) = FAddAll!Folded(e, doc, 0)
    BY DEF RefsOf, AddAllStep, FoldLeft, MapThenFoldSet, Max, FAddAll!Folded, FAddAll!Last
  <1>2. DOMAIN doc = 1 .. n /\ n \in Nat /\ \A k \in 1 .. n : doc[k] \in Seq(Item)
    BY DEF Documents
  <1>3. e \in Y[0]
    BY <1>2
  <1>4. FAddAll!Leads(Y, doc, n, 0)
    <2>1. SUFFICES ASSUME NEW k \in 1 .. n, NEW l \in Y[k - 1]
                   PROVE  AddAll(l, doc[k]) \in Y[k]
      BY DEF FAddAll!Leads, AddAllStep
    <2> DEFINE t == AddAll(l, doc[k])
    <2>2. k \in 0 .. n /\ k - 1 \in 0 .. n /\ 1 .. k = (1 .. k - 1) \cup {k}
      BY <1>2
    <2>3. l \in Seq(Item) /\ \A j \in 1 .. k - 1 : ToSet(doc[j]) \subseteq ToSet(l)
      BY <2>2
    <2>4. t \in Seq(Item) /\ ToSet(l) \subseteq ToSet(t) /\ ToSet(doc[k]) \subseteq ToSet(t)
      BY <1>2, <2>3, AddAllAll
    <2> HIDE DEF t
    <2>5. \A j \in 1 .. k : ToSet(doc[j]) \subseteq ToSet(t)
      BY <2>2, <2>3, <2>4
    <2>6. t \in Y[k]
      BY <2>2, <2>4, <2>5
    <2>7. QED
      BY <2>6 DEF t
  <1>5. FAddAll!Folded(e, doc, 0) \in Y[n]
    <2> HIDE DEF Y, n, e
    <2>1. QED
      BY <1>2, <1>3, <1>4, FAddAll!FoldLeads
  <1> DEFINE t == RefsOf(doc)
  <1>6. t \in Y[n] /\ n \in 0 .. n
    BY <1>1, <1>2, <1>5
  <1> HIDE DEF t
  <1>7. \A j \in 1 .. n : ToSet(doc[j]) \subseteq ToSet(t)
    BY <1>6
  <1>8. QED
    BY <1>2, <1>7 DEF t, Cited

-----------------------------------------------------------------------------
(* First reports of a case. *)

\* The least of some numbers.
LEMMA Least ==
    ASSUME NEW S \in SUBSET Nat, S # {}
    PROVE  /\ \E x \in S : \A y \in S : x <= y
           /\ Min(S) \in S /\ \A y \in S : Min(S) <= y
  <1>1. PICK x \in S : \A y \in S : ~(<<y, x>> \in OpToRel(<, Nat))
    BY NatLessThanWellFounded, WFMin
  <1>2. \A y \in S : x <= y
    <2>1. TAKE y \in S
    <2>2. x \in Nat /\ y \in Nat
      OBVIOUS
    <2>3. ~(y < x)
      BY <1>1, <2>2 DEF OpToRel
    <2>4. QED
      BY <2>2, <2>3
  <1>3. QED
    BY <1>2 DEF Min

\* The citation with the first cite of an item.
LEMMA FirstCitedIs ==
    ASSUME document \in Documents, NEW i \in Registered
    PROVE  /\ FirstCited(i) \in DOMAIN document /\ Contains(document[FirstCited(i)], i)
           /\ \A p \in DOMAIN document : Contains(document[p], i) => FirstCited(i) <= p
  <1> DEFINE S == {q \in DOMAIN document : Contains(document[q], i)}
  <1>1. DOMAIN document \subseteq Nat /\ \A q \in DOMAIN document : document[q] \in Seq(Item)
    BY DEF Documents
  <1>2. PICK q \in DOMAIN document : i \in ToSet(document[q])
    BY DEF Registered, Cited
  <1>3. S \in SUBSET Nat /\ S # {}
    BY <1>1, <1>2, ContainsIn
  <1>4. Min(S) \in S /\ \A p \in S : Min(S) <= p
    <2> HIDE DEF S
    <2>1. QED
      BY <1>3, Least
  <1>5. FirstCited(i) = Min(S)
    BY DEF FirstCited
  <1>6. QED
    BY <1>4, <1>5

\* The first cite of an item, in a citation that repeats none.
LEMMA FirstCiteIs ==
    ASSUME document \in Documents, NoRepeats(document), NEW i \in Registered,
           NEW q \in DOMAIN document, NEW k \in DOMAIN document[q], document[q][k] = i,
           q <= FirstCited(i)
    PROVE  CitesOf(document, q)[k].first
  <1>1. DOMAIN document = 1 .. Len(document) /\ Len(document) \in Nat
        /\ document[q] \in Seq(Item) /\ FirstCited(i) \in Nat
    BY FirstCitedIs DEF Documents
  <1>2. DOMAIN document[q] = 1 .. Len(document[q]) /\ Len(document[q]) \in Nat
    BY <1>1
  <1>3. \A j \in 1 .. k - 1 : document[q][j] # document[q][k]
    <2>1. SUFFICES ASSUME NEW j \in 1 .. k - 1, document[q][j] = document[q][k] PROVE FALSE
      OBVIOUS
    <2>2. j \in DOMAIN document[q] /\ j # k
      BY <1>2
    <2>3. QED
      BY <2>1, <2>2 DEF NoRepeats, IsInjective
  <1>4. \A p \in 1 .. q - 1 : ~Contains(document[p], i)
    <2>1. SUFFICES ASSUME NEW p \in 1 .. q - 1, Contains(document[p], i) PROVE FALSE
      OBVIOUS
    <2>2. p \in DOMAIN document /\ p < q
      BY <1>1
    <2>3. FirstCited(i) <= p
      BY <2>1, <2>2, FirstCitedIs
    <2>4. QED
      BY <1>1, <2>2, <2>3
  <1> DEFINE f == /\ \A j \in 1 .. k - 1 : document[q][j] # document[q][k]
                  /\ \A p \in 1 .. q - 1 : ~Contains(document[p], document[q][k])
  <1>5. f
    BY <1>3, <1>4
  <1>6. CitesOf(document, q)[k].first = f
    BY DEF CitesOf
  <1>7. QED
    BY <1>5, <1>6

\* A parallel item that does not follow one of its case was first cited in a row
\* with them, after one that is not parallel.
LEMMA HeadOf ==
    ASSUME ParallelAssumption, document \in Documents, NoRepeats(document), NEW m,
           Cased(m, document), Chained(m, document), NEW i \in Parallel(m), ~Follows(i)
    PROVE  \E h \in Cited(document) : h \notin Parallel(m) /\ Holds(m, h, i)
  <1> DEFINE q == FirstCited(i)
             D == document[q]
             cite(k) == CitesOf(document, q)[k]
  <1>1. /\ i \in Registered /\ Case[i] # None /\ i \in Item
        /\ \A c \in Firsts(document) : c.id \in Parallel(m) => Fits(c)
    BY DEF Cased, Registered, Parallel
  <1>2. q \in DOMAIN document /\ Contains(D, i)
    BY <1>1, FirstCitedIs
  <1>3. D \in Seq(Item) /\ DOMAIN document \subseteq Nat
    BY <1>2 DEF Documents
  <1>4. PICK k \in DOMAIN D : D[k] = i
    BY <1>2, <1>3, ContainsIn DEF ToSet
  <1>5. DOMAIN D = 1 .. Len(D) /\ Len(D) \in Nat
    BY <1>3
  <1>6. q <= FirstCited(i)
    BY <1>2, <1>3
  <1>7. cite(k).first
    BY <1>1, <1>2, <1>4, <1>6, FirstCiteIs
  <1> HIDE DEF q
  <1>8. \A p \in DOMAIN D : /\ cite(p).id = D[p] /\ D[p] \in Cited(document) /\ D[p] \in Item
                            /\ p = 1 => cite(p).prev = None
                            /\ p > 1 => p - 1 \in DOMAIN D /\ cite(p).prev = D[p - 1]
                            /\ cite(p).first => cite(p) \in Firsts(document)
    BY <1>2, CitesIn
  <1> HIDE DEF cite
  <1> DEFINE S == {j \in 1 .. k : /\ Alike(D[j], i)
                                  /\ \A l \in j .. k : cite(l).first
                                  /\ \A l \in j + 1 .. k : D[l] \in Parallel(m)}
  <1>9. k \in S
    BY <1>1, <1>4, <1>5, <1>7 DEF Alike
  <1>10. PICK j \in S : \A l \in S : j <= l
    <2>1. S \in SUBSET Nat /\ S # {}
      BY <1>9
    <2> HIDE DEF S
    <2>2. QED
      BY <2>1, Least
  <1>11. /\ j \in 1 .. k /\ Alike(D[j], i) /\ j \in DOMAIN D
         /\ \A l \in j .. k : cite(l).first
         /\ \A l \in j + 1 .. k : D[l] \in Parallel(m)
    BY <1>5, <1>10
  <1>12. D[j] \notin Parallel(m)
    <2>1. SUFFICES ASSUME D[j] \in Parallel(m) PROVE FALSE
      OBVIOUS
    <2>2. cite(j).first
      BY <1>5, <1>11
    <2>3. cite(j) \in Firsts(document) /\ cite(j).id = D[j]
      BY <1>8, <1>11, <2>2
    <2>4. Fits(cite(j))
      BY <1>1, <2>1, <2>3
    <2>5. cite(j).prev # None
      BY <2>4 DEF Fits, ParallelAssumption
    <2>6. j > 1
      BY <1>5, <1>8, <1>11, <2>5
    <2> DEFINE e == j - 1
               x == D[e]
    <2>7. e \in DOMAIN D /\ cite(j).prev = x
      BY <1>8, <1>11, <2>6
    <2>8. e \in 1 .. k /\ e < j /\ j = e + 1 /\ e # k
      BY <1>5, <1>11, <2>6
    <2> HIDE DEF e
    <2>9. Alike(x, i)
      BY <1>11, <2>3, <2>4, <2>7 DEF Fits, Alike
    <2>10. x # i
      <3>1. IsInjective(D)
        BY <1>2 DEF NoRepeats
      <3>2. QED
        BY <1>4, <2>7, <2>8, <3>1 DEF IsInjective
    <2>11. x \in Registered
      BY <1>8, <2>7 DEF Registered
    <2>12. ~(FirstCited(x) < FirstCited(i))
      BY <2>9, <2>10, <2>11 DEF Follows, Alike
    <2>13. FirstCited(x) \in Nat /\ q \in Nat
      BY <1>2, <1>3, <2>11, FirstCitedIs
    <2>14. q <= FirstCited(x)
      BY <2>12, <2>13 DEF q
    <2>15. cite(e).first
      BY <1>2, <2>7, <2>11, <2>14, FirstCiteIs DEF cite
    <2>16. e .. k = {e} \cup (j .. k) /\ e + 1 .. k = j .. k /\ j .. k = {j} \cup (j + 1 .. k)
      BY <1>5, <1>11, <2>8
    <2>17. e \in S
      BY <1>11, <2>1, <2>8, <2>9, <2>15, <2>16
    <2>18. QED
      BY <1>5, <1>10, <1>11, <2>8, <2>17
  <1>13. j < k
    BY <1>4, <1>5, <1>11, <1>12
  <1>14. Chain(m, document, q, j, k)
    BY <1>11, <1>12, <1>13 DEF Chain, cite
  <1>15. Holds(m, D[j], D[k])
    BY <1>2, <1>11, <1>14 DEF Chained
  <1>16. QED
    BY <1>4, <1>8, <1>11, <1>12, <1>15

-----------------------------------------------------------------------------
(* What a bibliography shows depends on the marks at its beginning only. *)

\* The turn of i shows some items, or throws.
Shows(b, t, i, items) ==
    /\ t.entries = Append(b.entries, items) /\ t.threw = b.threw
    /\ t.skips \cup {i} = b.skips \cup ToSet(items) \cup {i}
Throws(b, t) == t.entries = b.entries /\ t.threw = TRUE /\ t.skips = b.skips

\* The turn of a master.
LEMMA MasterShows ==
    ASSUME NEW b \in Bibs, NEW i \in Item, NEW list \in Seq(Item), ~b.threw,
           SiblingsOf(b.r.marks, i) = list, NEW t, t = MasterEntry(b, i)
    PROVE  /\ ToSet(list) \subseteq Registered => Shows(b, t, i, <<i>> \o list)
           /\ ~(ToSet(list) \subseteq Registered) => Throws(b, t)
  <1> DEFINE items == <<i>> \o list
             v == Append(b.entries, items)
             w == b.skips \cup ToSet(items)
             u == ComposeSet(FoldLeft(getCite, StartCitation(b.r),
                                      [k \in DOMAIN items |-> Entry(items[k])]))
             y == TRUE
  <1>1. /\ ToSet(list) \subseteq Registered =>
              t = [b EXCEPT !.r = u, !.entries = v, !.skips = w]
        /\ ~(ToSet(list) \subseteq Registered) => t = [b EXCEPT !.threw = y]
    BY DEF MasterEntry
  <1> HIDE DEF items, u
  <1>2. CASE ToSet(list) \subseteq Registered
    <2> HIDE DEF v, w
    <2>1. t.entries = v /\ t.skips = w /\ t.threw = b.threw
      BY <1>1, <1>2 DEF Bibs
    <2>2. Shows(b, t, i, items)
      BY <2>1 DEF Shows, v, w
    <2>3. QED
      BY <1>2, <2>2 DEF items
  <1>3. CASE ~(ToSet(list) \subseteq Registered)
    <2> HIDE DEF y
    <2>1. t.entries = b.entries /\ t.skips = b.skips /\ t.threw = y
      BY <1>1, <1>3 DEF Bibs
    <2>2. QED
      BY <1>3, <2>1 DEF Throws, y
  <1>4. QED
    BY <1>2, <1>3

\* The turn of an item alone.
LEMMA SoleShows ==
    ASSUME NEW b \in Bibs, NEW i \in Item, NEW t, t = SoleEntry(b, i)
    PROVE  Shows(b, t, i, <<i>>)
  <1> DEFINE items == <<i>>
             u == getCite(b.r, Entry(i))
             v == Append(b.entries, items)
  <1>1. t = [b EXCEPT !.r = u, !.entries = v]
    BY DEF SoleEntry
  <1>2. ToSet(items) = {i}
    BY DEF ToSet
  <1> HIDE DEF items, u, v
  <1>3. t.entries = v /\ t.skips = b.skips /\ t.threw = b.threw
    BY <1>1 DEF Bibs
  <1>4. Shows(b, t, i, items)
    BY <1>2, <1>3 DEF Shows, v
  <1>5. QED
    BY <1>4 DEF items

\* The turn of an item without printed form.
LEMMA NoneShows ==
    ASSUME NEW b \in Bibs, NEW i, NEW t, t = [b EXCEPT !.entries = Append(@, <<>>)]
    PROVE  Shows(b, t, i, <<>>)
  <1> DEFINE items == <<>>
             v == Append(b.entries, items)
  <1>1. t = [b EXCEPT !.entries = v] /\ ToSet(items) = {}
    BY DEF ToSet
  <1> HIDE DEF items, v
  <1>2. t.entries = v /\ t.skips = b.skips /\ t.threw = b.threw
    BY <1>1 DEF Bibs
  <1>3. Shows(b, t, i, items)
    BY <1>1, <1>2 DEF Shows, v
  <1>4. QED
    BY <1>3 DEF items

\* What the turn of i shows, by the marks m at the beginning: a master with its
\* list, nothing of a parallel item, and any other item alone.
LEMMA TurnShows ==
    ASSUME document \in Documents, ~rewritten, NEW m, Typed(m, document),
           Ordered(m, document), NEW seen, NEW b, BibParted(b, seen), Grown(m, b.r.marks),
           NEW i \in Cited(document), NEW selector, ~b.threw, Included(selector, i),
           i \notin b.skips, NEW t, t = BibEntry(b, i, selector)
    PROVE  /\ \A a \in m.arrays : i \in m.master /\ i \in a.holders =>
                 /\ ToSet(a.list) \subseteq Registered => Shows(b, t, i, <<i>> \o a.list)
                 /\ ~(ToSet(a.list) \subseteq Registered) => Throws(b, t)
           /\ i \notin m.master /\ i \in Parallel(m) => Shows(b, t, i, <<>>)
           /\ i \notin m.master /\ i \notin Parallel(m) => Shows(b, t, i, <<i>>)
  <1> DEFINE n == b.r.marks
  <1>1. /\ b \in Bibs /\ Typed(n, document) /\ Ordered(n, document) /\ Grown(m, n)
    BY BibPartedIs DEF BibParted, Idle, Linked
  <1>2. i \in Item
    BY CitedIn
  <1>3. /\ i \in n.master => t = MasterEntry(b, i)
        /\ i \notin n.master /\ ArraysOf(n, i) = {} => t = SoleEntry(b, i)
        /\ i \notin n.master /\ ArraysOf(n, i) # {} => t = [b EXCEPT !.entries = Append(@, <<>>)]
    BY DEF BibEntry
  <1> HIDE DEF n
  <1>4. ASSUME NEW a \in n.arrays, i \in a.holders
        PROVE  SiblingsOf(n, i) = a.list /\ a.list \in Seq(Item)
    <2>1. ArraysOf(n, i) # {}
      BY <1>4, ArraysOfIn
    <2>2. PICK d \in n.arrays : i \in d.holders /\ SiblingsOf(n, i) = d.list
      BY <2>1, SiblingsAre
    <2>3. d = a
      BY <1>1, <1>4, <2>2, TypedIs DEF Apart
    <2>4. a.list \in Seq(Item)
      BY <1>1, TypedIs DEF Arrays
    <2>5. QED
      BY <2>2, <2>3, <2>4
  <1>5. ASSUME NEW a \in m.arrays, i \in m.master, i \in a.holders
        PROVE  /\ ToSet(a.list) \subseteq Registered => Shows(b, t, i, <<i>> \o a.list)
               /\ ~(ToSet(a.list) \subseteq Registered) => Throws(b, t)
    <2>1. a \in n.arrays /\ i \in n.master
      BY <1>1, <1>5 DEF Grown
    <2>2. t = MasterEntry(b, i) /\ SiblingsOf(n, i) = a.list /\ a.list \in Seq(Item)
      BY <1>3, <1>4, <1>5, <2>1
    <2>3. QED
      BY <1>1, <1>2, <2>2, MasterShows DEF n
  <1>6. ASSUME i \notin m.master, i \in Parallel(m)
        PROVE  Shows(b, t, i, <<>>)
    <2>1. i \in Parallel(n) /\ ArraysOf(n, i) # {} /\ i \notin n.master
      BY <1>1, <1>6 DEF Grown, Ordered
    <2>2. QED
      BY <1>1, <1>3, <2>1, NoneShows
  <1>7. ASSUME i \notin m.master, i \notin Parallel(m)
        PROVE  Shows(b, t, i, <<i>>)
    <2>1. CASE i \in n.master
      <3>1. PICK a \in n.arrays : i \in a.holders /\ a.list = <<>>
        BY <1>1, <1>7, <2>1 DEF Grown
      <3> DEFINE list == <<>>
      <3>2. list \in Seq(Item) /\ SiblingsOf(n, i) = list /\ ToSet(list) \subseteq Registered
        BY <1>4, <3>1 DEF ToSet
      <3>3. t = MasterEntry(b, i) /\ <<i>> \o list = <<i>>
        BY <1>2, <1>3, <2>1
      <3> HIDE DEF list
      <3>4. Shows(b, t, i, <<i>> \o list)
        BY <1>1, <1>2, <3>2, <3>3, MasterShows DEF n
      <3>5. QED
        BY <3>3, <3>4
    <2>2. CASE i \notin n.master
      <3>1. i \notin Parallel(n)
        BY <1>1, <1>7 DEF Grown
      <3>2. ArraysOf(n, i) = {}
        BY <1>1, <2>2, <3>1, ArraysOfIn DEF Ordered
      <3>3. t = SoleEntry(b, i)
        BY <1>3, <2>2, <3>2
      <3>4. QED
        BY <1>1, <1>2, <3>3, SoleShows
    <2>3. QED
      BY <2>1, <2>2
  <1>8. QED
    BY <1>5, <1>6, <1>7

\* Two bibliographies in progress that have shown the same.
Same(b, c, seen) ==
    /\ b.entries = c.entries /\ b.threw = c.threw
    /\ b.skips \cup seen = c.skips \cup seen

\* They do when the turn of an item shows the same in both.
LEMMA ShowsSame ==
    ASSUME NEW b, NEW c, NEW seen, Same(b, c, seen), NEW i, NEW more, more = seen \cup {i},
           NEW t, NEW u, NEW items, Shows(b, t, i, items), Shows(c, u, i, items)
    PROVE  Same(t, u, more)
  BY DEF Same, Shows

\* They show the same in the turn of i.
LEMMA TurnSame ==
    ASSUME document \in Documents, ~rewritten, NEW m, Typed(m, document),
           Ordered(m, document), NEW seen, NEW b, BibParted(b, seen), Grown(m, b.r.marks),
           NEW c, BibParted(c, seen), Grown(m, c.r.marks), Same(b, c, seen),
           NEW i \in Cited(document), i \notin seen, NEW more, more = seen \cup {i},
           NEW selector, NEW t, t = BibEntry(b, i, selector),
           NEW u, u = BibEntry(c, i, selector)
    PROVE  Same(t, u, more)
  <1>1. b.threw = c.threw /\ (i \in b.skips <=> i \in c.skips)
    BY DEF Same
  <1>2. CASE b.threw \/ ~Included(selector, i) \/ i \in b.skips
    <2>1. t = b /\ u = c
      BY <1>1, <1>2 DEF BibEntry
    <2>2. QED
      BY <2>1 DEF Same
  <1>3. CASE ~b.threw /\ Included(selector, i) /\ i \notin b.skips
    <2>1. CASE i \in m.master
      <3>1. ArraysOf(m, i) # {}
        BY <2>1, TypedIs
      <3>2. PICK a \in m.arrays : i \in a.holders
        BY <3>1, SiblingsAre
      <3>3. /\ ToSet(a.list) \subseteq Registered => Shows(b, t, i, <<i>> \o a.list)
            /\ ~(ToSet(a.list) \subseteq Registered) => Throws(b, t)
        BY <1>3, <2>1, <3>2, TurnShows
      <3>4. /\ ToSet(a.list) \subseteq Registered => Shows(c, u, i, <<i>> \o a.list)
            /\ ~(ToSet(a.list) \subseteq Registered) => Throws(c, u)
        BY <1>1, <1>3, <2>1, <3>2, TurnShows
      <3>5. CASE ToSet(a.list) \subseteq Registered
        BY <3>3, <3>4, <3>5, ShowsSame
      <3>6. CASE ~(ToSet(a.list) \subseteq Registered)
        BY <3>3, <3>4, <3>6 DEF Throws, Same
      <3>7. QED
        BY <3>5, <3>6
    <2>2. CASE i \notin m.master /\ i \in Parallel(m)
      <3>1. Shows(b, t, i, <<>>)
        BY <1>3, <2>2, TurnShows
      <3>2. Shows(c, u, i, <<>>)
        BY <1>1, <1>3, <2>2, TurnShows
      <3>3. QED
        BY <3>1, <3>2, ShowsSame
    <2>3. CASE i \notin m.master /\ i \notin Parallel(m)
      <3>1. Shows(b, t, i, <<i>>)
        BY <1>3, <2>3, TurnShows
      <3>2. Shows(c, u, i, <<i>>)
        BY <1>1, <1>3, <2>3, TurnShows
      <3>3. QED
        BY <3>1, <3>2, ShowsSame
    <2>4. QED
      BY <2>1, <2>2, <2>3
  <1>4. QED
    BY <1>2, <1>3

\* What the bibliography has walked through after k items.
Walked(s, k) == {s[j] : j \in 1 .. k}

\* A bibliography item by item, from rendering r.
Begun(r) == [r |-> r, entries |-> <<>>, skips |-> {}, threw |-> FALSE]
Lists(h, r, selector) ==
    /\ h[0] = Begun(r)
    /\ \A k \in 1 .. Len(RefsOf(document)) :
          h[k] = BibEntry(h[k - 1], RefsOf(document)[k], selector)

\* The registered items come one after another.
LEMMA ListsWalked ==
    ASSUME document \in Documents, NEW s, s = RefsOf(document), NEW n, n = Len(s)
    PROVE  /\ DOMAIN s = 1 .. n /\ n \in Nat
           /\ \A k \in 1 .. n : s[k] \in Cited(document)
           /\ Walked(s, 0) = {} /\ Walked(s, n) = Cited(document)
           /\ \A k \in 0 .. n - 1 : /\ s[k + 1] \notin Walked(s, k)
                                    /\ Walked(s, k + 1) = Walked(s, k) \cup {s[k + 1]}
  <1>1. s \in Seq(Cited(document)) /\ IsInjective(s) /\ Cited(document) \subseteq ToSet(s)
    BY RefsIn, RefsAll
  <1>2. DOMAIN s = 1 .. n /\ n \in Nat /\ \A k \in 1 .. n : s[k] \in Cited(document)
    BY <1>1
  <1>3. Walked(s, 0) = {} /\ Walked(s, n) = Cited(document)
    BY <1>1, <1>2 DEF Walked, ToSet
  <1>4. ASSUME NEW k \in 0 .. n - 1
        PROVE  /\ s[k + 1] \notin Walked(s, k)
               /\ Walked(s, k + 1) = Walked(s, k) \cup {s[k + 1]}
    <2>1. ASSUME NEW j \in 1 .. k, s[j] = s[k + 1] PROVE FALSE
      <3>1. j \in DOMAIN s /\ k + 1 \in DOMAIN s /\ j # k + 1
        BY <1>2
      <3>2. QED
        BY <1>1, <2>1, <3>1 DEF IsInjective
    <2>2. 1 .. k + 1 = (1 .. k) \cup {k + 1}
      BY <1>2
    <2>3. QED
      BY <2>1, <2>2 DEF Walked
  <1>5. QED
    BY <1>2, <1>3, <1>4

\* All along it, what has been walked through is parted.
LEMMA ListsParted ==
    ASSUME ParallelAssumption, document \in Documents, ~rewritten,
           NEW r, Good(r, document, FALSE), Idle(r, document),
           NEW selector, NEW h, Lists(h, r, selector),
           NEW s, s = RefsOf(document), NEW n, n = Len(s)
    PROVE  \A k \in 0 .. n : /\ BibParted(h[k], Walked(s, k))
                             /\ Grown(r.marks, h[k].r.marks)
                             /\ selector = None => Reports(h[k], Walked(s, k), r.marks)
  <1> DEFINE Along(b, k) == /\ BibParted(b, Walked(s, k))
                            /\ Grown(r.marks, b.r.marks)
                            /\ selector = None => Reports(b, Walked(s, k), r.marks)
             P == {k \in 0 .. n : Along(h[k], k)}
             o == Begun(r)
  <1>1. /\ n \in Nat /\ Walked(s, 0) = {}
        /\ \A k \in 1 .. n : s[k] \in Cited(document)
        /\ \A k \in 0 .. n - 1 : /\ s[k + 1] \notin Walked(s, k)
                                 /\ Walked(s, k + 1) = Walked(s, k) \cup {s[k + 1]}
    BY ListsWalked
  <1>2. h[0] = o /\ \A k \in 1 .. n : h[k] = BibEntry(h[k - 1], s[k], selector)
    BY DEF Lists
  <1>3. Along(o, 0)
    <2>1. r \in Renderings /\ Good(r, document, rewritten)
      BY DEF Good, Sound, Whole
    <2> DEFINE e == <<>>
               f == {}
    <2>2. /\ e \in Seq(Seq(Item)) /\ EntryCases(e) /\ f \in SUBSET Item
          /\ Parted(e, r.marks, f)
      BY DEF EntryCases, Parted
    <2>3. o = [r |-> r, entries |-> e, skips |-> f, threw |-> FALSE]
      BY DEF Begun
    <2> HIDE DEF e, f, o
    <2>4. o \in Bibs /\ o.r = r /\ o.entries = e
      BY <2>1, <2>2, <2>3 DEF Bibs
    <2>5. Walked(s, 0) = f
      BY <1>1 DEF f
    <2>6. BibParted(o, Walked(s, 0))
      BY <2>1, <2>2, <2>4, <2>5 DEF BibGood, BibParted
    <2>7. o.skips = f
      BY <2>3
    <2>8. Grown(r.marks, r.marks)
      BY GrownSame
    <2>9. Reports(o, Walked(s, 0), r.marks)
      BY <2>4, <2>5, <2>7, <2>8 DEF Reports, f
    <2>10. QED
      BY <2>4, <2>6, <2>8, <2>9
  <1> HIDE DEF o
  <1>4. 0 \in P
    BY <1>1, <1>2, <1>3
  <1>5. ASSUME NEW k \in 0 .. n - 1, k \in P
        PROVE  k + 1 \in P
    <2> DEFINE b == h[k]
               i == s[k + 1]
               seen == Walked(s, k)
               more == Walked(s, k + 1)
               t == h[k + 1]
    <2>1. k + 1 \in 1 .. n /\ k + 1 \in 0 .. n /\ k + 1 - 1 = k
      BY <1>1
    <2>2. t = BibEntry(b, i, selector) /\ i \in Cited(document)
          /\ i \notin seen /\ more = seen \cup {i}
      BY <1>1, <1>2, <2>1
    <2>3. /\ BibParted(b, seen) /\ Grown(r.marks, b.r.marks)
          /\ selector = None => Reports(b, seen, r.marks)
      BY <1>5
    <2> HIDE DEF b, i, seen, more, t
    <2>4. BibParted(t, more) /\ Grown(b.r.marks, t.r.marks)
      BY <2>2, <2>3, BibEntryParted
    <2>5. Grown(r.marks, t.r.marks)
      BY <2>3, <2>4, GrownOn
    <2>6. ASSUME selector = None PROVE Reports(t, more, r.marks)
      <3>1. Reports(b, seen, r.marks) /\ t = BibEntry(b, i, None)
        BY <2>2, <2>3, <2>6
      <3>2. QED
        BY <2>2, <2>3, <2>4, <3>1, BibEntryReports
    <2>7. QED
      BY <2>1, <2>4, <2>5, <2>6 DEF t, more
  <1> HIDE DEF P
  <1>6. \A k \in 0 .. n : k \in P
    BY <1>1, <1>4, <1>5, FBib!UpTo
  <1>7. QED
    BY <1>6 DEF P

\* makeBibliography goes through the registered items.
LEMMA BibliographyLists ==
    ASSUME document \in Documents, NEW r, r = Going, NEW selector,
           NEW end, end = getBibliographyEntries(selector),
           NEW n, n = Len(RefsOf(document))
    PROVE  \E h : Lists(h, r, selector) /\ h[n] = end
  <1> DEFINE s == RefsOf(document)
             o == Begun(r)
  <1>1. end = FBib!Folded(o, s, selector)
    BY DEF getBibliographyEntries, Begun, Going, RefsOf, reflist, BibStep,
           FoldLeft, MapThenFoldSet, Max, FBib!Folded, FBib!Last
  <1>2. DOMAIN s = 1 .. n /\ n \in Nat
    BY ListsWalked
  <1> HIDE DEF s, o
  <1>3. PICK h : FBib!Runs(h, o, s, n, selector)
    BY <1>2, FBib!FoldRuns
  <1>4. /\ h[0] = o /\ h[n] = end
        /\ \A k \in 1 .. n : h[k] = BibEntry(h[k - 1], s[k], selector)
    BY <1>1, <1>3 DEF FBib!Runs, BibStep
  <1>5. Lists(h, r, selector)
    BY <1>4 DEF Lists, s, o
  <1>6. QED
    BY <1>4, <1>5

\* A bibliography is made: its entries are apart.
LEMMA BibliographyParted ==
    ASSUME ParallelAssumption, IInv, ~rewritten, Idle(Going, document), NEW selector,
           NEW end, end = getBibliographyEntries(selector)
    PROVE  /\ Idle(end.r, document) /\ EntriesApart(end.entries)
           /\ Grown(Going.marks, end.r.marks)
           /\ selector = None => Reports(end, Cited(document), Going.marks)
  <1> DEFINE s == RefsOf(document)
             n == Len(s)
  <1>1. PICK r : r = Going
    OBVIOUS
  <1>2. document \in Documents /\ Good(r, document, FALSE) /\ Idle(r, document)
    BY <1>1 DEF IInv, Good, Sound, Whole
  <1>3. PICK h : Lists(h, r, selector) /\ h[n] = end
    <2> HIDE DEF n
    <2>1. n = Len(RefsOf(document))
      BY DEF n
    <2>2. QED
      BY <1>1, <1>2, <2>1, BibliographyLists
  <1>4. n \in Nat /\ Walked(s, n) = Cited(document)
    BY <1>2, ListsWalked
  <1>5. /\ BibParted(h[n], Walked(s, n)) /\ Grown(r.marks, h[n].r.marks)
        /\ selector = None => Reports(h[n], Walked(s, n), r.marks)
    <2>1. n \in 0 .. n
      BY <1>4
    <2> HIDE DEF n
    <2>2. s = RefsOf(document) /\ n = Len(s)
      BY DEF n
    <2> HIDE DEF s
    <2>3. QED
      BY <1>2, <1>3, <2>1, <2>2, ListsParted
  <1> HIDE DEF n, s
  <1>6. BibParted(end, Cited(document))
    BY <1>3, <1>4, <1>5
  <1>7. /\ Typed(end.r.marks, document) /\ Ordered(end.r.marks, document)
        /\ end.entries \in Seq(Seq(Item)) /\ Parted(end.entries, end.r.marks, Cited(document))
        /\ Idle(end.r, document)
    BY <1>6, BibPartedIs DEF BibParted, Idle, Linked
  <1> DEFINE m == end.r.marks
             e == end.entries
             w == Cited(document)
  <1>8. Typed(m, document) /\ Ordered(m, document) /\ e \in Seq(Seq(Item)) /\ Parted(e, m, w)
    BY <1>7
  <1> HIDE DEF m, e, w
  <1>9. EntriesApart(e)
    BY <1>8, PartedApart
  <1>10. QED
    BY <1>1, <1>3, <1>4, <1>5, <1>7, <1>9 DEF e

\* So are the first reports, in a bibliography of everything.
LEMMA FirstsShown ==
    ASSUME ParallelAssumption, IInv, ~rewritten, NoRepeats(document), Idle(Going, document),
           NEW end, Reports(end, Cited(document), Going.marks), ~end.threw,
           NEW i \in Registered, ~Follows(i)
    PROVE  i \in Shown(end.entries)
  <1> DEFINE m == Going.marks
  <1>1. document \in Documents /\ Cased(m, document) /\ Chained(m, document)
    BY DEF IInv, Good, Sound, Idle, Linked
  <1> HIDE DEF m
  <1>2. CASE i \notin Parallel(m)
    BY <1>2 DEF Reports, Registered, m
  <1>3. CASE i \in Parallel(m)
    <2>1. PICK h \in Cited(document) : h \notin Parallel(m) /\ Holds(m, h, i)
      BY <1>1, <1>3, HeadOf
    <2>2. QED
      BY <2>1 DEF Reports, m
  <1>4. QED
    BY <1>2, <1>3

-----------------------------------------------------------------------------
(* The system, as long as no citation has an item twice. *)

PInv ==
    /\ ~rewritten /\ NoRepeats(document) =>
          Idle(Going, document) /\ EntriesApart(bib.entries)
    /\ FirstReportsPrinted

\* The initial state.
LEMMA InitParted ==
    ASSUME ParallelAssumption, Init
    PROVE  PInv
  <1>1. document = <<>> /\ marks = NoMarks /\ bib.entries = <<>>
        /\ run = [set |-> <<>>, series |-> TRUE]
    BY DEF Init, NoBib
  <1>2. EntriesApart(bib.entries)
    BY <1>1 DEF EntriesApart
  <1>3. NoMarks.master = {} /\ NoMarks.arrays = {} /\ Parallel(NoMarks) = {}
    BY DEF NoMarks, Parallel
  <1>4. Linked(NoMarks, document)
    BY <1>1, <1>3 DEF Linked, Chained, Ordered
  <1> DEFINE e == <<>>
             t == TRUE
             b == Going
  <1>5. b = [marks |-> NoMarks, set |-> e, series |-> t] /\ DOMAIN e = {}
    BY <1>1 DEF Going
  <1> HIDE DEF e, t, b
  <1>6. b.marks = NoMarks /\ b.set = e
    BY <1>5
  <1>7. Idle(b, document)
    BY <1>4, <1>5, <1>6 DEF Idle
  <1>8. FirstReportsPrinted
    BY DEF Init, NoBib, FirstReportsPrinted
  <1>9. QED
    BY <1>2, <1>7, <1>8 DEF PInv, b

\* A citation is added.
LEMMA AddParted ==
    ASSUME ParallelAssumption, IInv, PInv, AddCitation
    PROVE  PInv'
  <1>1. PICK items \in Clusters :
            processCitationCluster(Append(document, items), Len(document) + 1)
    BY DEF AddCitation
  <1>2. rewritten' = rewritten
    BY DEF AddCitation
  <1>3. bib'.entries = <<>> /\ bib'.outcome = "none"
    <2>1. bib' = NoBib
      BY <1>1 DEF processCitationCluster
    <2>2. QED
      BY <2>1 DEF NoBib
  <1>4. SUFFICES ASSUME ~rewritten', NoRepeats(document')
                 PROVE  Idle(Going', document') /\ EntriesApart(bib'.entries)
    BY <1>3 DEF PInv, FirstReportsPrinted
  <1>5. ~rewritten /\ (NoRepeats(document) => Idle(Going, document))
    BY <1>2, <1>4 DEF PInv
  <1>6. Idle(Going', document')
    BY <1>1, <1>2, <1>4, <1>5, AddIdle
  <1>7. EntriesApart(bib'.entries)
    BY <1>3 DEF EntriesApart
  <1>8. QED
    BY <1>6, <1>7

\* A bibliography is made.
LEMMA BibPartedStep ==
    ASSUME ParallelAssumption, IInv, PInv, MakeBibliography
    PROVE  PInv'
  <1>1. PICK selector \in Selectors \cup {None} :
           LET end == getBibliographyEntries(selector)
           IN  /\ marks' = end.r.marks
               /\ run' = [set |-> end.r.set, series |-> end.r.series]
               /\ bib' = [outcome |-> IF end.threw THEN "threw" ELSE "returned",
                          selector |-> selector, entries |-> end.entries]
    BY DEF MakeBibliography
  <1> DEFINE g == getBibliographyEntries(selector)
  <1>2. PICK end : end = g
    OBVIOUS
  <1>3. /\ marks' = end.r.marks
        /\ run' = [set |-> end.r.set, series |-> end.r.series]
        /\ bib'.entries = end.entries /\ bib'.selector = selector
        /\ bib'.outcome = "returned" => ~end.threw
    BY <1>1, <1>2
  <1>4. BibGood(end, document, rewritten)
    BY <1>2, BibliographyGood
  <1>5. UNCHANGED <<document, rewritten>>
    BY DEF MakeBibliography
  <1>6. end.r \in Renderings
    BY <1>4 DEF BibGood, Good
  <1>7. end.r = [marks |-> end.r.marks, set |-> end.r.set, series |-> end.r.series]
    BY <1>6, RenderingIs
  <1>8. Going' = end.r
    BY <1>3, <1>7 DEF Going
  <1>9. ASSUME ~rewritten, NoRepeats(document)
        PROVE  /\ Idle(Going, document) /\ Idle(end.r, document) /\ EntriesApart(end.entries)
               /\ selector = None => Reports(end, Cited(document), Going.marks)
    <2>1. Idle(Going, document)
      BY <1>9 DEF PInv
    <2>2. QED
      BY <1>2, <1>9, <2>1, BibliographyParted
  <1>10. FirstReportsPrinted'
    <2>1. SUFFICES ASSUME ~rewritten, NoRepeats(document), bib'.outcome = "returned",
                          selector = None, NEW i \in Registered, ~Follows(i)
                   PROVE  i \in Shown(end.entries)
      <3>1. Registered' = Registered /\ \A i : Follows(i)' = Follows(i)
        BY <1>5 DEF Registered, Follows, FirstCited
      <3>2. Printed' = Shown(end.entries)
        BY <1>3 DEF Printed, Shown
      <3>3. QED
        BY <1>3, <1>5, <3>1, <3>2 DEF FirstReportsPrinted
    <2>2. QED
      BY <1>3, <1>9, <2>1, FirstsShown
  <1>11. QED
    BY <1>3, <1>5, <1>8, <1>9, <1>10 DEF PInv

\* The second inductive invariant.
LEMMA AlwaysParted ==
    ASSUME ParallelAssumption
    PROVE  Spec => []PInv
  <1>1. Init => PInv
    BY InitParted
  <1>2. ReplaceLastCitation => PInv'
    BY DEF ReplaceLastCitation, PInv, FirstReportsPrinted
  <1>3. PInv /\ UNCHANGED vars => PInv'
    BY DEF PInv, vars, Going, FirstReportsPrinted, Registered, Follows, FirstCited, Printed
  <1>4. IInv /\ PInv /\ [Next]_vars => PInv'
    BY <1>2, <1>3, AddParted, BibPartedStep DEF Next
  <1>5. QED
    BY <1>1, <1>4, AlwaysGood, PTL DEF Spec

\* For any items, cases and lists, as long as no citation was replaced and
\* none has an item twice: no reference is in two entries of the bibliography
\* (MasterEntry, BibEntry: siblings are left out, or printed with their one
\* master).
THEOREM AlwaysInOneEntry == Spec => [](NoRepeats(document) => InOneEntry)
  <1>1. ParallelAssumption
    BY ParallelAssumption
  <1>2. PInv => (NoRepeats(document) => InOneEntry)
    BY DEF PInv, InOneEntry, EntriesApart
  <1>3. QED
    BY <1>1, <1>2, AlwaysParted, PTL

\* For any items, cases and lists: FirstReportsPrinted (MasterEntry, BibEntry:
\* who is left out of a bibliography of everything is on the list of a master
\* that is printed, or comes after another report of the case).
THEOREM AlwaysFirstReportsPrinted == Spec => []FirstReportsPrinted
  <1>1. ParallelAssumption
    BY ParallelAssumption
  <1>2. PInv => FirstReportsPrinted
    BY DEF PInv
  <1>3. QED
    BY <1>1, <1>2, AlwaysParted, PTL

-----------------------------------------------------------------------------
(* The same bibliography again. *)

\* Two bibliographies show the same, if marks have only grown in between.
LEMMA ListsSame ==
    ASSUME ParallelAssumption, document \in Documents, ~rewritten,
           NEW r, Good(r, document, FALSE), Idle(r, document),
           NEW q, Good(q, document, FALSE), Idle(q, document), Grown(r.marks, q.marks),
           NEW selector, NEW h, Lists(h, r, selector), NEW g, Lists(g, q, selector),
           NEW n, n = Len(RefsOf(document))
    PROVE  Same(h[n], g[n], Cited(document))
  <1>1. PICK s : s = RefsOf(document)
    OBVIOUS
  <1> DEFINE P == {k \in 0 .. n : Same(h[k], g[k], Walked(s, k))}
             m == r.marks
  <1>2. /\ n \in Nat
        /\ \A k \in 1 .. n : s[k] \in Cited(document)
        /\ Walked(s, n) = Cited(document)
        /\ \A k \in 0 .. n - 1 : /\ s[k + 1] \notin Walked(s, k)
                                 /\ Walked(s, k + 1) = Walked(s, k) \cup {s[k + 1]}
    <2>1. n = Len(s)
      BY <1>1
    <2>2. QED
      BY <1>1, <2>1, ListsWalked
  <1>3. /\ h[0] = Begun(r) /\ g[0] = Begun(q)
        /\ \A k \in 1 .. n : h[k] = BibEntry(h[k - 1], s[k], selector)
        /\ \A k \in 1 .. n : g[k] = BibEntry(g[k - 1], s[k], selector)
    BY <1>1 DEF Lists
  <1>4. \A k \in 0 .. n : BibParted(h[k], Walked(s, k)) /\ Grown(m, h[k].r.marks)
    <2>1. n = Len(s)
      BY <1>1
    <2>2. QED
      BY <1>1, <2>1, ListsParted
  <1>5. \A k \in 0 .. n : BibParted(g[k], Walked(s, k)) /\ Grown(q.marks, g[k].r.marks)
    <2>1. n = Len(s)
      BY <1>1
    <2>2. QED
      BY <1>1, <2>1, ListsParted
  <1>6. Typed(m, document) /\ Ordered(m, document)
    BY DEF Good, Sound, Idle, Linked
  <1>7. 0 \in P
    <2>1. Same(Begun(r), Begun(q), Walked(s, 0))
      BY DEF Same, Begun
    <2>2. QED
      BY <1>2, <1>3, <2>1
  <1>8. ASSUME NEW k \in 0 .. n - 1, k \in P
        PROVE  k + 1 \in P
    <2> DEFINE b == h[k]
               c == g[k]
               i == s[k + 1]
               seen == Walked(s, k)
               more == Walked(s, k + 1)
               t == h[k + 1]
               u == g[k + 1]
    <2>1. k \in 0 .. n /\ k + 1 \in 1 .. n /\ k + 1 \in 0 .. n /\ k + 1 - 1 = k
      BY <1>2
    <2>2. /\ t = BibEntry(b, i, selector) /\ u = BibEntry(c, i, selector)
          /\ i \in Cited(document) /\ i \notin seen /\ more = seen \cup {i}
      BY <1>2, <1>3, <2>1
    <2>3. Same(b, c, seen) /\ BibParted(b, seen) /\ Grown(m, b.r.marks)
      BY <1>4, <1>8, <2>1
    <2>4. BibParted(c, seen) /\ Grown(q.marks, c.r.marks)
      BY <1>5, <2>1
    <2> HIDE DEF b, c, i, seen, more, t, u
    <2>5. Grown(m, c.r.marks)
      BY <2>4, GrownOn
    <2> HIDE DEF m
    <2>6. Same(t, u, more)
      BY <1>6, <2>2, <2>3, <2>4, <2>5, TurnSame
    <2>7. QED
      BY <2>1, <2>6 DEF t, u, more
  <1> HIDE DEF P
  <1>9. \A k \in 0 .. n : k \in P
    BY <1>2, <1>7, <1>8, FBib!UpTo
  <1>10. n \in P
    BY <1>2, <1>9
  <1>11. QED
    BY <1>2, <1>10 DEF P

\* The bibliography made last is one from marks that have only grown since.
Listed ==
    ~rewritten /\ NoRepeats(document) /\ bib.outcome = "returned" =>
        \E r, h, selector :
            /\ Good(r, document, FALSE) /\ Idle(r, document) /\ Grown(r.marks, marks)
            /\ bib.selector = selector /\ Lists(h, r, selector)
            /\ bib.entries = h[Len(RefsOf(document))].entries

\* It is the same bibliography as long as the document is the same.
LEMMA ListsStill ==
    ASSUME UNCHANGED document, NEW CONSTANT h, NEW CONSTANT r, NEW CONSTANT selector
    PROVE  Lists(h, r, selector)' <=> Lists(h, r, selector)
  <1>1. ASSUME NEW CONSTANT b, NEW CONSTANT i
        PROVE  BibEntry(b, i, selector)' = BibEntry(b, i, selector)
    BY DEF BibEntry, MasterEntry, Registered
  <1>2. QED
    BY DEF Lists, BibEntry, MasterEntry, Registered

\* What a making does.
LEMMA Making ==
    ASSUME ParallelAssumption, IInv, PInv, MakeBibliography, ~rewritten, NoRepeats(document)
    PROVE  \E r, h, selector :
              /\ Good(r, document, FALSE) /\ Idle(r, document) /\ r.marks = marks
              /\ Grown(r.marks, marks')
              /\ bib'.selector = selector /\ Lists(h, r, selector)
              /\ bib'.entries = h[Len(RefsOf(document))].entries
  <1>1. PICK selector \in Selectors \cup {None} :
           LET end == getBibliographyEntries(selector)
           IN  /\ marks' = end.r.marks
               /\ bib' = [outcome |-> IF end.threw THEN "threw" ELSE "returned",
                          selector |-> selector, entries |-> end.entries]
    BY DEF MakeBibliography
  <1> DEFINE g == getBibliographyEntries(selector)
  <1>2. PICK end : end = g
    OBVIOUS
  <1>3. marks' = end.r.marks /\ bib'.entries = end.entries /\ bib'.selector = selector
    BY <1>1, <1>2
  <1>4. Idle(Going, document)
    BY DEF PInv
  <1>5. Grown(Going.marks, end.r.marks)
    BY <1>2, <1>4, BibliographyParted
  <1>6. PICK r : r = Going
    OBVIOUS
  <1>7. document \in Documents /\ Good(r, document, FALSE) /\ Idle(r, document)
    BY <1>4, <1>6 DEF IInv, Good, Sound, Whole
  <1>8. r.marks = marks
    BY <1>6 DEF Going
  <1>9. PICK n : n = Len(RefsOf(document))
    OBVIOUS
  <1>10. PICK h : Lists(h, r, selector) /\ h[n] = end
    BY <1>2, <1>6, <1>7, <1>9, BibliographyLists
  <1>11. QED
    BY <1>3, <1>5, <1>6, <1>7, <1>8, <1>9, <1>10

\* A bibliography is made.
LEMMA MakingListed ==
    ASSUME ParallelAssumption, IInv, PInv, MakeBibliography
    PROVE  Listed'
  <1>1. UNCHANGED <<document, rewritten>>
    BY DEF MakeBibliography
  <1>2. SUFFICES ASSUME ~rewritten, NoRepeats(document)
                 PROVE  Listed'
    BY <1>1 DEF Listed
  <1>3. PICK r, h, selector :
              /\ Good(r, document, FALSE) /\ Idle(r, document)
              /\ Grown(r.marks, marks')
              /\ bib'.selector = selector /\ Lists(h, r, selector)
              /\ bib'.entries = h[Len(RefsOf(document))].entries
    BY <1>2, Making
  <1>4. Lists(h, r, selector)'
    BY <1>1, <1>3, ListsStill
  <1>5. QED
    BY <1>1, <1>3, <1>4 DEF Listed

\* What follows a bibliography keeps it.
LEMMA ListedStep ==
    ASSUME ParallelAssumption, IInv, PInv, Listed, [Next]_vars
    PROVE  Listed'
  <1>1. CASE AddCitation
    <2>1. bib' = NoBib
      BY <1>1 DEF AddCitation, processCitationCluster
    <2>2. QED
      BY <2>1 DEF Listed, NoBib
  <1>2. CASE ReplaceLastCitation
    BY <1>2 DEF ReplaceLastCitation, Listed
  <1>3. CASE MakeBibliography
    BY <1>3, MakingListed
  <1>4. CASE UNCHANGED vars
    <2>1. UNCHANGED <<document, marks, bib, rewritten>>
      BY <1>4 DEF vars
    <2>2. \A h, r, selector : Lists(h, r, selector)' <=> Lists(h, r, selector)
      BY <2>1, ListsStill
    <2>3. QED
      BY <2>1, <2>2 DEF Listed
  <1>5. QED
    BY <1>1, <1>2, <1>3, <1>4 DEF Next

\* The invariant.
LEMMA AlwaysListed ==
    ASSUME ParallelAssumption
    PROVE  Spec => []Listed
  <1>1. Init => Listed
    BY DEF Init, NoBib, Listed
  <1>2. IInv /\ PInv /\ Listed /\ [Next]_vars => Listed'
    BY ListedStep
  <1>3. QED
    BY <1>1, <1>2, AlwaysGood, AlwaysParted, PTL DEF Spec

\* A bibliography is made again.
LEMMA MadeAgain ==
    ASSUME ParallelAssumption, IInv, PInv, Listed, [Next]_vars, ~rewritten, NoRepeats(document),
           bib.outcome = "returned", bib'.outcome = "returned", bib'.selector = bib.selector
    PROVE  bib'.entries = bib.entries
  <1>1. CASE AddCitation \/ ReplaceLastCitation
    <2>1. bib' = NoBib
      BY <1>1 DEF AddCitation, ReplaceLastCitation, processCitationCluster
    <2>2. QED
      BY <2>1 DEF NoBib
  <1>2. CASE MakeBibliography
    <2>1. PICK r, h, selector :
              /\ Good(r, document, FALSE) /\ Idle(r, document) /\ Grown(r.marks, marks)
              /\ bib.selector = selector /\ Lists(h, r, selector)
              /\ bib.entries = h[Len(RefsOf(document))].entries
      BY DEF Listed
    <2>2. PICK q, g, again :
              /\ Good(q, document, FALSE) /\ Idle(q, document) /\ q.marks = marks
              /\ bib'.selector = again /\ Lists(g, q, again)
              /\ bib'.entries = g[Len(RefsOf(document))].entries
      BY <1>2, Making
    <2>3. Lists(g, q, selector) /\ Grown(r.marks, q.marks)
      BY <2>1, <2>2
    <2>4. PICK n : n = Len(RefsOf(document))
      OBVIOUS
    <2>5. /\ document \in Documents
          /\ Good(r, document, FALSE) /\ Idle(r, document) /\ Lists(h, r, selector)
          /\ Good(q, document, FALSE) /\ Idle(q, document)
      BY <2>1, <2>2 DEF IInv
    <2>6. Same(h[n], g[n], Cited(document))
      BY <2>3, <2>4, <2>5, ListsSame
    <2>7. QED
      BY <2>1, <2>2, <2>4, <2>6 DEF Same
  <1>3. CASE UNCHANGED vars
    BY <1>3 DEF vars
  <1>4. QED
    BY <1>1, <1>2, <1>3 DEF Next

\* For any items, cases and lists, as long as no citation was replaced and
\* none has an item twice: MadeAgainIsTheSame (getBibliographyEntries: who
\* becomes a master there has nobody on its list).
THEOREM AlwaysMadeAgain ==
    Spec /\ [](~rewritten /\ NoRepeats(document)) => MadeAgainIsTheSame
  <1>1. ParallelAssumption
    BY ParallelAssumption
  <1> DEFINE Again == bib.outcome = "returned" /\ bib'.outcome = "returned"
                          /\ bib'.selector = bib.selector => bib'.entries = bib.entries
  <1>2. IInv /\ PInv /\ Listed /\ [Next]_vars /\ ~rewritten /\ NoRepeats(document) => [Again]_vars
    BY <1>1, MadeAgain
  <1>3. QED
    BY <1>1, <1>2, AlwaysGood, AlwaysParted, AlwaysListed, PTL DEF Spec, MadeAgainIsTheSame
===============================================================================
