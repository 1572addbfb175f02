------------------------ MODULE CitationClusterProofs ------------------------
(***************************************************************************)
(* Proofs about CitationCluster, for every document, style and number of   *)
(* citations.  What a call returns is compared with what the caller's      *)
(* document holds already; so the main invariant relates three copies of a *)
(* citation's cites, in citationById, in citationByIndex and in the text   *)
(* the caller has, and position evaluation has to give the same result on  *)
(* each of them.                                                           *)
(***************************************************************************)
EXTENDS CitationCluster, FiniteSetTheorems, TLAPS

-----------------------------------------------------------------------------
(* Places. *)

LEMMA MinOfPlaces ==
    ASSUME NEW S \in SUBSET Nat, S # {}
    PROVE  Min(S) \in S /\ \A y \in S : Min(S) <= y
  <1>1. PICK x \in S : \A y \in S : ~(<<y, x>> \in OpToRel(<, Nat))
    BY NatLessThanWellFounded, WFMin
  <1>2. \A y \in S : x <= y
    <2>1. SUFFICES ASSUME NEW y \in S PROVE x <= y
      OBVIOUS
    <2>2. x \in Nat /\ y \in Nat
      OBVIOUS
    <2>3. ~(y < x)
      BY <1>1, <2>2 DEF OpToRel
    <2>4. QED
      BY <2>2, <2>3
  <1>3. QED
    BY <1>2 DEF Min

LEMMA MaxOfPlaces ==
    ASSUME NEW n \in Nat, NEW S \in SUBSET (1 .. n), S # {}
    PROVE  Max(S) \in S /\ \A y \in S : Max(S) >= y
  <1> DEFINE T == {n - x : x \in S}
  <1>1. T \in SUBSET Nat
    OBVIOUS
  <1>1a. T # {}
    OBVIOUS
  <1>2. Min(T) \in T /\ \A y \in T : Min(T) <= y
    <2> HIDE DEF T
    <2>1. QED
      BY <1>1, <1>1a, MinOfPlaces
  <1>3. PICK x \in S : Min(T) = n - x
    BY <1>2
  <1>4. \A y \in S : x >= y
    <2>1. SUFFICES ASSUME NEW y \in S PROVE x >= y
      OBVIOUS
    <2>2. n - x <= n - y
      BY <1>2, <1>3
    <2>3. QED
      BY <2>2
  <1>5. QED
    BY <1>4 DEF Max

-----------------------------------------------------------------------------
(* Position evaluation. *)

\* A citation whose items were retrieved, and lists of such citations in which
\* no citation occurs twice.
Whole == [citationID : CitationID, noteIndex : Nat, sortedItems : Seq(Cites)]

Distinct(list) ==
    \A q, r \in DOMAIN list : list[q].citationID = list[r].citationID => q = r

\* The places evaluated with p and the places in them.
LEMMA PlacesExist ==
    ASSUME NEW doc \in Seq(Whole), NEW p \in DOMAIN doc, NEW k \in DOMAIN doc[p].sortedItems
    PROVE  /\ doc[p] \in Whole /\ p \in Nat /\ k \in Nat /\ k >= 1
           /\ 1 .. p \subseteq DOMAIN doc
           /\ Kin(doc, p) \subseteq 1 .. p /\ p \in Kin(doc, p)
           /\ Earlier(doc, p, k) \subseteq Kin(doc, p)
           /\ \A c \in Preceding(doc, p, k) :
                 /\ c[1] \in Kin(doc, p)
                 /\ c[2] \in DOMAIN doc[c[1]].sortedItems
                 /\ c[1] # p => Len(doc[c[1]].sortedItems) = 1
  <1>1. /\ DOMAIN doc = 1 .. Len(doc) /\ Len(doc) \in Nat
        /\ doc[p] \in Whole /\ p \in 1 .. Len(doc)
    OBVIOUS
  <1>2. doc[p].sortedItems \in Seq(Cites)
    BY <1>1 DEF Whole
  <1>3. k \in 1 .. Len(doc[p].sortedItems)
    BY <1>2
  <1>4. /\ Kin(doc, p) \subseteq 1 .. p /\ p \in Kin(doc, p)
        /\ Earlier(doc, p, k) \subseteq Kin(doc, p)
        /\ 1 .. p \subseteq DOMAIN doc
    BY <1>1 DEF Kin, Earlier
  <1>5. ASSUME NEW c \in Preceding(doc, p, k)
        PROVE  /\ c[1] \in Kin(doc, p)
               /\ c[2] \in DOMAIN doc[c[1]].sortedItems
               /\ c[1] # p => Len(doc[c[1]].sortedItems) = 1
    <2>1. CASE k > 1
      <3>1. c = <<p, k - 1>>
        BY <1>5, <2>1 DEF Preceding
      <3>2. k - 1 \in DOMAIN doc[p].sortedItems
        BY <1>2, <1>3, <2>1
      <3>3. QED
        BY <1>4, <3>1, <3>2
    <2>2. CASE ~(k > 1)
      <3> DEFINE previous == Kin(doc, p) \ {p}
      <3>1. previous # {} /\ c = <<Max(previous), 1>>
            /\ Len(doc[Max(previous)].sortedItems) = 1
        BY <1>5, <2>2 DEF Preceding
      <3>2. Max(previous) \in previous
        <4>1. previous \in SUBSET (1 .. p) /\ p \in Nat
          BY <1>1, <1>4
        <4> HIDE DEF previous
        <4>2. QED
          BY <3>1, <4>1, MaxOfPlaces
      <3>3. doc[Max(previous)] \in Whole
        BY <1>4, <3>2
      <3> HIDE DEF previous
      <3>4. doc[Max(previous)].sortedItems \in Seq(Cites)
        BY <3>3 DEF Whole
      <3>5. 1 \in DOMAIN doc[Max(previous)].sortedItems
        BY <3>1, <3>4
      <3>6. Max(previous) \in Kin(doc, p)
        BY <3>2 DEF previous
      <3>7. QED
        BY <3>1, <3>5, <3>6
    <2>3. QED
      BY <2>1, <2>2
  <1>6. QED
    BY <1>1, <1>3, <1>4, <1>5

LEMMA PositionType ==
    ASSUME NEW doc, NEW p, NEW k
    PROVE  Position(doc, p, k) \in Positions
  BY DEF Position, Positions

LEMMA FirstReferenceType ==
    ASSUME NEW doc \in Seq(Whole), NEW p \in DOMAIN doc, NEW k \in DOMAIN doc[p].sortedItems
    PROVE  FirstReference(doc, p, k) \in Nat
  <1>1. CASE Position(doc, p, k) # "subsequent"
    BY <1>1 DEF FirstReference
  <1>2. CASE Position(doc, p, k) = "subsequent"
    <2>1. Earlier(doc, p, k) # {}
      BY <1>2 DEF Position
    <2>2. Earlier(doc, p, k) \subseteq 1 .. p /\ 1 .. p \subseteq DOMAIN doc
      BY PlacesExist
    <2>3. Min(Earlier(doc, p, k)) \in Earlier(doc, p, k)
      <3>1. Earlier(doc, p, k) \in SUBSET Nat
        BY <2>2
      <3>2. QED
        BY <2>1, <3>1, MinOfPlaces
    <2>4. doc[Min(Earlier(doc, p, k))] \in Whole
      BY <2>2, <2>3
    <2>5. QED
      BY <2>4 DEF FirstReference, Whole
  <1>3. QED
    BY <1>1, <1>2

\* Evaluation keeps the items and locators and completes the rest.
LEMMA EvaluatedType ==
    ASSUME NEW doc \in Seq(Whole), NEW p \in DOMAIN doc
    PROVE  /\ Evaluated(doc, p) \in Seq(Cites)
           /\ Len(Evaluated(doc, p)) = Len(doc[p].sortedItems)
           /\ DOMAIN Evaluated(doc, p) = DOMAIN doc[p].sortedItems
           /\ \A k \in DOMAIN doc[p].sortedItems :
                 /\ Evaluated(doc, p)[k].id = doc[p].sortedItems[k].id
                 /\ Evaluated(doc, p)[k].locator = doc[p].sortedItems[k].locator
                 /\ Evaluated(doc, p)[k].position = Position(doc, p, k)
                 /\ Evaluated(doc, p)[k].first = FirstReference(doc, p, k)
  <1> DEFINE cites == doc[p].sortedItems
  <1>1. cites \in Seq(Cites)
    <2>1. doc[p] \in Whole
      OBVIOUS
    <2>2. QED
      BY <2>1 DEF Whole
  <1>2. ASSUME NEW k \in DOMAIN cites
        PROVE  Evaluated(doc, p)[k] \in Cites
    <2>1. cites[k] \in Cites
      BY <1>1
    <2>2. Position(doc, p, k) \in Positions /\ FirstReference(doc, p, k) \in Nat
      BY PositionType, FirstReferenceType
    <2>3. NearNote(doc, p, k) \in BOOLEAN
      BY DEF NearNote
    <2>4. QED
      BY <2>1, <2>2, <2>3 DEF Evaluated, Cites
  <1>3. DOMAIN cites = 1 .. Len(cites) /\ Len(cites) \in Nat
    BY <1>1
  <1>4. DOMAIN Evaluated(doc, p) = DOMAIN cites
    BY DEF Evaluated
  <1>5. Evaluated(doc, p) \in [1 .. Len(cites) -> Cites]
    BY <1>2, <1>3 DEF Evaluated
  <1>6. Evaluated(doc, p) \in Seq(Cites) /\ Len(Evaluated(doc, p)) = Len(cites)
    BY <1>3, <1>5
  <1>7. QED
    BY <1>4, <1>6 DEF Evaluated

\* The same notes, items and locators: what evaluation looks at.
SameCites(doc, other) ==
    /\ DOMAIN doc = DOMAIN other
    /\ \A q \in DOMAIN doc :
          /\ doc[q].noteIndex = other[q].noteIndex
          /\ Len(doc[q].sortedItems) = Len(other[q].sortedItems)
          /\ DOMAIN doc[q].sortedItems = DOMAIN other[q].sortedItems
          /\ \A k \in DOMAIN doc[q].sortedItems :
                /\ doc[q].sortedItems[k].id = other[q].sortedItems[k].id
                /\ doc[q].sortedItems[k].locator = other[q].sortedItems[k].locator

\* Evaluating a document that was evaluated, or whose marks got lost, gives the
\* same marks.
LEMMA EvaluationAgrees ==
    ASSUME NEW doc \in Seq(Whole), NEW other \in Seq(Whole), SameCites(doc, other),
           NEW p \in DOMAIN doc
    PROVE  Evaluated(doc, p) = Evaluated(other, p)
  <1>1. SUFFICES ASSUME NEW k \in DOMAIN doc[p].sortedItems
                 PROVE  /\ Position(doc, p, k) = Position(other, p, k)
                        /\ FirstReference(doc, p, k) = FirstReference(other, p, k)
                        /\ NearNote(doc, p, k) = NearNote(other, p, k)
    BY DEF Evaluated, SameCites
  <1>2. /\ p \in DOMAIN other /\ k \in DOMAIN other[p].sortedItems
        /\ 1 .. p \subseteq DOMAIN doc
        /\ Kin(doc, p) \subseteq 1 .. p
        /\ \A c \in Preceding(doc, p, k) :
              /\ c[1] \in Kin(doc, p)
              /\ c[2] \in DOMAIN doc[c[1]].sortedItems
    BY PlacesExist DEF SameCites
  <1>3. Kin(other, p) = Kin(doc, p)
    BY <1>2 DEF Kin, SameCites
  <1>4. Earlier(other, p, k) = Earlier(doc, p, k)
    <2>1. \A q \in Kin(doc, p) : q \in DOMAIN doc
      BY <1>2
    <2>2. \A q \in Kin(doc, p) :
             (\E n \in DOMAIN doc[q].sortedItems :
                /\ doc[q].sortedItems[n].id = doc[p].sortedItems[k].id
                /\ q = p => n < k)
             <=> (\E n \in DOMAIN other[q].sortedItems :
                /\ other[q].sortedItems[n].id = other[p].sortedItems[k].id
                /\ q = p => n < k)
      BY <1>2, <2>1 DEF SameCites
    <2>3. QED
      BY <1>3, <2>2 DEF Earlier
  <1>5. Preceding(other, p, k) = Preceding(doc, p, k)
    <2> DEFINE previous == Kin(doc, p) \ {p}
    <2>1. previous # {} => Max(previous) \in DOMAIN doc
      <3>1. previous \in SUBSET (1 .. p) /\ p \in Nat
        BY <1>2, PlacesExist
      <3> HIDE DEF previous
      <3>2. previous # {} => Max(previous) \in previous
        BY <3>1, MaxOfPlaces
      <3>3. QED
        BY <1>2, <3>1, <3>2
    <2>2. previous # {} =>
             /\ doc[Max(previous)].noteIndex = other[Max(previous)].noteIndex
             /\ Len(doc[Max(previous)].sortedItems) = Len(other[Max(previous)].sortedItems)
      BY <2>1 DEF SameCites
    <2>3. doc[p].noteIndex = other[p].noteIndex
      BY DEF SameCites
    <2>4. QED
      BY <1>3, <2>2, <2>3 DEF Preceding
  <1>6. Position(other, p, k) = Position(doc, p, k)
    <2> DEFINE Ibid(d) == {c \in Preceding(d, p, k) :
                              d[c[1]].sortedItems[c[2]].id = d[p].sortedItems[k].id}
               prev == CHOOSE c \in Ibid(doc) : TRUE
    <2>1. \A c \in Preceding(doc, p, k) :
             /\ doc[c[1]].sortedItems[c[2]].id = other[c[1]].sortedItems[c[2]].id
             /\ doc[c[1]].sortedItems[c[2]].locator = other[c[1]].sortedItems[c[2]].locator
      BY <1>2 DEF SameCites
    <2>2. /\ doc[p].sortedItems[k].id = other[p].sortedItems[k].id
          /\ doc[p].sortedItems[k].locator = other[p].sortedItems[k].locator
      BY DEF SameCites
    <2>3. Ibid(other) = Ibid(doc)
      BY <1>5, <2>1, <2>2
    <2>4. Ibid(doc) # {} => prev \in Preceding(doc, p, k)
      OBVIOUS
    <2>5. Ibid(doc) # {} =>
             doc[prev[1]].sortedItems[prev[2]].locator = other[prev[1]].sortedItems[prev[2]].locator
      BY <2>1, <2>4
    <2>6. QED
      BY <1>4, <2>2, <2>3, <2>5 DEF Position
  <1>7. ASSUME Earlier(doc, p, k) # {}
        PROVE  /\ doc[Min(Earlier(doc, p, k))].noteIndex = other[Min(Earlier(doc, p, k))].noteIndex
               /\ doc[Max(Earlier(doc, p, k))].noteIndex = other[Max(Earlier(doc, p, k))].noteIndex
    <2>1. Earlier(doc, p, k) \in SUBSET (1 .. p) /\ p \in Nat
      BY PlacesExist
    <2>2. Earlier(doc, p, k) \in SUBSET Nat
      BY <2>1
    <2>3. Min(Earlier(doc, p, k)) \in DOMAIN doc /\ Max(Earlier(doc, p, k)) \in DOMAIN doc
      BY <1>2, <1>7, <2>1, <2>2, MinOfPlaces, MaxOfPlaces
    <2>4. QED
      BY <2>3 DEF SameCites
  <1>8. Position(doc, p, k) # "first" => Earlier(doc, p, k) # {}
    BY DEF Position
  <1>9. doc[p].noteIndex = other[p].noteIndex
    BY DEF SameCites
  <1>10. FirstReference(doc, p, k) = FirstReference(other, p, k)
    BY <1>4, <1>6, <1>7, <1>8, <1>9 DEF FirstReference
  <1>11. NearNote(doc, p, k) = NearNote(other, p, k)
    BY <1>4, <1>6, <1>7, <1>8, <1>9 DEF NearNote
  <1>12. QED
    BY <1>6, <1>10, <1>11

\* A cite with a note number leads back to a first cite of its item: the first
\* place that cited it, in the same kind of citation, has one marked "first".
LEMMA FirstReferenceLeads ==
    ASSUME NEW doc \in Seq(Whole), NEW p \in DOMAIN doc, NEW k \in DOMAIN doc[p].sortedItems,
           FirstReference(doc, p, k) # 0
    PROVE  \E r \in 1 .. p :
              /\ doc[r].noteIndex = FirstReference(doc, p, k)
              /\ \E n \in DOMAIN doc[r].sortedItems :
                    /\ doc[r].sortedItems[n].id = doc[p].sortedItems[k].id
                    /\ Position(doc, r, n) = "first"
  <1> DEFINE r == Min(Earlier(doc, p, k))
             id == doc[p].sortedItems[k].id
  <1>1. /\ Position(doc, p, k) = "subsequent"
        /\ FirstReference(doc, p, k) = doc[r].noteIndex
    BY DEF FirstReference
  <1>2. Earlier(doc, p, k) # {}
    BY <1>1 DEF Position
  <1>3. /\ Earlier(doc, p, k) \subseteq Kin(doc, p) /\ Kin(doc, p) \subseteq 1 .. p
        /\ 1 .. p \subseteq DOMAIN doc /\ p \in Nat
    BY PlacesExist
  <1>4. r \in Earlier(doc, p, k) /\ \A q \in Earlier(doc, p, k) : r <= q
    <2>1. Earlier(doc, p, k) \in SUBSET Nat
      BY <1>3
    <2>2. QED
      BY <1>2, <2>1, MinOfPlaces
  <1> HIDE DEF r
  <1>5. r \in 1 .. p /\ r \in DOMAIN doc /\ doc[r] \in Whole
    BY <1>3, <1>4
  <1> DEFINE Ns == {n \in DOMAIN doc[r].sortedItems :
                       doc[r].sortedItems[n].id = id /\ (r = p => n < k)}
  <1>6. Ns # {} /\ Ns \in SUBSET Nat
    <2>1. Ns # {}
      BY <1>4 DEF Earlier
    <2>2. doc[r].sortedItems \in Seq(Cites)
      BY <1>5 DEF Whole
    <2>3. QED
      BY <2>1, <2>2
  <1> DEFINE n == Min(Ns)
  <1>7. n \in Ns /\ \A m \in Ns : n <= m
    <2> HIDE DEF Ns
    <2>1. QED
      BY <1>6, MinOfPlaces
  <1> HIDE DEF n
  <1>8. n \in DOMAIN doc[r].sortedItems /\ doc[r].sortedItems[n].id = id /\ (r = p => n < k)
    BY <1>7
  <1>9. Earlier(doc, r, n) = {}
    <2>1. SUFFICES ASSUME NEW q \in Earlier(doc, r, n) PROVE FALSE
      OBVIOUS
    <2>2. /\ q \in Kin(doc, r)
          /\ \E m \in DOMAIN doc[q].sortedItems :
                doc[q].sortedItems[m].id = id /\ (q = r => m < n)
      BY <1>8, <2>1 DEF Earlier
    <2>3. q \in 1 .. r /\ q \in Kin(doc, p)
      BY <1>3, <1>4, <1>5, <2>2 DEF Kin
    <2>4. CASE q = r
      <3>1. PICK m \in DOMAIN doc[r].sortedItems : doc[r].sortedItems[m].id = id /\ m < n
        BY <2>2, <2>4
      <3>2. m \in Nat /\ n \in Nat /\ k \in Nat
        <4>1. doc[r].sortedItems \in Seq(Cites) /\ k \in Nat
          BY <1>5, PlacesExist DEF Whole
        <4>2. QED
          BY <1>8, <4>1
      <3>3. m \in Ns
        BY <1>8, <3>1, <3>2
      <3>4. QED
        BY <1>7, <3>1, <3>2, <3>3
    <2>5. CASE q # r
      <3>1. q < r /\ q # p
        BY <1>5, <2>3, <2>5
      <3>2. q \in Earlier(doc, p, k)
        BY <2>2, <2>3, <3>1 DEF Earlier
      <3>3. QED
        BY <1>4, <1>5, <2>3, <3>1, <3>2
    <2>6. QED
      BY <2>4, <2>5
  <1>10. Position(doc, r, n) = "first"
    BY <1>9 DEF Position
  <1>11. QED
    BY <1>1, <1>5, <1>8, <1>10 DEF r

-----------------------------------------------------------------------------
(* Sorting the cites of the citation submitted. *)

\* A sort only changes the order of cites.
SameElements(s, t) ==
    /\ DOMAIN s = DOMAIN t
    /\ \A k \in DOMAIN s : \E l \in DOMAIN t : s[k] = t[l]
    /\ \A l \in DOMAIN t : \E k \in DOMAIN s : s[k] = t[l]

LEMMA SameItems ==
    ASSUME NEW s, NEW t, SameElements(s, t)
    PROVE  ItemsOf(s) = ItemsOf(t)
  <1>1. ASSUME NEW i \in ItemsOf(s)
        PROVE  i \in ItemsOf(t)
    <2>1. PICK k \in DOMAIN s : s[k].id = i
      BY DEF ItemsOf
    <2>2. PICK l \in DOMAIN t : s[k] = t[l]
      BY <2>1 DEF SameElements
    <2>3. QED
      BY <2>1, <2>2 DEF ItemsOf
  <1>2. ASSUME NEW i \in ItemsOf(t)
        PROVE  i \in ItemsOf(s)
    <2>1. PICK l \in DOMAIN t : t[l].id = i
      BY DEF ItemsOf
    <2>2. PICK k \in DOMAIN s : s[k] = t[l]
      BY <2>1 DEF SameElements
    <2>3. QED
      BY <2>1, <2>2 DEF ItemsOf
  <1>3. QED
    BY <1>1, <1>2

LEMMA RearrangedKeepsCites ==
    ASSUME NEW cites \in Seq(Cites), NEW f \in Bijection(DOMAIN cites, DOMAIN cites)
    PROVE  /\ Rearranged(cites, f) \in Seq(Cites)
           /\ SameElements(Rearranged(cites, f), cites)
  <1>1. /\ f \in [DOMAIN cites -> DOMAIN cites]
        /\ \A l \in DOMAIN cites : \E k \in DOMAIN cites : f[k] = l
    BY DEF Bijection, Injection, Surjection
  <1>2. DOMAIN cites = 1 .. Len(cites) /\ Len(cites) \in Nat
    OBVIOUS
  <1>3. Rearranged(cites, f) \in [1 .. Len(cites) -> Cites]
    BY <1>1, <1>2 DEF Rearranged
  <1>4. Rearranged(cites, f) \in Seq(Cites)
    BY <1>2, <1>3
  <1>5. QED
    BY <1>1, <1>4 DEF Rearranged, SameElements

LEMMA SortKeepsCites ==
    ASSUME NEW cites \in Seq(Cites), NEW f \in Bijection(DOMAIN cites, DOMAIN cites)
    PROVE  /\ SortBefore(cites, f) \in Seq(Cites) /\ SameElements(SortBefore(cites, f), cites)
           /\ SortAfter(cites, f) \in Seq(Cites) /\ SameElements(SortAfter(cites, f), cites)
  <1>1. SameElements(cites, cites)
    BY DEF SameElements
  <1>2. QED
    BY <1>1, RearrangedKeepsCites DEF SortBefore, SortAfter

\* The list that positions are evaluated on.
Sorted(list, p, f) == [list EXCEPT ![p].sortedItems = SortBefore(@, f)]

\* Evaluation changes no citation's id or note, and no citation's items.
LEMMA PositionedFacts ==
    ASSUME NEW list \in Seq(Whole), NEW p \in DOMAIN list,
           NEW f \in SortOrders(list[p].sortedItems)
    PROVE  /\ Sorted(list, p, f) \in Seq(Whole)
           /\ Positioned(list, p, f) \in Seq(Whole)
           /\ DOMAIN Sorted(list, p, f) = DOMAIN list
           /\ DOMAIN Positioned(list, p, f) = DOMAIN list
           /\ \A q \in DOMAIN list :
                 /\ Sorted(list, p, f)[q].noteIndex = list[q].noteIndex
                 /\ DOMAIN Sorted(list, p, f)[q].sortedItems = DOMAIN list[q].sortedItems
                 /\ Positioned(list, p, f)[q].citationID = list[q].citationID
                 /\ Positioned(list, p, f)[q].noteIndex = list[q].noteIndex
                 /\ q # p => Positioned(list, p, f)[q].sortedItems = Evaluated(Sorted(list, p, f), q)
           /\ Positioned(list, p, f)[p].sortedItems =
                 SortAfter(Evaluated(Sorted(list, p, f), p), f)
  <1> DEFINE sorted == Sorted(list, p, f)
             positioned == Positioned(list, p, f)
  <1>1. DOMAIN list = 1 .. Len(list) /\ Len(list) \in Nat /\ \A q \in DOMAIN list : list[q] \in Whole
    OBVIOUS
  <1>2. list[p].sortedItems \in Seq(Cites)
    BY <1>1 DEF Whole
  <1>3. f \in Bijection(DOMAIN list[p].sortedItems, DOMAIN list[p].sortedItems)
    BY DEF SortOrders
  <1>4. /\ SortBefore(list[p].sortedItems, f) \in Seq(Cites)
        /\ DOMAIN SortBefore(list[p].sortedItems, f) = DOMAIN list[p].sortedItems
    BY <1>2, <1>3, SortKeepsCites DEF SameElements
  <1>5. /\ DOMAIN sorted = DOMAIN list
        /\ \A q \in DOMAIN list :
              /\ sorted[q] \in Whole
              /\ sorted[q].noteIndex = list[q].noteIndex
              /\ DOMAIN sorted[q].sortedItems = DOMAIN list[q].sortedItems
    BY <1>1, <1>4 DEF Sorted, Whole
  <1>6. sorted \in Seq(Whole)
    <2>1. sorted = [q \in DOMAIN list |-> sorted[q]]
      BY DEF Sorted
    <2> HIDE DEF sorted
    <2>2. sorted \in [1 .. Len(list) -> Whole]
      BY <1>1, <1>5, <2>1
    <2>3. QED
      BY <1>1, <2>2
  <1>7. DOMAIN positioned = DOMAIN list
    BY DEF Positioned
  <1>8. ASSUME NEW q \in DOMAIN list
        PROVE  /\ positioned[q] \in Whole
               /\ positioned[q].citationID = list[q].citationID
               /\ positioned[q].noteIndex = list[q].noteIndex
               /\ q = p => positioned[q].sortedItems = SortAfter(Evaluated(sorted, q), f)
               /\ q # p => positioned[q].sortedItems = Evaluated(sorted, q)
    <2> DEFINE cites == IF q = p THEN SortAfter(Evaluated(sorted, q), f)
                                 ELSE Evaluated(sorted, q)
    <2>1. positioned[q] = [list[q] EXCEPT !.sortedItems = cites]
      BY DEF Positioned, Sorted
    <2>2. Evaluated(sorted, q) \in Seq(Cites) /\ DOMAIN Evaluated(sorted, q) = DOMAIN sorted[q].sortedItems
      BY <1>5, <1>6, EvaluatedType
    <2>3. cites \in Seq(Cites)
      <3>1. CASE q = p
        <4>1. f \in Bijection(DOMAIN Evaluated(sorted, q), DOMAIN Evaluated(sorted, q))
          BY <1>3, <1>5, <2>2, <3>1
        <4>2. QED
          BY <2>2, <3>1, <4>1, SortKeepsCites
      <3>2. QED
        BY <2>2, <3>1
    <2> HIDE DEF cites, positioned
    <2>4. positioned[q] \in Whole /\ positioned[q].sortedItems = cites
          /\ positioned[q].citationID = list[q].citationID
          /\ positioned[q].noteIndex = list[q].noteIndex
      BY <1>1, <2>1, <2>3 DEF Whole
    <2>5. QED
      BY <2>4 DEF cites
  <1>9. positioned \in Seq(Whole)
    <2>1. positioned = [q \in DOMAIN list |-> positioned[q]]
      BY DEF Positioned
    <2> HIDE DEF positioned
    <2>2. positioned \in [1 .. Len(list) -> Whole]
      BY <1>1, <1>8, <2>1
    <2>3. QED
      BY <1>1, <2>2
  <1>10. QED
    BY <1>5, <1>6, <1>7, <1>8, <1>9

\* The items of a citation are those it was submitted with.
LEMMA PositionedItems ==
    ASSUME NEW list \in Seq(Whole), NEW p \in DOMAIN list,
           NEW f \in SortOrders(list[p].sortedItems), NEW q \in DOMAIN list
    PROVE  /\ SameElements(Sorted(list, p, f)[q].sortedItems, list[q].sortedItems)
           /\ SameElements(Positioned(list, p, f)[q].sortedItems,
                           Evaluated(Sorted(list, p, f), q))
  <1> DEFINE sorted == Sorted(list, p, f)
             before == sorted[q].sortedItems
             after == Positioned(list, p, f)[q].sortedItems
  <1>1. /\ sorted \in Seq(Whole) /\ DOMAIN sorted = DOMAIN list
        /\ DOMAIN before = DOMAIN list[q].sortedItems
        /\ q = p => after = SortAfter(Evaluated(sorted, q), f)
        /\ q # p => after = Evaluated(sorted, q)
    BY PositionedFacts
  <1>2. Evaluated(sorted, q) \in Seq(Cites) /\ DOMAIN Evaluated(sorted, q) = DOMAIN before
    BY <1>1, EvaluatedType
  <1>3. list[q].sortedItems \in Seq(Cites)
    <2>1. list[q] \in Whole
      OBVIOUS
    <2>2. QED
      BY <2>1 DEF Whole
  <1>4. CASE q = p
    <2>1. f \in Bijection(DOMAIN list[q].sortedItems, DOMAIN list[q].sortedItems)
      BY <1>4 DEF SortOrders
    <2>2. before = SortBefore(list[q].sortedItems, f)
      <3>1. list[p] \in Whole
        OBVIOUS
      <3>2. QED
        BY <1>4, <3>1 DEF Sorted, Whole
    <2>3. f \in Bijection(DOMAIN Evaluated(sorted, q), DOMAIN Evaluated(sorted, q))
      BY <1>1, <1>2, <2>1
    <2> HIDE DEF sorted, before, after
    <2>4. SameElements(before, list[q].sortedItems)
      BY <1>3, <2>1, <2>2, SortKeepsCites
    <2>5. SameElements(after, Evaluated(sorted, q))
      BY <1>1, <1>2, <1>4, <2>3, SortKeepsCites
    <2>6. QED
      BY <2>4, <2>5 DEF sorted, before, after
  <1>5. CASE q # p
    <2>1. before = list[q].sortedItems
      BY <1>5 DEF Sorted
    <2>2. after = Evaluated(sorted, q)
      BY <1>1, <1>5
    <2>3. QED
      BY <2>1, <2>2 DEF SameElements
  <1>6. QED
    BY <1>4, <1>5

LEMMA EvaluatedItems ==
    ASSUME NEW doc \in Seq(Whole), NEW p \in DOMAIN doc
    PROVE  ItemsOf(Evaluated(doc, p)) = ItemsOf(doc[p].sortedItems)
  <1> DEFINE e == Evaluated(doc, p)
             c == doc[p].sortedItems
  <1>1. DOMAIN e = DOMAIN c /\ \A k \in DOMAIN c : e[k].id = c[k].id
    BY EvaluatedType
  <1> HIDE DEF e, c
  <1>2. ItemsOf(e) = ItemsOf(c)
    BY <1>1 DEF ItemsOf
  <1>3. QED
    BY <1>2 DEF e, c

LEMMA PositionedCited ==
    ASSUME NEW list \in Seq(Whole), NEW p \in DOMAIN list,
           NEW f \in SortOrders(list[p].sortedItems)
    PROVE  /\ \A q \in DOMAIN list : ItemsOf(Positioned(list, p, f)[q].sortedItems) =
                                         ItemsOf(list[q].sortedItems)
           /\ Cited(Positioned(list, p, f)) = Cited(list)
  <1>1. /\ Sorted(list, p, f) \in Seq(Whole) /\ DOMAIN Sorted(list, p, f) = DOMAIN list
        /\ DOMAIN Positioned(list, p, f) = DOMAIN list
    BY PositionedFacts
  <1>2. ASSUME NEW q \in DOMAIN list
        PROVE  ItemsOf(Positioned(list, p, f)[q].sortedItems) = ItemsOf(list[q].sortedItems)
    <2>1. ItemsOf(Sorted(list, p, f)[q].sortedItems) = ItemsOf(list[q].sortedItems)
      BY PositionedItems, SameItems
    <2>2. ItemsOf(Positioned(list, p, f)[q].sortedItems) = ItemsOf(Evaluated(Sorted(list, p, f), q))
      BY PositionedItems, SameItems
    <2>3. ItemsOf(Evaluated(Sorted(list, p, f), q)) = ItemsOf(Sorted(list, p, f)[q].sortedItems)
      BY <1>1, EvaluatedItems
    <2>4. QED
      BY <2>1, <2>2, <2>3
  <1>3. QED
    BY <1>1, <1>2 DEF Cited

-----------------------------------------------------------------------------
(* The registry: its items and their suffixes. *)

\* The instance counts as the library does.
LEMMA RegistryCounts ==
    ASSUME NEW S
    PROVE  Registry!Cardinality(S) = Cardinality(S)
  BY DEF Registry!Cardinality, Cardinality

LEMMA TypedSequence ==
    ASSUME NEW n \in Nat, NEW R, NEW g \in [1 .. n -> R]
    PROVE  g \in Seq(R) /\ Len(g) = n /\ DOMAIN g = 1 .. n
  OBVIOUS

LEMMA ListedFinite ==
    ASSUME NEW n \in Nat, NEW S, NEW f \in Surjection(1 .. n, S)
    PROVE  IsFiniteSet(S)
  <1>1. IsFiniteSet(1 .. n)
    BY FS_Interval
  <1>2. QED
    BY <1>1, FS_Surjection

LEMMA ItemsFinite ==
    ASSUME NEW cites \in Seq(Cites)
    PROVE  IsFiniteSet(ItemsOf(cites)) /\ ItemsOf(cites) \subseteq Item
  <1> DEFINE f == [k \in 1 .. Len(cites) |-> cites[k].id]
  <1>1. DOMAIN cites = 1 .. Len(cites) /\ Len(cites) \in Nat
    OBVIOUS
  <1>2. f \in Surjection(1 .. Len(cites), ItemsOf(cites))
    BY <1>1 DEF Surjection, ItemsOf
  <1>3. IsFiniteSet(ItemsOf(cites))
    <2> HIDE DEF f
    <2>1. QED
      BY <1>1, <1>2, ListedFinite
  <1>4. \A k \in DOMAIN cites : cites[k].id \in Item
    <2>1. \A k \in DOMAIN cites : cites[k] \in Cites
      OBVIOUS
    <2>2. QED
      BY <2>1 DEF Cites
  <1>5. QED
    BY <1>3, <1>4 DEF ItemsOf

LEMMA CitedFinite ==
    ASSUME NEW list \in Seq(Whole)
    PROVE  IsFiniteSet(Cited(list)) /\ Cited(list) \subseteq Item
  <1> DEFINE Sets == {ItemsOf(list[q].sortedItems) : q \in DOMAIN list}
             f == [q \in 1 .. Len(list) |-> ItemsOf(list[q].sortedItems)]
  <1>1. DOMAIN list = 1 .. Len(list) /\ Len(list) \in Nat
    OBVIOUS
  <1>2. f \in Surjection(1 .. Len(list), Sets)
    BY <1>1 DEF Surjection
  <1>3. IsFiniteSet(Sets)
    <2> HIDE DEF Sets, f
    <2>1. QED
      BY <1>1, <1>2, ListedFinite
  <1>4. \A q \in DOMAIN list : /\ IsFiniteSet(ItemsOf(list[q].sortedItems))
                               /\ ItemsOf(list[q].sortedItems) \subseteq Item
    <2>1. \A q \in DOMAIN list : list[q] \in Whole
      OBVIOUS
    <2>2. \A q \in DOMAIN list : list[q].sortedItems \in Seq(Cites)
      BY <2>1 DEF Whole
    <2>3. QED
      BY <2>2, ItemsFinite
  <1>5. IsFiniteSet(UNION Sets)
    <2>1. \A T \in Sets : IsFiniteSet(T)
      BY <1>4
    <2> HIDE DEF Sets
    <2>2. QED
      BY <1>3, <2>1, FS_UNION
  <1>6. QED
    BY <1>4, <1>5 DEF Cited

\* The registry holds items S, in some order, each with a suffix.
Holds(entries, S) ==
    /\ entries \in Seq([id : Item, suffix : Int])
    /\ {entries[m].id : m \in DOMAIN entries} = S

LEMMA SuffixType ==
    ASSUME NEW ids \in Seq(Item), NEW i
    PROVE  Registry!Suffix(ids, i) \in Int
  <1> DEFINE alike == {j \in Registry!Listed(ids) : Cite[j] = Cite[i]}
             ahead == {j \in alike : Registry!Precedes(ids, j, i)}
             f == [m \in 1 .. Len(ids) |-> ids[m]]
  <1>1. DOMAIN ids = 1 .. Len(ids) /\ Len(ids) \in Nat
    OBVIOUS
  <1>2. f \in Surjection(1 .. Len(ids), Registry!Listed(ids))
    BY <1>1 DEF Surjection, Registry!Listed
  <1>3. IsFiniteSet(Registry!Listed(ids))
    <2> HIDE DEF f
    <2>1. QED
      BY <1>1, <1>2, ListedFinite
  <1>4. ahead \in SUBSET Registry!Listed(ids)
    OBVIOUS
  <1> HIDE DEF ahead
  <1>5. IsFiniteSet(ahead)
    BY <1>3, <1>4, FS_Subset
  <1>5a. Cardinality(ahead) \in Nat
    BY <1>5, FS_CardinalityType
  <1>6. Registry!Suffix(ids, i) \in {Registry!NoSuffix, Registry!Cardinality(ahead)}
    BY Zenon DEF Registry!Suffix, ahead
  <1>7. QED
    BY <1>5a, <1>6, RegistryCounts DEF Registry!NoSuffix

\* updateItems registers the items it is given.
LEMMA UpdatedItems ==
    ASSUME NEW ids \in Seq(Item), Registry!updateItems(ids, FALSE)
    PROVE  /\ Holds(bibliography', Registry!Listed(ids))
           /\ \A m \in DOMAIN bibliography' :
                 bibliography'[m].suffix = Registry!Suffix(ids, bibliography'[m].id)
  <1>1. PICK s \in [DOMAIN ids -> Registry!Listed(ids)] :
           Registry!IsSorted(ids, s) /\ bibliography' = Registry!Entries(s, ids)
    BY DEF Registry!updateItems
  <1>2. DOMAIN ids = 1 .. Len(ids) /\ Len(ids) \in Nat /\ \A m \in DOMAIN ids : ids[m] \in Item
    OBVIOUS
  <1>3. DOMAIN s = 1 .. Len(ids) /\ \A m \in DOMAIN s : s[m] \in Registry!Listed(ids)
    BY <1>1, <1>2
  <1>4. Registry!Listed(ids) \subseteq Item
    BY <1>2 DEF Registry!Listed
  <1>5. /\ DOMAIN bibliography' = 1 .. Len(ids)
        /\ \A m \in 1 .. Len(ids) :
              bibliography'[m] = [id |-> s[m], suffix |-> Registry!Suffix(ids, s[m])]
    BY <1>1, <1>3 DEF Registry!Entries
  <1>6. \A m \in 1 .. Len(ids) :
           /\ bibliography'[m] \in [id : Item, suffix : Int]
           /\ bibliography'[m].id = s[m]
           /\ bibliography'[m].suffix = Registry!Suffix(ids, bibliography'[m].id)
    BY <1>3, <1>4, <1>5, SuffixType
  <1>7. bibliography' \in Seq([id : Item, suffix : Int])
    <2>1. bibliography' = [m \in 1 .. Len(ids) |-> bibliography'[m]]
      BY <1>1, <1>3 DEF Registry!Entries
    <2>2. bibliography' \in [1 .. Len(ids) -> [id : Item, suffix : Int]]
      BY <1>6, <2>1
    <2>3. QED
      BY <1>2, <2>2, TypedSequence
  <1>8. ASSUME NEW i \in Registry!Listed(ids)
        PROVE  \E m \in DOMAIN s : s[m] = i
    <2> DEFINE P == {m \in DOMAIN ids : ids[m] = i}
               Q == {m \in DOMAIN s : s[m] = i}
    <2>1. Cardinality(Q) = Cardinality(P)
      <3>1. Registry!Cardinality(Q) = Registry!Cardinality(P)
        BY <1>1, Zenon DEF Registry!IsSorted
      <3>2. QED
        BY <3>1, RegistryCounts, Zenon
    <2>2. P # {}
      BY DEF Registry!Listed
    <2>3. IsFiniteSet(1 .. Len(ids))
      BY <1>2, FS_Interval
    <2>4. P \in SUBSET (1 .. Len(ids)) /\ Q \in SUBSET (1 .. Len(ids))
      BY <1>2, <1>3
    <2>5. Q # {}
      <3> HIDE DEF P, Q
      <3>1. IsFiniteSet(P) /\ IsFiniteSet(Q)
        BY <2>3, <2>4, FS_Subset
      <3>2. QED
        BY <2>1, <2>2, <3>1, FS_EmptySet
    <2>6. QED
      BY <2>5
  <1>9. {bibliography'[m].id : m \in DOMAIN bibliography'} = Registry!Listed(ids)
    <2>1. \A m \in DOMAIN bibliography' : bibliography'[m].id \in Registry!Listed(ids)
      BY <1>3, <1>5, <1>6
    <2>2. \A i \in Registry!Listed(ids) : \E m \in DOMAIN bibliography' : bibliography'[m].id = i
      BY <1>3, <1>5, <1>6, <1>8
    <2>3. QED
      BY <2>1, <2>2
  <1>10. QED
    BY <1>5, <1>6, <1>7, <1>9 DEF Holds

-----------------------------------------------------------------------------
(* The tables and the list of a submission. *)

LEMMA FoundByID ==
    ASSUME NEW list, Distinct(list), NEW q \in DOMAIN list
    PROVE  OfID(list, list[q].citationID) = list[q]
  BY DEF OfID, ToSet, Distinct

Known(byId) ==
    /\ DOMAIN byId \subseteq CitationID
    /\ \A id \in DOMAIN byId : byId[id] \in Citations /\ byId[id].citationID = id

LEMMA RegisterFacts ==
    ASSUME Known(citationById), NEW c \in Citations
    PROVE  /\ Known(Register(c))
           /\ DOMAIN Register(c) = DOMAIN citationById \cup {c.citationID}
           /\ Register(c)[c.citationID] = c
           /\ \A id \in DOMAIN citationById :
                 id # c.citationID => Register(c)[id] = citationById[id]
  <1>1. c.citationID \in CitationID
    BY DEF Citations
  <1>2. QED
    BY <1>1 DEF Known, Register

LEMMA ThroughFacts ==
    ASSUME NEW byId, Known(byId), NEW list \in Seq(Citations), Distinct(list),
           IDs(list) \subseteq DOMAIN byId
    PROVE  /\ Known(Through(byId, list))
           /\ DOMAIN Through(byId, list) = DOMAIN byId
           /\ \A q \in DOMAIN list : Through(byId, list)[list[q].citationID] = list[q]
           /\ \A id \in DOMAIN byId : id \notin IDs(list) => Through(byId, list)[id] = byId[id]
  <1>1. \A q \in DOMAIN list : list[q] \in Citations
    OBVIOUS
  <1>2. ASSUME NEW q \in DOMAIN list
        PROVE  Through(byId, list)[list[q].citationID] = list[q]
    <2>1. list[q].citationID \in IDs(list) /\ list[q].citationID \in DOMAIN byId
      BY DEF IDs
    <2>2. OfID(list, list[q].citationID) = list[q]
      BY FoundByID
    <2>3. QED
      BY <2>1, <2>2 DEF Through
  <1>3. ASSUME NEW id \in DOMAIN byId
        PROVE  /\ Through(byId, list)[id] \in Citations
               /\ Through(byId, list)[id].citationID = id
    <2>1. CASE id \in IDs(list)
      <3>1. PICK q \in DOMAIN list : list[q].citationID = id
        BY <2>1 DEF IDs
      <3>2. Through(byId, list)[id] = list[q]
        BY <1>2, <3>1
      <3>3. QED
        BY <1>1, <3>1, <3>2
    <2>2. CASE id \notin IDs(list)
      BY <2>2 DEF Through, Known
    <2>3. QED
      BY <2>1, <2>2
  <1>4. DOMAIN Through(byId, list) = DOMAIN byId
    BY DEF Through
  <1>5. \A id \in DOMAIN byId : id \notin IDs(list) => Through(byId, list)[id] = byId[id]
    BY DEF Through
  <1>6. QED
    BY <1>2, <1>3, <1>4, <1>5 DEF Known

SlotSet == [citationID : CitationID, noteIndex : Nat]

LEMMA ListedFacts ==
    ASSUME NEW byId, Known(byId), NEW slots \in Seq(SlotSet), Distinct(slots),
           IDs(slots) \subseteq DOMAIN byId
    PROVE  /\ Listed(byId, slots) \in Seq(Citations)
           /\ Distinct(Listed(byId, slots))
           /\ DOMAIN Listed(byId, slots) = DOMAIN slots
           /\ IDs(Listed(byId, slots)) = IDs(slots)
           /\ \A q \in DOMAIN slots :
                 /\ Listed(byId, slots)[q].citationID = slots[q].citationID
                 /\ Listed(byId, slots)[q].noteIndex = slots[q].noteIndex
                 /\ Listed(byId, slots)[q].sortedItems = byId[slots[q].citationID].sortedItems
  <1> DEFINE list == Listed(byId, slots)
  <1>1. /\ DOMAIN slots = 1 .. Len(slots) /\ Len(slots) \in Nat
        /\ \A q \in DOMAIN slots : slots[q] \in SlotSet
    OBVIOUS
  <1>2. DOMAIN list = DOMAIN slots
    BY DEF Listed
  <1>3. ASSUME NEW q \in DOMAIN slots
        PROVE  /\ list[q] \in Citations
               /\ list[q].citationID = slots[q].citationID
               /\ list[q].noteIndex = slots[q].noteIndex
               /\ list[q].sortedItems = byId[slots[q].citationID].sortedItems
    <2> DEFINE c == byId[slots[q].citationID]
    <2>1. slots[q].citationID \in DOMAIN byId
      BY DEF IDs
    <2>2. c \in Citations /\ c.citationID = slots[q].citationID
      BY <2>1 DEF Known
    <2>3. slots[q].noteIndex \in Nat
      BY <1>1 DEF SlotSet
    <2>4. list[q] = [c EXCEPT !.noteIndex = slots[q].noteIndex]
      BY DEF Listed
    <2> HIDE DEF list, c
    <2>5. list[q] \in Citations /\ list[q].citationID = c.citationID
          /\ list[q].noteIndex = slots[q].noteIndex /\ list[q].sortedItems = c.sortedItems
      BY <2>2, <2>3, <2>4 DEF Citations
    <2>6. QED
      BY <2>2, <2>5 DEF c
  <1>4. list \in Seq(Citations)
    <2>1. list = [q \in DOMAIN slots |-> list[q]]
      BY DEF Listed
    <2> HIDE DEF list
    <2>2. list \in [1 .. Len(slots) -> Citations]
      BY <1>1, <1>2, <1>3, <2>1
    <2>3. QED
      BY <1>1, <2>2, TypedSequence
  <1>5. Distinct(list)
    BY <1>2, <1>3 DEF Distinct
  <1>6. IDs(list) = IDs(slots)
    BY <1>2, <1>3 DEF IDs
  <1>7. QED
    BY <1>2, <1>3, <1>4, <1>5, <1>6

\* Complete lists are lists of whole citations.
LEMMA CompleteIsWhole ==
    ASSUME NEW list \in Seq(Citations), Complete(list)
    PROVE  list \in Seq(Whole)
  <1>1. /\ DOMAIN list = 1 .. Len(list) /\ Len(list) \in Nat
        /\ \A q \in DOMAIN list : list[q] \in Citations /\ list[q].sortedItems # Undefined
    BY DEF Complete
  <1>2. \A q \in DOMAIN list : list[q] \in Whole
    BY <1>1 DEF Citations, Whole
  <1>3. list \in [1 .. Len(list) -> Whole]
    BY <1>1, <1>2
  <1>4. QED
    BY <1>1, <1>3, TypedSequence

LEMMA WholeIsListed ==
    ASSUME NEW list \in Seq(Whole)
    PROVE  list \in Seq(Citations)
  <1>1. DOMAIN list = 1 .. Len(list) /\ Len(list) \in Nat /\ \A q \in DOMAIN list : list[q] \in Whole
    OBVIOUS
  <1>2. \A q \in DOMAIN list : list[q] \in Citations
    BY <1>1 DEF Citations, Whole
  <1>3. list \in [1 .. Len(list) -> Citations]
    BY <1>1, <1>2
  <1>4. QED
    BY <1>1, <1>3, TypedSequence

FreshCites(cites) == [k \in DOMAIN cites |-> Fresh(cites[k])]

LEMMA NotEmpty ==
    ASSUME NEW R, NEW s \in Seq(R), s # <<>>
    PROVE  1 \in DOMAIN s
  <1>1. DOMAIN s = 1 .. Len(s) /\ Len(s) \in Nat
    OBVIOUS
  <1>2. Len(s) = 0 => s = <<>>
    OBVIOUS
  <1>3. QED
    BY <1>1, <1>2

\* The cites of a submission are typed, and none has a position yet.
LEMMA FreshFacts ==
    ASSUME NEW cites \in Clusters
    PROVE  /\ FreshCites(cites) \in Seq(Cites)
           /\ \E k \in DOMAIN FreshCites(cites) : FreshCites(cites)[k].position = Undefined
  <1> DEFINE R == [id : Item, locator : Locator]
  <1>1. cites # <<>> /\ cites \in Seq(R)
    BY ClusterAssumption
  <1>2. /\ DOMAIN cites = 1 .. Len(cites) /\ Len(cites) \in Nat /\ 1 \in DOMAIN cites
        /\ \A k \in DOMAIN cites : cites[k] \in R
    <2> HIDE DEF R
    <2>1. cites # <<>> /\ cites \in Seq(R)
      BY <1>1
    <2>2. 1 \in DOMAIN cites
      BY <2>1, NotEmpty
    <2>3. QED
      BY <2>1, <2>2
  <1>3. \A k \in DOMAIN cites : Fresh(cites[k]) \in Cites /\ Fresh(cites[k]).position = Undefined
    BY <1>2 DEF Fresh, Cites
  <1>4. FreshCites(cites) \in [1 .. Len(cites) -> Cites]
    BY <1>2, <1>3 DEF FreshCites
  <1>5. QED
    BY <1>2, <1>3, <1>4, TypedSequence DEF FreshCites

ByIdOf(cites, slots, p) == Register(setCitationId(slots[p], FreshCites(cites)))
ListOf(cites, slots, p) == Listed(ByIdOf(cites, slots, p), slots)

\* The submission of a document whose other citations the processor knows.
Submission(slots, p) ==
    /\ slots \in Seq(SlotSet) /\ Distinct(slots)
    /\ p \in DOMAIN slots
    /\ \A q \in DOMAIN slots \ {p} : slots[q].citationID \in DOMAIN citationById

\* What the processor makes of it: table byId, list list.
Made(byId, list, cites, slots, p) ==
    /\ Known(byId)
    /\ DOMAIN byId = DOMAIN citationById \cup {slots[p].citationID}
    /\ byId[slots[p].citationID].sortedItems = FreshCites(cites)
    /\ \A id \in DOMAIN citationById :
          id # slots[p].citationID => byId[id] = citationById[id]
    /\ list \in Seq(Citations) /\ Distinct(list) /\ DOMAIN list = DOMAIN slots
    /\ IDs(list) = IDs(slots) /\ IDs(list) \subseteq DOMAIN byId
    /\ \A q \in DOMAIN slots :
          /\ list[q].citationID = slots[q].citationID
          /\ list[q].noteIndex = slots[q].noteIndex
          /\ q # p => list[q].sortedItems = citationById[slots[q].citationID].sortedItems
    /\ list[p].sortedItems = FreshCites(cites)
    /\ p \in DOMAIN list

LEMMA SubmissionFacts ==
    ASSUME Known(citationById), NEW cites \in Clusters, NEW slots, NEW p, Submission(slots, p)
    PROVE  Made(ByIdOf(cites, slots, p), ListOf(cites, slots, p), cites, slots, p)
  <1> DEFINE c == setCitationId(slots[p], FreshCites(cites))
             byId == ByIdOf(cites, slots, p)
             list == ListOf(cites, slots, p)
  <1>1. /\ slots \in Seq(SlotSet) /\ Distinct(slots) /\ p \in DOMAIN slots
        /\ \A q \in DOMAIN slots \ {p} : slots[q].citationID \in DOMAIN citationById
    BY DEF Submission
  <1>2. slots[p] \in SlotSet
    BY <1>1
  <1>3. c \in Citations /\ c.citationID = slots[p].citationID /\ c.sortedItems = FreshCites(cites)
    BY <1>2, FreshFacts DEF SlotSet, setCitationId, Citations
  <1>4. /\ Known(byId) /\ DOMAIN byId = DOMAIN citationById \cup {c.citationID}
        /\ byId[c.citationID] = c
        /\ \A id \in DOMAIN citationById : id # c.citationID => byId[id] = citationById[id]
    <2> HIDE DEF c
    <2>1. byId = Register(c)
      BY DEF ByIdOf, c
    <2> HIDE DEF byId
    <2>2. QED
      BY <1>3, <2>1, RegisterFacts
  <1>5. IDs(slots) \subseteq DOMAIN byId
    BY <1>1, <1>3, <1>4 DEF IDs
  <1>6. /\ list \in Seq(Citations) /\ Distinct(list) /\ DOMAIN list = DOMAIN slots
        /\ IDs(list) = IDs(slots)
        /\ \A q \in DOMAIN slots :
              /\ list[q].citationID = slots[q].citationID
              /\ list[q].noteIndex = slots[q].noteIndex
              /\ list[q].sortedItems = byId[slots[q].citationID].sortedItems
    <2>1. list = Listed(byId, slots)
      BY DEF ListOf
    <2> HIDE DEF byId, list
    <2>2. QED
      BY <1>1, <1>4, <1>5, <2>1, ListedFacts
  <1>7. \A q \in DOMAIN slots : q # p => slots[q].citationID # slots[p].citationID
    BY <1>1 DEF Distinct
  <1> HIDE DEF c, byId, list
  <1>8. \A q \in DOMAIN slots :
           q # p => list[q].sortedItems = citationById[slots[q].citationID].sortedItems
    BY <1>1, <1>3, <1>4, <1>6, <1>7
  <1>9. list[p].sortedItems = FreshCites(cites)
    BY <1>1, <1>3, <1>4, <1>6
  <1>10. QED
    BY <1>1, <1>3, <1>4, <1>5, <1>6, <1>8, <1>9 DEF byId, list, Made

-----------------------------------------------------------------------------
(* Suffixes and texts. *)

\* The registry holds items S with the suffixes some list of them gives.
Registered(entries, S) ==
    /\ Holds(entries, S)
    /\ \E ids \in Seq(Item) :
          /\ Registry!Listed(ids) = S
          /\ \A m \in DOMAIN entries : entries[m].suffix = Registry!Suffix(ids, entries[m].id)

LEMMA UpdatedIsRegistered ==
    ASSUME NEW ids \in Seq(Item), Registry!updateItems(ids, FALSE)
    PROVE  Registered(bibliography', Registry!Listed(ids))
  BY UpdatedItems DEF Registered

LEMMA CitedItemsFacts ==
    ASSUME NEW list \in Seq(Whole), NEW ids \in CitedItems(list)
    PROVE  ids \in Seq(Item) /\ Registry!Listed(ids) = Cited(list)
  <1>1. IsFiniteSet(Cited(list)) /\ Cited(list) \subseteq Item
    BY CitedFinite
  <1>2. Cardinality(Cited(list)) \in Nat
    BY <1>1, FS_CardinalityType
  <1>3. /\ ids \in [1 .. Cardinality(Cited(list)) -> Cited(list)]
        /\ {ids[m] : m \in DOMAIN ids} = Cited(list)
    BY DEF CitedItems
  <1>4. ids \in [1 .. Cardinality(Cited(list)) -> Item]
    BY <1>1, <1>3
  <1>5. ids \in Seq(Item)
    BY <1>2, <1>4, TypedSequence
  <1>6. QED
    BY <1>3, <1>5 DEF Registry!Listed

LEMMA SuffixOfFacts ==
    ASSUME NEW S, NEW entries, Holds(entries, S)
    PROVE  /\ DOMAIN SuffixOf(entries) = S
           /\ \A i \in S : /\ SuffixOf(entries)[i] \in Int
                           /\ \E m \in DOMAIN entries :
                                 entries[m].id = i /\ SuffixOf(entries)[i] = entries[m].suffix
  <1>1. ToSet(entries) = {entries[m] : m \in DOMAIN entries}
    BY DEF ToSet
  <1>2. {e.id : e \in ToSet(entries)} = S
    BY <1>1 DEF Holds
  <1>3. \A m \in DOMAIN entries : entries[m].suffix \in Int
    <2> DEFINE R == [id : Item, suffix : Int]
    <2>1. entries \in Seq(R)
      BY DEF Holds
    <2>2. \A r \in R : r.suffix \in Int
      OBVIOUS
    <2> HIDE DEF R
    <2>3. QED
      BY <2>1, <2>2
  <1>4. ASSUME NEW i \in S
        PROVE  \E m \in DOMAIN entries :
                  entries[m].id = i /\ SuffixOf(entries)[i] = entries[m].suffix
    <2> DEFINE e == CHOOSE e \in ToSet(entries) : e.id = i
    <2>1. \E x \in ToSet(entries) : x.id = i
      BY <1>2
    <2>2. e \in ToSet(entries) /\ e.id = i
      BY <2>1
    <2>3. SuffixOf(entries)[i] = e.suffix
      BY <1>2 DEF SuffixOf
    <2> HIDE DEF e
    <2>4. QED
      BY <1>1, <2>2, <2>3
  <1>5. QED
    BY <1>2, <1>3, <1>4 DEF SuffixOf

TextSet == [cites : Seq(Cites), suffixes : Seq(Int)]

LEMMA TextType ==
    ASSUME NEW S, NEW entries, Holds(entries, S),
           NEW cites \in Seq(Cites), ItemsOf(cites) \subseteq S
    PROVE  Text(cites, entries) \in TextSet
  <1> DEFINE suffixes == [k \in DOMAIN cites |-> SuffixOf(entries)[cites[k].id]]
  <1>1. DOMAIN cites = 1 .. Len(cites) /\ Len(cites) \in Nat
    OBVIOUS
  <1>2. \A k \in DOMAIN cites : SuffixOf(entries)[cites[k].id] \in Int
    BY SuffixOfFacts DEF ItemsOf
  <1>3. suffixes \in [1 .. Len(cites) -> Int]
    BY <1>1, <1>2
  <1>4. suffixes \in Seq(Int)
    <2> HIDE DEF suffixes
    <2>1. QED
      BY <1>1, <1>3, TypedSequence
  <1>5. Text(cites, entries) = [cites |-> cites, suffixes |-> suffixes]
    BY DEF Text
  <1> HIDE DEF suffixes
  <1>6. QED
    BY <1>4, <1>5 DEF TextSet

-----------------------------------------------------------------------------
(* What a call that returns leaves behind. *)

LEMMA RenderPositions ==
    ASSUME NEW byId, NEW list \in Seq(Whole), NEW p \in DOMAIN list, NEW old, NEW saved,
           Render(byId, list, p, old, saved)
    PROVE  /\ \E f \in SortOrders(list[p].sortedItems) :
                 citationByIndex' = Positioned(list, p, f)
           /\ citationByIndex' \in Seq(Whole)
           /\ DOMAIN citationByIndex' = DOMAIN list
           /\ IDs(citationByIndex') = IDs(list)
           /\ \A q \in DOMAIN list :
                 /\ citationByIndex'[q].citationID = list[q].citationID
                 /\ citationByIndex'[q].noteIndex = list[q].noteIndex
                 /\ ItemsOf(citationByIndex'[q].sortedItems) = ItemsOf(list[q].sortedItems)
           /\ Cited(citationByIndex') = Cited(list)
           /\ Registered(bibliography', Cited(list))
  <1>1. PICK f \in SortOrders(list[p].sortedItems) : citationByIndex' = Positioned(list, p, f)
    BY DEF Render
  <1>2. /\ Positioned(list, p, f) \in Seq(Whole)
        /\ DOMAIN Positioned(list, p, f) = DOMAIN list
        /\ \A q \in DOMAIN list :
              /\ Positioned(list, p, f)[q].citationID = list[q].citationID
              /\ Positioned(list, p, f)[q].noteIndex = list[q].noteIndex
    BY PositionedFacts
  <1>3. /\ \A q \in DOMAIN list : ItemsOf(Positioned(list, p, f)[q].sortedItems) =
                                      ItemsOf(list[q].sortedItems)
        /\ Cited(Positioned(list, p, f)) = Cited(list)
    BY PositionedCited
  <1>4. IDs(Positioned(list, p, f)) = IDs(list)
    BY <1>2 DEF IDs
  <1>5. PICK ids \in CitedItems(list) : Registry!updateItems(ids, FALSE)
    BY DEF Render
  <1>6. Registered(bibliography', Cited(list))
    BY <1>5, CitedItemsFacts, UpdatedIsRegistered
  <1>7. QED
    BY <1>1, <1>2, <1>3, <1>4, <1>6

\* The document a caller can have: its texts complete, no citation twice.
Typed(doc) ==
    /\ doc \in Seq([citationID : CitationID, noteIndex : Nat, text : TextSet])
    /\ Distinct(doc)

LEMMA RenderTypes ==
    ASSUME NEW byId, Known(byId), NEW list \in Seq(Whole), Distinct(list),
           IDs(list) \subseteq DOMAIN byId, NEW p \in DOMAIN list, NEW old, NEW saved,
           \A q \in DOMAIN list \ {p} : saved[list[q].citationID] \in TextSet,
           Render(byId, list, p, old, saved)
    PROVE  /\ Known(citationById') /\ DOMAIN citationById' = DOMAIN byId
           /\ \A id \in DOMAIN byId \ IDs(list) : citationById'[id] = byId[id]
           /\ \A q \in DOMAIN list : citationById'[list[q].citationID] = citationByIndex'[q]
           /\ citationByIndex' \in Seq(Citations) /\ Distinct(citationByIndex')
           /\ DOMAIN document' = DOMAIN list /\ IDs(document') = IDs(list)
           /\ \A q \in DOMAIN list : document'[q].citationID = list[q].citationID
           /\ Typed(document')
           /\ outcome' = "returned"
  <1>1. /\ citationByIndex' \in Seq(Whole) /\ DOMAIN citationByIndex' = DOMAIN list
        /\ IDs(citationByIndex') = IDs(list)
        /\ \A q \in DOMAIN list :
              /\ citationByIndex'[q].citationID = list[q].citationID
              /\ ItemsOf(citationByIndex'[q].sortedItems) = ItemsOf(list[q].sortedItems)
        /\ Registered(bibliography', Cited(list))
    BY RenderPositions
  <1>2. citationByIndex' \in Seq(Citations) /\ Distinct(citationByIndex')
    <2>1. citationByIndex' \in Seq(Citations)
      BY <1>1, WholeIsListed
    <2>2. QED
      BY <1>1, <2>1 DEF Distinct
  <1>3. citationById' = Through(byId, citationByIndex') /\ outcome' = "returned"
    BY DEF Render
  <1>4. /\ Known(citationById') /\ DOMAIN citationById' = DOMAIN byId
        /\ \A id \in DOMAIN byId \ IDs(list) : citationById'[id] = byId[id]
        /\ \A q \in DOMAIN list : citationById'[list[q].citationID] = citationByIndex'[q]
    BY <1>1, <1>2, <1>3, ThroughFacts
  <1>5. /\ DOMAIN document' = DOMAIN list
        /\ \A q \in DOMAIN list :
              /\ document'[q] = [citationID |-> list[q].citationID,
                                 noteIndex |-> list[q].noteIndex,
                                 text |-> document'[q].text]
              /\ \/ document'[q].text = Text(citationByIndex'[q].sortedItems, bibliography')
                 \/ q # p /\ document'[q].text = saved[list[q].citationID]
    BY DEF Render
  <1>6. ASSUME NEW q \in DOMAIN list
        PROVE  document'[q] \in [citationID : CitationID, noteIndex : Nat, text : TextSet]
    <2>1. list[q] \in Whole /\ citationByIndex'[q] \in Whole
      BY <1>1
    <2>2. ItemsOf(citationByIndex'[q].sortedItems) \subseteq Cited(list)
      BY <1>1 DEF Cited
    <2>3. Text(citationByIndex'[q].sortedItems, bibliography') \in TextSet
      BY <1>1, <2>1, <2>2, TextType DEF Registered, Whole
    <2>4. document'[q].text \in TextSet
      BY <1>5, <2>3
    <2>5. QED
      BY <1>5, <2>1, <2>4 DEF Whole
  <1>7. document' \in Seq([citationID : CitationID, noteIndex : Nat, text : TextSet])
    <2> DEFINE R == [citationID : CitationID, noteIndex : Nat, text : TextSet]
    <2>1. document' = [q \in DOMAIN list |-> document'[q]]
      BY DEF Render
    <2>2. DOMAIN list = 1 .. Len(list) /\ Len(list) \in Nat
      OBVIOUS
    <2>3. \A q \in DOMAIN list : document'[q] \in R
      BY <1>6
    <2> HIDE DEF R
    <2>4. document' \in [1 .. Len(list) -> R]
      BY <2>1, <2>2, <2>3
    <2>5. document' \in Seq(R)
      BY <2>2, <2>4, TypedSequence
    <2>6. QED
      BY <2>5 DEF R
  <1>8. \A q \in DOMAIN list : document'[q].citationID = list[q].citationID
    BY <1>5
  <1>9. Distinct(document') /\ IDs(document') = IDs(list)
    BY <1>5, <1>8 DEF Distinct, IDs
  <1>10. QED
    BY <1>2, <1>3, <1>4, <1>5, <1>7, <1>8, <1>9 DEF Typed

\* Position evaluation gives back references that resolve, sorted or not.
LEMMA RenderResolves ==
    ASSUME NEW byId, NEW list \in Seq(Whole), NEW p \in DOMAIN list, NEW old, NEW saved,
           Render(byId, list, p, old, saved)
    PROVE  BackreferencesResolve'
  <1>1. PICK f \in SortOrders(list[p].sortedItems) : citationByIndex' = Positioned(list, p, f)
    BY DEF Render
  <1> DEFINE sorted == Sorted(list, p, f)
             new == Positioned(list, p, f)
  <1>2. /\ sorted \in Seq(Whole) /\ DOMAIN sorted = DOMAIN list /\ DOMAIN new = DOMAIN list
        /\ \A q \in DOMAIN list : /\ sorted[q].noteIndex = list[q].noteIndex
                                  /\ new[q].noteIndex = list[q].noteIndex
    BY PositionedFacts
  <1>3. \A q \in DOMAIN list : SameElements(new[q].sortedItems, Evaluated(sorted, q))
    BY PositionedItems
  <1> HIDE DEF sorted, new
  <1>4. ASSUME NEW q \in DOMAIN new, NEW k \in DOMAIN new[q].sortedItems,
               new[q].sortedItems[k].first # 0
        PROVE  \E r \in 1 .. q :
                  /\ new[r].noteIndex = new[q].sortedItems[k].first
                  /\ \E n \in DOMAIN new[r].sortedItems :
                        /\ new[r].sortedItems[n].id = new[q].sortedItems[k].id
                        /\ new[r].sortedItems[n].position = "first"
    <2>1. PICK l \in DOMAIN Evaluated(sorted, q) : new[q].sortedItems[k] = Evaluated(sorted, q)[l]
      BY <1>2, <1>3, <1>4 DEF SameElements
    <2>2. /\ l \in DOMAIN sorted[q].sortedItems
          /\ new[q].sortedItems[k].id = sorted[q].sortedItems[l].id
          /\ new[q].sortedItems[k].first = FirstReference(sorted, q, l)
      BY <1>2, <2>1, EvaluatedType
    <2>3. FirstReference(sorted, q, l) # 0
      BY <1>4, <2>2
    <2>4. PICK r \in 1 .. q :
             /\ sorted[r].noteIndex = FirstReference(sorted, q, l)
             /\ \E n \in DOMAIN sorted[r].sortedItems :
                   /\ sorted[r].sortedItems[n].id = sorted[q].sortedItems[l].id
                   /\ Position(sorted, r, n) = "first"
      BY <1>2, <2>2, <2>3, FirstReferenceLeads
    <2>5. PICK n \in DOMAIN sorted[r].sortedItems :
             /\ sorted[r].sortedItems[n].id = sorted[q].sortedItems[l].id
             /\ Position(sorted, r, n) = "first"
      BY <2>4
    <2>6. r \in DOMAIN sorted
      BY <1>2, <2>2, PlacesExist
    <2>7. /\ n \in DOMAIN Evaluated(sorted, r)
          /\ Evaluated(sorted, r)[n].id = sorted[r].sortedItems[n].id
          /\ Evaluated(sorted, r)[n].position = "first"
      BY <1>2, <2>5, <2>6, EvaluatedType
    <2>8. PICK m \in DOMAIN new[r].sortedItems : new[r].sortedItems[m] = Evaluated(sorted, r)[n]
      BY <1>2, <1>3, <2>6, <2>7 DEF SameElements
    <2>9. new[r].noteIndex = new[q].sortedItems[k].first
      BY <1>2, <2>2, <2>4, <2>6
    <2>10. QED
      BY <2>2, <2>5, <2>7, <2>8, <2>9
  <1>5. QED
    BY <1>1, <1>4 DEF BackreferencesResolve, new

-----------------------------------------------------------------------------
(* Types, the two tables, and the citations of the document. *)

\* A document that was appended to is the caller's: while the list of the
\* processor is complete, the caller has a text of every citation in it.
StateInv ==
    /\ TypeOK
    /\ bibliography \in Seq([id : Item, suffix : Int])
    /\ Distinct(document)
    /\ TablesAgree
    /\ Complete(citationByIndex) => IDs(citationByIndex) \subseteq IDs(document)

LEMMA StateFacts ==
    ASSUME StateInv
    PROVE  /\ Known(citationById)
           /\ citationByIndex \in Seq(Citations) /\ Distinct(citationByIndex)
           /\ Typed(document)
           /\ \A q \in DOMAIN citationByIndex :
                 /\ citationByIndex[q] \in Citations
                 /\ citationByIndex[q].citationID \in DOMAIN citationById
                 /\ \/ citationById[citationByIndex[q].citationID] = citationByIndex[q]
                    \/ citationById[citationByIndex[q].citationID].sortedItems = Undefined
  <1>1. Known(citationById) /\ citationByIndex \in Seq(Citations)
    BY DEF StateInv, TypeOK, Known
  <1>2. Distinct(citationByIndex) /\ Typed(document)
    BY Zenon DEF StateInv, TypeOK, Typed, TextSet, Distinct
  <1>3. \A q \in DOMAIN citationByIndex : citationByIndex[q] \in Citations
    BY <1>1
  <1>4. \A q \in DOMAIN citationByIndex :
           /\ citationByIndex[q].citationID \in DOMAIN citationById
           /\ \/ citationById[citationByIndex[q].citationID] = citationByIndex[q]
              \/ citationById[citationByIndex[q].citationID].sortedItems = Undefined
    BY Zenon DEF StateInv, TablesAgree
  <1>5. QED
    BY <1>1, <1>2, <1>3, <1>4

\* The primed state is one of the invariant.
LEMMA StateFrom ==
    ASSUME Known(citationById'), citationByIndex' \in Seq(Citations), Distinct(citationByIndex'),
           mode' \in {Mode, PreviewMode}, outcome' \in {"none", "returned", "threw", "previewed"},
           Typed(document'), bibliography' \in Seq([id : Item, suffix : Int]),
           \A q \in DOMAIN citationByIndex' :
              /\ citationByIndex'[q].citationID \in DOMAIN citationById'
              /\ \/ citationById'[citationByIndex'[q].citationID] = citationByIndex'[q]
                 \/ citationById'[citationByIndex'[q].citationID].sortedItems = Undefined,
           Complete(citationByIndex') => IDs(citationByIndex') \subseteq IDs(document')
    PROVE  StateInv'
  BY Zenon DEF StateInv, TypeOK, Known, Typed, TextSet, Distinct, TablesAgree

LEMMA TextsFacts ==
    ASSUME Typed(document), NEW r \in DOMAIN document
    PROVE  /\ document[r].citationID \in CitationID
           /\ document[r].text \in TextSet
           /\ OfID(document, document[r].citationID) = document[r]
           /\ Texts[document[r].citationID] = document[r].text
  <1> DEFINE R == [citationID : CitationID, noteIndex : Nat, text : TextSet]
  <1>1. document \in Seq(R) /\ Distinct(document)
    BY DEF Typed
  <1>2. \A x \in R : x.citationID \in CitationID /\ x.text \in TextSet
    OBVIOUS
  <1> HIDE DEF R
  <1>3. document[r] \in R
    BY <1>1
  <1>4. OfID(document, document[r].citationID) = document[r]
    BY <1>1, FoundByID
  <1>5. document[r].citationID \in IDs(document)
    BY DEF IDs
  <1>6. QED
    BY <1>2, <1>3, <1>4, <1>5 DEF Texts

LEMMA RetrievalFails ==
    ASSUME StateInv, NEW cites, NEW slots, NEW p, Submission(slots, p),
           FailToRetrieve(slots[p], cites), mode' \in {Mode, PreviewMode}
    PROVE  StateInv'
  <1> DEFINE c == setCitationId(slots[p], Undefined)
  <1>1. slots[p] \in SlotSet
    BY DEF Submission
  <1>2. c \in Citations /\ c.sortedItems = Undefined /\ c.citationID = slots[p].citationID
    BY <1>1 DEF setCitationId, Citations, SlotSet
  <1>3. /\ citationById' = Register(c) /\ outcome' = "threw"
        /\ citationByIndex' = citationByIndex /\ bibliography' = bibliography
        /\ document' = document
    BY DEF FailToRetrieve
  <1>4. /\ Known(citationById)
        /\ citationByIndex \in Seq(Citations) /\ Distinct(citationByIndex)
        /\ Typed(document)
        /\ \A q \in DOMAIN citationByIndex :
                 /\ citationByIndex[q].citationID \in DOMAIN citationById
                 /\ \/ citationById[citationByIndex[q].citationID] = citationByIndex[q]
                    \/ citationById[citationByIndex[q].citationID].sortedItems = Undefined
    BY StateFacts
  <1> HIDE DEF c
  <1>5. /\ Known(citationById')
        /\ DOMAIN citationById' = DOMAIN citationById \cup {c.citationID}
        /\ citationById'[c.citationID] = c
        /\ \A id \in DOMAIN citationById :
              id # c.citationID => citationById'[id] = citationById[id]
    BY <1>2, <1>3, <1>4, RegisterFacts
  <1>6. \A q \in DOMAIN citationByIndex :
           /\ citationByIndex[q].citationID \in DOMAIN citationById'
           /\ \/ citationById'[citationByIndex[q].citationID] = citationByIndex[q]
              \/ citationById'[citationByIndex[q].citationID].sortedItems = Undefined
    BY <1>2, <1>4, <1>5
  <1>7. QED
    BY <1>3, <1>4, <1>5, <1>6, StateFrom DEF StateInv

LEMMA PositioningFails ==
    ASSUME StateInv, NEW byId, Known(byId), NEW list \in Seq(Citations), Distinct(list),
           IDs(list) \subseteq DOMAIN byId, FailToPosition(byId, list),
           mode' \in {Mode, PreviewMode}
    PROVE  StateInv'
  <1>1. /\ ~Complete(list) /\ citationById' = Through(byId, list) /\ citationByIndex' = list
        /\ bibliography' = bibliography /\ document' = document /\ outcome' = "threw"
    BY DEF FailToPosition
  <1>2. /\ Known(Through(byId, list)) /\ DOMAIN Through(byId, list) = DOMAIN byId
        /\ \A q \in DOMAIN list : Through(byId, list)[list[q].citationID] = list[q]
    BY ThroughFacts
  <1>3. \A q \in DOMAIN list : list[q].citationID \in DOMAIN byId
    BY DEF IDs
  <1>4. QED
    BY <1>1, <1>2, <1>3, StateFacts, StateFrom DEF StateInv

LEMMA RenderKeepsState ==
    ASSUME NEW byId, Known(byId), NEW list \in Seq(Whole), Distinct(list),
           IDs(list) \subseteq DOMAIN byId, NEW p \in DOMAIN list, NEW old, NEW saved,
           \A q \in DOMAIN list \ {p} : saved[list[q].citationID] \in TextSet,
           Render(byId, list, p, old, saved), mode' \in {Mode, PreviewMode}
    PROVE  StateInv' /\ BackreferencesResolve'
  <1>1. /\ Known(citationById') /\ DOMAIN citationById' = DOMAIN byId
        /\ \A q \in DOMAIN list : citationById'[list[q].citationID] = citationByIndex'[q]
        /\ citationByIndex' \in Seq(Citations) /\ Distinct(citationByIndex')
        /\ IDs(document') = IDs(list)
        /\ Typed(document')
        /\ outcome' = "returned"
    BY RenderTypes
  <1>2. /\ DOMAIN citationByIndex' = DOMAIN list
        /\ IDs(citationByIndex') = IDs(list)
        /\ \A q \in DOMAIN list : citationByIndex'[q].citationID = list[q].citationID
        /\ Registered(bibliography', Cited(list))
    BY RenderPositions
  <1>3. bibliography' \in Seq([id : Item, suffix : Int])
    BY <1>2 DEF Registered, Holds
  <1>4. \A q \in DOMAIN list : list[q].citationID \in DOMAIN byId
    BY DEF IDs
  <1>5. StateInv'
    BY <1>1, <1>2, <1>3, <1>4, StateFrom
  <1>6. QED
    BY <1>5, RenderResolves

\* A submission to a processor that knows the other citations: it fails to
\* retrieve, fails to position, or returns.
LEMMA SubmissionKeepsState ==
    ASSUME StateInv, NEW cites \in Clusters, NEW slots, NEW p, Submission(slots, p),
           Complete(ListOf(cites, slots, p)) =>
              \A q \in DOMAIN slots \ {p} : slots[q].citationID \in IDs(document),
           processCitationCluster(cites, slots, p)
    PROVE  StateInv' /\ (outcome' = "returned" => BackreferencesResolve')
  <1> DEFINE byId == ByIdOf(cites, slots, p)
             list == ListOf(cites, slots, p)
  <1>1. /\ mode' = mode
        /\ \/ FailToRetrieve(slots[p], cites)
           \/ FailToPosition(byId, list)
           \/ Complete(list) /\ Render(byId, list, p, bibliography, Texts)
    BY Zenon DEF processCitationCluster, ByIdOf, ListOf, FreshCites
  <1>2. mode' \in {Mode, PreviewMode}
    BY <1>1 DEF StateInv, TypeOK
  <1>3. Known(citationById) /\ Typed(document)
    BY StateFacts
  <1>4. /\ Known(byId)
        /\ list \in Seq(Citations) /\ Distinct(list) /\ DOMAIN list = DOMAIN slots
        /\ IDs(list) \subseteq DOMAIN byId
        /\ \A q \in DOMAIN slots : list[q].citationID = slots[q].citationID
        /\ p \in DOMAIN list
    <2>1. Made(byId, list, cites, slots, p)
      BY <1>3, SubmissionFacts
    <2> HIDE DEF byId, list
    <2>2. QED
      BY <2>1 DEF Made
  <1> HIDE DEF byId, list
  <1>5. CASE FailToRetrieve(slots[p], cites)
    BY <1>2, <1>5, RetrievalFails DEF FailToRetrieve
  <1>6. CASE FailToPosition(byId, list)
    BY <1>2, <1>4, <1>6, PositioningFails DEF FailToPosition
  <1>7. CASE Complete(list) /\ Render(byId, list, p, bibliography, Texts)
    <2>1. list \in Seq(Whole)
      BY <1>4, <1>7, CompleteIsWhole
    <2>2. ASSUME NEW q \in DOMAIN list \ {p}
          PROVE  Texts[list[q].citationID] \in TextSet
      <3>1. list[q].citationID \in IDs(document)
        BY <1>4, <1>7 DEF list
      <3>2. PICK r \in DOMAIN document : document[r].citationID = list[q].citationID
        BY <3>1 DEF IDs
      <3>3. QED
        BY <1>3, <3>2, TextsFacts
    <2>3. QED
      BY <1>2, <1>4, <1>7, <2>1, <2>2, RenderKeepsState
  <1>8. QED
    BY <1>1, <1>5, <1>6, <1>7

LEMMA LayoutFacts ==
    ASSUME NEW slots \in Layouts
    PROVE  slots \in Seq(SlotSet) /\ Distinct(slots) /\ slots # <<>> /\ 1 \in DOMAIN slots
  <1>1. slots \in Seq(SlotSet) /\ Distinct(slots) /\ slots # <<>>
    BY ClusterAssumption DEF SlotSet, Distinct
  <1>2. QED
    BY <1>1, NotEmpty

LEMMA MaySubmitFacts ==
    ASSUME NEW slots \in Layouts, NEW p \in DOMAIN slots, MaySubmit(slots, p)
    PROVE  /\ Submission(slots, p)
           /\ \A q \in DOMAIN slots \ {p} : slots[q].citationID \in IDs(document)
  <1>1. slots \in Seq(SlotSet) /\ Distinct(slots)
    BY LayoutFacts
  <1>2. ASSUME NEW q \in DOMAIN slots \ {p}
        PROVE  /\ slots[q].citationID \in IDs(document)
               /\ slots[q].citationID \in DOMAIN citationById
    <2>1. slots[q].citationID \in IDs(slots) \ {slots[p].citationID}
      BY <1>1 DEF IDs, Distinct
    <2>2. QED
      BY <2>1 DEF MaySubmit
  <1>3. QED
    BY <1>1, <1>2 DEF Submission

\* The processor's own list as the caller of appendCitationCluster sees it.
Own == [q \in DOMAIN citationByIndex |->
           [citationID |-> citationByIndex[q].citationID,
            noteIndex |-> citationByIndex[q].noteIndex]]

LEMMA AppendFacts ==
    ASSUME StateInv, NEW here \in SlotSet, here.citationID \notin IDs(citationByIndex)
    PROVE  LET slots == Append(Own, here)
               p == Len(Own) + 1
           IN  /\ Submission(slots, p)
               /\ \A q \in DOMAIN slots \ {p} :
                     /\ q \in DOMAIN citationByIndex
                     /\ slots[q].citationID = citationByIndex[q].citationID
  <1> DEFINE slots == Append(Own, here)
             p == Len(Own) + 1
  <1>1. /\ DOMAIN citationByIndex = 1 .. Len(citationByIndex) /\ Len(citationByIndex) \in Nat
        /\ Distinct(citationByIndex)
        /\ \A q \in DOMAIN citationByIndex :
              /\ citationByIndex[q] \in Citations
              /\ citationByIndex[q].citationID \in DOMAIN citationById
    BY StateFacts
  <1>2. \A q \in DOMAIN citationByIndex :
           Own[q] \in SlotSet /\ Own[q].citationID = citationByIndex[q].citationID
    BY <1>1 DEF Own, SlotSet, Citations
  <1>3. Own \in [1 .. Len(citationByIndex) -> SlotSet]
    BY <1>1, <1>2 DEF Own
  <1>4. Own \in Seq(SlotSet) /\ Len(Own) = Len(citationByIndex)
    BY <1>1, <1>3, TypedSequence
  <1>5. /\ slots \in Seq(SlotSet) /\ DOMAIN slots = 1 .. p /\ slots[p] = here
        /\ p = Len(citationByIndex) + 1
        /\ \A q \in 1 .. Len(citationByIndex) : slots[q] = Own[q]
    BY <1>1, <1>4
  <1> HIDE DEF slots, p
  <1>6. \A q \in DOMAIN slots \ {p} :
           /\ q \in DOMAIN citationByIndex
           /\ slots[q].citationID = citationByIndex[q].citationID
    BY <1>1, <1>2, <1>5
  <1>7. \A q \in DOMAIN citationByIndex : citationByIndex[q].citationID # here.citationID
    BY DEF IDs
  <1>8. Distinct(slots)
    <2>1. SUFFICES ASSUME NEW q \in DOMAIN slots, NEW r \in DOMAIN slots,
                          slots[q].citationID = slots[r].citationID, q # r
                   PROVE  FALSE
      BY DEF Distinct
    <2>2. CASE q # p /\ r # p
      BY <1>1, <1>6, <2>1, <2>2 DEF Distinct
    <2>3. CASE q = p \/ r = p
      BY <1>5, <1>6, <1>7, <2>1, <2>3
    <2>4. QED
      BY <2>2, <2>3
  <1>9. p \in DOMAIN slots
    BY <1>1, <1>5
  <1>10. Submission(slots, p)
    BY <1>1, <1>5, <1>6, <1>8, <1>9 DEF Submission
  <1>11. QED
    BY <1>6, <1>10 DEF slots, p

\* While every listed citation has its items in the first table, the second
\* is complete.
LEMMA OwnComplete ==
    ASSUME StateInv, \A q \in DOMAIN citationByIndex :
              citationById[citationByIndex[q].citationID].sortedItems # Undefined
    PROVE  IDs(citationByIndex) \subseteq IDs(document)
  <1>1. Complete(citationByIndex)
    BY StateFacts DEF Complete
  <1>2. QED
    BY <1>1 DEF StateInv

LEMMA ProcessKeepsState ==
    ASSUME StateInv, ProcessCitationCluster
    PROVE  StateInv' /\ (outcome' = "returned" => BackreferencesResolve')
  <1>1. PICK cites \in Clusters, slots \in Layouts :
           \E p \in DOMAIN slots : MaySubmit(slots, p) /\ processCitationCluster(cites, slots, p)
    BY DEF ProcessCitationCluster
  <1>2. PICK p \in DOMAIN slots : MaySubmit(slots, p) /\ processCitationCluster(cites, slots, p)
    BY <1>1
  <1>3. QED
    BY <1>2, MaySubmitFacts, SubmissionKeepsState

\* The list a citation is appended to is in the caller's document, if the call
\* can get as far as texts.
LEMMA AppendedKnown ==
    ASSUME StateInv, NEW cites \in Clusters, NEW slots, NEW p, Submission(slots, p),
           \A q \in DOMAIN slots \ {p} :
              /\ q \in DOMAIN citationByIndex
              /\ slots[q].citationID = citationByIndex[q].citationID,
           DOMAIN citationByIndex \subseteq DOMAIN slots \ {p},
           Complete(ListOf(cites, slots, p))
    PROVE  \A q \in DOMAIN slots \ {p} : slots[q].citationID \in IDs(document)
  <1> DEFINE byId == ByIdOf(cites, slots, p)
             list == ListOf(cites, slots, p)
  <1>1. Made(byId, list, cites, slots, p)
    BY StateFacts, SubmissionFacts
  <1>2. Complete(list)
    OBVIOUS
  <1> HIDE DEF byId, list
  <1>3. ASSUME NEW q \in DOMAIN citationByIndex
        PROVE  citationById[citationByIndex[q].citationID].sortedItems # Undefined
    <2>1. q \in DOMAIN list /\ q # p
      BY <1>1 DEF Made
    <2>2. list[q].sortedItems # Undefined
      BY <1>2, <2>1 DEF Complete
    <2>3. QED
      BY <1>1, <2>1, <2>2 DEF Made
  <1>4. IDs(citationByIndex) \subseteq IDs(document)
    BY <1>3, OwnComplete
  <1>5. QED
    BY <1>4 DEF IDs

LEMMA AppendStep ==
    ASSUME StateInv, AppendCitationCluster
    PROVE  \E cites \in Clusters : \E slots, p :
              /\ Submission(slots, p)
              /\ \A q \in DOMAIN slots \ {p} :
                    /\ q \in DOMAIN citationByIndex
                    /\ slots[q].citationID = citationByIndex[q].citationID
              /\ DOMAIN citationByIndex \subseteq DOMAIN slots \ {p}
              /\ processCitationCluster(cites, slots, p)
  <1>1. PICK cites \in Clusters, lay \in Layouts :
           /\ lay[Len(lay)].citationID \notin IDs(citationByIndex)
           /\ appendCitationCluster(cites, lay[Len(lay)])
    BY DEF AppendCitationCluster
  <1> DEFINE here == lay[Len(lay)]
             slots == Append(Own, here)
             p == Len(Own) + 1
  <1>2. here \in SlotSet
    <2>1. lay \in Seq(SlotSet) /\ 1 \in DOMAIN lay
      BY LayoutFacts
    <2>2. QED
      BY <2>1
  <1>3. processCitationCluster(cites, slots, p)
    BY <1>1 DEF appendCitationCluster, Own
  <1>4. /\ Submission(slots, p)
        /\ \A q \in DOMAIN slots \ {p} :
              /\ q \in DOMAIN citationByIndex
              /\ slots[q].citationID = citationByIndex[q].citationID
    BY <1>1, <1>2, AppendFacts
  <1>5. DOMAIN citationByIndex \subseteq DOMAIN slots \ {p}
    <2>1. DOMAIN citationByIndex = 1 .. Len(citationByIndex) /\ Len(citationByIndex) \in Nat
      BY StateFacts
    <2>2. Own = [q \in 1 .. Len(citationByIndex) |-> Own[q]]
      BY <2>1 DEF Own
    <2>3. Len(Own) = Len(citationByIndex)
      BY <2>1, <2>2
    <2>4. Len(slots) = Len(Own) + 1 /\ DOMAIN slots = 1 .. Len(Own) + 1
      BY <2>1, <2>2, <2>3
    <2>5. QED
      BY <2>1, <2>3, <2>4
  <1>6. QED
    BY <1>3, <1>4, <1>5

LEMMA AppendKeepsState ==
    ASSUME StateInv, AppendCitationCluster
    PROVE  StateInv' /\ (outcome' = "returned" => BackreferencesResolve')
  <1>1a. PICK cites \in Clusters : \E slots, p :
           /\ Submission(slots, p)
           /\ \A q \in DOMAIN slots \ {p} :
                 /\ q \in DOMAIN citationByIndex
                 /\ slots[q].citationID = citationByIndex[q].citationID
           /\ DOMAIN citationByIndex \subseteq DOMAIN slots \ {p}
           /\ processCitationCluster(cites, slots, p)
    BY AppendStep
  <1>1. PICK slots, p :
           /\ Submission(slots, p)
           /\ \A q \in DOMAIN slots \ {p} :
                 /\ q \in DOMAIN citationByIndex
                 /\ slots[q].citationID = citationByIndex[q].citationID
           /\ DOMAIN citationByIndex \subseteq DOMAIN slots \ {p}
           /\ processCitationCluster(cites, slots, p)
    BY <1>1a
  <1>2. Complete(ListOf(cites, slots, p)) =>
           \A q \in DOMAIN slots \ {p} : slots[q].citationID \in IDs(document)
    BY <1>1, AppendedKnown
  <1>3. QED
    BY <1>1, <1>2, SubmissionKeepsState

\* The registry's own list, which previews give updateItems.
LEMMA OwnItems ==
    ASSUME bibliography \in Seq([id : Item, suffix : Int]),
           Registry!updateItems([q \in DOMAIN bibliography |-> bibliography[q].id], FALSE)
    PROVE  Registered(bibliography', {bibliography[m].id : m \in DOMAIN bibliography})
  <1> DEFINE ids == [q \in DOMAIN bibliography |-> bibliography[q].id]
             R == [id : Item, suffix : Int]
  <1>1. \A e \in R : e.id \in Item
    OBVIOUS
  <1>2. bibliography \in Seq(R)
    OBVIOUS
  <1> HIDE DEF R
  <1>3. /\ DOMAIN bibliography = 1 .. Len(bibliography) /\ Len(bibliography) \in Nat
        /\ \A m \in DOMAIN bibliography : bibliography[m].id \in Item
    BY <1>1, <1>2
  <1>4. ids \in [1 .. Len(bibliography) -> Item]
    BY <1>3
  <1>5. ids \in Seq(Item)
    BY <1>3, <1>4, TypedSequence
  <1>6. Registry!Listed(ids) = {bibliography[m].id : m \in DOMAIN bibliography}
    BY DEF Registry!Listed
  <1>7. Registry!updateItems(ids, FALSE)
    OBVIOUS
  <1> HIDE DEF ids
  <1>8. Registered(bibliography', Registry!Listed(ids))
    BY <1>5, <1>7, UpdatedIsRegistered
  <1>9. QED
    BY <1>6, <1>8

\* After a preview the processor's list differs in note indexes alone.
LEMMA PreviewRestores ==
    ASSUME StateInv, NEW byId, NEW list, NEW cites, NEW slots, NEW p, NEW others,
           Made(byId, list, cites, slots, p), Complete(list),
           others = IDs(list) \ {slots[p].citationID},
           citationByIndex' = [q \in DOMAIN citationByIndex |->
              IF citationByIndex[q].citationID \in others
              THEN OfID(list, citationByIndex[q].citationID)
              ELSE citationByIndex[q]]
    PROVE  /\ citationByIndex' \in Seq(Citations) /\ Distinct(citationByIndex')
           /\ DOMAIN citationByIndex' = DOMAIN citationByIndex
           /\ IDs(citationByIndex') = IDs(citationByIndex)
           /\ \A q \in DOMAIN citationByIndex :
                 /\ citationByIndex'[q].citationID = citationByIndex[q].citationID
                 /\ citationByIndex'[q].sortedItems = citationByIndex[q].sortedItems
  <1>1. /\ citationByIndex \in Seq(Citations) /\ Distinct(citationByIndex)
        /\ \A q \in DOMAIN citationByIndex :
              /\ citationByIndex[q] \in Citations
              /\ \/ citationById[citationByIndex[q].citationID] = citationByIndex[q]
                 \/ citationById[citationByIndex[q].citationID].sortedItems = Undefined
    BY StateFacts
  <1>2. DOMAIN citationByIndex = 1 .. Len(citationByIndex) /\ Len(citationByIndex) \in Nat
    BY <1>1
  <1>3. ASSUME NEW q \in DOMAIN citationByIndex
        PROVE  /\ citationByIndex'[q] \in Citations
               /\ citationByIndex'[q].citationID = citationByIndex[q].citationID
               /\ citationByIndex'[q].sortedItems = citationByIndex[q].sortedItems
    <2>1. CASE citationByIndex[q].citationID \in others
      <3>1. PICK r \in DOMAIN list : list[r].citationID = citationByIndex[q].citationID
        BY <2>1 DEF IDs
      <3>2. Distinct(list) /\ list \in Seq(Citations) /\ DOMAIN list = DOMAIN slots
            /\ list[r].citationID = slots[r].citationID
            /\ (r # p => list[r].sortedItems = citationById[slots[r].citationID].sortedItems)
        BY DEF Made
      <3>3. OfID(list, list[r].citationID) = list[r]
        BY <3>2, FoundByID
      <3>3a. citationByIndex'[q] = OfID(list, citationByIndex[q].citationID)
        BY <2>1, Zenon
      <3>3b. list[r] \in Citations
        BY <3>2
      <3>4. citationByIndex'[q] = list[r] /\ list[r] \in Citations
        BY <3>1, <3>3, <3>3a, <3>3b, Zenon
      <3>5. r # p
        BY <2>1, <3>1, <3>2
      <3>6. list[r].sortedItems # Undefined
        BY DEF Complete
      <3>7. citationById[citationByIndex[q].citationID].sortedItems = citationByIndex[q].sortedItems
        BY <1>1, <3>1, <3>2, <3>5, <3>6
      <3>8. QED
        BY <3>1, <3>2, <3>4, <3>5, <3>7
    <2>2. CASE citationByIndex[q].citationID \notin others
      BY <1>1, <2>2
    <2>3. QED
      BY <2>1, <2>2
  <1>4. DOMAIN citationByIndex' = DOMAIN citationByIndex
    OBVIOUS
  <1>5. citationByIndex' \in Seq(Citations)
    <2>1. citationByIndex' = [q \in DOMAIN citationByIndex |-> citationByIndex'[q]]
      OBVIOUS
    <2>2. citationByIndex' \in [1 .. Len(citationByIndex) -> Citations]
      BY <1>2, <1>3, <2>1, Zenon
    <2>3. QED
      BY <1>2, <2>2, TypedSequence
  <1>6. Distinct(citationByIndex') /\ IDs(citationByIndex') = IDs(citationByIndex)
    BY <1>1, <1>3, <1>4 DEF Distinct, IDs
  <1>7. QED
    BY <1>3, <1>4, <1>5, <1>6

\* The first table after a preview: what the second one holds.
LEMMA PreviewTable ==
    ASSUME NEW list \in Seq(Citations), Distinct(list), NEW byId,
           byId = [id \in IDs(list) |-> OfID(list, id)]
    PROVE  /\ Known(byId)
           /\ DOMAIN byId = IDs(list)
           /\ \A q \in DOMAIN list : byId[list[q].citationID] = list[q]
  <1>1. \A q \in DOMAIN list : list[q] \in Citations
    OBVIOUS
  <1>2. ASSUME NEW q \in DOMAIN list
        PROVE  byId[list[q].citationID] = list[q]
    <2>1. list[q].citationID \in IDs(list)
      BY DEF IDs
    <2>2. QED
      BY <2>1, FoundByID
  <1>3. ASSUME NEW id \in IDs(list)
        PROVE  id \in CitationID /\ byId[id] \in Citations /\ byId[id].citationID = id
    <2>1. PICK q \in DOMAIN list : list[q].citationID = id
      BY DEF IDs
    <2>2. QED
      BY <1>1, <1>2, <2>1 DEF Citations
  <1>4. QED
    BY <1>2, <1>3 DEF Known

\* A preview that succeeds.
LEMMA PreviewStep ==
    ASSUME StateInv, NEW cites \in Clusters, NEW slots \in Layouts, NEW p \in DOMAIN slots,
           MaySubmit(slots, p), previewCitationCluster(cites, slots, p)
    PROVE  \/ /\ outcome' = "threw"
              /\ StateInv'
              /\ \/ FailToRetrieve(slots[p], cites)
                 \/ FailToPosition(ByIdOf(cites, slots, p), ListOf(cites, slots, p))
           \/ /\ outcome' = "previewed" /\ mode' = mode
              /\ citationByIndex' \in Seq(Citations) /\ Distinct(citationByIndex')
              /\ DOMAIN citationByIndex' = DOMAIN citationByIndex
              /\ IDs(citationByIndex') = IDs(citationByIndex)
              /\ \A q \in DOMAIN citationByIndex :
                    /\ citationByIndex'[q].citationID = citationByIndex[q].citationID
                    /\ citationByIndex'[q].sortedItems = citationByIndex[q].sortedItems
              /\ Known(citationById') /\ DOMAIN citationById' = IDs(citationByIndex)
              /\ \A q \in DOMAIN citationByIndex :
                    citationById'[citationByIndex[q].citationID] = citationByIndex'[q]
              /\ Registered(bibliography', {bibliography[m].id : m \in DOMAIN bibliography})
              /\ UNCHANGED document
  <1> DEFINE byId == ByIdOf(cites, slots, p)
             list == ListOf(cites, slots, p)
             others == IDs(list) \ {slots[p].citationID}
             restored == [q \in DOMAIN citationByIndex |->
                IF citationByIndex[q].citationID \in others
                THEN OfID(list, citationByIndex[q].citationID)
                ELSE citationByIndex[q]]
  <1>1. \/ FailToRetrieve(slots[p], cites) /\ mode' = PreviewMode
        \/ FailToPosition(byId, list) /\ mode' = PreviewMode
        \/ /\ Complete(list)
           /\ citationByIndex' = restored
           /\ citationById' = [id \in IDs(restored) |-> OfID(restored, id)]
           /\ Registry!updateItems([q \in DOMAIN bibliography |-> bibliography[q].id], FALSE)
           /\ mode' = mode
           /\ outcome' = "previewed"
           /\ UNCHANGED document
    BY Zenon DEF previewCitationCluster, ByIdOf, ListOf, FreshCites
  <1>2. Submission(slots, p)
    BY MaySubmitFacts
  <1>3. Made(byId, list, cites, slots, p)
    BY <1>2, StateFacts, SubmissionFacts
  <1> HIDE DEF byId, list
  <1>4. CASE FailToRetrieve(slots[p], cites) /\ mode' = PreviewMode
    <2>1. StateInv'
      BY <1>2, <1>4, RetrievalFails
    <2>2. QED
      BY <1>4, <2>1 DEF FailToRetrieve
  <1>5. CASE FailToPosition(byId, list) /\ mode' = PreviewMode
    <2>1. Known(byId) /\ list \in Seq(Citations) /\ Distinct(list) /\ IDs(list) \subseteq DOMAIN byId
      BY <1>3 DEF Made
    <2>2. StateInv'
      BY <1>5, <2>1, PositioningFails
    <2>3. QED
      BY <1>5, <2>2 DEF FailToPosition, byId, list
  <1>6. CASE /\ Complete(list)
             /\ citationByIndex' = restored
             /\ citationById' = [id \in IDs(restored) |-> OfID(restored, id)]
             /\ Registry!updateItems([q \in DOMAIN bibliography |-> bibliography[q].id], FALSE)
             /\ mode' = mode
             /\ outcome' = "previewed"
             /\ UNCHANGED document
    <2>1. /\ citationByIndex' \in Seq(Citations) /\ Distinct(citationByIndex')
          /\ DOMAIN citationByIndex' = DOMAIN citationByIndex
          /\ IDs(citationByIndex') = IDs(citationByIndex)
          /\ \A q \in DOMAIN citationByIndex :
                /\ citationByIndex'[q].citationID = citationByIndex[q].citationID
                /\ citationByIndex'[q].sortedItems = citationByIndex[q].sortedItems
      BY <1>3, <1>6, PreviewRestores
    <2>2. citationById' = [id \in IDs(citationByIndex') |-> OfID(citationByIndex', id)]
      BY <1>6
    <2>3. /\ Known(citationById') /\ DOMAIN citationById' = IDs(citationByIndex')
          /\ \A q \in DOMAIN citationByIndex' :
                citationById'[citationByIndex'[q].citationID] = citationByIndex'[q]
      BY <2>1, <2>2, PreviewTable
    <2>4. Registered(bibliography', {bibliography[m].id : m \in DOMAIN bibliography})
      BY <1>6, OwnItems DEF StateInv
    <2>5. QED
      BY <1>6, <2>1, <2>3, <2>4
  <1>7. QED
    BY <1>1, <1>4, <1>5, <1>6

LEMMA PreviewKeepsState ==
    ASSUME StateInv, PreviewCitationCluster
    PROVE  StateInv' /\ outcome' # "returned"
  <1>1. PICK cites \in Clusters, slots \in Layouts : \E p \in DOMAIN slots :
           MaySubmit(slots, p) /\ previewCitationCluster(cites, slots, p)
    BY DEF PreviewCitationCluster
  <1>2. PICK p \in DOMAIN slots : MaySubmit(slots, p) /\ previewCitationCluster(cites, slots, p)
    BY <1>1
  <1>3. CASE outcome' = "threw" /\ StateInv'
    BY <1>3
  <1>4. CASE /\ outcome' = "previewed" /\ mode' = mode
             /\ citationByIndex' \in Seq(Citations) /\ Distinct(citationByIndex')
             /\ DOMAIN citationByIndex' = DOMAIN citationByIndex
             /\ IDs(citationByIndex') = IDs(citationByIndex)
             /\ \A q \in DOMAIN citationByIndex :
                   /\ citationByIndex'[q].citationID = citationByIndex[q].citationID
                   /\ citationByIndex'[q].sortedItems = citationByIndex[q].sortedItems
             /\ Known(citationById') /\ DOMAIN citationById' = IDs(citationByIndex)
             /\ \A q \in DOMAIN citationByIndex :
                   citationById'[citationByIndex[q].citationID] = citationByIndex'[q]
             /\ Registered(bibliography', {bibliography[m].id : m \in DOMAIN bibliography})
             /\ UNCHANGED document
    <2>1. bibliography' \in Seq([id : Item, suffix : Int])
      BY <1>4 DEF Registered, Holds
    <2>2. \A q \in DOMAIN citationByIndex' :
             /\ citationByIndex'[q].citationID \in DOMAIN citationById'
             /\ citationById'[citationByIndex'[q].citationID] = citationByIndex'[q]
      BY <1>4 DEF IDs
    <2>3. Complete(citationByIndex') => Complete(citationByIndex)
      BY <1>4 DEF Complete
    <2>4. Typed(document') /\ mode' \in {Mode, PreviewMode}
      BY <1>4, StateFacts DEF StateInv, TypeOK
    <2>5. Complete(citationByIndex') => IDs(citationByIndex') \subseteq IDs(document')
      BY <1>4, <2>3 DEF StateInv
    <2>6. StateInv'
      BY <1>4, <2>1, <2>2, <2>4, <2>5, StateFrom
    <2>7. QED
      BY <1>4, <2>6
  <1>5. QED
    BY <1>2, <1>3, <1>4, PreviewStep

\* The list a restored processor starts from: the caller's texts, at the places
\* the caller has them now.
Saved(slots, source) ==
    [q \in DOMAIN slots |->
        setCitationId(slots[q], OfID(document, source[slots[q].citationID]).text.cites)]

LEMMA SavedFacts ==
    ASSUME Typed(document), NEW slots \in Layouts, NEW source \in [IDs(slots) -> IDs(document)]
    PROVE  /\ Saved(slots, source) \in Seq(Whole) /\ Distinct(Saved(slots, source))
           /\ DOMAIN Saved(slots, source) = DOMAIN slots
           /\ IDs(Saved(slots, source)) = IDs(slots)
           /\ \A q \in DOMAIN slots :
                 /\ Saved(slots, source)[q].citationID = slots[q].citationID
                 /\ \E r \in DOMAIN document :
                       /\ document[r].citationID = source[slots[q].citationID]
                       /\ OfID(document, source[slots[q].citationID]) = document[r]
                       /\ Saved(slots, source)[q].sortedItems = document[r].text.cites
  <1> DEFINE list == Saved(slots, source)
  <1>1. /\ slots \in Seq(SlotSet) /\ Distinct(slots)
        /\ DOMAIN slots = 1 .. Len(slots) /\ Len(slots) \in Nat
    BY LayoutFacts
  <1>2. ASSUME NEW q \in DOMAIN slots
        PROVE  /\ list[q] \in Whole
               /\ list[q].citationID = slots[q].citationID
               /\ \E r \in DOMAIN document :
                     /\ document[r].citationID = source[slots[q].citationID]
                     /\ OfID(document, source[slots[q].citationID]) = document[r]
                     /\ list[q].sortedItems = document[r].text.cites
    <2>1. slots[q].citationID \in IDs(slots)
      BY DEF IDs
    <2>2. source[slots[q].citationID] \in IDs(document)
      BY <2>1
    <2>3. PICK r \in DOMAIN document : document[r].citationID = source[slots[q].citationID]
      BY <2>2 DEF IDs
    <2>4. document[r].text \in TextSet /\ OfID(document, source[slots[q].citationID]) = document[r]
      BY <2>3, TextsFacts
    <2>5. list[q] = [citationID |-> slots[q].citationID, noteIndex |-> slots[q].noteIndex,
                     sortedItems |-> document[r].text.cites]
      BY <2>4 DEF Saved, setCitationId
    <2>6. slots[q].citationID \in CitationID /\ slots[q].noteIndex \in Nat
          /\ document[r].text.cites \in Seq(Cites)
      <3>1. slots[q] \in SlotSet
        BY <1>1
      <3>2. QED
        BY <2>4, <3>1 DEF SlotSet, TextSet
    <2> HIDE DEF list
    <2>7. QED
      BY <2>3, <2>4, <2>5, <2>6 DEF Whole
  <1>3. DOMAIN list = DOMAIN slots
    BY DEF Saved
  <1>4. list \in Seq(Whole)
    <2>1. list = [q \in DOMAIN slots |-> list[q]]
      BY DEF Saved
    <2> HIDE DEF list
    <2>2. list \in [1 .. Len(slots) -> Whole]
      BY <1>1, <1>2, <2>1
    <2>3. QED
      BY <1>1, <2>2, TypedSequence
  <1>5. Distinct(list) /\ IDs(list) = IDs(slots)
    BY <1>1, <1>2, <1>3 DEF Distinct, IDs
  <1>6. QED
    BY <1>2, <1>3, <1>4, <1>5

LEMMA RestartStep ==
    ASSUME StateInv, Restart
    PROVE  \E slots \in Layouts : \E source \in [IDs(slots) -> IDs(document)] :
              /\ IDs(document) \subseteq IDs(slots)
              /\ \A id \in IDs(document) : source[id] = id
              /\ mode' = Mode
              /\ Render([id \in IDs(slots) |-> OfID(Saved(slots, source), id)],
                        Saved(slots, source), 1, bibliography',
                        [id \in IDs(slots) |-> OfID(document, source[id]).text])
  BY Zenon DEF Restart, restoreProcessorState, Saved

LEMMA RestartKeepsState ==
    ASSUME StateInv, Restart
    PROVE  StateInv' /\ BackreferencesResolve'
  <1>1. PICK slots \in Layouts : \E source \in [IDs(slots) -> IDs(document)] :
           /\ mode' = Mode
           /\ Render([id \in IDs(slots) |-> OfID(Saved(slots, source), id)],
                     Saved(slots, source), 1, bibliography',
                     [id \in IDs(slots) |-> OfID(document, source[id]).text])
    BY RestartStep
  <1>2. PICK source \in [IDs(slots) -> IDs(document)] :
           /\ mode' = Mode
           /\ Render([id \in IDs(slots) |-> OfID(Saved(slots, source), id)],
                     Saved(slots, source), 1, bibliography',
                     [id \in IDs(slots) |-> OfID(document, source[id]).text])
    BY <1>1
  <1> DEFINE list == Saved(slots, source)
             byId == [id \in IDs(slots) |-> OfID(list, id)]
             saved == [id \in IDs(slots) |-> OfID(document, source[id]).text]
  <1>3. /\ list \in Seq(Whole) /\ Distinct(list) /\ DOMAIN list = DOMAIN slots
        /\ IDs(list) = IDs(slots)
        /\ \A q \in DOMAIN slots :
              /\ list[q].citationID = slots[q].citationID
              /\ \E r \in DOMAIN document :
                    /\ document[r].citationID = source[slots[q].citationID]
                    /\ OfID(document, source[slots[q].citationID]) = document[r]
    BY StateFacts, SavedFacts
  <1>4. Known(byId) /\ DOMAIN byId = IDs(list)
    <2>1. list \in Seq(Citations) /\ byId = [id \in IDs(list) |-> OfID(list, id)]
      BY <1>3, WholeIsListed
    <2> HIDE DEF list, byId
    <2>2. QED
      BY <1>3, <2>1, PreviewTable
  <1>5. ASSUME NEW q \in DOMAIN list
        PROVE  saved[list[q].citationID] \in TextSet
    <2>1. list[q].citationID \in IDs(slots)
      BY <1>3 DEF IDs
    <2>2. PICK r \in DOMAIN document : saved[list[q].citationID] = document[r].text
      BY <1>3, <2>1
    <2>3. QED
      BY <2>2, StateFacts, TextsFacts
  <1>6. 1 \in DOMAIN list
    BY <1>3, LayoutFacts
  <1>7. Render(byId, list, 1, bibliography', saved) /\ mode' \in {Mode, PreviewMode}
    BY <1>2
  <1> HIDE DEF list, byId, saved
  <1>8. QED
    BY <1>3, <1>4, <1>5, <1>6, <1>7, RenderKeepsState

LEMMA InitialState ==
    ASSUME Init
    PROVE  StateInv /\ BackreferencesResolve
  <1>1. /\ citationById = <<>> /\ citationByIndex = <<>> /\ bibliography = <<>>
        /\ mode = Mode /\ outcome = "none" /\ document = <<>>
    BY DEF Init
  <1>2. DOMAIN <<>> = {} /\ \A R : <<>> \in Seq(R)
    OBVIOUS
  <1>3. TypeOK
    BY <1>1, <1>2 DEF TypeOK
  <1>4. TablesAgree /\ Distinct(document) /\ IDs(citationByIndex) = {}
    BY <1>1, <1>2 DEF TablesAgree, Distinct, IDs
  <1>5. BackreferencesResolve
    BY <1>1 DEF BackreferencesResolve
  <1>6. QED
    BY <1>1, <1>2, <1>3, <1>4, <1>5 DEF StateInv

LEMMA StepKeepsState ==
    ASSUME StateInv, [Next]_vars
    PROVE  StateInv' /\ (BackreferencesResolve => BackreferencesResolve')
  <1>1. CASE ProcessCitationCluster
    BY <1>1, ProcessKeepsState DEF BackreferencesResolve
  <1>2. CASE AppendCitationCluster
    BY <1>2, AppendKeepsState DEF BackreferencesResolve
  <1>3. CASE PreviewCitationCluster
    BY <1>3, PreviewKeepsState DEF BackreferencesResolve
  <1>4. CASE Restart
    BY <1>4, RestartKeepsState
  <1>5. CASE UNCHANGED vars
    <2>1. StateInv'
      <3>1. /\ citationById' = citationById /\ citationByIndex' = citationByIndex
            /\ bibliography' = bibliography /\ mode' = mode /\ outcome' = outcome
            /\ document' = document
        BY <1>5 DEF vars
      <3>2. /\ mode \in {Mode, PreviewMode}
            /\ outcome \in {"none", "returned", "threw", "previewed"}
            /\ bibliography \in Seq([id : Item, suffix : Int])
            /\ Complete(citationByIndex) => IDs(citationByIndex) \subseteq IDs(document)
        BY DEF StateInv, TypeOK
      <3>3. QED
        BY <3>1, <3>2, StateFacts, StateFrom
    <2>2. BackreferencesResolve => BackreferencesResolve'
      BY <1>5 DEF vars, BackreferencesResolve
    <2>3. QED
      BY <2>1, <2>2
  <1>6. QED
    BY <1>1, <1>2, <1>3, <1>4, <1>5 DEF Next

\* Whatever is submitted, appended, previewed, restored or thrown: citationById
\* and citationByIndex hold citations under their ids and agree, the caller's
\* document has an id once, and it has a text of every citation in the list
\* unless a throw left that list with a citation nothing is known of.
THEOREM StateInvariant == Spec => []StateInv
  <1>1. Init => StateInv
    BY InitialState
  <1>2. StateInv /\ [Next]_vars => StateInv'
    BY StepKeepsState
  <1>3. QED
    BY <1>1, <1>2, PTL DEF Spec

\* Type correctness of the tables and of the caller's document.
THEOREM TypesHold == Spec => []TypeOK
  <1>1. StateInv => TypeOK
    BY DEF StateInv
  <1>2. QED
    BY <1>1, StateInvariant, PTL

\* The table that position evaluation reads and the one that rendering reads
\* hold the same citations, but for one whose items could not be retrieved:
\* across previews, throws of retrieveItem, throws on citations that failed
\* before, appends and restarts.
THEOREM OneCitationPerID == Spec => []TablesAgree
  <1>1. StateInv => TablesAgree
    BY DEF StateInv
  <1>2. QED
    BY <1>1, StateInvariant, PTL

\* "n. 3" leads to a note 3 that has a first cite of the item, in every style,
\* whether or when it sorts the cites of a citation.
THEOREM BackreferencesHold == Spec => []BackreferencesResolve
  <1>1. Init => StateInv /\ BackreferencesResolve
    BY InitialState
  <1>2. (StateInv /\ BackreferencesResolve) /\ [Next]_vars => (StateInv /\ BackreferencesResolve)'
    BY StepKeepsState
  <1>3. QED
    BY <1>1, <1>2, PTL DEF Spec

-----------------------------------------------------------------------------
(***************************************************************************)
(* Proof that the texts in the caller's document are those its citations   *)
(* render to: a call returns every text it changed.                        *)
(***************************************************************************)

(* Suffixes that only depend on which items are cited. *)

\* Items that look alike have different sort keys.  Without this a suffix
\* depends on the order of the citations, and a restored processor gives new
\* suffixes that it does not report.
LookAlikesApart ==
    \A i, j \in Item : i # j /\ Cite[i] = Cite[j] => SortKey[i] # SortKey[j]

LEMMA PlaceType ==
    ASSUME NEW ids \in Seq(Item), NEW i \in Registry!Listed(ids)
    PROVE  Registry!Place(ids, i) \in Nat
  <1> DEFINE S == {m \in DOMAIN ids : ids[m] = i}
  <1>1. DOMAIN ids = 1 .. Len(ids) /\ Len(ids) \in Nat
    OBVIOUS
  <1>2. S \in SUBSET (1 .. Len(ids)) /\ S # {}
    BY <1>1 DEF Registry!Listed
  <1>3. Max(S) \in S /\ \A y \in S : Max(S) >= y
    <2> HIDE DEF S
    <2>1. QED
      BY <1>1, <1>2, MaxOfPlaces
  <1>4. PICK m \in DOMAIN ids : ids[m] = i /\ \A q \in DOMAIN ids : ids[q] = i => m >= q
    BY <1>3
  <1>5. \A q \in DOMAIN ids : ids[q] = i => q <= m
    BY <1>1, <1>4
  <1>6. \E x \in DOMAIN ids : ids[x] = i /\ \A q \in DOMAIN ids : ids[q] = i => q <= x
    BY <1>4, <1>5
  <1>7. Registry!Place(ids, i) \in DOMAIN ids
    BY <1>6 DEF Registry!Place
  <1>8. QED
    BY <1>1, <1>7

LEMMA PrecedesAgrees ==
    ASSUME LookAlikesApart, NEW ids \in Seq(Item), NEW other \in Seq(Item),
           NEW i \in Registry!Listed(ids) \cap Registry!Listed(other),
           NEW j \in Registry!Listed(ids) \cap Registry!Listed(other), Cite[j] = Cite[i]
    PROVE  Registry!Precedes(ids, j, i) <=> Registry!Precedes(other, j, i)
  <1>1. i \in Item /\ j \in Item
    <2>1. \A m \in DOMAIN ids : ids[m] \in Item
      OBVIOUS
    <2>2. QED
      BY <2>1 DEF Registry!Listed
  <1>2. CASE i = j
    <2>1. Registry!Place(ids, i) \in Nat /\ Registry!Place(other, i) \in Nat
      BY PlaceType
    <2>2. ~(Registry!Place(ids, i) < Registry!Place(ids, i))
          /\ ~(Registry!Place(other, i) < Registry!Place(other, i))
      BY <2>1
    <2>3. QED
      BY <1>2, <2>2 DEF Registry!Precedes
  <1>3. CASE i # j
    <2>1. SortKey[j] # SortKey[i]
      BY <1>1, <1>3 DEF LookAlikesApart
    <2>2. QED
      BY <2>1, Zenon DEF Registry!Precedes
  <1>4. QED
    BY <1>2, <1>3

\* An item has the same suffix in two lists that hold the same look-alikes of it.
LEMMA SuffixAgrees ==
    ASSUME LookAlikesApart, NEW ids \in Seq(Item), NEW other \in Seq(Item),
           NEW i \in Registry!Listed(ids) \cap Registry!Listed(other),
           {j \in Registry!Listed(ids) : Cite[j] = Cite[i]} =
              {j \in Registry!Listed(other) : Cite[j] = Cite[i]}
    PROVE  Registry!Suffix(ids, i) = Registry!Suffix(other, i)
  <1> DEFINE alike == {j \in Registry!Listed(ids) : Cite[j] = Cite[i]}
  <1>1. {j \in alike : Registry!Precedes(ids, j, i)} = {j \in alike : Registry!Precedes(other, j, i)}
    <2>1. \A j \in alike : j \in Registry!Listed(ids) \cap Registry!Listed(other)
                            /\ Cite[j] = Cite[i]
      OBVIOUS
    <2>2. QED
      BY <2>1, PrecedesAgrees
  <1>2. alike = {j \in Registry!Listed(other) : Cite[j] = Cite[i]}
    OBVIOUS
  <1>3. QED
    BY <1>1, <1>2, Zenon DEF Registry!Suffix

LEMMA SameSuffixes ==
    ASSUME LookAlikesApart, NEW S, NEW a, NEW b, Registered(a, S), Registered(b, S)
    PROVE  DOMAIN SuffixOf(a) = S /\ DOMAIN SuffixOf(b) = S
           /\ \A i \in S : SuffixOf(a)[i] = SuffixOf(b)[i]
  <1>1. PICK ids \in Seq(Item) :
           /\ Registry!Listed(ids) = S
           /\ \A m \in DOMAIN a : a[m].suffix = Registry!Suffix(ids, a[m].id)
    BY DEF Registered
  <1>2. PICK other \in Seq(Item) :
           /\ Registry!Listed(other) = S
           /\ \A m \in DOMAIN b : b[m].suffix = Registry!Suffix(other, b[m].id)
    BY DEF Registered
  <1>3. Holds(a, S) /\ Holds(b, S)
    BY DEF Registered
  <1>4. ASSUME NEW i \in S
        PROVE  SuffixOf(a)[i] = SuffixOf(b)[i]
    <2>1. SuffixOf(a)[i] = Registry!Suffix(ids, i)
      BY <1>1, <1>3, SuffixOfFacts
    <2>2. SuffixOf(b)[i] = Registry!Suffix(other, i)
      BY <1>2, <1>3, SuffixOfFacts
    <2>3. Registry!Suffix(ids, i) = Registry!Suffix(other, i)
      <3>1. {j \in Registry!Listed(ids) : Cite[j] = Cite[i]} =
               {j \in Registry!Listed(other) : Cite[j] = Cite[i]}
        BY <1>1, <1>2
      <3>2. QED
        BY <1>1, <1>2, <3>1, SuffixAgrees
    <2>4. QED
      BY <2>1, <2>2, <2>3
  <1>5. QED
    BY <1>3, <1>4, SuffixOfFacts

-----------------------------------------------------------------------------
(* The changes of suffixes that a call returns. *)

\* No three registered items look alike.
PairsIn(entries) ==
    \A i, j, k \in Ids(entries) :
        Cite[i] = Cite[j] /\ Cite[j] = Cite[k] => i = j \/ j = k \/ i = k

\* The call takes items out of one class of look-alikes at most.
OneClassLoses(old, new) ==
    \A i, j \in Refreshed(old, new) : Cite[i] = Cite[j]

\* What the processor needs to report every change of a suffix.  In a class of
\* three or more, disambigYearSuffix compares the suffixes of only two members;
\* and of all the items whose pools lost a member, the registry taints one.
InPairs(old, new) == PairsIn(old) /\ PairsIn(new) /\ OneClassLoses(old, new)

ReportedOrSame(old, new, i) ==
    \/ \A items \in TaintedItems(old, new) : i \in items
    \/ SuffixOf(old)[i] = SuffixOf(new)[i]

LEMMA RegisteredItems ==
    ASSUME NEW S, NEW entries, Registered(entries, S)
    PROVE  Ids(entries) = S
  BY DEF Registered, Holds, Ids

\* An item that stays, and that lost a look-alike, is the one that is tainted.
LEMMA RefreshedIsTainted ==
    ASSUME NEW old, NEW new, InPairs(old, new), NEW i \in Refreshed(old, new),
           NEW items \in TaintedItems(old, new)
    PROVE  i \in items
  <1>1. PICK first \in Refreshed(old, new) : items = Resuffixed(old, new) \cup {first}
    BY DEF TaintedItems
  <1>2. /\ i \in Ids(old) /\ first \in Ids(old)
        /\ i \in Ids(new) /\ first \in Ids(new)
        /\ Cite[i] = Cite[first]
    BY DEF InPairs, OneClassLoses, Refreshed
  <1>3. PICK gone \in Ids(old) \ Ids(new) : Cite[gone] = Cite[i]
    BY DEF Refreshed
  <1>4. i = first
    BY <1>2, <1>3 DEF InPairs, PairsIn
  <1>5. QED
    BY <1>1, <1>4

LEMMA TwoItems ==
    ASSUME NEW i, NEW j, i # j
    PROVE  IsFiniteSet({i, j}) /\ Cardinality({i, j}) = 2
  <1>1. IsFiniteSet({i}) /\ Cardinality({i}) = 1
    BY FS_Singleton, Zenon
  <1>2. j \notin {i}
    OBVIOUS
  <1>3. IsFiniteSet({i} \cup {j}) /\ Cardinality({i} \cup {j}) = Cardinality({i}) + 1
    <2> DEFINE S == {i}
    <2> HIDE DEF S
    <2>1. IsFiniteSet(S) /\ j \notin S
      BY <1>1, <1>2 DEF S
    <2>2. IsFiniteSet(S \cup {j}) /\ Cardinality(S \cup {j}) = Cardinality(S) + 1
      BY <2>1, FS_AddElement
    <2>3. QED
      BY <2>2 DEF S
  <1>4. {i, j} = {i} \cup {j}
    OBVIOUS
  <1>5. QED
    BY <1>1, <1>3, <1>4

\* An item that was alone is tainted when another item that looks like it comes.
LEMMA JoinedIsTainted ==
    ASSUME NEW old, NEW new, PairsIn(new),
           NEW i \in (Ids(old) \cap Ids(new)) \ Refreshed(old, new),
           SuffixOf(old)[i] = Registry!NoSuffix,
           NEW j \in Ids(new) \ Ids(old), Cite[j] = Cite[i],
           NEW items \in TaintedItems(old, new)
    PROVE  i \in items
  <1>1. Alike(new, i) = {i, j} /\ i # j
    BY DEF Alike, PairsIn
  <1>2. Cardinality({i, j}) = 2 /\ IsFiniteSet({i, j})
    BY <1>1, TwoItems
  <1>3. Cardinality({k \in Alike(new, i) : k < i}) \in Nat
    <2>1. IsFiniteSet({i, j})
      BY <1>2
    <2>2. {k \in Alike(new, i) : k < i} \in SUBSET {i, j}
      BY <1>1
    <2>3. QED
      BY <2>1, <2>2, FS_Subset, FS_CardinalityType
  <1>4. Held(old, new, i) = -1
    BY DEF Held, Registry!NoSuffix
  <1>5. TestsTaints(old, new, Alike(new, i)) /\ Cardinality(Alike(new, i)) = 2
    BY <1>1, <1>2 DEF TestsTaints
  <1>6. Held(old, new, i) # Cardinality({k \in Alike(new, i) : k < i})
    BY <1>3, <1>4
  <1>7. \E k \in Alike(new, i) : k \notin Ids(old) \/ k \in Refreshed(old, new)
    BY <1>1
  <1>8. i \in Resuffixed(old, new)
    BY <1>5, <1>6, <1>7 DEF Resuffixed
  <1>9. QED
    BY <1>8 DEF TaintedItems

\* An item whose look-alikes are the same before and after keeps its suffix; and
\* with at most two of a kind, an item whose suffix changes is tainted.
LEMMA ChangesAreTainted ==
    ASSUME LookAlikesApart, NEW S, NEW T, NEW old, NEW new,
           Registered(old, S), Registered(new, T), InPairs(old, new), NEW i \in S \cap T
    PROVE  ReportedOrSame(old, new, i)
  <1> USE DEF ReportedOrSame
  <1>1. Ids(old) = S /\ Ids(new) = T
    BY RegisteredItems
  <1>2. PICK ids \in Seq(Item) :
           /\ Registry!Listed(ids) = S
           /\ \A m \in DOMAIN old : old[m].suffix = Registry!Suffix(ids, old[m].id)
    BY DEF Registered
  <1>3. PICK other \in Seq(Item) :
           /\ Registry!Listed(other) = T
           /\ \A m \in DOMAIN new : new[m].suffix = Registry!Suffix(other, new[m].id)
    BY DEF Registered
  <1>4. Holds(old, S) /\ Holds(new, T)
    BY DEF Registered
  <1>5. SuffixOf(old)[i] = Registry!Suffix(ids, i) /\ SuffixOf(new)[i] = Registry!Suffix(other, i)
    BY <1>2, <1>3, <1>4, SuffixOfFacts
  <1>6. CASE i \in Refreshed(old, new)
    BY <1>6, RefreshedIsTainted
  <1>7. CASE i \notin Refreshed(old, new)
    <2>1. \A j \in S : Cite[j] = Cite[i] => j \in T
      BY <1>1, <1>7 DEF Refreshed
    <2>2. CASE \A j \in T : Cite[j] = Cite[i] => j \in S
      <3>1. {j \in S : Cite[j] = Cite[i]} = {j \in T : Cite[j] = Cite[i]}
        BY <2>1, <2>2
      <3>2. Registry!Suffix(ids, i) = Registry!Suffix(other, i)
        BY <1>2, <1>3, <3>1, SuffixAgrees
      <3>3. QED
        BY <1>5, <3>2
    <2>3. CASE \E j \in T : Cite[j] = Cite[i] /\ j \notin S
      <3>1. PICK j \in T : Cite[j] = Cite[i] /\ j \notin S
        BY <2>3
      <3>2. {k \in Registry!Listed(ids) : Cite[k] = Cite[i]} = {i}
        BY <1>1, <1>2, <2>1, <3>1 DEF InPairs, PairsIn
      <3>3. Registry!Suffix(ids, i) = Registry!NoSuffix
        BY <3>2, Zenon DEF Registry!Suffix
      <3>4. QED
        BY <1>1, <1>5, <1>7, <3>1, <3>3, JoinedIsTainted DEF InPairs
    <2>4. QED
      BY <2>2, <2>3
  <1>8. QED
    BY <1>6, <1>7

-----------------------------------------------------------------------------
(* A call that returns. *)

\* What a call may find of a citation that is in the document already: the
\* cites of its text, or cites that have not been positioned since.
Matches(found, cites) ==
    found = cites \/ \E k \in DOMAIN found : found[k].position = Undefined

\* A text that is not returned was, and is, what its citation renders to.
LEMMA RenderTexts ==
    ASSUME NEW byId, NEW list \in Seq(Whole), NEW p \in DOMAIN list, NEW old, NEW saved, NEW prev,
           \A q \in DOMAIN list \ {p} :
              /\ Matches(list[q].sortedItems, saved[list[q].citationID].cites)
              /\ saved[list[q].citationID] = Text(saved[list[q].citationID].cites, prev)
              /\ \A i \in ItemsOf(saved[list[q].citationID].cites) \cap Cited(list) :
                    \/ \A items \in TaintedItems(old, bibliography') : i \in items
                    \/ SuffixOf(prev)[i] = SuffixOf(bibliography')[i],
           Render(byId, list, p, old, saved)
    PROVE  \A q \in DOMAIN list :
              document'[q].text = Text(citationByIndex'[q].sortedItems, bibliography')
  <1>0. PICK items \in TaintedItems(old, bibliography') :
           \A q \in DOMAIN list : document'[q].text =
              IF q \in {p} \cup Tainted(list, citationByIndex', p, items)
              THEN Text(citationByIndex'[q].sortedItems, bibliography')
              ELSE saved[list[q].citationID]
    BY DEF Render
  <1> DEFINE returned == {p} \cup Tainted(list, citationByIndex', p, items)
  <1>1. SUFFICES ASSUME NEW q \in DOMAIN list
                 PROVE  document'[q].text = Text(citationByIndex'[q].sortedItems, bibliography')
    OBVIOUS
  <1>2. /\ q \in returned =>
              document'[q].text = Text(citationByIndex'[q].sortedItems, bibliography')
        /\ q \notin returned => document'[q].text = saved[list[q].citationID]
    BY <1>0
  <1>3. CASE q \in returned
    BY <1>2, <1>3
  <1>4. CASE q \notin returned
    <2> DEFINE cites == list[q].sortedItems
               text == saved[list[q].citationID]
    <2>1. /\ q # p /\ citationByIndex'[q].sortedItems = cites
          /\ \A c \in ToSet(cites) : c.id \notin items
      BY <1>4 DEF Tainted
    <2>2. PICK f \in SortOrders(list[p].sortedItems) : citationByIndex' = Positioned(list, p, f)
      BY DEF Render
    <2>3. cites = Evaluated(Sorted(list, p, f), q)
      BY <2>1, <2>2, PositionedFacts
    <2>4. ASSUME NEW k \in DOMAIN cites
          PROVE  cites[k].position # Undefined
      <3>1. Sorted(list, p, f) \in Seq(Whole) /\ DOMAIN Sorted(list, p, f) = DOMAIN list
        BY PositionedFacts
      <3>2. /\ DOMAIN Evaluated(Sorted(list, p, f), q) = DOMAIN Sorted(list, p, f)[q].sortedItems
            /\ \A l \in DOMAIN Sorted(list, p, f)[q].sortedItems :
                  Evaluated(Sorted(list, p, f), q)[l].position = Position(Sorted(list, p, f), q, l)
        BY <3>1, EvaluatedType
      <3>3. cites[k].position = Position(Sorted(list, p, f), q, k)
        BY <2>3, <3>2
      <3>4. Position(Sorted(list, p, f), q, k) \in Positions
        BY PositionType
      <3>5. QED
        BY <3>3, <3>4, ClusterAssumption
    <2>5. /\ Matches(cites, text.cites)
          /\ text = Text(text.cites, prev)
          /\ \A i \in ItemsOf(text.cites) \cap Cited(list) :
                i \in items \/ SuffixOf(prev)[i] = SuffixOf(bibliography')[i]
      BY <2>1
    <2> HIDE DEF cites, text, returned
    <2>6. text.cites = cites
      BY <2>4, <2>5 DEF Matches
    <2>7. ASSUME NEW k \in DOMAIN cites
          PROVE  SuffixOf(prev)[cites[k].id] = SuffixOf(bibliography')[cites[k].id]
      <3>1. cites[k].id \in ItemsOf(cites)
        BY DEF ItemsOf
      <3>2. cites[k].id \in Cited(list)
        BY <3>1 DEF Cited, cites
      <3>3. cites[k].id \notin items
        BY <2>1 DEF ToSet
      <3>4. QED
        BY <2>5, <2>6, <3>1, <3>2, <3>3
    <2>8. Text(cites, prev) = Text(cites, bibliography')
      BY <2>7 DEF Text
    <2>9. QED
      BY <1>2, <1>4, <2>1, <2>5, <2>6, <2>8 DEF text
  <1>5. QED
    BY <1>3, <1>4

\* The list a call leaves is the one it was given, sorted at its place and
\* positioned.
LEMMA RenderSorts ==
    ASSUME NEW byId, NEW list, NEW p, NEW old, NEW saved, Render(byId, list, p, old, saved)
    PROVE  \E f \in SortOrders(list[p].sortedItems) : citationByIndex' = Positioned(list, p, f)
  BY Zenon DEF Render

\* Unless cites are sorted after their positions are evaluated, every citation
\* of the list is left as it was evaluated.
LEMMA LeftAsEvaluated ==
    ASSUME NEW list \in Seq(Whole), NEW p \in DOMAIN list,
           NEW f \in SortOrders(list[p].sortedItems), SortedAt # "after positions"
    PROVE  /\ Sorted(list, p, f) \in Seq(Whole) /\ Positioned(list, p, f) \in Seq(Whole)
           /\ DOMAIN Sorted(list, p, f) = DOMAIN list /\ DOMAIN Positioned(list, p, f) = DOMAIN list
           /\ \A q \in DOMAIN list :
                 Positioned(list, p, f)[q].sortedItems = Evaluated(Sorted(list, p, f), q)
  <1>1. SortAfter(Evaluated(Sorted(list, p, f), p), f) = Evaluated(Sorted(list, p, f), p)
    BY Zenon DEF SortAfter
  <1>2. Positioned(list, p, f)[p].sortedItems = Evaluated(Sorted(list, p, f), p)
    BY <1>1, PositionedFacts, Zenon
  <1>3. \A q \in DOMAIN list \ {p} :
           Positioned(list, p, f)[q].sortedItems = Evaluated(Sorted(list, p, f), q)
    <2>1. \A q \in DOMAIN list :
             q # p => Positioned(list, p, f)[q].sortedItems = Evaluated(Sorted(list, p, f), q)
      BY PositionedFacts, Zenon
    <2>2. QED
      BY <2>1
  <1>4. /\ Sorted(list, p, f) \in Seq(Whole) /\ Positioned(list, p, f) \in Seq(Whole)
        /\ DOMAIN Sorted(list, p, f) = DOMAIN list /\ DOMAIN Positioned(list, p, f) = DOMAIN list
    BY PositionedFacts, Zenon
  <1>5. QED
    BY <1>2, <1>3, <1>4

\* Evaluating the processor's list once more changes nothing, unless cites are
\* sorted after their positions are evaluated.
LEMMA RenderIsPositioned ==
    ASSUME NEW byId, NEW list \in Seq(Whole), NEW p \in DOMAIN list, NEW old, NEW saved,
           SortedAt # "after positions", Render(byId, list, p, old, saved)
    PROVE  \A q \in DOMAIN list : Evaluated(citationByIndex', q) = citationByIndex'[q].sortedItems
  <1>1. PICK f \in SortOrders(list[p].sortedItems) : citationByIndex' = Positioned(list, p, f)
    BY DEF Render
  <1> DEFINE sorted == Sorted(list, p, f)
             new == Positioned(list, p, f)
  <1>2. /\ sorted \in Seq(Whole) /\ new \in Seq(Whole)
        /\ DOMAIN sorted = DOMAIN list /\ DOMAIN new = DOMAIN list
        /\ \A q \in DOMAIN list :
              /\ sorted[q].noteIndex = list[q].noteIndex
              /\ new[q].noteIndex = list[q].noteIndex
              /\ q # p => new[q].sortedItems = Evaluated(sorted, q)
        /\ new[p].sortedItems = SortAfter(Evaluated(sorted, p), f)
    BY PositionedFacts
  <1>3. SortAfter(Evaluated(sorted, p), f) = Evaluated(sorted, p)
    BY Zenon DEF SortAfter
  <1> HIDE DEF sorted, new
  <1>4. \A q \in DOMAIN list : new[q].sortedItems = Evaluated(sorted, q)
    BY <1>2, <1>3
  <1>5. ASSUME NEW q \in DOMAIN list
        PROVE  /\ sorted[q].noteIndex = new[q].noteIndex
               /\ Len(sorted[q].sortedItems) = Len(new[q].sortedItems)
               /\ DOMAIN sorted[q].sortedItems = DOMAIN new[q].sortedItems
               /\ \A k \in DOMAIN sorted[q].sortedItems :
                     /\ sorted[q].sortedItems[k].id = new[q].sortedItems[k].id
                     /\ sorted[q].sortedItems[k].locator = new[q].sortedItems[k].locator
    <2>1. /\ Len(Evaluated(sorted, q)) = Len(sorted[q].sortedItems)
          /\ DOMAIN Evaluated(sorted, q) = DOMAIN sorted[q].sortedItems
          /\ \A k \in DOMAIN sorted[q].sortedItems :
                /\ Evaluated(sorted, q)[k].id = sorted[q].sortedItems[k].id
                /\ Evaluated(sorted, q)[k].locator = sorted[q].sortedItems[k].locator
      <3>1. sorted \in Seq(Whole) /\ q \in DOMAIN sorted
        BY <1>2
      <3>2. QED
        BY <3>1, EvaluatedType
    <2>2. QED
      BY <1>2, <1>4, <2>1
  <1>6. SameCites(sorted, new)
    BY <1>2, <1>5 DEF SameCites
  <1>7. \A q \in DOMAIN list : Evaluated(sorted, q) = Evaluated(new, q)
    BY <1>2, <1>6, EvaluationAgrees
  <1>8. QED
    BY <1>1, <1>4, <1>7 DEF new

-----------------------------------------------------------------------------
(* The invariant: three copies of a citation's cites, and the registry. *)

\* The items of the caller's document.
Shown == UNION {ItemsOf(document[q].text.cites) : q \in DOMAIN document}

Standing(found, cites) == found = Undefined \/ Matches(found, cites)

\* The registry holds the items of the document, with the suffixes its texts
\* have; and what either table holds of a citation of the document has the
\* cites of its text, or will be evaluated, or makes the next call throw.
TextInv ==
    /\ Registered(bibliography, Shown)
    /\ \A q \in DOMAIN document : document[q].text = Text(document[q].text.cites, bibliography)
    /\ \A q \in DOMAIN document :
          document[q].citationID \in DOMAIN citationById =>
             Standing(citationById[document[q].citationID].sortedItems, document[q].text.cites)
    /\ \A q \in DOMAIN document : \A r \in DOMAIN citationByIndex :
          citationByIndex[r].citationID = document[q].citationID =>
             Standing(citationByIndex[r].sortedItems, document[q].text.cites)

\* After a call that returned, the caller and the processor have the same
\* citations in the same notes.
Current ==
    /\ DocumentIsCurrent
    /\ outcome = "returned" =>
          /\ citationByIndex \in Seq(Whole)
          /\ DOMAIN document = DOMAIN citationByIndex
          /\ \A q \in DOMAIN document : document[q].noteIndex = citationByIndex[q].noteIndex

LEMMA RenderMakesCurrent ==
    ASSUME NEW byId, Known(byId), NEW list \in Seq(Whole), Distinct(list),
           IDs(list) \subseteq DOMAIN byId, NEW p \in DOMAIN list, NEW old, NEW saved,
           \A q \in DOMAIN list \ {p} : saved[list[q].citationID] \in TextSet,
           NEW prev,
           \A q \in DOMAIN list \ {p} :
              /\ Matches(list[q].sortedItems, saved[list[q].citationID].cites)
              /\ saved[list[q].citationID] = Text(saved[list[q].citationID].cites, prev)
              /\ \A i \in ItemsOf(saved[list[q].citationID].cites) \cap Cited(list) :
                    \/ \A items \in TaintedItems(old, bibliography') : i \in items
                    \/ SuffixOf(prev)[i] = SuffixOf(bibliography')[i],
           Render(byId, list, p, old, saved),
           SortedAt # "after positions"
    PROVE  TextInv' /\ Current'
  <1>1. /\ \A q \in DOMAIN list : citationById'[list[q].citationID] = citationByIndex'[q]
        /\ DOMAIN document' = DOMAIN list
        /\ \A q \in DOMAIN list : document'[q].citationID = list[q].citationID
        /\ Distinct(document')
    BY RenderTypes DEF Typed
  <1>1a. \A q \in DOMAIN list : document'[q].noteIndex = list[q].noteIndex
    <2>1. PICK items \in TaintedItems(old, bibliography') :
             document' = [q \in DOMAIN list |->
                [citationID |-> list[q].citationID, noteIndex |-> list[q].noteIndex,
                 text |-> IF q \in {p} \cup Tainted(list, citationByIndex', p, items)
                          THEN Text(citationByIndex'[q].sortedItems, bibliography')
                          ELSE saved[list[q].citationID]]]
      BY Zenon DEF Render
    <2>2. QED
      BY <2>1
  <1>2. /\ DOMAIN citationByIndex' = DOMAIN list
        /\ citationByIndex' \in Seq(Whole)
        /\ \A q \in DOMAIN list :
              /\ citationByIndex'[q].citationID = list[q].citationID
              /\ citationByIndex'[q].noteIndex = list[q].noteIndex
        /\ Cited(citationByIndex') = Cited(list)
        /\ Registered(bibliography', Cited(list))
    BY RenderPositions
  <1>3. \A q \in DOMAIN list :
           document'[q].text = Text(citationByIndex'[q].sortedItems, bibliography')
    BY RenderTexts
  <1>4. \A q \in DOMAIN list : Evaluated(citationByIndex', q) = citationByIndex'[q].sortedItems
    BY RenderIsPositioned
  <1>5. \A q \in DOMAIN list : document'[q].text.cites = citationByIndex'[q].sortedItems
    <2>1. SUFFICES ASSUME NEW q \in DOMAIN list
                   PROVE  document'[q].text.cites = citationByIndex'[q].sortedItems
      OBVIOUS
    <2>2. document'[q].text = Text(citationByIndex'[q].sortedItems, bibliography')
      BY <1>3
    <2>3. Text(citationByIndex'[q].sortedItems, bibliography').cites = citationByIndex'[q].sortedItems
      BY DEF Text
    <2>4. QED
      BY <2>2, <2>3
  <1>6. Current'
    BY <1>1, <1>1a, <1>2, <1>3, <1>4 DEF Current, DocumentIsCurrent
  <1>7. Shown' = Cited(list)
    <2>1. Cited(citationByIndex') = UNION {ItemsOf(citationByIndex'[q].sortedItems) : q \in DOMAIN list}
      BY <1>2 DEF Cited
    <2>2. Shown' = UNION {ItemsOf(document'[q].text.cites) : q \in DOMAIN list}
      BY <1>1 DEF Shown
    <2>3. {ItemsOf(document'[q].text.cites) : q \in DOMAIN list} =
             {ItemsOf(citationByIndex'[q].sortedItems) : q \in DOMAIN list}
      BY <1>5
    <2>4. QED
      BY <1>2, <2>1, <2>2, <2>3
  <1>8. ASSUME NEW q \in DOMAIN list
        PROVE  /\ document'[q].text = Text(document'[q].text.cites, bibliography')
               /\ Standing(citationById'[document'[q].citationID].sortedItems, document'[q].text.cites)
               /\ \A r \in DOMAIN list : citationByIndex'[r].citationID = document'[q].citationID =>
                     Standing(citationByIndex'[r].sortedItems, document'[q].text.cites)
    <2>1. document'[q].text = Text(document'[q].text.cites, bibliography')
      BY <1>3, <1>5
    <2>2. Standing(citationByIndex'[q].sortedItems, document'[q].text.cites)
      BY <1>5 DEF Standing, Matches
    <2>3. citationById'[document'[q].citationID] = citationByIndex'[q]
      BY <1>1
    <2>4. \A r \in DOMAIN list : citationByIndex'[r].citationID = document'[q].citationID => r = q
      BY <1>1, <1>2 DEF Distinct
    <2>5. QED
      BY <2>1, <2>2, <2>3, <2>4
  <1>9. TextInv'
    BY <1>1, <1>2, <1>7, <1>8, Zenon DEF TextInv
  <1>10. QED
    BY <1>6, <1>9

\* A throw leaves the texts and the registry alone; what the tables hold then
\* comes from the submission or from the first table.
LEMMA ThrowKeepsTexts ==
    ASSUME TextInv, bibliography' = bibliography, document' = document,
           \A id \in DOMAIN citationById' :
              \/ citationById'[id].sortedItems = Undefined
              \/ \E k \in DOMAIN citationById'[id].sortedItems :
                    citationById'[id].sortedItems[k].position = Undefined
              \/ id \in DOMAIN citationById /\ citationById'[id].sortedItems = citationById[id].sortedItems,
           \A r \in DOMAIN citationByIndex' :
              \/ \E k \in DOMAIN citationByIndex'[r].sortedItems :
                    citationByIndex'[r].sortedItems[k].position = Undefined
              \/ /\ citationByIndex'[r].citationID \in DOMAIN citationById
                 /\ citationByIndex'[r].sortedItems =
                       citationById[citationByIndex'[r].citationID].sortedItems
              \/ /\ r \in DOMAIN citationByIndex
                 /\ citationByIndex'[r].citationID = citationByIndex[r].citationID
                 /\ citationByIndex'[r].sortedItems = citationByIndex[r].sortedItems
    PROVE  TextInv'
  <1>1. Shown' = Shown
    BY DEF Shown
  <1>2. ASSUME NEW q \in DOMAIN document, document[q].citationID \in DOMAIN citationById'
        PROVE  Standing(citationById'[document[q].citationID].sortedItems, document[q].text.cites)
    BY <1>2 DEF TextInv, Standing, Matches
  <1>3. ASSUME NEW q \in DOMAIN document, NEW r \in DOMAIN citationByIndex',
               citationByIndex'[r].citationID = document[q].citationID
        PROVE  Standing(citationByIndex'[r].sortedItems, document[q].text.cites)
    BY <1>3 DEF TextInv, Standing, Matches
  <1>4. QED
    BY <1>1, <1>2, <1>3, Zenon DEF TextInv

LEMMA RetrievalKeepsTexts ==
    ASSUME StateInv, TextInv, NEW cites, NEW slots, NEW p, Submission(slots, p),
           FailToRetrieve(slots[p], cites)
    PROVE  TextInv'
  <1> DEFINE c == setCitationId(slots[p], Undefined)
  <1>1. slots[p] \in SlotSet
    BY DEF Submission
  <1>2. c \in Citations /\ c.sortedItems = Undefined
    BY <1>1 DEF setCitationId, Citations, SlotSet
  <1>3. /\ citationById' = Register(c) /\ citationByIndex' = citationByIndex
        /\ bibliography' = bibliography /\ document' = document
    BY DEF FailToRetrieve
  <1>4. Known(citationById)
    BY StateFacts
  <1> HIDE DEF c
  <1>5. /\ DOMAIN citationById' = DOMAIN citationById \cup {c.citationID}
        /\ citationById'[c.citationID] = c
        /\ \A id \in DOMAIN citationById :
              id # c.citationID => citationById'[id] = citationById[id]
    BY <1>2, <1>3, <1>4, RegisterFacts
  <1>6. \A id \in DOMAIN citationById' :
           \/ citationById'[id].sortedItems = Undefined
           \/ id \in DOMAIN citationById /\ citationById'[id].sortedItems = citationById[id].sortedItems
    BY <1>2, <1>5
  <1>7. QED
    BY <1>3, <1>6, ThrowKeepsTexts

LEMMA PositioningKeepsTexts ==
    ASSUME StateInv, TextInv, NEW byId, NEW list, NEW cites \in Clusters, NEW slots, NEW p,
           Submission(slots, p), Made(byId, list, cites, slots, p), FailToPosition(byId, list)
    PROVE  TextInv'
  <1>1. /\ citationById' = Through(byId, list) /\ citationByIndex' = list
        /\ bibliography' = bibliography /\ document' = document
    BY DEF FailToPosition
  <1>2. /\ Known(byId) /\ list \in Seq(Citations) /\ Distinct(list)
        /\ IDs(list) \subseteq DOMAIN byId
        /\ DOMAIN list = DOMAIN slots /\ p \in DOMAIN list
        /\ DOMAIN byId = DOMAIN citationById \cup {slots[p].citationID}
        /\ \A id \in DOMAIN citationById :
              id # slots[p].citationID => byId[id] = citationById[id]
        /\ \A q \in DOMAIN slots :
              /\ list[q].citationID = slots[q].citationID
              /\ q # p => list[q].sortedItems = citationById[slots[q].citationID].sortedItems
        /\ list[p].sortedItems = FreshCites(cites)
    BY DEF Made
  <1>3. \A q \in DOMAIN slots \ {p} : slots[q].citationID \in DOMAIN citationById
    BY DEF Submission
  <1>4. /\ DOMAIN Through(byId, list) = DOMAIN byId
        /\ \A q \in DOMAIN list : Through(byId, list)[list[q].citationID] = list[q]
        /\ \A id \in DOMAIN byId : id \notin IDs(list) => Through(byId, list)[id] = byId[id]
    BY <1>2, ThroughFacts
  <1>5. ASSUME NEW r \in DOMAIN list
        PROVE  \/ \E k \in DOMAIN list[r].sortedItems : list[r].sortedItems[k].position = Undefined
               \/ /\ list[r].citationID \in DOMAIN citationById
                  /\ list[r].sortedItems = citationById[list[r].citationID].sortedItems
    <2>1. CASE r = p
      BY <1>2, <2>1, FreshFacts
    <2>2. CASE r # p
      BY <1>2, <1>3, <2>2
    <2>3. QED
      BY <2>1, <2>2
  <1>6. ASSUME NEW id \in DOMAIN byId
        PROVE  \/ \E k \in DOMAIN Through(byId, list)[id].sortedItems :
                     Through(byId, list)[id].sortedItems[k].position = Undefined
               \/ /\ id \in DOMAIN citationById
                  /\ Through(byId, list)[id].sortedItems = citationById[id].sortedItems
    <2>1. CASE id \in IDs(list)
      <3>1. PICK r \in DOMAIN list : list[r].citationID = id
        BY <2>1 DEF IDs
      <3>2. Through(byId, list)[id] = list[r]
        BY <1>4, <3>1
      <3>3. QED
        BY <1>5, <3>1, <3>2
    <2>2. CASE id \notin IDs(list)
      <3>1. id # slots[p].citationID
        BY <1>2, <2>2 DEF IDs
      <3>2. QED
        BY <1>2, <1>4, <2>2, <3>1
    <2>3. QED
      BY <2>1, <2>2
  <1>7. QED
    BY <1>1, <1>4, <1>5, <1>6, ThrowKeepsTexts

-----------------------------------------------------------------------------
(* The steps. *)

LEMMA SubmissionKeepsTexts ==
    ASSUME LookAlikesApart, InPairs(bibliography, bibliography'),
           StateInv, TextInv, SortedAt # "after positions",
           NEW cites \in Clusters, NEW slots, NEW p, Submission(slots, p),
           Complete(ListOf(cites, slots, p)) =>
              \A q \in DOMAIN slots \ {p} : slots[q].citationID \in IDs(document),
           processCitationCluster(cites, slots, p)
    PROVE  TextInv' /\ Current'
  <1> DEFINE byId == ByIdOf(cites, slots, p)
             list == ListOf(cites, slots, p)
  <1>1. \/ FailToRetrieve(slots[p], cites)
        \/ FailToPosition(byId, list)
        \/ Complete(list) /\ Render(byId, list, p, bibliography, Texts)
    BY Zenon DEF processCitationCluster, ByIdOf, ListOf, FreshCites
  <1>2. Typed(document)
    BY StateFacts
  <1>3. Made(byId, list, cites, slots, p)
    BY StateFacts, SubmissionFacts
  <1>4. Complete(list) => \A q \in DOMAIN slots \ {p} : slots[q].citationID \in IDs(document)
    OBVIOUS
  <1> HIDE DEF byId, list
  <1>5. CASE FailToRetrieve(slots[p], cites)
    <2>1. TextInv' /\ outcome' = "threw"
      BY <1>5, RetrievalKeepsTexts DEF FailToRetrieve
    <2>2. QED
      BY <2>1 DEF Current, DocumentIsCurrent
  <1>6. CASE FailToPosition(byId, list)
    <2>1. TextInv' /\ outcome' = "threw"
      BY <1>3, <1>6, PositioningKeepsTexts DEF FailToPosition
    <2>2. QED
      BY <2>1 DEF Current, DocumentIsCurrent
  <1>7. CASE Complete(list) /\ Render(byId, list, p, bibliography, Texts)
    <2>1. /\ Known(byId) /\ list \in Seq(Citations) /\ Distinct(list)
          /\ IDs(list) \subseteq DOMAIN byId /\ p \in DOMAIN list
          /\ DOMAIN list = DOMAIN slots
          /\ \A q \in DOMAIN slots :
                /\ list[q].citationID = slots[q].citationID
                /\ q # p => list[q].sortedItems = citationById[slots[q].citationID].sortedItems
      BY <1>3 DEF Made
    <2>2. list \in Seq(Whole)
      BY <1>7, <2>1, CompleteIsWhole
    <2>3. Registered(bibliography', Cited(list))
      BY <1>7, <2>1, <2>2, RenderPositions
    <2>4. DOMAIN SuffixOf(bibliography') = Cited(list) /\ DOMAIN SuffixOf(bibliography) = Shown
      BY <2>3, SuffixOfFacts DEF Registered, TextInv
    <2>5. ASSUME NEW q \in DOMAIN list \ {p}
          PROVE  /\ Texts[list[q].citationID] \in TextSet
                 /\ Matches(list[q].sortedItems, Texts[list[q].citationID].cites)
                 /\ Texts[list[q].citationID] = Text(Texts[list[q].citationID].cites, bibliography)
                 /\ \A i \in ItemsOf(Texts[list[q].citationID].cites) \cap Cited(list) :
                       \/ \A items \in TaintedItems(bibliography, bibliography') : i \in items
                       \/ SuffixOf(bibliography)[i] = SuffixOf(bibliography')[i]
      <3>1. list[q].citationID \in IDs(document)
        BY <1>4, <1>7, <2>1
      <3>2. PICK r \in DOMAIN document : document[r].citationID = list[q].citationID
        BY <3>1 DEF IDs
      <3>3. Texts[list[q].citationID] = document[r].text /\ document[r].text \in TextSet
        BY <1>2, <3>2, TextsFacts
      <3>4. /\ list[q].citationID \in DOMAIN citationById
            /\ list[q].sortedItems = citationById[document[r].citationID].sortedItems
        BY <2>1, <3>2 DEF Submission
      <3>5. Standing(list[q].sortedItems, document[r].text.cites)
        BY <3>2, <3>4 DEF TextInv
      <3>6. list[q].sortedItems # Undefined
        BY <1>7 DEF Complete
      <3>7. document[r].text = Text(document[r].text.cites, bibliography)
        BY DEF TextInv
      <3>8. ItemsOf(document[r].text.cites) \subseteq Shown
        BY DEF Shown
      <3>9. \A i \in ItemsOf(document[r].text.cites) \cap Cited(list) :
               \/ \A items \in TaintedItems(bibliography, bibliography') : i \in items
               \/ SuffixOf(bibliography)[i] = SuffixOf(bibliography')[i]
        <4>1. Registered(bibliography, Shown)
          BY DEF TextInv
        <4>2. SUFFICES ASSUME NEW i \in Shown \cap Cited(list)
                       PROVE  \/ \A items \in TaintedItems(bibliography, bibliography') : i \in items
                              \/ SuffixOf(bibliography)[i] = SuffixOf(bibliography')[i]
          BY <3>8
        <4>3. InPairs(bibliography, bibliography') /\ LookAlikesApart
          OBVIOUS
        <4>4. ReportedOrSame(bibliography, bibliography', i)
          BY <2>3, <4>1, <4>3, ChangesAreTainted
        <4>5. QED
          BY <4>4 DEF ReportedOrSame
      <3>10. QED
        BY <3>3, <3>5, <3>6, <3>7, <3>9 DEF Standing
    <2>6. QED
      BY <1>7, <2>1, <2>2, <2>5, RenderMakesCurrent
  <1>8. QED
    BY <1>1, <1>5, <1>6, <1>7

LEMMA ProcessKeepsTexts ==
    ASSUME LookAlikesApart, InPairs(bibliography, bibliography'),
           StateInv, TextInv, SortedAt # "after positions", ProcessCitationCluster
    PROVE  TextInv' /\ Current'
  <1>1. PICK cites \in Clusters, slots \in Layouts :
           \E p \in DOMAIN slots : MaySubmit(slots, p) /\ processCitationCluster(cites, slots, p)
    BY DEF ProcessCitationCluster
  <1>2. PICK p \in DOMAIN slots : MaySubmit(slots, p) /\ processCitationCluster(cites, slots, p)
    BY <1>1
  <1>3. QED
    BY <1>2, MaySubmitFacts, SubmissionKeepsTexts

LEMMA AppendKeepsTexts ==
    ASSUME LookAlikesApart, InPairs(bibliography, bibliography'),
           StateInv, TextInv, SortedAt # "after positions", AppendCitationCluster
    PROVE  TextInv' /\ Current'
  <1>1. PICK cites \in Clusters : \E slots, p :
           /\ Submission(slots, p)
           /\ \A q \in DOMAIN slots \ {p} :
                 /\ q \in DOMAIN citationByIndex
                 /\ slots[q].citationID = citationByIndex[q].citationID
           /\ DOMAIN citationByIndex \subseteq DOMAIN slots \ {p}
           /\ processCitationCluster(cites, slots, p)
    BY AppendStep
  <1>2. PICK slots, p :
           /\ Submission(slots, p)
           /\ \A q \in DOMAIN slots \ {p} :
                 /\ q \in DOMAIN citationByIndex
                 /\ slots[q].citationID = citationByIndex[q].citationID
           /\ DOMAIN citationByIndex \subseteq DOMAIN slots \ {p}
           /\ processCitationCluster(cites, slots, p)
    BY <1>1
  <1>3. Complete(ListOf(cites, slots, p)) =>
           \A q \in DOMAIN slots \ {p} : slots[q].citationID \in IDs(document)
    BY <1>2, AppendedKnown
  <1>4. QED
    BY <1>2, <1>3, SubmissionKeepsTexts

\* A preview gives the registry its own items in its own order: the suffixes
\* stay only because look-alikes are told apart by their sort keys.
LEMMA PreviewKeepsTexts ==
    ASSUME LookAlikesApart, StateInv, TextInv, PreviewCitationCluster
    PROVE  TextInv'
  <1>1. PICK cites \in Clusters, slots \in Layouts : \E p \in DOMAIN slots :
           MaySubmit(slots, p) /\ previewCitationCluster(cites, slots, p)
    BY DEF PreviewCitationCluster
  <1>2. PICK p \in DOMAIN slots : MaySubmit(slots, p) /\ previewCitationCluster(cites, slots, p)
    BY <1>1
  <1>3. Submission(slots, p)
    BY <1>2, MaySubmitFacts
  <1>4. Made(ByIdOf(cites, slots, p), ListOf(cites, slots, p), cites, slots, p)
    BY <1>3, StateFacts, SubmissionFacts
  <1>5. CASE FailToRetrieve(slots[p], cites)
    BY <1>3, <1>5, RetrievalKeepsTexts
  <1>6. CASE FailToPosition(ByIdOf(cites, slots, p), ListOf(cites, slots, p))
    BY <1>3, <1>4, <1>6, PositioningKeepsTexts
  <1>7. CASE /\ DOMAIN citationByIndex' = DOMAIN citationByIndex
             /\ \A q \in DOMAIN citationByIndex :
                   /\ citationByIndex'[q].citationID = citationByIndex[q].citationID
                   /\ citationByIndex'[q].sortedItems = citationByIndex[q].sortedItems
             /\ DOMAIN citationById' = IDs(citationByIndex)
             /\ \A q \in DOMAIN citationByIndex :
                   citationById'[citationByIndex[q].citationID] = citationByIndex'[q]
             /\ Registered(bibliography', {bibliography[m].id : m \in DOMAIN bibliography})
             /\ UNCHANGED document
    <2>1. {bibliography[m].id : m \in DOMAIN bibliography} = Shown
      BY DEF TextInv, Registered, Holds
    <2>2. Shown' = Shown
      BY <1>7 DEF Shown
    <2>3. Registered(bibliography', Shown) /\ Registered(bibliography, Shown)
      BY <1>7, <2>1 DEF TextInv
    <2>4. \A i \in Shown : SuffixOf(bibliography)[i] = SuffixOf(bibliography')[i]
      BY <2>3, SameSuffixes
    <2>5. ASSUME NEW q \in DOMAIN document
          PROVE  document[q].text = Text(document[q].text.cites, bibliography')
      <3>1. document[q].text = Text(document[q].text.cites, bibliography)
        BY DEF TextInv
      <3>2. \A k \in DOMAIN document[q].text.cites : document[q].text.cites[k].id \in Shown
        BY DEF Shown, ItemsOf
      <3>3. Text(document[q].text.cites, bibliography) = Text(document[q].text.cites, bibliography')
        BY <2>4, <3>2 DEF Text
      <3>4. QED
        BY <3>1, <3>3
    <2>6. ASSUME NEW q \in DOMAIN document, NEW r \in DOMAIN citationByIndex,
                 citationByIndex[r].citationID = document[q].citationID
          PROVE  Standing(citationByIndex'[r].sortedItems, document[q].text.cites)
      BY <1>7, <2>6 DEF TextInv
    <2>7. ASSUME NEW q \in DOMAIN document, document[q].citationID \in DOMAIN citationById'
          PROVE  Standing(citationById'[document[q].citationID].sortedItems, document[q].text.cites)
      <3>1. PICK r \in DOMAIN citationByIndex : citationByIndex[r].citationID = document[q].citationID
        BY <1>7, <2>7 DEF IDs
      <3>2. citationById'[document[q].citationID] = citationByIndex'[r]
        BY <1>7, <3>1
      <3>3. QED
        BY <2>6, <3>1, <3>2
    <2>8. document' = document
      BY <1>7
    <2>9. Registered(bibliography', Shown')
      BY <2>2, <2>3
    <2>10. \A q \in DOMAIN document : \A r \in DOMAIN citationByIndex' :
              citationByIndex'[r].citationID = document[q].citationID =>
                 Standing(citationByIndex'[r].sortedItems, document[q].text.cites)
      BY <1>7, <2>6
    <2>11. QED
      BY <2>5, <2>7, <2>8, <2>9, <2>10, Zenon DEF TextInv
  <1>8. QED
    BY <1>2, <1>5, <1>6, <1>7, PreviewStep, Zenon

\* The items of a restored document are those of the caller's texts, whatever
\* was moved or copied meanwhile.
LEMMA SavedItems ==
    ASSUME Typed(document), NEW slots \in Layouts, NEW source \in [IDs(slots) -> IDs(document)],
           IDs(document) \subseteq IDs(slots), \A id \in IDs(document) : source[id] = id
    PROVE  Cited(Saved(slots, source)) = Shown
  <1> DEFINE list == Saved(slots, source)
  <1>1. /\ DOMAIN list = DOMAIN slots
        /\ \A q \in DOMAIN slots :
              \E r \in DOMAIN document :
                    /\ document[r].citationID = source[slots[q].citationID]
                    /\ list[q].sortedItems = document[r].text.cites
    BY SavedFacts
  <1>2. Distinct(document)
    BY DEF Typed
  <1> HIDE DEF list
  <1>3. ASSUME NEW i \in Cited(list)
        PROVE  i \in Shown
    <2>1. PICK q \in DOMAIN list : i \in ItemsOf(list[q].sortedItems)
      BY DEF Cited
    <2>2. PICK r \in DOMAIN document : list[q].sortedItems = document[r].text.cites
      BY <1>1
    <2>3. QED
      BY <2>1, <2>2 DEF Shown
  <1>4. ASSUME NEW i \in Shown
        PROVE  i \in Cited(list)
    <2>1. PICK r \in DOMAIN document : i \in ItemsOf(document[r].text.cites)
      BY DEF Shown
    <2>2. document[r].citationID \in IDs(document)
      BY DEF IDs
    <2>3. PICK q \in DOMAIN slots : slots[q].citationID = document[r].citationID
      BY <2>2 DEF IDs
    <2>4. source[slots[q].citationID] = document[r].citationID
      BY <2>2, <2>3
    <2>5. PICK x \in DOMAIN document : /\ document[x].citationID = document[r].citationID
                                       /\ list[q].sortedItems = document[x].text.cites
      BY <1>1, <2>4
    <2>6. x = r
      BY <1>2, <2>5 DEF Distinct
    <2>7. QED
      BY <1>1, <2>1, <2>5, <2>6 DEF Cited
  <1>5. QED
    BY <1>3, <1>4 DEF list

LEMMA RestartKeepsTexts ==
    ASSUME LookAlikesApart, SortedAt # "after positions", StateInv, TextInv, Restart
    PROVE  TextInv' /\ Current'
  <1>1. PICK slots \in Layouts : \E source \in [IDs(slots) -> IDs(document)] :
           /\ IDs(document) \subseteq IDs(slots)
           /\ \A id \in IDs(document) : source[id] = id
           /\ Render([id \in IDs(slots) |-> OfID(Saved(slots, source), id)],
                     Saved(slots, source), 1, bibliography',
                     [id \in IDs(slots) |-> OfID(document, source[id]).text])
    BY RestartStep
  <1>2. PICK source \in [IDs(slots) -> IDs(document)] :
           /\ IDs(document) \subseteq IDs(slots)
           /\ \A id \in IDs(document) : source[id] = id
           /\ Render([id \in IDs(slots) |-> OfID(Saved(slots, source), id)],
                     Saved(slots, source), 1, bibliography',
                     [id \in IDs(slots) |-> OfID(document, source[id]).text])
    BY <1>1
  <1> DEFINE list == Saved(slots, source)
             byId == [id \in IDs(slots) |-> OfID(list, id)]
             saved == [id \in IDs(slots) |-> OfID(document, source[id]).text]
  <1>3. /\ list \in Seq(Whole) /\ Distinct(list) /\ DOMAIN list = DOMAIN slots
        /\ IDs(list) = IDs(slots)
        /\ \A q \in DOMAIN slots :
              /\ list[q].citationID = slots[q].citationID
              /\ \E r \in DOMAIN document :
                    /\ document[r].citationID = source[slots[q].citationID]
                    /\ OfID(document, source[slots[q].citationID]) = document[r]
                    /\ list[q].sortedItems = document[r].text.cites
    BY StateFacts, SavedFacts
  <1>4. Known(byId) /\ DOMAIN byId = IDs(list)
    <2>1. list \in Seq(Citations) /\ byId = [id \in IDs(list) |-> OfID(list, id)]
      BY <1>3, WholeIsListed
    <2> HIDE DEF list, byId
    <2>2. QED
      BY <1>3, <2>1, PreviewTable
  <1>5. Cited(list) = Shown
    BY <1>2, StateFacts, SavedItems
  <1>6. 1 \in DOMAIN list
    BY <1>3, LayoutFacts
  <1>7. Render(byId, list, 1, bibliography', saved)
    BY <1>2
  <1>8. \A q \in DOMAIN list : \E r \in DOMAIN document :
           /\ saved[list[q].citationID] = document[r].text
           /\ list[q].sortedItems = document[r].text.cites
    BY <1>3 DEF IDs
  <1> HIDE DEF list, byId, saved
  <1>9. \A i \in Shown : SuffixOf(bibliography)[i] = SuffixOf(bibliography')[i]
    <2>1. Registered(bibliography', Shown) /\ Registered(bibliography, Shown)
      BY <1>3, <1>5, <1>6, <1>7, RenderPositions DEF TextInv
    <2>2. QED
      BY <2>1, SameSuffixes
  <1>10. ASSUME NEW q \in DOMAIN list
         PROVE  /\ saved[list[q].citationID] \in TextSet
                /\ Matches(list[q].sortedItems, saved[list[q].citationID].cites)
                /\ saved[list[q].citationID] = Text(saved[list[q].citationID].cites, bibliography)
                /\ \A i \in ItemsOf(saved[list[q].citationID].cites) \cap Cited(list) :
                      \/ \A items \in TaintedItems(bibliography', bibliography') : i \in items
                      \/ SuffixOf(bibliography)[i] = SuffixOf(bibliography')[i]
    <2>1. PICK r \in DOMAIN document : /\ saved[list[q].citationID] = document[r].text
                                       /\ list[q].sortedItems = document[r].text.cites
      BY <1>8
    <2>2. document[r].text \in TextSet
      BY StateFacts, TextsFacts
    <2>3. document[r].text = Text(document[r].text.cites, bibliography)
      BY DEF TextInv
    <2>4. QED
      BY <1>5, <1>9, <2>1, <2>2, <2>3 DEF Matches
  <1>11. /\ IDs(list) \subseteq DOMAIN byId
         /\ \A q \in DOMAIN list \ {1} : saved[list[q].citationID] \in TextSet
         /\ \A q \in DOMAIN list \ {1} :
              /\ Matches(list[q].sortedItems, saved[list[q].citationID].cites)
              /\ saved[list[q].citationID] = Text(saved[list[q].citationID].cites, bibliography)
              /\ \A i \in ItemsOf(saved[list[q].citationID].cites) \cap Cited(list) :
                    \/ \A items \in TaintedItems(bibliography', bibliography') : i \in items
                    \/ SuffixOf(bibliography)[i] = SuffixOf(bibliography')[i]
    BY <1>4, <1>10
  <1>12. QED
    BY <1>3, <1>4, <1>6, <1>7, <1>11, RenderMakesCurrent

-----------------------------------------------------------------------------

LEMMA InitialTexts ==
    ASSUME Init
    PROVE  TextInv /\ Current
  <1>1. bibliography = <<>> /\ document = <<>> /\ outcome = "none"
    BY DEF Init
  <1>2. DOMAIN <<>> = {} /\ \A R : <<>> \in Seq(R)
    OBVIOUS
  <1>3. Shown = {}
    BY <1>1, <1>2 DEF Shown
  <1>4. Registry!Listed(<<>>) = {}
    BY <1>2 DEF Registry!Listed
  <1>5. Registered(bibliography, Shown)
    BY <1>1, <1>2, <1>3, <1>4 DEF Registered, Holds
  <1>6. QED
    BY <1>1, <1>2, <1>5 DEF TextInv, Current, DocumentIsCurrent

LEMMA StepKeepsTexts ==
    ASSUME LookAlikesApart, SortedAt # "after positions",
           [InPairs(bibliography, bibliography')]_vars, StateInv, TextInv, [Next]_vars
    PROVE  TextInv' /\ (Current => Current')
  <1>1. CASE ProcessCitationCluster /\ InPairs(bibliography, bibliography')
    BY <1>1, ProcessKeepsTexts
  <1>2. CASE AppendCitationCluster /\ InPairs(bibliography, bibliography')
    BY <1>2, AppendKeepsTexts
  <1>3. CASE PreviewCitationCluster
    BY <1>3, PreviewKeepsTexts, PreviewKeepsState DEF Current, DocumentIsCurrent
  <1>4. CASE Restart
    BY <1>4, RestartKeepsTexts
  <1>5. CASE UNCHANGED vars
    <2>1. /\ citationById' = citationById /\ citationByIndex' = citationByIndex
          /\ bibliography' = bibliography /\ outcome' = outcome /\ document' = document
      BY <1>5 DEF vars
    <2>2. TextInv'
      <3>1. Shown' = Shown
        BY <2>1 DEF Shown
      <3>2. QED
        BY <2>1, <3>1, Zenon DEF TextInv
    <2>3. Current => Current'
      BY <2>1, Zenon DEF Current, DocumentIsCurrent
    <2>4. QED
      BY <2>2, <2>3
  <1>6. InPairs(bibliography, bibliography') \/ UNCHANGED vars
    OBVIOUS
  <1>7. QED
    BY <1>1, <1>2, <1>3, <1>4, <1>5, <1>6 DEF Next

\* Whatever was inserted, changed, moved, appended, previewed, restored or
\* failed before: after a call of processCitationCluster that returned, every
\* text in the caller's document, returned by this call or by an earlier one,
\* is what its citation renders to now.  The style may sort cites before their
\* positions are evaluated, but not after; it has to tell items that look alike
\* apart by their sort keys; no three cited items may look alike at a time, and
\* no call may take items from two such pairs: the processor does not report
\* the other changes of suffixes (util_disambig.js:108-116, registry.js:451).
THEOREM TextsStayCurrent ==
    ASSUME LookAlikesApart, SortedAt # "after positions"
    PROVE  Spec /\ [][InPairs(bibliography, bibliography')]_vars => []DocumentIsCurrent
  <1>1. Init => StateInv /\ TextInv /\ Current
    BY InitialState, InitialTexts
  <1>2. (StateInv /\ TextInv /\ Current) /\ [Next]_vars
        /\ [InPairs(bibliography, bibliography')]_vars => (StateInv /\ TextInv /\ Current)'
    BY StepKeepsState, StepKeepsTexts
  <1>3. Current => DocumentIsCurrent
    BY DEF Current
  <1>4. QED
    BY <1>1, <1>2, <1>3, PTL DEF Spec

-----------------------------------------------------------------------------
(* Restoring a document that was not edited. *)

\* What a restored processor is given of the document.
AsCitations(doc) ==
    [q \in DOMAIN doc |->
        [citationID |-> doc[q].citationID, noteIndex |-> doc[q].noteIndex,
         sortedItems |-> doc[q].text.cites]]

\* The cites of the document are what evaluating them gives.
SettledIn(doc) == \A q \in DOMAIN doc : doc[q].text.cites = Evaluated(AsCitations(doc), q)
Settled == SettledIn(document)

InOrder(cites) ==
    \A k, l \in DOMAIN cites : k < l => ~GoesBefore(cites[l], cites[k])

\* No citation is left unsorted: a style that sorts cites sorts those of the
\* citation submitted, so a call that threw may leave unsorted cites behind.
NothingThrows == Missing = {} /\ Undefined \notin Seq(Cites)
KeysAreNumbers == \A i \in Item : SortKey[i] \in Int \cup {Undefined}
OrderIsKept ==
    \/ SortedAt = "never"
    \/ SortedAt = "before positions" /\ NothingThrows /\ KeysAreNumbers

TablesInOrder ==
    /\ \A id \in DOMAIN citationById :
          citationById[id].sortedItems # Undefined /\ InOrder(citationById[id].sortedItems)
    /\ \A q \in DOMAIN citationByIndex :
          citationByIndex[q].sortedItems # Undefined /\ InOrder(citationByIndex[q].sortedItems)
TextsInOrder == \A q \in DOMAIN document : InOrder(document[q].text.cites)

LEMMA SameOrder ==
    ASSUME NEW s, NEW t, DOMAIN s = DOMAIN t, \A k \in DOMAIN s : s[k].id = t[k].id
    PROVE  InOrder(s) <=> InOrder(t)
  BY DEF InOrder, GoesBefore

LEMMA SortedInOrder ==
    ASSUME KeysAreNumbers, NEW cites \in Seq(Cites), NEW f \in SortOrders(cites)
    PROVE  InOrder(Rearranged(cites, f))
  <1>1. /\ f \in [DOMAIN cites -> DOMAIN cites]
        /\ \A k, l \in DOMAIN cites :
              k < l => \/ GoesBefore(cites[f[k]], cites[f[l]])
                       \/ ~GoesBefore(cites[f[l]], cites[f[k]]) /\ f[k] < f[l]
    BY DEF SortOrders, Bijection, Injection
  <1>2. \A k \in DOMAIN cites : SortKey[cites[f[k]].id] \in Int \cup {Undefined}
    <2>1. \A k \in DOMAIN cites : cites[k] \in Cites
      OBVIOUS
    <2>2. \A k \in DOMAIN cites : cites[k].id \in Item
      BY <2>1 DEF Cites
    <2>3. QED
      BY <1>1, <2>2 DEF KeysAreNumbers
  <1>3. ASSUME NEW k \in DOMAIN cites, NEW l \in DOMAIN cites, k < l
        PROVE  ~GoesBefore(cites[f[l]], cites[f[k]])
    <2>1. \/ GoesBefore(cites[f[k]], cites[f[l]])
          \/ ~GoesBefore(cites[f[l]], cites[f[k]])
      BY <1>1, <1>3
    <2>2. QED
      BY <1>2, <2>1 DEF GoesBefore
  <1>4. QED
    BY <1>3 DEF InOrder, Rearranged

LEMMA BijectionFacts ==
    ASSUME NEW S, NEW f \in Bijection(S, S)
    PROVE  /\ f \in [S -> S]
           /\ \A k, l \in S : f[k] = f[l] => k = l
           /\ \A m \in S : \E k \in S : f[k] = m
  BY DEF Bijection, Injection, Surjection, IsInjective

\* Sorting what is sorted moves nothing.
LEMMA IncreasingIsIdentity ==
    ASSUME NEW n \in Nat, NEW f \in Bijection(1 .. n, 1 .. n),
           \A k, l \in 1 .. n : k < l => f[k] < f[l]
    PROVE  \A k \in 1 .. n : f[k] = k
  <1> DEFINE Moved == {k \in 1 .. n : f[k] # k}
  <1>1. /\ f \in [1 .. n -> 1 .. n]
        /\ \A k, l \in 1 .. n : f[k] = f[l] => k = l
        /\ \A m \in 1 .. n : \E k \in 1 .. n : f[k] = m
    BY BijectionFacts
  <1>2. SUFFICES ASSUME Moved # {} PROVE FALSE
    OBVIOUS
  <1>3. Min(Moved) \in Moved /\ \A y \in Moved : Min(Moved) <= y
    <2>1. Moved \in SUBSET Nat
      OBVIOUS
    <2> HIDE DEF Moved
    <2>2. QED
      BY <1>2, <2>1, MinOfPlaces
  <1>4. PICK m \in 1 .. n : f[m] # m /\ \A y \in 1 .. n : f[y] # y => m <= y
    BY <1>3
  <1>5. \A y \in 1 .. n : y < m => f[y] = y
    BY <1>4
  <1>6. f[m] \in 1 .. n /\ ~(f[m] < m)
    BY <1>1, <1>4, <1>5
  <1>7. f[m] > m
    BY <1>4, <1>6
  <1>8. PICK k \in 1 .. n : f[k] = m
    BY <1>1
  <1>9. k > m
    BY <1>4, <1>5, <1>8
  <1>10. f[m] < f[k]
    BY <1>9
  <1>11. f[m] \in Int /\ m \in Int
    BY <1>6
  <1>12. QED
    BY <1>7, <1>8, <1>10, <1>11

LEMMA SortedStays ==
    ASSUME NEW cites \in Seq(Cites), NEW f \in SortOrders(cites), InOrder(cites)
    PROVE  Rearranged(cites, f) = cites
  <1>1. DOMAIN cites = 1 .. Len(cites) /\ Len(cites) \in Nat
    OBVIOUS
  <1>2. f \in Bijection(1 .. Len(cites), 1 .. Len(cites))
    BY <1>1 DEF SortOrders
  <1>3. /\ f \in [1 .. Len(cites) -> 1 .. Len(cites)]
        /\ \A k, l \in 1 .. Len(cites) : f[k] = f[l] => k = l
    BY <1>2, BijectionFacts
  <1>4. ASSUME NEW k \in 1 .. Len(cites), NEW l \in 1 .. Len(cites), k < l
        PROVE  f[k] < f[l]
    <2>1. \/ GoesBefore(cites[f[k]], cites[f[l]])
          \/ f[k] < f[l]
      BY <1>1, <1>4 DEF SortOrders
    <2>2. f[l] < f[k] => ~GoesBefore(cites[f[k]], cites[f[l]])
      BY <1>1, <1>3 DEF InOrder
    <2>3. f[k] # f[l]
      BY <1>3, <1>4
    <2>4. f[k] \in Int /\ f[l] \in Int
      BY <1>3
    <2>5. QED
      BY <2>1, <2>2, <2>3, <2>4
  <1>5. \A k \in 1 .. Len(cites) : f[k] = k
    BY <1>1, <1>2, <1>4, IncreasingIsIdentity
  <1>6. Rearranged(cites, f) = [k \in 1 .. Len(cites) |-> cites[k]]
    BY <1>1, <1>5 DEF Rearranged
  <1>7. QED
    BY <1>1, <1>6

LEMMA PlaceByPlace ==
    ASSUME NEW R, NEW s \in Seq(R)
    PROVE  s = [q \in DOMAIN s |-> s[q]]
  OBVIOUS

LEMMA Element ==
    ASSUME NEW R, NEW s \in Seq(R), NEW q \in DOMAIN s
    PROVE  s[q] \in R
  OBVIOUS

LEMMA OnlyReturnsChangeIt ==
    ASSUME NEW cites, NEW slots, NEW p
    PROVE  /\ processCitationCluster(cites, slots, p) =>
                 outcome' = "returned" \/ document' = document
           /\ previewCitationCluster(cites, slots, p) => document' = document
  <1>1. \A slot : FailToRetrieve(slot, cites) => document' = document
    BY DEF FailToRetrieve
  <1>2. \A byId, list : FailToPosition(byId, list) => document' = document
    BY DEF FailToPosition
  <1>3. \A byId, list, old, saved : Render(byId, list, p, old, saved) => outcome' = "returned"
    BY DEF Render
  <1>4. processCitationCluster(cites, slots, p) =>
           outcome' = "returned" \/ document' = document
    BY <1>1, <1>2, <1>3, Zenon DEF processCitationCluster
  <1>5. previewCitationCluster(cites, slots, p) => document' = document
    BY <1>1, <1>2, Zenon DEF previewCitationCluster
  <1>6. QED
    BY <1>4, <1>5

LEMMA OnlyReturnsChange ==
    ASSUME Next
    PROVE  outcome' = "returned" \/ document' = document
  <1>1. CASE ProcessCitationCluster
    BY <1>1, OnlyReturnsChangeIt, Zenon DEF ProcessCitationCluster
  <1>2. CASE AppendCitationCluster
    BY <1>2, OnlyReturnsChangeIt, Zenon DEF AppendCitationCluster, appendCitationCluster
  <1>3. CASE PreviewCitationCluster
    BY <1>3, OnlyReturnsChangeIt, Zenon DEF PreviewCitationCluster
  <1>4. CASE Restart
    BY <1>4, Zenon DEF Restart, restoreProcessorState, Render
  <1>5. QED
    BY <1>1, <1>2, <1>3, <1>4 DEF Next

LEMMA DocFacts ==
    ASSUME NEW doc, Typed(doc)
    PROVE  AsCitations(doc) \in Seq(Whole) /\ DOMAIN AsCitations(doc) = DOMAIN doc
  <1> DEFINE R == [citationID : CitationID, noteIndex : Nat, text : TextSet]
  <1>1. doc \in Seq(R)
    BY DEF Typed
  <1>2. \A x \in R : [citationID |-> x.citationID, noteIndex |-> x.noteIndex,
                      sortedItems |-> x.text.cites] \in Whole
    BY DEF TextSet, Whole
  <1> HIDE DEF R
  <1>3. /\ DOMAIN doc = 1 .. Len(doc) /\ Len(doc) \in Nat
        /\ \A q \in DOMAIN doc : doc[q] \in R
    BY <1>1
  <1>4. AsCitations(doc) \in [1 .. Len(doc) -> Whole]
    BY <1>2, <1>3 DEF AsCitations
  <1>5. QED
    BY <1>3, <1>4, TypedSequence

\* The texts of doc are those of the citations of list.
TextsOf(doc, list, entries) ==
    /\ DOMAIN doc = DOMAIN list
    /\ \A q \in DOMAIN doc : /\ doc[q].text = Text(Evaluated(list, q), entries)
                             /\ doc[q].noteIndex = list[q].noteIndex
CitesSame(doc, list) ==
    \A q \in DOMAIN doc :
        /\ q \in DOMAIN list
        /\ DOMAIN doc[q].text.cites = DOMAIN list[q].sortedItems
        /\ \A k \in DOMAIN doc[q].text.cites :
              doc[q].text.cites[k].id = list[q].sortedItems[k].id

\* What a call that returned put in the document is evaluated there.
LEMMA ReturnedSettles ==
    ASSUME NEW doc, Typed(doc), NEW list \in Seq(Whole), NEW entries,
           TextsOf(doc, list, entries)
    PROVE  SettledIn(doc) /\ CitesSame(doc, list)
  <1>1. /\ AsCitations(doc) \in Seq(Whole) /\ DOMAIN AsCitations(doc) = DOMAIN doc
    BY DocFacts
  <1>2. /\ DOMAIN doc = DOMAIN list
        /\ \A q \in DOMAIN doc :
              /\ doc[q].text = Text(Evaluated(list, q), entries)
              /\ doc[q].noteIndex = list[q].noteIndex
    BY DEF TextsOf
  <1>3. \A q \in DOMAIN doc : doc[q].text.cites = Evaluated(list, q)
    <2>1. \A c, e : Text(c, e).cites = c
      BY DEF Text
    <2>2. QED
      BY <1>2, <2>1
  <1>4. ASSUME NEW q \in DOMAIN doc
        PROVE  /\ Len(Evaluated(list, q)) = Len(list[q].sortedItems)
               /\ DOMAIN Evaluated(list, q) = DOMAIN list[q].sortedItems
               /\ \A k \in DOMAIN list[q].sortedItems :
                     /\ Evaluated(list, q)[k].id = list[q].sortedItems[k].id
                     /\ Evaluated(list, q)[k].locator =
                           list[q].sortedItems[k].locator
               /\ ItemsOf(Evaluated(list, q)) = ItemsOf(list[q].sortedItems)
    <2>1. list \in Seq(Whole) /\ q \in DOMAIN list
      BY <1>1, <1>2
    <2>2. QED
      BY <2>1, EvaluatedType, EvaluatedItems
  <1>5. \A q \in DOMAIN doc :
           /\ AsCitations(doc)[q].noteIndex = list[q].noteIndex
           /\ AsCitations(doc)[q].sortedItems = Evaluated(list, q)
    BY <1>2, <1>3 DEF AsCitations
  <1>6. SameCites(list, AsCitations(doc))
    BY <1>1, <1>2, <1>4, <1>5 DEF SameCites
  <1>7. \A q \in DOMAIN doc : Evaluated(list, q) = Evaluated(AsCitations(doc), q)
    BY <1>1, <1>2, <1>6, EvaluationAgrees
  <1>8. QED
    BY <1>2, <1>3, <1>4, <1>7 DEF SettledIn, CitesSame

\* The calls that return keep both tables in order.
LEMMA RenderKeepsOrder ==
    ASSUME SortedAt = "before positions", NothingThrows, KeysAreNumbers,
           NEW byId, Known(byId), NEW list \in Seq(Whole), Distinct(list),
           IDs(list) \subseteq DOMAIN byId, NEW p \in DOMAIN list, NEW old, NEW saved,
           \A q \in DOMAIN list \ {p} : saved[list[q].citationID] \in TextSet,
           \A q \in DOMAIN list \ {p} : InOrder(list[q].sortedItems),
           \A id \in DOMAIN byId \ IDs(list) :
              byId[id].sortedItems # Undefined /\ InOrder(byId[id].sortedItems),
           Render(byId, list, p, old, saved)
    PROVE  TablesInOrder'
  <1>1. PICK f \in SortOrders(list[p].sortedItems) : citationByIndex' = Positioned(list, p, f)
    BY RenderSorts, Zenon
  <1>1a. SortedAt # "after positions"
    OBVIOUS
  <1>2. /\ Sorted(list, p, f) \in Seq(Whole) /\ Positioned(list, p, f) \in Seq(Whole)
        /\ DOMAIN Sorted(list, p, f) = DOMAIN list /\ DOMAIN Positioned(list, p, f) = DOMAIN list
    BY <1>1a, LeftAsEvaluated, Zenon
  <1>3. \A q \in DOMAIN list :
           Positioned(list, p, f)[q].sortedItems = Evaluated(Sorted(list, p, f), q)
    BY <1>1a, LeftAsEvaluated, Zenon
  <1>4. \A q \in DOMAIN list : InOrder(Sorted(list, p, f)[q].sortedItems)
    <2>1. list[p] \in Whole
      BY Element
    <2>2. list[p].sortedItems \in Seq(Cites)
      BY <2>1 DEF Whole
    <2>3. Sorted(list, p, f)[p].sortedItems = Rearranged(list[p].sortedItems, f)
      BY <2>1 DEF Sorted, SortBefore, Whole
    <2>4. InOrder(Sorted(list, p, f)[p].sortedItems)
      BY <2>2, <2>3, SortedInOrder
    <2>5. \A q \in DOMAIN list : q # p => Sorted(list, p, f)[q] = list[q]
      BY DEF Sorted
    <2>6. QED
      BY <2>4, <2>5
  <1>5. ASSUME NEW q \in DOMAIN list
        PROVE  InOrder(Positioned(list, p, f)[q].sortedItems)
    <2>1. Sorted(list, p, f) \in Seq(Whole) /\ q \in DOMAIN Sorted(list, p, f)
      BY <1>2
    <2> DEFINE before == Sorted(list, p, f)[q].sortedItems
               after == Evaluated(Sorted(list, p, f), q)
    <2>1a. DOMAIN after = DOMAIN before /\ \A k \in DOMAIN after : after[k].id = before[k].id
      BY <2>1, EvaluatedType
    <2>1b. InOrder(before)
      BY <1>4
    <2>2. InOrder(after)
      <3> HIDE DEF before, after
      <3>1. QED
        BY <2>1a, <2>1b, SameOrder
    <2>3. QED
      BY <1>3, <2>2
  <1>6. ASSUME NEW q \in DOMAIN list
        PROVE  Positioned(list, p, f)[q].sortedItems # Undefined
    <2>1. Positioned(list, p, f)[q] \in Whole
      BY <1>2, Element
    <2>2. Positioned(list, p, f)[q].sortedItems \in Seq(Cites)
      BY <2>1 DEF Whole
    <2>3. QED
      BY <2>2 DEF NothingThrows
  <1>7. DOMAIN citationByIndex' = DOMAIN list
        /\ \A q \in DOMAIN list : citationByIndex'[q].sortedItems # Undefined
                                  /\ InOrder(citationByIndex'[q].sortedItems)
    BY <1>1, <1>2, <1>5, <1>6
  <1>8. /\ DOMAIN citationById' = DOMAIN byId
        /\ \A id \in DOMAIN byId \ IDs(list) : citationById'[id] = byId[id]
        /\ \A q \in DOMAIN list : citationById'[list[q].citationID] = citationByIndex'[q]
    BY RenderTypes
  <1>9. ASSUME NEW id \in DOMAIN byId
        PROVE  citationById'[id].sortedItems # Undefined /\ InOrder(citationById'[id].sortedItems)
    <2>1. CASE id \in IDs(list)
      <3>1. PICK q \in DOMAIN list : list[q].citationID = id
        BY <2>1 DEF IDs
      <3>2. QED
        BY <1>7, <1>8, <3>1
    <2>2. CASE id \notin IDs(list)
      BY <1>8, <2>2
    <2>3. QED
      BY <2>1, <2>2
  <1>10. QED
    BY <1>7, <1>8, <1>9, Zenon DEF TablesInOrder

LEMMA ListIsComplete ==
    ASSUME NothingThrows, TablesInOrder, NEW byId, NEW list, NEW cites \in Clusters,
           NEW slots, NEW p, Submission(slots, p), Made(byId, list, cites, slots, p)
    PROVE  Complete(list)
  <1>1. \A q \in DOMAIN slots \ {p} :
           /\ slots[q].citationID \in DOMAIN citationById
           /\ list[q].sortedItems = citationById[slots[q].citationID].sortedItems
    BY DEF Submission, Made
  <1>2. \A q \in DOMAIN slots \ {p} : list[q].sortedItems # Undefined
    BY <1>1 DEF TablesInOrder
  <1>3. list[p].sortedItems # Undefined
    BY FreshFacts DEF Made, NothingThrows
  <1>4. QED
    BY <1>2, <1>3 DEF Made, Complete

LEMMA SubmissionKeepsOrder ==
    ASSUME SortedAt = "before positions", NothingThrows, KeysAreNumbers,
           StateInv, TablesInOrder,
           NEW cites \in Clusters, NEW slots, NEW p, Submission(slots, p),
           Complete(ListOf(cites, slots, p)) =>
              \A q \in DOMAIN slots \ {p} : slots[q].citationID \in IDs(document),
           processCitationCluster(cites, slots, p)
    PROVE  TablesInOrder'
  <1> DEFINE byId == ByIdOf(cites, slots, p)
             list == ListOf(cites, slots, p)
  <1>1. \/ FailToRetrieve(slots[p], cites)
        \/ FailToPosition(byId, list)
        \/ Complete(list) /\ Render(byId, list, p, bibliography, Texts)
    BY Zenon DEF processCitationCluster, ByIdOf, ListOf, FreshCites
  <1>2. Typed(document)
    BY StateFacts
  <1>3. Made(byId, list, cites, slots, p)
    BY StateFacts, SubmissionFacts
  <1>4. Complete(list) => \A q \in DOMAIN slots \ {p} : slots[q].citationID \in IDs(document)
    OBVIOUS
  <1> HIDE DEF byId, list
  <1>5. Complete(list)
    BY <1>3, ListIsComplete
  <1>6. Render(byId, list, p, bibliography, Texts)
    BY <1>1, <1>5 DEF FailToRetrieve, FailToPosition, Retrievable, NothingThrows
  <1>7. /\ Known(byId) /\ list \in Seq(Citations) /\ Distinct(list)
        /\ IDs(list) \subseteq DOMAIN byId /\ p \in DOMAIN list
        /\ DOMAIN list = DOMAIN slots /\ IDs(list) = IDs(slots)
        /\ DOMAIN byId = DOMAIN citationById \cup {slots[p].citationID}
        /\ \A id \in DOMAIN citationById :
              id # slots[p].citationID => byId[id] = citationById[id]
        /\ \A q \in DOMAIN slots :
              /\ list[q].citationID = slots[q].citationID
              /\ q # p => list[q].sortedItems = citationById[slots[q].citationID].sortedItems
    BY <1>3 DEF Made
  <1>8. list \in Seq(Whole)
    BY <1>5, <1>7, CompleteIsWhole
  <1>9. ASSUME NEW q \in DOMAIN list \ {p}
        PROVE  Texts[list[q].citationID] \in TextSet /\ InOrder(list[q].sortedItems)
    <2>1. list[q].citationID \in IDs(document)
      BY <1>4, <1>5, <1>7
    <2>2. PICK r \in DOMAIN document : document[r].citationID = list[q].citationID
      BY <2>1 DEF IDs
    <2>3. Texts[list[q].citationID] \in TextSet
      BY <1>2, <2>2, TextsFacts
    <2>4. InOrder(list[q].sortedItems)
      BY <1>7 DEF Submission, TablesInOrder
    <2>5. QED
      BY <2>3, <2>4
  <1>10. ASSUME NEW id \in DOMAIN byId \ IDs(list)
         PROVE  byId[id].sortedItems # Undefined /\ InOrder(byId[id].sortedItems)
    <2>1. id # slots[p].citationID
      BY <1>7 DEF IDs
    <2>2. QED
      BY <1>7, <2>1 DEF TablesInOrder
  <1>11. QED
    BY <1>6, <1>7, <1>8, <1>9, <1>10, RenderKeepsOrder

LEMMA ProcessKeepsOrder ==
    ASSUME SortedAt = "before positions", NothingThrows, KeysAreNumbers,
           StateInv, TablesInOrder, ProcessCitationCluster
    PROVE  TablesInOrder'
  <1>1. PICK cites \in Clusters, slots \in Layouts :
           \E p \in DOMAIN slots : MaySubmit(slots, p) /\ processCitationCluster(cites, slots, p)
    BY DEF ProcessCitationCluster
  <1>2. PICK p \in DOMAIN slots : MaySubmit(slots, p) /\ processCitationCluster(cites, slots, p)
    BY <1>1
  <1>3. QED
    BY <1>2, MaySubmitFacts, SubmissionKeepsOrder

LEMMA AppendKeepsOrder ==
    ASSUME SortedAt = "before positions", NothingThrows, KeysAreNumbers,
           StateInv, TablesInOrder, AppendCitationCluster
    PROVE  TablesInOrder'
  <1>1. PICK cites \in Clusters : \E slots, p :
           /\ Submission(slots, p)
           /\ \A q \in DOMAIN slots \ {p} :
                 /\ q \in DOMAIN citationByIndex
                 /\ slots[q].citationID = citationByIndex[q].citationID
           /\ DOMAIN citationByIndex \subseteq DOMAIN slots \ {p}
           /\ processCitationCluster(cites, slots, p)
    BY AppendStep
  <1>2. PICK slots, p :
           /\ Submission(slots, p)
           /\ \A q \in DOMAIN slots \ {p} :
                 /\ q \in DOMAIN citationByIndex
                 /\ slots[q].citationID = citationByIndex[q].citationID
           /\ DOMAIN citationByIndex \subseteq DOMAIN slots \ {p}
           /\ processCitationCluster(cites, slots, p)
    BY <1>1
  <1>3. Complete(ListOf(cites, slots, p)) =>
           \A q \in DOMAIN slots \ {p} : slots[q].citationID \in IDs(document)
    BY <1>2, AppendedKnown
  <1>4. QED
    BY <1>2, <1>3, SubmissionKeepsOrder

LEMMA PreviewKeepsOrder ==
    ASSUME NothingThrows, StateInv, TablesInOrder, PreviewCitationCluster
    PROVE  TablesInOrder'
  <1>1. PICK cites \in Clusters, slots \in Layouts : \E p \in DOMAIN slots :
           MaySubmit(slots, p) /\ previewCitationCluster(cites, slots, p)
    BY DEF PreviewCitationCluster
  <1>2. PICK p \in DOMAIN slots : MaySubmit(slots, p) /\ previewCitationCluster(cites, slots, p)
    BY <1>1
  <1>3. Submission(slots, p)
    BY <1>2, MaySubmitFacts
  <1>4. Made(ByIdOf(cites, slots, p), ListOf(cites, slots, p), cites, slots, p)
    BY <1>3, StateFacts, SubmissionFacts
  <1>5. Complete(ListOf(cites, slots, p))
    BY <1>3, <1>4, ListIsComplete
  <1>6. ~FailToRetrieve(slots[p], cites)
    BY DEF FailToRetrieve, Retrievable, NothingThrows
  <1>7. ~FailToPosition(ByIdOf(cites, slots, p), ListOf(cites, slots, p))
    BY <1>5 DEF FailToPosition
  <1>8. /\ DOMAIN citationByIndex' = DOMAIN citationByIndex
        /\ \A q \in DOMAIN citationByIndex :
              citationByIndex'[q].sortedItems = citationByIndex[q].sortedItems
        /\ DOMAIN citationById' = IDs(citationByIndex)
        /\ \A q \in DOMAIN citationByIndex :
              citationById'[citationByIndex[q].citationID] = citationByIndex'[q]
    BY <1>2, <1>6, <1>7, PreviewStep, Zenon
  <1>9. \A q \in DOMAIN citationByIndex' : /\ citationByIndex'[q].sortedItems # Undefined
                                           /\ InOrder(citationByIndex'[q].sortedItems)
    BY <1>8 DEF TablesInOrder
  <1>10. ASSUME NEW id \in DOMAIN citationById'
         PROVE  /\ citationById'[id].sortedItems # Undefined
                /\ InOrder(citationById'[id].sortedItems)
    <2>1. PICK q \in DOMAIN citationByIndex : citationByIndex[q].citationID = id
      BY <1>8 DEF IDs
    <2>2. QED
      BY <1>8, <1>9, <2>1
  <1>11. QED
    BY <1>9, <1>10, Zenon DEF TablesInOrder

\* What Restart renders, for the two lemmas about it.
RestartsAs(slots, source) ==
    /\ IDs(document) \subseteq IDs(slots)
    /\ \A id \in IDs(document) : source[id] = id
    /\ Render([id \in IDs(slots) |-> OfID(Saved(slots, source), id)],
              Saved(slots, source), 1, bibliography',
              [id \in IDs(slots) |-> OfID(document, source[id]).text])

\* What is known of the table, the list and the texts that are rendered.
Restores(slots, source, byId, list, saved) ==
    /\ \A id \in IDs(document) : source[id] = id
    /\ list = Saved(slots, source)
    /\ Render(byId, list, 1, bibliography', saved)
    /\ list \in Seq(Whole) /\ Distinct(list) /\ DOMAIN list = DOMAIN slots
    /\ IDs(list) = IDs(slots) /\ 1 \in DOMAIN list
    /\ Known(byId) /\ DOMAIN byId = IDs(list)
    /\ \A q \in DOMAIN list : /\ saved[list[q].citationID] \in TextSet
                              /\ list[q].citationID = slots[q].citationID
    /\ \A q \in DOMAIN list : \E r \in DOMAIN document :
          /\ document[r].citationID = source[slots[q].citationID]
          /\ saved[list[q].citationID] = document[r].text
          /\ list[q].sortedItems = document[r].text.cites

LEMMA RestartParts ==
    ASSUME StateInv, NEW slots \in Layouts, NEW source \in [IDs(slots) -> IDs(document)],
           RestartsAs(slots, source)
    PROVE  \E byId, list, saved : Restores(slots, source, byId, list, saved)
  <1> DEFINE list == Saved(slots, source)
             byId == [id \in IDs(slots) |-> OfID(list, id)]
             saved == [id \in IDs(slots) |-> OfID(document, source[id]).text]
  <1>1. /\ list \in Seq(Whole) /\ Distinct(list) /\ DOMAIN list = DOMAIN slots
        /\ IDs(list) = IDs(slots)
        /\ \A q \in DOMAIN slots :
              /\ list[q].citationID = slots[q].citationID
              /\ \E r \in DOMAIN document :
                    /\ document[r].citationID = source[slots[q].citationID]
                    /\ OfID(document, source[slots[q].citationID]) = document[r]
                    /\ list[q].sortedItems = document[r].text.cites
    BY StateFacts, SavedFacts
  <1>2. Known(byId) /\ DOMAIN byId = IDs(list)
    <2>1. list \in Seq(Citations) /\ byId = [id \in IDs(list) |-> OfID(list, id)]
      BY <1>1, WholeIsListed
    <2> HIDE DEF list, byId
    <2>2. QED
      BY <1>1, <2>1, PreviewTable
  <1>3. ASSUME NEW q \in DOMAIN list
        PROVE  /\ saved[list[q].citationID] \in TextSet
               /\ \E r \in DOMAIN document :
                     /\ document[r].citationID = source[slots[q].citationID]
                     /\ saved[list[q].citationID] = document[r].text
                     /\ list[q].sortedItems = document[r].text.cites
    <2>1. list[q].citationID \in IDs(slots) /\ list[q].citationID = slots[q].citationID
      BY <1>1 DEF IDs
    <2>2. PICK r \in DOMAIN document :
             /\ document[r].citationID = source[slots[q].citationID]
             /\ OfID(document, source[slots[q].citationID]) = document[r]
             /\ list[q].sortedItems = document[r].text.cites
      BY <1>1
    <2>3. saved[list[q].citationID] = document[r].text
      BY <2>1, <2>2
    <2> HIDE DEF list, saved
    <2>4. QED
      BY <2>2, <2>3, StateFacts, TextsFacts
  <1>4. 1 \in DOMAIN list
    BY <1>1, LayoutFacts
  <1>5. Render(byId, list, 1, bibliography', saved)
    BY DEF RestartsAs
  <1>6. list = Saved(slots, source) /\ \A id \in IDs(document) : source[id] = id
    BY DEF RestartsAs
  <1>7. \A q \in DOMAIN list : list[q].citationID = slots[q].citationID
    BY <1>1
  <1> HIDE DEF list, byId, saved
  <1>8. Restores(slots, source, byId, list, saved)
    BY <1>1, <1>2, <1>3, <1>4, <1>5, <1>6, <1>7, Zenon DEF Restores
  <1>9. QED
    BY <1>8

LEMMA RestartKeepsOrder ==
    ASSUME SortedAt = "before positions", NothingThrows, KeysAreNumbers,
           StateInv, TextsInOrder, Restart
    PROVE  TablesInOrder'
  <1>1. PICK slots \in Layouts : \E source \in [IDs(slots) -> IDs(document)] :
           RestartsAs(slots, source)
    BY RestartStep DEF RestartsAs
  <1>2. PICK source \in [IDs(slots) -> IDs(document)] : RestartsAs(slots, source)
    BY <1>1
  <1>3. PICK byId, list, saved : Restores(slots, source, byId, list, saved)
    BY <1>2, RestartParts
  <1>4. \A q \in DOMAIN list : InOrder(list[q].sortedItems)
    BY <1>3 DEF Restores, TextsInOrder
  <1>5. /\ Render(byId, list, 1, bibliography', saved)
        /\ list \in Seq(Whole) /\ Distinct(list) /\ 1 \in DOMAIN list
        /\ Known(byId) /\ DOMAIN byId = IDs(list)
        /\ \A q \in DOMAIN list : saved[list[q].citationID] \in TextSet
    BY <1>3 DEF Restores
  <1>6. QED
    BY <1>4, <1>5, RenderKeepsOrder

LEMMA NextSettles ==
    ASSUME Next, Settled, StateInv', Current'
    PROVE  /\ Settled'
           /\ outcome' = "returned" =>
                 CitesSame(document', citationByIndex')
  <1>1. Typed(document')
    BY Zenon DEF StateInv, TypeOK, Typed, TextSet, Distinct
  <1>2. CASE outcome' = "returned"
    <2>1. /\ citationByIndex' \in Seq(Whole)
          /\ TextsOf(document', citationByIndex', bibliography')
      BY <1>2 DEF Current, DocumentIsCurrent, TextsOf
    <2>2. SettledIn(document') /\ CitesSame(document', citationByIndex')
      BY <1>1, <2>1, ReturnedSettles, Zenon
    <2>3. QED
      BY <2>1, <2>2 DEF Settled
  <1>3. CASE outcome' # "returned"
    BY <1>3, OnlyReturnsChange DEF Settled
  <1>4. QED
    BY <1>2, <1>3

\* The texts are as sorted as the processor's list.
LEMMA NextKeepsOrder ==
    ASSUME Next, SortedAt = "before positions", NothingThrows, KeysAreNumbers,
           StateInv, TablesInOrder, TextsInOrder, Settled, StateInv', Current'
    PROVE  TablesInOrder' /\ TextsInOrder'
  <1>1. TablesInOrder'
    BY ProcessKeepsOrder, AppendKeepsOrder, PreviewKeepsOrder, RestartKeepsOrder DEF Next
  <1>2. CASE outcome' = "returned"
    <2>1. ASSUME NEW q \in DOMAIN document'
          PROVE  InOrder(document'[q].text.cites)
      <3>1. /\ q \in DOMAIN citationByIndex'
            /\ DOMAIN document'[q].text.cites = DOMAIN citationByIndex'[q].sortedItems
            /\ \A k \in DOMAIN document'[q].text.cites :
                  document'[q].text.cites[k].id = citationByIndex'[q].sortedItems[k].id
        BY <1>2, NextSettles DEF CitesSame
      <3>2. InOrder(citationByIndex'[q].sortedItems)
        BY <1>1, <3>1 DEF TablesInOrder
      <3>3. QED
        BY <3>1, <3>2, SameOrder
    <2>2. QED
      BY <1>1, <2>1 DEF TextsInOrder
  <1>3. CASE outcome' # "returned"
    BY <1>1, <1>3, OnlyReturnsChange DEF TextsInOrder
  <1>4. QED
    BY <1>2, <1>3

Unedited(list) ==
    /\ DOMAIN list = DOMAIN document
    /\ \A q \in DOMAIN document : /\ list[q].citationID = document[q].citationID
                                  /\ list[q].noteIndex = document[q].noteIndex

GivenBack(list, saved) ==
    \A q \in DOMAIN document : /\ list[q].sortedItems = document[q].text.cites
                               /\ saved[list[q].citationID] = document[q].text

\* A document whose citations have the ids and notes they had is given back to
\* the processor as it was.
LEMMA UneditedList ==
    ASSUME StateInv, NEW slots \in Layouts, NEW source \in [IDs(slots) -> IDs(document)],
           NEW byId, NEW list, NEW saved, Restores(slots, source, byId, list, saved),
           Unedited(list)
    PROVE  GivenBack(list, saved)
  <1>1. SUFFICES ASSUME NEW q \in DOMAIN document
                 PROVE  /\ list[q].sortedItems = document[q].text.cites
                        /\ saved[list[q].citationID] = document[q].text
    BY DEF GivenBack
  <1>1a. q \in DOMAIN slots /\ list[q].citationID = slots[q].citationID
    BY DEF Restores, Unedited
  <1>2. slots[q].citationID = document[q].citationID
    BY <1>1a DEF Unedited
  <1>3. source[slots[q].citationID] = document[q].citationID
    <2>1. document[q].citationID \in IDs(document)
      BY DEF IDs
    <2>2. \A id \in IDs(document) : source[id] = id
      BY DEF Restores
    <2>3. QED
      BY <1>2, <2>1, <2>2
  <1>4. PICK r \in DOMAIN document :
           /\ document[r].citationID = source[slots[q].citationID]
           /\ saved[list[q].citationID] = document[r].text
           /\ list[q].sortedItems = document[r].text.cites
    BY DEF Restores, Unedited
  <1>5. r = q
    BY <1>3, <1>4 DEF StateInv, Distinct
  <1>6. QED
    BY <1>4, <1>5

LEMMA RestartRenders ==
    ASSUME LookAlikesApart, OrderIsKept, StateInv, TextInv, Settled,
           SortedAt = "before positions" => TextsInOrder,
           NEW slots \in Layouts, NEW source \in [IDs(slots) -> IDs(document)],
           NEW byId, NEW list, NEW saved, Restores(slots, source, byId, list, saved),
           Unedited(list)
    PROVE  \A q \in DOMAIN document : citationByIndex'[q].sortedItems = document[q].text.cites
  <1>1. /\ list \in Seq(Whole) /\ 1 \in DOMAIN list
        /\ Render(byId, list, 1, bibliography', saved)
    BY DEF Restores
  <1>1a. DOMAIN list = DOMAIN document
    BY DEF Unedited
  <1>2. \A q \in DOMAIN document : list[q].sortedItems = document[q].text.cites
    BY UneditedList DEF GivenBack
  <1>3. PICK f \in SortOrders(list[1].sortedItems) : citationByIndex' = Positioned(list, 1, f)
    BY <1>1, RenderSorts, Zenon
  <1>4. SortedAt # "after positions"
    BY DEF OrderIsKept
  <1>5. list[1] \in Whole
    BY <1>1, Element
  <1>6. list[1].sortedItems \in Seq(Cites)
    BY <1>5 DEF Whole
  <1>7. SortBefore(list[1].sortedItems, f) = list[1].sortedItems
    <2>1. CASE SortedAt = "never"
      BY <2>1 DEF SortBefore
    <2>2. CASE SortedAt = "before positions"
      <3>1. InOrder(list[1].sortedItems)
        BY <1>1, <1>1a, <1>2, <2>2 DEF TextsInOrder
      <3>2. QED
        BY <1>6, <3>1, SortedStays DEF SortBefore
    <2>3. QED
      BY <2>1, <2>2 DEF OrderIsKept
  <1>8. Sorted(list, 1, f) = list
    <2>1. [list EXCEPT ![1].sortedItems = list[1].sortedItems] = list
      <3>1. [list[1] EXCEPT !.sortedItems = list[1].sortedItems] = list[1]
        BY <1>5 DEF Whole
      <3>2. list = [q \in DOMAIN list |-> list[q]]
        <4>1. list \in Seq(Whole)
          BY <1>1
        <4>2. QED
          BY <4>1, PlaceByPlace
      <3>3. QED
        BY <3>1, <3>2
    <2>2. QED
      BY <1>7, <2>1 DEF Sorted
  <1>9. \A q \in DOMAIN list : citationByIndex'[q].sortedItems = Evaluated(list, q)
    <2> DEFINE sorted == Sorted(list, 1, f)
               new == Positioned(list, 1, f)
    <2>1. /\ \A q \in DOMAIN list : q # 1 => new[q].sortedItems = Evaluated(sorted, q)
          /\ new[1].sortedItems = SortAfter(Evaluated(sorted, 1), f)
      BY <1>1, PositionedFacts
    <2>2. SortAfter(Evaluated(list, 1), f) = Evaluated(list, 1)
      BY <1>4 DEF SortAfter
    <2>3. QED
      BY <1>3, <1>8, <2>1, <2>2
  <1>10. /\ AsCitations(document) \in Seq(Whole)
         /\ DOMAIN AsCitations(document) = DOMAIN document
    BY StateFacts, DocFacts
  <1>11. SameCites(list, AsCitations(document))
    BY <1>2 DEF SameCites, AsCitations, Unedited
  <1>12. \A q \in DOMAIN list : Evaluated(list, q) = Evaluated(AsCitations(document), q)
    BY <1>1, <1>10, <1>11, EvaluationAgrees
  <1>13. QED
    BY <1>1a, <1>9, <1>12 DEF Settled, SettledIn

LEMMA FieldByField ==
    ASSUME NEW A, NEW B, NEW C, NEW x \in [citationID : A, noteIndex : B, text : C]
    PROVE  x = [citationID |-> x.citationID, noteIndex |-> x.noteIndex, text |-> x.text]
  OBVIOUS

LEMMA RestartLeavesDocument ==
    ASSUME LookAlikesApart, OrderIsKept, StateInv, TextInv, Settled,
           SortedAt = "before positions" => TextsInOrder,
           Restart, Slots(document') = Slots(document)
    PROVE  document' = document
  <1>1. PICK slots \in Layouts : \E source \in [IDs(slots) -> IDs(document)] :
           RestartsAs(slots, source)
    BY RestartStep DEF RestartsAs
  <1>2. PICK source \in [IDs(slots) -> IDs(document)] : RestartsAs(slots, source)
    BY <1>1
  <1>3. PICK byId, list, saved : Restores(slots, source, byId, list, saved)
    BY <1>2, RestartParts
  <1>4. /\ Render(byId, list, 1, bibliography', saved)
        /\ list \in Seq(Whole) /\ 1 \in DOMAIN list /\ list = Saved(slots, source)
    BY <1>3 DEF Restores
  <1>5. PICK returned : document' =
           [q \in DOMAIN list |->
              [citationID |-> list[q].citationID, noteIndex |-> list[q].noteIndex,
               text |-> IF q \in returned
                        THEN Text(citationByIndex'[q].sortedItems, bibliography')
                        ELSE saved[list[q].citationID]]]
    BY <1>4 DEF Render
  <1>6. Unedited(list)
    <2>1. /\ DOMAIN document' = DOMAIN list
          /\ \A q \in DOMAIN list : /\ document'[q].citationID = list[q].citationID
                                    /\ document'[q].noteIndex = list[q].noteIndex
      BY <1>5
    <2>2. DOMAIN document' = DOMAIN document
      <3>1. \A doc : DOMAIN Slots(doc) = DOMAIN doc
        BY DEF Slots
      <3>2. QED
        BY <3>1, Zenon
    <2>3. \A q \in DOMAIN document : /\ document'[q].citationID = document[q].citationID
                                     /\ document'[q].noteIndex = document[q].noteIndex
      <3>1. \A doc : \A q \in DOMAIN doc : Slots(doc)[q] = <<doc[q].citationID, doc[q].noteIndex>>
        BY DEF Slots
      <3>2. \A q \in DOMAIN document :
               <<document'[q].citationID, document'[q].noteIndex>> =
                  <<document[q].citationID, document[q].noteIndex>>
        BY <2>2, <3>1, Zenon
      <3>3. QED
        BY <3>2
    <2>4. QED
      BY <2>1, <2>2, <2>3 DEF Unedited
  <1>7. \A q \in DOMAIN document : citationByIndex'[q].sortedItems = document[q].text.cites
    BY <1>3, <1>6, RestartRenders
  <1>8. GivenBack(list, saved)
    BY <1>3, <1>6, UneditedList
  <1>9. \A i \in Shown : SuffixOf(bibliography)[i] = SuffixOf(bibliography')[i]
    <2>1. Registered(bibliography', Cited(list))
      BY <1>4, RenderPositions
    <2>2. Cited(list) = Shown
      BY <1>2, <1>4, StateFacts, SavedItems DEF RestartsAs
    <2>3. Registered(bibliography', Shown) /\ Registered(bibliography, Shown)
      BY <2>1, <2>2 DEF TextInv
    <2>4. QED
      BY <2>3, SameSuffixes
  <1>10. \A q \in DOMAIN document :
            Text(citationByIndex'[q].sortedItems, bibliography') = document[q].text
    <2>1. SUFFICES ASSUME NEW q \in DOMAIN document
                   PROVE  Text(document[q].text.cites, bibliography') = document[q].text
      BY <1>7
    <2>2. \A k \in DOMAIN document[q].text.cites : document[q].text.cites[k].id \in Shown
      <3>1. ItemsOf(document[q].text.cites) \subseteq Shown
        BY DEF Shown
      <3>2. QED
        BY <3>1 DEF ItemsOf
    <2>3. Text(document[q].text.cites, bibliography') = Text(document[q].text.cites, bibliography)
      BY <1>9, <2>2 DEF Text
    <2>4. QED
      BY <2>3 DEF TextInv
  <1>11. \A q \in DOMAIN document :
            document'[q] = [citationID |-> document[q].citationID,
                            noteIndex |-> document[q].noteIndex,
                            text |-> document[q].text]
    BY <1>5, <1>6, <1>8, <1>10 DEF Unedited, GivenBack
  <1> DEFINE R == [citationID : CitationID, noteIndex : Nat, text : TextSet]
  <1>12. document \in Seq(R)
    BY StateFacts DEF Typed
  <1>13. \A x \in R : x = [citationID |-> x.citationID, noteIndex |-> x.noteIndex, text |-> x.text]
    BY FieldByField
  <1> HIDE DEF R
  <1>14. \A q \in DOMAIN document : document'[q] = document[q]
    <2>1. \A q \in DOMAIN document : document[q] \in R
      BY <1>12, Element
    <2>2. QED
      BY <1>11, <1>13, <2>1, Zenon
  <1>15. document = [q \in DOMAIN document |-> document[q]]
    BY <1>12, PlaceByPlace
  <1>16. document' = [q \in DOMAIN document |-> document'[q]]
    BY <1>5, <1>6 DEF Unedited
  <1>17. QED
    BY <1>14, <1>15, <1>16

\* The invariant of a document that restarts leave alone.
UneditedInv ==
    /\ StateInv
    /\ TextInv
    /\ Current
    /\ Settled
    /\ SortedAt = "before positions" => TablesInOrder /\ TextsInOrder

LEMMA InitialUnedited ==
    ASSUME Init
    PROVE  UneditedInv
  <1>1. citationById = <<>> /\ citationByIndex = <<>> /\ document = <<>> /\ DOMAIN <<>> = {}
    BY DEF Init
  <1>2. QED
    BY <1>1, InitialState, InitialTexts
       DEF UneditedInv, Settled, SettledIn, TablesInOrder, TextsInOrder

LEMMA StepKeepsUnedited ==
    ASSUME LookAlikesApart, OrderIsKept, UneditedInv, [Next]_vars,
           [InPairs(bibliography, bibliography')]_vars
    PROVE  UneditedInv'
  <1>1. SortedAt # "after positions"
    BY DEF OrderIsKept
  <1>2. StateInv' /\ TextInv' /\ Current'
    BY <1>1, StepKeepsState, StepKeepsTexts DEF UneditedInv
  <1>3. CASE Next
    <2>1. Settled'
      BY <1>2, <1>3, NextSettles DEF UneditedInv
    <2>2. CASE SortedAt = "before positions"
      BY <1>2, <1>3, <2>1, <2>2, NextKeepsOrder DEF UneditedInv, OrderIsKept
    <2>3. QED
      BY <1>2, <2>1, <2>2 DEF UneditedInv
  <1>4. CASE UNCHANGED vars
    <2>1. /\ citationById' = citationById /\ citationByIndex' = citationByIndex
          /\ document' = document
      BY <1>4 DEF vars
    <2>2. Settled' /\ (SortedAt = "before positions" => TablesInOrder' /\ TextsInOrder')
      BY <2>1 DEF UneditedInv, Settled, TablesInOrder, TextsInOrder
    <2>3. QED
      BY <1>2, <2>2 DEF UneditedInv
  <1>5. QED
    BY <1>3, <1>4

\* Restoring the document in a new processor, when its citations are the ones
\* it has, in the notes they are in, gives every citation the text it has: the
\* cites are saved sorted and with their marks, evaluating them again gives the
\* same marks, and the suffixes come out as they were.  The last takes sort
\* keys that tell look-alikes apart, and a document whose texts were current:
\* at most two look-alikes at a time, as in TextsStayCurrent.  A style that
\* sorts cites must not have been interrupted, because a call that throws
\* leaves cites unsorted.
THEOREM UneditedStays ==
    ASSUME LookAlikesApart, OrderIsKept
    PROVE  Spec /\ [][InPairs(bibliography, bibliography')]_vars => RestartChangesNothing
  <1>1. Init => UneditedInv
    BY InitialUnedited
  <1>2. UneditedInv /\ [Next]_vars /\ [InPairs(bibliography, bibliography')]_vars
        => UneditedInv'
    BY StepKeepsUnedited
  <1>3. UneditedInv /\ [Next]_vars =>
           [(Restart /\ Slots(document') = Slots(document)) => document' = document]_vars
    BY RestartLeavesDocument DEF UneditedInv
  <1>4. QED
    BY <1>1, <1>2, <1>3, PTL DEF Spec, RestartChangesNothing
=============================================================================
