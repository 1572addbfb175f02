--------------------------- MODULE NameRegProofs ----------------------------
(***************************************************************************)
(* Proofs about NameReg: for any items, names and styles the registries    *)
(* agree between the calls, and as long as citations are only added the    *)
(* names on show stay apart, have one form, and show no more than needed.  *)
(*                                                                         *)
(* The code works in loops over lists, which NameReg has as folds; the     *)
(* module Folding turns each into steps, and the lemmas here say what one  *)
(* step does (RenderStepIn, DeletedIn, InsertedIn, TurnStepIn) and then    *)
(* what the loop does (RenderedIn, DeletesIn, InsertsIn, ReturnedIn).      *)
(*                                                                         *)
(* The argument for the names: a name on show is "waiting" if it is right  *)
(* or its item is tainted.  Rendering a cite keeps what waits, since the   *)
(* items that evalname does not taint are those listed at the level of the *)
(* new name's own form, which the new name is told from (KeptStep, on      *)
(* ParamSeparates and FormKept); and in the end every citation of a        *)
(* tainted item has its turn, which makes it right (FreshRight).           *)
(***************************************************************************)
EXTENDS NameReg, FiniteSetTheorems, WellFoundedInduction, TLAPS


-----------------------------------------------------------------------------
(* Lists. *)

AddStep(list, x, c) == AddTo(list, x)
FAdd == INSTANCE Folding WITH Op <- AddStep

AmongStep(some, x, set) == IF x \in set THEN Append(some, x) ELSE some
FAmong == INSTANCE Folding WITH Op <- AmongStep

\* The members of a list and its places.
LEMMA ToSetSeq ==
    ASSUME NEW A, NEW list \in Seq(A)
    PROVE  /\ ToSet(list) \subseteq A
           /\ DOMAIN list = 1 .. Len(list) /\ Len(list) \in Nat
  BY DEF ToSet

\* Contains is membership.
LEMMA ContainsIn ==
    ASSUME NEW A, NEW list \in Seq(A), NEW x
    PROVE  Contains(list, x) <=> x \in ToSet(list)
  BY DEF Contains, ToSet

\* Appending adds one member, and keeps the members distinct if it is new.
LEMMA AppendIn ==
    ASSUME NEW A, NEW list \in Seq(A), NEW x \in A
    PROVE  /\ Append(list, x) \in Seq(A)
           /\ ToSet(Append(list, x)) = ToSet(list) \cup {x}
           /\ IsInjective(list) /\ x \notin ToSet(list) => IsInjective(Append(list, x))
  <1> DEFINE t == Append(list, x)
  <1>1. /\ t \in Seq(A) /\ Len(t) = Len(list) + 1
        /\ \A k \in 1 .. Len(list) : t[k] = list[k]
        /\ t[Len(list) + 1] = x
    OBVIOUS
  <1> HIDE DEF t
  <1>2. DOMAIN t = 1 .. Len(list) + 1 /\ DOMAIN list = 1 .. Len(list) /\ Len(list) \in Nat
    BY <1>1
  <1>3. DOMAIN t = DOMAIN list \cup {Len(list) + 1}
    BY <1>2
  <1>4. ToSet(t) = ToSet(list) \cup {x}
    BY <1>1, <1>2, <1>3 DEF ToSet
  <1>5. ASSUME IsInjective(list), x \notin ToSet(list)
        PROVE  IsInjective(t)
    BY <1>1, <1>2, <1>3, <1>5 DEF ToSet, IsInjective
  <1>6. QED
    BY <1>1, <1>4, <1>5 DEF t

\* AddTo adds a member once.
LEMMA AddToIn ==
    ASSUME NEW A, NEW list \in Seq(A), NEW x \in A
    PROVE  /\ AddTo(list, x) \in Seq(A)
           /\ ToSet(AddTo(list, x)) = ToSet(list) \cup {x}
           /\ IsInjective(list) => IsInjective(AddTo(list, x))
  BY ContainsIn, AppendIn DEF AddTo

\* AddAll adds each of some members once.
LEMMA AddAllIn ==
    ASSUME NEW A, NEW list \in Seq(A), NEW more \in Seq(A)
    PROVE  /\ AddAll(list, more) \in Seq(A)
           /\ ToSet(AddAll(list, more)) = ToSet(list) \cup ToSet(more)
           /\ IsInjective(list) => IsInjective(AddAll(list, more))
  <1> DEFINE Y == [k \in 0 .. Len(more) |->
                     {t \in Seq(A) : /\ ToSet(t) = ToSet(list) \cup {more[j] : j \in 1 .. k}
                                     /\ IsInjective(list) => IsInjective(t)}]
  <1>1. AddAll(list, more) = FAdd!Folded(list, more, 0)
    BY DEF AddAll, FoldLeft, MapThenFoldSet, Max, FAdd!Folded, FAdd!Last, AddStep
  <1>2. DOMAIN more = 1 .. Len(more) /\ Len(more) \in Nat
    OBVIOUS
  <1>3. FAdd!StaysIn(Seq(A), more, Len(more), 0)
    <2>1. \A k \in 1 .. Len(more) : more[k] \in A
      OBVIOUS
    <2>2. QED
      BY <2>1, AddToIn DEF FAdd!StaysIn, AddStep
  <1>4. list \in Y[0]
    OBVIOUS
  <1>5. FAdd!Keeps(Seq(A), Y, more, Len(more), 0)
    <2>1. SUFFICES ASSUME NEW k \in 1 .. Len(more), NEW t \in Seq(A), t \in Y[k - 1]
                   PROVE  AddTo(t, more[k]) \in Y[k]
      BY DEF FAdd!Keeps, AddStep
    <2>2. more[k] \in A /\ k \in 0 .. Len(more) /\ k - 1 \in 0 .. Len(more)
      OBVIOUS
    <2>3. {more[j] : j \in 1 .. k} = {more[j] : j \in 1 .. k - 1} \cup {more[k]}
      <3>1. 1 .. k = (1 .. k - 1) \cup {k}
        OBVIOUS
      <3>2. QED
        BY <3>1
    <2>4. ToSet(t) = ToSet(list) \cup {more[j] : j \in 1 .. k - 1}
          /\ (IsInjective(list) => IsInjective(t))
      BY <2>1, <2>2
    <2>5. ToSet(AddTo(t, more[k])) = ToSet(list) \cup {more[j] : j \in 1 .. k}
      BY <2>2, <2>3, <2>4, AddToIn
    <2>6. /\ AddTo(t, more[k]) \in Seq(A)
          /\ IsInjective(list) => IsInjective(AddTo(t, more[k]))
      BY <2>2, <2>4, AddToIn
    <2>7. QED
      BY <2>2, <2>5, <2>6
  <1> HIDE DEF Y
  <1>6. FAdd!Folded(list, more, 0) \in Y[Len(more)]
    BY <1>2, <1>3, <1>4, <1>5, FAdd!FoldKeeps
  <1>7. ToSet(more) = {more[j] : j \in 1 .. Len(more)}
    BY <1>2 DEF ToSet
  <1>8. QED
    BY <1>1, <1>2, <1>6, <1>7 DEF Y

\* Among leaves the members of a list that are in a set, in their order.
LEMMA AmongIn ==
    ASSUME NEW A, NEW set, NEW list \in Seq(A)
    PROVE  /\ Among(set, list) \in Seq(A)
           /\ ToSet(Among(set, list)) = set \cap ToSet(list)
           /\ IsInjective(list) => IsInjective(Among(set, list))
           /\ ToSet(list) \subseteq set => Among(set, list) = list
  <1> DEFINE n == Len(list)
             Y == [k \in 0 .. n |->
                     {t \in Seq(A) : /\ ToSet(t) = set \cap {list[j] : j \in 1 .. k}
                                     /\ IsInjective(list) => IsInjective(t)
                                     /\ ToSet(list) \subseteq set =>
                                           t = [j \in 1 .. k |-> list[j]]}]
  <1>1. Among(set, list) = FAmong!Folded(<<>>, list, set)
    BY DEF Among, FoldLeft, MapThenFoldSet, Max, FAmong!Folded, FAmong!Last, AmongStep
  <1>2. DOMAIN list = 1 .. n /\ n \in Nat
    OBVIOUS
  <1>3. FAmong!StaysIn(Seq(A), list, n, set)
    BY DEF FAmong!StaysIn, AmongStep
  <1>4. <<>> \in Y[0]
    BY DEF ToSet, IsInjective
  <1>5. FAmong!Keeps(Seq(A), Y, list, n, set)
    <2>1. SUFFICES ASSUME NEW k \in 1 .. n, NEW t \in Seq(A), t \in Y[k - 1]
                   PROVE  AmongStep(t, list[k], set) \in Y[k]
      BY DEF FAmong!Keeps
    <2>2. list[k] \in A /\ k \in 0 .. n /\ k - 1 \in 0 .. n
      OBVIOUS
    <2>3. {list[j] : j \in 1 .. k} = {list[j] : j \in 1 .. k - 1} \cup {list[k]}
      <3>1. 1 .. k = (1 .. k - 1) \cup {k}
        OBVIOUS
      <3>2. QED
        BY <3>1
    <2>4. /\ ToSet(t) = set \cap {list[j] : j \in 1 .. k - 1}
          /\ IsInjective(list) => IsInjective(t)
          /\ ToSet(list) \subseteq set => t = [j \in 1 .. k - 1 |-> list[j]]
      BY <2>1, <2>2
    <2>5. CASE list[k] \in set
      <3>1. ToSet(Append(t, list[k])) = set \cap {list[j] : j \in 1 .. k}
        BY <2>2, <2>3, <2>4, <2>5, AppendIn
      <3>2. ASSUME IsInjective(list)
            PROVE  IsInjective(Append(t, list[k]))
        <4>1. list[k] \notin ToSet(t)
          <5>1. \A j \in 1 .. k - 1 : list[j] # list[k]
            BY <1>2, <3>2 DEF IsInjective
          <5>2. QED
            BY <2>4, <5>1
        <4>2. QED
          BY <2>2, <2>4, <3>2, <4>1, AppendIn
      <3>3. ASSUME ToSet(list) \subseteq set
            PROVE  Append(t, list[k]) = [j \in 1 .. k |-> list[j]]
        <4>1. t = [j \in 1 .. k - 1 |-> list[j]]
          BY <2>4, <3>3
        <4>2. Len(t) = k - 1
          BY <4>1, <2>2
        <4> DEFINE u == Append(t, list[k])
        <4>3. /\ u \in Seq(A) /\ Len(u) = k /\ u[k] = list[k]
              /\ \A j \in 1 .. k - 1 : u[j] = list[j]
          BY <4>1, <4>2, <2>2
        <4>4. \A j \in 1 .. k : u[j] = list[j]
          <5> HIDE DEF u
          <5>1. QED
            BY <4>3
        <4>5. u = [j \in 1 .. k |-> u[j]]
          <5> HIDE DEF u
          <5>1. QED
            BY <4>3
        <4>6. QED
          BY <4>4, <4>5
      <3>4. Append(t, list[k]) \in Seq(A)
        BY <2>2
      <3>5. QED
        BY <2>2, <2>5, <3>1, <3>2, <3>3, <3>4 DEF AmongStep
    <2>6. CASE list[k] \notin set
      <3>1. list[k] \in ToSet(list)
        BY <1>2 DEF ToSet
      <3>2. QED
        BY <2>2, <2>3, <2>4, <2>6, <3>1 DEF AmongStep
    <2>7. QED
      BY <2>5, <2>6
  <1> HIDE DEF Y
  <1>6. FAmong!Folded(<<>>, list, set) \in Y[n]
    <2>1. <<>> \in Seq(A)
      OBVIOUS
    <2> HIDE DEF n
    <2>2. QED
      BY <2>1, <1>2, <1>3, <1>4, <1>5, FAmong!FoldKeeps
  <1>7. ToSet(list) = {list[j] : j \in 1 .. n}
    BY <1>2 DEF ToSet
  <1>8. list = [j \in 1 .. n |-> list[j]]
    OBVIOUS
  <1>9. QED
    BY <1>1, <1>2, <1>6, <1>7, <1>8 DEF Y

\* Places are the places of a list, in order.
LEMMA PlacesIn ==
    ASSUME NEW A, NEW list \in Seq(A)
    PROVE  /\ Places(list) \in Seq(1 .. Len(list))
           /\ ToSet(Places(list)) = DOMAIN list
           /\ IsInjective(Places(list))
           /\ Len(Places(list)) = Len(list)
           /\ \A k \in 1 .. Len(list) : Places(list)[k] = k
  <1>1. DOMAIN list = 1 .. Len(list) /\ Len(list) \in Nat
    OBVIOUS
  <1> DEFINE t == [k \in 1 .. Len(list) |-> k]
  <1>2. Places(list) = t
    BY <1>1 DEF Places
  <1>3. t \in Seq(1 .. Len(list)) /\ DOMAIN t = 1 .. Len(list) /\ Len(t) = Len(list)
    BY <1>1
  <1>4. \A k \in 1 .. Len(list) : t[k] = k
    OBVIOUS
  <1> HIDE DEF t
  <1>5. ToSet(t) = 1 .. Len(list) /\ IsInjective(t)
    BY <1>3, <1>4 DEF ToSet, IsInjective
  <1>6. QED
    BY <1>1, <1>2, <1>3, <1>4, <1>5

\* The first place of some.
LEMMA MinIn ==
    ASSUME NEW I \in SUBSET Nat, I # {}
    PROVE  Min(I) \in I
  <1>1. PICK m \in I : \A k \in I : ~(<<k, m>> \in OpToRel(<, Nat))
    BY NatLessThanWellFounded, WFMin
  <1>2. \A k \in I : m <= k
    <2>1. SUFFICES ASSUME NEW k \in I PROVE m <= k
      OBVIOUS
    <2>2. m \in Nat /\ k \in Nat /\ ~(k < m)
      BY <1>1 DEF OpToRel
    <2>3. QED
      BY <2>2
  <1>3. QED
    BY <1>2 DEF Min

\* One list after another.
LEMMA ConcatIn ==
    ASSUME NEW A, NEW s \in Seq(A), NEW t \in Seq(A)
    PROVE  /\ s \o t \in Seq(A) /\ Len(s \o t) = Len(s) + Len(t)
           /\ \A k \in 1 .. Len(s) : (s \o t)[k] = s[k]
           /\ \A k \in 1 .. Len(t) : (s \o t)[Len(s) + k] = t[k]
  OBVIOUS

\* Taking a place out of a list leaves the members at the other places.
LEMMA RemoveAtIn ==
    ASSUME NEW A, NEW list \in Seq(A), NEW m \in 1 .. Len(list)
    PROVE  /\ RemoveAt(list, m) \in Seq(A)
           /\ Len(RemoveAt(list, m)) = Len(list) - 1
           /\ \A k \in 1 .. Len(list) - 1 :
                 RemoveAt(list, m)[k] = list[IF k < m THEN k ELSE k + 1]
  <1> DEFINE a == SubSeq(list, 1, m - 1)
             b == SubSeq(list, m + 1, Len(list))
  <1>1. /\ a \in Seq(A) /\ Len(a) = m - 1
        /\ \A k \in 1 .. m - 1 : a[k] = list[k]
    OBVIOUS
  <1>2. /\ b \in Seq(A) /\ Len(b) = Len(list) - m
        /\ \A k \in 1 .. Len(list) - m : b[k] = list[m + k]
    OBVIOUS
  <1> HIDE DEF a, b
  <1>3. /\ a \o b \in Seq(A) /\ Len(a \o b) = Len(list) - 1
        /\ m \in Int /\ Len(list) \in Nat
    <2>1. m \in Int /\ Len(list) \in Nat
      OBVIOUS
    <2>2. a \o b \in Seq(A) /\ Len(a \o b) = Len(a) + Len(b)
      BY <1>1, <1>2, ConcatIn
    <2>3. QED
      BY <1>1, <1>2, <2>1, <2>2
  <1>4. ASSUME NEW k \in 1 .. Len(list) - 1
        PROVE  (a \o b)[k] = list[IF k < m THEN k ELSE k + 1]
    <2>1. CASE k < m
      <3>1. k \in 1 .. Len(a)
        BY <1>1, <1>3, <2>1
      <3>2. QED
        BY <1>1, <1>2, <1>3, <2>1, <3>1
    <2>2. CASE ~(k < m)
      <3>1. /\ k - (m - 1) \in 1 .. Len(list) - m /\ m + (k - (m - 1)) = k + 1
            /\ (m - 1) + (k - (m - 1)) = k
        BY <1>3, <2>2
      <3>2. (a \o b)[k] = b[k - (m - 1)]
        BY <1>1, <1>2, <3>1, ConcatIn
      <3>3. QED
        BY <1>2, <2>2, <3>1, <3>2
    <2>3. QED
      BY <2>1, <2>2
  <1>5. QED
    BY <1>3, <1>4 DEF RemoveAt, a, b

\* Taking a member out of a list of distinct ones leaves the others.
LEMMA RemoveFirstIn ==
    ASSUME NEW A, NEW list \in Seq(A), NEW x
    PROVE  /\ RemoveFirst(list, x) \in Seq(A)
           /\ ToSet(RemoveFirst(list, x)) \subseteq ToSet(list)
           /\ ToSet(list) \ {x} \subseteq ToSet(RemoveFirst(list, x))
           /\ IsInjective(list) =>
                 /\ IsInjective(RemoveFirst(list, x))
                 /\ ToSet(RemoveFirst(list, x)) = ToSet(list) \ {x}
  <1>1. CASE ~\E i \in 1 .. Len(list) : list[i] = x
    <2>1. RemoveFirst(list, x) = list /\ x \notin ToSet(list)
      BY <1>1 DEF RemoveFirst, ToSet
    <2>2. QED
      BY <2>1
  <1>2. CASE \E i \in 1 .. Len(list) : list[i] = x
    <2> DEFINE m == SelectInSeq(list, LAMBDA v : v = x)
               t == RemoveAt(list, m)
    <2>1. m \in 1 .. Len(list) /\ list[m] = x
      <3> DEFINE I == {i \in 1 .. Len(list) : list[i] = x}
      <3>1. m = IF I # {} THEN Min(I) ELSE 0
        BY DEF SelectInSeq
      <3>2. I \in SUBSET Nat /\ I # {}
        BY <1>2
      <3>3. Min(I) \in I
        <4> HIDE DEF I
        <4>1. QED
          BY <3>2, MinIn
      <3>4. QED
        BY <3>1, <3>2, <3>3
    <2>2. RemoveFirst(list, x) = t
      BY <1>2 DEF RemoveFirst
    <2> HIDE DEF m
    <2>3. /\ t \in Seq(A) /\ Len(t) = Len(list) - 1
          /\ \A k \in 1 .. Len(list) - 1 : t[k] = list[IF k < m THEN k ELSE k + 1]
      BY <2>1, RemoveAtIn
    <2> HIDE DEF t
    <2>4. DOMAIN t = 1 .. Len(list) - 1 /\ DOMAIN list = 1 .. Len(list) /\ Len(list) \in Nat
      BY <2>3
    <2>5. ASSUME NEW k \in DOMAIN list, k # m
          PROVE  list[k] \in ToSet(t)
      <3>1. CASE k < m
        <4>1. k \in 1 .. Len(list) - 1
          BY <2>1, <2>4, <3>1
        <4>2. QED
          BY <2>3, <2>4, <3>1, <4>1 DEF ToSet
      <3>2. CASE ~(k < m)
        <4>1. k - 1 \in 1 .. Len(list) - 1 /\ ~(k - 1 < m) /\ (k - 1) + 1 = k
          BY <2>1, <2>4, <2>5, <3>2
        <4>2. t[k - 1] = list[k]
          BY <2>3, <4>1
        <4>3. QED
          BY <2>4, <4>1, <4>2 DEF ToSet
      <3>3. QED
        BY <3>1, <3>2
    <2>6. ASSUME NEW k \in DOMAIN t
          PROVE  /\ t[k] \in ToSet(list)
                 /\ IsInjective(list) => t[k] # x
      <3> DEFINE j == IF k < m THEN k ELSE k + 1
      <3>1. j \in DOMAIN list /\ j # m /\ t[k] = list[j]
        BY <2>1, <2>3, <2>4
      <3>2. QED
        BY <2>1, <2>4, <3>1 DEF ToSet, IsInjective
    <2>7. ASSUME IsInjective(list)
          PROVE  IsInjective(t)
      <3>1. SUFFICES ASSUME NEW k \in DOMAIN t, NEW j \in DOMAIN t, t[k] = t[j]
                     PROVE  k = j
        BY DEF IsInjective
      <3>2. /\ (IF k < m THEN k ELSE k + 1) = (IF j < m THEN j ELSE j + 1)
        BY <2>1, <2>3, <2>4, <2>7, <3>1 DEF IsInjective
      <3>3. QED
        BY <2>1, <2>4, <3>2
    <2>8. ToSet(t) \subseteq ToSet(list)
      BY <2>6 DEF ToSet
    <2>9. ToSet(list) \ {x} \subseteq ToSet(t)
      BY <2>1, <2>5 DEF ToSet
    <2>10. IsInjective(list) => x \notin ToSet(t)
      BY <2>6 DEF ToSet
    <2>11. QED
      BY <2>2, <2>3, <2>7, <2>8, <2>9, <2>10
  <1>3. QED
    BY <1>1, <1>2

-----------------------------------------------------------------------------
(* Names and their prefixes. *)

FullNames == {name \in Seq(Part) : Len(name) \in {1, 3}}
Keys == {key \in Seq(Part) : Len(key) \in 1 .. 3}
KeysOf(name) == {SubSeq(name, 1, n) : n \in 1 .. Len(name)}
Under(reg, key) == {child \in DOMAIN reg : Len(child) = Len(key) + 1 /\ IsPrefix(key, child)}

Registers ==
    {reg \in UNION {[D -> Seq(Item)] : D \in SUBSET Keys} :
        /\ IsFiniteSet(DOMAIN reg)
        /\ \A key \in DOMAIN reg : KeysOf(key) \subseteq DOMAIN reg}

\* The names of an item have one or three parts.
LEMMA NamesOf ==
    ASSUME NEW i \in Item
    PROVE  /\ Names[i] \in Seq(Seq(Part))
           /\ DOMAIN Names[i] = 1 .. Len(Names[i]) /\ Len(Names[i]) \in Nat
           /\ \A n \in DOMAIN Names[i] : Names[i][n] \in FullNames
  BY NamesAssumption DEF FullNames

\* A prefix has its length, its parts and its own prefixes.
LEMMA PrefixOf ==
    ASSUME NEW name \in Seq(Part), NEW n \in 1 .. Len(name)
    PROVE  /\ SubSeq(name, 1, n) \in Seq(Part)
           /\ Len(SubSeq(name, 1, n)) = n
           /\ \A k \in 1 .. n : SubSeq(name, 1, n)[k] = name[k]
           /\ \A m \in 1 .. n : SubSeq(SubSeq(name, 1, n), 1, m) = SubSeq(name, 1, m)
           /\ SubSeq(name, 1, Len(name)) = name
           /\ IsPrefix(SubSeq(name, 1, n), name)
           /\ KeysOf(SubSeq(name, 1, n)) \subseteq KeysOf(name)
  <1>1. /\ SubSeq(name, 1, n) \in Seq(Part)
        /\ Len(SubSeq(name, 1, n)) = n
        /\ \A k \in 1 .. n : SubSeq(name, 1, n)[k] = name[k]
    OBVIOUS
  <1>2. \A m \in 1 .. n : SubSeq(SubSeq(name, 1, n), 1, m) = SubSeq(name, 1, m)
    OBVIOUS
  <1>3. SubSeq(name, 1, Len(name)) = name
    OBVIOUS
  <1>4. IsPrefix(SubSeq(name, 1, n), name)
    <2>1. n <= Len(name) /\ n \in 1 .. n
      OBVIOUS
    <2>2. QED
      BY <1>1, <1>2, <2>1 DEF IsPrefix
  <1>5. KeysOf(SubSeq(name, 1, n)) \subseteq KeysOf(name)
    <2>1. \A m \in 1 .. n : m \in 1 .. Len(name)
      OBVIOUS
    <2>2. QED
      BY <1>1, <1>2, <2>1 DEF KeysOf
  <1>6. QED
    BY <1>1, <1>2, <1>3, <1>4, <1>5

\* A full name has three keys: the family name, the initials with it, and itself.
LEMMA KeysOfThree ==
    ASSUME NEW name \in Seq(Part), Len(name) = 3
    PROVE  /\ KeysOf(name) = {Family(name), Initials(name), name}
           /\ Family(name) \in Keys /\ Initials(name) \in Keys /\ name \in Keys
           /\ Len(Family(name)) = 1 /\ Len(Initials(name)) = 2
           /\ SubSeq(name, 1, 1) = Family(name) /\ SubSeq(name, 1, 2) = Initials(name)
           /\ SubSeq(name, 1, 3) = name
  <1>1. 1 .. Len(name) = {1, 2, 3}
    OBVIOUS
  <1>2. SubSeq(name, 1, 3) = name
    OBVIOUS
  <1>3. KeysOf(name) = {SubSeq(name, 1, 1), SubSeq(name, 1, 2), SubSeq(name, 1, 3)}
    BY <1>1 DEF KeysOf
  <1>4. \A n \in 1 .. 3 : SubSeq(name, 1, n) \in Seq(Part) /\ Len(SubSeq(name, 1, n)) = n
    OBVIOUS
  <1>5. QED
    BY <1>2, <1>3, <1>4 DEF Family, Initials, Keys

\* A literal name is its only key.
LEMMA KeysOfOne ==
    ASSUME NEW name \in Seq(Part), Len(name) = 1
    PROVE  KeysOf(name) = {name} /\ name \in Keys /\ Family(name) = name
  <1>1. 1 .. Len(name) = {1}
    OBVIOUS
  <1>2. SubSeq(name, 1, 1) = name
    OBVIOUS
  <1>3. QED
    BY <1>1, <1>2 DEF KeysOf, Keys, Family

\* A name has finitely many keys, which are keys of the registry.
LEMMA KeysOfFinite ==
    ASSUME NEW name \in FullNames
    PROVE  /\ KeysOf(name) \subseteq Keys /\ IsFiniteSet(KeysOf(name))
           /\ \A key \in KeysOf(name) : KeysOf(key) \subseteq KeysOf(name)
  <1>1. \A key \in KeysOf(name) : KeysOf(key) \subseteq KeysOf(name)
    BY PrefixOf DEF KeysOf, FullNames
  <1>2. CASE Len(name) = 1
    <2>1. KeysOf(name) = {name} /\ name \in Keys
      BY <1>2, KeysOfOne DEF FullNames
    <2>2. QED
      BY <1>1, <2>1, FS_Singleton
  <1>3. CASE Len(name) = 3
    <2>1. /\ KeysOf(name) = ({Family(name)} \cup {Initials(name)}) \cup {name}
          /\ KeysOf(name) \subseteq Keys
      BY <1>3, KeysOfThree DEF FullNames
    <2>2. IsFiniteSet({Family(name)})
      BY FS_Singleton
    <2>3. IsFiniteSet({Family(name)} \cup {Initials(name)})
      BY <2>2, FS_AddElement
    <2>4. IsFiniteSet(({Family(name)} \cup {Initials(name)}) \cup {name})
      BY <2>3, FS_AddElement
    <2>5. QED
      BY <1>1, <2>1, <2>4
  <1>4. QED
    BY <1>2, <1>3 DEF FullNames

\* What a register is: lists of items under keys, with all prefixes of a key.
LEMMA RegistersAre ==
    ASSUME NEW reg \in Registers
    PROVE  /\ DOMAIN reg \subseteq Keys /\ IsFiniteSet(DOMAIN reg)
           /\ \A key \in DOMAIN reg : reg[key] \in Seq(Item) /\ KeysOf(key) \subseteq DOMAIN reg
           /\ reg = [key \in DOMAIN reg |-> reg[key]]
  <1>1. PICK D \in SUBSET Keys : reg \in [D -> Seq(Item)]
    BY DEF Registers
  <1>2. QED
    BY <1>1 DEF Registers

\* And what makes one.
LEMMA AreRegisters ==
    ASSUME NEW D \in SUBSET Keys, NEW reg \in [D -> Seq(Item)], IsFiniteSet(D),
           \A key \in D : KeysOf(key) \subseteq D
    PROVE  reg \in Registers
  BY DEF Registers

\* addname adds the keys of the name and changes no list that is there.
LEMMA addnameIn ==
    ASSUME NEW reg \in Registers, NEW name \in FullNames
    PROVE  /\ addname(reg, name) \in Registers
           /\ DOMAIN addname(reg, name) = DOMAIN reg \cup KeysOf(name)
           /\ \A key \in DOMAIN reg : addname(reg, name)[key] = reg[key]
           /\ \A key \in KeysOf(name) \ DOMAIN reg : addname(reg, name)[key] = <<>>
  <1> DEFINE D == DOMAIN reg \cup KeysOf(name)
             new == [key \in D |-> IF key \in DOMAIN reg THEN reg[key] ELSE <<>>]
  <1>1. addname(reg, name) = new
    BY DEF addname, KeysOf
  <1>2. /\ DOMAIN reg \subseteq Keys /\ IsFiniteSet(DOMAIN reg)
        /\ \A key \in DOMAIN reg : reg[key] \in Seq(Item) /\ KeysOf(key) \subseteq DOMAIN reg
    BY RegistersAre
  <1>3. /\ KeysOf(name) \subseteq Keys /\ IsFiniteSet(KeysOf(name))
        /\ \A key \in KeysOf(name) : KeysOf(key) \subseteq KeysOf(name)
    BY KeysOfFinite
  <1>4. D \in SUBSET Keys /\ new \in [D -> Seq(Item)]
    BY <1>2, <1>3
  <1>5. IsFiniteSet(D)
    BY <1>2, <1>3, FS_Union
  <1>6. \A key \in D : KeysOf(key) \subseteq D
    BY <1>2, <1>3
  <1>7. new \in Registers
    <2> HIDE DEF D, new
    <2>1. QED
      BY <1>4, <1>5, <1>6, AreRegisters
  <1>8. QED
    BY <1>1, <1>7

-----------------------------------------------------------------------------
(* Counts, and the forms they ask for. *)

\* Count is the number of the children of a key.
LEMMA CountIs ==
    ASSUME NEW reg, NEW key
    PROVE  Count(reg, key) = Cardinality(Under(reg, key))
  BY DEF Count, Under

\* A key has finitely many children.
LEMMA UnderFinite ==
    ASSUME NEW reg \in Registers, NEW key
    PROVE  IsFiniteSet(Under(reg, key)) /\ Cardinality(Under(reg, key)) \in Nat
  <1>1. Under(reg, key) \in SUBSET DOMAIN reg
    BY DEF Under
  <1>2. IsFiniteSet(Under(reg, key))
    BY <1>1, RegistersAre, FS_Subset
  <1>3. QED
    BY <1>2, FS_CardinalityType

\* A count above one is of two children, and two children make one.
LEMMA CountedApart ==
    ASSUME NEW reg \in Registers, NEW key,
           NEW c \in Under(reg, key), NEW d \in Under(reg, key), c # d
    PROVE  Count(reg, key) > 1
  <1> DEFINE U == Under(reg, key)
  <1>1. IsFiniteSet(U) /\ Cardinality(U) \in Nat
    BY UnderFinite
  <1>2. IsFiniteSet(U \ {c}) /\ Cardinality(U \ {c}) = Cardinality(U) - 1
    <2> HIDE DEF U
    <2>1. c \in U
      BY DEF U
    <2>2. QED
      BY <1>1, <2>1, FS_RemoveElement
  <1>3. Cardinality(U \ {c}) # 0
    <2>1. d \in U \ {c}
      OBVIOUS
    <2> HIDE DEF U
    <2>2. QED
      BY <1>2, <2>1, FS_EmptySet
  <1>4. Cardinality(U \ {c}) \in Nat
    BY <1>2, FS_CardinalityType
  <1>5. QED
    BY <1>1, <1>2, <1>3, <1>4, CountIs

\* A count above one is of some child other than a given one.
LEMMA AnotherCounted ==
    ASSUME NEW reg \in Registers, NEW key, Count(reg, key) > 1, NEW c
    PROVE  \E d \in Under(reg, key) : d # c
  <1> DEFINE U == Under(reg, key)
  <1>1. IsFiniteSet(U) /\ Cardinality(U) \in Nat /\ Cardinality(U) > 1
    BY UnderFinite, CountIs
  <1>2. SUFFICES ASSUME U \subseteq {c} PROVE FALSE
    OBVIOUS
  <1> HIDE DEF U
  <1>3. IsFiniteSet({c}) /\ Cardinality({c}) = 1
    BY FS_Singleton
  <1>4. Cardinality(U) <= 1
    BY <1>2, <1>3, FS_Subset
  <1>5. QED
    BY <1>1, <1>4

StyleInv == style \in Styles

\* A plain form is a form.
LEMMA PlainIn == ASSUME StyleInv PROVE Plain \in 0 .. 2
  BY DEF Plain

\* What the keys ask for is a form.
LEMMA ParamIn ==
    ASSUME StyleInv, NEW reg, NEW name, NEW num
    PROVE  Param(reg, name, num) \in 0 .. 2
  BY PlainIn DEF Param

\* The form depends on the keys alone.
LEMMA ParamOfKeys ==
    ASSUME NEW reg, NEW new, DOMAIN reg = DOMAIN new, NEW name, NEW num
    PROVE  Param(reg, name, num) = Param(new, name, num)
  BY DEF Param, Count

\* Whose form is looked for: names with a given name, of authors the rule is for.
Looked(name, num) == Len(name) = 3 /\ ~Later(num)

\* The form that the keys ask for, of a name that is looked at.
LEMMA ParamIs ==
    ASSUME NEW reg, NEW name, NEW num, Looked(name, num)
    PROVE  Param(reg, name, num) =
              IF GivenNames /\ (\/ Count(reg, Initials(name)) > 1
                                \/ Count(reg, Family(name)) > 1 /\ ~style.initialize)
              THEN 2 ELSE IF Count(reg, Family(name)) > 1 THEN 1 ELSE Plain
  BY DEF Param, Looked

\* A registered name is a child of its initials, and these of its family.
LEMMA OwnChildren ==
    ASSUME NEW reg, NEW name \in Seq(Part), Len(name) = 3, KeysOf(name) \subseteq DOMAIN reg
    PROVE  /\ Initials(name) \in Under(reg, Family(name))
           /\ name \in Under(reg, Initials(name))
  <1>1. /\ Family(name) \in DOMAIN reg /\ Initials(name) \in DOMAIN reg /\ name \in DOMAIN reg
        /\ Len(Family(name)) = 1 /\ Len(Initials(name)) = 2
    BY KeysOfThree
  <1>2. IsPrefix(Initials(name), name)
    BY PrefixOf DEF Initials
  <1>3. IsPrefix(Family(name), Initials(name))
    <2>1. Initials(name) \in Seq(Part) /\ SubSeq(Initials(name), 1, 1) = Family(name)
      BY PrefixOf DEF Initials, Family
    <2>2. IsPrefix(SubSeq(Initials(name), 1, 1), Initials(name))
      BY <1>1, <2>1, PrefixOf
    <2>3. QED
      BY <2>1, <2>2
  <1>4. QED
    BY <1>1, <1>2, <1>3 DEF Under

\* One of two names is a beginning of the other if they are the same up to there.
LEMMA SameBeginning ==
    ASSUME NEW a \in Seq(Part), NEW b \in Seq(Part), Len(a) = 3, Len(b) = 3, NEW n \in 1 .. 3
    PROVE  /\ IsPrefix(SubSeq(a, 1, n), b) <=> SubSeq(a, 1, n) = SubSeq(b, 1, n)
           /\ \A m \in 1 .. n : SubSeq(a, 1, n) = SubSeq(b, 1, n) =>
                                    SubSeq(a, 1, m) = SubSeq(b, 1, m)
  <1>1. Len(SubSeq(a, 1, n)) = n /\ n <= Len(b)
        /\ \A m \in 1 .. n : SubSeq(SubSeq(a, 1, n), 1, m) = SubSeq(a, 1, m)
    BY PrefixOf
  <1>2. \A m \in 1 .. n : SubSeq(SubSeq(b, 1, n), 1, m) = SubSeq(b, 1, m)
    BY PrefixOf
  <1>3. n \in 1 .. n
    OBVIOUS
  <1>4. IsPrefix(SubSeq(a, 1, n), b) <=> SubSeq(a, 1, n) = SubSeq(b, 1, n)
    BY <1>1, <1>3 DEF IsPrefix
  <1>5. QED
    BY <1>1, <1>2, <1>4

\* A form prints the prefix that is one longer.
LEMMA PrintedIs ==
    ASSUME NEW name \in Seq(Part), Len(name) = 3, NEW form \in 0 .. 2
    PROVE  Printed(name, form) = SubSeq(name, 1, form + 1)
  <1>1. SubSeq(name, 1, 3) = name /\ form \in {0, 1, 2}
    BY KeysOfThree
  <1>2. CASE form = 0
    BY <1>2 DEF Printed, Family
  <1>3. CASE form = 1
    BY <1>3 DEF Printed, Initials
  <1>4. CASE form = 2
    BY <1>1, <1>4 DEF Printed
  <1>5. QED
    BY <1>1, <1>2, <1>3, <1>4

\* The form a name has tells it from all names whose keys are there.
Apart(a, form, b) == Most(a) # Most(b) => ~IsPrefix(Printed(a, form), b)

\* It does, if the style can show as much of both: a count is above one just
\* where another registered name begins the same way.
LEMMA ParamSeparates ==
    ASSUME StyleInv, NEW reg \in Registers, NEW a \in Seq(Part), NEW b \in Seq(Part), NEW num,
           Looked(a, num), Len(b) = 3,
           KeysOf(a) \subseteq DOMAIN reg, KeysOf(b) \subseteq DOMAIN reg
    PROVE  Apart(a, Param(reg, a, num), b)
  <1> DEFINE p == Param(reg, a, num)
  <1>1. Len(a) = 3 /\ p \in 0 .. 2
    BY ParamIn DEF Looked
  <1>2. SUFFICES ASSUME Most(a) # Most(b), SubSeq(a, 1, p + 1) = SubSeq(b, 1, p + 1)
                 PROVE  FALSE
    <2>1. Printed(a, p) = SubSeq(a, 1, p + 1)
      BY <1>1, PrintedIs
    <2>2. p + 1 \in 1 .. 3
      BY <1>1
    <2> HIDE DEF p
    <2>3. IsPrefix(SubSeq(a, 1, p + 1), b) <=> SubSeq(a, 1, p + 1) = SubSeq(b, 1, p + 1)
      BY <1>1, <2>2, SameBeginning
    <2>4. QED
      BY <2>1, <2>3 DEF Apart, p
  <1>3. /\ SubSeq(a, 1, 1) = Family(a) /\ SubSeq(a, 1, 2) = Initials(a) /\ SubSeq(a, 1, 3) = a
        /\ SubSeq(b, 1, 1) = Family(b) /\ SubSeq(b, 1, 2) = Initials(b) /\ SubSeq(b, 1, 3) = b
    BY <1>1, KeysOfThree
  <1>4. Family(a) = Family(b)
    <2>1. p + 1 \in 1 .. 3 /\ 1 \in 1 .. p + 1
      BY <1>1
    <2> HIDE DEF p
    <2>2. SubSeq(a, 1, 1) = SubSeq(b, 1, 1)
      BY <1>1, <1>2, <2>1, SameBeginning
    <2>3. QED
      BY <1>3, <2>2
  <1>5. /\ Initials(a) \in Under(reg, Family(a)) /\ a \in Under(reg, Initials(a))
        /\ Initials(b) \in Under(reg, Family(b)) /\ b \in Under(reg, Initials(b))
    BY <1>1, OwnChildren
  <1>6. p = IF GivenNames /\ (\/ Count(reg, Initials(a)) > 1
                              \/ Count(reg, Family(a)) > 1 /\ ~style.initialize)
            THEN 2 ELSE IF Count(reg, Family(a)) > 1 THEN 1 ELSE Plain
    BY ParamIs
  <1>7. CASE Initials(a) # Initials(b)
    <2>1. Count(reg, Family(a)) > 1
      BY <1>4, <1>5, <1>7, CountedApart
    <2>2. p = 1 \/ p = 2
      BY <1>6, <2>1
    <2>3. SubSeq(a, 1, 2) = SubSeq(b, 1, 2)
      <3> HIDE DEF p
      <3>1. p + 1 \in 1 .. 3 /\ 2 \in 1 .. p + 1
        BY <2>2
      <3>2. QED
        BY <1>1, <1>2, <3>1, SameBeginning
    <2>4. QED
      BY <1>3, <1>7, <2>3
  <1>8. CASE Initials(a) = Initials(b)
    <2>1. GivenNames /\ a # b
      BY <1>2, <1>8 DEF Most
    <2>2. Count(reg, Initials(a)) > 1
      BY <1>5, <1>8, <2>1, CountedApart
    <2>3. p = 2
      BY <1>6, <2>1, <2>2
    <2>4. SubSeq(a, 1, 3) = SubSeq(b, 1, 3)
      BY <1>2, <2>3
    <2>5. QED
      BY <1>3, <2>1, <2>4
  <1>9. QED
    BY <1>7, <1>8

-----------------------------------------------------------------------------
(* Rendering a name. *)

Workings ==
    [names : Registers, indexed : SUBSET Item, items : Seq(Item), pool : [Item -> Item],
     pools : [Item -> Seq(Item)], tainted : Seq(Item), refreshes : Seq(Item),
     forms : Seq(0 .. 2)]

TaintStep(t, n, others) == AddAll(t, others[n])
FTaint == INSTANCE Folding WITH Op <- TaintStep

\* Tainting the items of some levels keeps those tainted before.
LEMMA TaintedIn ==
    ASSUME NEW t \in Seq(Item), NEW others \in [1 .. 3 -> Seq(Item)], NEW levels \in Seq(1 .. 3),
           NEW all, all = FTaint!Folded(t, levels, others)
    PROVE  /\ all \in Seq(Item)
           /\ ToSet(t) \subseteq ToSet(all)
           /\ \A n \in ToSet(levels) : ToSet(others[n]) \subseteq ToSet(all)
  <1> DEFINE m == Len(levels)
             Y == [k \in 0 .. m |->
                     {r \in Seq(Item) :
                        /\ ToSet(t) \subseteq ToSet(r)
                        /\ \A j \in 1 .. k : ToSet(others[levels[j]]) \subseteq ToSet(r)}]
  <1>2. DOMAIN levels = 1 .. m /\ m \in Nat /\ \A k \in 1 .. m : levels[k] \in 1 .. 3
    OBVIOUS
  <1> HIDE DEF m
  <1>3. FTaint!StaysIn(Seq(Item), levels, m, others)
    BY <1>2, AddAllIn DEF FTaint!StaysIn, TaintStep
  <1>4. t \in Y[0]
    BY <1>2
  <1>5. FTaint!Keeps(Seq(Item), Y, levels, m, others)
    <2>1. SUFFICES ASSUME NEW k \in 1 .. m, NEW r \in Seq(Item), r \in Y[k - 1]
                   PROVE  AddAll(r, others[levels[k]]) \in Y[k]
      BY DEF FTaint!Keeps, TaintStep
    <2>2. k \in 0 .. m /\ k - 1 \in 0 .. m /\ \A j \in 1 .. k : j \in 1 .. k - 1 \/ j = k
      BY <1>2
    <2>3. /\ ToSet(t) \subseteq ToSet(r)
          /\ \A j \in 1 .. k - 1 : ToSet(others[levels[j]]) \subseteq ToSet(r)
      BY <2>1, <2>2
    <2>4. others[levels[k]] \in Seq(Item)
      BY <1>2
    <2>5. /\ AddAll(r, others[levels[k]]) \in Seq(Item)
          /\ ToSet(AddAll(r, others[levels[k]])) = ToSet(r) \cup ToSet(others[levels[k]])
      BY <2>4, AddAllIn
    <2>6. QED
      BY <2>2, <2>3, <2>5
  <1> HIDE DEF Y
  <1>6. FTaint!Folded(t, levels, others) \in Y[m]
    BY <1>2, <1>3, <1>4, <1>5, FTaint!FoldKeeps
  <1>7. m \in 0 .. m
    BY <1>2
  <1>8. /\ all \in Seq(Item) /\ ToSet(t) \subseteq ToSet(all)
        /\ \A j \in 1 .. m : ToSet(others[levels[j]]) \subseteq ToSet(all)
    BY <1>6, <1>7 DEF Y
  <1>9. \A n \in ToSet(levels) : \E j \in 1 .. m : levels[j] = n
    BY <1>2 DEF ToSet
  <1>10. \A n \in ToSet(levels) : ToSet(others[n]) \subseteq ToSet(all)
    BY <1>8, <1>9
  <1>11. QED
    BY <1>8, <1>10

\* What becomes of the registers: no key and no item is taken from them.
Grows(old, new) ==
    /\ DOMAIN old \subseteq DOMAIN new
    /\ \A key \in DOMAIN old : ToSet(old[key]) \subseteq ToSet(new[key])

\* Growth upon growth is growth.
LEMMA GrowsOn ==
    ASSUME NEW a, NEW b, NEW c, Grows(a, b), Grows(b, c)
    PROVE  Grows(a, c)
  BY DEF Grows

\* The other fields of a working state.
SameRest(v, w) ==
    /\ v.indexed = w.indexed /\ v.items = w.items /\ v.pool = w.pool
    /\ v.pools = w.pools /\ v.refreshes = w.refreshes

\* evalname records the item at the level of the form it asks for, and taints
\* the other items listed at the two other levels.
LEMMA evalnameIn ==
    ASSUME StyleInv, NEW w \in Workings, NEW item \in Item, NEW name \in FullNames, NEW num,
           KeysOf(name) \subseteq DOMAIN w.names
    PROVE  LET p == Param(w.names, name, num)
               u == evalname(w, item, name, num)
           IN  /\ u \in Workings /\ SameRest(u, w) /\ u.forms = Append(w.forms, p)
               /\ DOMAIN u.names = DOMAIN w.names
               /\ Grows(w.names, u.names) /\ ToSet(w.tainted) \subseteq ToSet(u.tainted)
               /\ Looked(name, num) => item \in ToSet(u.names[SubSeq(name, 1, p + 1)])
               /\ Looked(name, num) =>
                     \A n \in 1 .. 3 \ {p + 1} :
                        ToSet(w.names[SubSeq(name, 1, n)]) \ {item} \subseteq ToSet(u.tainted)
  <1> DEFINE p == Param(w.names, name, num)
             u == evalname(w, item, name, num)
             own == SubSeq(name, 1, p + 1)
             others == [n \in 1 .. 3 |-> RemoveFirst(w.names[SubSeq(name, 1, n)], item)]
             levels == Among({1, 2, 3} \ {p + 1}, <<1, 2, 3>>)
             all == FoldLeft(LAMBDA r, n : AddAll(r, others[n]), w.tainted, levels)
  <1>1. p \in 0 .. 2 /\ name \in Seq(Part) /\ Len(name) \in {1, 3}
    BY ParamIn DEF FullNames
  <1>2. /\ w.names \in Registers /\ w.tainted \in Seq(Item) /\ w.forms \in Seq(0 .. 2)
        /\ Append(w.forms, p) \in Seq(0 .. 2)
    BY <1>1 DEF Workings
  <1>3. CASE ~Looked(name, num)
    <2>1. u = [w EXCEPT !.forms = Append(@, p)]
      BY <1>1, <1>3 DEF evalname, Looked
    <2>2. u \in Workings /\ SameRest(u, w) /\ u.forms = Append(w.forms, p)
          /\ u.names = w.names /\ u.tainted = w.tainted
      BY <1>2, <2>1 DEF Workings, SameRest
    <2>3. QED
      BY <1>3, <2>2 DEF Grows
  <1>4. CASE Looked(name, num)
    <2>1. u = [w EXCEPT !.forms = Append(@, p), !.names[own] = AddTo(@, item), !.tainted = all]
      BY <1>4 DEF evalname, Looked
    <2>2. Len(name) = 3
      BY <1>4 DEF Looked
    <2>3. \A n \in 1 .. 3 : SubSeq(name, 1, n) \in DOMAIN w.names
      BY <2>2 DEF KeysOf
    <2>4. \A n \in 1 .. 3 : w.names[SubSeq(name, 1, n)] \in Seq(Item)
      BY <1>2, <2>3, RegistersAre
    <2>5. /\ others \in [1 .. 3 -> Seq(Item)]
          /\ \A n \in 1 .. 3 :
                ToSet(w.names[SubSeq(name, 1, n)]) \ {item} \subseteq ToSet(others[n])
      BY <2>4, RemoveFirstIn
    <2>6. levels \in Seq(1 .. 3) /\ ToSet(levels) = 1 .. 3 \ {p + 1}
      <3> DEFINE three == <<1, 2, 3>>
                 set == {1, 2, 3} \ {p + 1}
      <3>1. three \in Seq(1 .. 3) /\ ToSet(three) = {1, 2, 3} /\ 1 .. 3 = {1, 2, 3}
        BY DEF ToSet
      <3> HIDE DEF three, p
      <3>2. set \cap ToSet(three) = 1 .. 3 \ {p + 1}
        BY <3>1
      <3> HIDE DEF set
      <3>3. /\ Among(set, three) \in Seq(1 .. 3)
            /\ ToSet(Among(set, three)) = set \cap ToSet(three)
        BY <3>1, AmongIn
      <3>4. levels = Among(set, three)
        BY DEF set, three
      <3> HIDE DEF levels
      <3>5. QED
        BY <3>2, <3>3, <3>4
    <2>7. /\ all \in Seq(Item) /\ ToSet(w.tainted) \subseteq ToSet(all)
          /\ \A n \in ToSet(levels) : ToSet(others[n]) \subseteq ToSet(all)
      <3>1. all = FTaint!Folded(w.tainted, levels, others)
        BY DEF FoldLeft, MapThenFoldSet, Max, FTaint!Folded, FTaint!Last, TaintStep
      <3> HIDE DEF all, others, levels
      <3>2. /\ w.tainted \in Seq(Item) /\ others \in [1 .. 3 -> Seq(Item)]
            /\ levels \in Seq(1 .. 3)
        BY <1>2, <2>5, <2>6
      <3>3. QED
        BY ONLY <3>1, <3>2, TaintedIn
    <2> HIDE DEF others, levels
    <2>8. own \in DOMAIN w.names /\ w.names[own] \in Seq(Item)
      <3>1. p + 1 \in 1 .. 3
        BY <1>1
      <3> HIDE DEF p
      <3>2. QED
        BY <2>3, <2>4, <3>1
    <2> HIDE DEF all
    <2> DEFINE list == AddTo(w.names[own], item)
               new == [w.names EXCEPT ![own] = list]
    <2>9. list \in Seq(Item) /\ ToSet(list) = ToSet(w.names[own]) \cup {item}
      <3> HIDE DEF own
      <3>1. QED
        BY <2>8, AddToIn
    <2>10. /\ DOMAIN new = DOMAIN w.names /\ new[own] = list
           /\ \A key \in DOMAIN w.names : key # own => new[key] = w.names[key]
      BY <2>8
    <2>11. new \in Registers
      <3>1. /\ DOMAIN w.names \in SUBSET Keys /\ IsFiniteSet(DOMAIN w.names)
            /\ \A key \in DOMAIN w.names :
                  w.names[key] \in Seq(Item) /\ KeysOf(key) \subseteq DOMAIN w.names
        BY <1>2, RegistersAre
      <3> HIDE DEF list
      <3>2. new \in [DOMAIN w.names -> Seq(Item)]
        BY <2>9, <3>1
      <3> HIDE DEF new
      <3>3. QED
        BY <3>1, <3>2, AreRegisters
    <2> HIDE DEF list
    <2>12. /\ u.names = new /\ u.forms = Append(w.forms, p) /\ u.tainted = all
           /\ SameRest(u, w)
      BY <2>1 DEF Workings, SameRest, list
    <2>13. u \in Workings
      <3> HIDE DEF new, p, own
      <3>1. u = [names |-> new, indexed |-> w.indexed, items |-> w.items, pool |-> w.pool,
                 pools |-> w.pools, tainted |-> all, refreshes |-> w.refreshes,
                 forms |-> Append(w.forms, p)]
        BY <2>1 DEF Workings, new, list
      <3>2. QED
        BY <1>2, <2>7, <2>11, <3>1 DEF Workings
    <2> HIDE DEF new, own, u, p
    <2>14. Grows(w.names, new)
      BY <2>9, <2>10 DEF Grows
    <2>15. item \in ToSet(new[own])
      BY <2>9, <2>10
    <2>16. \A n \in 1 .. 3 \ {p + 1} :
              ToSet(w.names[SubSeq(name, 1, n)]) \ {item} \subseteq ToSet(all)
      BY <2>5, <2>6, <2>7
    <2>17. QED
      BY <2>7, <2>10, <2>12, <2>13, <2>14, <2>15, <2>16 DEF u, p, own
  <1>5. QED
    BY <1>3, <1>4

-----------------------------------------------------------------------------
(* Rendering a cite. *)

RenderStep(v, num, item) ==
    evalname([v EXCEPT !.names = addname(@, Names[item][num])], item, Names[item][num], num)
FRender == INSTANCE Folding WITH Op <- RenderStep

\* What is true of a name when its turn comes.
LEMMA RenderStepIn ==
    ASSUME StyleInv, NEW v \in Workings, NEW item \in Item, NEW num \in DOMAIN Names[item]
    PROVE  LET u == RenderStep(v, num, item)
               name == Names[item][num]
               p == Param(u.names, name, num)
           IN  /\ u \in Workings /\ SameRest(u, v) /\ u.forms = Append(v.forms, p)
               /\ DOMAIN u.names = DOMAIN v.names \cup KeysOf(name)
               /\ Grows(v.names, u.names) /\ ToSet(v.tainted) \subseteq ToSet(u.tainted)
               /\ Looked(name, num) => item \in ToSet(u.names[SubSeq(name, 1, p + 1)])
               /\ Looked(name, num) =>
                     \A n \in 1 .. 3 \ {p + 1} :
                        SubSeq(name, 1, n) \in DOMAIN v.names =>
                           ToSet(v.names[SubSeq(name, 1, n)]) \ {item} \subseteq ToSet(u.tainted)
  <1> DEFINE name == Names[item][num]
             reg == addname(v.names, name)
             w == [v EXCEPT !.names = reg]
             u == evalname(w, item, name, num)
             q == Param(w.names, name, num)
             p == Param(u.names, name, num)
  <1>1. name \in FullNames
    BY NamesOf
  <1>2. v.names \in Registers
    BY DEF Workings
  <1> HIDE DEF name
  <1>3. /\ reg \in Registers
        /\ DOMAIN reg = DOMAIN v.names \cup KeysOf(name)
        /\ \A key \in DOMAIN v.names : reg[key] = v.names[key]
    BY <1>1, <1>2, addnameIn
  <1> HIDE DEF reg
  <1>4. /\ w \in Workings /\ SameRest(w, v) /\ w.names = reg
        /\ w.forms = v.forms /\ w.tainted = v.tainted
    BY <1>3 DEF Workings, SameRest
  <1> HIDE DEF w
  <1>5. /\ u \in Workings /\ SameRest(u, w) /\ u.forms = Append(w.forms, q)
        /\ DOMAIN u.names = DOMAIN w.names
        /\ Grows(w.names, u.names) /\ ToSet(w.tainted) \subseteq ToSet(u.tainted)
        /\ Looked(name, num) => item \in ToSet(u.names[SubSeq(name, 1, q + 1)])
        /\ Looked(name, num) =>
              \A n \in 1 .. 3 \ {q + 1} :
                 ToSet(w.names[SubSeq(name, 1, n)]) \ {item} \subseteq ToSet(u.tainted)
    <2>1. KeysOf(name) \subseteq DOMAIN w.names
      BY <1>3, <1>4
    <2>2. QED
      BY <1>1, <1>4, <2>1, evalnameIn
  <1> HIDE DEF u
  <1>6. q = p
    BY <1>5, ParamOfKeys
  <1> HIDE DEF p, q
  <1>7. u = RenderStep(v, num, item)
    BY DEF u, w, reg, name, RenderStep
  <1>8. SameRest(u, v) /\ u.forms = Append(v.forms, p)
    BY <1>4, <1>5, <1>6 DEF SameRest
  <1>9. DOMAIN u.names = DOMAIN v.names \cup KeysOf(name)
    BY <1>3, <1>4, <1>5
  <1>10. Grows(v.names, u.names) /\ ToSet(v.tainted) \subseteq ToSet(u.tainted)
    BY <1>3, <1>4, <1>5 DEF Grows
  <1>11. Looked(name, num) =>
            \A n \in 1 .. 3 \ {p + 1} :
               SubSeq(name, 1, n) \in DOMAIN v.names =>
                  ToSet(v.names[SubSeq(name, 1, n)]) \ {item} \subseteq ToSet(u.tainted)
    BY <1>3, <1>4, <1>5, <1>6
  <1>12. QED
    BY <1>5, <1>6, <1>7, <1>8, <1>9, <1>10, <1>11 DEF p, name

\* The state before the first name is rendered.
Begun(w, item) == [w EXCEPT !.forms = <<>>, !.indexed = @ \cup {item}]

\* That state has the registers of the call.
LEMMA BegunIn ==
    ASSUME NEW w \in Workings, NEW item \in Item
    PROVE  LET v == Begun(w, item)
           IN  /\ v \in Workings /\ v.indexed = w.indexed \cup {item} /\ v.forms = <<>>
               /\ v.items = w.items /\ v.pool = w.pool /\ v.pools = w.pools
               /\ v.refreshes = w.refreshes /\ v.names = w.names /\ v.tainted = w.tainted
  <1>1. w.indexed \cup {item} \in SUBSET Item
    BY DEF Workings
  <1>2. <<>> \in Seq(0 .. 2)
    OBVIOUS
  <1>3. QED
    BY <1>1, <1>2 DEF Workings, Begun

\* Rendering a cite is a fold over the places of its names.
LEMMA RenderedFold ==
    ASSUME NEW w, NEW item
    PROVE  Rendered(w, item) = FRender!Folded(Begun(w, item), Places(Names[item]), item)
  BY DEF Rendered, Begun, FoldLeft, MapThenFoldSet, Max, FRender!Folded, FRender!Last, RenderStep

\* Every step of it leaves a working state.
LEMMA RenderStays ==
    ASSUME StyleInv, NEW item \in Item
    PROVE  /\ DOMAIN Places(Names[item]) = 1 .. Len(Names[item]) /\ Len(Names[item]) \in Nat
           /\ \A k \in 1 .. Len(Names[item]) :
                 Places(Names[item])[k] = k /\ k \in DOMAIN Names[item]
           /\ FRender!StaysIn(Workings, Places(Names[item]), Len(Names[item]), item)
  <1>1. /\ DOMAIN Places(Names[item]) = 1 .. Len(Names[item]) /\ Len(Names[item]) \in Nat
        /\ \A k \in 1 .. Len(Names[item]) : Places(Names[item])[k] = k /\ k \in DOMAIN Names[item]
    BY NamesOf, PlacesIn DEF Places
  <1>2. ASSUME NEW v \in Workings, NEW k \in 1 .. Len(Names[item])
        PROVE  RenderStep(v, Places(Names[item])[k], item) \in Workings
    BY <1>1, RenderStepIn
  <1>3. QED
    BY <1>1, <1>2 DEF FRender!StaysIn

\* What rendering a cite does to the working state.
LEMMA RenderedIn ==
    ASSUME StyleInv, NEW w \in Workings, NEW item \in Item
    PROVE  LET u == Rendered(w, item)
           IN  /\ u \in Workings /\ u.indexed = w.indexed \cup {item}
               /\ u.items = w.items /\ u.pool = w.pool /\ u.pools = w.pools
               /\ u.refreshes = w.refreshes
               /\ DOMAIN u.names = DOMAIN w.names
                     \cup UNION {KeysOf(Names[item][n]) : n \in DOMAIN Names[item]}
               /\ Grows(w.names, u.names) /\ ToSet(w.tainted) \subseteq ToSet(u.tainted)
               /\ DOMAIN u.forms = DOMAIN Names[item]
  <1> DEFINE names == Names[item]
             m == Len(names)
             at == Places(names)
             b == Begun(w, item)
             Y == [k \in 0 .. m |->
                     {v \in Workings :
                        /\ SameRest(v, b)
                        /\ DOMAIN v.names = DOMAIN w.names
                              \cup UNION {KeysOf(names[n]) : n \in 1 .. k}
                        /\ Grows(w.names, v.names) /\ ToSet(w.tainted) \subseteq ToSet(v.tainted)
                        /\ Len(v.forms) = k}]
  <1>1. /\ DOMAIN at = 1 .. m /\ m \in Nat
        /\ \A k \in 1 .. m : at[k] = k /\ k \in DOMAIN names
        /\ FRender!StaysIn(Workings, at, m, item)
        /\ DOMAIN names = 1 .. m
    BY RenderStays, NamesOf
  <1>2. /\ b \in Workings /\ b.indexed = w.indexed \cup {item} /\ b.forms = <<>>
        /\ b.items = w.items /\ b.pool = w.pool /\ b.pools = w.pools
        /\ b.refreshes = w.refreshes /\ b.names = w.names /\ b.tainted = w.tainted
    BY BegunIn
  <1>3. Rendered(w, item) = FRender!Folded(b, at, item)
    BY RenderedFold
  <1> HIDE DEF names, m, at, b
  <1>4. b \in Y[0]
    <2>1. UNION {KeysOf(names[n]) : n \in 1 .. 0} = {}
      OBVIOUS
    <2>2. SameRest(b, b) /\ Grows(w.names, b.names)
      BY <1>2 DEF SameRest, Grows
    <2>3. Len(<<>>) = 0 /\ 0 \in 0 .. m
      BY <1>1
    <2>4. QED
      BY <1>2, <2>1, <2>2, <2>3
  <1>5. FRender!Keeps(Workings, Y, at, m, item)
    <2>1. SUFFICES ASSUME NEW k \in 1 .. m, NEW v \in Workings, v \in Y[k - 1]
                   PROVE  RenderStep(v, k, item) \in Y[k]
      BY <1>1 DEF FRender!Keeps
    <2>2. k \in 0 .. m /\ k - 1 \in 0 .. m
      BY <1>1
    <2>3. /\ SameRest(v, b)
          /\ DOMAIN v.names = DOMAIN w.names \cup UNION {KeysOf(names[n]) : n \in 1 .. k - 1}
          /\ Grows(w.names, v.names) /\ ToSet(w.tainted) \subseteq ToSet(v.tainted)
          /\ Len(v.forms) = k - 1
      BY <2>1, <2>2
    <2> DEFINE u == RenderStep(v, k, item)
               p == Param(u.names, names[k], k)
    <2>4. /\ u \in Workings /\ SameRest(u, v) /\ u.forms = Append(v.forms, p)
          /\ DOMAIN u.names = DOMAIN v.names \cup KeysOf(names[k])
          /\ Grows(v.names, u.names) /\ ToSet(v.tainted) \subseteq ToSet(u.tainted)
      <3>1. k \in DOMAIN Names[item]
        BY <1>1 DEF names
      <3>2. QED
        BY <3>1, RenderStepIn DEF names
    <2> HIDE DEF u, p
    <2>5. UNION {KeysOf(names[n]) : n \in 1 .. k}
            = (UNION {KeysOf(names[n]) : n \in 1 .. k - 1}) \cup KeysOf(names[k])
      <3>1. 1 .. k = (1 .. k - 1) \cup {k}
        BY <1>1
      <3>2. QED
        BY <3>1
    <2>6. SameRest(u, b) /\ Grows(w.names, u.names) /\ ToSet(w.tainted) \subseteq ToSet(u.tainted)
      BY <2>3, <2>4 DEF SameRest, Grows
    <2>7. Len(u.forms) = k
      BY <1>1, <2>3, <2>4 DEF Workings
    <2>8. QED
      BY <2>2, <2>3, <2>4, <2>5, <2>6, <2>7 DEF u
  <1> HIDE DEF Y
  <1>6. FRender!Folded(b, at, item) \in Y[m]
    BY <1>1, <1>2, <1>4, <1>5, FRender!FoldKeeps
  <1> DEFINE u == Rendered(w, item)
  <1> HIDE DEF u
  <1>7. /\ u \in Workings /\ SameRest(u, b)
        /\ DOMAIN u.names = DOMAIN w.names \cup UNION {KeysOf(names[n]) : n \in 1 .. m}
        /\ Grows(w.names, u.names) /\ ToSet(w.tainted) \subseteq ToSet(u.tainted)
        /\ Len(u.forms) = m
    <2>1. m \in 0 .. m
      BY <1>1
    <2>2. u \in Y[m]
      BY <1>3, <1>6 DEF u
    <2>3. QED
      BY <2>1, <2>2 DEF Y
  <1>8. DOMAIN u.forms = 1 .. m
    BY <1>7 DEF Workings
  <1>9. QED
    BY <1>1, <1>2, <1>7, <1>8 DEF SameRest, u, names

\* A cite whose names are known gets the forms that the keys ask for, and is
\* listed under them.
Told(reg, item, n, form) ==
    /\ form = Param(reg, Names[item][n], n)
    /\ Looked(Names[item][n], n) => item \in ToSet(reg[SubSeq(Names[item][n], 1, form + 1)])

LEMMA RenderedAgain ==
    ASSUME StyleInv, NEW w \in Workings, NEW item \in Item,
           \A n \in DOMAIN Names[item] : KeysOf(Names[item][n]) \subseteq DOMAIN w.names
    PROVE  LET u == Rendered(w, item)
           IN  /\ DOMAIN u.names = DOMAIN w.names
               /\ \A n \in DOMAIN Names[item] : Told(u.names, item, n, u.forms[n])
  <1> DEFINE names == Names[item]
             m == Len(names)
             at == Places(names)
             b == Begun(w, item)
             Y == [k \in 0 .. m |->
                     {v \in Workings :
                        /\ DOMAIN v.names = DOMAIN w.names
                        /\ Len(v.forms) = k
                        /\ \A n \in 1 .. k : Told(v.names, item, n, v.forms[n])}]
  <1>1. /\ DOMAIN at = 1 .. m /\ m \in Nat
        /\ \A k \in 1 .. m : at[k] = k /\ k \in DOMAIN names
        /\ FRender!StaysIn(Workings, at, m, item)
        /\ DOMAIN names = 1 .. m
    BY RenderStays, NamesOf
  <1>2. b \in Workings /\ b.forms = <<>> /\ b.names = w.names
    BY BegunIn
  <1>3. Rendered(w, item) = FRender!Folded(b, at, item)
    BY RenderedFold
  <1>4. \A n \in 1 .. m : names[n] \in FullNames /\ KeysOf(names[n]) \subseteq DOMAIN w.names
    BY <1>1, NamesOf
  <1> HIDE DEF names, m, at, b
  <1>5. b \in Y[0]
    BY <1>1, <1>2
  <1>6. FRender!Keeps(Workings, Y, at, m, item)
    <2>1. SUFFICES ASSUME NEW k \in 1 .. m, NEW v \in Workings, v \in Y[k - 1]
                   PROVE  RenderStep(v, k, item) \in Y[k]
      BY <1>1 DEF FRender!Keeps
    <2>2. k \in 0 .. m /\ k - 1 \in 0 .. m
      BY <1>1
    <2>3. /\ DOMAIN v.names = DOMAIN w.names /\ Len(v.forms) = k - 1
          /\ \A n \in 1 .. k - 1 : Told(v.names, item, n, v.forms[n])
      BY <2>1, <2>2
    <2> DEFINE u == RenderStep(v, k, item)
               p == Param(u.names, names[k], k)
    <2>4. /\ u \in Workings /\ u.forms = Append(v.forms, p)
          /\ DOMAIN u.names = DOMAIN v.names \cup KeysOf(names[k])
          /\ Grows(v.names, u.names)
          /\ Looked(names[k], k) => item \in ToSet(u.names[SubSeq(names[k], 1, p + 1)])
      <3>1. k \in DOMAIN Names[item]
        BY <1>1 DEF names
      <3>2. QED
        BY <3>1, RenderStepIn DEF names
    <2> HIDE DEF u
    <2>5. DOMAIN u.names = DOMAIN w.names
      BY <1>4, <2>3, <2>4
    <2>6. p \in 0 .. 2
      BY ParamIn
    <2>7. /\ Len(u.forms) = k /\ u.forms[k] = p
          /\ \A n \in 1 .. k - 1 : u.forms[n] = v.forms[n]
      <3>1. v.forms \in Seq(0 .. 2)
        BY DEF Workings
      <3> HIDE DEF p
      <3>2. QED
        BY <1>1, <2>3, <2>4, <2>6, <3>1
    <2>8. ASSUME NEW n \in 1 .. k - 1
          PROVE  Told(u.names, item, n, u.forms[n])
      <3>1. Told(v.names, item, n, v.forms[n]) /\ u.forms[n] = v.forms[n]
        BY <2>3, <2>7
      <3>2. Param(u.names, names[n], n) = Param(v.names, names[n], n)
        BY <2>3, <2>5, ParamOfKeys
      <3>3. ASSUME Looked(names[n], n)
            PROVE  item \in ToSet(u.names[SubSeq(names[n], 1, u.forms[n] + 1)])
        <4>1. u.forms[n] \in 0 .. 2
          BY <3>1, ParamIn DEF Told
        <4>2. n \in 1 .. m /\ Len(names[n]) = 3
          BY <1>1, <3>3 DEF Looked
        <4>3. SubSeq(names[n], 1, u.forms[n] + 1) \in KeysOf(names[n])
          BY <4>1, <4>2 DEF KeysOf
        <4>4. SubSeq(names[n], 1, u.forms[n] + 1) \in DOMAIN v.names
          BY <1>4, <2>3, <4>2, <4>3
        <4>5. item \in ToSet(v.names[SubSeq(names[n], 1, u.forms[n] + 1)])
          BY <3>1, <3>3 DEF Told, names
        <4>6. QED
          BY <2>4, <4>4, <4>5 DEF Grows
      <3>4. QED
        BY <3>1, <3>2, <3>3 DEF Told, names
    <2>9. Told(u.names, item, k, u.forms[k])
      BY <2>4, <2>7 DEF Told, names, p
    <2>10. \A n \in 1 .. k : Told(u.names, item, n, u.forms[n])
      <3>1. \A n \in 1 .. k : n \in 1 .. k - 1 \/ n = k
        BY <1>1
      <3>2. QED
        BY <2>8, <2>9, <3>1
    <2>11. QED
      BY <2>2, <2>4, <2>5, <2>7, <2>10 DEF u
  <1> HIDE DEF Y
  <1>7. FRender!Folded(b, at, item) \in Y[m]
    BY <1>1, <1>2, <1>5, <1>6, FRender!FoldKeeps
  <1> DEFINE u == Rendered(w, item)
  <1> HIDE DEF u
  <1>8. DOMAIN u.names = DOMAIN w.names /\ \A n \in 1 .. m : Told(u.names, item, n, u.forms[n])
    <2>1. m \in 0 .. m
      BY <1>1
    <2>2. u \in Y[m]
      BY <1>3, <1>7 DEF u
    <2>3. QED
      BY <2>1, <2>2 DEF Y
  <1>9. QED
    BY <1>1, <1>8 DEF u, names

-----------------------------------------------------------------------------
(* What a new name does to one on show. *)

AllNames == style.rule \in {"all-names", "all-names-with-initials"}

\* More keys, more children.
LEMMA UnderGrows ==
    ASSUME NEW v \in Registers, NEW u \in Registers, DOMAIN v \subseteq DOMAIN u, NEW key
    PROVE  /\ Under(v, key) \subseteq Under(u, key)
           /\ Count(v, key) > 1 => Count(u, key) > 1
  <1>1. Under(v, key) \subseteq Under(u, key)
    BY DEF Under
  <1>2. ASSUME Count(v, key) > 1
        PROVE  Count(u, key) > 1
    <2>1. PICK c \in Under(v, key) : c # key
      BY <1>2, AnotherCounted
    <2>2. PICK d \in Under(v, key) : d # c
      BY <1>2, AnotherCounted
    <2>3. QED
      BY <1>1, <2>1, <2>2, CountedApart
  <1>3. QED
    BY <1>1, <1>2

\* Only the names of a family have keys under it, and only those with the
\* initials under these.
LEMMA UnderName ==
    ASSUME NEW v, NEW u, NEW b \in Seq(Part), Len(b) = 3, DOMAIN u = DOMAIN v \cup KeysOf(b),
           NEW a \in Seq(Part), Len(a) = 3
    PROVE  /\ Family(a) # Family(b) => Under(u, Family(a)) = Under(v, Family(a))
           /\ Initials(b) \in DOMAIN v => Under(u, Family(a)) = Under(v, Family(a))
           /\ Initials(a) # Initials(b) => Under(u, Initials(a)) = Under(v, Initials(a))
  <1>1. /\ KeysOf(b) = {Family(b), Initials(b), b}
        /\ Len(Family(b)) = 1 /\ Len(Initials(b)) = 2
        /\ Len(Family(a)) = 1 /\ Len(Initials(a)) = 2
        /\ SubSeq(b, 1, 2) = Initials(b) /\ SubSeq(b, 1, 1) = Family(b)
    BY KeysOfThree
  <1>2. SubSeq(Initials(b), 1, 1) = Family(b)
    BY PrefixOf DEF Initials, Family
  <1>3. SubSeq(Family(a), 1, 1) = Family(a) /\ SubSeq(Initials(a), 1, 2) = Initials(a)
    BY PrefixOf DEF Initials, Family
  <1>4. IsPrefix(Family(a), Initials(b)) => Family(a) = Family(b)
    BY <1>1, <1>2, <1>3 DEF IsPrefix
  <1>5. IsPrefix(Initials(a), b) => Initials(a) = Initials(b)
    BY <1>1, <1>3 DEF IsPrefix
  <1>6. ASSUME NEW c \in Under(u, Family(a)), c \notin DOMAIN v
        PROVE  c = Initials(b) /\ Family(a) = Family(b)
    <2>1. c \in KeysOf(b) /\ Len(c) = 2 /\ IsPrefix(Family(a), c)
      BY <1>1, <1>6 DEF Under
    <2>2. c = Initials(b)
      BY <1>1, <2>1
    <2>3. QED
      BY <1>4, <2>1, <2>2
  <1>7. ASSUME NEW c \in Under(u, Initials(a)), c \notin DOMAIN v
        PROVE  Initials(a) = Initials(b)
    <2>1. c \in KeysOf(b) /\ Len(c) = 3 /\ IsPrefix(Initials(a), c)
      BY <1>1, <1>7 DEF Under
    <2>2. c = b
      BY <1>1, <2>1
    <2>3. QED
      BY <1>5, <2>1, <2>2
  <1>8. \A key : Under(v, key) = {c \in Under(u, key) : c \in DOMAIN v}
    BY DEF Under
  <1>9. QED
    BY <1>6, <1>7, <1>8

\* A literal name adds a family, and nothing under one.
LEMMA UnderLiteral ==
    ASSUME NEW v, NEW u, NEW b \in Seq(Part), Len(b) = 1, DOMAIN u = DOMAIN v \cup KeysOf(b),
           NEW key \in Seq(Part), Len(key) > 0
    PROVE  Under(u, key) = Under(v, key)
  <1>1. KeysOf(b) = {b}
    BY KeysOfOne
  <1>2. Len(key) + 1 # 1
    OBVIOUS
  <1>3. QED
    BY <1>1, <1>2 DEF Under

\* A form f of a in the registers u is as asked, or b is not known by a's key.
AskedOr(u, a, num, f, b, n) ==
    \/ f = Param(u, a, num)
    \/ /\ Looked(b, n) /\ Param(u, b, n) # f
       /\ SubSeq(a, 1, f + 1) = SubSeq(b, 1, f + 1)

\* The form of one name after another one has its keys: it is as before, or the
\* name is known by a key that the other one is not.
LEMMA FormKept ==
    ASSUME StyleInv, AllNames, NEW v \in Registers, NEW u \in Registers,
           NEW b \in Seq(Part), Len(b) \in {1, 3}, DOMAIN u = DOMAIN v \cup KeysOf(b),
           NEW a \in Seq(Part), Len(a) = 3, KeysOf(a) \subseteq DOMAIN v, NEW num, NEW n,
           NEW f, f = Param(v, a, num)
    PROVE  AskedOr(u, a, num, f, b, n)
  <1> DEFINE fam == Count(v, Family(a)) > 1
             ini == Count(v, Initials(a)) > 1
             ufam == Count(u, Family(a)) > 1
             uini == Count(u, Initials(a)) > 1
  <1>0. SUFFICES \/ f = Param(u, a, num)
                 \/ /\ Looked(b, n) /\ Param(u, b, n) # f
                    /\ SubSeq(a, 1, f + 1) = SubSeq(b, 1, f + 1)
    BY DEF AskedOr
  <1>1. ~Later(num) /\ ~Later(n) /\ Looked(a, num)
    BY DEF AllNames, Later, Looked
  <1>2. /\ f = IF GivenNames /\ (ini \/ (fam /\ ~style.initialize))
               THEN 2 ELSE IF fam THEN 1 ELSE Plain
        /\ Param(u, a, num) = IF GivenNames /\ (uini \/ (ufam /\ ~style.initialize))
                              THEN 2 ELSE IF ufam THEN 1 ELSE Plain
    BY <1>1, ParamIs
  <1>3. (fam => ufam) /\ (ini => uini)
    <2>1. DOMAIN v \subseteq DOMAIN u
      OBVIOUS
    <2>2. QED
      BY <2>1, UnderGrows
  <1>4. /\ Plain \in 0 .. 2 /\ f \in 0 .. 2
        /\ Plain = 2 => GivenNames /\ ~style.initialize
        /\ Plain = 1 => style.initialize
    <2>1. style.initialize \/ GivenNames
      BY StylesAssumption DEF StyleInv, GivenNames
    <2>2. Plain \in 0 .. 2 /\ f \in 0 .. 2
      BY PlainIn, ParamIn
    <2>3. QED
      BY <2>1, <2>2 DEF Plain
  <1>5. /\ SubSeq(a, 1, 1) = Family(a) /\ SubSeq(a, 1, 2) = Initials(a)
        /\ Family(a) \in Seq(Part) /\ Len(Family(a)) = 1
        /\ Initials(a) \in Seq(Part) /\ Len(Initials(a)) = 2
    BY KeysOfThree DEF Keys
  <1>6. CASE Len(b) = 1
    <2>1. Under(u, Family(a)) = Under(v, Family(a)) /\ Under(u, Initials(a)) = Under(v, Initials(a))
      <3>1. Len(Family(a)) > 0 /\ Len(Initials(a)) > 0
        BY <1>5
      <3>2. QED
        BY <1>5, <1>6, <3>1, UnderLiteral, Zenon
    <2>2. ufam = fam /\ uini = ini
      BY <2>1, CountIs
    <2>3. QED
      BY <1>2, <2>2
  <1>7. CASE Len(b) = 3
    <2>1. Looked(b, n)
      BY <1>1, <1>7 DEF Looked
    <2>2. /\ SubSeq(b, 1, 1) = Family(b) /\ SubSeq(b, 1, 2) = Initials(b)
          /\ SubSeq(Initials(b), 1, 1) = Family(b) /\ SubSeq(Initials(a), 1, 1) = Family(a)
      BY <1>7, <1>5, KeysOfThree, PrefixOf DEF Initials, Family
    <2>3. Param(u, b, n) = IF GivenNames /\ (\/ Count(u, Initials(b)) > 1
                                             \/ Count(u, Family(b)) > 1 /\ ~style.initialize)
                           THEN 2 ELSE IF Count(u, Family(b)) > 1 THEN 1 ELSE Plain
      BY <2>1, ParamIs
    <2>0. /\ Family(a) # Family(b) => Under(u, Family(a)) = Under(v, Family(a))
          /\ Initials(b) \in DOMAIN v => Under(u, Family(a)) = Under(v, Family(a))
          /\ Initials(a) # Initials(b) => Under(u, Initials(a)) = Under(v, Initials(a))
      <3>1. /\ b \in Seq(Part) /\ Len(b) = 3 /\ DOMAIN u = DOMAIN v \cup KeysOf(b)
            /\ a \in Seq(Part) /\ Len(a) = 3
        BY <1>7
      <3>2. QED
        BY ONLY <3>1, UnderName
    <2>4. CASE Family(a) # Family(b)
      <3>1. Initials(a) # Initials(b)
        BY <2>2, <2>4
      <3>2. /\ Under(u, Family(a)) = Under(v, Family(a))
            /\ Under(u, Initials(a)) = Under(v, Initials(a))
        <4>1. Under(u, Family(a)) = Under(v, Family(a))
          BY <2>0, <2>4
        <4>2. Under(u, Initials(a)) = Under(v, Initials(a))
          BY <2>0, <3>1
        <4>3. QED
          BY <4>1, <4>2
      <3>3. ufam = fam /\ uini = ini
        BY <3>2, CountIs
      <3>4. QED
        BY <1>2, <3>3
    <2>5. CASE Family(a) = Family(b) /\ Initials(a) # Initials(b)
      <3>1. Under(u, Initials(a)) = Under(v, Initials(a))
        BY <2>0, <2>5
      <3>2. uini = ini
        BY <3>1, CountIs
      <3>3. ufam
        <4>1. KeysOf(a) \subseteq DOMAIN u /\ KeysOf(b) \subseteq DOMAIN u
          OBVIOUS
        <4>2. Initials(a) \in Under(u, Family(a)) /\ Initials(b) \in Under(u, Family(b))
          BY <1>7, <4>1, OwnChildren
        <4>3. QED
          BY <2>5, <4>2, CountedApart
      <3>4. Param(u, b, n) # 0
        BY <2>3, <2>5, <3>3
      <3>5. CASE f = 0
        BY <1>5, <2>1, <2>2, <2>5, <3>4, <3>5
      <3>6. CASE f # 0
        <4> HIDE DEF fam, ini, ufam, uini
        <4>1. QED
          BY <1>2, <1>3, <1>4, <3>2, <3>3, <3>6
      <3>7. QED
        BY <3>5, <3>6
    <2>6. CASE Initials(a) = Initials(b)
      <3>1. Family(a) = Family(b)
        BY <2>2, <2>6
      <3>2. Initials(b) \in DOMAIN v
        BY <2>6, KeysOfThree
      <3>3. ufam = fam
        BY <2>0, <3>2, CountIs
      <3>4. Param(u, b, n) = Param(u, a, num)
        BY <1>2, <2>3, <2>6, <3>1
      <3>5. CASE f = 2
        <4> HIDE DEF fam, ini, ufam, uini
        <4>1. QED
          BY <1>2, <1>3, <1>4, <3>3, <3>5
      <3>6. CASE f # 2
        <4>1. f = 0 \/ f = 1
          BY <1>4, <3>6
        <4>2. SubSeq(a, 1, f + 1) = SubSeq(b, 1, f + 1)
          BY <1>5, <2>2, <2>6, <3>1, <4>1
        <4>3. QED
          BY <2>1, <3>4, <4>2
      <3>7. QED
        BY <3>5, <3>6
    <2>7. QED
      BY <2>4, <2>5, <2>6
  <1>8. QED
    BY <1>6, <1>7

\* A name on show: of an item that has been listed under it and its form.
Held(reg, i, n, f) ==
    /\ i \in Item /\ n \in DOMAIN Names[i] /\ Looked(Names[i][n], n) /\ f \in 0 .. 2
    /\ KeysOf(Names[i][n]) \subseteq DOMAIN reg
    /\ i \in ToSet(reg[SubSeq(Names[i][n], 1, f + 1)])

\* Growth keeps a name held.
LEMMA HeldOn ==
    ASSUME NEW reg, NEW new, Grows(reg, new), NEW i, NEW n, NEW f, Held(reg, i, n, f)
    PROVE  Held(new, i, n, f)
  <1>1. /\ i \in Item /\ n \in DOMAIN Names[i] /\ Looked(Names[i][n], n) /\ f \in 0 .. 2
        /\ KeysOf(Names[i][n]) \subseteq DOMAIN reg
        /\ i \in ToSet(reg[SubSeq(Names[i][n], 1, f + 1)])
    BY DEF Held
  <1>2. Len(Names[i][n]) = 3
    BY <1>1 DEF Looked
  <1>3. SubSeq(Names[i][n], 1, f + 1) \in KeysOf(Names[i][n])
    BY <1>1, <1>2 DEF KeysOf
  <1>4. QED
    BY <1>1, <1>3 DEF Held, Grows

\* It is told from the first k names of an item and has the form the keys ask for,
\* or its item is tainted.
Kept(v, i, n, f, item, k) ==
    \/ i \in ToSet(v.tainted)
    \/ /\ \A m \in 1 .. k : Looked(Names[item][m], m) => Apart(Names[i][n], f, Names[item][m])
       /\ AllNames => f = Param(v.names, Names[i][n], n)

\* Rendering a name of another item keeps that: whoever shows a form that the
\* new name could be taken for is listed under a key of it at a level which is
\* not that of its own form, and is tainted.
LEMMA KeptStep ==
    ASSUME StyleInv, NEW v \in Workings, NEW item \in Item, NEW k \in DOMAIN Names[item],
           NEW i, NEW n, NEW f, Held(v.names, i, n, f), i # item, Kept(v, i, n, f, item, k - 1)
    PROVE  Kept(RenderStep(v, k, item), i, n, f, item, k)
  <1> DEFINE u == RenderStep(v, k, item)
             a == Names[i][n]
             b == Names[item][k]
             p == Param(u.names, b, k)
  <1>1. /\ u \in Workings
        /\ DOMAIN u.names = DOMAIN v.names \cup KeysOf(b)
        /\ ToSet(v.tainted) \subseteq ToSet(u.tainted)
        /\ Looked(b, k) =>
              \A l \in 1 .. 3 \ {p + 1} :
                 SubSeq(b, 1, l) \in DOMAIN v.names =>
                    ToSet(v.names[SubSeq(b, 1, l)]) \ {item} \subseteq ToSet(u.tainted)
    BY RenderStepIn
  <1>2. /\ i \in Item /\ n \in DOMAIN Names[i] /\ Looked(a, n) /\ f \in 0 .. 2
        /\ KeysOf(a) \subseteq DOMAIN v.names
        /\ i \in ToSet(v.names[SubSeq(a, 1, f + 1)])
    BY DEF Held
  <1>3. /\ a \in Seq(Part) /\ Len(a) = 3
        /\ b \in Seq(Part) /\ Len(b) \in {1, 3}
        /\ DOMAIN Names[item] = 1 .. Len(Names[item]) /\ Len(Names[item]) \in Nat
    BY <1>2, NamesOf DEF Looked, FullNames
  <1>4. v.names \in Registers /\ u.names \in Registers
    BY <1>1 DEF Workings
  <1> HIDE DEF u, a, b, p
  <1>5. SUFFICES ASSUME i \notin ToSet(u.tainted)
                 PROVE  Kept(u, i, n, f, item, k)
    BY DEF Kept, u
  <1>6. /\ \A m \in 1 .. k - 1 : Looked(Names[item][m], m) => Apart(a, f, Names[item][m])
        /\ AllNames => f = Param(v.names, a, n)
    BY <1>1, <1>5 DEF Kept, a
  <1>7. Looked(b, k) /\ SubSeq(a, 1, f + 1) = SubSeq(b, 1, f + 1) => p = f
    <2>1. SUFFICES ASSUME Looked(b, k), SubSeq(a, 1, f + 1) = SubSeq(b, 1, f + 1), p # f
                   PROVE  FALSE
      OBVIOUS
    <2>2. f + 1 \in 1 .. 3 \ {p + 1}
      <3>1. p \in 0 .. 2
        BY ParamIn DEF p
      <3>2. QED
        BY <1>2, <2>1, <3>1
    <2>3. SubSeq(a, 1, f + 1) \in KeysOf(a)
      BY <1>2, <1>3 DEF KeysOf
    <2>4. SubSeq(b, 1, f + 1) \in DOMAIN v.names
      BY <1>2, <2>1, <2>3
    <2>5. ToSet(v.names[SubSeq(b, 1, f + 1)]) \ {item} \subseteq ToSet(u.tainted)
      BY <1>1, <2>1, <2>2, <2>4
    <2>6. QED
      BY <1>2, <1>5, <2>1, <2>5
  <1>8. Looked(b, k) => Apart(a, f, b)
    <2>1. SUFFICES ASSUME Looked(b, k), Most(a) # Most(b), IsPrefix(Printed(a, f), b)
                   PROVE  FALSE
      BY DEF Apart
    <2>2. Len(b) = 3 /\ f + 1 \in 1 .. 3
      BY <1>2, <2>1 DEF Looked
    <2>3. SubSeq(a, 1, f + 1) = SubSeq(b, 1, f + 1)
      BY <1>2, <1>3, <2>1, <2>2, PrintedIs, SameBeginning
    <2>4. p = f
      BY <1>7, <2>1, <2>3
    <2>5. Apart(b, p, a)
      <3>1. KeysOf(a) \subseteq DOMAIN u.names /\ KeysOf(b) \subseteq DOMAIN u.names
        BY <1>1, <1>2
      <3>2. QED
        BY <1>3, <1>4, <2>1, <3>1, ParamSeparates DEF p
    <2>6. IsPrefix(Printed(b, f), a)
      <3>1. IsPrefix(SubSeq(b, 1, f + 1), a)
        BY <1>3, <2>2, <2>3, SameBeginning
      <3>2. QED
        BY <1>2, <1>3, <2>2, <3>1, PrintedIs
    <2>7. QED
      BY <2>1, <2>4, <2>5, <2>6 DEF Apart
  <1>9. ASSUME AllNames PROVE f = Param(u.names, a, n)
    <2>1. f = Param(v.names, a, n)
      BY <1>6, <1>9
    <2>2. \/ f = Param(u.names, a, n)
          \/ /\ Looked(b, k) /\ Param(u.names, b, k) # f
             /\ SubSeq(a, 1, f + 1) = SubSeq(b, 1, f + 1)
      <3> DEFINE x == v.names
                 y == u.names
      <3>1. x \in Registers /\ y \in Registers /\ DOMAIN y = DOMAIN x \cup KeysOf(b)
        BY <1>1, <1>4
      <3>2. b \in Seq(Part) /\ Len(b) \in {1, 3} /\ a \in Seq(Part) /\ Len(a) = 3
        BY <1>3
      <3>3. KeysOf(a) \subseteq DOMAIN x /\ f = Param(x, a, n)
        BY <1>2, <2>1
      <3> HIDE DEF x, y
      <3>4. AskedOr(y, a, n, f, b, k)
        BY <1>9, <3>1, <3>2, <3>3, FormKept
      <3>5. QED
        BY <3>4 DEF y, AskedOr
    <2>3. QED
      BY <1>7, <2>2 DEF p
  <1>10. ASSUME NEW m \in 1 .. k, Looked(Names[item][m], m)
         PROVE  Apart(a, f, Names[item][m])
    <2>1. m \in 1 .. k - 1 \/ m = k
      BY <1>3
    <2>2. QED
      BY <1>6, <1>8, <1>10, <2>1 DEF b
  <1>11. QED
    BY <1>9, <1>10 DEF Kept, a

\* The keys are those of the names of the indexed items.
Indexed(reg, ind) ==
    \A j \in ind : \A n \in DOMAIN Names[j] : KeysOf(Names[j][n]) \subseteq DOMAIN reg
From(reg, ind) ==
    \A key \in DOMAIN reg : \E j \in ind : \E n \in DOMAIN Names[j] : key \in KeysOf(Names[j][n])

\* The n-th name of i, shown in form f, stands for nobody else among the indexed,
\* and shows more than the plain form only on account of another.
Clear(ind, i, n, f) ==
    \A j \in ind : \A m \in DOMAIN Names[j] :
        Looked(Names[j][m], m) => Apart(Names[i][n], f, Names[j][m])
Owed(ind, i, n, f) ==
    f > Plain =>
        \E j \in ind : \E other \in ToSet(Names[j]) :
            /\ other # Names[i][n]
            /\ Len(other) = 3
            /\ Family(other) = Family(Names[i][n])
            /\ f = 2 /\ style.initialize => Initials(other) = Initials(Names[i][n])

Right(reg, ind, i, n, f) ==
    /\ Held(reg, i, n, f)
    /\ Clear(ind, i, n, f)
    /\ AllNames => f = Param(reg, Names[i][n], n)
    /\ Owed(ind, i, n, f)

\* A key of more than one part is of a full name.
LEMMA ThreeOf ==
    ASSUME NEW j \in Item, NEW n \in DOMAIN Names[j], NEW key \in KeysOf(Names[j][n]),
           Len(key) \in {2, 3}
    PROVE  /\ Names[j][n] \in Seq(Part) /\ Len(Names[j][n]) = 3
           /\ Len(key) = 2 => key = Initials(Names[j][n])
           /\ Len(key) = 3 => key = Names[j][n]
           /\ Names[j][n] \in ToSet(Names[j])
  <1> DEFINE name == Names[j][n]
  <1>1. name \in Seq(Part) /\ Len(name) \in {1, 3} /\ name \in ToSet(Names[j])
    BY NamesOf DEF FullNames, ToSet
  <1>2. PICK k \in 1 .. Len(name) : key = SubSeq(name, 1, k)
    BY DEF KeysOf
  <1> HIDE DEF name
  <1>3. Len(key) = k
    BY <1>1, <1>2, PrefixOf
  <1>4. Len(name) = 3
    BY <1>1, <1>2, <1>3
  <1>5. SubSeq(name, 1, 2) = Initials(name) /\ SubSeq(name, 1, 3) = name
    BY <1>1, <1>4, KeysOfThree
  <1>6. QED
    BY <1>1, <1>2, <1>3, <1>4, <1>5 DEF name

\* A form that the keys ask for is owed to another name, since the keys are
\* those of the indexed items.
LEMMA FreshOwed ==
    ASSUME StyleInv, NEW reg \in Registers, NEW ind \in SUBSET Item, From(reg, ind),
           NEW i \in Item, NEW n \in DOMAIN Names[i], Looked(Names[i][n], n)
    PROVE  Owed(ind, i, n, Param(reg, Names[i][n], n))
  <1> DEFINE a == Names[i][n]
             f == Param(reg, a, n)
             fam == Count(reg, Family(a)) > 1
             ini == Count(reg, Initials(a)) > 1
  <1>1. a \in Seq(Part) /\ Len(a) = 3
    BY NamesOf DEF FullNames, Looked
  <1>2. /\ Len(Family(a)) = 1 /\ Len(Initials(a)) = 2
        /\ SubSeq(Family(a), 1, 1) = Family(a) /\ SubSeq(Initials(a), 1, 2) = Initials(a)
        /\ SubSeq(Initials(a), 1, 1) = Family(a)
    BY <1>1, KeysOfThree, PrefixOf DEF Family, Initials
  <1>3. f = IF GivenNames /\ (ini \/ (fam /\ ~style.initialize))
            THEN 2 ELSE IF fam THEN 1 ELSE Plain
    BY ParamIs
  <1> HIDE DEF a, f
  <1>4. ASSUME ini
        PROVE  \E j \in ind : \E other \in ToSet(Names[j]) :
                  /\ other # a /\ Len(other) = 3
                  /\ Family(other) = Family(a) /\ Initials(other) = Initials(a)
    <2>1. PICK c \in Under(reg, Initials(a)) : c # a
      BY <1>4, AnotherCounted
    <2>2. c \in DOMAIN reg /\ Len(c) = 3 /\ IsPrefix(Initials(a), c)
      BY <1>2, <2>1 DEF Under
    <2>3. PICK j \in ind : \E m \in DOMAIN Names[j] : c \in KeysOf(Names[j][m])
      BY <2>2 DEF From
    <2>4. PICK m \in DOMAIN Names[j] : c \in KeysOf(Names[j][m])
      BY <2>3
    <2>5. c \in ToSet(Names[j]) /\ c \in Seq(Part)
      BY <2>2, <2>4, ThreeOf
    <2>6. Initials(c) = Initials(a)
      BY <1>2, <2>2 DEF IsPrefix, Initials
    <2>7. Family(c) = Family(a)
      <3>1. SubSeq(Initials(c), 1, 1) = Family(c)
        BY <2>2, <2>5, PrefixOf DEF Initials, Family
      <3>2. QED
        BY <1>2, <2>6, <3>1
    <2>8. QED
      BY <2>1, <2>2, <2>5, <2>6, <2>7
  <1>5. ASSUME fam
        PROVE  \E j \in ind : \E other \in ToSet(Names[j]) :
                  other # a /\ Len(other) = 3 /\ Family(other) = Family(a)
    <2>1. PICK c \in Under(reg, Family(a)) : c # Initials(a)
      BY <1>5, AnotherCounted
    <2>2. c \in DOMAIN reg /\ Len(c) = 2 /\ IsPrefix(Family(a), c)
      BY <1>2, <2>1 DEF Under
    <2>3. PICK j \in ind : \E m \in DOMAIN Names[j] : c \in KeysOf(Names[j][m])
      BY <2>2 DEF From
    <2>4. PICK m \in DOMAIN Names[j] : c \in KeysOf(Names[j][m])
      BY <2>3
    <2> DEFINE b == Names[j][m]
    <2>5. b \in ToSet(Names[j]) /\ b \in Seq(Part) /\ Len(b) = 3 /\ c = Initials(b)
      BY <2>2, <2>4, ThreeOf
    <2> HIDE DEF b
    <2>6. Family(b) = Family(a)
      <3>1. SubSeq(Initials(b), 1, 1) = Family(b)
        BY <2>5, PrefixOf DEF Initials, Family
      <3>2. SubSeq(c, 1, 1) = Family(a)
        BY <1>2, <2>2 DEF IsPrefix
      <3>3. QED
        BY <2>5, <3>1, <3>2
    <2>7. b # a
      BY <2>1, <2>5
    <2>8. QED
      BY <2>5, <2>6, <2>7
  <1>6. f > Plain => ini \/ fam
    <2>1. Plain \in 0 .. 2
      BY PlainIn
    <2> HIDE DEF ini, fam
    <2>2. QED
      BY <1>3, <2>1
  <1>7. f > Plain /\ ~ini => ~(f = 2 /\ style.initialize)
    <2>1. Plain \in 0 .. 2
      BY PlainIn
    <2> HIDE DEF ini, fam
    <2>2. QED
      BY <1>3, <2>1
  <1> HIDE DEF ini, fam
  <1>8. QED
    BY <1>4, <1>5, <1>6, <1>7 DEF Owed, a, f

\* A name just told is right.
LEMMA FreshRight ==
    ASSUME StyleInv, NEW reg \in Registers, NEW ind \in SUBSET Item,
           Indexed(reg, ind), From(reg, ind),
           NEW i \in ind, NEW n \in DOMAIN Names[i], Looked(Names[i][n], n),
           NEW f, Told(reg, i, n, f)
    PROVE  Right(reg, ind, i, n, f)
  <1> DEFINE a == Names[i][n]
  <1>1. i \in Item /\ a \in Seq(Part) /\ KeysOf(a) \subseteq DOMAIN reg
    BY NamesOf DEF FullNames, Indexed
  <1>2. f = Param(reg, a, n) /\ f \in 0 .. 2 /\ i \in ToSet(reg[SubSeq(a, 1, f + 1)])
    BY ParamIn DEF Told
  <1>3. Held(reg, i, n, f)
    BY <1>1, <1>2 DEF Held
  <1>4. Clear(ind, i, n, f)
    <2>1. SUFFICES ASSUME NEW j \in ind, NEW m \in DOMAIN Names[j], Looked(Names[j][m], m)
                   PROVE  Apart(a, f, Names[j][m])
      BY DEF Clear
    <2>2. /\ Names[j][m] \in Seq(Part) /\ Len(Names[j][m]) = 3
          /\ KeysOf(Names[j][m]) \subseteq DOMAIN reg
      BY <2>1, NamesOf DEF FullNames, Indexed, Looked
    <2> HIDE DEF a
    <2>3. Looked(a, n)
      BY DEF a
    <2>4. QED
      BY <1>1, <1>2, <2>2, <2>3, ParamSeparates
  <1>5. Owed(ind, i, n, f)
    BY <1>1, <1>2, FreshOwed
  <1>6. QED
    BY <1>2, <1>3, <1>4, <1>5 DEF Right

-----------------------------------------------------------------------------
(* What a cite that is rendered does to the names on show. *)

\* A name is as it should be, or its item is tainted.
Waiting(w, i, n, f) ==
    /\ i \in w.indexed /\ Held(w.names, i, n, f) /\ Owed(w.indexed, i, n, f)
    /\ \/ i \in ToSet(w.tainted)
       \/ /\ Clear(w.indexed, i, n, f)
          /\ AllNames => f = Param(w.names, Names[i][n], n)

Sound(w) == Indexed(w.names, w.indexed) /\ From(w.names, w.indexed)

\* Rendering a cite indexes its names, and adds no key if they are indexed.
LEMMA RenderedSound ==
    ASSUME StyleInv, NEW w \in Workings, NEW item \in Item, Sound(w)
    PROVE  /\ Sound(Rendered(w, item))
           /\ item \in w.indexed => DOMAIN Rendered(w, item).names = DOMAIN w.names
  <1> DEFINE u == Rendered(w, item)
             keys == UNION {KeysOf(Names[item][n]) : n \in DOMAIN Names[item]}
  <1>1. u.indexed = w.indexed \cup {item} /\ DOMAIN u.names = DOMAIN w.names \cup keys
    BY RenderedIn
  <1> HIDE DEF u
  <1>2. Indexed(u.names, u.indexed)
    BY <1>1 DEF Sound, Indexed
  <1>3. From(u.names, u.indexed)
    <2>1. SUFFICES ASSUME NEW key \in DOMAIN u.names
                   PROVE  \E j \in u.indexed :
                             \E n \in DOMAIN Names[j] : key \in KeysOf(Names[j][n])
      BY DEF From
    <2>2. CASE key \in DOMAIN w.names
      BY <1>1, <2>2 DEF Sound, From
    <2>3. CASE key \in keys
      BY <1>1, <2>3
    <2>4. QED
      BY <1>1, <2>2, <2>3
  <1>4. item \in w.indexed => keys \subseteq DOMAIN w.names
    BY DEF Sound, Indexed
  <1>5. QED
    BY <1>1, <1>2, <1>3, <1>4 DEF Sound, u

\* Rendering a cite of another item keeps a name apart from all its names, or
\* has the item tainted.
LEMMA RenderedKept ==
    ASSUME StyleInv, NEW w \in Workings, NEW item \in Item, NEW i, NEW n, NEW f,
           i # item, Held(w.names, i, n, f), Kept(w, i, n, f, item, 0)
    PROVE  Kept(Rendered(w, item), i, n, f, item, Len(Names[item]))
  <1> DEFINE names == Names[item]
             m == Len(names)
             at == Places(names)
             b == Begun(w, item)
             Y == [k \in 0 .. m |->
                     {v \in Workings : Held(v.names, i, n, f) /\ Kept(v, i, n, f, item, k)}]
  <1>1. /\ DOMAIN at = 1 .. m /\ m \in Nat
        /\ \A k \in 1 .. m : at[k] = k /\ k \in DOMAIN names
        /\ FRender!StaysIn(Workings, at, m, item)
    BY RenderStays
  <1>2. b \in Workings /\ b.names = w.names /\ b.tainted = w.tainted
    BY BegunIn
  <1>3. Rendered(w, item) = FRender!Folded(b, at, item)
    BY RenderedFold
  <1> HIDE DEF names, m, at, b
  <1>4. b \in Y[0]
    BY <1>1, <1>2 DEF Kept
  <1>5. FRender!Keeps(Workings, Y, at, m, item)
    <2>1. SUFFICES ASSUME NEW k \in 1 .. m, NEW v \in Workings, v \in Y[k - 1]
                   PROVE  RenderStep(v, k, item) \in Y[k]
      BY <1>1 DEF FRender!Keeps
    <2>2. k \in 0 .. m /\ k - 1 \in 0 .. m /\ k \in DOMAIN Names[item]
      BY <1>1 DEF names
    <2>3. Held(v.names, i, n, f) /\ Kept(v, i, n, f, item, k - 1)
      BY <2>1, <2>2
    <2> DEFINE u == RenderStep(v, k, item)
    <2>4. u \in Workings /\ Grows(v.names, u.names)
      BY <2>2, RenderStepIn
    <2>5. Kept(u, i, n, f, item, k)
      BY <2>2, <2>3, KeptStep
    <2> HIDE DEF u
    <2>6. Held(u.names, i, n, f)
      BY <2>3, <2>4, HeldOn
    <2>7. QED
      BY <2>2, <2>4, <2>5, <2>6 DEF u
  <1> HIDE DEF Y
  <1>6. FRender!Folded(b, at, item) \in Y[m]
    BY <1>1, <1>2, <1>4, <1>5, FRender!FoldKeeps
  <1>7. m \in 0 .. m
    BY <1>1
  <1>8. QED
    BY <1>3, <1>6, <1>7 DEF Y, m, names

\* So rendering any cite keeps what waits.
LEMMA RenderedWaiting ==
    ASSUME StyleInv, NEW w \in Workings, NEW item \in Item, Sound(w),
           NEW i, NEW n, NEW f, Waiting(w, i, n, f)
    PROVE  Waiting(Rendered(w, item), i, n, f)
  <1> DEFINE u == Rendered(w, item)
  <1>0. SUFFICES Waiting(u, i, n, f)
    OBVIOUS
  <1>1. /\ u \in Workings /\ u.indexed = w.indexed \cup {item}
        /\ Grows(w.names, u.names) /\ ToSet(w.tainted) \subseteq ToSet(u.tainted)
    BY RenderedIn
  <1>2. item \in w.indexed => DOMAIN u.names = DOMAIN w.names
    BY RenderedSound
  <1>3. Kept(w, i, n, f, item, 0) /\ i # item => Kept(u, i, n, f, item, Len(Names[item]))
    BY RenderedKept DEF Waiting
  <1> HIDE DEF u
  <1>4. Held(u.names, i, n, f)
    BY <1>1, HeldOn DEF Waiting
  <1>5. Owed(u.indexed, i, n, f)
    BY <1>1 DEF Waiting, Owed
  <1>6. CASE i \in ToSet(w.tainted)
    BY <1>1, <1>4, <1>5, <1>6 DEF Waiting
  <1>7. CASE i \notin ToSet(w.tainted) /\ item \in w.indexed
    <2>1. u.indexed = w.indexed
      BY <1>1, <1>7
    <2>2. Param(u.names, Names[i][n], n) = Param(w.names, Names[i][n], n)
      BY <1>2, <1>7, ParamOfKeys
    <2>3. QED
      BY <1>4, <1>5, <1>7, <2>1, <2>2 DEF Waiting
  <1>8. CASE i \notin ToSet(w.tainted) /\ item \notin w.indexed
    <2>1. i # item /\ Clear(w.indexed, i, n, f)
          /\ (AllNames => f = Param(w.names, Names[i][n], n))
      BY <1>8 DEF Waiting
    <2>2. Kept(w, i, n, f, item, 0)
      BY <2>1 DEF Kept
    <2>3. Kept(u, i, n, f, item, Len(Names[item]))
      BY <1>3, <2>1, <2>2
    <2>4. CASE i \in ToSet(u.tainted)
      BY <1>1, <1>4, <1>5, <2>4 DEF Waiting
    <2>5. CASE i \notin ToSet(u.tainted)
      <3>1. /\ \A m \in 1 .. Len(Names[item]) :
                  Looked(Names[item][m], m) => Apart(Names[i][n], f, Names[item][m])
            /\ AllNames => f = Param(u.names, Names[i][n], n)
        BY <2>3, <2>5 DEF Kept
      <3>2. DOMAIN Names[item] = 1 .. Len(Names[item])
        BY NamesOf
      <3>3. Clear(u.indexed, i, n, f)
        BY <1>1, <2>1, <3>1, <3>2 DEF Clear
      <3>4. QED
        BY <1>1, <1>4, <1>5, <3>1, <3>3 DEF Waiting
    <2>6. QED
      BY <2>4, <2>5
  <1>9. QED
    BY <1>6, <1>7, <1>8

-----------------------------------------------------------------------------
(* Taking the names of an item from the registry. *)

\* A list is one over any set that has its members.
LEMMA SeqOfMembers ==
    ASSUME NEW A, NEW list \in Seq(A), NEW B, \A k \in DOMAIN list : list[k] \in B
    PROVE  list \in Seq(B)
  OBVIOUS

\* Moving the only one left up a level keeps the keys.
LEMMA MovedUpIn ==
    ASSUME NEW reg \in Registers, NEW key \in DOMAIN reg, Len(key) \in {2, 3}, NEW item \in Item
    PROVE  MovedUp(reg, key, item) \in Registers /\ DOMAIN MovedUp(reg, key, item) = DOMAIN reg
  <1> DEFINE left == RemoveFirst(reg[key], item)
             up == Front(key)
  <1>1. /\ DOMAIN reg \in SUBSET Keys /\ IsFiniteSet(DOMAIN reg)
        /\ \A k \in DOMAIN reg : reg[k] \in Seq(Item) /\ KeysOf(k) \subseteq DOMAIN reg
        /\ reg \in [DOMAIN reg -> Seq(Item)]
    BY RegistersAre
  <1>2. left \in Seq(Item)
    BY <1>1, RemoveFirstIn
  <1>3. up \in DOMAIN reg
    <2>1. key \in Seq(Part) /\ Len(key) - 1 \in 1 .. Len(key)
      <3>1. key \in Seq(Part)
        BY <1>1 DEF Keys
      <3>2. Len(key) = 2 \/ Len(key) = 3
        OBVIOUS
      <3>3. QED
        BY <3>1, <3>2
    <2>2. up \in KeysOf(key)
      BY <2>1 DEF KeysOf, Front
    <2>3. QED
      BY <1>1, <2>2
  <1> HIDE DEF left, up
  <1>4. CASE Len(left) = 1
    <2> DEFINE more == Append(reg[up], left[1])
               new == [reg EXCEPT ![up] = more, ![key] = <<>>]
    <2>1. MovedUp(reg, key, item) = new
      BY <1>4 DEF MovedUp, left, up
    <2>2. more \in Seq(Item) /\ <<>> \in Seq(Item)
      <3>1. reg[up] \in Seq(Item)
        BY <1>1, <1>3
      <3>2. left[1] \in Item
        BY <1>2, <1>4
      <3>3. QED
        BY <3>1, <3>2
    <2> HIDE DEF more
    <2>3. new \in [DOMAIN reg -> Seq(Item)]
      BY <1>1, <1>3, <2>2
    <2> HIDE DEF new
    <2>4. DOMAIN new = DOMAIN reg /\ new \in Registers
      BY <1>1, <2>3, AreRegisters
    <2>5. QED
      BY <2>1, <2>4
  <1>5. CASE Len(left) # 1
    <2> DEFINE new == [reg EXCEPT ![key] = left]
    <2>1. MovedUp(reg, key, item) = new
      BY <1>5 DEF MovedUp, left
    <2>2. new \in [DOMAIN reg -> Seq(Item)]
      BY <1>1, <1>2
    <2> HIDE DEF new
    <2>3. DOMAIN new = DOMAIN reg /\ new \in Registers
      BY <1>1, <2>2, AreRegisters
    <2>4. QED
      BY <2>1, <2>3
  <1>6. QED
    BY <1>4, <1>5

\* Only the names and what is to be refreshed have changed.
OnlyNames(v, w) ==
    v.indexed = w.indexed /\ v.items = w.items /\ v.pool = w.pool /\ v.pools = w.pools

\* New registers and more to refresh make a working state.
LEMMA NewNames ==
    ASSUME NEW w \in Workings, NEW reg \in Registers, NEW more \in Seq(Item)
    PROVE  LET u == [w EXCEPT !.names = reg, !.refreshes = AddAll(@, more)]
           IN  u \in Workings /\ OnlyNames(u, w) /\ u.names = reg
  <1>1. AddAll(w.refreshes, more) \in Seq(Item)
    BY AddAllIn DEF Workings
  <1>2. QED
    BY <1>1 DEF Workings, OnlyNames

\* The three steps of delname keep the working state what it is; the first two
\* keep the keys.
LEMMA GivenLeftIn ==
    ASSUME NEW w \in Workings, NEW name \in FullNames, NEW item \in Item
    PROVE  LET u == GivenLeft(w, name, item)
           IN  u \in Workings /\ OnlyNames(u, w) /\ DOMAIN u.names = DOMAIN w.names
  <1>1. CASE Len(name) = 1 \/ name \notin DOMAIN w.names
    <2>1. GivenLeft(w, name, item) = w
      BY <1>1 DEF GivenLeft
    <2>2. QED
      BY <2>1 DEF OnlyNames
  <1>2. CASE ~(Len(name) = 1 \/ name \notin DOMAIN w.names)
    <2> DEFINE reg == MovedUp(w.names, name, item)
               above == reg[Initials(name)]
               n == CHOOSE n \in {Len(reg[name]), Len(above)} :
                       n <= Len(reg[name]) /\ n <= Len(above)
               more == SubSeq(above, 1, n)
               u == [w EXCEPT !.names = reg, !.refreshes = AddAll(@, more)]
    <2>1. name \in Seq(Part) /\ Len(name) = 3 /\ name \in DOMAIN w.names
      BY <1>2 DEF FullNames
    <2>2. w.names \in Registers
      BY DEF Workings
    <2>3. reg \in Registers /\ DOMAIN reg = DOMAIN w.names
      BY <2>1, <2>2, MovedUpIn
    <2> HIDE DEF reg
    <2>4. reg[name] \in Seq(Item) /\ above \in Seq(Item)
      <3>1. Initials(name) \in KeysOf(name)
        BY <2>1, KeysOfThree
      <3>2. Initials(name) \in DOMAIN reg
        BY <2>1, <2>3, <3>1, RegistersAre
      <3>3. QED
        BY <2>1, <2>3, <3>2, RegistersAre
    <2> HIDE DEF above
    <2>5. n \in Nat /\ n <= Len(above)
      <3>1. Len(reg[name]) \in Nat /\ Len(above) \in Nat
        BY <2>4
      <3>2. \E k \in {Len(reg[name]), Len(above)} : k <= Len(reg[name]) /\ k <= Len(above)
        BY <3>1
      <3>3. /\ n \in {Len(reg[name]), Len(above)}
            /\ n <= Len(reg[name]) /\ n <= Len(above)
        <4> DEFINE P(k) == k <= Len(reg[name]) /\ k <= Len(above)
        <4>1. \E k \in {Len(reg[name]), Len(above)} : P(k)
          BY <3>2
        <4>2. n = CHOOSE k \in {Len(reg[name]), Len(above)} : P(k)
          OBVIOUS
        <4> HIDE DEF n, P
        <4>3. n \in {Len(reg[name]), Len(above)} /\ P(n)
          BY <4>1, <4>2
        <4>4. QED
          BY <4>3 DEF P
      <3>4. QED
        BY <3>1, <3>3
    <2> HIDE DEF n
    <2>6. more \in Seq(Item)
      BY <2>4, <2>5
    <2>7. GivenLeft(w, name, item) = u
      BY <1>2 DEF GivenLeft, reg, above, n
    <2> HIDE DEF more
    <2>8. u \in Workings /\ OnlyNames(u, w) /\ u.names = reg
      BY <2>3, <2>6, NewNames
    <2>9. QED
      BY <2>3, <2>7, <2>8
  <1>3. QED
    BY <1>1, <1>2

LEMMA InitialsLeftIn ==
    ASSUME NEW w \in Workings, NEW name \in FullNames, NEW item \in Item
    PROVE  LET u == InitialsLeft(w, name, item)
           IN  u \in Workings /\ OnlyNames(u, w) /\ DOMAIN u.names = DOMAIN w.names
  <1>1. CASE Len(name) = 1 \/ Initials(name) \notin DOMAIN w.names
    <2>1. InitialsLeft(w, name, item) = w
      BY <1>1 DEF InitialsLeft
    <2>2. QED
      BY <2>1 DEF OnlyNames
  <1>2. CASE ~(Len(name) = 1 \/ Initials(name) \notin DOMAIN w.names)
    <2> DEFINE key == Initials(name)
               reg == MovedUp(w.names, key, item)
               more == reg[key]
               u == [w EXCEPT !.names = reg, !.refreshes = AddAll(@, more)]
    <2>1. Len(key) = 2 /\ key \in DOMAIN w.names
      BY <1>2, KeysOfThree DEF FullNames
    <2>2. w.names \in Registers
      BY DEF Workings
    <2> HIDE DEF key
    <2>3. reg \in Registers /\ DOMAIN reg = DOMAIN w.names
      BY <2>1, <2>2, MovedUpIn
    <2>4. InitialsLeft(w, name, item) = u
      BY <1>2 DEF InitialsLeft, key
    <2> HIDE DEF reg
    <2>5. more \in Seq(Item)
      BY <2>1, <2>3, RegistersAre
    <2> HIDE DEF more
    <2>6. u \in Workings /\ OnlyNames(u, w) /\ u.names = reg
      BY <2>3, <2>5, NewNames
    <2>7. QED
      BY <2>3, <2>4, <2>6
  <1>3. QED
    BY <1>1, <1>2

\* The last one drops the family with all that is under it, or nothing.
LEMMA TopLeftIn ==
    ASSUME NEW w \in Workings, NEW name \in FullNames, Family(name) \in DOMAIN w.names,
           NEW item \in Item
    PROVE  LET u == TopLeft(w, Family(name), item)
           IN  u \in Workings /\ OnlyNames(u, w)
  <1> DEFINE family == Family(name)
             left == RemoveFirst(w.names[family], item)
             names == w.names
             gone == [key \in {k \in DOMAIN names : ~IsPrefix(family, k)} |-> names[key]]
             less == [names EXCEPT ![family] = left]
             reg == IF Len(left) < 2 THEN gone ELSE less
             u == [w EXCEPT !.names = reg, !.refreshes = AddAll(@, left)]
  <1>1. names \in Registers
    BY DEF Workings
  <1>2. /\ DOMAIN names \in SUBSET Keys /\ IsFiniteSet(DOMAIN names)
        /\ \A k \in DOMAIN names : names[k] \in Seq(Item) /\ KeysOf(k) \subseteq DOMAIN names
        /\ names \in [DOMAIN names -> Seq(Item)]
    BY <1>1, RegistersAre
  <1>3. left \in Seq(Item)
    BY <1>2, RemoveFirstIn
  <1>4. TopLeft(w, family, item) = u
    BY DEF TopLeft
  <1> HIDE DEF left
  <1>5. less \in Registers
    <2>1. less \in [DOMAIN names -> Seq(Item)]
      BY <1>2, <1>3
    <2> HIDE DEF less, names
    <2>2. QED
      BY <1>2, <2>1, AreRegisters
  <1>6. gone \in Registers
    <2> DEFINE D == {k \in DOMAIN names : ~IsPrefix(family, k)}
    <2>1. D \in SUBSET Keys /\ gone \in [D -> Seq(Item)]
      BY <1>2
    <2>2. IsFiniteSet(D)
      <3>1. D \in SUBSET DOMAIN names
        OBVIOUS
      <3> HIDE DEF D, names
      <3>2. QED
        BY <1>2, <3>1, FS_Subset
    <2>3. ASSUME NEW k \in D, NEW key \in KeysOf(k)
          PROVE  key \in D
      <3>1. key \in DOMAIN names /\ k \in Seq(Part)
        BY <1>2 DEF Keys
      <3>2. PICK n \in 1 .. Len(k) : key = SubSeq(k, 1, n)
        BY DEF KeysOf
      <3>3. ASSUME IsPrefix(family, key)
            PROVE  FALSE
        <4>1. Len(key) = n /\ \A m \in 1 .. n : SubSeq(key, 1, m) = SubSeq(k, 1, m)
          BY <3>1, <3>2, PrefixOf
        <4>2. Len(family) \in 1 .. n /\ SubSeq(family, 1, Len(family)) = SubSeq(key, 1, Len(family))
          <5>1. family \in DOMAIN names
            OBVIOUS
          <5>2. Len(family) \in 1 .. 3
            BY <1>2, <5>1 DEF Keys
          <5> HIDE DEF family
          <5>3. Len(family) <= Len(key)
            BY <3>3 DEF IsPrefix
          <5>4. QED
            BY <3>3, <4>1, <5>2, <5>3 DEF IsPrefix
        <4> HIDE DEF family
        <4>3. Len(family) <= Len(k)
          BY <3>1, <4>2
        <4>4. IsPrefix(family, k)
          BY <4>1, <4>2, <4>3 DEF IsPrefix
        <4>5. QED
          BY <4>4
      <3>4. QED
        BY <3>1, <3>3
    <2>4. \A k \in D : KeysOf(k) \subseteq D
      BY <2>3
    <2> HIDE DEF D, gone
    <2>5. QED
      BY <2>1, <2>2, <2>4, AreRegisters
  <1>7. reg \in Registers
    BY <1>5, <1>6
  <1> HIDE DEF reg
  <1>8. u \in Workings /\ OnlyNames(u, w)
    BY <1>3, <1>7, NewNames
  <1>9. QED
    BY <1>4, <1>8

\* So delname changes the names and what is to be refreshed.
LEMMA delnameIn ==
    ASSUME NEW w \in Workings, NEW name \in FullNames, NEW item \in Item
    PROVE  delname(w, name, item) \in Workings /\ OnlyNames(delname(w, name, item), w)
  <1>1. CASE Family(name) \notin DOMAIN w.names
    BY <1>1 DEF delname, OnlyNames
  <1>2. CASE Family(name) \in DOMAIN w.names
    <2> DEFINE a == GivenLeft(w, name, item)
               b == InitialsLeft(a, name, item)
               c == TopLeft(b, Family(name), item)
    <2>1. delname(w, name, item) = c
      BY <1>2 DEF delname
    <2>2. a \in Workings /\ OnlyNames(a, w) /\ DOMAIN a.names = DOMAIN w.names
      BY GivenLeftIn
    <2> HIDE DEF a
    <2>3. b \in Workings /\ OnlyNames(b, a) /\ DOMAIN b.names = DOMAIN a.names
      BY <2>2, InitialsLeftIn
    <2> HIDE DEF b
    <2>4. c \in Workings /\ OnlyNames(c, b)
      BY <1>2, <2>2, <2>3, TopLeftIn
    <2> HIDE DEF c
    <2>5. OnlyNames(c, w)
      BY <2>2, <2>3, <2>4 DEF OnlyNames
    <2>6. QED
      BY <2>1, <2>4, <2>5
  <1>3. QED
    BY <1>1, <1>2

DelStep(v, name, item) == delname(v, name, item)
FDel == INSTANCE Folding WITH Op <- DelStep

\* And delitems takes the item from the index.
LEMMA delitemsIn ==
    ASSUME NEW w \in Workings, NEW item \in Item
    PROVE  LET u == delitems(w, item)
           IN  /\ u \in Workings /\ u.indexed = w.indexed \ {item}
               /\ u.items = w.items /\ u.pool = w.pool /\ u.pools = w.pools
  <1>1. CASE item \notin w.indexed
    BY <1>1 DEF delitems
  <1>2. CASE item \in w.indexed
    <2> DEFINE all == AddAll(<<>>, Names[item])
               fold == FDel!Folded(w, all, item)
               u == [fold EXCEPT !.indexed = @ \ {item}]
               X == {v \in Workings : OnlyNames(v, w)}
    <2>1. delitems(w, item) = u
      BY <1>2 DEF delitems, FoldLeft, MapThenFoldSet, Max, FDel!Folded, FDel!Last, DelStep
    <2>2. all \in Seq(FullNames)
      <3>1. <<>> \in Seq(FullNames) /\ Names[item] \in Seq(FullNames)
        BY NamesOf, SeqOfMembers
      <3>2. QED
        BY <3>1, AddAllIn
    <2> HIDE DEF all
    <2>3. /\ DOMAIN all = 1 .. Len(all) /\ Len(all) \in Nat
          /\ \A k \in 1 .. Len(all) : all[k] \in FullNames
      BY <2>2
    <2>4. w \in X
      BY DEF OnlyNames
    <2>5. FDel!StaysIn(X, all, Len(all), item)
      <3>1. SUFFICES ASSUME NEW v \in X, NEW k \in 1 .. Len(all)
                     PROVE  delname(v, all[k], item) \in X
        BY DEF FDel!StaysIn, DelStep
      <3>2. delname(v, all[k], item) \in Workings /\ OnlyNames(delname(v, all[k], item), v)
        BY <2>3, delnameIn
      <3>3. QED
        BY <3>2 DEF OnlyNames
    <2> HIDE DEF X
    <2>6. fold \in X
      BY <2>3, <2>4, <2>5, FDel!FoldType
    <2> HIDE DEF fold
    <2>7. fold \in Workings /\ OnlyNames(fold, w)
      BY <2>6 DEF X
    <2>8. /\ u \in Workings /\ u.indexed = w.indexed \ {item}
          /\ u.items = w.items /\ u.pool = w.pool /\ u.pools = w.pools
      BY <2>7 DEF Workings, OnlyNames
    <2>9. QED
      BY <2>1, <2>8
  <1>3. QED
    BY <1>1, <1>2

-----------------------------------------------------------------------------
(* Between the calls the registries speak of the same items. *)

Pooled(w) == \A i \in ToSet(w.items) : i \in ToSet(w.pools[w.pool[i]])
Steady ==
    {w \in Workings : IsInjective(w.items) /\ w.indexed = ToSet(w.items) /\ Pooled(w)}

\* dodeletes takes an item from the list of items, from the index and from its
\* pool, and keeps them in agreement.
LEMMA DeletedIn ==
    ASSUME NEW w \in Steady, NEW item \in Item
    PROVE  LET u == Deleted(w, item)
           IN  u \in Steady /\ ToSet(u.items) = ToSet(w.items) \ {item}
  <1> DEFINE v == delitems(w, item)
             left == RemoveFirst(v.pools[v.pool[item]], item)
             pools == [v.pools EXCEPT ![v.pool[item]] = left]
             more == AddAll(v.refreshes, left)
             items == RemoveFirst(v.items, item)
             u == [v EXCEPT !.pools = pools, !.refreshes = more, !.items = items]
  <1>1. w \in Workings /\ IsInjective(w.items) /\ w.indexed = ToSet(w.items) /\ Pooled(w)
    BY DEF Steady
  <1>2. /\ v \in Workings /\ v.indexed = w.indexed \ {item}
        /\ v.items = w.items /\ v.pool = w.pool /\ v.pools = w.pools
    BY <1>1, delitemsIn
  <1>3. Deleted(w, item) = u
    BY DEF Deleted, Workings
  <1> HIDE DEF v
  <1>4. /\ v.items \in Seq(Item) /\ v.refreshes \in Seq(Item)
        /\ v.pool \in [Item -> Item] /\ v.pools \in [Item -> Seq(Item)]
    BY <1>2 DEF Workings
  <1>5. /\ left \in Seq(Item)
        /\ ToSet(v.pools[v.pool[item]]) \ {item} \subseteq ToSet(left)
    BY <1>4, RemoveFirstIn
  <1>6. items \in Seq(Item) /\ IsInjective(items) /\ ToSet(items) = ToSet(w.items) \ {item}
    BY <1>1, <1>2, <1>4, RemoveFirstIn
  <1> HIDE DEF left
  <1>7. pools \in [Item -> Seq(Item)] /\ more \in Seq(Item)
    BY <1>4, <1>5, AddAllIn
  <1>8. \A i \in ToSet(items) : i \in ToSet(pools[v.pool[i]])
    <2>1. SUFFICES ASSUME NEW i \in ToSet(items) PROVE i \in ToSet(pools[v.pool[i]])
      OBVIOUS
    <2>2. i \in ToSet(w.items) /\ i # item /\ i \in Item
      BY <1>2, <1>4, <1>6, ToSetSeq
    <2>3. i \in ToSet(v.pools[v.pool[i]])
      BY <1>1, <1>2, <2>2 DEF Pooled
    <2>4. CASE v.pool[i] = v.pool[item]
      BY <1>4, <1>5, <2>2, <2>3, <2>4
    <2>5. CASE v.pool[i] # v.pool[item]
      BY <1>4, <2>2, <2>3, <2>5
    <2>6. QED
      BY <2>4, <2>5
  <1> HIDE DEF pools, more, items
  <1>9. /\ u \in Workings /\ u.items = items /\ u.pools = pools /\ u.pool = v.pool
        /\ u.indexed = v.indexed
    BY <1>2, <1>6, <1>7 DEF Workings
  <1> HIDE DEF u
  <1>10. u \in Steady
    BY <1>1, <1>2, <1>6, <1>8, <1>9 DEF Steady, Pooled
  <1>11. QED
    BY <1>3, <1>6, <1>9, <1>10

\* Filing an item puts it in the pool it is recorded under.
LEMMA FiledIn ==
    ASSUME NEW w \in Workings, NEW akey \in Item, NEW item \in Item, Pooled(w)
    PROVE  LET u == Filed(w, akey, item)
           IN  /\ u \in Workings /\ Pooled(u) /\ item \in ToSet(u.pools[u.pool[item]])
               /\ u.items = w.items /\ u.indexed = w.indexed /\ u.names = w.names
               /\ u.tainted = w.tainted /\ u.refreshes = w.refreshes
  <1> DEFINE pool == [w.pool EXCEPT ![item] = akey]
             list == AddTo(w.pools[akey], item)
             pools == [w.pools EXCEPT ![akey] = list]
             u == [w EXCEPT !.pool = pool, !.pools = pools]
  <1>1. w.pool \in [Item -> Item] /\ w.pools \in [Item -> Seq(Item)] /\ w.items \in Seq(Item)
    BY DEF Workings
  <1>2. list \in Seq(Item) /\ ToSet(list) = ToSet(w.pools[akey]) \cup {item}
    BY <1>1, AddToIn
  <1> HIDE DEF list
  <1>3. pool \in [Item -> Item] /\ pools \in [Item -> Seq(Item)]
    BY <1>1, <1>2
  <1>4. pool[item] = akey /\ item \in ToSet(pools[akey])
    BY <1>1, <1>2
  <1>5. ASSUME NEW i \in ToSet(w.items)
        PROVE  i \in ToSet(pools[pool[i]])
    <2>1. i \in Item /\ i \in ToSet(w.pools[w.pool[i]])
      BY <1>1, ToSetSeq DEF Pooled
    <2>2. CASE i = item
      BY <1>4, <2>2
    <2>3. CASE i # item
      <3>1. pool[i] = w.pool[i] /\ w.pool[i] \in Item
        BY <1>1, <2>1, <2>3
      <3>2. ToSet(w.pools[w.pool[i]]) \subseteq ToSet(pools[w.pool[i]])
        BY <1>1, <1>2, <3>1
      <3>3. QED
        BY <2>1, <3>1, <3>2
    <2>4. QED
      BY <2>2, <2>3
  <1>6. Filed(w, akey, item) = u
    BY DEF Filed, Workings, list
  <1> HIDE DEF pool, pools
  <1>7. /\ u \in Workings /\ u.pool = pool /\ u.pools = pools
        /\ u.items = w.items /\ u.indexed = w.indexed /\ u.names = w.names
        /\ u.tainted = w.tainted /\ u.refreshes = w.refreshes
    BY <1>3 DEF Workings
  <1> HIDE DEF u
  <1>8. Pooled(u) /\ item \in ToSet(u.pools[u.pool[item]])
    BY <1>4, <1>5, <1>7 DEF Pooled
  <1>9. QED
    BY <1>6, <1>7, <1>8

\* Rendering and filing an item, before it is listed again or anew.
LEMMA RelistedIn ==
    ASSUME NEW w \in Workings, NEW item \in Item, NEW items \in Seq(Item),
           Pooled(w), item \in ToSet(w.pools[w.pool[item]]),
           ToSet(items) \subseteq ToSet(w.items) \cup {item}
    PROVE  LET u == [w EXCEPT !.items = items]
           IN  /\ u \in Workings /\ Pooled(u) /\ u.items = items
               /\ u.indexed = w.indexed /\ u.names = w.names /\ u.tainted = w.tainted
               /\ u.refreshes = w.refreshes
  <1> DEFINE u == [w EXCEPT !.items = items]
  <1>1. /\ u \in Workings /\ u.items = items /\ u.pool = w.pool /\ u.pools = w.pools
        /\ u.indexed = w.indexed /\ u.names = w.names /\ u.tainted = w.tainted
        /\ u.refreshes = w.refreshes
    BY DEF Workings
  <1> HIDE DEF u
  <1>2. Pooled(u)
    BY <1>1 DEF Pooled
  <1>3. QED
    BY <1>1, <1>2 DEF u

\* doinserts adds an item to the index, to a pool and to the list of items.
LEMMA InsertedIn ==
    ASSUME StyleInv, NEW w \in Workings, Pooled(w), NEW item \in Item
    PROVE  LET u == Inserted(w, item)
               v == Rendered(w, item)
           IN  /\ u.names = v.names /\ u.indexed = v.indexed /\ u.tainted = v.tainted
               /\ u.refreshes = w.refreshes
               /\ u \in Workings /\ Pooled(u)
               /\ w \in Steady /\ item \notin ToSet(w.items) =>
                     u \in Steady /\ ToSet(u.items) = ToSet(w.items) \cup {item}
  <1> DEFINE v == Rendered(w, item)
             f == Filed(v, item, item)
             items == Append(f.items, item)
             u == [f EXCEPT !.items = items]
  <1>1. w \in Steady => IsInjective(w.items) /\ w.indexed = ToSet(w.items)
    BY DEF Steady
  <1>2. /\ v \in Workings /\ v.indexed = w.indexed \cup {item}
        /\ v.items = w.items /\ v.pool = w.pool /\ v.pools = w.pools
        /\ v.refreshes = w.refreshes
    BY RenderedIn
  <1>3. Inserted(w, item) = u
    BY DEF Inserted
  <1>0. SUFFICES /\ u.names = v.names /\ u.indexed = v.indexed /\ u.tainted = v.tainted
                 /\ u.refreshes = w.refreshes
                 /\ u \in Workings /\ Pooled(u)
                 /\ w \in Steady /\ item \notin ToSet(w.items) =>
                       u \in Steady /\ ToSet(u.items) = ToSet(w.items) \cup {item}
    BY <1>3
  <1> HIDE DEF v
  <1>4. Pooled(v)
    BY <1>2 DEF Pooled
  <1>5. /\ f \in Workings /\ Pooled(f) /\ item \in ToSet(f.pools[f.pool[item]])
        /\ f.items = v.items /\ f.indexed = v.indexed /\ f.names = v.names
        /\ f.tainted = v.tainted /\ f.refreshes = v.refreshes
    BY <1>2, <1>4, FiledIn
  <1> HIDE DEF f
  <1>6. /\ items \in Seq(Item) /\ ToSet(items) = ToSet(w.items) \cup {item}
        /\ w \in Steady /\ item \notin ToSet(w.items) => IsInjective(items)
    <2>1. f.items = w.items /\ w.items \in Seq(Item)
      BY <1>2, <1>5 DEF Workings
    <2>2. QED
      BY <1>1, <2>1, AppendIn
  <1> HIDE DEF items
  <1>7. /\ u \in Workings /\ Pooled(u) /\ u.items = items
        /\ u.indexed = f.indexed /\ u.names = f.names /\ u.tainted = f.tainted
        /\ u.refreshes = f.refreshes
    <2>1. ToSet(items) \subseteq ToSet(f.items) \cup {item}
      BY <1>2, <1>5, <1>6
    <2>2. QED
      BY <1>5, <1>6, <2>1, RelistedIn
  <1> HIDE DEF u
  <1>8. w \in Steady /\ item \notin ToSet(w.items) => u \in Steady
    BY <1>1, <1>2, <1>5, <1>6, <1>7 DEF Steady
  <1>9. QED
    BY <1>2, <1>5, <1>6, <1>7, <1>8

AgainStep(v, item, first) ==
    [Filed(v, first, item) EXCEPT !.items = Append(RemoveFirst(@, item), item)]
FAgain == INSTANCE Folding WITH Op <- AgainStep

\* The items to be refreshed are filed one after the other.
LEMMA RefreshedFold ==
    ASSUME NEW w
    PROVE  LET todo == Among(ToSet(w.items), w.refreshes)
               v == [Rendered(w, todo[1]) EXCEPT !.tainted = AddTo(@, todo[1])]
           IN  Refreshed(w) = IF todo = <<>> THEN w ELSE FAgain!Folded(v, todo, todo[1])
  BY DEF Refreshed, FoldLeft, MapThenFoldSet, Max, FAgain!Folded, FAgain!Last, AgainStep

\* dorefreshes keeps the items; without one to refresh it does nothing.
LEMMA RefreshedIn ==
    ASSUME StyleInv, NEW w \in Steady
    PROVE  /\ Refreshed(w) \in Steady /\ ToSet(Refreshed(w).items) = ToSet(w.items)
           /\ w.refreshes = <<>> => Refreshed(w) = w
  <1> DEFINE todo == Among(ToSet(w.items), w.refreshes)
             first == todo[1]
             r == Rendered(w, first)
             v == [r EXCEPT !.tainted = AddTo(@, first)]
             X == {x \in Steady : ToSet(x.items) = ToSet(w.items)}
  <1>1. w \in Workings /\ IsInjective(w.items) /\ w.indexed = ToSet(w.items) /\ Pooled(w)
    BY DEF Steady
  <1>2. w.items \in Seq(Item) /\ w.refreshes \in Seq(Item)
    BY <1>1 DEF Workings
  <1>3. todo \in Seq(Item) /\ ToSet(todo) = ToSet(w.items) \cap ToSet(w.refreshes)
    BY <1>2, AmongIn
  <1>4. Refreshed(w) = IF todo = <<>> THEN w ELSE FAgain!Folded(v, todo, first)
    BY RefreshedFold
  <1> HIDE DEF todo
  <1>5. w.refreshes = <<>> => todo = <<>>
    <2>1. SUFFICES ASSUME w.refreshes = <<>>, todo # <<>> PROVE FALSE
      OBVIOUS
    <2>2. todo[1] \in ToSet(todo)
      BY <1>3, <2>1 DEF ToSet
    <2>3. ToSet(<<>>) = {}
      BY DEF ToSet
    <2>4. QED
      BY <1>3, <2>1, <2>2, <2>3
  <1>6. ASSUME todo # <<>>
        PROVE  FAgain!Folded(v, todo, first) \in X
    <2>1. /\ DOMAIN todo = 1 .. Len(todo) /\ Len(todo) \in Nat
          /\ \A k \in 1 .. Len(todo) : todo[k] \in ToSet(w.items) /\ todo[k] \in Item
          /\ first \in ToSet(w.items) /\ first \in Item
      <3>1. DOMAIN todo = 1 .. Len(todo) /\ Len(todo) \in Nat /\ 1 \in 1 .. Len(todo)
        BY <1>3, <1>6
      <3>2. \A k \in 1 .. Len(todo) : todo[k] \in ToSet(w.items) /\ todo[k] \in Item
        BY <1>3, <3>1 DEF ToSet
      <3>3. QED
        BY <3>1, <3>2
    <2>2. /\ r \in Workings /\ r.indexed = w.indexed \cup {first}
          /\ r.items = w.items /\ r.pool = w.pool /\ r.pools = w.pools
      BY <1>1, <2>1, RenderedIn
    <2> HIDE DEF first, r
    <2>3. v \in X
      <3>1. AddTo(r.tainted, first) \in Seq(Item)
        BY <2>1, <2>2, AddToIn DEF Workings
      <3>2. v \in Workings /\ v.indexed = r.indexed /\ v.items = r.items
            /\ v.pool = r.pool /\ v.pools = r.pools
        BY <2>2, <3>1 DEF Workings
      <3> HIDE DEF v
      <3>3. QED
        BY <1>1, <2>1, <2>2, <3>2 DEF Steady, Pooled
    <2> HIDE DEF v
    <2>4. FAgain!StaysIn(X, todo, Len(todo), first)
      <3>1. SUFFICES ASSUME NEW x \in X, NEW k \in 1 .. Len(todo)
                     PROVE  AgainStep(x, todo[k], first) \in X
        BY DEF FAgain!StaysIn
      <3> DEFINE item == todo[k]
                 f == Filed(x, first, item)
                 removed == RemoveFirst(f.items, item)
                 items == Append(removed, item)
                 u == [f EXCEPT !.items = items]
      <3>2. /\ x \in Workings /\ IsInjective(x.items) /\ x.indexed = ToSet(x.items) /\ Pooled(x)
            /\ ToSet(x.items) = ToSet(w.items) /\ item \in Item /\ item \in ToSet(w.items)
        BY <2>1 DEF Steady
      <3>3. AgainStep(x, todo[k], first) = u
        BY DEF AgainStep
      <3> HIDE DEF item
      <3>4. /\ f \in Workings /\ Pooled(f) /\ item \in ToSet(f.pools[f.pool[item]])
            /\ f.items = x.items /\ f.indexed = x.indexed
        BY <2>1, <3>2, FiledIn
      <3> HIDE DEF f
      <3>5. f.items \in Seq(Item)
        BY <3>4 DEF Workings
      <3>6. /\ removed \in Seq(Item) /\ IsInjective(removed)
            /\ ToSet(removed) = ToSet(w.items) \ {item}
        BY <3>2, <3>4, <3>5, RemoveFirstIn
      <3> HIDE DEF removed
      <3>7. /\ items \in Seq(Item) /\ IsInjective(items) /\ ToSet(items) = ToSet(w.items)
        <4>1. item \notin ToSet(removed)
          BY <3>6
        <4>2. /\ items \in Seq(Item) /\ IsInjective(items)
              /\ ToSet(items) = ToSet(removed) \cup {item}
          BY <3>2, <3>6, <4>1, AppendIn
        <4> HIDE DEF items
        <4>3. ToSet(removed) \cup {item} = ToSet(w.items)
          BY <3>2, <3>6
        <4>4. QED
          BY <4>2, <4>3
      <3> HIDE DEF items
      <3>8. u \in Workings /\ Pooled(u) /\ u.items = items /\ u.indexed = f.indexed
        <4>1. ToSet(items) \subseteq ToSet(f.items) \cup {item}
          BY <3>2, <3>4, <3>7
        <4>2. QED
          BY <3>2, <3>4, <3>7, <4>1, RelistedIn
      <3> HIDE DEF u
      <3>9. u \in X
        BY <3>2, <3>4, <3>7, <3>8 DEF Steady
      <3>10. QED
        BY <3>3, <3>9
    <2> HIDE DEF X
    <2>5. QED
      BY <2>1, <2>3, <2>4, FAgain!FoldType
  <1>7. QED
    BY <1>4, <1>5, <1>6

DeleteStep(w, item, c) == Deleted(w, item)
FDelete == INSTANCE Folding WITH Op <- DeleteStep
InsertStep(w, item, c) == Inserted(w, item)
FInsert == INSTANCE Folding WITH Op <- InsertStep

\* updateItems is a fold of deletions and one of insertions, and the refresh.
LEMMA UpdateFolds ==
    ASSUME NEW w, NEW items
    PROVE  updateItems(w, items) =
              Refreshed(FInsert!Folded(
                  FDelete!Folded(w, Among(ToSet(w.items) \ ToSet(items), w.items), 0),
                  Among(ToSet(items) \ ToSet(w.items), items), 0))
  BY DEF updateItems, FoldLeft, MapThenFoldSet, Max, FDelete!Folded, FDelete!Last, DeleteStep,
         FInsert!Folded, FInsert!Last, InsertStep

\* The prefixes of a list, as sets.
LEMMA FirstOnes ==
    ASSUME NEW A, NEW list \in Seq(A)
    PROVE  /\ DOMAIN list = 1 .. Len(list) /\ Len(list) \in Nat
           /\ \A k \in 1 .. Len(list) :
                 /\ list[k] \in A /\ k \in 0 .. Len(list) /\ k - 1 \in 0 .. Len(list)
                 /\ {list[j] : j \in 1 .. k} = {list[j] : j \in 1 .. k - 1} \cup {list[k]}
                 /\ IsInjective(list) => list[k] \notin {list[j] : j \in 1 .. k - 1}
           /\ {list[j] : j \in 1 .. 0} = {}
           /\ {list[j] : j \in 1 .. Len(list)} = ToSet(list)
           /\ Len(list) \in 0 .. Len(list) /\ 0 \in 0 .. Len(list)
  <1>1. DOMAIN list = 1 .. Len(list) /\ Len(list) \in Nat
    OBVIOUS
  <1>2. ASSUME NEW k \in 1 .. Len(list)
        PROVE  /\ list[k] \in A /\ k \in 0 .. Len(list) /\ k - 1 \in 0 .. Len(list)
               /\ {list[j] : j \in 1 .. k} = {list[j] : j \in 1 .. k - 1} \cup {list[k]}
               /\ IsInjective(list) => list[k] \notin {list[j] : j \in 1 .. k - 1}
    <2>1. list[k] \in A /\ k \in 0 .. Len(list) /\ k - 1 \in 0 .. Len(list)
      BY <1>1
    <2>2. 1 .. k = (1 .. k - 1) \cup {k} /\ 1 .. k \subseteq DOMAIN list /\ k \notin 1 .. k - 1
      BY <1>1
    <2>3. {list[j] : j \in 1 .. k} = {list[j] : j \in 1 .. k - 1} \cup {list[k]}
      BY <2>2
    <2>4. ASSUME IsInjective(list), NEW j \in 1 .. k - 1 PROVE list[j] # list[k]
      BY <2>2, <2>4 DEF IsInjective
    <2>5. QED
      BY <2>1, <2>3, <2>4
  <1>3. {list[j] : j \in 1 .. 0} = {}
    OBVIOUS
  <1>4. {list[j] : j \in 1 .. Len(list)} = ToSet(list)
    BY <1>1 DEF ToSet
  <1>5. Len(list) \in 0 .. Len(list) /\ 0 \in 0 .. Len(list)
    BY <1>1
  <1>6. QED
    BY <1>1, <1>2, <1>3, <1>4, <1>5

\* The deletions take out the items that are gone.
LEMMA DeletesIn ==
    ASSUME NEW w \in Steady, NEW gone \in Seq(Item)
    PROVE  LET u == FDelete!Folded(w, gone, 0)
           IN  /\ u \in Steady /\ ToSet(u.items) = ToSet(w.items) \ ToSet(gone)
               /\ gone = <<>> => u = w
  <1> DEFINE n == Len(gone)
             u == FDelete!Folded(w, gone, 0)
             Y == [k \in 0 .. n |->
                     {v \in Steady :
                        /\ ToSet(v.items) = ToSet(w.items) \ {gone[j] : j \in 1 .. k}
                        /\ gone = <<>> => v = w}]
  <1>1. /\ DOMAIN gone = 1 .. n /\ n \in Nat
        /\ \A k \in 1 .. n :
              /\ gone[k] \in Item /\ k \in 0 .. n /\ k - 1 \in 0 .. n
              /\ {gone[j] : j \in 1 .. k} = {gone[j] : j \in 1 .. k - 1} \cup {gone[k]}
        /\ {gone[j] : j \in 1 .. 0} = {} /\ {gone[j] : j \in 1 .. n} = ToSet(gone)
        /\ n \in 0 .. n /\ 0 \in 0 .. n
    BY FirstOnes
  <1>2. gone = <<>> => n = 0
    OBVIOUS
  <1> HIDE DEF n
  <1>3. w \in Y[0]
    BY <1>1
  <1>4. FDelete!StaysIn(Steady, gone, n, 0)
    <2>1. \A v \in Steady, k \in 1 .. n : Deleted(v, gone[k]) \in Steady
      BY <1>1, DeletedIn
    <2>2. QED
      BY <2>1 DEF FDelete!StaysIn, DeleteStep
  <1>5. FDelete!Keeps(Steady, Y, gone, n, 0)
    <2>1. SUFFICES ASSUME NEW k \in 1 .. n, NEW v \in Steady, v \in Y[k - 1]
                   PROVE  Deleted(v, gone[k]) \in Y[k]
      BY DEF FDelete!Keeps, DeleteStep
    <2>2. gone[k] \in Item /\ k \in 0 .. n /\ k - 1 \in 0 .. n /\ gone # <<>>
      BY <1>1, <1>2
    <2>3. ToSet(v.items) = ToSet(w.items) \ {gone[j] : j \in 1 .. k - 1}
      BY <2>1, <2>2
    <2>4. Deleted(v, gone[k]) \in Steady
          /\ ToSet(Deleted(v, gone[k]).items) = ToSet(v.items) \ {gone[k]}
      BY <2>2, DeletedIn
    <2>5. QED
      BY <1>1, <2>2, <2>3, <2>4
  <1> HIDE DEF Y
  <1>6. u \in Y[n]
    BY <1>1, <1>3, <1>4, <1>5, FDelete!FoldKeeps
  <1> HIDE DEF u
  <1>7. QED
    BY <1>1, <1>6 DEF Y, u

\* What a call keeps of the names on show, as long as it takes nothing out.
Bears(w, v) ==
    Sound(w) =>
        /\ Sound(v)
        /\ \A i \in Item : \A n \in DOMAIN Names[i] : \A f \in 0 .. 2 :
              Waiting(w, i, n, f) => Waiting(v, i, n, f)

LEMMA BearsOn ==
    ASSUME NEW a, NEW b, NEW c, Bears(a, b), Bears(b, c)
    PROVE  Bears(a, c)
  BY DEF Bears

\* An insertion keeps what waits: it renders a cite and files it.
LEMMA InsertedBears ==
    ASSUME StyleInv, NEW w \in Workings, Pooled(w), NEW item \in Item
    PROVE  Bears(w, Inserted(w, item))
  <1> DEFINE u == Inserted(w, item)
             v == Rendered(w, item)
  <1>1. u.names = v.names /\ u.indexed = v.indexed /\ u.tainted = v.tainted
    BY InsertedIn
  <1>2. Sound(w) => Sound(v)
    BY RenderedSound
  <1>3. ASSUME Sound(w), NEW i \in Item, NEW n \in DOMAIN Names[i], NEW f \in 0 .. 2,
               Waiting(w, i, n, f)
        PROVE  Waiting(v, i, n, f)
    BY <1>3, RenderedWaiting
  <1> HIDE DEF v, u
  <1>4. Sound(v) => Sound(u)
    BY <1>1 DEF Sound
  <1>5. \A i, n, f : Waiting(v, i, n, f) => Waiting(u, i, n, f)
    BY <1>1 DEF Waiting
  <1>6. Bears(w, u)
    BY <1>2, <1>3, <1>4, <1>5 DEF Bears
  <1>7. QED
    BY <1>6 DEF u

\* The insertions add the new items.
LEMMA InsertsIn ==
    ASSUME StyleInv, NEW w \in Steady, NEW new \in Seq(Item), IsInjective(new),
           ToSet(new) \cap ToSet(w.items) = {}
    PROVE  LET u == FInsert!Folded(w, new, 0)
           IN  /\ u \in Steady /\ ToSet(u.items) = ToSet(w.items) \cup ToSet(new)
               /\ u.refreshes = w.refreshes /\ Bears(w, u)
  <1> DEFINE n == Len(new)
             u == FInsert!Folded(w, new, 0)
             X == {v \in Workings : Pooled(v)}
             Y == [k \in 0 .. n |->
                     {v \in Steady :
                        /\ ToSet(v.items) = ToSet(w.items) \cup {new[j] : j \in 1 .. k}
                        /\ v.refreshes = w.refreshes /\ Bears(w, v)}]
  <1>1. /\ DOMAIN new = 1 .. n /\ n \in Nat
        /\ \A k \in 1 .. n :
              /\ new[k] \in Item /\ k \in 0 .. n /\ k - 1 \in 0 .. n
              /\ {new[j] : j \in 1 .. k} = {new[j] : j \in 1 .. k - 1} \cup {new[k]}
              /\ new[k] \notin {new[j] : j \in 1 .. k - 1}
        /\ {new[j] : j \in 1 .. 0} = {} /\ {new[j] : j \in 1 .. n} = ToSet(new)
        /\ n \in 0 .. n /\ 0 \in 0 .. n
    BY FirstOnes
  <1> HIDE DEF n
  <1>2. Bears(w, w)
    BY DEF Bears
  <1>3. w \in X /\ w \in Y[0]
    BY <1>1, <1>2 DEF Steady
  <1>4. FInsert!StaysIn(X, new, n, 0)
    <2>1. \A v \in X, k \in 1 .. n : Inserted(v, new[k]) \in X
      BY <1>1, InsertedIn
    <2>2. QED
      BY <2>1 DEF FInsert!StaysIn, InsertStep
  <1>5. FInsert!Keeps(X, Y, new, n, 0)
    <2>1. SUFFICES ASSUME NEW k \in 1 .. n, NEW v \in X, v \in Y[k - 1]
                   PROVE  Inserted(v, new[k]) \in Y[k]
      BY DEF FInsert!Keeps, InsertStep
    <2> DEFINE x == Inserted(v, new[k])
    <2>2. /\ new[k] \in Item /\ k \in 0 .. n /\ k - 1 \in 0 .. n
          /\ {new[j] : j \in 1 .. k} = {new[j] : j \in 1 .. k - 1} \cup {new[k]}
          /\ new[k] \notin {new[j] : j \in 1 .. k - 1} /\ new[k] \in ToSet(new)
      BY <1>1 DEF ToSet
    <2>3. /\ ToSet(v.items) = ToSet(w.items) \cup {new[j] : j \in 1 .. k - 1}
          /\ v.refreshes = w.refreshes /\ Bears(w, v) /\ v \in Steady
      BY <2>1, <2>2
    <2>4. new[k] \notin ToSet(v.items)
      BY <2>2, <2>3
    <2>5. x \in Steady /\ ToSet(x.items) = ToSet(v.items) \cup {new[k]} /\ x.refreshes = v.refreshes
      BY <2>2, <2>3, <2>4, InsertedIn
    <2>6. Bears(v, x)
      BY <2>2, InsertedBears
    <2> HIDE DEF x
    <2>7. Bears(w, x)
      BY <2>3, <2>6, BearsOn
    <2>8. QED
      BY <2>2, <2>3, <2>5, <2>7 DEF x
  <1> HIDE DEF Y, X
  <1>6. u \in Y[n]
    BY <1>1, <1>3, <1>4, <1>5, FInsert!FoldKeeps
  <1> HIDE DEF u
  <1>7. QED
    BY <1>1, <1>6 DEF Y, u

\* A call of updateItems ends with the items it was given, in the registry, in
\* the index and in the pools.
LEMMA updateItemsIn ==
    ASSUME StyleInv, NEW w \in Steady, NEW items \in Seq(Item), IsInjective(items)
    PROVE  LET u == updateItems(w, items)
           IN  /\ u \in Steady /\ ToSet(u.items) = ToSet(items)
               /\ w.refreshes = <<>> /\ ToSet(w.items) \subseteq ToSet(items) => Bears(w, u)
  <1> DEFINE gone == Among(ToSet(w.items) \ ToSet(items), w.items)
             new == Among(ToSet(items) \ ToSet(w.items), items)
             a == FDelete!Folded(w, gone, 0)
             b == FInsert!Folded(a, new, 0)
             u == Refreshed(b)
  <1>1. updateItems(w, items) = u
    BY UpdateFolds
  <1>2. w.items \in Seq(Item) /\ IsInjective(w.items)
    BY DEF Steady, Workings
  <1>3. /\ gone \in Seq(Item)
        /\ ToSet(gone) = (ToSet(w.items) \ ToSet(items)) \cap ToSet(w.items)
    BY <1>2, AmongIn
  <1>4. /\ new \in Seq(Item) /\ IsInjective(new)
        /\ ToSet(new) = (ToSet(items) \ ToSet(w.items)) \cap ToSet(items)
    BY AmongIn
  <1> HIDE DEF gone, new
  <1>5. /\ a \in Steady /\ ToSet(a.items) = ToSet(w.items) \ ToSet(gone)
        /\ gone = <<>> => a = w
    BY <1>3, DeletesIn
  <1> HIDE DEF a
  <1>6. ToSet(new) \cap ToSet(a.items) = {}
    BY <1>4, <1>5
  <1>7. /\ b \in Steady /\ ToSet(b.items) = ToSet(a.items) \cup ToSet(new)
        /\ b.refreshes = a.refreshes /\ Bears(a, b)
    BY <1>4, <1>5, <1>6, InsertsIn
  <1> HIDE DEF b
  <1>8. /\ u \in Steady /\ ToSet(u.items) = ToSet(b.items)
        /\ b.refreshes = <<>> => u = b
    BY <1>7, RefreshedIn
  <1> HIDE DEF u
  <1>9. ToSet(u.items) = ToSet(items)
    BY <1>3, <1>4, <1>5, <1>7, <1>8
  <1>10. ASSUME w.refreshes = <<>>, ToSet(w.items) \subseteq ToSet(items)
         PROVE  Bears(w, u)
    <2>1. gone = <<>>
      <3>1. ToSet(gone) = {}
        BY <1>3, <1>10
      <3>2. ASSUME gone # <<>> PROVE FALSE
        <4>1. gone[1] \in ToSet(gone)
          BY <1>3, <3>2 DEF ToSet
        <4>2. QED
          BY <3>1, <4>1
      <3>3. QED
        BY <3>2
    <2>2. QED
      BY <1>5, <1>7, <1>8, <1>10, <2>1
  <1>11. QED
    BY <1>1, <1>8, <1>9, <1>10

-----------------------------------------------------------------------------
(* Rendering the document. *)

Cite == [item : Item, forms : Seq(0 .. 2)]

TurnsStep(turns, item, of) == turns \o of[item]
FTurns == INSTANCE Folding WITH Op <- TurnsStep

\* Every citation of a tainted item has its turn, and the edited one.
LEMMA TurnsIn ==
    ASSUME NEW tainted \in Seq(Item), NEW cites \in Seq(Cite), NEW at \in 1 .. Len(cites)
    PROVE  LET turns == Turns(tainted, cites, at)
           IN  /\ turns \in Seq(1 .. Len(cites))
               /\ at \in ToSet(turns)
               /\ \A k \in 1 .. Len(cites) : cites[k].item \in ToSet(tainted) => k \in ToSet(turns)
  <1> DEFINE C == 1 .. Len(cites)
             of == [item \in Item |->
                       Among({k \in DOMAIN cites \ {at} : cites[k].item = item}, Places(cites))]
             n == Len(tainted)
             fold == FTurns!Folded(<<>>, tainted, of)
             Y == [k \in 0 .. n |->
                     {t \in Seq(C) : \A j \in 1 .. k : ToSet(of[tainted[j]]) \subseteq ToSet(t)}]
  <1>1. Turns(tainted, cites, at) = fold \o <<at>>
    BY DEF Turns, FoldLeft, MapThenFoldSet, Max, FTurns!Folded, FTurns!Last, TurnsStep
  <1>2. DOMAIN cites = C /\ Places(cites) \in Seq(C) /\ ToSet(Places(cites)) = C
    BY PlacesIn
  <1> HIDE DEF C
  <1>3. of \in [Item -> Seq(C)]
    <2>1. \A item \in Item :
             Among({k \in DOMAIN cites \ {at} : cites[k].item = item}, Places(cites)) \in Seq(C)
      BY <1>2, AmongIn
    <2>2. QED
      BY <2>1
  <1>4. ASSUME NEW item \in Item, NEW k \in C, k # at, cites[k].item = item
        PROVE  k \in ToSet(of[item])
    <2> DEFINE S == {l \in DOMAIN cites \ {at} : cites[l].item = item}
    <2>1. k \in S
      BY <1>2, <1>4
    <2>2. of[item] = Among(S, Places(cites))
      OBVIOUS
    <2> HIDE DEF S, of
    <2>3. ToSet(Among(S, Places(cites))) = S \cap C
      BY <1>2, AmongIn
    <2>4. QED
      BY <2>1, <2>2, <2>3
  <1> HIDE DEF of
  <1>5. /\ DOMAIN tainted = 1 .. n /\ n \in Nat
        /\ \A k \in 1 .. n : tainted[k] \in Item
    OBVIOUS
  <1> HIDE DEF n
  <1>6. ASSUME NEW t \in Seq(C), NEW s \in Seq(C)
        PROVE  /\ t \o s \in Seq(C)
               /\ ToSet(t) \subseteq ToSet(t \o s) /\ ToSet(s) \subseteq ToSet(t \o s)
    <2> DEFINE r == t \o s
    <2>1. /\ r \in Seq(C) /\ Len(r) = Len(t) + Len(s)
          /\ \A k \in 1 .. Len(t) : r[k] = t[k]
          /\ \A k \in 1 .. Len(s) : r[Len(t) + k] = s[k]
      OBVIOUS
    <2> HIDE DEF r
    <2>2. /\ DOMAIN r = 1 .. Len(t) + Len(s) /\ DOMAIN t = 1 .. Len(t) /\ DOMAIN s = 1 .. Len(s)
          /\ Len(t) \in Nat /\ Len(s) \in Nat
      BY <2>1
    <2>3. ToSet(t) \subseteq ToSet(r)
      <3>1. \A k \in DOMAIN t : k \in DOMAIN r /\ r[k] = t[k]
        BY <2>1, <2>2
      <3>2. QED
        BY <3>1 DEF ToSet
    <2>4. ToSet(s) \subseteq ToSet(r)
      <3>1. \A k \in DOMAIN s : Len(t) + k \in DOMAIN r /\ r[Len(t) + k] = s[k]
        BY <2>1, <2>2
      <3>2. QED
        BY <3>1 DEF ToSet
    <2>5. QED
      BY <2>1, <2>3, <2>4 DEF r
  <1>7. FTurns!StaysIn(Seq(C), tainted, n, of)
    BY <1>3, <1>5, <1>6 DEF FTurns!StaysIn, TurnsStep
  <1>8. <<>> \in Y[0] /\ <<>> \in Seq(C)
    BY <1>5
  <1>9. FTurns!Keeps(Seq(C), Y, tainted, n, of)
    <2>1. SUFFICES ASSUME NEW k \in 1 .. n, NEW t \in Seq(C), t \in Y[k - 1]
                   PROVE  t \o of[tainted[k]] \in Y[k]
      BY DEF FTurns!Keeps, TurnsStep
    <2>2. k \in 0 .. n /\ k - 1 \in 0 .. n /\ \A j \in 1 .. k : j \in 1 .. k - 1 \/ j = k
      BY <1>5
    <2>3. \A j \in 1 .. k - 1 : ToSet(of[tainted[j]]) \subseteq ToSet(t)
      BY <2>1, <2>2
    <2> DEFINE s == of[tainted[k]]
    <2>4. s \in Seq(C)
      BY <1>3, <1>5
    <2>5. t \o s \in Seq(C) /\ ToSet(t) \subseteq ToSet(t \o s) /\ ToSet(s) \subseteq ToSet(t \o s)
      BY <1>6, <2>4
    <2>6. \A j \in 1 .. k : ToSet(of[tainted[j]]) \subseteq ToSet(t \o s)
      BY <2>2, <2>3, <2>5
    <2>7. QED
      BY <2>2, <2>5, <2>6
  <1> HIDE DEF Y
  <1>10. fold \in Y[n]
    BY <1>5, <1>7, <1>8, <1>9, FTurns!FoldKeeps
  <1> HIDE DEF fold
  <1>11. fold \in Seq(C) /\ \A j \in 1 .. n : ToSet(of[tainted[j]]) \subseteq ToSet(fold)
    <2>1. n \in 0 .. n
      BY <1>5
    <2>2. QED
      BY <1>10, <2>1 DEF Y
  <1> DEFINE one == <<at>>
             turns == fold \o one
  <1>12. one \in Seq(C) /\ at \in ToSet(one)
    BY DEF C, ToSet
  <1> HIDE DEF one
  <1>13. /\ turns \in Seq(C)
         /\ ToSet(fold) \subseteq ToSet(turns) /\ ToSet(one) \subseteq ToSet(turns)
    BY <1>6, <1>11, <1>12
  <1>14. ASSUME NEW k \in C, cites[k].item \in ToSet(tainted)
         PROVE  k \in ToSet(turns)
    <2>1. CASE k = at
      BY <1>12, <1>13, <2>1
    <2>2. CASE k # at
      <3>1. PICK j \in 1 .. n : cites[k].item = tainted[j]
        BY <1>5, <1>14 DEF ToSet
      <3>2. k \in ToSet(of[tainted[j]])
        BY <1>4, <1>5, <2>2, <3>1
      <3>3. QED
        BY <1>11, <1>13, <3>2
    <2>3. QED
      BY <2>1, <2>2
  <1>15. QED
    BY <1>1, <1>12, <1>13, <1>14 DEF one, C

TurnStep(r, k, c) ==
    LET v == Rendered(r.state, r.cites[k].item)
    IN  [state |-> v, cites |-> [r.cites EXCEPT ![k].forms = v.forms]]
FTurn == INSTANCE Folding WITH Op <- TurnStep

\* Rendering the document is a fold over the turns.
LEMMA ReturnedFold ==
    ASSUME NEW w, NEW cites, NEW at
    PROVE  Returned(w, cites, at) =
              FTurn!Folded([state |-> w, cites |-> cites], Turns(w.tainted, cites, at), 0)
  BY DEF Returned, FoldLeft, MapThenFoldSet, Max, FTurn!Folded, FTurn!Last, TurnStep

\* All names of an item in a cite are told.
AllTold(reg, item, forms) == \A n \in DOMAIN Names[item] : Told(reg, item, n, forms[n])

\* Growth that adds no key keeps a cite told.
LEMMA AllToldOn ==
    ASSUME StyleInv, NEW reg, NEW new, DOMAIN reg = DOMAIN new, Grows(reg, new), NEW item \in Item,
           \A n \in DOMAIN Names[item] : KeysOf(Names[item][n]) \subseteq DOMAIN reg,
           NEW forms, AllTold(reg, item, forms)
    PROVE  AllTold(new, item, forms)
  <1> SUFFICES ASSUME NEW n \in DOMAIN Names[item]
               PROVE  Told(new, item, n, forms[n])
    BY DEF AllTold
  <1> DEFINE name == Names[item][n]
  <1>1. /\ forms[n] = Param(reg, name, n)
        /\ Looked(name, n) => item \in ToSet(reg[SubSeq(name, 1, forms[n] + 1)])
    BY DEF AllTold, Told
  <1>2. Param(new, name, n) = Param(reg, name, n) /\ forms[n] \in 0 .. 2
    BY <1>1, ParamOfKeys, ParamIn
  <1>3. ASSUME Looked(name, n)
        PROVE  item \in ToSet(new[SubSeq(name, 1, forms[n] + 1)])
    <2>1. SubSeq(name, 1, forms[n] + 1) \in KeysOf(name)
      BY <1>2, <1>3 DEF Looked, KeysOf
    <2>2. SubSeq(name, 1, forms[n] + 1) \in DOMAIN reg
      BY <2>1
    <2>3. QED
      BY <1>1, <1>3, <2>2 DEF Grows
  <1>4. QED
    BY <1>1, <1>2, <1>3 DEF Told

\* While the document is rendered: a citation whose turn has come, and what is
\* true of a result throughout.
Turned(w, r, k) ==
    /\ DOMAIN r.cites[k].forms = DOMAIN Names[r.cites[k].item]
    /\ Sound(w) => AllTold(r.state.names, r.cites[k].item, r.cites[k].forms)

Results(w, cites) ==
    {r \in [state : Workings, cites : Seq(Cite)] :
        /\ r.state.indexed = w.indexed /\ r.state.items = w.items
        /\ r.state.pool = w.pool /\ r.state.pools = w.pools
        /\ Len(r.cites) = Len(cites)
        /\ \A k \in 1 .. Len(cites) :
              /\ r.cites[k].item = cites[k].item
              /\ r.cites[k].forms = cites[k].forms \/ Turned(w, r, k)
        /\ Sound(w) =>
              DOMAIN r.state.names = DOMAIN w.names /\ Grows(w.names, r.state.names)}

\* A turn tells one citation, and the others stay as they were or told.
LEMMA TurnStepIn ==
    ASSUME StyleInv, NEW w \in Workings, NEW cites \in Seq(Cite),
           \A k \in 1 .. Len(cites) : cites[k].item \in w.indexed,
           NEW r \in Results(w, cites), NEW k \in 1 .. Len(cites)
    PROVE  LET s == TurnStep(r, k, 0)
           IN  /\ s \in Results(w, cites) /\ Turned(w, s, k)
               /\ \A l \in 1 .. Len(cites) : Turned(w, r, l) => Turned(w, s, l)
  <1> DEFINE item == r.cites[k].item
             v == Rendered(r.state, item)
             new == [r.cites EXCEPT ![k].forms = v.forms]
             s == [state |-> v, cites |-> new]
  <1>1. /\ r.state \in Workings /\ r.cites \in Seq(Cite)
        /\ r.state.indexed = w.indexed /\ r.state.items = w.items
        /\ r.state.pool = w.pool /\ r.state.pools = w.pools
        /\ Len(r.cites) = Len(cites)
        /\ \A l \in 1 .. Len(cites) :
              /\ r.cites[l].item = cites[l].item
              /\ r.cites[l].forms = cites[l].forms \/ Turned(w, r, l)
        /\ Sound(w) => DOMAIN r.state.names = DOMAIN w.names /\ Grows(w.names, r.state.names)
    BY DEF Results
  <1>2. item \in Item /\ item \in w.indexed /\ item = cites[k].item
    <2>1. item = cites[k].item /\ item \in w.indexed
      BY <1>1
    <2>2. w.indexed \subseteq Item
      BY DEF Workings
    <2>3. QED
      BY <2>1, <2>2
  <1>3. /\ v \in Workings /\ v.indexed = r.state.indexed \cup {item}
        /\ v.items = r.state.items /\ v.pool = r.state.pool /\ v.pools = r.state.pools
        /\ Grows(r.state.names, v.names)
        /\ DOMAIN v.forms = DOMAIN Names[item]
    BY <1>1, <1>2, RenderedIn
  <1>4. ASSUME Sound(w)
        PROVE  /\ DOMAIN v.names = DOMAIN r.state.names
               /\ AllTold(v.names, item, v.forms)
    <2>1. \A n \in DOMAIN Names[item] : KeysOf(Names[item][n]) \subseteq DOMAIN r.state.names
      BY <1>1, <1>2, <1>4 DEF Sound, Indexed
    <2>2. QED
      BY <1>1, <1>2, <2>1, RenderedAgain DEF AllTold
  <1>5. TurnStep(r, k, 0) = s
    BY DEF TurnStep
  <1> HIDE DEF item, v
  <1>6. /\ new \in Seq(Cite) /\ Len(new) = Len(cites)
        /\ \A l \in 1 .. Len(cites) : l # k => new[l] = r.cites[l]
        /\ new[k].item = item /\ new[k].forms = v.forms
    <2>1. v.forms \in Seq(0 .. 2)
      BY <1>3 DEF Workings
    <2>2. r.cites[k] \in Cite
      BY <1>1
    <2>3. [r.cites[k] EXCEPT !.forms = v.forms] \in Cite
      BY <2>1, <2>2 DEF Cite
    <2>4. new = [r.cites EXCEPT ![k] = [r.cites[k] EXCEPT !.forms = v.forms]]
      OBVIOUS
    <2> DEFINE c == [r.cites[k] EXCEPT !.forms = v.forms]
    <2>5. c.item = item /\ c.forms = v.forms
      BY <2>2 DEF Cite, item
    <2> HIDE DEF c
    <2>6. c \in Cite /\ new = [r.cites EXCEPT ![k] = c]
      BY <2>3, <2>4 DEF c
    <2> HIDE DEF new
    <2>7. QED
      BY <1>1, <2>5, <2>6
  <1> HIDE DEF new
  <1>7. s.state = v /\ s.cites = new
    OBVIOUS
  <1> HIDE DEF s
  <1>8. Turned(w, s, k)
    BY <1>3, <1>4, <1>6, <1>7 DEF Turned
  <1>9. ASSUME NEW l \in 1 .. Len(cites), Turned(w, r, l)
        PROVE  Turned(w, s, l)
    <2>1. CASE l = k
      BY <1>8, <2>1
    <2>2. CASE l # k
      <3>1. s.cites[l] = r.cites[l] /\ r.cites[l].item \in Item /\ r.cites[l].item \in w.indexed
        <4>1. r.cites[l].item = cites[l].item /\ w.indexed \subseteq Item
          BY <1>1 DEF Workings
        <4>2. QED
          BY <1>6, <1>7, <2>2, <4>1
      <3>2. ASSUME Sound(w)
            PROVE  AllTold(v.names, r.cites[l].item, r.cites[l].forms)
        <4>1. AllTold(r.state.names, r.cites[l].item, r.cites[l].forms)
          BY <1>9, <3>2 DEF Turned
        <4>2. \A n \in DOMAIN Names[r.cites[l].item] :
                 KeysOf(Names[r.cites[l].item][n]) \subseteq DOMAIN r.state.names
          BY <1>1, <3>1, <3>2 DEF Sound, Indexed
        <4>3. DOMAIN r.state.names = DOMAIN v.names /\ Grows(r.state.names, v.names)
          BY <1>3, <1>4, <3>2
        <4>4. QED
          BY <3>1, <4>1, <4>2, <4>3, AllToldOn
      <3>3. QED
        BY <1>7, <1>9, <3>1, <3>2 DEF Turned
    <2>3. QED
      BY <2>1, <2>2
  <1>10. ASSUME NEW l \in 1 .. Len(cites)
         PROVE  /\ s.cites[l].item = cites[l].item
                /\ s.cites[l].forms = cites[l].forms \/ Turned(w, s, l)
    <2>1. CASE l = k
      BY <1>2, <1>6, <1>7, <1>8, <2>1
    <2>2. CASE l # k
      BY <1>1, <1>6, <1>7, <1>9, <2>2
    <2>3. QED
      BY <2>1, <2>2
  <1>11. v.indexed = w.indexed
    BY <1>1, <1>2, <1>3
  <1>12. Sound(w) => DOMAIN v.names = DOMAIN w.names /\ Grows(w.names, v.names)
    BY <1>1, <1>3, <1>4, GrowsOn
  <1>13. s \in [state : Workings, cites : Seq(Cite)]
    BY <1>3, <1>6 DEF s
  <1>14. s \in Results(w, cites)
    BY <1>1, <1>3, <1>6, <1>7, <1>10, <1>11, <1>12, <1>13 DEF Results
  <1>15. QED
    BY <1>5, <1>8, <1>9, <1>14

\* In the end all citations of tainted items have been told.
LEMMA ReturnedIn ==
    ASSUME StyleInv, NEW w \in Workings, NEW cites \in Seq(Cite), NEW at \in 1 .. Len(cites),
           \A k \in 1 .. Len(cites) : cites[k].item \in w.indexed
    PROVE  LET r == Returned(w, cites, at)
           IN  /\ r \in Results(w, cites) /\ Turned(w, r, at)
               /\ \A k \in 1 .. Len(cites) :
                     cites[k].item \in ToSet(w.tainted) => Turned(w, r, k)
  <1> DEFINE turns == Turns(w.tainted, cites, at)
             m == Len(turns)
             base == [state |-> w, cites |-> cites]
             fold == FTurn!Folded(base, turns, 0)
             X == Results(w, cites)
             Y == [k \in 0 .. m |-> {x \in X : \A j \in 1 .. k : Turned(w, x, turns[j])}]
  <1>1. Returned(w, cites, at) = fold
    BY ReturnedFold
  <1>2. /\ turns \in Seq(1 .. Len(cites)) /\ at \in ToSet(turns)
        /\ \A k \in 1 .. Len(cites) : cites[k].item \in ToSet(w.tainted) => k \in ToSet(turns)
    <2>1. w.tainted \in Seq(Item)
      BY DEF Workings
    <2>2. QED
      BY <2>1, TurnsIn
  <1> HIDE DEF turns
  <1>3. /\ DOMAIN turns = 1 .. m /\ m \in Nat
        /\ \A k \in 1 .. m : turns[k] \in 1 .. Len(cites)
    BY <1>2
  <1> HIDE DEF m
  <1>4. base \in X
    <2>1. base.state = w /\ base.cites = cites /\ base \in [state : Workings, cites : Seq(Cite)]
      OBVIOUS
    <2> HIDE DEF base
    <2>2. Grows(w.names, w.names)
      BY DEF Grows
    <2>3. QED
      BY <2>1, <2>2 DEF Results
  <1>5. base \in Y[0]
    BY <1>3, <1>4
  <1>6. FTurn!StaysIn(X, turns, m, 0)
    <2>1. SUFFICES ASSUME NEW x \in X, NEW k \in 1 .. m
                   PROVE  TurnStep(x, turns[k], 0) \in X
      BY DEF FTurn!StaysIn
    <2>2. turns[k] \in 1 .. Len(cites)
      BY <1>3
    <2>3. QED
      BY <2>2, TurnStepIn
  <1>7. FTurn!Keeps(X, Y, turns, m, 0)
    <2>1. SUFFICES ASSUME NEW k \in 1 .. m, NEW x \in X, x \in Y[k - 1]
                   PROVE  TurnStep(x, turns[k], 0) \in Y[k]
      BY DEF FTurn!Keeps
    <2>2. /\ turns[k] \in 1 .. Len(cites) /\ k \in 0 .. m /\ k - 1 \in 0 .. m
          /\ \A j \in 1 .. k : j \in 1 .. k - 1 \/ j = k
      BY <1>3
    <2>3. \A j \in 1 .. k - 1 : Turned(w, x, turns[j])
      BY <2>1, <2>2
    <2> DEFINE y == TurnStep(x, turns[k], 0)
    <2>4. /\ y \in X /\ Turned(w, y, turns[k])
          /\ \A l \in 1 .. Len(cites) : Turned(w, x, l) => Turned(w, y, l)
      BY <2>2, TurnStepIn
    <2> HIDE DEF y, X
    <2>5. \A j \in 1 .. k : Turned(w, y, turns[j])
      <3>1. SUFFICES ASSUME NEW j \in 1 .. k PROVE Turned(w, y, turns[j])
        OBVIOUS
      <3>2. j \in 1 .. m
        BY <1>3, <2>2
      <3>3. QED
        BY <1>3, <2>2, <2>3, <2>4, <3>2
    <2>6. y \in Y[k]
      BY <2>2, <2>4, <2>5
    <2>7. QED
      BY <2>6 DEF y
  <1> HIDE DEF X, Y, base
  <1>8. fold \in Y[m]
    BY <1>3, <1>4, <1>5, <1>6, <1>7, FTurn!FoldKeeps
  <1>9. m \in 0 .. m
    BY <1>3
  <1> HIDE DEF fold
  <1>10. fold \in X /\ \A j \in 1 .. m : Turned(w, fold, turns[j])
    BY <1>8, <1>9 DEF Y
  <1>11. \A k \in ToSet(turns) : Turned(w, fold, k)
    BY <1>3, <1>10 DEF ToSet
  <1>12. QED
    BY <1>1, <1>2, <1>10, <1>11 DEF X

-----------------------------------------------------------------------------
(* The inductive invariant. *)

Cited(cites) == {cites[k].item : k \in DOMAIN cites}

TypeInv ==
    /\ StyleInv
    /\ removals \in Nat
    /\ Working \in Steady
    /\ document \in Seq(Cite)
    /\ nameind = Cited(document)
    /\ \A k \in 1 .. Len(document) : DOMAIN document[k].forms = DOMAIN Names[document[k].item]

\* The registry has the names of the items with their keys and no others, and what
\* the document shows of every name is right.
Settled(reg, ind, cites) ==
    /\ Indexed(reg, ind)
    /\ From(reg, ind)
    /\ \A k \in 1 .. Len(cites) : \A n \in DOMAIN Names[cites[k].item] :
          Looked(Names[cites[k].item][n], n) =>
             Right(reg, ind, cites[k].item, n, cites[k].forms[n])

GrowInv == removals = 0 => Settled(namereg, nameind, document)

IInv == TypeInv /\ GrowInv

\* The citations that stay are citations of the document.
LEMMA WithoutIn ==
    ASSUME document \in Seq(Cite), NEW places
    PROVE  /\ Without(places) \in Seq(Cite)
           /\ \A n \in 1 .. Len(Without(places)) :
                 \E k \in 1 .. Len(document) : Without(places)[n] = document[k]
           /\ places = {} => Without(places) = document
  <1> DEFINE stay == Among(DOMAIN document \ places, Places(document))
             left == [n \in DOMAIN stay |-> document[stay[n]]]
  <1>1. /\ Places(document) \in Seq(1 .. Len(document))
        /\ ToSet(Places(document)) = DOMAIN document
        /\ Len(Places(document)) = Len(document)
        /\ \A k \in 1 .. Len(document) : Places(document)[k] = k
        /\ DOMAIN document = 1 .. Len(document) /\ Len(document) \in Nat
    BY PlacesIn
  <1>2. /\ stay \in Seq(1 .. Len(document))
        /\ places = {} => stay = Places(document)
    <2> DEFINE C == 1 .. Len(document)
               set == DOMAIN document \ places
               list == Places(document)
    <2>1. list \in Seq(C) /\ (places = {} => ToSet(list) \subseteq set)
      BY <1>1
    <2>2. stay = Among(set, list)
      OBVIOUS
    <2> HIDE DEF C, set, list, stay
    <2>3. Among(set, list) \in Seq(C) /\ (ToSet(list) \subseteq set => Among(set, list) = list)
      BY <2>1, AmongIn
    <2>4. QED
      BY <2>1, <2>2, <2>3 DEF C, list
  <1>3. Without(places) = left
    BY DEF Without
  <1> HIDE DEF stay
  <1>4. DOMAIN stay = 1 .. Len(stay) /\ Len(stay) \in Nat
        /\ \A n \in 1 .. Len(stay) : stay[n] \in 1 .. Len(document)
    BY <1>2
  <1>5. \A n \in 1 .. Len(stay) : document[stay[n]] \in Cite
    BY <1>4
  <1>6. left \in Seq(Cite) /\ Len(left) = Len(stay)
        /\ \A n \in 1 .. Len(stay) : left[n] = document[stay[n]]
    BY <1>4, <1>5
  <1>7. ASSUME places = {}
        PROVE  left = document
    <2>1. Len(stay) = Len(document) /\ \A n \in 1 .. Len(stay) : stay[n] = n
      BY <1>1, <1>2, <1>7
    <2> HIDE DEF left
    <2>2. Len(left) = Len(document) /\ \A n \in 1 .. Len(document) : left[n] = document[n]
      BY <1>6, <2>1
    <2>3. left = [n \in 1 .. Len(document) |-> left[n]]
          /\ document = [n \in 1 .. Len(document) |-> document[n]]
      BY <1>6, <2>2
    <2>4. QED
      BY <2>2, <2>3
  <1> HIDE DEF left
  <1>8. QED
    BY <1>3, <1>4, <1>6, <1>7

\* A list with one more member, at a place of it.
Into(cites, kept, at, x) ==
    /\ cites \in Seq(Cite) /\ Len(cites) = Len(kept) + 1 /\ at \in 1 .. Len(cites)
    /\ cites[at] = x
    /\ \A k \in 1 .. Len(cites) : k # at => \E n \in 1 .. Len(kept) : cites[k] = kept[n]
    /\ \A n \in 1 .. Len(kept) : \E k \in 1 .. Len(cites) : cites[k] = kept[n]

\* InsertAt makes one of them.
LEMMA InsertAtIn ==
    ASSUME NEW kept \in Seq(Cite), NEW at \in 1 .. Len(kept) + 1, NEW x \in Cite,
           NEW cites, cites = InsertAt(kept, at, x)
    PROVE  Into(cites, kept, at, x)
  <1> DEFINE a == SubSeq(kept, 1, at - 1)
             b == SubSeq(kept, at, Len(kept))
             o == <<x>>
  <1>1. cites = (a \o o) \o b
    BY DEF InsertAt
  <1>2. /\ a \in Seq(Cite) /\ Len(a) = at - 1
        /\ \A k \in 1 .. at - 1 : a[k] = kept[k]
    OBVIOUS
  <1>3. /\ b \in Seq(Cite) /\ Len(b) = Len(kept) - at + 1
        /\ \A k \in 1 .. Len(kept) - at + 1 : b[k] = kept[at + k - 1]
    OBVIOUS
  <1>4. o \in Seq(Cite) /\ Len(o) = 1 /\ o[1] = x
    OBVIOUS
  <1> HIDE DEF a, b, o
  <1> DEFINE c == a \o o
  <1>5. /\ c \in Seq(Cite) /\ Len(c) = at /\ c[at] = x
        /\ \A k \in 1 .. at - 1 : c[k] = kept[k]
    <2>1. at \in Nat /\ at >= 1 /\ Len(a) + 1 = at /\ 1 \in 1 .. Len(o)
      BY <1>2, <1>4
    <2>2. a \in Seq(Cite) /\ o \in Seq(Cite)
      BY <1>2, <1>4
    <2>3. /\ a \o o \in Seq(Cite) /\ Len(a \o o) = Len(a) + Len(o)
          /\ \A k \in 1 .. Len(a) : (a \o o)[k] = a[k]
          /\ \A k \in 1 .. Len(o) : (a \o o)[Len(a) + k] = o[k]
      BY ONLY <2>2, ConcatIn
    <2>4. /\ c \in Seq(Cite) /\ Len(c) = Len(a) + Len(o)
          /\ \A k \in 1 .. Len(a) : c[k] = a[k]
          /\ \A k \in 1 .. Len(o) : c[Len(a) + k] = o[k]
      BY <2>3
    <2> HIDE DEF c
    <2>5. c[at] = x
      BY <1>4, <2>1, <2>4
    <2>6. QED
      BY <1>2, <1>4, <2>1, <2>4, <2>5
  <1> HIDE DEF c
  <1>6. /\ cites \in Seq(Cite) /\ Len(cites) = Len(kept) + 1
        /\ \A k \in 1 .. at : cites[k] = c[k]
        /\ \A k \in at + 1 .. Len(kept) + 1 : cites[k] = b[k - at]
    <2>1. cites = c \o b
      BY <1>1 DEF c
    <2>2. at \in Nat /\ Len(kept) \in Nat
      OBVIOUS
    <2>3. QED
      BY <1>3, <1>5, <2>1, <2>2
  <1>7. at \in Nat /\ Len(kept) \in Nat /\ at <= Len(kept) + 1 /\ at >= 1
    OBVIOUS
  <1>8. ASSUME NEW k \in 1 .. Len(cites), k # at
        PROVE  \E n \in 1 .. Len(kept) : cites[k] = kept[n]
    <2>1. CASE k < at
      <3>1. k \in 1 .. at - 1 /\ k \in 1 .. at /\ k \in 1 .. Len(kept)
        BY <1>6, <1>7, <2>1
      <3>2. cites[k] = kept[k]
        BY <1>5, <1>6, <3>1
      <3>3. QED
        BY <3>1, <3>2
    <2>2. CASE ~(k < at)
      <3>1. /\ k \in at + 1 .. Len(kept) + 1 /\ k - at \in 1 .. Len(kept) - at + 1
            /\ at + (k - at) - 1 = k - 1 /\ k - 1 \in 1 .. Len(kept)
        BY <1>6, <1>7, <1>8, <2>2
      <3>2. cites[k] = kept[k - 1]
        BY <1>3, <1>6, <3>1
      <3>3. QED
        BY <3>1, <3>2
    <2>3. QED
      BY <2>1, <2>2
  <1>9. ASSUME NEW n \in 1 .. Len(kept)
        PROVE  \E k \in 1 .. Len(cites) : cites[k] = kept[n]
    <2>1. CASE n < at
      <3>1. n \in 1 .. at - 1 /\ n \in 1 .. at /\ n \in 1 .. Len(cites)
        BY <1>6, <1>7, <2>1
      <3>2. cites[n] = kept[n]
        BY <1>5, <1>6, <3>1
      <3>3. QED
        BY <3>1, <3>2
    <2>2. CASE ~(n < at)
      <3>1. /\ n + 1 \in at + 1 .. Len(kept) + 1 /\ n + 1 \in 1 .. Len(cites)
            /\ (n + 1) - at \in 1 .. Len(kept) - at + 1 /\ at + ((n + 1) - at) - 1 = n
        BY <1>6, <1>7, <2>2
      <3>2. cites[n + 1] = kept[n]
        BY <1>3, <1>6, <3>1
      <3>3. QED
        BY <3>1, <3>2
    <2>3. QED
      BY <2>1, <2>2
  <1>10. QED
    BY <1>5, <1>6, <1>7, <1>8, <1>9 DEF Into

\* The items that the citations of a document are of, once each.
LEMMA ItemsOf ==
    ASSUME NEW cites \in Seq(Cite)
    PROVE  LET items == AddAll(<<>>, [k \in DOMAIN cites |-> cites[k].item])
           IN  items \in Seq(Item) /\ IsInjective(items) /\ ToSet(items) = Cited(cites)
  <1> DEFINE list == [k \in DOMAIN cites |-> cites[k].item]
  <1>1. DOMAIN cites = 1 .. Len(cites) /\ Len(cites) \in Nat
        /\ \A k \in 1 .. Len(cites) : cites[k].item \in Item
    <2>1. \A k \in 1 .. Len(cites) : cites[k] \in Cite
      OBVIOUS
    <2>2. QED
      BY <2>1 DEF Cite
  <1>2. list \in Seq(Item) /\ ToSet(list) = Cited(cites)
    <2>1. list = [k \in 1 .. Len(cites) |-> cites[k].item]
      BY <1>1
    <2>2. list \in Seq(Item)
      BY <1>1, <2>1
    <2>3. ToSet(list) = Cited(cites)
      BY DEF ToSet, Cited
    <2>4. QED
      BY <2>2, <2>3
  <1> HIDE DEF list
  <1> DEFINE none == <<>>
  <1>3. none \in Seq(Item) /\ ToSet(none) = {} /\ IsInjective(none)
    BY DEF ToSet, IsInjective
  <1> HIDE DEF none
  <1>4. /\ AddAll(none, list) \in Seq(Item)
        /\ ToSet(AddAll(none, list)) = ToSet(none) \cup ToSet(list)
        /\ IsInjective(AddAll(none, list))
    <2>1. list \in Seq(Item) /\ none \in Seq(Item) /\ IsInjective(none)
      BY <1>2, <1>3
    <2>2. QED
      BY ONLY <2>1, AddAllIn
  <1>5. QED
    BY <1>2, <1>3, <1>4 DEF list, none

\* The working state holds the registries.
LEMMA WorkingIs ==
    /\ Working.names = namereg /\ Working.indexed = nameind /\ Working.items = registry
    /\ Working.pool = ambig /\ Working.pools = ambigcites
    /\ Working.tainted = <<>> /\ Working.refreshes = <<>> /\ Working.forms = <<>>
  BY DEF Working

\* One call, with the working state and the document it ends with.
LEMMA CallIn ==
    ASSUME StyleInv, NEW w \in Steady, w.refreshes = <<>>, NEW kept \in Seq(Cite),
           NEW item \in Item, NEW at \in 1 .. Len(kept) + 1
    PROVE  LET cites == InsertAt(kept, at, [item |-> item, forms |-> <<>>])
               items == AddAll(<<>>, [k \in DOMAIN cites |-> cites[k].item])
               u == updateItems(w, items)
               r == Returned(u, cites, at)
           IN  /\ u \in Steady /\ u.indexed = Cited(cites)
               /\ r \in Results(u, cites) /\ Turned(u, r, at)
               /\ \A k \in 1 .. Len(cites) : cites[k].item \in ToSet(u.tainted) => Turned(u, r, k)
               /\ cites \in Seq(Cite) /\ at \in 1 .. Len(cites)
               /\ \A k \in 1 .. Len(cites) :
                     k # at => \E n \in 1 .. Len(kept) : cites[k] = kept[n]
               /\ ToSet(w.items) \subseteq Cited(kept) => Bears(w, u)
  <1> DEFINE x == [item |-> item, forms |-> <<>>]
             cites == InsertAt(kept, at, x)
             items == AddAll(<<>>, [k \in DOMAIN cites |-> cites[k].item])
             u == updateItems(w, items)
             r == Returned(u, cites, at)
  <1>1. x \in Cite
    BY DEF Cite
  <1> HIDE DEF x
  <1>2. /\ cites \in Seq(Cite) /\ at \in 1 .. Len(cites)
        /\ \A k \in 1 .. Len(cites) :
              k # at => \E n \in 1 .. Len(kept) : cites[k] = kept[n]
        /\ \A n \in 1 .. Len(kept) : \E k \in 1 .. Len(cites) : cites[k] = kept[n]
    <2>1. cites = InsertAt(kept, at, x)
      OBVIOUS
    <2> HIDE DEF cites
    <2>2. kept \in Seq(Cite) /\ at \in 1 .. Len(kept) + 1 /\ x \in Cite
      BY <1>1
    <2>3. Into(cites, kept, at, x)
      BY ONLY <2>1, <2>2, InsertAtIn
    <2>4. QED
      BY <2>3 DEF Into
  <1> HIDE DEF cites
  <1>3. items \in Seq(Item) /\ IsInjective(items) /\ ToSet(items) = Cited(cites)
    BY <1>2, ItemsOf
  <1> HIDE DEF items
  <1>4. /\ u \in Steady /\ ToSet(u.items) = ToSet(items)
        /\ ToSet(w.items) \subseteq ToSet(items) => Bears(w, u)
    BY <1>3, updateItemsIn
  <1> HIDE DEF u
  <1>5. u \in Workings /\ u.indexed = Cited(cites)
    BY <1>3, <1>4 DEF Steady
  <1>6. \A k \in 1 .. Len(cites) : cites[k].item \in u.indexed
    <2>1. DOMAIN cites = 1 .. Len(cites)
      BY <1>2
    <2>2. QED
      BY <1>5, <2>1 DEF Cited
  <1>7. /\ r \in Results(u, cites) /\ Turned(u, r, at)
        /\ \A k \in 1 .. Len(cites) : cites[k].item \in ToSet(u.tainted) => Turned(u, r, k)
    BY <1>2, <1>5, <1>6, ReturnedIn
  <1> HIDE DEF r
  <1>8. Cited(kept) \subseteq Cited(cites)
    <2>1. DOMAIN kept = 1 .. Len(kept) /\ DOMAIN cites = 1 .. Len(cites)
      BY <1>2
    <2>2. QED
      BY <1>2, <2>1 DEF Cited
  <1>9. QED
    BY <1>2, <1>3, <1>4, <1>5, <1>7, <1>8 DEF r, u, items, cites, x

\* The working state of the next call, from what a call leaves.
Left(v) ==
    [names |-> v.names, indexed |-> v.indexed, items |-> v.items, pool |-> v.pool,
     pools |-> v.pools, tainted |-> <<>>, refreshes |-> <<>>, forms |-> <<>>]

\* It is steady if what updateItems made is.
LEMMA LeftIn ==
    ASSUME NEW u \in Steady, NEW v \in Workings, v.indexed = u.indexed, v.items = u.items,
           v.pool = u.pool, v.pools = u.pools
    PROVE  Left(v) \in Steady
  <1>1. /\ u.indexed = ToSet(u.items) /\ IsInjective(u.items)
        /\ \A i \in ToSet(u.items) : i \in ToSet(u.pools[u.pool[i]])
    BY DEF Steady, Pooled
  <1> DEFINE none == <<>>
  <1>2. none \in Seq(Item) /\ none \in Seq(0 .. 2)
    OBVIOUS
  <1> HIDE DEF none
  <1> DEFINE l == [names |-> v.names, indexed |-> v.indexed, items |-> v.items, pool |-> v.pool,
                   pools |-> v.pools, tainted |-> none, refreshes |-> none, forms |-> none]
  <1>3. Left(v) = l
    BY DEF Left, none
  <1>4. l \in Workings
    BY <1>2 DEF Workings
  <1>5. l.indexed = u.indexed /\ l.items = u.items /\ l.pool = u.pool /\ l.pools = u.pools
    OBVIOUS
  <1> HIDE DEF l
  <1>6. QED
    BY <1>1, <1>3, <1>4, <1>5 DEF Steady, Pooled

\* Init => IInv: in the beginning nothing is registered and nothing on show.
THEOREM Initially == Init => IInv
  <1> SUFFICES ASSUME Init PROVE IInv
    OBVIOUS
  <1> DEFINE none == <<>>
             w == [names |-> none, indexed |-> {}, items |-> none, pool |-> [i \in Item |-> i],
                   pools |-> [i \in Item |-> none], tainted |-> none, refreshes |-> none,
                   forms |-> none]
  <1>1. /\ none \in Seq(Item) /\ none \in Seq(0 .. 2) /\ none \in Seq(Cite)
        /\ DOMAIN none = {} /\ ToSet(none) = {} /\ IsInjective(none) /\ Len(none) = 0
    BY DEF ToSet, IsInjective
  <1>2. none \in Registers
    <2>1. none \in [{} -> Seq(Item)] /\ {} \in SUBSET Keys
      BY <1>1
    <2>2. IsFiniteSet({})
      BY FS_EmptySet
    <2> HIDE DEF none
    <2>3. QED
      BY <2>1, <2>2, AreRegisters
  <1>3. /\ style \in Styles /\ removals = 0 /\ Working = w /\ document = none
        /\ nameind = {} /\ namereg = none
    BY DEF Init, Working
  <1> HIDE DEF none
  <1>4. w \in Steady
    <2>1. w \in Workings
      BY <1>1, <1>2 DEF Workings
    <2>2. w.items = none /\ w.indexed = {}
      OBVIOUS
    <2> HIDE DEF w
    <2>3. QED
      BY <1>1, <2>1, <2>2 DEF Steady, Pooled
  <1>5. TypeInv
    <2>1. Cited(none) = {}
      BY <1>1 DEF Cited
    <2>2. QED
      BY <1>1, <1>3, <1>4, <2>1 DEF TypeInv, StyleInv
  <1>6. GrowInv
    BY <1>1, <1>3 DEF GrowInv, Settled, Indexed, From
  <1>7. QED
    BY <1>5, <1>6 DEF IInv

\* The parts of a result.
LEMMA ResultIs ==
    ASSUME NEW w, NEW cites, NEW r \in Results(w, cites)
    PROVE  /\ r.state \in Workings /\ r.cites \in Seq(Cite)
           /\ r.state.indexed = w.indexed /\ r.state.items = w.items
           /\ r.state.pool = w.pool /\ r.state.pools = w.pools
           /\ Len(r.cites) = Len(cites)
           /\ \A k \in 1 .. Len(cites) :
                 /\ r.cites[k].item = cites[k].item
                 /\ r.cites[k].forms = cites[k].forms \/ Turned(w, r, k)
           /\ Sound(w) =>
                 DOMAIN r.state.names = DOMAIN w.names /\ Grows(w.names, r.state.names)
  BY DEF Results

\* What is on show after a call that takes nothing out.
LEMMA StaysRight ==
    ASSUME IInv, removals = 0, NEW u \in Workings, Bears(Working, u),
           NEW reg \in Registers, DOMAIN reg = DOMAIN u.names, Grows(u.names, reg),
           NEW k \in 1 .. Len(document), NEW n \in DOMAIN Names[document[k].item],
           Looked(Names[document[k].item][n], n), document[k].item \notin ToSet(u.tainted)
    PROVE  Right(reg, u.indexed, document[k].item, n, document[k].forms[n])
  <1> DEFINE i == document[k].item
             f == document[k].forms[n]
  <1>1. /\ Indexed(namereg, nameind) /\ From(namereg, nameind)
        /\ Right(namereg, nameind, i, n, f)
    BY DEF IInv, GrowInv, Settled
  <1>2. i \in nameind
    <2>1. document \in Seq(Cite) /\ nameind = Cited(document)
      BY DEF IInv, TypeInv
    <2>2. DOMAIN document = 1 .. Len(document)
      BY <2>1
    <2>3. QED
      BY <2>1, <2>2 DEF Cited
  <1> HIDE DEF i, f
  <1>3. Sound(Working)
    BY <1>1, WorkingIs DEF Sound
  <1>4. Held(namereg, i, n, f) /\ Clear(nameind, i, n, f) /\ Owed(nameind, i, n, f)
        /\ (AllNames => f = Param(namereg, Names[i][n], n))
    BY <1>1 DEF Right
  <1>5. Waiting(Working, i, n, f)
    BY <1>2, <1>4, WorkingIs DEF Waiting
  <1>6. i \in Item /\ n \in DOMAIN Names[i] /\ f \in 0 .. 2
    BY <1>4 DEF Held
  <1>7. Waiting(u, i, n, f)
    BY <1>3, <1>5, <1>6 DEF Bears
  <1>8. i \notin ToSet(u.tainted)
    BY DEF i
  <1>9. /\ Held(u.names, i, n, f) /\ Owed(u.indexed, i, n, f) /\ Clear(u.indexed, i, n, f)
        /\ (AllNames => f = Param(u.names, Names[i][n], n))
    BY <1>7, <1>8 DEF Waiting
  <1>10. Held(reg, i, n, f)
    BY <1>9, HeldOn
  <1>11. Param(reg, Names[i][n], n) = Param(u.names, Names[i][n], n)
    BY ParamOfKeys
  <1>12. QED
    BY <1>9, <1>10, <1>11 DEF Right, i, f

\* What is on show of a citation whose turn came.
LEMMA TurnedRight ==
    ASSUME StyleInv, NEW u \in Workings, Sound(u), NEW cites,
           NEW r \in Results(u, cites), NEW k \in 1 .. Len(cites), Turned(u, r, k),
           r.cites[k].item \in u.indexed, NEW n \in DOMAIN Names[r.cites[k].item],
           Looked(Names[r.cites[k].item][n], n)
    PROVE  Right(r.state.names, u.indexed, r.cites[k].item, n, r.cites[k].forms[n])
  <1> DEFINE i == r.cites[k].item
             f == r.cites[k].forms[n]
             reg == r.state.names
  <1>1. Told(reg, i, n, f)
    BY DEF Turned, AllTold
  <1>2. reg \in Registers /\ DOMAIN reg = DOMAIN u.names
    <2>1. r.state \in Workings
      BY ResultIs
    <2>2. r.state.names \in Registers
      BY <2>1 DEF Workings
    <2>3. QED
      BY <2>2, ResultIs
  <1>3. u.indexed \in SUBSET Item
    BY DEF Workings
  <1> HIDE DEF i, f, reg
  <1>4. Indexed(reg, u.indexed) /\ From(reg, u.indexed)
    BY <1>2 DEF Sound, Indexed, From
  <1>5. i \in u.indexed /\ n \in DOMAIN Names[i] /\ Looked(Names[i][n], n)
    BY DEF i
  <1>6. Right(reg, u.indexed, i, n, f)
    BY <1>1, <1>2, <1>3, <1>4, <1>5, FreshRight
  <1>7. QED
    BY <1>6 DEF i, f, reg

\* What a call that takes out some citations leaves.
Called(out, r) ==
    /\ Left(r.state) \in Steady
    /\ r.cites \in Seq(Cite)
    /\ r.state.indexed = Cited(r.cites)
    /\ \A k \in 1 .. Len(r.cites) : DOMAIN r.cites[k].forms = DOMAIN Names[r.cites[k].item]
    /\ out = {} /\ removals = 0 => Settled(r.state.names, r.state.indexed, r.cites)

\* A call of processCitationCluster leaves registries that agree, and, if nothing
\* was ever taken out of the document, a document on which every name is right.
LEMMA CalledIn ==
    ASSUME IInv, NEW item \in Item, NEW out \in SUBSET DOMAIN document,
           NEW at \in 1 .. Len(Without(out)) + 1
    PROVE  LET cites == InsertAt(Without(out), at, [item |-> item, forms |-> <<>>])
               items == AddAll(<<>>, [k \in DOMAIN cites |-> cites[k].item])
           IN  Called(out, Returned(updateItems(Working, items), cites, at))
  <1> DEFINE kept == Without(out)
             cites == InsertAt(kept, at, [item |-> item, forms |-> <<>>])
             items == AddAll(<<>>, [k \in DOMAIN cites |-> cites[k].item])
             u == updateItems(Working, items)
             r == Returned(u, cites, at)
  <1>1. /\ StyleInv /\ Working \in Steady /\ document \in Seq(Cite)
        /\ nameind = Cited(document)
        /\ \A k \in 1 .. Len(document) : DOMAIN document[k].forms = DOMAIN Names[document[k].item]
    BY DEF IInv, TypeInv
  <1>2. /\ kept \in Seq(Cite)
        /\ \A n \in 1 .. Len(kept) : \E k \in 1 .. Len(document) : kept[n] = document[k]
        /\ out = {} => kept = document
    BY <1>1, WithoutIn
  <1>3. at \in 1 .. Len(kept) + 1
    OBVIOUS
  <1> HIDE DEF kept
  <1>4. Working.refreshes = <<>>
    BY WorkingIs
  <1>5. /\ u \in Steady /\ u.indexed = Cited(cites)
        /\ r \in Results(u, cites) /\ Turned(u, r, at)
        /\ \A k \in 1 .. Len(cites) : cites[k].item \in ToSet(u.tainted) => Turned(u, r, k)
        /\ cites \in Seq(Cite) /\ at \in 1 .. Len(cites)
        /\ \A k \in 1 .. Len(cites) :
              k # at => \E n \in 1 .. Len(kept) : cites[k] = kept[n]
        /\ ToSet(Working.items) \subseteq Cited(kept) => Bears(Working, u)
    BY <1>1, <1>2, <1>3, <1>4, CallIn
  <1> HIDE DEF cites, items, u, r
  <1>6. /\ r.state \in Workings /\ r.cites \in Seq(Cite)
        /\ r.state.indexed = u.indexed /\ r.state.items = u.items
        /\ r.state.pool = u.pool /\ r.state.pools = u.pools
        /\ Len(r.cites) = Len(cites)
        /\ \A k \in 1 .. Len(cites) :
              /\ r.cites[k].item = cites[k].item
              /\ r.cites[k].forms = cites[k].forms \/ Turned(u, r, k)
        /\ Sound(u) =>
              DOMAIN r.state.names = DOMAIN u.names /\ Grows(u.names, r.state.names)
    BY <1>5, ResultIs
  <1>7. u \in Workings
    BY <1>5 DEF Steady
  <1>8. Left(r.state) \in Steady
    BY <1>5, <1>6, LeftIn
  <1>9. Cited(r.cites) = Cited(cites)
    <2>1. DOMAIN r.cites = DOMAIN cites /\ DOMAIN cites = 1 .. Len(cites)
      BY <1>5, <1>6
    <2>2. QED
      BY <1>6, <2>1 DEF Cited
  <1>10. ASSUME NEW k \in 1 .. Len(cites), ~Turned(u, r, k)
         PROVE  /\ r.cites[k].forms = cites[k].forms
                /\ r.cites[k].item = cites[k].item
                /\ r.cites[k].item \notin ToSet(u.tainted)
                /\ \E l \in 1 .. Len(document) : cites[k] = document[l]
    <2>1. k # at /\ r.cites[k].item = cites[k].item /\ r.cites[k].forms = cites[k].forms
      BY <1>5, <1>6, <1>10
    <2>2. cites[k].item \notin ToSet(u.tainted)
      BY <1>5, <1>10
    <2>3. QED
      BY <1>2, <1>5, <2>1, <2>2
  <1>11. ASSUME NEW k \in 1 .. Len(r.cites)
         PROVE  DOMAIN r.cites[k].forms = DOMAIN Names[r.cites[k].item]
    <2>1. k \in 1 .. Len(cites)
      BY <1>6
    <2>2. CASE Turned(u, r, k)
      BY <2>2 DEF Turned
    <2>3. CASE ~Turned(u, r, k)
      BY <1>1, <1>10, <2>1, <2>3
    <2>4. QED
      BY <2>2, <2>3
  <1>12. ASSUME out = {}, removals = 0
         PROVE  Settled(r.state.names, r.state.indexed, r.cites)
    <2>1. Sound(Working)
      BY <1>12, WorkingIs DEF IInv, GrowInv, Settled, Sound
    <2>2. Bears(Working, u)
      <3>1. ToSet(Working.items) = nameind
        BY <1>1, WorkingIs DEF Steady
      <3>2. QED
        BY <1>1, <1>2, <1>5, <1>12, <3>1
    <2>3. Sound(u)
      BY <2>1, <2>2 DEF Bears
    <2>4. DOMAIN r.state.names = DOMAIN u.names /\ Grows(u.names, r.state.names)
      BY <1>6, <2>3
    <2>5. Indexed(r.state.names, r.state.indexed) /\ From(r.state.names, r.state.indexed)
      BY <1>6, <2>3, <2>4 DEF Sound, Indexed, From
    <2>6. r.state.names \in Registers
      BY <1>6 DEF Workings
    <2>7. ASSUME NEW k \in 1 .. Len(r.cites), NEW n \in DOMAIN Names[r.cites[k].item],
                 Looked(Names[r.cites[k].item][n], n)
          PROVE  Right(r.state.names, r.state.indexed, r.cites[k].item, n, r.cites[k].forms[n])
      <3>1. k \in 1 .. Len(cites)
        BY <1>6
      <3>2. r.cites[k].item \in u.indexed
        <4>1. DOMAIN r.cites = 1 .. Len(r.cites)
          BY <1>6
        <4>2. QED
          BY <1>5, <1>9, <4>1 DEF Cited
      <3>3. CASE Turned(u, r, k)
        BY <1>1, <1>5, <1>6, <1>7, <2>3, <2>7, <3>1, <3>2, <3>3, TurnedRight
      <3>4. CASE ~Turned(u, r, k)
        <4>1. PICK l \in 1 .. Len(document) : cites[k] = document[l]
          BY <1>10, <3>1, <3>4
        <4>2. /\ r.cites[k].item = document[l].item /\ r.cites[k].forms = document[l].forms
              /\ document[l].item \notin ToSet(u.tainted)
          BY <1>10, <3>1, <3>4, <4>1
        <4>3. /\ n \in DOMAIN Names[document[l].item]
              /\ Looked(Names[document[l].item][n], n)
          BY <2>7, <4>2
        <4>4. Right(r.state.names, u.indexed, document[l].item, n, document[l].forms[n])
          BY <1>7, <1>12, <2>2, <2>4, <2>6, <4>2, <4>3, StaysRight
        <4>5. QED
          BY <1>6, <4>2, <4>4
      <3>5. QED
        BY <3>3, <3>4
    <2>8. QED
      BY <2>5, <2>7 DEF Settled
  <1>13. r.state.indexed = Cited(r.cites)
    BY <1>5, <1>6, <1>9
  <1>14. Called(out, r)
    BY <1>6, <1>8, <1>11, <1>12, <1>13 DEF Called
  <1>15. QED
    BY <1>14 DEF r, u, items, cites, kept

\* What is right does not depend on the step that is taken.
LEMMA SameRight ==
    ASSUME style' = style, NEW reg, NEW ind, NEW cites, Settled(reg, ind, cites)
    PROVE  Settled(reg, ind, cites)'
  BY DEF Settled, Indexed, From, Right, Held, Clear, Owed, Looked, Apart, AllNames, Param,
         Plain, GivenNames, Later, Most, Printed

\* IInv is inductive: every call of processCitationCluster keeps it.
THEOREM StepKeeps == IInv /\ [Next]_vars => IInv'
  <1> SUFFICES ASSUME IInv, [Next]_vars
               PROVE  IInv'
    OBVIOUS
  <1>1. CASE Next
    <2>1. PICK item \in Item, out \in SUBSET DOMAIN document :
             /\ removals' = IF out = {} THEN removals ELSE removals + 1
             /\ \E at \in 1 .. Len(Without(out)) + 1 :
                   processCitationCluster(item, Without(out), at)
      BY <1>1, Zenon DEF Next
    <2>2. PICK at \in 1 .. Len(Without(out)) + 1 :
             processCitationCluster(item, Without(out), at)
      BY <2>1
    <2> DEFINE cites == InsertAt(Without(out), at, [item |-> item, forms |-> <<>>])
               items == AddAll(<<>>, [k \in DOMAIN cites |-> cites[k].item])
               returned == Returned(updateItems(Working, items), cites, at)
    <2>0. PICK r : r = returned
      OBVIOUS
    <2>3. /\ namereg' = r.state.names /\ nameind' = r.state.indexed
          /\ registry' = r.state.items /\ ambig' = r.state.pool
          /\ ambigcites' = r.state.pools /\ document' = r.cites /\ style' = style
      BY <2>0, <2>2 DEF processCitationCluster
    <2>4. /\ Left(r.state) \in Steady
          /\ r.cites \in Seq(Cite)
          /\ r.state.indexed = Cited(r.cites)
          /\ \A k \in 1 .. Len(r.cites) :
                DOMAIN r.cites[k].forms = DOMAIN Names[r.cites[k].item]
          /\ out = {} /\ removals = 0 =>
                Settled(r.state.names, r.state.indexed, r.cites)
      <3>1. Called(out, returned)
        BY CalledIn
      <3> HIDE DEF returned
      <3>2. QED
        BY <2>0, <3>1 DEF Called
    <2> HIDE DEF returned
    <2>5. Working' = Left(r.state)
      BY <2>3 DEF Working, Left
    <2>6. TypeInv'
      <3>1. removals' \in Nat
        BY <2>1 DEF IInv, TypeInv
      <3>2. QED
        BY <2>3, <2>4, <2>5, <3>1 DEF IInv, TypeInv, StyleInv, Cited
    <2>7. GrowInv'
      <3>1. removals' = 0 => out = {} /\ removals = 0
        BY <2>1 DEF IInv, TypeInv
      <3>2. SUFFICES ASSUME removals' = 0 PROVE Settled(namereg, nameind, document)'
        BY DEF GrowInv
      <3>3. Settled(r.state.names, r.state.indexed, r.cites)
        BY <2>4, <3>1, <3>2
      <3>4. QED
        BY <2>3, <3>3, SameRight
    <2>8. QED
      BY <2>6, <2>7 DEF IInv
  <1>2. CASE UNCHANGED vars
    <2>1. Working' = Working
      BY <1>2 DEF vars, Working
    <2>2. TypeInv'
      BY <1>2, <2>1 DEF IInv, TypeInv, StyleInv, Cited, vars
    <2>3. GrowInv'
      <3>1. SUFFICES ASSUME removals' = 0 PROVE Settled(namereg, nameind, document)'
        BY DEF GrowInv
      <3>2. PICK reg, ind, cites : reg = namereg /\ ind = nameind /\ cites = document
        OBVIOUS
      <3>3. Settled(reg, ind, cites)
        BY <1>2, <3>1, <3>2 DEF vars, IInv, GrowInv
      <3>4. /\ namereg' = reg /\ nameind' = ind /\ document' = cites /\ style' = style
        BY <1>2, <3>2 DEF vars
      <3>5. QED
        BY <3>3, <3>4, SameRight
    <2>4. QED
      BY <2>2, <2>3 DEF IInv
  <1>3. QED
    BY <1>1, <1>2

-----------------------------------------------------------------------------
(* What follows from the invariant. *)

\* The invariant has the values of the variables, and the registries agree.
LEMMA InvTypeOK == ASSUME IInv PROVE TypeOK
  <1>1. /\ style \in Styles /\ Working \in Steady /\ document \in Seq(Cite)
        /\ nameind = Cited(document)
        /\ \A k \in 1 .. Len(document) : DOMAIN document[k].forms = DOMAIN Names[document[k].item]
    BY DEF IInv, TypeInv, StyleInv
  <1>2. /\ Working \in Workings /\ Working.indexed = ToSet(Working.items) /\ Pooled(Working)
    BY <1>1 DEF Steady
  <1>3. /\ namereg \in Registers /\ registry \in Seq(Item) /\ nameind = ToSet(registry)
        /\ ambig \in [Item -> Item] /\ ambigcites \in [Item -> Seq(Item)]
        /\ \A i \in ToSet(registry) : i \in ToSet(ambigcites[ambig[i]])
    <2> DEFINE w == Working
    <2>1. w \in Workings /\ w.indexed = ToSet(w.items)
          /\ \A i \in ToSet(w.items) : i \in ToSet(w.pools[w.pool[i]])
      BY <1>2 DEF Pooled
    <2>2. /\ w.names = namereg /\ w.indexed = nameind /\ w.items = registry
          /\ w.pool = ambig /\ w.pools = ambigcites
      BY WorkingIs
    <2> HIDE DEF w
    <2>3. /\ w.names \in Registers /\ w.items \in Seq(Item) /\ w.pool \in [Item -> Item]
          /\ w.pools \in [Item -> Seq(Item)]
      BY <2>1 DEF Workings
    <2>4. QED
      BY <2>1, <2>2, <2>3
  <1>4. ASSUME NEW key \in DOMAIN namereg
        PROVE  /\ Len(key) \in 1 .. 3
               /\ namereg[key] \in Seq(Item)
               /\ \A n \in 1 .. Len(key) : SubSeq(key, 1, n) \in DOMAIN namereg
    <2>1. key \in Keys /\ namereg[key] \in Seq(Item) /\ KeysOf(key) \subseteq DOMAIN namereg
      BY <1>3, RegistersAre
    <2>2. QED
      BY <2>1 DEF Keys, KeysOf
  <1>5. ToSet(registry) = {document[k].item : k \in DOMAIN document}
    BY <1>1, <1>3 DEF Cited
  <1>6. ASSUME NEW i \in ToSet(registry)
        PROVE  ambig[i] \in Item /\ Contains(ambigcites[ambig[i]], i)
    <2>1. i \in Item
      BY <1>3, ToSetSeq
    <2>2. ambig[i] \in Item /\ ambigcites[ambig[i]] \in Seq(Item)
      BY <1>3, <2>1
    <2>3. QED
      BY <1>3, <2>2, ContainsIn
  <1>7. \A k \in DOMAIN document : DOMAIN document[k].forms = DOMAIN Names[document[k].item]
    BY <1>1
  <1>8. QED
    BY <1>1, <1>3, <1>4, <1>5, <1>6, <1>7 DEF TypeOK

\* A name on show is one that is looked at, of an indexed item, and right.
Seen(a, i, n) ==
    /\ i \in nameind /\ n \in DOMAIN Names[i] /\ Looked(Names[i][n], n)
    /\ a.name = Names[i][n]
    /\ Right(namereg, nameind, i, n, a.form)

LEMMA OnShowSeen ==
    ASSUME IInv, removals = 0, NEW a \in OnShow
    PROVE  \E i, n : Seen(a, i, n)
  <1>1. /\ document \in Seq(Cite) /\ nameind = Cited(document)
        /\ Settled(namereg, nameind, document)
    BY DEF IInv, TypeInv, GrowInv
  <1>2. PICK cite \in ToSet(document) :
           a \in {[name |-> Names[cite.item][n], form |-> cite.forms[n]] :
                     n \in {n \in DOMAIN Names[cite.item] :
                               Len(Names[cite.item][n]) = 3 /\ ~Later(n)}}
    BY DEF OnShow
  <1>3. PICK n \in DOMAIN Names[cite.item] :
           /\ Len(Names[cite.item][n]) = 3 /\ ~Later(n)
           /\ a = [name |-> Names[cite.item][n], form |-> cite.forms[n]]
    BY <1>2
  <1>4. PICK k \in DOMAIN document : document[k] = cite
    BY DEF ToSet
  <1>5. k \in 1 .. Len(document) /\ cite.item \in nameind
    BY <1>1, <1>4 DEF Cited
  <1>6. Looked(Names[cite.item][n], n)
    BY <1>3 DEF Looked
  <1>7. Right(namereg, nameind, cite.item, n, cite.forms[n])
    BY <1>1, <1>4, <1>5, <1>6 DEF Settled
  <1>8. a.name = Names[cite.item][n] /\ a.form = cite.forms[n]
    BY <1>3
  <1>9. Seen(a, cite.item, n)
    BY <1>5, <1>6, <1>7, <1>8 DEF Seen
  <1>10. QED
    BY <1>9

\* A name on show is apart from the names of all indexed items, so from all others
\* on show.
LEMMA InvNamesApart == ASSUME IInv PROVE NamesApart
  <1> SUFFICES ASSUME removals = 0, NEW a \in OnShow, NEW b \in OnShow,
                      Most(a.name) # Most(b.name)
               PROVE  ~IsPrefix(Printed(a.name, a.form), b.name)
    BY DEF NamesApart, NamesStayApart
  <1>1. PICK i, n : Seen(a, i, n)
    BY OnShowSeen
  <1>2. PICK j, m : Seen(b, j, m)
    BY OnShowSeen
  <1>3. /\ a.name = Names[i][n] /\ Clear(nameind, i, n, a.form)
        /\ j \in nameind /\ m \in DOMAIN Names[j] /\ Looked(Names[j][m], m) /\ b.name = Names[j][m]
    BY <1>1, <1>2 DEF Seen, Right
  <1>4. Apart(a.name, a.form, b.name)
    BY <1>3 DEF Clear
  <1>5. QED
    BY <1>4 DEF Apart

\* Two places that show one name have the form that the keys ask for now.
LEMMA InvOneForm == ASSUME IInv PROVE OneForm
  <1> SUFFICES ASSUME removals = 0, AllNames, NEW a \in OnShow, NEW b \in OnShow, a.name = b.name
               PROVE  a.form = b.form
    BY DEF OneForm, AllNames
  <1>1. PICK i, n : Seen(a, i, n)
    BY OnShowSeen
  <1>2. PICK j, m : Seen(b, j, m)
    BY OnShowSeen
  <1>3. a.form = Param(namereg, a.name, n) /\ b.form = Param(namereg, a.name, m)
    BY <1>1, <1>2 DEF Seen, Right
  <1>4. ~Later(n) /\ ~Later(m)
    BY DEF AllNames, Later
  <1>5. QED
    BY <1>3, <1>4 DEF Param

\* And the name that another one owes its form to is of a registered item.
LEMMA InvNotMoreThanNeeded == ASSUME IInv PROVE NotMoreThanNeeded
  <1> SUFFICES ASSUME removals = 0, NEW a \in OnShow, a.form > Plain
               PROVE  \E i \in ToSet(registry) : \E other \in ToSet(Names[i]) :
                         /\ other # a.name
                         /\ Len(other) = 3
                         /\ Family(other) = Family(a.name)
                         /\ a.form = 2 /\ style.initialize => Initials(other) = Initials(a.name)
    BY DEF NotMoreThanNeeded
  <1>1. PICK i, n : Seen(a, i, n)
    BY OnShowSeen
  <1>2. a.name = Names[i][n] /\ Owed(nameind, i, n, a.form)
    BY <1>1 DEF Seen, Right
  <1>3. nameind = ToSet(registry)
    BY InvTypeOK DEF TypeOK
  <1>4. QED
    BY <1>2, <1>3 DEF Owed

-----------------------------------------------------------------------------
(* The theorems. *)

\* Every state of the registry of names has the inductive invariant.
THEOREM AlwaysInv == Spec => []IInv
  BY Initially, StepKeeps, PTL DEF Spec

\* The variables have their values, and between two calls the index of names, the
\* list of items, the pools and the document speak of the same items.
THEOREM TypeCorrect == Spec => []TypeOK
  <1>1. IInv => TypeOK
    BY InvTypeOK
  <1>2. QED
    BY <1>1, AlwaysInv, PTL

\* As long as citations are only added, no name on show could stand for another
\* person on show, whatever the items, their names, the style and the order of the
\* calls: evalname taints all items that show what a new name begins with.
THEOREM AlwaysApart == Spec => []NamesApart
  <1>1. IInv => NamesApart
    BY InvNamesApart
  <1>2. QED
    BY <1>1, AlwaysInv, PTL

\* Then also one person has one form in all citations, under the rules that look
\* at all names.
THEOREM AlwaysOneForm == Spec => []OneForm
  <1>1. IInv => OneForm
    BY InvOneForm
  <1>2. QED
    BY <1>1, AlwaysInv, PTL

\* And what a citation shows beyond the plain form is on account of another name
\* that a registered item has.
THEOREM AlwaysNeeded == Spec => []NotMoreThanNeeded
  <1>1. IInv => NotMoreThanNeeded
    BY InvNotMoreThanNeeded
  <1>2. QED
    BY <1>1, AlwaysInv, PTL
=============================================================================
