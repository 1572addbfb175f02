------------------------ MODULE DisambiguationProofs ------------------------
(***************************************************************************)
(* Proofs about Disambiguation, for any items, names, titles and styles    *)
(* and any lists callers pass: type correctness, which is what keeps the   *)
(* loop of runDisambig in its arrays and each item in one list.            *)
(***************************************************************************)
EXTENDS Disambiguation, FiniteSetTheorems, TLAPS

-----------------------------------------------------------------------------
(* The code's loops over items are folds.                                  *)

FOnly == INSTANCE Folding WITH Op <- AddIf
FScan == INSTANCE Folding WITH Op <- Compared

\* An item that is appended is the one more in the list.
LEMMA AppendIs ==
    ASSUME NEW S, NEW s \in Seq(S), NEW i \in S
    PROVE  /\ Append(s, i) \in Seq(S) /\ ToSet(Append(s, i)) = ToSet(s) \cup {i}
           /\ Len(Append(s, i)) = Len(s) + 1
           /\ IsInjective(s) /\ i \notin ToSet(s) => IsInjective(Append(s, i))
  <1> DEFINE t == Append(s, i)
             n == Len(s)
  <1>1. /\ t \in Seq(S) /\ Len(t) = n + 1 /\ n \in Nat
        /\ DOMAIN s = 1 .. n /\ DOMAIN t = 1 .. n + 1
        /\ \A k \in 1 .. n : t[k] = s[k]
        /\ t[n + 1] = i
    OBVIOUS
  <1> HIDE DEF t, n
  <1>2. ToSet(t) = ToSet(s) \cup {i}
    <2>1. 1 .. n + 1 = (1 .. n) \cup {n + 1}
      BY <1>1
    <2>2. QED
      BY <1>1, <2>1 DEF ToSet
  <1>3. ASSUME IsInjective(s), i \notin ToSet(s) PROVE IsInjective(t)
    <2>1. SUFFICES ASSUME NEW j \in 1 .. n + 1, NEW k \in 1 .. n + 1, t[j] = t[k] PROVE j = k
      BY <1>1 DEF IsInjective
    <2>2. \A l \in 1 .. n : s[l] # i
      BY <1>1, <1>3 DEF ToSet
    <2>3. CASE j \in 1 .. n /\ k \in 1 .. n
      BY <1>1, <1>3, <2>1, <2>3 DEF IsInjective
    <2>4. CASE j = n + 1 \/ k = n + 1
      <3>1. j = n + 1 /\ k # n + 1 => FALSE
        <4>1. k # n + 1 => k \in 1 .. n
          BY <1>1
        <4>2. QED
          BY <1>1, <2>1, <2>2, <4>1
      <3>2. k = n + 1 /\ j # n + 1 => FALSE
        <4>1. j # n + 1 => j \in 1 .. n
          BY <1>1
        <4>2. QED
          BY <1>1, <2>1, <2>2, <4>1
      <3>3. QED
        BY <2>4, <3>1, <3>2
    <2>5. QED
      BY <1>1, <2>3, <2>4
  <1>4. QED
    BY <1>1, <1>2, <1>3 DEF t, n

\* The loop that picks items out of a list returns those, and no other.
LEMMA OnlyIs ==
    ASSUME NEW s \in Seq(Item), NEW S
    PROVE  Only(s, S) \in Seq(Item) /\ ToSet(Only(s, S)) = ToSet(s) \cap S
  <1> DEFINE n == Len(s)
             Seen(k) == {s[j] : j \in 1 .. k}
             Y == [k \in 0 .. n |-> {t \in Seq(Item) : ToSet(t) = Seen(k) \cap S}]
             e == <<>>
  <1>1. n \in Nat /\ DOMAIN s = 1 .. n /\ \A k \in 1 .. n : s[k] \in Item
    OBVIOUS
  <1>2. Only(s, S) = FOnly!Folded(e, s, S)
    BY DEF Only, FoldLeft, MapThenFoldSet, Max, FOnly!Folded, FOnly!Last
  <1>3. e \in Y[0]
    <2>1. e \in Seq(Item) /\ ToSet(e) = {} /\ Seen(0) = {} /\ 0 \in 0 .. n
      BY <1>1 DEF ToSet
    <2> HIDE DEF e, Seen
    <2>2. QED
      BY <2>1
  <1> HIDE DEF n, e
  <1>4. FOnly!Leads(Y, s, n, S)
    <2>1. SUFFICES ASSUME NEW k \in 1 .. n, NEW t \in Y[k - 1]
                   PROVE  AddIf(t, s[k], S) \in Y[k]
      BY DEF FOnly!Leads
    <2>2. k \in 0 .. n /\ k - 1 \in 0 .. n /\ s[k] \in Item
      BY <1>1
    <2>3. t \in Seq(Item) /\ ToSet(t) = Seen(k - 1) \cap S
      BY <2>2
    <2>4. Seen(k) = Seen(k - 1) \cup {s[k]}
      <3>1. 1 .. k = (1 .. k - 1) \cup {k}
        BY <1>1
      <3>2. QED
        BY <3>1
    <2>5. ASSUME NEW u \in Seq(Item), ToSet(u) = Seen(k) \cap S PROVE u \in Y[k]
      BY <2>2, <2>5
    <2> HIDE DEF Y, Seen
    <2>6. CASE s[k] \in S
      <3>1. AddIf(t, s[k], S) = Append(t, s[k])
        BY <2>6 DEF AddIf
      <3>2. Append(t, s[k]) \in Seq(Item) /\ ToSet(Append(t, s[k])) = ToSet(t) \cup {s[k]}
        BY <2>2, <2>3, AppendIs
      <3>3. QED
        BY <2>3, <2>4, <2>5, <2>6, <3>1, <3>2
    <2>7. CASE s[k] \notin S
      <3>1. AddIf(t, s[k], S) = t
        BY <2>7 DEF AddIf
      <3>2. QED
        BY <2>3, <2>4, <2>5, <2>7, <3>1
    <2>8. QED
      BY <2>6, <2>7
  <1>5. FOnly!Folded(e, s, S) \in Y[n]
    <2> HIDE DEF Y
    <2>1. QED
      BY <1>1, <1>3, <1>4, FOnly!FoldLeads
  <1>6. Seen(n) = ToSet(s)
    BY <1>1 DEF ToSet
  <1>7. n \in 0 .. n
    BY <1>1
  <1>8. QED
    BY <1>2, <1>5, <1>6, <1>7

-----------------------------------------------------------------------------
(* Scans.                                                                  *)

\* Sequences p and o share the first m items of a list among them.
Split(p, o, list, m) ==
    /\ p \in Seq(Item) /\ o \in Seq(Item) /\ p # <<>>
    /\ IsInjective(p) /\ IsInjective(o)
    /\ ToSet(p) \cap ToSet(o) = {}
    /\ ToSet(p) \cup ToSet(o) \subseteq {list[j] : j \in 1 .. m}
    /\ Len(p) + Len(o) = m

Scanned(scan, list, m) ==
    Split(scan.partners, scan.nonpartners, list, m)

\* The next item of the list goes to either sequence.
LEMMA SplitGrows ==
    ASSUME NEW list \in Seq(Item), IsInjective(list), NEW m \in Nat, m + 1 \in DOMAIN list,
           NEW p, NEW o, Split(p, o, list, m)
    PROVE  /\ Split(Append(p, list[m + 1]), o, list, m + 1)
           /\ Split(p, Append(o, list[m + 1]), list, m + 1)
  <1> DEFINE i == list[m + 1]
             seen == {list[j] : j \in 1 .. m}
             more == {list[j] : j \in 1 .. m + 1}
  <1>1. i \in Item /\ DOMAIN list = 1 .. Len(list) /\ Len(list) \in Nat
    OBVIOUS
  <1>2. i \notin seen
    <2>1. ASSUME NEW j \in 1 .. m, list[j] = list[m + 1] PROVE FALSE
      <3>1. j \in DOMAIN list /\ j # m + 1
        BY <1>1
      <3>2. QED
        BY <2>1, <3>1 DEF IsInjective
    <2>2. QED
      BY <2>1
  <1>3. more = seen \cup {i}
    <2>1. 1 .. m + 1 = (1 .. m) \cup {m + 1}
      OBVIOUS
    <2>2. QED
      BY <2>1
  <1>4. /\ p \in Seq(Item) /\ o \in Seq(Item) /\ p # <<>>
        /\ IsInjective(p) /\ IsInjective(o)
        /\ ToSet(p) \cap ToSet(o) = {}
        /\ ToSet(p) \cup ToSet(o) \subseteq seen
        /\ Len(p) + Len(o) = m /\ Len(p) \in Nat /\ Len(o) \in Nat
    BY DEF Split
  <1> HIDE DEF i, seen, more
  <1>5. /\ Append(p, i) \in Seq(Item) /\ ToSet(Append(p, i)) = ToSet(p) \cup {i}
        /\ Len(Append(p, i)) = Len(p) + 1 /\ IsInjective(Append(p, i))
    BY <1>1, <1>2, <1>4, AppendIs
  <1>6. /\ Append(o, i) \in Seq(Item) /\ ToSet(Append(o, i)) = ToSet(o) \cup {i}
        /\ Len(Append(o, i)) = Len(o) + 1 /\ IsInjective(Append(o, i))
    BY <1>1, <1>2, <1>4, AppendIs
  <1>7. Append(p, i) # <<>>
    BY <1>1, <1>4
  <1> DEFINE v == Append(p, i)
             w == Append(o, i)
  <1> HIDE DEF v, w
  <1>8. Split(v, o, list, m + 1)
    <2>1. Len(v) + Len(o) = m + 1
      BY <1>4, <1>5 DEF v
    <2>2. ToSet(v) \cap ToSet(o) = {} /\ ToSet(v) \cup ToSet(o) \subseteq more
      BY <1>2, <1>3, <1>4, <1>5 DEF v
    <2>3. QED
      BY <1>4, <1>5, <1>7, <2>1, <2>2 DEF Split, v, more
  <1>9. Split(p, w, list, m + 1)
    <2>1. Len(p) + Len(w) = m + 1
      BY <1>4, <1>6 DEF w
    <2>2. ToSet(p) \cap ToSet(w) = {} /\ ToSet(p) \cup ToSet(w) \subseteq more
      BY <1>2, <1>3, <1>4, <1>6 DEF w
    <2>3. QED
      BY <1>4, <1>6, <2>1, <2>2 DEF Split, w, more
  <1>10. QED
    BY <1>8, <1>9 DEF v, w, i

\* scanItems puts the item it compares into one of its two lists.
LEMMA ScanStep ==
    ASSUME NEW list \in Seq(Item), IsInjective(list), NEW m \in Nat, m + 1 \in DOMAIN list,
           NEW scan, Scanned(scan, list, m), NEW cite
    PROVE  Scanned(Compared(scan, list[m + 1], cite), list, m + 1)
  <1> DEFINE i == list[m + 1]
             p == scan.partners
             o == scan.nonpartners
             other == getAmbiguousCite(i, scan.base)
             b == other.settings
             v == Append(p, i)
             w == Append(o, i)
  <1>1. Compared(scan, i, cite) = Compare(scan, i, cite)
    BY DEF Compared, Applied
  <1>2. Split(v, o, list, m + 1) /\ Split(p, w, list, m + 1)
    BY SplitGrows DEF Scanned
  <1>3. \/ Compare(scan, i, cite) = [base |-> b, partners |-> v, nonpartners |-> o]
        \/ Compare(scan, i, cite) = [base |-> b, partners |-> p, nonpartners |-> w]
    BY DEF Compare
  <1> HIDE DEF p, o, b, v, w
  <1> HIDE DEF i
  <1>4. Scanned(Compare(scan, i, cite), list, m + 1)
    BY <1>2, <1>3 DEF Scanned
  <1>5. QED
    BY <1>1, <1>4 DEF i

\* scanItems shares its list out: the first item and those that clash with
\* it are the partners, the rest the others.
LEMMA ScanSplits ==
    ASSUME NEW list \in Seq(Item), IsInjective(list), list # <<>>, NEW settings, NEW phase
    PROVE  Scanned(scanItems(list, settings, phase), list, Len(list))
  <1> DEFINE first == Applied(LAMBDA b, i : getAmbiguousCite(i, b), settings, list[1])
             c == first.cite
             b == IF phase = 0 THEN [first.settings EXCEPT !.disambiguate = FALSE]
                  ELSE first.settings
             e == <<list[1]>>
             z == <<>>
             o == [base |-> b, partners |-> e, nonpartners |-> z]
             s == Tail(list)
             n == Len(list) - 1
  <1>1. scanItems(list, settings, phase) = FScan!Folded(o, s, c)
    BY DEF scanItems, FoldLeft, MapThenFoldSet, Max, FScan!Folded, FScan!Last
  <1>2. /\ Len(list) \in Nat /\ n \in Nat /\ DOMAIN list = 1 .. n + 1 /\ DOMAIN s = 1 .. n
        /\ \A k \in 1 .. n : s[k] = list[k + 1]
        /\ list[1] \in Item
    OBVIOUS
  <1>3. Scanned(o, list, 1)
    <2>1. /\ e \in Seq(Item) /\ z \in Seq(Item) /\ e # <<>> /\ ToSet(e) = {list[1]} /\ ToSet(z) = {}
          /\ Len(e) + Len(z) = 1 /\ IsInjective(e) /\ IsInjective(z)
      BY <1>2 DEF ToSet, IsInjective
    <2>2. ToSet(e) \subseteq {list[j] : j \in 1 .. 1}
      BY <2>1
    <2> HIDE DEF e, z, b
    <2>3. QED
      BY <2>1, <2>2 DEF Scanned, Split
  <1> HIDE DEF o, s, n, c
  <1>4. PICK h : FScan!Runs(h, o, s, n, c)
    BY <1>2, FScan!FoldRuns
  <1>5. /\ h[0] = o /\ h[n] = FScan!Folded(o, s, c)
        /\ \A k \in 1 .. n : h[k] = Compared(h[k - 1], s[k], c)
    BY <1>4 DEF FScan!Runs
  <1> DEFINE P == {k \in 0 .. n : Scanned(h[k], list, k + 1)}
  <1>6. 0 \in P
    BY <1>2, <1>3, <1>5
  <1>7. ASSUME NEW k \in 0 .. n - 1, k \in P
        PROVE  k + 1 \in P
    <2>1. k + 1 \in 1 .. n /\ k + 1 \in 0 .. n /\ k + 1 - 1 = k /\ k + 1 + 1 \in DOMAIN list
          /\ k + 1 \in Nat
      BY <1>2
    <2>2. h[k + 1] = Compared(h[k], list[k + 1 + 1], c)
      BY <1>2, <1>5, <2>1
    <2>3. Scanned(h[k], list, k + 1)
      BY <1>7
    <2>4. Scanned(h[k + 1], list, k + 1 + 1)
      BY <2>1, <2>2, <2>3, ScanStep
    <2>5. QED
      BY <2>1, <2>4
  <1> HIDE DEF P
  <1>8. \A k \in 0 .. n : k \in P
    BY <1>2, <1>6, <1>7, FScan!UpTo
  <1>9. n \in P
    BY <1>2, <1>8
  <1>10. n + 1 = Len(list)
    BY <1>2 DEF n
  <1>11. QED
    BY <1>1, <1>5, <1>9, <1>10 DEF P

-----------------------------------------------------------------------------
(* Lists.                                                                  *)

Row == Seq(Item)

\* Lists of items of S, with no item twice or in two of them.
Separate(ls, S) ==
    /\ ls \in Seq(Row)
    /\ \A k \in DOMAIN ls :
          /\ IsInjective(ls[k]) /\ ToSet(ls[k]) \subseteq S
          /\ \A l \in DOMAIN ls : l # k => ToSet(ls[k]) \cap ToSet(ls[l]) = {}

\* A list with some items of another one.
PartOf(s, list) == s \in Row /\ IsInjective(s) /\ ToSet(s) \subseteq ToSet(list)

\* The lists when the one at p is left with "rest", and "more" are added.
Replaced(ls, p, rest) == [ls EXCEPT ![p] = rest]
Extended(ls, o) == ls \o <<o>>
After(ls, p, rest, more) == [ls EXCEPT ![p] = rest] \o more

\* A sequence with one of its elements replaced.
LEMMA ReplacedIs ==
    ASSUME NEW T, NEW ls \in Seq(T), NEW p \in DOMAIN ls, NEW rest \in T
    PROVE  /\ Replaced(ls, p, rest) \in Seq(T) /\ Len(Replaced(ls, p, rest)) = Len(ls)
           /\ Replaced(ls, p, rest)[p] = rest
           /\ \A k \in DOMAIN ls : k # p => Replaced(ls, p, rest)[k] = ls[k]
  BY DEF Replaced

\* A sequence with an element more.
LEMMA ExtendedIs ==
    ASSUME NEW T, NEW ls \in Seq(T), NEW o \in T
    PROVE  /\ Extended(ls, o) \in Seq(T) /\ Len(Extended(ls, o)) = Len(ls) + 1
           /\ Extended(ls, o)[Len(ls) + 1] = o
           /\ \A k \in DOMAIN ls : Extended(ls, o)[k] = ls[k]
  BY DEF Extended

\* What Verdict leaves is the lists replaced and then extended.
LEMMA AfterIs ==
    ASSUME NEW T, NEW ls \in Seq(T), NEW p \in DOMAIN ls, NEW rest \in T, NEW o
    PROVE  /\ After(ls, p, rest, <<>>) = Replaced(ls, p, rest)
           /\ After(ls, p, rest, <<o>>) = Extended(Replaced(ls, p, rest), o)
  <1> DEFINE m == [ls EXCEPT ![p] = rest]
  <1>1. m \in Seq(T)
    OBVIOUS
  <1> HIDE DEF m
  <1>2. m \o <<>> = m
    BY <1>1
  <1>3. QED
    BY <1>2 DEF After, Replaced, Extended, m

\* A list may lose items.
LEMMA SeparateReplaced ==
    ASSUME NEW S, NEW ls, Separate(ls, S), NEW p \in DOMAIN ls,
           NEW rest, PartOf(rest, ls[p])
    PROVE  Separate(Replaced(ls, p, rest), S)
  <1> DEFINE n == Replaced(ls, p, rest)
  <1>1. ls \in Seq(Row) /\ rest \in Row
    BY DEF Separate, PartOf
  <1>2. /\ n \in Seq(Row) /\ Len(n) = Len(ls) /\ n[p] = rest
        /\ \A k \in DOMAIN ls : k # p => n[k] = ls[k]
    BY <1>1, ReplacedIs
  <1> HIDE DEF n
  <1>3. DOMAIN n = DOMAIN ls
    BY <1>1, <1>2
  <1>4. ASSUME NEW k \in DOMAIN ls
        PROVE  IsInjective(n[k]) /\ ToSet(n[k]) \subseteq ToSet(ls[k])
    BY <1>2 DEF Separate, PartOf
  <1>5. ASSUME NEW k \in DOMAIN ls, NEW l \in DOMAIN ls, l # k
        PROVE  ToSet(n[k]) \cap ToSet(n[l]) = {}
    <2>1. ToSet(ls[k]) \cap ToSet(ls[l]) = {}
      BY <1>5 DEF Separate
    <2>2. QED
      BY <1>4, <2>1
  <1>6. ASSUME NEW k \in DOMAIN ls
        PROVE  ToSet(n[k]) \subseteq S
    <2>1. ToSet(ls[k]) \subseteq S
      BY DEF Separate
    <2>2. QED
      BY <1>4, <2>1
  <1>7. QED
    BY <1>2, <1>3, <1>4, <1>5, <1>6 DEF Separate, n

\* Items in no list may become one.
LEMMA SeparateExtended ==
    ASSUME NEW S, NEW ls, Separate(ls, S), NEW o \in Row, IsInjective(o),
           ToSet(o) \subseteq S, \A k \in DOMAIN ls : ToSet(o) \cap ToSet(ls[k]) = {}
    PROVE  Separate(Extended(ls, o), S)
  <1> DEFINE n == Extended(ls, o)
             m == Len(ls)
  <1>1. ls \in Seq(Row) /\ DOMAIN ls = 1 .. m /\ m \in Nat
    BY DEF Separate
  <1>2. /\ n \in Seq(Row) /\ Len(n) = m + 1 /\ n[m + 1] = o
        /\ \A k \in DOMAIN ls : n[k] = ls[k]
    BY <1>1, ExtendedIs
  <1> HIDE DEF n
  <1>3. DOMAIN n = 1 .. m + 1
    BY <1>1, <1>2
  <1> HIDE DEF m
  <1>4. ASSUME NEW k \in 1 .. m + 1
        PROVE  (k \in DOMAIN ls /\ n[k] = ls[k]) \/ (k = m + 1 /\ n[k] = o)
    BY <1>1, <1>2
  <1>5. ASSUME NEW k \in 1 .. m + 1
        PROVE  IsInjective(n[k]) /\ ToSet(n[k]) \subseteq S
    BY <1>4 DEF Separate
  <1>6. ASSUME NEW k \in 1 .. m + 1, NEW l \in 1 .. m + 1, l # k
        PROVE  ToSet(n[k]) \cap ToSet(n[l]) = {}
    <2>1. CASE k = m + 1
      <3>1. n[k] = o /\ l \in DOMAIN ls /\ n[l] = ls[l]
        BY <1>2, <1>4, <1>6, <2>1
      <3>2. QED
        BY <3>1
    <2>2. CASE l = m + 1
      <3>1. n[l] = o /\ k \in DOMAIN ls /\ n[k] = ls[k]
        BY <1>2, <1>4, <1>6, <2>2
      <3>2. QED
        BY <3>1
    <2>3. CASE k # m + 1 /\ l # m + 1
      <3>1. k \in DOMAIN ls /\ n[k] = ls[k] /\ l \in DOMAIN ls /\ n[l] = ls[l]
        BY <1>4, <2>3
      <3>2. QED
        BY <1>6, <3>1 DEF Separate
    <2>4. QED
      BY <2>1, <2>2, <2>3
  <1>7. QED
    BY <1>2, <1>3, <1>5, <1>6 DEF Separate, n

\* The lists that are added: none, or one of items that leave the list.
Others(more, o, rest, list) ==
    more = <<>> \/ /\ more = <<o>> /\ o # <<>> /\ PartOf(o, list)
                   /\ ToSet(o) \cap ToSet(rest) = {}

\* What is left to scan behind the list at p.
Filled(ls, p) == \A k \in p .. Len(ls) : ls[k] # <<>>

\* Items that leave their list may become one of their own.
LEMMA SeparateStill ==
    ASSUME NEW S, NEW ls, Separate(ls, S), NEW p \in DOMAIN ls, Filled(ls, p),
           NEW rest, PartOf(rest, ls[p]), NEW more, NEW o, Others(more, o, rest, ls[p])
    PROVE  /\ Separate(After(ls, p, rest, more), S)
           /\ Len(After(ls, p, rest, more)) >= Len(ls)
           /\ Len(After(ls, p, rest, more)) \in Nat
           /\ After(ls, p, rest, more)[p] = rest
           /\ Filled(After(ls, p, rest, more), p + 1)
  <1> DEFINE m == Replaced(ls, p, rest)
             n == After(ls, p, rest, more)
             e == Extended(m, o)
  <1>1. ls \in Seq(Row) /\ rest \in Row /\ DOMAIN ls = 1 .. Len(ls) /\ Len(ls) \in Nat
        /\ p \in 1 .. Len(ls)
    BY DEF Separate, PartOf
  <1>2. /\ m \in Seq(Row) /\ Len(m) = Len(ls) /\ m[p] = rest
        /\ \A k \in DOMAIN ls : k # p => m[k] = ls[k]
    <2>1. ls \in Seq(Row) /\ rest \in Row
      BY <1>1
    <2>2. QED
      BY <2>1, ReplacedIs
  <1>3. Separate(m, S)
    BY SeparateReplaced
  <1>4. more = <<>> => n = m
    BY <1>1, AfterIs
  <1>5. more = <<o>> => n = e
    BY <1>1, AfterIs
  <1> HIDE DEF m, n
  <1>6. \A k \in p + 1 .. Len(ls) : m[k] # <<>>
    <2>1. \A k \in p + 1 .. Len(ls) : k \in DOMAIN ls /\ k # p /\ k \in p .. Len(ls)
      BY <1>1
    <2>2. QED
      BY <1>2, <2>1 DEF Filled
  <1>7. CASE more = <<>>
    <2>1. n = m
      BY <1>4, <1>7
    <2>2. QED
      BY <1>1, <1>2, <1>3, <1>6, <2>1 DEF Filled, n
  <1>8. CASE more = <<o>> /\ o # <<>> /\ PartOf(o, ls[p]) /\ ToSet(o) \cap ToSet(rest) = {}
    <2>1. n = e
      BY <1>5, <1>8
    <2>2. o \in Row /\ IsInjective(o) /\ ToSet(o) \subseteq ToSet(ls[p])
      BY <1>8 DEF PartOf
    <2>3. ToSet(o) \subseteq S
      BY <2>2 DEF Separate
    <2>4. ASSUME NEW k \in DOMAIN m PROVE ToSet(o) \cap ToSet(m[k]) = {}
      <3>1. CASE k = p
        BY <1>2, <1>8, <3>1
      <3>2. CASE k # p
        <4>1. k \in DOMAIN ls
          BY <1>1, <1>2
        <4>2. ToSet(ls[p]) \cap ToSet(ls[k]) = {}
          BY <3>2, <4>1 DEF Separate
        <4>3. QED
          BY <1>2, <2>2, <3>2, <4>1, <4>2
      <3>3. QED
        BY <3>1, <3>2
    <2>5. Separate(e, S)
      BY <1>3, <2>2, <2>3, <2>4, SeparateExtended
    <2>6. /\ e \in Seq(Row) /\ Len(e) = Len(m) + 1 /\ e[Len(m) + 1] = o
          /\ \A k \in DOMAIN m : e[k] = m[k]
      BY <1>2, <2>2, ExtendedIs
    <2>7. DOMAIN m = 1 .. Len(ls)
      BY <1>2
    <2> HIDE DEF e
    <2>8. ASSUME NEW k \in p + 1 .. Len(e) PROVE e[k] # <<>>
      <3>1. (k \in p + 1 .. Len(ls) /\ k \in DOMAIN m) \/ k = Len(m) + 1
        BY <1>1, <1>2, <2>6, <2>7
      <3>2. QED
        BY <1>6, <1>8, <2>6, <3>1
    <2>9. e[p] = rest /\ Len(e) >= Len(ls) /\ Len(e) \in Nat
      BY <1>1, <1>2, <2>6, <2>7
    <2>10. QED
      BY <2>1, <2>5, <2>8, <2>9 DEF Filled, n
  <1>9. QED
    BY <1>7, <1>8 DEF Others

-----------------------------------------------------------------------------
(* The inductive invariant.                                                *)

ClassInv ==
    /\ modes \in Seq(Modes) \ {<<>>}
    /\ ambigcites \in Seq(Item)
    /\ DOMAIN disambig = ToSet(ambigcites)
    /\ settled \subseteq ToSet(ambigcites)

\* A list that is still to be scanned is not empty.
ListInv ==
    /\ Separate(lists, ToSet(ambigcites))
    /\ pos \in 1 .. Len(lists) + 1
    /\ Filled(lists, pos)

ModeInv ==
    /\ modeindex \in 1 .. Len(modes)
    /\ advance => modeindex < Len(modes)

\* The clashes that are compared with are those of the list being scanned.
ScanInv ==
    /\ clashes \in Int
    /\ rerun => ~Idle /\ clashes < Len(lists[pos])

IInv == ClassInv /\ ListInv /\ ModeInv /\ ScanInv

\* What a turn judges.
Turned(t) ==
    /\ Split(t.partners, t.nonpartners, lists[pos], Len(lists[pos]))
    /\ t.clashes = Len(t.partners) - 1
    /\ t.before \in Int /\ t.before < Len(lists[pos])
    /\ t.mode \in 1 .. Len(modes)
    /\ t.advance => t.mode < Len(modes)

\* The list that is scanned has items.
LEMMA BusyIs ==
    ASSUME IInv, ~Idle
    PROVE  /\ pos \in DOMAIN lists /\ lists[pos] \in Seq(Item) /\ lists[pos] # <<>>
           /\ IsInjective(lists[pos]) /\ ToSet(lists[pos]) \subseteq ToSet(ambigcites)
           /\ pos \in Nat /\ Len(lists) \in Nat /\ pos <= Len(lists)
  <1>1. lists \in Seq(Row) /\ pos \in 1 .. Len(lists) + 1 /\ ~(pos > Len(lists))
    BY DEF IInv, ListInv, Separate, Idle
  <1>2. pos \in DOMAIN lists /\ pos \in pos .. Len(lists) /\ pos \in Nat /\ Len(lists) \in Nat
        /\ pos <= Len(lists) /\ lists[pos] \in Row
    BY <1>1
  <1>3. QED
    BY <1>1, <1>2 DEF IInv, ListInv, Separate, Filled, Row

\* Verdict keeps the invariant if it registers and leaves items of the list
\* only, adds at most one list of others, and repeats only a whole list.
LEMMA VerdictInv ==
    ASSUME IInv, ~Idle, NEW t, Turned(t), NEW tokens, NEW rest, NEW more, NEW b, NEW again,
           Verdict(t, tokens, rest, more, b, again),
           DOMAIN tokens \subseteq ToSet(lists[pos]), PartOf(rest, lists[pos]),
           NEW o, Others(more, o, rest, lists[pos]),
           again => rest = lists[pos]
    PROVE  IInv'
  <1>1. /\ DOMAIN disambig' = DOMAIN tokens \cup DOMAIN disambig
        /\ settled' = settled \cup DOMAIN tokens
        /\ lists' = After(lists, pos, rest, more)
        /\ rerun' = again /\ clashes' = t.before
        /\ modeindex' = t.mode /\ advance' = t.advance
        /\ IF rest = <<>> THEN pos' = pos + 1 ELSE pos' = pos
        /\ modes' = modes /\ ambigcites' = ambigcites
    BY DEF Verdict, Over, After
  <1>2. /\ pos \in DOMAIN lists /\ lists[pos] \in Seq(Item) /\ lists[pos] # <<>>
        /\ ToSet(lists[pos]) \subseteq ToSet(ambigcites)
        /\ pos \in Nat /\ Len(lists) \in Nat /\ pos <= Len(lists)
    BY BusyIs
  <1>3. ClassInv'
    BY <1>1, <1>2 DEF IInv, ClassInv
  <1>4. /\ Separate(lists', ToSet(ambigcites)) /\ Len(lists') >= Len(lists) /\ Len(lists') \in Nat
        /\ lists'[pos] = rest
        /\ Filled(lists', pos + 1)
    <2>1. Separate(lists, ToSet(ambigcites)) /\ Filled(lists, pos)
      BY DEF IInv, ListInv
    <2>2. QED
      BY <1>1, <1>2, <2>1, SeparateStill
  <1>5. ListInv'
    <2>1. pos' \in 1 .. Len(lists') + 1
      BY <1>1, <1>2, <1>4
    <2>2. ASSUME NEW k \in pos' .. Len(lists') PROVE lists'[k] # <<>>
      <3>1. k \in pos + 1 .. Len(lists') \/ (k = pos /\ rest # <<>>)
        BY <1>1, <1>2, <1>4
      <3>2. QED
        BY <1>4, <3>1 DEF Filled
    <2>3. Filled(lists', pos')
      BY <2>2 DEF Filled
    <2>4. QED
      BY <1>1, <1>4, <2>1, <2>3 DEF ListInv
  <1>6. ModeInv'
    BY <1>1 DEF Turned, ModeInv
  <1>7. ScanInv'
    <2>1. t.before \in Int /\ t.before < Len(lists[pos])
      BY DEF Turned
    <2>2. ASSUME again
          PROVE  pos' = pos /\ ~(pos > Len(lists')) /\ Len(lists'[pos]) = Len(lists[pos])
      BY <1>1, <1>2, <1>4, <2>2
    <2>3. QED
      BY <1>1, <2>1, <2>2 DEF ScanInv, Idle
  <1>8. QED
    BY <1>3, <1>5, <1>6, <1>7 DEF IInv

-----------------------------------------------------------------------------
(* The modes.                                                              *)

\* What a turn may leave in the list.
LEMMA TurnedIs ==
    ASSUME IInv, ~Idle, NEW t, Turned(t)
    PROVE  /\ PartOf(t.partners, lists[pos]) /\ PartOf(t.nonpartners, lists[pos])
           /\ ToSet(t.partners) \cap ToSet(t.nonpartners) = {}
           /\ t.clashes < t.before => t.nonpartners # <<>>
           /\ PartOf(<<>>, lists[pos]) /\ PartOf(lists[pos], lists[pos])
           /\ PartOf(Tail(lists[pos]), lists[pos])
  <1> DEFINE p == t.partners
             o == t.nonpartners
             L == lists[pos]
             n == Len(L)
             e == <<>>
             r == Tail(L)
  <1>1. L \in Seq(Item) /\ L # <<>> /\ IsInjective(L)
    BY BusyIs
  <1>2. /\ Split(p, o, L, n) /\ t.clashes = Len(p) - 1 /\ t.before \in Int /\ t.before < n
    BY DEF Turned
  <1> HIDE DEF L, p, o
  <1>3. n \in Nat /\ DOMAIN L = 1 .. n
    BY <1>1
  <1>4. ToSet(L) = {L[j] : j \in 1 .. n}
    BY <1>3 DEF ToSet
  <1>5. /\ p \in Seq(Item) /\ o \in Seq(Item) /\ IsInjective(p) /\ IsInjective(o)
        /\ ToSet(p) \cap ToSet(o) = {} /\ ToSet(p) \subseteq ToSet(L) /\ ToSet(o) \subseteq ToSet(L)
        /\ Len(p) + Len(o) = n /\ Len(p) \in Nat
    BY <1>2, <1>4 DEF Split
  <1>6. PartOf(p, L) /\ PartOf(o, L) /\ PartOf(L, L)
    BY <1>1, <1>5 DEF PartOf, Row
  <1>7. PartOf(e, L)
    <2>1. e \in Seq(Item) /\ IsInjective(e) /\ ToSet(e) = {}
      BY DEF IsInjective, ToSet
    <2> HIDE DEF e
    <2>2. QED
      BY <2>1 DEF PartOf, Row
  <1>8. PartOf(r, L)
    <2>1. /\ r \in Seq(Item) /\ DOMAIN r = 1 .. n - 1
          /\ \A k \in 1 .. n - 1 : r[k] = L[k + 1] /\ k + 1 \in 1 .. n
      BY <1>1, <1>3
    <2> HIDE DEF r
    <2>2. ToSet(r) \subseteq ToSet(L)
      BY <1>4, <2>1 DEF ToSet
    <2>3. ASSUME NEW j \in 1 .. n - 1, NEW k \in 1 .. n - 1, r[j] = r[k] PROVE j = k
      <3>1. j + 1 \in DOMAIN L /\ k + 1 \in DOMAIN L /\ L[j + 1] = L[k + 1]
        BY <1>3, <2>1, <2>3
      <3>2. j + 1 = k + 1
        BY <1>1, <3>1 DEF IsInjective
      <3>3. QED
        BY <1>3, <3>2
    <2>4. IsInjective(r)
      BY <2>1, <2>3 DEF IsInjective
    <2>5. QED
      BY <2>1, <2>2, <2>4 DEF PartOf, Row
  <1>9. t.clashes < t.before => o # <<>>
    <2>1. ASSUME o = <<>> PROVE Len(o) = 0
      BY <2>1
    <2>2. QED
      BY <1>2, <1>5, <2>1
  <1>10. QED
    BY <1>5, <1>6, <1>7, <1>8, <1>9 DEF L, p, o

\* Nothing is registered.
LEMMA NoTokens == DOMAIN <<>> = {}
  OBVIOUS

\* What is registered.
LEMMA TokensIs ==
    ASSUME NEW list, NEW settings
    PROVE  DOMAIN Tokens(list, settings) = ToSet(list)
  BY DEF Tokens

\* Fewer clashes: the others become a list, and there are some.
LEMMA NarrowInv ==
    ASSUME IInv, ~Idle, NEW t, Turned(t), Narrow(t)
    PROVE  IInv'
  <1> DEFINE p == t.partners
             o == t.nonpartners
             e == <<>>
             more == <<o>>
  <1>1. Verdict(t, e, p, more, t.base, FALSE) /\ t.clashes < t.before
    BY DEF Narrow
  <1>2. /\ PartOf(p, lists[pos]) /\ PartOf(o, lists[pos]) /\ ToSet(p) \cap ToSet(o) = {}
        /\ t.clashes < t.before => o # <<>>
    BY TurnedIs
  <1>3. DOMAIN e \subseteq ToSet(lists[pos])
    OBVIOUS
  <1> HIDE DEF p, o, e
  <1>4. Others(more, o, p, lists[pos])
    BY <1>1, <1>2 DEF Others
  <1> HIDE DEF more
  <1>5. QED
    BY <1>1, <1>2, <1>3, <1>4, VerdictInv

\* A verdict that adds no list.
LEMMA PlainInv ==
    ASSUME IInv, ~Idle, NEW t, Turned(t), NEW tokens, NEW rest, NEW b, NEW again,
           Verdict(t, tokens, rest, <<>>, b, again),
           DOMAIN tokens \subseteq ToSet(lists[pos]), PartOf(rest, lists[pos]),
           again => rest = lists[pos]
    PROVE  IInv'
  <1> DEFINE e == <<>>
  <1>1. Others(e, e, rest, lists[pos])
    BY DEF Others
  <1>2. Verdict(t, tokens, rest, e, b, again)
    OBVIOUS
  <1> HIDE DEF e
  <1>3. QED
    BY <1>1, <1>2, VerdictInv

\* As many clashes: only a list left as it was is scanned on.
LEMMA NoBetterInv ==
    ASSUME IInv, ~Idle, NEW t, Turned(t), NEW b, NoBetter(t, b)
    PROVE  IInv'
  <1> DEFINE tokens == IF t.ismax \/ t.advance THEN Tokens(t.partners, b) ELSE <<>>
             rest == IF t.ismax THEN t.nonpartners ELSE lists[pos]
             again == ~t.ismax /\ ~t.advance
  <1>1. Verdict(t, tokens, rest, <<>>, b, again)
    BY DEF NoBetter
  <1>2. DOMAIN tokens \subseteq ToSet(lists[pos])
    BY TurnedIs, TokensIs, NoTokens DEF PartOf
  <1>3. PartOf(rest, lists[pos])
    BY TurnedIs
  <1>4. again => rest = lists[pos]
    OBVIOUS
  <1> HIDE DEF tokens, rest, again
  <1>5. QED
    BY <1>1, <1>2, <1>3, <1>4, PlainInv

\* The first item, its partners and its companion are of the list.
LEMMA Joined ==
    ASSUME IInv, ~Idle, NEW t, Turned(t)
    PROVE  ToSet(t.partners \o Companions(t)) \subseteq ToSet(lists[pos])
  <1> DEFINE p == t.partners
             c == Companions(t)
             j == p \o c
  <1>1. /\ p \in Seq(Item) /\ c \in Seq(Item)
        /\ ToSet(p) \subseteq ToSet(lists[pos]) /\ ToSet(c) \subseteq ToSet(lists[pos])
    <2>1. c = t.nonpartners \/ c = <<>>
      BY DEF Companions
    <2>2. PartOf(p, lists[pos]) /\ PartOf(t.nonpartners, lists[pos]) /\ PartOf(<<>>, lists[pos])
      BY TurnedIs
    <2> HIDE DEF c
    <2>3. QED
      BY <2>1, <2>2 DEF PartOf, Row
  <1> HIDE DEF p, c
  <1>2. ASSUME NEW k \in DOMAIN j
        PROVE  j[k] \in ToSet(p) \/ j[k] \in ToSet(c)
    <2>1. /\ k \in 1 .. Len(p) => k \in DOMAIN p /\ j[k] = p[k]
          /\ k \notin 1 .. Len(p) => k - Len(p) \in DOMAIN c /\ j[k] = c[k - Len(p)]
      BY <1>1
    <2>2. QED
      BY <2>1 DEF ToSet
  <1>3. QED
    BY <1>1, <1>2 DEF ToSet, p, c

\* The mode disNames.
LEMMA NamesInv ==
    ASSUME IInv, ~Idle, NEW t, Turned(t), disNames(t)
    PROVE  IInv'
  <1> DEFINE found == Quashed(t.base)
             one == Tokens(t.partners \o Companions(t), found)
             two == Tokens(t.nonpartners, found)
  <1>1. DOMAIN one \subseteq ToSet(lists[pos]) /\ DOMAIN two \subseteq ToSet(lists[pos])
    BY TurnedIs, TokensIs, Joined DEF PartOf
  <1>2. \/ Verdict(t, one, <<>>, <<>>, t.base, FALSE)
        \/ Verdict(t, two, t.partners, <<>>, t.base, FALSE)
        \/ Narrow(t)
        \/ NoBetter(t, t.base)
    BY DEF disNames
  <1> HIDE DEF one, two
  <1>3. QED
    BY <1>1, <1>2, TurnedIs, PlainInv, NarrowInv, NoBetterInv

\* The mode disGivens.
LEMMA GivensInv ==
    ASSUME IInv, ~Idle, NEW t, Turned(t), disGivens(t)
    PROVE  IInv'
  <1> DEFINE b == IF t.before = 1 THEN decrementNames(t.base, t.old) ELSE t.base
             one == Over(Tokens(t.partners, b), Tokens(t.nonpartners, Quashed(b)))
             two == Tokens(t.partners, Quashed(b))
             three == Tokens(t.nonpartners, Quashed(b))
  <1>1. /\ DOMAIN one \subseteq ToSet(lists[pos]) /\ DOMAIN two \subseteq ToSet(lists[pos])
        /\ DOMAIN three \subseteq ToSet(lists[pos])
    <2> HIDE DEF b
    <2>1. DOMAIN one = ToSet(t.partners) \cup ToSet(t.nonpartners)
      BY TokensIs DEF Over
    <2> HIDE DEF one
    <2>2. QED
      BY <2>1, TurnedIs, TokensIs DEF PartOf
  <1>2. \/ Verdict(t, one, <<>>, <<>>, b, FALSE)
        \/ Verdict(t, two, t.nonpartners, <<>>, b, FALSE)
        \/ Verdict(t, three, t.partners, <<>>, b, FALSE)
        \/ Narrow(t)
        \/ NoBetter(t, t.old)
    BY DEF disGivens
  <1> HIDE DEF b, one, two, three
  <1>3. QED
    BY <1>1, <1>2, TurnedIs, PlainInv, NarrowInv, NoBetterInv

\* The mode disExtraText.
LEMMA ExtraTextInv ==
    ASSUME IInv, ~Idle, NEW t, Turned(t), disExtraText(t)
    PROVE  IInv'
  <1> DEFINE one == Tokens(t.partners \o Companions(t), Quashed(t.base))
             rest == IF Len(t.nonpartners) = 1 THEN <<>> ELSE t.nonpartners
             e == <<>>
             b == [t.base EXCEPT !.disambiguate = FALSE]
  <1>1. DOMAIN one \subseteq ToSet(lists[pos]) /\ DOMAIN e \subseteq ToSet(lists[pos])
    BY TurnedIs, TokensIs, Joined, NoTokens
  <1>2. PartOf(rest, lists[pos])
    BY TurnedIs
  <1>3. \/ Verdict(t, one, rest, <<>>, t.base, FALSE)
        \/ Verdict(t, e, Tail(lists[pos]), <<>>, b, FALSE)
    BY DEF disExtraText
  <1> HIDE DEF one, rest, e, b
  <1>4. QED
    BY <1>1, <1>2, <1>3, TurnedIs, PlainInv

\* The mode disYears.
LEMMA YearsInv ==
    ASSUME IInv, ~Idle, NEW t, Turned(t), disYears(t)
    PROVE  IInv'
  <1> DEFINE all == ToSet(lists[pos])
             tokens == [i \in all |-> [t.base EXCEPT !.year_suffix =
                                          Cardinality({j \in all : j < i})]]
  <1>1. Verdict(t, tokens, <<>>, <<>>, t.base, FALSE)
    BY DEF disYears
  <1>2. DOMAIN tokens = ToSet(lists[pos])
    OBVIOUS
  <1> HIDE DEF tokens
  <1>3. QED
    BY <1>1, <1>2, TurnedIs, PlainInv

\* evalScan, in any mode.
LEMMA EvalInv ==
    ASSUME IInv, ~Idle, NEW mode, NEW t, Turned(t), evalScan(mode, t)
    PROVE  IInv'
  BY NamesInv, GivensInv, ExtraTextInv, YearsInv DEF evalScan

-----------------------------------------------------------------------------
(* A turn.                                                                 *)

\* incrementDisambig lets a mode hand on to a later one only.
LEMMA IncrementIs ==
    ASSUME NEW b, NEW m
    PROVE  /\ incrementDisambig(b, m).mode = m
           /\ incrementDisambig(b, m).advance => m < Len(modes)
  BY DEF incrementDisambig, HandsOn

\* What evalScan is given.
LEMMA TurnedWhen ==
    ASSUME IInv, ~Idle,
           NEW settings, NEW old, NEW before, before \in Int, before < Len(lists[pos]),
           NEW up, up.mode \in 1 .. Len(modes), up.advance => up.mode < Len(modes),
           NEW t, NEW second, second = scanItems(lists[pos], settings, 1),
           t = [base |-> second.base, old |-> old,
                before |-> before, clashes |-> Clashes(second),
                partners |-> second.partners, nonpartners |-> second.nonpartners,
                mode |-> up.mode, ismax |-> up.ismax, advance |-> up.advance,
                nnameset |-> up.nnameset, gnameset |-> up.gnameset, gname |-> up.gname]
    PROVE  Turned(t)
  <1>1. lists[pos] \in Seq(Item) /\ IsInjective(lists[pos]) /\ lists[pos] # <<>>
    BY BusyIs
  <1>2. Scanned(second, lists[pos], Len(lists[pos]))
    BY <1>1, ScanSplits
  <1>3. QED
    BY <1>2 DEF Scanned, Turned, Clashes

\* A turn of the loop, whatever the mode.
LEMMA RunInv ==
    ASSUME IInv, runDisambig
    PROVE  IInv'
  <1>1. ~Idle
    BY DEF runDisambig
  <1> DEFINE L == lists[pos]
             m == IF advance THEN modeindex + 1 ELSE modeindex
  <1>2. L \in Seq(Item) /\ IsInjective(L) /\ L # <<>> /\ Len(L) \in Nat
    BY <1>1, BusyIs
  <1>3. m \in 1 .. Len(modes)
    <2>1. Len(modes) \in Nat /\ modeindex \in 1 .. Len(modes) /\ (advance => modeindex < Len(modes))
      BY DEF IInv, ClassInv, ModeInv
    <2>2. QED
      BY <2>1
  <1> HIDE DEF m
  <1>4. PICK first \in {scanItems(L, base, 0)} :
        \E old \in {IF rerun THEN base ELSE first.base} :
        \E up \in {incrementDisambig(old, m)} :
        \E second \in {scanItems(L, up.base, 1)} :
          evalScan(modes[up.mode],
             [base |-> second.base, old |-> old,
              before |-> IF rerun THEN clashes ELSE Clashes(first), clashes |-> Clashes(second),
              partners |-> second.partners, nonpartners |-> second.nonpartners,
              mode |-> up.mode, ismax |-> up.ismax, advance |-> up.advance,
              nnameset |-> up.nnameset, gnameset |-> up.gnameset, gname |-> up.gname])
    BY DEF runDisambig, m
  <1> DEFINE before == IF rerun THEN clashes ELSE Clashes(first)
  <1>5. before \in Int /\ before < Len(L)
    <2>1. Scanned(first, L, Len(L))
      BY <1>2, <1>4, ScanSplits
    <2>2. Clashes(first) \in Int /\ Clashes(first) < Len(L)
      <3>1. /\ first.partners \in Seq(Item) /\ first.nonpartners \in Seq(Item)
            /\ Len(first.partners) + Len(first.nonpartners) = Len(L)
        BY <2>1 DEF Scanned, Split
      <3>2. Len(first.partners) \in Nat /\ Len(first.nonpartners) \in Nat
        BY <3>1
      <3>3. ASSUME NEW k \in Nat, NEW l \in Nat, NEW n \in Nat, k + l = n
            PROVE  k - 1 \in Int /\ k - 1 < n
        BY <3>3
      <3>4. Len(first.partners) - 1 \in Int /\ Len(first.partners) - 1 < Len(L)
        BY <1>2, <3>1, <3>2, <3>3
      <3>5. QED
        BY <3>4 DEF Clashes
    <2>3. rerun => clashes \in Int /\ clashes < Len(L)
      BY DEF IInv, ScanInv
    <2>4. QED
      BY <2>2, <2>3
  <1>6. PICK old : \E up \in {incrementDisambig(old, m)} :
        \E second \in {scanItems(L, up.base, 1)} :
          evalScan(modes[up.mode],
             [base |-> second.base, old |-> old, before |-> before, clashes |-> Clashes(second),
              partners |-> second.partners, nonpartners |-> second.nonpartners,
              mode |-> up.mode, ismax |-> up.ismax, advance |-> up.advance,
              nnameset |-> up.nnameset, gnameset |-> up.gnameset, gname |-> up.gname])
    BY <1>4
  <1> HIDE DEF before
  <1>7. PICK up \in {incrementDisambig(old, m)} :
        \E second \in {scanItems(L, up.base, 1)} :
          evalScan(modes[up.mode],
             [base |-> second.base, old |-> old, before |-> before, clashes |-> Clashes(second),
              partners |-> second.partners, nonpartners |-> second.nonpartners,
              mode |-> up.mode, ismax |-> up.ismax, advance |-> up.advance,
              nnameset |-> up.nnameset, gnameset |-> up.gnameset, gname |-> up.gname])
    BY <1>6
  <1>8. PICK second \in {scanItems(L, up.base, 1)} :
          evalScan(modes[up.mode],
             [base |-> second.base, old |-> old, before |-> before, clashes |-> Clashes(second),
              partners |-> second.partners, nonpartners |-> second.nonpartners,
              mode |-> up.mode, ismax |-> up.ismax, advance |-> up.advance,
              nnameset |-> up.nnameset, gnameset |-> up.gnameset, gname |-> up.gname])
    BY <1>7
  <1>9. up.mode \in 1 .. Len(modes) /\ (up.advance => up.mode < Len(modes))
    BY <1>3, <1>7, IncrementIs
  <1> DEFINE t == [base |-> second.base, old |-> old, before |-> before,
              clashes |-> Clashes(second),
              partners |-> second.partners, nonpartners |-> second.nonpartners,
              mode |-> up.mode, ismax |-> up.ismax, advance |-> up.advance,
              nnameset |-> up.nnameset, gnameset |-> up.gnameset, gname |-> up.gname]
  <1>10. second = scanItems(lists[pos], up.base, 1)
    BY <1>8
  <1>11. Turned(t)
    <2>1. before \in Int /\ before < Len(lists[pos])
      BY <1>5
    <2>2. QED
      BY <1>1, <1>9, <1>10, <2>1, TurnedWhen
  <1>12. evalScan(modes[up.mode], t)
    BY <1>8
  <1> HIDE DEF t
  <1>13. QED
    BY <1>1, <1>11, <1>12, EvalInv

-----------------------------------------------------------------------------
(* A call.                                                                 *)

\* initVars's sort returns the items it is given.
LEMMA SortingIs ==
    ASSUME NEW pool \in Seq(Item), pool # <<>>, NEW list \in Sortings(ToSet(pool))
    PROVE  /\ list \in Seq(Item) /\ IsInjective(list) /\ list # <<>>
           /\ ToSet(list) \subseteq ToSet(pool)
  <1> DEFINE S == ToSet(pool)
             c == Cardinality(S)
  <1>1. pool[1] \in S /\ S \subseteq Item
    BY DEF ToSet
  <1>2. IsFiniteSet(S)
    <2>1. IsFiniteSet(DOMAIN pool)
      BY FS_Interval
    <2>2. pool \in Surjection(DOMAIN pool, S)
      BY DEF ToSet, Surjection
    <2> HIDE DEF S
    <2>3. QED
      BY <2>1, <2>2, FS_Surjection
  <1>3. c \in Nat /\ c # 0
    <2> HIDE DEF S
    <2>1. QED
      BY <1>1, <1>2, FS_CardinalityType, FS_EmptySet
  <1>4. list \in [1 .. c -> S] /\ \A i, j \in 1 .. c : i # j => list[i] # list[j]
    BY DEF Sortings, SetToSeqs
  <1> HIDE DEF S, c
  <1>5. list \in Seq(S) /\ DOMAIN list = 1 .. c /\ Len(list) = c
    BY <1>3, <1>4
  <1>6. list \in Seq(Item) /\ ToSet(list) \subseteq S /\ list # <<>>
    BY <1>1, <1>3, <1>4, <1>5 DEF ToSet
  <1>7. IsInjective(list)
    BY <1>4, <1>5 DEF IsInjective
  <1>8. QED
    BY <1>6, <1>7 DEF S

\* Two lists in a row.
LEMMA ConcatIs ==
    ASSUME NEW s \in Seq(Item), NEW t \in Seq(Item)
    PROVE  s \o t \in Seq(Item) /\ ToSet(s \o t) = ToSet(s) \cup ToSet(t)
  <1> DEFINE u == s \o t
  <1>1. /\ u \in Seq(Item) /\ Len(u) = Len(s) + Len(t) /\ Len(s) \in Nat /\ Len(t) \in Nat
        /\ DOMAIN u = 1 .. Len(s) + Len(t) /\ DOMAIN s = 1 .. Len(s) /\ DOMAIN t = 1 .. Len(t)
        /\ \A k \in 1 .. Len(s) : u[k] = s[k]
        /\ \A k \in 1 .. Len(t) : u[Len(s) + k] = t[k]
    OBVIOUS
  <1> HIDE DEF u
  <1>2. ASSUME NEW k \in DOMAIN u PROVE u[k] \in ToSet(s) \cup ToSet(t)
    <2>1. CASE k <= Len(s)
      BY <1>1, <2>1 DEF ToSet
    <2>2. CASE k > Len(s)
      <3>1. k - Len(s) \in 1 .. Len(t) /\ Len(s) + (k - Len(s)) = k
        BY <1>1, <2>2
      <3>2. u[k] = t[k - Len(s)]
        BY <1>1, <3>1
      <3>3. QED
        BY <1>1, <3>1, <3>2 DEF ToSet
    <2>3. QED
      BY <1>1, <2>1, <2>2
  <1>3. ASSUME NEW k \in DOMAIN s PROVE s[k] \in ToSet(u)
    <2>1. k \in DOMAIN u /\ u[k] = s[k]
      BY <1>1
    <2>2. QED
      BY <2>1 DEF ToSet
  <1>4. ASSUME NEW k \in DOMAIN t PROVE t[k] \in ToSet(u)
    <2>1. Len(s) + k \in DOMAIN u /\ u[Len(s) + k] = t[k]
      BY <1>1
    <2>2. QED
      BY <2>1 DEF ToSet
  <1>5. ToSet(u) = ToSet(s) \cup ToSet(t)
    BY <1>2, <1>3, <1>4 DEF ToSet
  <1>6. QED
    BY <1>1, <1>5 DEF u

\* A class of two and more starts as one list.
LEMMA OneSeparate ==
    ASSUME NEW S, NEW list \in Row, IsInjective(list), ToSet(list) \subseteq S, list # <<>>
    PROVE  Separate(<<list>>, S) /\ Len(<<list>>) = 1 /\ Filled(<<list>>, 1)
  <1> DEFINE n == <<list>>
  <1>1. n \in Seq(Row) /\ DOMAIN n = {1} /\ n[1] = list /\ Len(n) = 1
    OBVIOUS
  <1> HIDE DEF n
  <1>2. QED
    BY <1>1 DEF Separate, Filled, n

\* A class of one has nothing to scan.
LEMMA NoneSeparate ==
    ASSUME NEW S
    PROVE  Separate(<<>>, S) /\ Len(<<>>) = 0 /\ Filled(<<>>, 1)
  <1> DEFINE n == <<>>
  <1>1. n \in Seq(Row) /\ DOMAIN n = {} /\ Len(n) = 0
    OBVIOUS
  <1> HIDE DEF n
  <1>2. QED
    BY <1>1 DEF Separate, Filled, n

\* initVars starts over with the whole class.
LEMMA initVarsInv ==
    ASSUME NEW pool \in Seq(Item), NEW settings, initVars(pool, settings)
    PROVE  /\ Separate(lists', ToSet(pool)) /\ pos' = 1 /\ Len(lists') \in Nat
           /\ Filled(lists', 1)
           /\ DOMAIN disambig' = DOMAIN settings /\ modeindex' = 1 /\ advance' = FALSE
  <1>1. pos' = 1 /\ modeindex' = 1 /\ advance' = FALSE
    BY DEF initVars
  <1>2. CASE Len(pool) <= 1
    <2>1. lists' = <<>> /\ disambig' = settings
      BY <1>2 DEF initVars
    <2>2. QED
      BY <1>1, <2>1, NoneSeparate
  <1>3. CASE Len(pool) > 1
    <2>1. pool # <<>>
      BY <1>3
    <2>2. DOMAIN disambig' = DOMAIN settings
      BY <1>3 DEF initVars
    <2>3. PICK list \in Sortings(ToSet(pool)) : lists' = <<list>>
      BY <1>3 DEF initVars
    <2>4. /\ list \in Row /\ IsInjective(list) /\ list # <<>>
          /\ ToSet(list) \subseteq ToSet(pool)
      BY <2>1, <2>3, SortingIs DEF Row
    <2>5. QED
      BY <1>1, <2>2, <2>3, <2>4, OneSeparate
  <1>4. Len(pool) <= 1 \/ Len(pool) > 1
    OBVIOUS
  <1>5. QED
    BY <1>2, <1>3, <1>4

\* updateItems, which only runs between the loops.
LEMMA UpdateInv ==
    ASSUME IInv, NEW list \in Lists, updateItems(list)
    PROVE  IInv'
  <1> DEFINE kept == Only(ambigcites, ToSet(list))
             new == Only(list, ToSet(list) \ ToSet(ambigcites))
             known == IF kept = ambigcites THEN disambig
                      ELSE [i \in ToSet(kept) |-> Ambiguous(kept[1]).settings]
             fresh == [i \in ToSet(new) |-> Ambiguous(i).settings]
             pool == kept \o new
             settings == Over(fresh, known)
  <1>1. /\ Idle /\ ambigcites' = pool /\ initVars(pool, settings) /\ settled' = {}
        /\ modes' = modes /\ rerun' = rerun /\ clashes' = clashes
    BY DEF updateItems
  <1>2. kept \in Seq(Item) /\ new \in Seq(Item)
    <2>1. ambigcites \in Seq(Item) /\ list \in Seq(Item)
      BY DisambiguationAssumption DEF IInv, ClassInv
    <2>2. QED
      BY <2>1, OnlyIs
  <1>3. pool \in Seq(Item) /\ ToSet(pool) = ToSet(kept) \cup ToSet(new)
    <2> HIDE DEF kept, new
    <2>1. QED
      BY <1>2, ConcatIs
  <1>4. DOMAIN settings = ToSet(pool)
    <2> HIDE DEF kept, new, pool
    <2>1. DOMAIN known = ToSet(kept)
      BY DEF IInv, ClassInv
    <2>2. DOMAIN fresh = ToSet(new)
      OBVIOUS
    <2> HIDE DEF known, fresh
    <2>3. QED
      BY <1>3, <2>1, <2>2 DEF Over
  <1> HIDE DEF pool, settings
  <1>5. /\ Separate(lists', ToSet(pool)) /\ pos' = 1 /\ Len(lists') \in Nat
        /\ Filled(lists', 1)
        /\ DOMAIN disambig' = DOMAIN settings /\ modeindex' = 1 /\ advance' = FALSE
    BY <1>1, <1>3, initVarsInv
  <1>6. ClassInv'
    BY <1>1, <1>3, <1>4, <1>5 DEF IInv, ClassInv
  <1>7. ListInv'
    BY <1>1, <1>5 DEF ListInv
  <1>8. ModeInv'
    <2>1. Len(modes) \in Nat /\ modeindex \in 1 .. Len(modes)
      BY DEF IInv, ClassInv, ModeInv
    <2>2. QED
      BY <1>1, <1>5, <2>1 DEF ModeInv
  <1>9. ScanInv'
    BY <1>1 DEF IInv, ScanInv
  <1>10. QED
    BY <1>6, <1>7, <1>8, <1>9 DEF IInv

-----------------------------------------------------------------------------
(* The theorem.                                                            *)

\* The processor starts without items.
LEMMA InitInv ==
    ASSUME Init PROVE IInv
  <1>1. modes \in Seq(Modes) /\ modes # <<>>
    BY DisambiguationAssumption DEF Init
  <1>2. Len(modes) \in Nat /\ 1 \in 1 .. Len(modes)
    BY <1>1
  <1>3. ClassInv
    BY <1>1 DEF Init, ClassInv, ToSet
  <1>4. ListInv
    BY NoneSeparate DEF Init, ListInv
  <1>5. ModeInv /\ ScanInv
    BY <1>2 DEF Init, ModeInv, ScanInv
  <1>6. QED
    BY <1>3, <1>4, <1>5 DEF IInv

\* Every step keeps the invariant.
LEMMA StepInv ==
    ASSUME IInv, [Next]_vars PROVE IInv'
  <1>1. CASE runDisambig
    BY <1>1, RunInv
  <1>2. CASE \E list \in Lists : updateItems(list)
    BY <1>2, UpdateInv
  <1>3. CASE UNCHANGED vars
    BY <1>3 DEF vars, cursor, IInv, ClassInv, ListInv, ModeInv, ScanInv, Idle
  <1>4. QED
    BY <1>1, <1>2, <1>3 DEF Next

\* The invariant says what TypeOK does.
LEMMA InvTypeOK ==
    ASSUME IInv PROVE TypeOK
  <1>1. /\ DOMAIN disambig = ToSet(ambigcites) /\ settled \subseteq ToSet(ambigcites)
        /\ pos \in 1 .. Len(lists) + 1
        /\ modeindex \in 1 .. Len(modes) /\ (advance => modeindex < Len(modes))
    BY DEF IInv, ClassInv, ListInv, ModeInv
  <1>2. Separate(lists, ToSet(ambigcites))
    BY DEF IInv, ListInv
  <1>3. ASSUME NEW k \in DOMAIN lists, k >= pos PROVE lists[k] # <<>>
    <2>1. lists \in Seq(Row) /\ Filled(lists, pos)
      BY <1>2 DEF IInv, ListInv, Separate
    <2>2. k \in pos .. Len(lists)
      BY <1>1, <1>3, <2>1
    <2>3. QED
      BY <2>1, <2>2 DEF Filled
  <1>4. QED
    BY <1>1, <1>2, <1>3 DEF TypeOK, Separate

\* runDisambig reads lists, modes and the cursor's settings by indices that
\* its modes move, while lists are split, emptied and added: the indices stay
\* in their arrays, no list is scanned that is empty, no item is scanned in
\* two lists, and only items of the class are registered.
THEOREM TypeCorrect == Spec => []TypeOK
  BY InitInv, StepInv, InvTypeOK, PTL DEF Spec
=============================================================================
