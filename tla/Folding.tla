------------------------------ MODULE Folding --------------------------------
(***************************************************************************)
(* Folds over sequences, for the proofs.  The library defines FoldLeft     *)
(* through a recursive function on sets of places; the theorems say that   *)
(* there is such a function, and that it goes through a sequence place by  *)
(* place.  A proof module instantiates this one for each operator that is  *)
(* folded, whose third argument is what it has from its context.           *)
(***************************************************************************)
EXTENDS Integers, WellFoundedInduction, TLAPS

CONSTANT Op(_, _, _)

\* The last of some places, and FoldLeft(LAMBDA x, e : Op(x, e, c), b, s).
Last(t) == CHOOSE m \in t : \A k \in t : m >= k

Folded(b, s, c) ==
    LET iter[t \in SUBSET DOMAIN s] ==
            IF t = {} THEN b
            ELSE LET m == Last(t) IN Op(iter[t \ {m}], s[m], c)
    IN  iter[DOMAIN s]

\* Steps over s lead from each Y to the next; they stay in X; in X they lead
\* from each Y to the next; and h is the fold, place by place.
Leads(Y, s, n, c) == \A k \in 1 .. n : \A x \in Y[k - 1] : Op(x, s[k], c) \in Y[k]
StaysIn(X, s, n, c) == \A x \in X, k \in 1 .. n : Op(x, s[k], c) \in X
Keeps(X, Y, s, n, c) ==
    \A k \in 1 .. n : \A x \in X : x \in Y[k - 1] => Op(x, s[k], c) \in Y[k]
Runs(h, b, s, n, c) ==
    /\ h[0] = b
    /\ \A k \in 1 .. n : h[k] = Op(h[k - 1], s[k], c)
    /\ h[n] = Folded(b, s, c)

-----------------------------------------------------------------------------
(* Induction, and recursion over sets of places. *)

\* Induction over the numbers up to n, for sets instead of predicates.
LEMMA UpTo ==
    ASSUME NEW n \in Nat, NEW P, 0 \in P, \A k \in 0 .. n - 1 : k \in P => k + 1 \in P
    PROVE  \A k \in 0 .. n : k \in P
  <1> DEFINE T == {k \in 0 .. n : k \notin P}
  <1>1. SUFFICES ASSUME T # {} PROVE FALSE
    OBVIOUS
  <1>2. T \subseteq Nat
    OBVIOUS
  <1>3. PICK t \in T : \A s \in T : ~(<<s, t>> \in OpToRel(<, Nat))
    BY <1>1, <1>2, NatLessThanWellFounded, WFMin
  <1>4. \A s \in T : ~(s < t)
    BY <1>2, <1>3 DEF OpToRel
  <1>5. t # 0 /\ t - 1 \in 0 .. n - 1 /\ t - 1 \notin T
    BY <1>2, <1>4
  <1>6. t - 1 \in P
    BY <1>5
  <1>7. QED
    BY <1>5, <1>6

\* The last place of a set of places.
LEMMA LastPlace ==
    ASSUME NEW n \in Nat, NEW t \in SUBSET (1 .. n), t # {}
    PROVE  /\ Last(t) \in t
           /\ \A k \in t : k <= Last(t)
  <1> DEFINE T == {n - k : k \in t}
  <1>1. T \subseteq Nat /\ T # {}
    <2>1. \A k \in 1 .. n : n - k \in Nat
      OBVIOUS
    <2>2. \A k \in t : k \in 1 .. n
      OBVIOUS
    <2>3. QED
      BY <2>1, <2>2
  <1>2. PICK d \in T : \A e \in T : ~(<<e, d>> \in OpToRel(<, Nat))
    BY <1>1, NatLessThanWellFounded, WFMin
  <1>3. PICK m \in t : d = n - m
    OBVIOUS
  <1>4. ASSUME NEW k \in t PROVE m >= k
    <2>1. n - k \in Nat /\ n - m \in Nat /\ n - k \in T
      BY <1>1, <1>3
    <2>2. ~(n - k < n - m)
      BY <2>1, <1>2, <1>3 DEF OpToRel
    <2>3. m \in Int /\ k \in Int /\ n \in Int
      OBVIOUS
    <2>4. QED
      BY <2>2, <2>3
  <1>5. Last(t) \in t /\ \A k \in t : Last(t) >= k
    BY <1>4 DEF Last
  <1>6. t \subseteq Int
    OBVIOUS
  <1>7. QED
    BY <1>5, <1>6

\* The sets of places up to m, and a function on them that folds.
Upto(m) == SUBSET (1 .. m)
Folds(it, m, b, s, c) ==
    /\ it = [t \in Upto(m) |-> it[t]]
    /\ \A t \in Upto(m) :
          it[t] = IF t = {} THEN b ELSE Op(it[t \ {Last(t)}], s[Last(t)], c)

LEMMA FoldExists ==
    ASSUME NEW c, NEW s, NEW n \in Nat, NEW b
    PROVE  \E it : Folds(it, n, b, s, c)
  <1> DEFINE P == {m \in 0 .. n : \E it : Folds(it, m, b, s, c)}
  <1>1. 0 \in P
    <2> DEFINE it == [t \in Upto(0) |-> b]
    <2>1. \A t \in Upto(0) : t = {}
      BY DEF Upto
    <2>2. Folds(it, 0, b, s, c)
      BY <2>1 DEF Folds
    <2>3. QED
      BY <2>2
  <1>2. ASSUME NEW k \in 0 .. n - 1, k \in P
        PROVE  k + 1 \in P
    <2>1. PICK it : Folds(it, k, b, s, c)
      BY <1>2
    <2> DEFINE next == [t \in Upto(k + 1) |->
                           IF k + 1 \in t THEN Op(it[t \ {k + 1}], s[k + 1], c) ELSE it[t]]
    <2>2. ASSUME NEW t \in Upto(k + 1)
          PROVE  /\ k + 1 \in t => t \ {k + 1} \in Upto(k) /\ Last(t) = k + 1
                 /\ k + 1 \notin t => t \in Upto(k)
      <3>1. k + 1 \in t => t \ {k + 1} \in Upto(k)
        BY DEF Upto
      <3>2. k + 1 \notin t => t \in Upto(k)
        BY DEF Upto
      <3>3. ASSUME k + 1 \in t PROVE Last(t) = k + 1
        <4>0. k + 1 \in Nat /\ t \in SUBSET (1 .. k + 1)
          BY DEF Upto
        <4>1. Last(t) \in t /\ k + 1 <= Last(t)
          BY <3>3, <4>0, LastPlace
        <4>2. Last(t) \in 1 .. k + 1
          BY <4>1 DEF Upto
        <4>3. QED
          BY <4>1, <4>2
      <3>4. QED
        BY <3>1, <3>2, <3>3
    <2>3. ASSUME NEW t \in Upto(k + 1)
          PROVE  next[t] = IF t = {} THEN b ELSE Op(next[t \ {Last(t)}], s[Last(t)], c)
      <3>1. CASE k + 1 \in t
        <4>1. t # {} /\ Last(t) = k + 1 /\ t \ {k + 1} \in Upto(k)
          BY <2>2, <3>1
        <4>2. t \ {k + 1} \in Upto(k + 1) /\ k + 1 \notin t \ {k + 1}
          BY DEF Upto
        <4>3. next[t \ {k + 1}] = it[t \ {k + 1}]
          BY <4>2
        <4>4. next[t] = Op(it[t \ {k + 1}], s[k + 1], c)
          BY <3>1
        <4>5. QED
          BY <4>1, <4>3, <4>4
      <3>2. CASE k + 1 \notin t
        <4>1. t \in Upto(k) /\ next[t] = it[t]
          BY <2>2, <3>2
        <4>2. CASE t = {}
          BY <2>1, <4>1, <4>2 DEF Folds
        <4>3. CASE t # {}
          <5>1. it[t] = Op(it[t \ {Last(t)}], s[Last(t)], c)
            BY <2>1, <4>1, <4>3 DEF Folds
          <5>2. t \ {Last(t)} \in Upto(k + 1) /\ k + 1 \notin t \ {Last(t)}
            BY <3>2 DEF Upto
          <5>3. next[t \ {Last(t)}] = it[t \ {Last(t)}]
            BY <5>2
          <5>4. QED
            BY <4>1, <4>3, <5>1, <5>3
        <4>4. QED
          BY <4>2, <4>3
      <3>3. QED
        BY <3>1, <3>2
    <2>4. next = [t \in Upto(k + 1) |-> next[t]]
      OBVIOUS
    <2>5. Folds(next, k + 1, b, s, c)
      <3> HIDE DEF next
      <3>1. QED
        BY <2>3, <2>4 DEF Folds
    <2>6. k + 1 \in 0 .. n
      OBVIOUS
    <2> HIDE DEF next
    <2>7. QED
      BY <2>5, <2>6
  <1> HIDE DEF P
  <1>3. \A k \in 0 .. n : k \in P
    BY <1>1, <1>2, UpTo
  <1>4. n \in P
    BY <1>3
  <1>5. QED
    BY <1>4 DEF P

\* The places before place k, and k itself.
LEMMA Segments ==
    ASSUME NEW n \in Nat, NEW k \in 1 .. n
    PROVE  /\ 1 .. k \in Upto(n) /\ 1 .. k # {}
           /\ Last(1 .. k) = k
           /\ (1 .. k) \ {k} = 1 .. k - 1
  <1>1. 1 .. k \in Upto(n) /\ 1 .. k # {} /\ k \in 1 .. k /\ k \in Nat
    BY DEF Upto
  <1>2. Last(1 .. k) \in 1 .. k /\ k <= Last(1 .. k)
    <2>1. 1 .. k \in SUBSET (1 .. k)
      OBVIOUS
    <2>2. QED
      BY <1>1, <2>1, LastPlace
  <1>3. Last(1 .. k) = k
    BY <1>2
  <1>4. QED
    BY <1>1, <1>3

-----------------------------------------------------------------------------
(* Folds. *)

\* A fold goes through a value for each place.
THEOREM FoldRuns ==
    ASSUME NEW c, NEW s, NEW n \in Nat, DOMAIN s = 1 .. n, NEW b
    PROVE  \E h : Runs(h, b, s, n, c)
  <1> DEFINE Body(it) == [t \in SUBSET DOMAIN s |->
                             IF t = {} THEN b ELSE Op(it[t \ {Last(t)}], s[Last(t)], c)]
             fold == CHOOSE it : it = Body(it)
  <1>1. PICK it : Folds(it, n, b, s, c)
    BY FoldExists
  <1>2. it = Body(it)
    BY <1>1 DEF Folds, Upto
  <1>3. fold = Body(fold)
    <2> HIDE DEF Body
    <2>1. QED
      BY <1>2
  <1>4. Folded(b, s, c) = fold[1 .. n]
    BY DEF Folded
  <1>5. fold[{}] = b
    BY <1>3
  <1>6. ASSUME NEW k \in 1 .. n
        PROVE  fold[1 .. k] = Op(fold[1 .. k - 1], s[k], c)
    <2>1. /\ 1 .. k \in SUBSET DOMAIN s /\ 1 .. k # {}
          /\ Last(1 .. k) = k /\ (1 .. k) \ {k} = 1 .. k - 1
      BY Segments DEF Upto
    <2>2. \A t \in SUBSET DOMAIN s : t # {} =>
             fold[t] = Op(fold[t \ {Last(t)}], s[Last(t)], c)
      <3> HIDE DEF fold
      <3>1. QED
        BY <1>3
    <2>3. QED
      BY <2>1, <2>2
  <1> HIDE DEF fold, Body
  <1> DEFINE h == [k \in 0 .. n |-> fold[1 .. k]]
  <1>7. h[0] = b
    <2>1. 1 .. 0 = {} /\ 0 \in 0 .. n
      OBVIOUS
    <2>2. QED
      BY <1>5, <2>1
  <1>8. \A k \in 1 .. n : h[k] = Op(h[k - 1], s[k], c)
    BY <1>6
  <1>9. h[n] = Folded(b, s, c)
    BY <1>4
  <1>10. QED
    <2> HIDE DEF h
    <2>1. QED
      BY <1>7, <1>8, <1>9 DEF Runs

\* What leads from each place to the next holds all the way.
THEOREM RunsThrough ==
    ASSUME NEW c, NEW s, NEW n \in Nat, NEW b, NEW h, Runs(h, b, s, n, c),
           NEW Y, b \in Y[0], Leads(Y, s, n, c)
    PROVE  \A k \in 0 .. n : h[k] \in Y[k]
  <1> DEFINE P == {k \in 0 .. n : h[k] \in Y[k]}
  <1>1. /\ h[0] = b
        /\ \A k \in 1 .. n : h[k] = Op(h[k - 1], s[k], c)
    BY DEF Runs
  <1>2. 0 \in P
    BY <1>1
  <1>3. ASSUME NEW k \in 0 .. n - 1, k \in P
        PROVE  k + 1 \in P
    <2>1. k + 1 \in 1 .. n /\ k + 1 - 1 = k /\ k \in 0 .. n
      OBVIOUS
    <2>2. h[k + 1] = Op(h[k], s[k + 1], c)
      BY <1>1, <2>1
    <2>3. h[k] \in Y[k]
      BY <1>3
    <2>4. Op(h[k], s[k + 1], c) \in Y[k + 1]
      BY <2>1, <2>3 DEF Leads
    <2>5. QED
      BY <2>1, <2>2, <2>4
  <1> HIDE DEF P
  <1>4. \A k \in 0 .. n : k \in P
    BY <1>2, <1>3, UpTo
  <1>5. QED
    BY <1>4 DEF P

THEOREM FoldLeads ==
    ASSUME NEW c, NEW s, NEW n \in Nat, DOMAIN s = 1 .. n, NEW b,
           NEW Y, b \in Y[0], Leads(Y, s, n, c)
    PROVE  Folded(b, s, c) \in Y[n]
  <1>1. PICK h : Runs(h, b, s, n, c)
    BY FoldRuns
  <1>2. \A k \in 0 .. n : h[k] \in Y[k]
    BY <1>1, RunsThrough
  <1>3. h[n] = Folded(b, s, c) /\ n \in 0 .. n
    BY <1>1 DEF Runs
  <1>4. QED
    BY <1>2, <1>3

\* The same where every step stays in a set.
THEOREM FoldSteps ==
    ASSUME NEW c, NEW X, NEW s, NEW n \in Nat, DOMAIN s = 1 .. n, NEW b \in X,
           StaysIn(X, s, n, c)
    PROVE  \E h \in [0 .. n -> X] : Runs(h, b, s, n, c)
  <1> DEFINE Y == [k \in 0 .. n |-> X]
  <1>1. PICK h : Runs(h, b, s, n, c)
    BY FoldRuns
  <1>2. b \in Y[0] /\ \A k \in 0 .. n : Y[k] = X
    OBVIOUS
  <1>3. Leads(Y, s, n, c)
    <2>1. \A k \in 1 .. n : k \in 0 .. n /\ k - 1 \in 0 .. n
      OBVIOUS
    <2> HIDE DEF Y
    <2>2. QED
      BY <1>2, <2>1 DEF Leads, StaysIn
  <1> HIDE DEF Y
  <1>4. \A k \in 0 .. n : h[k] \in X
    <2>1. \A k \in 0 .. n : h[k] \in Y[k]
      BY <1>1, <1>2, <1>3, RunsThrough
    <2>2. QED
      BY <1>2, <2>1
  <1> DEFINE f == [k \in 0 .. n |-> h[k]]
  <1>5. f \in [0 .. n -> X]
    BY <1>4
  <1>6. Runs(f, b, s, n, c)
    <2>1. 0 \in 0 .. n /\ n \in 0 .. n /\ \A k \in 1 .. n : k \in 0 .. n /\ k - 1 \in 0 .. n
      OBVIOUS
    <2>2. \A k \in 0 .. n : f[k] = h[k]
      OBVIOUS
    <2> HIDE DEF f
    <2>3. QED
      BY <1>1, <2>1, <2>2 DEF Runs
  <1> HIDE DEF f
  <1>7. QED
    BY <1>5, <1>6

\* What each step in a set keeps, the fold does.
LEMMA FoldKeeps ==
    ASSUME NEW c, NEW X, NEW s, NEW n \in Nat, DOMAIN s = 1 .. n, NEW b \in X,
           StaysIn(X, s, n, c),
           NEW Y, b \in Y[0], Keeps(X, Y, s, n, c)
    PROVE  Folded(b, s, c) \in X /\ Folded(b, s, c) \in Y[n]
  <1> DEFINE Z == [k \in 0 .. n |-> X \cap Y[k]]
  <1>1. b \in Z[0] /\ \A k \in 0 .. n : Z[k] = X \cap Y[k]
    OBVIOUS
  <1>2. Leads(Z, s, n, c)
    <2>1. \A k \in 1 .. n : k \in 0 .. n /\ k - 1 \in 0 .. n
      OBVIOUS
    <2> HIDE DEF Z
    <2>2. QED
      BY <1>1, <2>1 DEF Leads, StaysIn, Keeps
  <1> HIDE DEF Z
  <1>3. Folded(b, s, c) \in Z[n]
    BY <1>1, <1>2, FoldLeads
  <1>4. n \in 0 .. n
    OBVIOUS
  <1>5. QED
    BY <1>1, <1>3, <1>4

\* The special case of one set.
THEOREM FoldType ==
    ASSUME NEW c, NEW X, NEW s, NEW n \in Nat, DOMAIN s = 1 .. n, NEW b \in X,
           StaysIn(X, s, n, c)
    PROVE  Folded(b, s, c) \in X
  <1>1. PICK h \in [0 .. n -> X] : Runs(h, b, s, n, c)
    BY FoldSteps
  <1>2. QED
    BY <1>1 DEF Runs
=============================================================================
