---------------------------- MODULE MCItemRegistry ----------------------------
(***************************************************************************)
(* Instances of ItemRegistry for TLC: up to five items, and the lists of   *)
(* them that callers pass.                                                 *)
(***************************************************************************)
EXTENDS ItemRegistry

\* The lists of at most n of the items in S, each once.
ListsOf(S, n) ==
    UNION {{s \in [1 .. k -> S] : \A p, q \in 1 .. k : s[p] = s[q] => p = q} :
           k \in 0 .. n}

CONSTANT x, y

CiteXXYY == <<x, x, y, y>>
CiteXXYYX == <<x, x, y, y, x>>
KeysTied == <<1, 2, 1, Undefined>>
NoKeys == [i \in Item |-> Undefined]

PairsAndRepeats ==
    ListsOf({1, 2}, 2) \cup {<<1, 2, 3>>, <<3, 4>>, <<4, 3>>, <<4, 2, 1>>}
      \cup {<<1, 1>>, <<2, 1, 2>>, <<4, 2, 4>>}

\* Two classes at once and then a part of each, which are left in each other's
\* pools; item 5 is missing.
Straying == {<<1, 2, 3, 4>>, <<1, 3>>, <<5>>}
Uncitable == {<<2>>}
=============================================================================
