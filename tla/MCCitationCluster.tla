------------------------- MODULE MCCitationCluster -------------------------
(* Instances of CitationCluster for TLC: items 1 and 2 look alike, 2 has no *)
(* sort key, and 3 cannot be retrieved where a run says so.                 *)
EXTENDS CitationCluster

CONSTANTS k1, k2, k3

MCItem == 1 .. 3
MCCite == <<"x", "x", "y">>
MCSortKey == <<1, Undefined, 3>>

MCLocator == {NoLocator, "p"}
cite(i, l) == [id |-> i, locator |-> l]
\* Few clusters and documents, and one cluster that throws.
Few == {<<cite(1, NoLocator)>>, <<cite(2, "p"), cite(1, NoLocator)>>}
FewAndMissing == Few \cup {<<cite(2, NoLocator), cite(3, NoLocator)>>}
Many == Few \cup {<<cite(2, NoLocator)>>,
                  <<cite(1, "p"), cite(1, NoLocator)>>}

slot(i, n) == [citationID |-> i, noteIndex |-> n]
Growing == {<<slot(k1, 1)>>, <<slot(k1, 1), slot(k2, 2)>>,
            <<slot(k1, 1), slot(k3, 2), slot(k2, 3)>>}
Mixed == Growing \cup {<<slot(k2, 1), slot(k1, 0)>>, <<slot(k2, 2), slot(k1, 2)>>}
=============================================================================
