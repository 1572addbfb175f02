--------------------------- MODULE MCCitationAPI ---------------------------
(* Small instances of CitationAPI for TLC. *)
EXTENDS CitationAPI, TLC

CONSTANTS a, b, c, d, en, m1, r1, r2, p1, p2, p3

\* Pids 1 and 2 have (equal) MODS, pid 3 has none.
MCModsOf == (p1 :> m1) @@ (p2 :> m1) @@ (p3 :> NotFound)

\* Callers use the same strings: getNewAlias must skip those already taken.
MCAutoAlias == (0 :> a) @@ (1 :> b) @@ (2 :> c) @@ (3 :> d) @@ (4 :> en)

MCAliasLists == {<<a>>, <<b, a>>}
MCPidLists == {<<>>, <<p1>>, <<p3>>, <<p1, p2>>, <<p2, p3>>}
=============================================================================
