---------------------------- MODULE MCCitationPage ----------------------------
(* Small instances of CitationPage for TLC. *)
EXTENDS CitationPage

CONSTANTS a, b, c, d, en, r1, r2

NoAutoAlias == EmptyArray
NoModsOf == EmptyArray
Lists == {<<b>>, <<>>}
NoLists == {}

NoRawCites == [r \in Raw |-> {}]

\* Styles, metadata, and a citation or a list over it.
Uses(styles, lists) ==
    [t \in DataType |-> CASE t = "csl" -> styles
                          [] t = "metadata" -> {b}
                          [] t = "citation" -> {c}
                          [] t = "bibliography_list" -> lists
                          [] OTHER -> {}]
TwoStyles == Uses({a, d}, {c})
OneStyle == Uses({a}, {})
==============================================================================
