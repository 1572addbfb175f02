------------------------------ MODULE MCNameReg ------------------------------
(***************************************************************************)
(* Instances of NameReg for TLC: four Does, two of whom share initials and *)
(* two of whom are one person, one of them with a second author.           *)
(***************************************************************************)
EXTENDS NameReg

AlDoe == <<"Doe", "A", "Al">>
AbeDoe == <<"Doe", "A", "Abe">>
BoDoe == <<"Doe", "B", "Bo">>
SomeNames ==
    << <<AlDoe>>, <<BoDoe>>, <<AbeDoe>>, <<<<"Roe", "C", "Cy">>, AlDoe>>,
       <<BoDoe, AlDoe, <<"Doe">>>> >>
SomeParts == UNION {ToSet(name) : name \in UNION {ToSet(names) : names \in ToSet(SomeNames)}}

Style(rule, form, initialize) == [rule |-> rule, form |-> form, initialize |-> initialize]
SomeStyles ==
    {Style("all-names", "short", FALSE), Style("all-names", "short", TRUE),
     Style("all-names-with-initials", "short", TRUE), Style("primary-name", "short", TRUE),
     Style("all-names", "long", TRUE)}
==============================================================================
