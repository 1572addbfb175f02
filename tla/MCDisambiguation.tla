--------------------------- MODULE MCDisambiguation ---------------------------
(***************************************************************************)
(* Instances of Disambiguation for TLC: classes of up to four of five      *)
(* items that differ in a given name, in a name further back, or not.      *)
(***************************************************************************)
EXTENDS Disambiguation

Name(family, given) ==
    [family |-> family, initial |-> Head(given), given |-> given[2]]
AlDoe == Name("Doe", <<"A", "Al">>)
AbeDoe == Name("Doe", <<"A", "Abe">>)
BoDoe == Name("Doe", <<"B", "Bo">>)
Roe == Name("Roe", <<"C", "Cy">>)
Moe == Name("Moe", <<"C", "Cy">>)
Poe == Name("Poe", <<"D", "Di">>)

FewNames ==
    << <<<<AlDoe, Roe>>>>, <<<<AlDoe, Roe>>>>, <<<<AbeDoe, Roe>>>>,
       <<<<AlDoe, Moe, Roe>>>>, <<<<BoDoe, Moe, Poe>>>> >>
Titles == << <<"t">>, <<"u">>, <<"v">>, <<"t">>, <<"t">> >>

\* Callers list any four items, in order.
AnyFour ==
    {SetToSortSeq(T, LAMBDA i, j : i < j) : T \in {T \in SUBSET Item : Cardinality(T) <= 4}}

SomeStyles ==
    {<<"disYears">>, <<"disNames", "disYears">>, <<"disGivens", "disYears">>,
     <<"disNames">>, <<"disGivens">>, <<"disExtraText">>, <<"disNames", "disExtraText">>,
     <<"disNames", "disGivens", "disYears">>,
     <<"disNames", "disGivens", "disExtraText", "disYears">>}
=============================================================================
