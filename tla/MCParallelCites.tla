---------------------------- MODULE MCParallelCites ----------------------------
(* Instances of ParallelCites for TLC: three reports of one case, one of     *)
(* another, and a book.                                                     *)
EXTENDS ParallelCites

MCCase == <<"doe", "doe", "doe", "roe", None>>
MCField == [i \in Item |-> [genre |-> IF i \in {2, 4} THEN {} ELSE {"report"}]]

Together == {<<1>>, <<2>>, <<1, 2>>, <<2, 1>>, <<2, 3>>, <<4, 2>>, <<5, 3>>, <<1, 2, 1>>}

NoSelectors == {}

reports == [field |-> "genre", value |-> "report"]
noGenre == [field |-> "genre", value |-> "none"]
MCSelectors ==
    {[by |-> "include", specs |-> {reports}, quash |-> None],
     [by |-> "exclude", specs |-> {reports}, quash |-> None],
     [by |-> "select", specs |-> {reports, noGenre}, quash |-> None],
     [by |-> "all", specs |-> {}, quash |-> {noGenre}]}
==============================================================================
