---------------------------- MODULE Disambiguation ----------------------------
(***************************************************************************)
(* CSL.Disambiguation of citeproc-js: names, given names, conditional text *)
(* and year suffixes are added to the cites of one class of items, those   *)
(* that render to one cite without any of them, until they differ.         *)
(*                                                                         *)
(* Callers register and delete items of the class (updateItems); each call *)
(* disambiguates the whole class again, from the settings the last call    *)
(* left.  A step is one turn of the loop in runDisambig: scan the list at  *)
(* "pos", raise the settings in "base" by one, scan again, and let the     *)
(* mode judge.                                                             *)
(*                                                                         *)
(* The cite is <names/> with form="short" for each variable, and the rule  *)
(* for given names is by-cite, so a name is shown as its item asks for.    *)
(* Family names differ within an item.                                     *)
(***************************************************************************)
EXTENDS Integers, FiniteSets, SequencesExt

CONSTANTS
    Item,        \* the ids of items, in the order their ids compare
    Names,       \* Names[i]: for each variable item i has, its names
    Title,       \* Title[i]: what a cite adds if disambiguate is true
    EtAlMin, UseFirst, \* the style's et-al-min and et-al-use-first
    HasInitials, \* the style has initialize-with
    NotGiven,    \* no given name
    Styles,      \* bound: the modes of the styles considered
    Lists        \* bound: the lists callers pass to updateItems, no item twice

Modes == {"disNames", "disGivens", "disExtraText", "disYears"}

ASSUME DisambiguationAssumption ==
    /\ Item \subseteq Nat
    /\ DOMAIN Names = Item /\ DOMAIN Title = Item
    /\ EtAlMin \in Nat /\ UseFirst \in 1 .. EtAlMin
    /\ HasInitials \in BOOLEAN
    /\ Styles \subseteq Seq(Modes) \ {<<>>}
    /\ Lists \subseteq {list \in Seq(Item) : IsInjective(list)}

VARIABLES
    modes,      \* the modes of the style
    ambigcites, \* the items of the class, in order of registration
    disambig,   \* disambig[i]: the settings registered for item i
    lists,      \* the lists to be scanned; items are added while they are
    pos,        \* the list being scanned
    base,       \* the settings cites are scanned with
    modeindex, nnameset, gnameset, gname, \* what is raised next
    advance,    \* advance_mode: the mode is exhausted
    rerun,      \* clashes holds for the settings before
    clashes,    \* the first item's clashes in the last first scan
    settled     \* history: the items this call's disambiguation registered

cursor == <<modeindex, nnameset, gnameset, gname, advance, rerun>>
vars == <<modes, ambigcites, disambig, lists, pos, base, cursor, clashes, settled>>

NoSuffix == -1
NaN == -1

-----------------------------------------------------------------------------
(* Rendering a cite.                                                       *)

\* The values of f, then those of g.
Over(f, g) == [x \in DOMAIN f \cup DOMAIN g |-> IF x \in DOMAIN f THEN f[x] ELSE g[x]]

Counts(i) == [s \in DOMAIN Names[i] |-> Len(Names[i][s])]

\* The form of a given name: 0 none, 1 initials, 2 and more in full.
Level(name, asked) ==
    IF asked <= 0 \/ name.given = NotGiven THEN 0
    ELSE IF asked = 1 /\ ~HasInitials THEN 2 ELSE asked

Face(name, level) ==
    CASE level = 0 -> <<name.family>>
      [] level = 1 -> <<name.family, name.initial>>
      [] OTHER     -> <<name.family, name.initial, name.given>>

\* An item rendered with "settings", n[s] names of its variable s shown, and
\* the settings as the rendering leaves them.
Rendered(i, settings, n) ==
    LET asked == [s \in DOMAIN n |->
            IF s \in DOMAIN settings.givens THEN settings.givens[s] ELSE <<>>]
        level == [s \in DOMAIN n |-> [k \in 1 .. n[s] |->
            Level(Names[i][s][k], IF k \in DOMAIN asked[s] THEN asked[s][k] ELSE 0)]]
    IN  [cite |-> <<[s \in DOMAIN n |-> [k \in 1 .. n[s] |->
                        Face(Names[i][s][k], level[s][k])]],
                    {s \in DOMAIN n : n[s] < Counts(i)[s]},
                    IF settings.disambiguate THEN Title[i] ELSE <<>>>>,
         settings |-> [settings EXCEPT
            !.names = Over(n, @),
            !.givens = Over([s \in DOMAIN n |-> Over(level[s], asked[s])], @)]]

\* The names shown if the style alone decides.
StyleNames(i) ==
    [s \in DOMAIN Names[i] |->
        IF Counts(i)[s] >= EtAlMin THEN UseFirst ELSE Counts(i)[s]]

\* CSL.getAmbiguousCite, without and with settings; all names of a variable
\* are shown that the settings do not know.
Ambiguous(i) ==
    Rendered(i, [names |-> <<>>, givens |-> <<>>,
                 disambiguate |-> FALSE, year_suffix |-> NoSuffix], StyleNames(i))
getAmbiguousCite(i, settings) ==
    Rendered(i, settings, [s \in DOMAIN Names[i] |->
        IF s \in DOMAIN settings.names /\ settings.names[s] < Counts(i)[s]
        THEN settings.names[s] ELSE Counts(i)[s]])

\* The cite as it is printed in the end: a request for no more names than
\* the style shows anyway is not heard; and where an item is cited for the
\* first time, in a style that tests positions, no given name is asked for.
Printed(i, settings, isFirst) ==
    LET n == [s \in DOMAIN Names[i] |->
            IF /\ s \in DOMAIN settings.names /\ settings.names[s] > UseFirst
               /\ Counts(i)[s] >= EtAlMin
            THEN IF settings.names[s] < Counts(i)[s] THEN settings.names[s] ELSE Counts(i)[s]
            ELSE StyleNames(i)[s]]
        asked == IF isFirst THEN [settings EXCEPT !.givens = <<>>] ELSE settings
    IN  <<Rendered(i, asked, n).cite, settings.year_suffix>>

ASSUME ClassAssumption ==
    \A i, j \in Item : Ambiguous(i).cite = Ambiguous(j).cite

-----------------------------------------------------------------------------
(* updateItems.                                                            *)

Init ==
    /\ modes \in Styles
    /\ ambigcites = <<>> /\ disambig = <<>> /\ lists = <<>> /\ pos = 1
    /\ base = <<>> /\ clashes = 0 /\ settled = {}
    /\ modeindex = 1 /\ nnameset = 1 /\ gnameset = 1 /\ gname = 0
    /\ advance = FALSE /\ rerun = FALSE

Idle == pos > Len(lists)

\* The array of the numbers of names compares as the string it converts to:
\* its digits and, before all digits, its commas.
Comma == -1
Text(counts) ==
    Tail(FlattenSeq([s \in DOMAIN counts |->
        <<Comma>> \o (IF counts[s] < 10 THEN <<>> ELSE <<counts[s] \div 10>>)
                  \o <<counts[s] % 10>>]))
TextOf(i) == IF Names[i] = <<>> THEN <<>> ELSE Text(Counts(i))
Below(s, t) ==
    \E k \in 1 .. Len(t) :
        /\ \A l \in 1 .. k - 1 : l \in DOMAIN s /\ s[l] = t[l]
        /\ k \in DOMAIN s => s[k] < t[k]

InOrder(i, j) ==
    Below(TextOf(i), TextOf(j)) \/ (TextOf(i) = TextOf(j) /\ i < j)

\* The lists of a set of items that the sort may return.
Sortings(S) ==
    {s \in SetToSeqs(S) : \A k, l \in DOMAIN s : k < l => InOrder(s[k], s[l])}

\* initVars: items with fewer names come first; every item is rendered, and
\* the first one's settings are those to start from.
initVars(pool, settings) ==
    LET known == [i \in DOMAIN settings |->
                     getAmbiguousCite(i, settings[i]).settings]
    IN  /\ \/ /\ Len(pool) > 1
              /\ disambig' = known
              /\ \E list \in Sortings(ToSet(pool)) : lists' = <<list>> /\ base' = known[list[1]]
           \/ /\ Len(pool) <= 1
              /\ disambig' = settings /\ lists' = <<>> /\ base' = base
        /\ pos' = 1 /\ modeindex' = 1 /\ advance' = FALSE
        /\ nnameset' = 1 /\ gnameset' = 1 /\ gname' = 0

\* The members of a sequence that are in S.
AddIf(s, i, S) == IF i \in S THEN Append(s, i) ELSE s
Only(list, S) == FoldLeft(LAMBDA s, i : AddIf(s, i, S), <<>>, list)

\* Items that remain when others are deleted are registered again, all with
\* the settings of the first of them.
updateItems(list) ==
    LET kept == Only(ambigcites, ToSet(list))
        new == Only(list, ToSet(list) \ ToSet(ambigcites))
        known == IF kept = ambigcites THEN disambig
                 ELSE [i \in ToSet(kept) |-> Ambiguous(kept[1]).settings]
    IN  /\ Idle
        /\ kept # ambigcites \/ new # <<>>
        /\ ambigcites' = kept \o new
        /\ initVars(kept \o new, Over([i \in ToSet(new) |-> Ambiguous(i).settings], known))
        /\ settled' = {}
        /\ UNCHANGED <<modes, rerun, clashes>>

-----------------------------------------------------------------------------
(* One turn of the loop.                                                   *)

\* op(x, i), for TLC, which else would evaluate x wherever op names it.
Applied(op(_, _), x, i) == CHOOSE y \in {op(v, i) : v \in {x}} : TRUE

\* scanItems: the items with the first one's cite, the others, and the
\* settings as the renderings leave them.
Compare(scan, i, cite) ==
    LET other == getAmbiguousCite(i, scan.base)
    IN  IF other.cite = cite
        THEN [base |-> other.settings,
              partners |-> Append(scan.partners, i), nonpartners |-> scan.nonpartners]
        ELSE [base |-> other.settings,
              partners |-> scan.partners, nonpartners |-> Append(scan.nonpartners, i)]

Compared(scan, i, cite) == Applied(LAMBDA s, j : Compare(s, j, cite), scan, i)

scanItems(list, settings, phase) ==
    LET first == Applied(LAMBDA b, i : getAmbiguousCite(i, b), settings, list[1])
    IN  FoldLeft(LAMBDA scan, i : Compared(scan, i, first.cite),
            [base |-> IF phase = 0 THEN [first.settings EXCEPT !.disambiguate = FALSE]
                      ELSE first.settings,
             partners |-> <<list[1]>>, nonpartners |-> <<>>],
            Tail(list))

Clashes(scan) == Len(scan.partners) - 1

\* incrementDisambig in mode disNames, for maxvals "most".
Less(s, t, k) == k \in DOMAIN s /\ k \in DOMAIN t /\ s[k] < t[k]

MoreNames(b, most) ==
    LET n == IF ~Less(b.names, most, nnameset) /\ nnameset < Len(b.names)
             THEN nnameset + 1 ELSE nnameset
        raised == IF Less(b.names, most, n) THEN [b EXCEPT !.names[n] = @ + 1] ELSE b
    IN  [base |-> raised, nnameset |-> n, gnameset |-> gnameset, gname |-> gname,
         exhausted |-> /\ n >= Len(raised.names)
                       /\ n \in DOMAIN most /\ raised.names # <<>> =>
                              raised.names[n] = most[n]]

\* The same in mode disGivens.  A form that is raised before the name has one
\* is not a number.
Expanded(b, s, k) ==
    [b EXCEPT !.givens[s] =
        [l \in 1 .. (IF k > Len(@) THEN k ELSE Len(@)) |->
            IF l > Len(@) THEN NaN
            ELSE IF l = k /\ @[l] # NaN THEN @[l] + 1 ELSE @[l]]]

MoreGivens(b, most) ==
    LET next == gnameset \notin DOMAIN most \/ gname >= most[gnameset]
        s == IF next THEN gnameset + 1 ELSE gnameset
        k == IF next THEN 1 ELSE gname + 1
        more == s \in DOMAIN most /\ k <= most[s]
        last == IF more THEN k ELSE k - 1
    IN  [base |-> IF more THEN Expanded(b, s, k) ELSE b,
         nnameset |-> nnameset, gnameset |-> s, gname |-> last,
         exhausted |-> /\ s >= Len(b.names)
                       /\ s \in DOMAIN most /\ b.names # <<>> => last = most[s]]

\* Mutants: the last mode hands on, too; no mode hands on to the last one.
HandsOnAlways(m) == modes[m] # "disExtraText"
HandsOnEarly(m) == m < Len(modes) - 1 /\ modes[m] # "disExtraText"

\* An exhausted mode hands on to the next one, but for disExtraText.
HandsOn(m) == m < Len(modes) /\ modes[m] # "disExtraText"

incrementDisambig(b, m) ==
    LET most == Counts(lists[pos][1])
        up == CASE modes[m] = "disNames" -> MoreNames(b, most)
                [] modes[m] = "disGivens" -> MoreGivens(b, most)
                [] OTHER -> [base |-> [b EXCEPT !.disambiguate =
                                          (modes[m] = "disExtraText") \/ @],
                             nnameset |-> nnameset, gnameset |-> gnameset, gname |-> gname,
                             exhausted |-> modes[m] = "disExtraText"]
    IN  [base |-> up.base, mode |-> m,
         nnameset |-> up.nnameset, gnameset |-> up.gnameset, gname |-> up.gname,
         ismax |-> up.exhausted /\ m = Len(modes),
         advance |-> up.exhausted /\ HandsOn(m)]

\* Mutant: the others are settled with it however many they are.
CompanionsAll(t) == t.nonpartners

\* An item that is settled settles the one other item of its list.
Companions(t) == IF Len(t.nonpartners) = 1 THEN t.nonpartners ELSE <<>>

Quashed(settings) == [settings EXCEPT !.year_suffix = NoSuffix]
Tokens(list, settings) == [i \in ToSet(list) |-> settings]

\* A turn t that ends with registering "tokens", leaves "rest" in the list,
\* and adds the lists "more".
Verdict(t, tokens, rest, more, b, again) ==
    /\ disambig' = Over(tokens, disambig)
    /\ settled' = settled \cup DOMAIN tokens
    /\ lists' = [lists EXCEPT ![pos] = rest] \o more
    /\ base' = b
    /\ rerun' = again
    /\ clashes' = t.before
    /\ modeindex' = t.mode /\ advance' = t.advance
    /\ IF rest = <<>>
       THEN pos' = pos + 1 /\ nnameset' = 1 /\ gnameset' = 1 /\ gname' = 0
       ELSE /\ UNCHANGED pos
            /\ nnameset' = t.nnameset /\ gnameset' = t.gnameset /\ gname' = t.gname
    /\ UNCHANGED <<modes, ambigcites>>

\* Fewer clashes than before: the others are scanned later, as a new list.
Narrow(t) ==
    /\ t.clashes > 0 /\ Len(t.nonpartners) # 1 /\ t.clashes < t.before
    /\ Verdict(t, <<>>, t.partners, <<t.nonpartners>>, t.base, FALSE)

\* As many clashes as before: go on with settings b, or leave it at them if
\* the mode is exhausted.
NoBetter(t, b) ==
    /\ t.clashes > 0 /\ Len(t.nonpartners) # 1 /\ t.clashes >= t.before
    /\ Verdict(t, IF t.ismax \/ t.advance THEN Tokens(t.partners, b) ELSE <<>>,
               IF t.ismax THEN t.nonpartners ELSE lists[pos], <<>>, b,
               ~t.ismax /\ ~t.advance)

\* When the first item's cite is its own, the other items leave the list, too.
disNames(t) ==
    LET found == Quashed(t.base)
    IN  \/ /\ t.clashes = 0
           /\ Verdict(t, Tokens(t.partners \o Companions(t), found),
                      <<>>, <<>>, t.base, FALSE)
        \/ /\ t.clashes > 0 /\ Len(t.nonpartners) = 1
           /\ Verdict(t, Tokens(t.nonpartners, found), t.partners, <<>>, t.base, FALSE)
        \/ Narrow(t)
        \/ NoBetter(t, t.base)

\* decrementNames: names are taken back that follow the last one whose given
\* name was raised, and all names of the other variables.  The items of a class
\* have the same variables, so the settings before have a row of given names
\* wherever those after have one; the code throws on a missing row, and this has
\* no value there.
decrementNames(b, old) ==
    LET raised(s) == {k \in DOMAIN b.givens[s] :
            k \in DOMAIN old.givens[s] /\ b.givens[s][k] > old.givens[s][k]}
        idle(s) == {k \in DOMAIN b.givens[s] :
            k <= b.names[s] /\ \A l \in raised(s) : l < k}
    IN  IF \A s \in DOMAIN b.givens : raised(s) = {} THEN b
        ELSE [b EXCEPT !.names = [s \in DOMAIN @ |-> @[s] - Cardinality(idle(s))]]

disGivens(t) ==
    LET b == IF t.before = 1 THEN decrementNames(t.base, t.old) ELSE t.base
        alone == Len(t.nonpartners) = 1
    IN  \/ /\ t.clashes = 0 /\ alone
           /\ Verdict(t, Over(Tokens(t.partners, b), Tokens(t.nonpartners, Quashed(b))),
                      <<>>, <<>>, b, FALSE)
        \/ /\ t.clashes = 0 /\ ~alone
           /\ Verdict(t, Tokens(t.partners, Quashed(b)), t.nonpartners, <<>>, b, FALSE)
        \/ /\ t.clashes > 0 /\ alone
           /\ Verdict(t, Tokens(t.nonpartners, Quashed(b)), t.partners, <<>>, b, FALSE)
        \/ Narrow(t)
        \/ NoBetter(t, t.old)

disExtraText(t) ==
    \/ /\ t.clashes = 0
       /\ Verdict(t, Tokens(t.partners \o Companions(t), Quashed(t.base)),
                  IF Len(t.nonpartners) = 1 THEN <<>> ELSE t.nonpartners,
                  <<>>, t.base, FALSE)
    \/ /\ t.clashes > 0
       /\ Verdict(t, <<>>, Tail(lists[pos]), <<>>,
                  [t.base EXCEPT !.disambiguate = FALSE], FALSE)

\* Sort keys are taken to be in order of the ids.
disYears(t) ==
    LET tokens == ToSet(lists[pos])
    IN  Verdict(t, [i \in tokens |-> [t.base EXCEPT !.year_suffix =
                                         Cardinality({j \in tokens : j < i})]],
                <<>>, <<>>, t.base, FALSE)

evalScan(mode, t) ==
    \/ mode = "disNames" /\ disNames(t)
    \/ mode = "disGivens" /\ disGivens(t)
    \/ mode = "disExtraText" /\ disExtraText(t)
    \/ mode = "disYears" /\ disYears(t)

\* "old" are the settings before they are raised (oldbase), "before" the
\* clashes with them.
runDisambig ==
    /\ ~Idle
    /\ \E first \in {scanItems(lists[pos], base, 0)} :
       \E old \in {IF rerun THEN base ELSE first.base} :
       \E up \in {incrementDisambig(old, IF advance THEN modeindex + 1 ELSE modeindex)} :
       \E second \in {scanItems(lists[pos], up.base, 1)} :
          evalScan(modes[up.mode],
             [base |-> second.base, old |-> old,
              before |-> IF rerun THEN clashes ELSE Clashes(first), clashes |-> Clashes(second),
              partners |-> second.partners, nonpartners |-> second.nonpartners,
              mode |-> up.mode, ismax |-> up.ismax, advance |-> up.advance,
              nnameset |-> up.nnameset, gnameset |-> up.gnameset, gname |-> up.gname])

Next == runDisambig \/ \E list \in Lists : updateItems(list)

\* A call runs to its end; whether there is another is up to callers.
Spec == Init /\ [][Next]_vars /\ WF_vars(runDisambig)

-----------------------------------------------------------------------------
(* Properties.                                                             *)

\* The loop's indices stay in their arrays, every item of the class has
\* settings, a list to be scanned has a first item, and no item is in two
\* lists (runDisambig, incrementDisambig).
TypeOK ==
    /\ DOMAIN disambig = ToSet(ambigcites)
    /\ settled \subseteq ToSet(ambigcites)
    /\ pos \in 1 .. Len(lists) + 1
    /\ modeindex \in 1 .. Len(modes)
    /\ advance => modeindex < Len(modes)
    /\ \A k \in DOMAIN lists :
           /\ ToSet(lists[k]) \subseteq ToSet(ambigcites)
           /\ k >= pos => lists[k] # <<>>
           /\ \A l \in DOMAIN lists : l # k => ToSet(lists[k]) \cap ToSet(lists[l]) = {}

Cite(i, isFirst) == Printed(i, disambig[i], isFirst)

\* The cite with all that the style may add, but for a year suffix.
Fullest(i) ==
    LET n == IF "disNames" \in ToSet(modes) THEN Counts(i) ELSE StyleNames(i)
        form == IF "disGivens" \in ToSet(modes) THEN 1 ELSE 0
    IN  Rendered(i, [names |-> n,
                     givens |-> [s \in DOMAIN n |-> [k \in 1 .. n[s] |-> form]],
                     disambiguate |-> "disExtraText" \in ToSet(modes),
                     year_suffix |-> NoSuffix], n).cite

\* With both, decrementNames takes back names that told items of two lists
\* apart; and disExtraText never hands a list on to disYears.
TakesBack == {"disNames", "disGivens"} \subseteq ToSet(modes)
StopsShort == {"disExtraText", "disYears"} \subseteq ToSet(modes)

\* A first cite loses the given names that were to tell its item from others,
\* and gets nothing else instead.
Loses(isFirst) == isFirst /\ "disGivens" \in ToSet(modes)

\* When a call is over, two items it has settled have one cite only if the
\* style has no year suffixes and nothing else it adds tells them apart: what
\* tells an item from the others of its list must tell it from those of the
\* lists split off before and after, and from those settled on the way.  This
\* holds for later cites, and for first cites if the style adds no given names.
SettledApart ==
    Idle /\ ~TakesBack /\ ~StopsShort =>
        \A i, j \in settled, isFirst \in BOOLEAN :
            i # j /\ ~Loses(isFirst) /\ Cite(i, isFirst) = Cite(j, isFirst) =>
                "disYears" \notin ToSet(modes) /\ Fullest(i) = Fullest(j)

\* The loop over the lists, which grow while it runs, comes to an end
\* (runDisambig: "each list is scanned repeatedly until all items either
\* succeed or ultimately fail").
Terminates == []<>Idle
=============================================================================
