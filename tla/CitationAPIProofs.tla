-------------------------- MODULE CitationAPIProofs --------------------------
(***************************************************************************)
(* Proofs about CitationAPI, for every number of objects, aliases and      *)
(* contents.  Everything addData touches is in dataVars, and every action  *)
(* either is one addData or leaves dataVars alone; so each fact is proved  *)
(* for addData's three outcomes and lifted to Next once.                   *)
(***************************************************************************)
EXTENDS CitationAPI, TLAPS

-----------------------------------------------------------------------------
(* Helpers on PHP arrays. *)

\* Assigning an entry adds its key and changes no other entry.
LEMMA PutFacts ==
    ASSUME NEW f, NEW k, NEW v
    PROVE  /\ DOMAIN Put(f, k, v) = DOMAIN f \cup {k}
           /\ Put(f, k, v)[k] = v
           /\ \A x \in DOMAIN f : x # k => Put(f, k, v)[x] = f[x]
  BY DEF Put

\* array_merge_recursive on a new name stores the value alone.
LEMMA MergeNew ==
    ASSUME NEW s, NEW k, NEW v, k \notin DOMAIN s
    PROVE  /\ DOMAIN Merge(s, k, v) = DOMAIN s \cup {k}
           /\ Merge(s, k, v)[k] = <<v>>
           /\ \A x \in DOMAIN s : Merge(s, k, v)[x] = s[x]
  <1>1. Append(<<>>, v) = <<v>>
    OBVIOUS
  <1>2. QED
    BY <1>1 DEF Merge, Put

\* Merging keeps every value a sequence of its type.
LEMMA MergeType ==
    ASSUME NEW S, NEW s, NEW k, NEW v \in S, 
           k \in DOMAIN s => s[k] \in Seq(S)
    PROVE  /\ DOMAIN Merge(s, k, v) = DOMAIN s \cup {k}
           /\ Merge(s, k, v)[k] \in Seq(S)
           /\ \A x \in DOMAIN s : x # k => Merge(s, k, v)[x] = s[x]
  <1>1. Append(IF k \in DOMAIN s THEN s[k] ELSE <<>>, v) \in Seq(S)
    <2>1. <<>> \in Seq(S)
      OBVIOUS
    <2>2. (IF k \in DOMAIN s THEN s[k] ELSE <<>>) \in Seq(S)
      BY <2>1
    <2>3. QED
      BY <2>2
  <1>2. QED
    BY <1>1 DEF Merge, Put

-----------------------------------------------------------------------------
(* Look-ups. *)

\* Under AliasMeansOneThing the search for a pointer has one possible result.
LEMMA PointerFound ==
    ASSUME DataTypeOK, AliasMeansOneThing,
           NEW u \in Objects, NEW a \in Alias, NEW p \in PointersOf(u, a)
    PROVE  getAliasPointer(u, a) = p
  <1>1. \A q \in PointersOf(u, a) : q = p
    BY DEF AliasMeansOneThing
  <1>2. p \in Nat
    BY DEF DataTypeOK, PointersOf
  <1>3. \A q \in PointersOf(u, a) : p <= q
    BY <1>1, <1>2
  <1>4. QED
    BY <1>1, <1>3 DEF getAliasPointer

LEMMA JSAliasType ==
    ASSUME DataTypeOK, AliasMeansOneThing, NEW u \in Objects, NEW a \in Alias
    PROVE  getJSAlias(u, a) \in Alias \cup {NotFound}
  <1>1. CASE PointersOf(u, a) = {}
    BY <1>1 DEF getJSAlias, isAliasUsed
  <1>2. CASE PointersOf(u, a) # {}
    <2>1. PICK p \in PointersOf(u, a) : TRUE
      BY <1>2
    <2>2. getAliasPointer(u, a) = p /\ jsAliases[p] \in Alias
      BY <2>1, PointerFound DEF DataTypeOK, PointersOf
    <2>3. QED
      BY <2>2 DEF getJSAlias
  <1>3. QED
    BY <1>1, <1>2

LEMMA NameType ==
    ASSUME DataTypeOK, NEW u \in Objects, NEW a \in Alias \cup {NotFound}
    PROVE  /\ prefixAlias(u, a) \in Name
           /\ u \in Nat /\ u # NoPrefix
  BY DEF prefixAlias, Name, Objects, DataTypeOK, NoPrefix

-----------------------------------------------------------------------------
(* The inductive invariant. *)

(***************************************************************************)
(* A prefixed name in the browser is that of an alias its object has used: *)
(* what isAliasUsed refuses includes every name ever sent.                 *)
(***************************************************************************)
SentNamesAreTaken ==
    \A k \in DOMAIN settings :
        k.name[1] # NoPrefix =>
            \E p \in DOMAIN jsAliases : <<p, k.name[1], k.name[2]>> \in aliasPointer

DataInv ==
    /\ DataTypeOK
    /\ AliasMeansOneThing
    /\ ContentLoggedOnce
    /\ SentNamesAreTaken
    /\ PrefixedNamesSentOnce
    /\ LoggedContentIsSent

\* A call under way has a pid left or an alias to finish with.
JobInv ==
    job # Idle => /\ job.pids # <<>> \/ job.list # <<>>
                  /\ job.list # <<>> => job.object \in Alias

IInv == TypeOK /\ DataInv /\ JobInv

-----------------------------------------------------------------------------
(* addData *)

\* The names a bibliography list sends are names.
LEMMA ListedNamesType ==
    ASSUME DataInv, NEW u \in Objects, NEW list \in Seq(Alias), NEW alias \in Alias
    PROVE  ListedNames(u, list, alias) \in Seq(Name)
  <1>1. \A i \in DOMAIN list : list[i] \in Alias
    OBVIOUS
  <1>2. \A i \in DOMAIN list :
           prefixAlias(u, IF list[i] = alias THEN alias ELSE getJSAlias(u, list[i])) \in Name
    BY <1>1, JSAliasType, NameType DEF DataInv
  <1>3. QED
    BY <1>2 DEF ListedNames

\* What the switch of addData may do to the settings.
LEMMA SendEffect ==
    ASSUME DataInv, NEW u \in Objects, NEW type \in DataType \cup {"locale"},
           NEW alias \in Alias, NEW content \in ContentOf[type],
           NEW var \in VarType \cup {Null}, Send(u, type, alias, content, var)
    PROVE  \/ settings' = settings /\ type \in {"abbreviation", "unknown"}
           \/ \E k \in Key, v \in ValueOf[type] :
                /\ settings' = Merge(settings, k, v)
                /\ k.type = type
                /\ k.name = IF type = "locale" THEN <<NoPrefix, alias>>
                                               ELSE prefixAlias(u, alias)
                /\ type \in AlwaysSent => k.var = Null
                /\ type \in JsonType => v = content
  <1>1. prefixAlias(u, alias) \in Name /\ <<NoPrefix, alias>> \in Name
    BY NameType DEF DataInv, Name
  <1> DEFINE key(n, w) == [type |-> type, name |-> n, var |-> w]
  <1>2. /\ key(prefixAlias(u, alias), Null) \in Key
        /\ key(prefixAlias(u, alias), var) \in Key
        /\ key(<<NoPrefix, alias>>, Null) \in Key
    BY <1>1 DEF Key
  <1>3. CASE type \in JsonType
    <2>1. settings' = Merge(settings, key(prefixAlias(u, alias), Null), content)
      BY <1>3 DEF Send, JsonType
    <2>2. content \in ValueOf[type]
      BY <1>3 DEF ValueOf, JsonType, DataType, ContentOf
    <2>3. type # "locale"
      BY <1>3 DEF JsonType
    <2>4. QED
      BY <1>2, <2>1, <2>2, <2>3
  <1>4. CASE type = "bibliography_list"
    <2>1. settings' = Merge(settings, key(prefixAlias(u, alias), Null),
                            ListedNames(u, content, alias))
      BY <1>4 DEF Send, JsonType
    <2>2. content \in Seq(Alias) /\ ValueOf[type] = Seq(Name)
      BY <1>4 DEF ContentOf, ValueOf, DataType
    <2>3. ListedNames(u, content, alias) \in ValueOf[type]
      BY <2>2, ListedNamesType
    <2>4. QED
      BY <1>2, <1>4, <2>1, <2>3 DEF JsonType
  <1>5. CASE type = "locale"
    <2>1. settings' = Merge(settings, key(<<NoPrefix, alias>>, Null), content)
      BY <1>5 DEF Send, JsonType
    <2>2. content \in ValueOf[type]
      BY <1>5 DEF ValueOf, DataType, ContentOf
    <2>3. QED
      BY <1>2, <1>5, <2>1, <2>2 DEF JsonType
  <1>6. CASE type = "abbreviation" /\ var # Null
    <2>1. settings' = Merge(settings, key(prefixAlias(u, alias), var), content)
      BY <1>6 DEF Send, JsonType
    <2>2. content \in ValueOf[type]
      BY <1>6 DEF ValueOf, DataType, ContentOf
    <2>3. QED
      BY <1>2, <1>6, <2>1, <2>2 DEF JsonType, AlwaysSent
  <1>7. CASE (type = "abbreviation" /\ var = Null) \/ type = "unknown"
    BY <1>7 DEF Send, JsonType
  <1>8. QED
    BY <1>3, <1>4, <1>5, <1>6, <1>7 DEF DataType

(***************************************************************************)
(* Outcome "known content": one alias more, nothing sent.                  *)
(***************************************************************************)
LEMMA ShareContentInv ==
    ASSUME DataInv, UNCHANGED classCount, NEW u \in Objects,
           NEW type \in DataType \cup {"locale"}, NEW alias \in Alias,
           NEW content \in ContentOf[type],
           ShareContent(u, type, alias, content)
    PROVE  DataInv'
  <1> USE DEF DataInv
  <1>1. /\ UNCHANGED <<contentPointer, jsAliases, pointerCount, settings, classCount>>
        /\ PointersOf(u, alias) = {} /\ ~isLocaleName(u, alias)
    BY DEF ShareContent, isAliasUsed
  <1>2. CASE type = "locale"
    <2>1. /\ localizations' = Put(localizations, <<u, alias>>, content)
          /\ UNCHANGED aliasPointer
          /\ content \in Raw
      BY <1>2 DEF ShareContent, ContentOf
    <2>0. /\ DOMAIN localizations' = DOMAIN localizations \cup {<<u, alias>>}
          /\ \A k \in DOMAIN localizations' : localizations'[k] \in Raw
      BY <2>1 DEF DataTypeOK, Put
    <2>2. DataTypeOK'
      BY <1>1, <2>1, <2>0 DEF DataTypeOK, Objects
    <2>3. AliasMeansOneThing'
      BY <1>1, <2>1, <2>0 DEF AliasMeansOneThing, PointersOf, isLocaleName, Objects
    <2>4. ContentLoggedOnce' /\ SentNamesAreTaken' /\ PrefixedNamesSentOnce'
      BY <1>1, <2>1 DEF ContentLoggedOnce, SentNamesAreTaken, PrefixedNamesSentOnce
    <2>5. LoggedContentIsSent'
      BY <1>1 DEF LoggedContentIsSent, IsSentBy, Objects, prefixAlias
    <2>6. QED
      BY <2>2, <2>3, <2>4, <2>5
  <1>3. CASE type # "locale"
    <2>1. UNCHANGED localizations
      BY <1>3 DEF ShareContent
    <2>2. PICK p \in DuplicatePointers(type, content) :
             aliasPointer' = aliasPointer \cup {<<p, u, alias>>}
      BY <1>3 DEF ShareContent
    <2>3. p \in DOMAIN jsAliases
      BY <1>3, <2>2 DEF DuplicatePointers, DataTypeOK
    <2>4. DataTypeOK'
      BY <1>1, <2>1, <2>2, <2>3 DEF DataTypeOK, Objects
    <2>5. AliasMeansOneThing'
      BY <1>1, <2>1, <2>2 DEF AliasMeansOneThing, PointersOf, isLocaleName, Objects
    <2>6. ContentLoggedOnce' /\ SentNamesAreTaken' /\ PrefixedNamesSentOnce'
      BY <1>1, <2>2 DEF ContentLoggedOnce, SentNamesAreTaken, PrefixedNamesSentOnce
    <2>7. LoggedContentIsSent'
      BY <1>1 DEF LoggedContentIsSent, IsSentBy, Objects, prefixAlias
    <2>8. QED
      BY <2>4, <2>5, <2>6, <2>7
  <1>4. QED
    BY <1>2, <1>3

(***************************************************************************)
(* Outcome "new content": a fresh pointer is logged and a fresh name sent. *)
(***************************************************************************)
LEMMA LogAndSendInv ==
    ASSUME DataInv, UNCHANGED classCount, NEW u \in Objects,
           NEW type \in DataType \cup {"locale"}, NEW alias \in Alias,
           NEW content \in ContentOf[type], NEW var \in VarType \cup {Null},
           LogAndSend(u, type, alias, content, var)
    PROVE  DataInv'
  <1>0. /\ DataTypeOK /\ AliasMeansOneThing /\ ContentLoggedOnce
        /\ SentNamesAreTaken /\ PrefixedNamesSentOnce /\ LoggedContentIsSent
    BY DEF DataInv
  <1> DEFINE name == IF type = "locale" THEN <<NoPrefix, alias>> ELSE prefixAlias(u, alias)
  <1>1. /\ pointerCount \in Nat /\ pointerCount' = pointerCount + 1
        /\ classCount' = classCount /\ Objects' = Objects
        /\ PointersOf(u, alias) = {} /\ ~isLocaleName(u, alias)
        /\ ~isContentDuplicated(type, content)
        /\ pointerCount \notin DOMAIN jsAliases
    BY <1>0 DEF LogAndSend, isAliasUsed, DataTypeOK, Objects
  <1>2. name \in Name /\ (type # "locale" => name[1] = u /\ name[2] = alias)
    BY <1>0, NameType DEF Name, prefixAlias
  <1>sent. \/ settings' = settings /\ type \in {"abbreviation", "unknown"}
        \/ \E k \in Key, v \in ValueOf[type] :
             /\ settings' = Merge(settings, k, v)
             /\ k.type = type
             /\ k.name = name
             /\ type \in AlwaysSent => k.var = Null
             /\ type \in JsonType => v = content
    <2>1. Send(u, type, alias, content, var)
      BY DEF LogAndSend
    <2>2. QED
      BY <2>1, SendEffect
  <1>3. CASE type = "locale"
    <2>1. /\ localizations' = Put(localizations, <<u, alias>>, content)
          /\ UNCHANGED <<aliasPointer, contentPointer, jsAliases>>
          /\ content \in Raw
      BY <1>3 DEF LogAndSend, ContentOf
    <2>2. PICK k \in Key, v \in ValueOf[type] :
             /\ settings' = Merge(settings, k, v)
             /\ k.type = type
             /\ k.name = name
      BY <1>3, <1>sent
    <2>3. k.name[1] = NoPrefix /\ k.type = "locale"
      BY <1>3, <2>2
    <2>4. /\ DOMAIN settings' = DOMAIN settings \cup {k}
          /\ settings'[k] \in Seq(ValueOf[k.type])
          /\ \A x \in DOMAIN settings : x # k => settings'[x] = settings[x]
      <3>1. settings'[k] = Append(IF k \in DOMAIN settings THEN settings[k] ELSE <<>>, v)
        BY <2>2 DEF Merge, Put
      <3>2. k \in DOMAIN settings => settings[k] \in Seq(ValueOf[k.type])
        BY <1>0 DEF DataTypeOK
      <3>3. settings'[k] \in Seq(ValueOf[k.type])
        <4> DEFINE S == ValueOf[k.type]
                   old == IF k \in DOMAIN settings THEN settings[k] ELSE <<>>
        <4>1. v \in S /\ <<>> \in Seq(S)
          BY <2>2
        <4>2. old \in Seq(S)
          BY <3>2, <4>1
        <4> HIDE DEF S, old
        <4>3. Append(old, v) \in Seq(S)
          BY <4>1, <4>2
        <4>4. QED
          BY <3>1, <4>3 DEF S, old
      <3>4. QED
        BY <2>2, <3>3 DEF Merge, Put
    <2>5. /\ DOMAIN localizations' = DOMAIN localizations \cup {<<u, alias>>}
          /\ \A x \in DOMAIN localizations' : localizations'[x] \in Raw
      BY <1>0, <2>1 DEF DataTypeOK, Put
    <2>6. DataTypeOK'
      <3>1. \A x \in DOMAIN settings' : x \in Key /\ settings'[x] \in Seq(ValueOf[x.type])
        BY <1>0, <2>2, <2>4 DEF DataTypeOK
      <3>2. pointerCount' \in Nat /\ DOMAIN jsAliases' \subseteq 0 .. pointerCount' - 1
        BY <1>0, <1>1, <2>1 DEF DataTypeOK
      <3>3. DOMAIN localizations' \subseteq Objects' \X Alias
        BY <1>0, <1>1, <2>5 DEF DataTypeOK
      <3>4. /\ classCount' \in Nat
            /\ aliasPointer' \subseteq (DOMAIN jsAliases') \X Objects' \X Alias
        BY <1>0, <1>1, <2>1 DEF DataTypeOK
      <3>5. QED
        BY <1>0, <2>1, <2>5, <3>1, <3>2, <3>3, <3>4 DEF DataTypeOK
    <2>7. AliasMeansOneThing'
      <3>1. \A o, a : PointersOf(o, a)' = PointersOf(o, a)
        BY <2>1 DEF PointersOf
      <3>2. QED
        BY <1>0, <1>1, <2>1, <2>5, <3>1 DEF AliasMeansOneThing, isLocaleName
    <2>8. ContentLoggedOnce' /\ SentNamesAreTaken' /\ PrefixedNamesSentOnce'
      BY <1>0, <2>1, <2>3, <2>4 DEF ContentLoggedOnce, SentNamesAreTaken, PrefixedNamesSentOnce
    <2>9. LoggedContentIsSent'
      <3>1. ASSUME NEW t \in AlwaysSent, NEW p \in DOMAIN contentPointer[t],
                   NEW o \in Objects, IsSentBy(o, t, p)
            PROVE  IsSentBy(o, t, p)'
        <4> DEFINE sent == [type |-> t, name |-> prefixAlias(o, jsAliases[p]), var |-> Null]
        <4>1. sent \in DOMAIN settings /\ sent # k
          BY <2>3, <3>1 DEF IsSentBy, AlwaysSent, JsonType
        <4>2. sent \in DOMAIN settings' /\ settings'[sent] = settings[sent]
          BY <2>4, <4>1
        <4>3. QED
          BY <2>1, <3>1, <4>2 DEF IsSentBy, prefixAlias
      <3>2. QED
        BY <1>0, <1>1, <2>1, <3>1 DEF LoggedContentIsSent
    <2>10. QED
      BY <2>6, <2>7, <2>8, <2>9 DEF DataInv
  <1>4. CASE type # "locale"
    <2>1. /\ aliasPointer' = aliasPointer \cup {<<pointerCount, u, alias>>}
          /\ contentPointer' =
                 [contentPointer EXCEPT ![type] = Put(@, pointerCount, content)]
          /\ jsAliases' = Put(jsAliases, pointerCount, alias)
          /\ UNCHANGED localizations
          /\ type \in DataType
      BY <1>4 DEF LogAndSend
    <2>2. /\ DOMAIN jsAliases' = DOMAIN jsAliases \cup {pointerCount}
          /\ jsAliases'[pointerCount] = alias
          /\ \A p \in DOMAIN jsAliases : jsAliases'[p] = jsAliases[p]
      BY <1>0, <1>1, <2>1 DEF Put
    <2>3. /\ DOMAIN contentPointer' = DataType
          /\ DOMAIN contentPointer'[type] = DOMAIN contentPointer[type] \cup {pointerCount}
          /\ contentPointer'[type][pointerCount] = content
          /\ \A p \in DOMAIN contentPointer[type] :
                p # pointerCount /\ contentPointer'[type][p] = contentPointer[type][p]
          /\ \A t \in DataType \ {type} : contentPointer'[t] = contentPointer[t]
      BY <1>0, <1>1, <2>1 DEF DataTypeOK, Put
    <2>4. PointersOf(u, alias)' = {pointerCount}
      BY <1>0, <1>1, <2>1, <2>2 DEF PointersOf, DataTypeOK
    <2>5. \A o \in Objects, a \in Alias : <<o, a>> # <<u, alias>> =>
             PointersOf(o, a)' = PointersOf(o, a)
      BY <1>0, <1>1, <2>1, <2>2 DEF PointersOf, DataTypeOK
    <2>6. AliasMeansOneThing'
      <3>1. SUFFICES ASSUME NEW o \in Objects, NEW a \in Alias
                     PROVE  /\ \A p, q \in PointersOf(o, a)' : p = q
                            /\ isLocaleName(o, a)' => PointersOf(o, a)' = {}
        BY <1>1 DEF AliasMeansOneThing
      <3>2. isLocaleName(o, a)' = isLocaleName(o, a)
        BY <2>1 DEF isLocaleName
      <3>3. CASE o = u /\ a = alias
        BY <1>1, <2>4, <3>2, <3>3
      <3>4. CASE <<o, a>> # <<u, alias>>
        <4>1. PointersOf(o, a)' = PointersOf(o, a)
          BY <2>5, <3>4
        <4>2. QED
          BY <1>0, <3>2, <4>1 DEF AliasMeansOneThing
      <3>5. QED
        BY <3>3, <3>4
    <2>7. ContentLoggedOnce'
      BY <1>0, <1>1, <1>4, <2>1, <2>3
         DEF ContentLoggedOnce, isContentDuplicated, DuplicatePointers
    \* The name is fresh: a name sent before is that of an alias already used.
    <2>8. \A k \in DOMAIN settings : k.name # name
      BY <1>0, <1>1, <1>2, <1>4, NameType DEF SentNamesAreTaken, PointersOf, prefixAlias
    <2>9. CASE settings' = settings /\ type \in {"abbreviation", "unknown"}
      <3>1. DataTypeOK'
        BY <1>0, <1>1, <2>1, <2>2, <2>3, <2>9 DEF DataTypeOK
      <3>2. SentNamesAreTaken' /\ PrefixedNamesSentOnce'
        BY <1>0, <2>1, <2>2, <2>9 DEF SentNamesAreTaken, PrefixedNamesSentOnce
      <3>3. LoggedContentIsSent'
        <4>1. \A t \in AlwaysSent : contentPointer'[t] = contentPointer[t]
          BY <2>3, <2>9 DEF AlwaysSent, JsonType, DataType
        <4>2. ASSUME NEW t \in AlwaysSent, NEW p \in DOMAIN contentPointer[t],
                     NEW o \in Objects, IsSentBy(o, t, p)
              PROVE  IsSentBy(o, t, p)'
          <5>1. p \in DOMAIN jsAliases
            BY <1>0 DEF DataTypeOK, AlwaysSent, JsonType, DataType
          <5>2. QED
            BY <2>2, <2>9, <4>1, <4>2, <5>1 DEF IsSentBy, prefixAlias
        <4>3. QED
          BY <1>0, <1>1, <4>1, <4>2 DEF LoggedContentIsSent
      <3>4. QED
        BY <2>6, <2>7, <3>1, <3>2, <3>3 DEF DataInv
    <2>10. ASSUME NEW v \in ValueOf[type], NEW k \in Key,
                  settings' = Merge(settings, k, v), k.type = type, k.name = name,
                  type \in AlwaysSent => k.var = Null,
                  type \in JsonType => v = content
           PROVE  DataInv'
      <3>1. k \notin DOMAIN settings
        BY <2>8, <2>10
      <3>2. /\ DOMAIN settings' = DOMAIN settings \cup {k}
            /\ settings'[k] = <<v>>
            /\ \A x \in DOMAIN settings : settings'[x] = settings[x]
        <4>1. Append(<<>>, v) = <<v>>
          OBVIOUS
        <4>2. QED
          BY <2>10, <3>1, <4>1 DEF Merge, Put
      <3>3. DataTypeOK'
        <4>1. settings'[k] \in Seq(ValueOf[k.type])
          BY <2>10, <3>2
        <4>2. \A x \in DOMAIN settings' : x \in Key /\ settings'[x] \in Seq(ValueOf[x.type])
          BY <1>0, <3>2, <4>1 DEF DataTypeOK
        <4>3. \A t \in DataType : \A p \in DOMAIN contentPointer'[t] :
                 p \in DOMAIN jsAliases' /\ contentPointer'[t][p] \in ContentOf[t]
          BY <1>0, <2>1, <2>2, <2>3 DEF DataTypeOK
        <4>4. QED
          BY <1>0, <1>1, <2>1, <2>2, <2>3, <4>2, <4>3 DEF DataTypeOK
      <3>4. SentNamesAreTaken'
        BY <1>0, <1>2, <1>4, <2>1, <2>2, <2>10, <3>2 DEF SentNamesAreTaken
      <3>5. PrefixedNamesSentOnce'
        <4>1. Len(settings'[k]) = 1
          BY <3>2
        <4>2. \A x \in DOMAIN settings : settings'[x] = settings[x] /\ x.name # k.name
          BY <2>8, <2>10, <3>2
        <4>3. QED
          BY <1>0, <3>2, <4>1, <4>2 DEF PrefixedNamesSentOnce
      <3>n. PICK n \in Nat : n = pointerCount
        BY <1>1
      <3>6. ASSUME type \in AlwaysSent PROVE IsSentBy(u, type, n)'
        <4>1. k = [type |-> type, name |-> prefixAlias(u, alias), var |-> Null]
          <5>1. k = [type |-> k.type, name |-> k.name, var |-> k.var]
            BY DEF Key
          <5>2. QED
            BY <1>4, <2>10, <3>6, <5>1
        <4>2. type # "bibliography_list" => v = content
          BY <2>10, <3>6 DEF AlwaysSent
        <4>3. QED
          BY <2>2, <2>3, <3>2, <3>n, <4>1, <4>2 DEF IsSentBy, prefixAlias
      <3>7. ASSUME NEW t \in AlwaysSent, NEW p \in DOMAIN contentPointer[t],
                   NEW o \in Objects, IsSentBy(o, t, p)
            PROVE  IsSentBy(o, t, p)' /\ p # pointerCount
        BY <1>0, <1>1, <2>2, <2>3, <3>2, <3>7
           DEF IsSentBy, prefixAlias, DataTypeOK, AlwaysSent, JsonType, DataType
      <3>8. LoggedContentIsSent'
        <4>1. SUFFICES ASSUME NEW t \in AlwaysSent, NEW p \in DOMAIN contentPointer'[t]
                       PROVE  \E o \in Objects : IsSentBy(o, t, p)'
          BY <1>1 DEF LoggedContentIsSent
        <4>2. CASE t = type /\ p = n
          BY <3>6, <4>2
        <4>3. CASE ~(t = type /\ p = n)
          <5>1. p \in DOMAIN contentPointer[t]
            BY <2>3, <3>n, <4>3 DEF AlwaysSent, JsonType, DataType
          <5>2. QED
            BY <1>0, <3>7, <5>1 DEF LoggedContentIsSent
        <4>4. QED
          BY <4>2, <4>3
      <3>9. QED
        BY <2>6, <2>7, <3>3, <3>4, <3>5, <3>8 DEF DataInv
    <2>11. QED
      BY <1>sent, <2>9, <2>10
  <1>5. QED
    BY <1>3, <1>4

\* Creating an object adds one uid.
LEMMA ObjectsGrow ==
    ASSUME classCount \in Nat, classCount' \in {classCount, classCount + 1}
    PROVE  Objects \subseteq Objects' /\ classCount' \in Nat
  <1>1. CASE classCount' = classCount
    BY <1>1 DEF Objects
  <1>2. CASE classCount' = classCount + 1
    BY <1>2 DEF Objects
  <1>3. QED
    BY <1>1, <1>2

\* A step that adds no data keeps the invariant, one that creates an object too.
LEMMA NoDataInv ==
    ASSUME DataInv, UNCHANGED dataVars, classCount' \in {classCount, classCount + 1}
    PROVE  DataInv'
  <1> USE DEF DataInv, dataVars
  <1>1. Objects \subseteq Objects' /\ classCount' \in Nat
    BY ObjectsGrow DEF DataTypeOK
  <1>2. DataTypeOK'
    BY <1>1 DEF DataTypeOK
  <1>3. AliasMeansOneThing'
    <2>1. \A u \in Objects' \ Objects, a \in Alias :
             PointersOf(u, a) = {} /\ ~isLocaleName(u, a)
      BY DEF DataTypeOK, PointersOf, isLocaleName
    <2>2. \A u \in Objects', a \in Alias :
             PointersOf(u, a)' = PointersOf(u, a) /\ isLocaleName(u, a)' = isLocaleName(u, a)
      BY DEF PointersOf, isLocaleName
    <2>3. QED
      BY <2>1, <2>2 DEF AliasMeansOneThing
  <1>4. ContentLoggedOnce' /\ SentNamesAreTaken' /\ PrefixedNamesSentOnce'
    BY DEF ContentLoggedOnce, SentNamesAreTaken, PrefixedNamesSentOnce
  <1>5. LoggedContentIsSent'
    BY <1>1 DEF LoggedContentIsSent, IsSentBy, prefixAlias
  <1>6. QED
    BY <1>2, <1>3, <1>4, <1>5

LEMMA AddDataInv ==
    ASSUME DataInv, UNCHANGED classCount, NEW u \in Objects,
           NEW type \in DataType \cup {"locale"}, NEW alias \in Alias,
           NEW content \in ContentOf[type], NEW var \in VarType \cup {Null},
           addData(u, type, alias, content, var)
    PROVE  DataInv'
  BY ShareContentInv, LogAndSendInv, NoDataInv DEF addData, RefuseAlias

\* What each kind of call passes to addData has the shape addData expects.
LEMMA ContentShapes ==
    /\ \A t \in (DataType \ {"bibliography_list"}) \cup {"locale"} : Raw \subseteq ContentOf[t]
    /\ ContentOf["bibliography_list"] = Seq(Alias)
    /\ Metadata \subseteq ContentOf["metadata"]
    /\ CitationObject \subseteq ContentOf["citation"]
  BY DEF ContentOf, DataType, JsonType

LEMMA AddMetaDataInv ==
    ASSUME DataInv, UNCHANGED classCount, NEW u \in Objects, NEW alias \in Alias,
           NEW mods \in Mods, addMetaDataFromMODS(u, alias, mods)
    PROVE  DataInv'
  <1>1. [id |-> prefixAlias(u, alias), mods |-> mods] \in ContentOf["metadata"]
    <2>1. prefixAlias(u, alias) \in Name
      BY NameType DEF DataInv
    <2>2. QED
      BY <2>1, ContentShapes DEF Metadata
  <1>2. QED
    BY <1>1, AddDataInv DEF addMetaDataFromMODS, DataType, JsonType

LEMMA LoadCitationInv ==
    ASSUME DataInv, UNCHANGED classCount, NEW u \in Objects,
           NEW metaAlias \in Alias, NEW alias \in Alias,
           loadBasicCitationObject(u, metaAlias, alias)
    PROVE  DataInv'
  <1>1. CASE UNCHANGED dataVars
    BY <1>1, NoDataInv
  <1>2. CASE addData(u, "citation", alias,
                     createBasicCitationObject(u, getJSAlias(u, metaAlias)), Null)
    <2>1. getJSAlias(u, metaAlias) \in Alias \cup {NotFound}
      BY JSAliasType DEF DataInv
    <2>2. createBasicCitationObject(u, getJSAlias(u, metaAlias)) \in ContentOf["citation"]
      BY <2>1, NameType, ContentShapes DEF DataInv, createBasicCitationObject, CitationObject
    <2>3. QED
      BY <1>2, <2>2, AddDataInv DEF DataType, JsonType
  <1>3. QED
    BY <1>1, <1>2 DEF loadBasicCitationObject

-----------------------------------------------------------------------------
(* Next *)

LEMMA InitInv == Init => IInv
  <1> SUFFICES ASSUME Init PROVE IInv
    OBVIOUS
  <1> USE DEF Init, EmptyArray
  <1>1. TypeOK
    BY DEF TypeOK, DataTypeOK, Objects
  <1>2. DataInv
    BY <1>1 DEF DataInv, TypeOK, AliasMeansOneThing, PointersOf, isLocaleName,
       ContentLoggedOnce, SentNamesAreTaken, PrefixedNamesSentOnce,
       LoggedContentIsSent, DataType, AlwaysSent, JsonType
  <1>3. QED
    BY <1>1, <1>2 DEF IInv, JobInv

\* Every step keeps the part of the invariant that is about data.
LEMMA NextDataInv ==
    ASSUME IInv, [Next]_vars
    PROVE  DataInv'
  <1>1. DataInv /\ TypeOK
    BY DEF IInv
  <1>2. Null \in VarType \cup {Null} /\ \A n \in DOMAIN AutoAlias : AutoAlias[n] \in Alias
    BY AliasAssumption
  <1>3. CASE Construct
    BY <1>1, <1>3, NoDataInv DEF Construct
  <1>4. CASE LoadCiteprocJavascript
    BY <1>1, <1>4, NoDataInv DEF LoadCiteprocJavascript
  <1>5. ASSUME NEW u \in Objects, AddString(u)
        PROVE  DataInv'
    <2>1. PICK type \in CallerTypes \ {"bibliography_list", "abbreviation"},
               alias \in CallerAliases, content \in Raw :
             addData(u, type, alias, content, Null)
      BY <1>5 DEF AddString
    <2>2. type \in DataType \cup {"locale"} /\ alias \in Alias /\ content \in ContentOf[type]
      BY <2>1, BoundAssumption, ContentShapes
    <2>3. QED
      BY <1>1, <1>2, <1>5, <2>1, <2>2, AddDataInv DEF AddString, PublicCall
  <1>6. ASSUME NEW u \in Objects, AddAbbreviation(u)
        PROVE  DataInv'
    <2>1. PICK alias \in CallerAliases, content \in Raw, var \in VarType \cup {Null} :
             addData(u, "abbreviation", alias, content, var)
      BY <1>6 DEF AddAbbreviation
    <2>2. "abbreviation" \in DataType /\ alias \in Alias /\ content \in ContentOf["abbreviation"]
      BY <2>1, BoundAssumption, ContentShapes DEF DataType
    <2>3. QED
      BY <1>1, <1>6, <2>1, <2>2, AddDataInv DEF AddAbbreviation, PublicCall
  <1>7. ASSUME NEW u \in Objects, AddBibliographyList(u)
        PROVE  DataInv'
    <2>1. PICK alias \in CallerAliases, list \in AliasLists :
             addData(u, "bibliography_list", alias, list, Null)
      BY <1>7 DEF AddBibliographyList
    <2>2. /\ "bibliography_list" \in DataType /\ alias \in Alias
          /\ list \in ContentOf["bibliography_list"]
      BY <2>1, BoundAssumption, ContentAssumption, ContentShapes DEF DataType
    <2>3. QED
      BY <1>1, <1>2, <1>7, <2>1, <2>2, AddDataInv DEF AddBibliographyList, PublicCall
  <1>8. ASSUME NEW u \in Objects, AddMetaData(u)
        PROVE  DataInv'
    BY <1>1, <1>8, AddMetaDataInv, BoundAssumption DEF AddMetaData, PublicCall
  <1>9. ASSUME NEW u \in Objects, LoadBasicCitationObject(u)
        PROVE  DataInv'
    BY <1>1, <1>9, LoadCitationInv, BoundAssumption DEF LoadBasicCitationObject, PublicCall
  <1>10. ASSUME NEW u \in Objects, AddENUS(u)
         PROVE  DataInv'
    <2>1. EnglishTerms \in ContentOf["locale"] /\ ENUS \in Alias
      BY AliasAssumption, ContentAssumption, ContentShapes
    <2>2. QED
      BY <1>1, <1>2, <1>10, <2>1, AddDataInv DEF AddENUS, PublicCall
  <1>11. ASSUME NEW u \in Objects, GetCitationHTML(u)
         PROVE  DataInv'
    BY <1>1, <1>11, NoDataInv DEF GetCitationHTML
  <1>12. ASSUME NEW u \in Objects, StartFromPIDAndCSL(u)
         PROVE  DataInv'
    <2>1. PICK n \in DOMAIN AutoAlias, csl \in Raw : addData(u, "csl", AutoAlias[n], csl, Null)
      BY <1>12 DEF StartFromPIDAndCSL
    <2>2. csl \in ContentOf["csl"] /\ "csl" \in DataType
      BY ContentShapes DEF DataType, JsonType
    <2>3. QED
      BY <1>1, <1>2, <1>12, <2>1, <2>2, AddDataInv DEF StartFromPIDAndCSL
  <1>13. CASE AddNextPID
    <2>1. PICK n \in DOMAIN AutoAlias :
             \/ UNCHANGED dataVars
             \/ /\ ModsOf[Head(job.pids)] # NotFound
                /\ addMetaDataFromMODS(job.uid, AutoAlias[n], ModsOf[Head(job.pids)])
      BY <1>13 DEF AddNextPID
    <2>2. job.uid \in Objects /\ UNCHANGED classCount
      BY <1>1, <1>13 DEF AddNextPID, TypeOK
    <2>3. ModsOf[Head(job.pids)] \in Mods \cup {NotFound}
      <3>1. job.pids \in Seq(Pid) /\ job.pids # <<>>
        BY <1>1, <1>13 DEF AddNextPID, TypeOK, JobStep
      <3>2. Head(job.pids) \in Pid
        BY <3>1
      <3>3. QED
        BY <3>2, ContentAssumption
    <2>4. QED
      BY <1>1, <1>2, <2>1, <2>2, <2>3, AddMetaDataInv, NoDataInv
  <1>14. CASE AddAutoObject
    <2>1. /\ job # Idle /\ job \in JobStep /\ job.uid \in Objects
          /\ job.pids = <<>> /\ UNCHANGED classCount
      BY <1>1, <1>14 DEF AddAutoObject, TypeOK
    <2>2. job.list \in Seq(Alias) /\ job.list # <<>> /\ job.object \in Alias
      BY <2>1 DEF IInv, JobInv, JobStep
    <2>3. CASE loadBasicCitationObject(job.uid, Head(job.list), job.object)
      <3>1. Head(job.list) \in Alias
        BY <2>2
      <3>2. QED
        BY <1>1, <2>1, <2>2, <2>3, <3>1, LoadCitationInv
    <2>4. ASSUME NEW n \in DOMAIN AutoAlias,
                 addData(job.uid, "bibliography_list", AutoAlias[n], job.list, Null)
          PROVE  DataInv'
      <3>1. job.list \in ContentOf["bibliography_list"] /\ "bibliography_list" \in DataType
        BY <2>2, ContentShapes DEF DataType
      <3>2. QED
        BY <1>1, <1>2, <2>1, <2>4, <3>1, AddDataInv
    <2>5. QED
      BY <1>14, <2>3, <2>4 DEF AddAutoObject
  <1>15. CASE ReturnAutoSpan
    BY <1>1, <1>15, NoDataInv DEF ReturnAutoSpan
  <1>16. CASE UNCHANGED vars
    BY <1>1, <1>16, NoDataInv DEF vars
  <1>17. QED
    BY <1>3, <1>4, <1>5, <1>6, <1>7, <1>8, <1>9, <1>10, <1>11, <1>12, <1>13,
       <1>14, <1>15, <1>16 DEF Next

\* Every step keeps the part of the invariant that is about counters and calls.
LEMMA NextControlInv ==
    ASSUME IInv, [Next]_vars
    PROVE  TypeOK' /\ JobInv'
  <1>1. TypeOK /\ JobInv /\ DataTypeOK'
    BY NextDataInv DEF IInv, DataInv
  <1>2. DOMAIN AutoAlias \subseteq Nat /\ \A n \in DOMAIN AutoAlias : AutoAlias[n] \in Alias
    BY AliasAssumption
  <1>3. /\ classCount' \in {classCount, classCount + 1}
        /\ Objects \subseteq Objects'
    <2>1. classCount' \in {classCount, classCount + 1}
      BY DEF Next, vars, Construct, LoadCiteprocJavascript, AddString, AddAbbreviation,
         AddBibliographyList, AddMetaData, LoadBasicCitationObject, AddENUS,
         PublicCall, GetCitationHTML, StartFromPIDAndCSL, AddNextPID, AddAutoObject,
         ReturnAutoSpan
    <2>2. QED
      BY <1>1, <2>1, ObjectsGrow DEF TypeOK, DataTypeOK
  <1>4. SUFFICES /\ autoAliasCount' \in Nat
                 /\ processorEnabled' \in BOOLEAN
                 /\ job' = Idle \/ (job' \in JobStep /\ job'.uid \in Objects)
                 /\ JobInv'
    BY <1>1, <1>3 DEF TypeOK
  <1>5. ASSUME UNCHANGED <<autoAliasCount, job>>, processorEnabled' \in BOOLEAN
        PROVE  /\ autoAliasCount' \in Nat
               /\ job' = Idle \/ (job' \in JobStep /\ job'.uid \in Objects)
               /\ JobInv'
    BY <1>1, <1>5 DEF TypeOK, JobInv
  <1>6. CASE Construct \/ LoadCiteprocJavascript \/ UNCHANGED vars
    BY <1>1, <1>5, <1>6 DEF Construct, LoadCiteprocJavascript, vars, TypeOK
  <1>7. ASSUME NEW u \in Objects,
               \/ AddString(u) \/ AddAbbreviation(u) \/ AddBibliographyList(u)
               \/ AddMetaData(u) \/ LoadBasicCitationObject(u) \/ AddENUS(u)
               \/ GetCitationHTML(u)
        PROVE  /\ UNCHANGED <<autoAliasCount, job>>
               /\ processorEnabled' \in BOOLEAN
    BY <1>1, <1>7 DEF AddString, AddAbbreviation, AddBibliographyList, AddMetaData,
       LoadBasicCitationObject, AddENUS, GetCitationHTML, PublicCall, TypeOK
  <1>8. ASSUME NEW u \in Objects, StartFromPIDAndCSL(u)
        PROVE  /\ autoAliasCount' \in Nat
               /\ processorEnabled' \in BOOLEAN
               /\ job' = Idle \/ (job' \in JobStep /\ job'.uid \in Objects)
               /\ JobInv'
    <2>1. PICK n \in DOMAIN AutoAlias, pids \in PidLists :
             /\ autoAliasCount' = n + 1
             /\ job' = IF pids = <<>> THEN Idle
                       ELSE [stage |-> "pids", uid |-> u, csl |-> AutoAlias[n],
                             single |-> Len(pids) = 1, pids |-> pids,
                             list |-> <<>>, object |-> Null]
             /\ UNCHANGED processorEnabled
      BY <1>8 DEF StartFromPIDAndCSL
    <2>2. pids \in Seq(Pid) /\ u \in Nat /\ <<>> \in Seq(Alias)
      BY ContentAssumption DEF Objects
    <2>3. QED
      BY <1>1, <1>2, <2>1, <2>2 DEF TypeOK, JobStep, JobInv
  <1>9. CASE AddNextPID
    <2>1. /\ job \in JobStep /\ job.uid \in Objects /\ job.pids # <<>>
          /\ UNCHANGED processorEnabled
      BY <1>1, <1>9 DEF AddNextPID, TypeOK
    <2>2. PICK n, m \in DOMAIN AutoAlias :
             /\ autoAliasCount' = m + 1
             /\ \/ job' = Idle
                \/ job' = [job EXCEPT !.pids = Tail(@),
                                      !.list = Append(@, AutoAlias[n]),
                                      !.object = AutoAlias[m]]
      BY <1>9 DEF AddNextPID
    <2>3. Tail(job.pids) \in Seq(Pid)
      BY <2>1 DEF JobStep
    <2>4. Append(job.list, AutoAlias[n]) \in Seq(Alias) /\ Append(job.list, AutoAlias[n]) # <<>>
      BY <1>2, <2>1 DEF JobStep
    <2>5. CASE job' = Idle
      BY <1>1, <1>2, <2>1, <2>2, <2>5 DEF TypeOK, JobInv
    <2>6. CASE job' = [job EXCEPT !.pids = Tail(@),
                                  !.list = Append(@, AutoAlias[n]),
                                  !.object = AutoAlias[m]]
      <3>1. job' \in JobStep /\ job'.uid = job.uid
        BY <1>2, <2>1, <2>3, <2>4, <2>6 DEF JobStep
      <3>2. job'.list # <<>> /\ job'.object \in Alias
        BY <1>2, <2>1, <2>4, <2>6 DEF JobStep
      <3>3. QED
        BY <1>1, <1>2, <2>1, <2>2, <3>1, <3>2 DEF TypeOK, JobInv
    <2>7. QED
      BY <2>2, <2>5, <2>6
  <1>10. CASE AddAutoObject
    <2>1. job # Idle /\ job \in JobStep /\ job.uid \in Objects /\ UNCHANGED processorEnabled
      BY <1>1, <1>10 DEF AddAutoObject, TypeOK
    <2>2. \/ job' = [job EXCEPT !.stage = "span"] /\ UNCHANGED autoAliasCount
          \/ \E n \in DOMAIN AutoAlias :
               /\ job' = [job EXCEPT !.stage = "span", !.object = AutoAlias[n]]
               /\ autoAliasCount' = n + 1
      BY <1>10 DEF AddAutoObject
    <2>3. /\ job' \in JobStep
          /\ job'.uid = job.uid /\ job'.pids = job.pids /\ job'.list = job.list
          /\ job'.object = job.object \/ job'.object \in Alias
      BY <1>2, <2>1, <2>2 DEF JobStep
    <2>4. autoAliasCount' \in Nat
      <3>1. autoAliasCount \in Nat
        BY <1>1 DEF TypeOK
      <3>2. \A n \in DOMAIN AutoAlias : n + 1 \in Nat
        BY <1>2
      <3>3. autoAliasCount' = autoAliasCount \/ \E n \in DOMAIN AutoAlias : autoAliasCount' = n + 1
        BY <2>2
      <3>4. QED
        BY <3>1, <3>2, <3>3
    <2>5. QED
      BY <1>1, <2>1, <2>3, <2>4 DEF TypeOK, JobInv
  <1>11. CASE ReturnAutoSpan
    BY <1>1, <1>11 DEF ReturnAutoSpan, TypeOK, JobInv
  <1>12. QED
    BY <1>5, <1>6, <1>7, <1>8, <1>9, <1>10, <1>11 DEF Next

-----------------------------------------------------------------------------
(* The theorems. *)

LEMMA InvariantHolds == Spec => []IInv
  <1>1. IInv /\ [Next]_vars => IInv'
    BY NextDataInv, NextControlInv DEF IInv
  <1>2. QED
    BY InitInv, <1>1, PTL DEF Spec

\* Every pointer, uid and name in use was handed out, for any number of objects.
THEOREM TypeCorrect == Spec => []TypeOK
  <1>1. IInv => TypeOK
    BY DEF IInv
  <1>2. QED
    BY <1>1, InvariantHolds, PTL

\* An alias of an object never has two meanings.
THEOREM AliasSafety == Spec => []AliasMeansOneThing
  <1>1. IInv => AliasMeansOneThing
    BY DEF IInv, DataInv
  <1>2. QED
    BY <1>1, InvariantHolds, PTL

\* No content is logged twice under a type.
THEOREM ContentSafety == Spec => []ContentLoggedOnce
  <1>1. IInv => ContentLoggedOnce
    BY DEF IInv, DataInv
  <1>2. QED
    BY <1>1, InvariantHolds, PTL

\* No prefixed name is sent to the browser twice.
THEOREM NameSafety == Spec => []PrefixedNamesSentOnce
  <1>1. IInv => PrefixedNamesSentOnce
    BY DEF IInv, DataInv
  <1>2. QED
    BY <1>1, InvariantHolds, PTL

\* Content that counts as a duplicate is in the browser.
THEOREM SentSafety == Spec => []LoggedContentIsSent
  <1>1. IInv => LoggedContentIsSent
    BY DEF IInv, DataInv
  <1>2. QED
    BY <1>1, InvariantHolds, PTL

-----------------------------------------------------------------------------
(***************************************************************************)
(* Proofs about the names CitationAPI writes into spans: once an alias has *)
(* a JavaScript name it keeps it, and on a page with one API object every  *)
(* name leads to the content its alias was given.                          *)
(*                                                                         *)
(* A step adds data by one addData or leaves the arrays alone; what it     *)
(* adds as metadata and citations carries the prefix of its own object.    *)
(***************************************************************************)

\* Strings apart, metadata has the name it is sent under as its id, and a
\* generated citation names an item of the object that made it.
ContentNamesItself(u, type, alias, content) ==
    /\ type = "metadata" => content \in Raw \/ content.id = <<u, alias>>
    /\ type = "citation" => content \in Raw \/ content.item[1] = u

\* What a step does to the class's arrays.
AddsData ==
    \E u \in Objects, type \in DataType \cup {"locale"}, alias \in Alias :
        \E content \in ContentOf[type], var \in VarType \cup {Null} :
            /\ addData(u, type, alias, content, var)
            /\ ContentNamesItself(u, type, alias, content)

LEMMA AddStringShape ==
    ASSUME NEW u \in Objects, NEW type \in (DataType \cup {"locale"}) \ {"bibliography_list"},
           NEW alias \in Alias, NEW content \in Raw, NEW var \in VarType \cup {Null},
           addData(u, type, alias, content, var)
    PROVE  AddsData
  <1>1. content \in ContentOf[type]
    BY ContentShapes
  <1>2. QED
    BY <1>1 DEF AddsData, ContentNamesItself

LEMMA AddListShape ==
    ASSUME NEW u \in Objects, NEW alias \in Alias, NEW list \in Seq(Alias),
           addData(u, "bibliography_list", alias, list, Null)
    PROVE  AddsData
  <1>1. list \in ContentOf["bibliography_list"] /\ "bibliography_list" \in DataType
    BY ContentShapes DEF DataType
  <1>2. QED
    BY <1>1 DEF AddsData, ContentNamesItself

LEMMA AddMetaDataShape ==
    ASSUME DataInv, NEW u \in Objects, NEW alias \in Alias, NEW mods \in Mods,
           addMetaDataFromMODS(u, alias, mods)
    PROVE  AddsData
  <1> DEFINE content == [id |-> prefixAlias(u, alias), mods |-> mods]
  <1>1. content \in ContentOf["metadata"] /\ "metadata" \in DataType
    BY NameType, ContentShapes DEF DataInv, Metadata, DataType, JsonType
  <1>2. ContentNamesItself(u, "metadata", alias, content)
    BY DEF ContentNamesItself, prefixAlias
  <1>3. addData(u, "metadata", alias, content, Null)
    BY DEF addMetaDataFromMODS
  <1> HIDE DEF content
  <1>4. QED
    BY <1>1, <1>2, <1>3 DEF AddsData

LEMMA AddCitationShape ==
    ASSUME DataInv, NEW u \in Objects, NEW metaAlias \in Alias, NEW alias \in Alias,
           loadBasicCitationObject(u, metaAlias, alias)
    PROVE  UNCHANGED dataVars \/ AddsData
  <1> DEFINE content == createBasicCitationObject(u, getJSAlias(u, metaAlias))
  <1>1. getJSAlias(u, metaAlias) \in Alias \cup {NotFound}
    BY JSAliasType DEF DataInv
  <1>2. content \in ContentOf["citation"] /\ "citation" \in DataType
    BY <1>1, NameType, ContentShapes
       DEF DataInv, createBasicCitationObject, CitationObject, DataType, JsonType
  <1>3. ContentNamesItself(u, "citation", alias, content)
    BY DEF ContentNamesItself, createBasicCitationObject, prefixAlias
  <1>4. UNCHANGED dataVars \/ addData(u, "citation", alias, content, Null)
    BY DEF loadBasicCitationObject
  <1> HIDE DEF content
  <1>5. QED
    BY <1>2, <1>3, <1>4 DEF AddsData

\* Every step is one addData, by an object of the page, or none.
LEMMA StepAddsData ==
    ASSUME IInv, [Next]_vars
    PROVE  UNCHANGED dataVars \/ (AddsData /\ UNCHANGED classCount)
  <1>1. DataInv /\ TypeOK
    BY DEF IInv
  <1>2. Null \in VarType \cup {Null} /\ \A n \in DOMAIN AutoAlias : AutoAlias[n] \in Alias
    BY AliasAssumption
  <1>3. CASE Construct \/ LoadCiteprocJavascript \/ ReturnAutoSpan \/ UNCHANGED vars
    BY <1>3 DEF Construct, LoadCiteprocJavascript, ReturnAutoSpan, vars
  <1>4. ASSUME NEW u \in Objects, GetCitationHTML(u)
        PROVE  UNCHANGED dataVars
    BY <1>4 DEF GetCitationHTML
  <1>5. ASSUME NEW u \in Objects, AddString(u) \/ AddAbbreviation(u) \/ AddENUS(u)
        PROVE  AddsData /\ UNCHANGED classCount
    <2>1. CASE AddString(u)
      <3>1. PICK type \in CallerTypes \ {"bibliography_list", "abbreviation"},
                 alias \in CallerAliases, content \in Raw :
               addData(u, type, alias, content, Null)
        BY <2>1 DEF AddString
      <3>2. type \in (DataType \cup {"locale"}) \ {"bibliography_list"} /\ alias \in Alias
        BY <3>1, BoundAssumption
      <3>3. QED
        BY <1>2, <2>1, <3>1, <3>2, AddStringShape DEF AddString, PublicCall
    <2>2. CASE AddAbbreviation(u)
      <3>1. PICK alias \in CallerAliases, content \in Raw, var \in VarType \cup {Null} :
               addData(u, "abbreviation", alias, content, var)
        BY <2>2 DEF AddAbbreviation
      <3>2. "abbreviation" \in (DataType \cup {"locale"}) \ {"bibliography_list"} /\ alias \in Alias
        BY <3>1, BoundAssumption DEF DataType
      <3>3. QED
        BY <2>2, <3>1, <3>2, AddStringShape DEF AddAbbreviation, PublicCall
    <2>3. CASE AddENUS(u)
      <3>1. EnglishTerms \in Raw /\ ENUS \in Alias
        BY AliasAssumption, ContentAssumption
      <3>2. QED
        BY <1>2, <2>3, <3>1, AddStringShape DEF AddENUS, PublicCall
    <2>4. QED
      BY <1>5, <2>1, <2>2, <2>3
  <1>6. ASSUME NEW u \in Objects, AddBibliographyList(u)
        PROVE  AddsData /\ UNCHANGED classCount
    BY <1>6, AddListShape, BoundAssumption, ContentAssumption
       DEF AddBibliographyList, PublicCall
  <1>7. ASSUME NEW u \in Objects, AddMetaData(u)
        PROVE  AddsData /\ UNCHANGED classCount
    BY <1>1, <1>7, AddMetaDataShape, BoundAssumption DEF AddMetaData, PublicCall
  <1>8. ASSUME NEW u \in Objects, LoadBasicCitationObject(u)
        PROVE  UNCHANGED dataVars \/ (AddsData /\ UNCHANGED classCount)
    BY <1>1, <1>8, AddCitationShape, BoundAssumption
       DEF LoadBasicCitationObject, PublicCall
  <1>9. ASSUME NEW u \in Objects, StartFromPIDAndCSL(u)
        PROVE  AddsData /\ UNCHANGED classCount
    <2>1. PICK n \in DOMAIN AutoAlias, csl \in Raw : addData(u, "csl", AutoAlias[n], csl, Null)
      BY <1>9 DEF StartFromPIDAndCSL
    <2>2. "csl" \in (DataType \cup {"locale"}) \ {"bibliography_list"}
      BY DEF DataType, JsonType
    <2>3. QED
      BY <1>2, <1>9, <2>1, <2>2, AddStringShape DEF StartFromPIDAndCSL
  <1>10. CASE AddNextPID
    <2>1. PICK n \in DOMAIN AutoAlias :
             \/ UNCHANGED dataVars
             \/ /\ ModsOf[Head(job.pids)] # NotFound
                /\ addMetaDataFromMODS(job.uid, AutoAlias[n], ModsOf[Head(job.pids)])
      BY <1>10 DEF AddNextPID
    <2>2. job.uid \in Objects /\ UNCHANGED classCount
      BY <1>1, <1>10 DEF AddNextPID, TypeOK
    <2>3. ModsOf[Head(job.pids)] \in Mods \cup {NotFound}
      <3>1. job.pids \in Seq(Pid) /\ job.pids # <<>>
        BY <1>1, <1>10 DEF AddNextPID, TypeOK, JobStep
      <3>2. QED
        BY <3>1, ContentAssumption
    <2>4. QED
      BY <1>1, <1>2, <2>1, <2>2, <2>3, AddMetaDataShape
  <1>11. CASE AddAutoObject
    <2>1. /\ job \in JobStep /\ job.uid \in Objects /\ UNCHANGED classCount
          /\ job.list \in Seq(Alias) /\ job.list # <<>> /\ job.object \in Alias
      BY <1>1, <1>11 DEF AddAutoObject, TypeOK, IInv, JobInv, JobStep
    <2>2. CASE loadBasicCitationObject(job.uid, Head(job.list), job.object)
      BY <1>1, <2>1, <2>2, AddCitationShape
    <2>3. ASSUME NEW n \in DOMAIN AutoAlias,
                 addData(job.uid, "bibliography_list", AutoAlias[n], job.list, Null)
          PROVE  AddsData
      BY <1>2, <2>1, <2>3, AddListShape
    <2>4. QED
      BY <1>11, <2>1, <2>2, <2>3 DEF AddAutoObject
  <1>12. QED
    BY <1>3, <1>4, <1>5, <1>6, <1>7, <1>8, <1>9, <1>10, <1>11 DEF Next

-----------------------------------------------------------------------------
(* Names are stable. *)

\* The class's arrays only grow, and no entry changes.
ArraysGrow ==
    /\ aliasPointer \subseteq aliasPointer'
    /\ DOMAIN jsAliases \subseteq DOMAIN jsAliases'
    /\ \A p \in DOMAIN jsAliases : jsAliases'[p] = jsAliases[p]
    /\ DOMAIN localizations \subseteq DOMAIN localizations'
    /\ \A t \in DataType :
          /\ DOMAIN contentPointer[t] \subseteq DOMAIN contentPointer'[t]
          /\ \A p \in DOMAIN contentPointer[t] : contentPointer'[t][p] = contentPointer[t][p]

\* An entry that addData makes has a key that was not in use.
LEMMA AddDataGrows ==
    ASSUME DataInv, NEW u, NEW type, NEW alias, NEW content, NEW var,
           addData(u, type, alias, content, var)
    PROVE  ArraysGrow
  <1>1. /\ pointerCount \notin DOMAIN jsAliases
        /\ DOMAIN contentPointer = DataType
        /\ \A t \in DataType : pointerCount \notin DOMAIN contentPointer[t]
    BY DEF DataInv, DataTypeOK
  <1>2. CASE UNCHANGED dataVars
    BY <1>2 DEF dataVars, ArraysGrow
  <1>3. CASE ShareContent(u, type, alias, content)
    BY <1>3 DEF ShareContent, ArraysGrow, Put
  <1>4. CASE LogAndSend(u, type, alias, content, var)
    <2>1. CASE type = "locale"
      BY <1>4, <2>1 DEF LogAndSend, ArraysGrow, Put
    <2>2. CASE type # "locale"
      <3>1. /\ aliasPointer' = aliasPointer \cup {<<pointerCount, u, alias>>}
            /\ contentPointer' = [contentPointer EXCEPT ![type] = Put(@, pointerCount, content)]
            /\ jsAliases' = Put(jsAliases, pointerCount, alias)
            /\ UNCHANGED localizations
        BY <1>4, <2>2 DEF LogAndSend
      <3>2. \A t \in DataType :
               /\ DOMAIN contentPointer[t] \subseteq DOMAIN contentPointer'[t]
               /\ \A p \in DOMAIN contentPointer[t] :
                     contentPointer'[t][p] = contentPointer[t][p]
        BY <1>1, <3>1 DEF Put
      <3>3. /\ DOMAIN jsAliases \subseteq DOMAIN jsAliases'
            /\ \A p \in DOMAIN jsAliases : jsAliases'[p] = jsAliases[p]
        BY <1>1, <3>1 DEF Put
      <3>4. QED
        BY <3>1, <3>2, <3>3 DEF ArraysGrow
    <2>3. QED
      BY <2>1, <2>2
  <1>5. QED
    BY <1>2, <1>3, <1>4 DEF addData, RefuseAlias

LEMMA StepGrows ==
    ASSUME IInv, [Next]_vars
    PROVE  ArraysGrow
  <1>1. CASE UNCHANGED dataVars
    BY <1>1 DEF dataVars, ArraysGrow
  <1>2. CASE AddsData
    BY <1>2, AddDataGrows DEF AddsData, IInv
  <1>3. QED
    BY <1>1, <1>2, StepAddsData

\* While arrays only grow, a name that was given stays what it is: the pointer
\* of an alias is its only one before and after.
LEMMA NamesStay ==
    ASSUME DataInv, DataInv', ArraysGrow, Objects \subseteq Objects',
           NEW u \in Objects, NEW a \in Alias, isAliasUsed(u, a)
    PROVE  isAliasUsed(u, a)' /\ getJSAlias(u, a)' = getJSAlias(u, a)
  <1>1. CASE isLocaleName(u, a)
    BY <1>1 DEF isLocaleName, isAliasUsed, getJSAlias, ArraysGrow
  <1>2. CASE ~isLocaleName(u, a)
    <2>1. PICK p \in PointersOf(u, a) : TRUE
      BY <1>2 DEF isAliasUsed
    <2>2. p \in PointersOf(u, a)' /\ jsAliases'[p] = jsAliases[p]
      BY <2>1 DEF PointersOf, ArraysGrow
    <2>3. getAliasPointer(u, a) = p
      BY <2>1, PointerFound DEF DataInv
    <2>4. getAliasPointer(u, a)' = p
      <3>1. \A q \in PointersOf(u, a)' : q = p
        BY <2>2 DEF DataInv, AliasMeansOneThing
      <3>2. p \in Nat
        BY <2>1 DEF DataInv, DataTypeOK, PointersOf
      <3>3. \A q \in PointersOf(u, a)' : p <= q
        BY <3>1, <3>2
      <3>4. QED
        BY <2>2, <3>1, <3>3 DEF getAliasPointer
    <2>5. ~isLocaleName(u, a)'
      BY <2>2 DEF DataInv, AliasMeansOneThing
    <2>6. isAliasUsed(u, a)'
      BY <2>2 DEF isAliasUsed
    <2>7. QED
      BY <1>2, <2>2, <2>3, <2>4, <2>5, <2>6 DEF getJSAlias
  <1>3. QED
    BY <1>1, <1>2

\* Objects are only created.
LEMMA StepKeepsObjects ==
    ASSUME IInv, [Next]_vars
    PROVE  Objects \subseteq Objects'
  <1>1. classCount \in Nat
    BY DEF IInv, TypeOK, DataTypeOK
  <1>2. classCount' \in {classCount, classCount + 1}
    BY DEF Next, vars, Construct, LoadCiteprocJavascript, AddString, AddAbbreviation,
       AddBibliographyList, AddMetaData, LoadBasicCitationObject, AddENUS, PublicCall,
       GetCitationHTML, StartFromPIDAndCSL, AddNextPID, AddAutoObject, ReturnAutoSpan
  <1>3. QED
    BY <1>1, <1>2, ObjectsGrow

LEMMA StepKeepsNames ==
    ASSUME IInv, [Next]_vars, NEW u \in Objects, NEW a \in Alias, isAliasUsed(u, a)
    PROVE  isAliasUsed(u, a)' /\ getJSAlias(u, a)' = getJSAlias(u, a)
  <1>1. DataInv /\ DataInv'
    BY NextDataInv DEF IInv
  <1>2. QED
    BY <1>1, StepGrows, StepKeepsObjects, NamesStay

\* addData, which makes aliases and never changes the alias of a pointer: a name
\* written into a span is not overtaken by later calls, of whatever object.
THEOREM StableNames == Spec => JSAliasesAreStable
  <1>1. IInv /\ [Next]_vars =>
           [\A u \in Objects, a \in Alias :
              isAliasUsed(u, a) => getJSAlias(u, a)' = getJSAlias(u, a)]_vars
    BY StepKeepsNames
  <1>2. QED
    BY <1>1, InvariantHolds, PTL DEF Spec, JSAliasesAreStable

-----------------------------------------------------------------------------
(* Where names lead. *)

\* A pointer is logged under one type, so getContent finds it whatever array it
\* looks in first.
PointersHaveOneType ==
    \A t, s \in DataType : \A p \in DOMAIN contentPointer[t] :
        p \in DOMAIN contentPointer[s] => t = s

\* Metadata converted from MODS has the alias of its pointer in its id.
MetadataNamesItself ==
    \A p \in DOMAIN contentPointer["metadata"] :
        LET content == contentPointer["metadata"][p]
        IN  content \notin Raw => content.id[1] \in Objects /\ content.id[2] = jsAliases[p]

\* A generated citation names an item under the prefix of an object of the page.
CitationsNameObjects ==
    \A k \in CitedItems :
        settings[k][1] \in CitationObject /\ settings[k][1].item[1] \in Objects

\* A span names data by what its alias is now: FALSE, or a name that stays.
SpanNamesAreCurrent ==
    \A ref \in UNION page :
        /\ ref.by \in Objects /\ ref.alias \in Alias /\ ref.type \in DataType
        /\ ref.name[2] # NotFound =>
              /\ isAliasUsed(ref.by, ref.alias)
              /\ ref.name = prefixAlias(ref.by, getJSAlias(ref.by, ref.alias))

SpanInv ==
    /\ IInv
    /\ PointersHaveOneType
    /\ MetadataNamesItself
    /\ CitationsNameObjects
    /\ SpanNamesAreCurrent

\* The part of SpanInv that addData can disturb.
ContentInv == PointersHaveOneType /\ MetadataNamesItself /\ CitationsNameObjects

\* What addData leaves alone, or logs under a new pointer.
LEMMA AddDataLogs ==
    ASSUME DataInv, NEW u \in Objects, NEW type \in DataType \cup {"locale"}, NEW alias \in Alias,
           NEW content \in ContentOf[type], NEW var \in VarType \cup {Null},
           addData(u, type, alias, content, var)
    PROVE  \/ UNCHANGED <<contentPointer, jsAliases>>
           \/ /\ type \in DataType
              /\ pointerCount \notin DOMAIN jsAliases
              /\ contentPointer' = [contentPointer EXCEPT ![type] = Put(@, pointerCount, content)]
              /\ jsAliases' = Put(jsAliases, pointerCount, alias)
  <1>1. pointerCount \notin DOMAIN jsAliases
    BY DEF DataInv, DataTypeOK
  <1>2. QED
    BY <1>1 DEF addData, RefuseAlias, ShareContent, LogAndSend, dataVars

\* What addData sends: nothing, or a value under a key of its type that, but for
\* locales, was not in use.
LEMMA AddDataSends ==
    ASSUME DataInv, NEW u \in Objects, NEW type \in DataType \cup {"locale"}, NEW alias \in Alias,
           NEW content \in ContentOf[type], NEW var \in VarType \cup {Null},
           addData(u, type, alias, content, var)
    PROVE  \/ UNCHANGED settings
           \/ \E k \in Key, v \in ValueOf[type] :
                /\ settings' = Merge(settings, k, v)
                /\ k.type = type
                /\ type # "locale" => k \notin DOMAIN settings /\ k.name = <<u, alias>>
                /\ type \in JsonType => v = content
  <1>1. CASE UNCHANGED settings
    BY <1>1
  <1>2. CASE LogAndSend(u, type, alias, content, var)
    <2>1. Send(u, type, alias, content, var) /\ PointersOf(u, alias) = {}
      BY <1>2 DEF LogAndSend, isAliasUsed
    <2>2. CASE UNCHANGED settings
      BY <2>2
    <2>3. ASSUME NEW k \in Key, NEW v \in ValueOf[type],
                 settings' = Merge(settings, k, v), k.type = type,
                 k.name = IF type = "locale" THEN <<NoPrefix, alias>> ELSE prefixAlias(u, alias),
                 type \in JsonType => v = content
          PROVE  type # "locale" => k \notin DOMAIN settings
      <3>1. u # NoPrefix
        BY NameType DEF DataInv
      <3>2. SUFFICES ASSUME type # "locale", k \in DOMAIN settings PROVE FALSE
        OBVIOUS
      <3>3. k.name = <<u, alias>>
        BY <2>3, <3>2 DEF prefixAlias
      <3>4. \E p \in DOMAIN jsAliases : <<p, u, alias>> \in aliasPointer
        BY <3>1, <3>2, <3>3 DEF DataInv, SentNamesAreTaken
      <3>5. QED
        BY <2>1, <3>4 DEF PointersOf
    <2>4. \/ UNCHANGED settings
          \/ \E k \in Key, v \in ValueOf[type] :
                /\ settings' = Merge(settings, k, v)
                /\ k.type = type
                /\ k.name = IF type = "locale" THEN <<NoPrefix, alias>>
                                               ELSE prefixAlias(u, alias)
                /\ type \in JsonType => v = content
      BY <2>1, SendEffect
    <2>5. QED
      BY <2>3, <2>4 DEF prefixAlias
  <1>3. QED
    BY <1>1, <1>2 DEF addData, RefuseAlias, ShareContent, dataVars

\* A new pointer is logged under one type, with the content's own name if it is
\* metadata.
LEMMA LoggingKeepsContentInv ==
    ASSUME DataInv, PointersHaveOneType, MetadataNamesItself, Objects \subseteq Objects',
           NEW u \in Objects, NEW type \in DataType, NEW alias \in Alias, NEW content,
           ContentNamesItself(u, type, alias, content),
           pointerCount \notin DOMAIN jsAliases,
           contentPointer' = [contentPointer EXCEPT ![type] = Put(@, pointerCount, content)],
           jsAliases' = Put(jsAliases, pointerCount, alias)
    PROVE  PointersHaveOneType' /\ MetadataNamesItself'
  <1> DEFINE n == pointerCount
  <1>1. /\ DOMAIN contentPointer = DataType
        /\ \A t \in DataType : DOMAIN contentPointer[t] \subseteq DOMAIN jsAliases
    BY DEF DataInv, DataTypeOK
  <1>2. /\ DOMAIN contentPointer'[type] = DOMAIN contentPointer[type] \cup {n}
        /\ contentPointer'[type][n] = content
        /\ \A p \in DOMAIN contentPointer[type] : contentPointer'[type][p] = contentPointer[type][p]
        /\ \A t \in DataType \ {type} : contentPointer'[t] = contentPointer[t]
    BY <1>1 DEF Put
  <1>3. /\ jsAliases'[n] = alias
        /\ \A p \in DOMAIN jsAliases : jsAliases'[p] = jsAliases[p]
    BY DEF Put
  <1>4. \A t \in DataType : n \in DOMAIN contentPointer'[t] => t = type
    BY <1>1, <1>2
  <1>5. \A t \in DataType : \A p \in DOMAIN contentPointer'[t] :
           p = n \/ p \in DOMAIN contentPointer[t]
    BY <1>2
  <1>6. PointersHaveOneType'
    BY <1>4, <1>5 DEF PointersHaveOneType
  <1>7. MetadataNamesItself'
    <2>1. SUFFICES ASSUME NEW p \in DOMAIN contentPointer'["metadata"],
                          contentPointer'["metadata"][p] \notin Raw
                   PROVE  /\ contentPointer'["metadata"][p].id[1] \in Objects'
                          /\ contentPointer'["metadata"][p].id[2] = jsAliases'[p]
      BY DEF MetadataNamesItself
    <2>2. "metadata" \in DataType
      BY DEF DataType, JsonType
    <2>3. CASE p = n
      <3>1. type = "metadata" /\ contentPointer'["metadata"][p] = content
        BY <1>2, <1>4, <2>2, <2>3
      <3>2. content.id = <<u, alias>>
        BY <2>1, <3>1 DEF ContentNamesItself
      <3>3. QED
        BY <1>3, <2>3, <3>1, <3>2
    <2>4. CASE p # n
      <3>1. /\ p \in DOMAIN contentPointer["metadata"] /\ p \in DOMAIN jsAliases
            /\ contentPointer'["metadata"][p] = contentPointer["metadata"][p]
        BY <1>1, <1>2, <1>5, <2>2, <2>4
      <3>2. QED
        BY <1>3, <2>1, <3>1 DEF MetadataNamesItself
    <2>5. QED
      BY <2>3, <2>4
  <1>8. QED
    BY <1>6, <1>7

\* A citation that is sent names an item of the object that sends it.
LEMMA SendingKeepsCitations ==
    ASSUME DataInv, CitationsNameObjects, Objects \subseteq Objects',
           NEW u \in Objects, NEW type \in DataType \cup {"locale"}, NEW alias, NEW content,
           ContentNamesItself(u, type, alias, content),
           NEW k \in Key, NEW v \in ValueOf[type],
           settings' = Merge(settings, k, v), k.type = type,
           type # "locale" => k \notin DOMAIN settings,
           type \in JsonType => v = content
    PROVE  CitationsNameObjects'
  <1>1. SUFFICES ASSUME NEW l \in CitedItems'
                 PROVE  /\ settings'[l][1] \in CitationObject
                        /\ settings'[l][1].item[1] \in Objects'
    BY DEF CitationsNameObjects
  <1>2. l \in DOMAIN settings' /\ l.type = "citation" /\ settings'[l][1] \notin Raw
    BY DEF CitedItems
  <1>3. CASE l = k
    <2>1. type = "citation"
      BY <1>2, <1>3
    <2>2. k \notin DOMAIN settings /\ v = content
      BY <2>1 DEF JsonType
    <2>3. settings'[k] = <<v>>
      <3>1. Append(<<>>, v) = <<v>>
        OBVIOUS
      <3>2. QED
        BY <2>2, <3>1 DEF Merge, Put
    <2>4. v \in Raw \cup CitationObject
      BY <2>1 DEF ValueOf, ContentOf, DataType, JsonType
    <2>5. QED
      BY <1>2, <1>3, <2>1, <2>2, <2>3, <2>4 DEF ContentNamesItself
  <1>4. CASE l # k
    <2>1. l \in DOMAIN settings /\ settings'[l] = settings[l]
      BY <1>2, <1>4 DEF Merge, Put
    <2>2. l \in CitedItems
      BY <1>2, <2>1 DEF CitedItems
    <2>3. QED
      BY <2>1, <2>2 DEF CitationsNameObjects
  <1>5. QED
    BY <1>3, <1>4

LEMMA StepKeepsContentInv ==
    ASSUME IInv, ContentInv, [Next]_vars
    PROVE  ContentInv'
  <1>1. DataInv /\ Objects \subseteq Objects'
    BY StepKeepsObjects DEF IInv
  <1>2. CASE UNCHANGED dataVars
    BY <1>1, <1>2
       DEF dataVars, ContentInv, PointersHaveOneType, MetadataNamesItself, CitationsNameObjects,
           CitedItems
  <1>3. CASE AddsData
    <2>1. PICK u \in Objects, type \in DataType \cup {"locale"}, alias \in Alias :
             \E content \in ContentOf[type], var \in VarType \cup {Null} :
                /\ addData(u, type, alias, content, var)
                /\ ContentNamesItself(u, type, alias, content)
      BY <1>3 DEF AddsData
    <2>2. PICK content \in ContentOf[type], var \in VarType \cup {Null} :
                /\ addData(u, type, alias, content, var)
                /\ ContentNamesItself(u, type, alias, content)
      BY <2>1
    <2>3. PointersHaveOneType' /\ MetadataNamesItself'
      <3>1. CASE UNCHANGED <<contentPointer, jsAliases>>
        BY <1>1, <3>1 DEF ContentInv, PointersHaveOneType, MetadataNamesItself
      <3>2. CASE ~UNCHANGED <<contentPointer, jsAliases>>
        <4>1. /\ type \in DataType
              /\ pointerCount \notin DOMAIN jsAliases
              /\ contentPointer' = [contentPointer EXCEPT ![type] = Put(@, pointerCount, content)]
              /\ jsAliases' = Put(jsAliases, pointerCount, alias)
          BY <1>1, <2>2, <3>2, AddDataLogs
        <4>2. QED
          BY <1>1, <2>2, <4>1, LoggingKeepsContentInv DEF ContentInv
      <3>3. QED
        BY <3>1, <3>2
    <2>4. CitationsNameObjects'
      <3>1. CASE UNCHANGED settings
        BY <1>1, <3>1 DEF ContentInv, CitationsNameObjects, CitedItems
      <3>2. CASE ~UNCHANGED settings
        <4>1. PICK k \in Key, v \in ValueOf[type] :
                /\ settings' = Merge(settings, k, v)
                /\ k.type = type
                /\ type # "locale" => k \notin DOMAIN settings
                /\ type \in JsonType => v = content
          BY <1>1, <2>2, <3>2, AddDataSends
        <4>2. QED
          BY <1>1, <2>2, <4>1, SendingKeepsCitations DEF ContentInv
      <3>3. QED
        BY <3>1, <3>2
    <2>5. QED
      BY <2>3, <2>4 DEF ContentInv
  <1>4. QED
    BY <1>2, <1>3, StepAddsData
-----------------------------------------------------------------------------
(* The page. *)

\* Every name of a span is a reference of the object that returns it.
LEMMA SpanReferences ==
    ASSUME NEW u, NEW csl \in Alias,
           NEW citation \in Alias \cup {Null}, NEW list \in Alias \cup {Null},
           NEW selector \in Alias \cup {Null}, NEW abbreviations \in Alias \cup {Null},
           NEW ref \in SpanOf(u, csl, citation, list, selector, abbreviations)
    PROVE  \E type \in DataType, alias \in Alias : ref = Reference(u, type, alias)
  BY DEF SpanOf, Optional, DataType, JsonType

\* What a span says of an alias is what is known of it when it is returned.
LEMMA ReferenceIsCurrent ==
    ASSUME NEW u \in Objects, NEW type \in DataType, NEW alias \in Alias
    PROVE  LET ref == Reference(u, type, alias)
           IN /\ ref.by = u /\ ref.alias = alias /\ ref.type = type
              /\ ref.name[2] # NotFound =>
                    /\ isAliasUsed(u, alias)
                    /\ ref.name = prefixAlias(u, getJSAlias(u, alias))
  BY DEF Reference, prefixAlias, getJSAlias

\* Spans are only added, and by steps that add no data.
LEMMA StepAddsSpans ==
    ASSUME IInv, [Next]_vars, NEW ref \in UNION page'
    PROVE  \/ ref \in UNION page
           \/ /\ UNCHANGED <<classCount, dataVars>>
              /\ \E u \in Objects, type \in DataType, alias \in Alias :
                    ref = Reference(u, type, alias)
  <1>1. CASE UNCHANGED page
    BY <1>1
  <1>2. ASSUME NEW u \in Objects, GetCitationHTML(u)
        PROVE  \/ ref \in UNION page
               \/ /\ UNCHANGED <<classCount, dataVars>>
                  /\ \E type \in DataType, alias \in Alias : ref = Reference(u, type, alias)
    <2>1. PICK csl \in CallerAliases, object \in CallerAliases, isList \in BOOLEAN,
               selector \in OptionalArgs, abbreviations \in OptionalArgs :
             page' = page \cup {SpanOf(u, csl, IF isList THEN Null ELSE object, object,
                                       selector, abbreviations)}
      BY <1>2 DEF GetCitationHTML
    <2>2. /\ csl \in Alias /\ object \in Alias
          /\ (IF isList THEN Null ELSE object) \in Alias \cup {Null}
          /\ selector \in Alias \cup {Null} /\ abbreviations \in Alias \cup {Null}
      BY <2>1, BoundAssumption
    <2>3. QED
      BY <1>2, <2>1, <2>2, SpanReferences DEF GetCitationHTML
  <1>3. CASE ReturnAutoSpan
    <2>1. /\ job.uid \in Objects /\ job.csl \in Alias
          /\ job.object \in Alias \cup {Null} /\ Null \in Alias \cup {Null}
      BY <1>3 DEF ReturnAutoSpan, IInv, TypeOK, JobStep
    <2>2. \/ ref \in UNION page
          \/ ref \in SpanOf(job.uid, job.csl, job.object, Null, Null, Null)
          \/ ref \in SpanOf(job.uid, job.csl, Null, job.object, Null, Null)
      BY <1>3 DEF ReturnAutoSpan
    <2>3. QED
      BY <1>3, <2>1, <2>2, SpanReferences DEF ReturnAutoSpan
  <1>4. \/ UNCHANGED page
        \/ \E u \in Objects : GetCitationHTML(u)
        \/ ReturnAutoSpan
    BY DEF Next, vars, Construct, LoadCiteprocJavascript, AddString, AddAbbreviation,
       AddBibliographyList, AddMetaData, LoadBasicCitationObject, AddENUS, PublicCall,
       StartFromPIDAndCSL, AddNextPID, AddAutoObject
  <1>5. QED
    BY <1>1, <1>2, <1>3, <1>4

LEMMA StepKeepsSpanNames ==
    ASSUME IInv, SpanNamesAreCurrent, [Next]_vars
    PROVE  SpanNamesAreCurrent'
  <1>1. SUFFICES ASSUME NEW ref \in UNION page'
                 PROVE  /\ ref.by \in Objects' /\ ref.alias \in Alias /\ ref.type \in DataType
                        /\ ref.name[2] # NotFound =>
                              /\ isAliasUsed(ref.by, ref.alias)'
                              /\ ref.name = prefixAlias(ref.by, getJSAlias(ref.by, ref.alias)')
    BY DEF SpanNamesAreCurrent, prefixAlias
  <1>2. CASE ref \in UNION page
    <2>1. /\ ref.by \in Objects /\ ref.alias \in Alias /\ ref.type \in DataType
          /\ ref.name[2] # NotFound =>
                /\ isAliasUsed(ref.by, ref.alias)
                /\ ref.name = prefixAlias(ref.by, getJSAlias(ref.by, ref.alias))
      BY <1>2 DEF SpanNamesAreCurrent
    <2>2. isAliasUsed(ref.by, ref.alias) =>
             /\ isAliasUsed(ref.by, ref.alias)'
             /\ getJSAlias(ref.by, ref.alias)' = getJSAlias(ref.by, ref.alias)
      BY <2>1, StepKeepsNames
    <2>3. QED
      BY <2>1, <2>2, StepKeepsObjects
  <1>3. ASSUME UNCHANGED <<classCount, dataVars>>,
               NEW u \in Objects, NEW type \in DataType, NEW alias \in Alias,
               ref = Reference(u, type, alias)
        PROVE  /\ ref.by \in Objects' /\ ref.alias \in Alias /\ ref.type \in DataType
               /\ ref.name[2] # NotFound =>
                     /\ isAliasUsed(ref.by, ref.alias)'
                     /\ ref.name = prefixAlias(ref.by, getJSAlias(ref.by, ref.alias)')
    <2>1. /\ ref.by = u /\ ref.alias = alias /\ ref.type = type
          /\ ref.name[2] # NotFound =>
                /\ isAliasUsed(u, alias)
                /\ ref.name = prefixAlias(u, getJSAlias(u, alias))
      BY <1>3, ReferenceIsCurrent
    <2>2. /\ Objects' = Objects
          /\ isAliasUsed(u, alias)' <=> isAliasUsed(u, alias)
          /\ getJSAlias(u, alias)' = getJSAlias(u, alias)
      BY <1>3 DEF Objects, isAliasUsed, getJSAlias, getAliasPointer, PointersOf, isLocaleName,
         dataVars
    <2>3. QED
      BY <2>1, <2>2
  <1>4. QED
    BY <1>2, <1>3, StepAddsSpans

LEMMA SpanInvariantHolds == Spec => []SpanInv
  <1>1. Init => ContentInv /\ SpanNamesAreCurrent
    BY DEF Init, ContentInv, PointersHaveOneType, MetadataNamesItself, CitationsNameObjects,
       CitedItems, SpanNamesAreCurrent, EmptyArray, DataType, JsonType
  <1>2. IInv /\ ContentInv /\ SpanNamesAreCurrent /\ [Next]_vars =>
           ContentInv' /\ SpanNamesAreCurrent'
    BY StepKeepsContentInv, StepKeepsSpanNames
  <1>3. IInv /\ ContentInv /\ SpanNamesAreCurrent => SpanInv
    BY DEF SpanInv, ContentInv
  <1>4. QED
    BY <1>1, <1>2, <1>3, InvariantHolds, PTL DEF Spec

-----------------------------------------------------------------------------
(* One object on the page. *)

\* The data an alias stands for, when it stands for some.
LEMMA DataOfAlias ==
    ASSUME DataInv, PointersHaveOneType, NEW u \in Objects, NEW a \in Alias,
           NEW type \in DataType, NEW p \in PointersOf(u, a),
           p \in DOMAIN contentPointer[type]
    PROVE  /\ getJSAlias(u, a) = jsAliases[p]
           /\ getContent(u, a) = contentPointer[type][p]
  <1>1. getAliasPointer(u, a) = p
    BY PointerFound DEF DataInv
  <1>2. isAliasUsed(u, a) /\ ~isLocaleName(u, a)
    BY DEF isAliasUsed, DataInv, AliasMeansOneThing
  <1>3. (CHOOSE t \in DataType : p \in DOMAIN contentPointer[t]) = type
    BY DEF PointersHaveOneType
  <1>4. QED
    BY <1>1, <1>2, <1>3 DEF getJSAlias, getContent

(***************************************************************************)
(* On a page with one API object, getCitationHTML's names lead to the      *)
(* content of their aliases: getJSAlias gives the alias addData sent the   *)
(* content under, and no later call disturbs either of them.               *)
(***************************************************************************)
THEOREM SpansResolve == Spec => []SoleObjectReferencesResolve
  <1>1. SpanInv => SoleObjectReferencesResolve
    <2>1. SUFFICES ASSUME SpanInv, classCount = 1, NEW ref \in UNION page,
                          ref.type \in AlwaysSent, IsProper(ref)
                   PROVE  Resolves(ref)
      BY DEF SoleObjectReferencesResolve, EveryReferenceResolves
    <2>2. Objects = {0} /\ DataInv
      BY <2>1 DEF Objects, SpanInv, IInv
    <2>3. /\ ref.by \in Objects /\ ref.alias \in Alias /\ ref.type \in DataType
          /\ ref.name = prefixAlias(ref.by, getJSAlias(ref.by, ref.alias))
      BY <2>1 DEF SpanInv, SpanNamesAreCurrent, IsProper
    <2>4. PICK p \in PointersOf(ref.by, ref.alias) : p \in DOMAIN contentPointer[ref.type]
      BY <2>1 DEF IsProper
    <2>5. /\ getJSAlias(ref.by, ref.alias) = jsAliases[p]
          /\ getContent(ref.by, ref.alias) = contentPointer[ref.type][p]
      BY <2>1, <2>2, <2>3, <2>4, DataOfAlias DEF SpanInv
    <2>6. PICK u \in Objects : IsSentBy(u, ref.type, p)
      BY <2>1, <2>2, <2>4 DEF DataInv, LoggedContentIsSent
    <2>7. prefixAlias(u, jsAliases[p]) = ref.name
      BY <2>2, <2>3, <2>5
    <2>8. QED
      BY <2>5, <2>6, <2>7 DEF IsSentBy, Resolves
  <1>2. QED
    BY <1>1, SpanInvariantHolds, PTL

(***************************************************************************)
(* On a page with one API object, retrieveItem finds the metadata that a   *)
(* citation object of loadBasicCitationObject names, and the id in it is   *)
(* the name it was found under.                                            *)
(***************************************************************************)
THEOREM ItemsRetrievable == Spec => []SoleObjectItemsRetrievable
  <1>1. SpanInv => SoleObjectItemsRetrievable
    <2>1. SUFFICES ASSUME SpanInv, classCount = 1, NEW k \in CitedItems,
                          NEW p \in DOMAIN contentPointer["metadata"],
                          jsAliases[p] = settings[k][1].item[2]
                   PROVE  ItemIsRetrievable(settings[k][1].item)
      BY DEF SoleObjectItemsRetrievable
    <2>2. Objects = {0} /\ DataInv
      BY <2>1 DEF Objects, SpanInv, IInv
    <2>3. settings[k][1].item = <<0, jsAliases[p]>>
      BY <2>1, <2>2 DEF SpanInv, CitationsNameObjects, CitationObject, Name
    <2>4. PICK u \in Objects : IsSentBy(u, "metadata", p)
      BY <2>2 DEF DataInv, LoggedContentIsSent, AlwaysSent, JsonType
    <2>5. prefixAlias(u, jsAliases[p]) = settings[k][1].item
      BY <2>2, <2>3 DEF prefixAlias
    <2>6. contentPointer["metadata"][p] \in Raw \cup Metadata
      BY <2>2 DEF DataInv, DataTypeOK, ContentOf, DataType, JsonType
    <2>7. contentPointer["metadata"][p] \notin Raw =>
             contentPointer["metadata"][p].id = settings[k][1].item
      BY <2>1, <2>2, <2>3, <2>6 DEF SpanInv, MetadataNamesItself, Metadata, Name
    <2>8. QED
      BY <2>4, <2>5, <2>7 DEF IsSentBy, ItemIsRetrievable
  <1>2. QED
    BY <1>1, SpanInvariantHolds, PTL
=============================================================================
