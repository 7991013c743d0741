-------------------------- MODULE ListingCacheProofs --------------------------
(***************************************************************************)
(* Proofs about ListingCache, for any number of requests, pages, servers   *)
(* and changes: type correctness, that cached pages are in the key lists,  *)
(* that no page holds a server twice, that only excused pages are outdated *)
(* and that answers are current.  Each invariant needs the ones before it: *)
(*                                                                         *)
(*   Inv        types, and what each label of a handler says of its locals *)
(*   ListedInv  an Index runs alone, and every cached page is in its list  *)
(*   WholeInv   ids are unique, and rows are cached only with their total  *)
(*   CleanInv   as long as nothing has happened, no page is excused        *)
(*   FreshInv   cached pages are as the stores are, or will yet be dropped *)
(*                                                                         *)
(* In between, one lemma per group of steps says what such a step does, so *)
(* that no invariant has to open the actions again.                        *)
(***************************************************************************)
EXTENDS ListingCache, FiniteSetTheorems, TLAPS

-----------------------------------------------------------------------------
(* Types.                                                                  *)

Ids == 1..(Initial + MaxStamp)
Rec == [id : Ids, attr : Nat]

StoresOK ==
  /\ servers \in Seq(Rec)
  /\ indexed \in [Ids -> Nat] /\ visible \in [Ids -> Nat]
  /\ stamp \in Nat /\ stamp <= Initial + MaxStamp

CachesOK ==
  /\ DOMAIN redis = Keys /\ DOMAIN drive = Keys
  /\ \A key \in Keys : {redis[key], drive[key]} \subseteq Value(key) \cup {None}
  /\ older \in [Keys -> SUBSET Keys]
  /\ global \in [Kinds -> (SUBSET Pages) \cup {None}]
  /\ \A kind \in Kinds : global[kind] \in {None, redis[ListKey(kind)]}

IndexLabels == {"getRows", "getTotal", "find", "count", "status", "setRows", "setTotal",
                "getList", "setList", "reply"}
ChangeLabels == {"commit", "readList", "delete"}

FrameOK(f) ==
  /\ f \in Frame
  /\ f.pc = "idle" => f = Idle
  /\ f.pc \in IndexLabels => f.op = "Index" /\ f.page \in Pages
  /\ f.pc \in ChangeLabels => f.op \in Changes
  /\ f.kind = "rows" \/ f.pc \in {"getList", "setList", "readList", "delete"}
  /\ f.found \in Seq(Rec)
  /\ f.pc = "status" => f.found # << >>
  /\ f.pc = "commit" => /\ f.target \in Ids
                        /\ f.todo \in {Writes(f.op), Tail(Writes(f.op))} \ {<< >>}

FramesOK == /\ frame \in [Requests -> Frame]
            /\ \A c \in Requests : FrameOK(frame[c])

HarmOK == mishaps \subseteq Mishaps /\ excused \subseteq Pages

Inv == StoresOK /\ CachesOK /\ FramesOK /\ HarmOK

LEMMA Constants ==
  /\ Pages \subseteq Nat /\ 0 \notin Pages
  /\ Limit \in Nat /\ FirstBatch \in Nat /\ Initial \in Nat /\ MaxStamp \in Nat
  /\ Changes \subseteq Writers /\ "Index" \notin Changes /\ "none" \notin Changes
  /\ Mishaps \subseteq PossibleMishaps
  BY ConstantsOK DEF ConstantsOK, Writers

LEMMA KeyFacts ==
  /\ \A kind \in Kinds, p \in Pages :
       /\ Key(kind, p) \in Keys /\ Key(kind, p)[1] = kind /\ Key(kind, p)[2] = p
       /\ p # 0
  /\ \A kind \in Kinds : /\ ListKey(kind) \in Keys
                         /\ ListKey(kind)[1] = kind /\ ListKey(kind)[2] = 0
                         /\ Value(ListKey(kind)) = SUBSET Pages
  /\ \A p \in Pages : /\ Value(Key("rows", p)) = Seq(Row)
                      /\ Value(Key("total", p)) = Nat
  /\ \A key \in Keys : key[2] = 0 => key[1] \in Kinds /\ key = ListKey(key[1])
  /\ \A kind, kind2 \in Kinds, p \in Pages :
       /\ ListKey(kind) # Key(kind2, p)
       /\ ListKey(kind) = ListKey(kind2) => kind = kind2
  /\ "rows" \in Kinds /\ "total" \in Kinds
  /\ \A key \in Keys : \/ \E kind \in Kinds : key = ListKey(kind)
                       \/ \E kind \in Kinds, p \in Pages : key = Key(kind, p)
<1>1. \A kind \in Kinds, p \in Pages :
        /\ Key(kind, p) \in Keys /\ Key(kind, p)[1] = kind /\ Key(kind, p)[2] = p
        /\ p # 0
  BY Constants DEF Key, Keys
<1>2. \A kind \in Kinds : /\ ListKey(kind) \in Keys
                          /\ ListKey(kind)[1] = kind /\ ListKey(kind)[2] = 0
  BY DEF ListKey, Keys
<1>3. \A key \in Keys : key[2] = 0 => key[1] \in Kinds /\ key = ListKey(key[1])
  BY DEF Keys, ListKey
<1>4. \A key \in Keys : \/ \E kind \in Kinds : key = ListKey(kind)
                       \/ \E kind \in Kinds, p \in Pages : key = Key(kind, p)
  BY DEF Keys, ListKey, Key
<1>5. "rows" \in Kinds /\ "total" \in Kinds
  BY DEF Kinds
<1>6. \A kind \in Kinds : Value(ListKey(kind)) = SUBSET Pages
  BY <1>2 DEF Value
<1>7. \A p \in Pages : Value(Key("rows", p)) = Seq(Row) /\ Value(Key("total", p)) = Nat
  BY <1>1, <1>5 DEF Value
<1> QED
  BY <1>1, <1>2, <1>3, <1>4, <1>5, <1>6, <1>7

\* No value is the missing one.
LEMMA ValuesKnown ==
  /\ \A keys \in SUBSET Pages : None # keys
  /\ Pages # {} => None \notin Nat /\ None \notin Seq(Row)
  BY NoneIsNoValue

LEMMA SubsetOfRow == Seq(Rec) \subseteq Seq(Record)
<1>1. Rec \subseteq Record
  BY Constants DEF Rec, Record, Ids
<1> QED
  BY <1>1

LEMMA IdleOK == FrameOK(Idle)
<1>1. Idle \in Frame
  BY DEF Idle, Frame, Kinds
<1> QED
  BY <1>1 DEF FrameOK, Idle, IndexLabels, ChangeLabels

LEMMA LocalOK ==
  ASSUME FramesOK, NEW c \in Requests, NEW g, FrameOK(g), Local(c, g)
  PROVE  FramesOK'
  BY DEF FramesOK, FrameOK, Local

LEMMA ExitOK ==
  ASSUME Inv, Exit
  PROVE  CachesOK' /\ FramesOK'
<1>1. FramesOK'
  BY IdleOK DEF Exit, FramesOK, FrameOK
<1>2. CachesOK'
  BY KeyFacts DEF Exit, Inv, CachesOK
<1> QED
  BY <1>1, <1>2

LEMMA FoundOK ==
  ASSUME CachesOK, NEW key \in Keys, NEW v \in Found(drive[key], key)
  PROVE  v \in Value(key) \cup {None}
  BY DEF CachesOK, Found

LEMMA GotOK ==
  ASSUME CachesOK, NEW key \in Keys, NEW v \in Value(key) \cup {None}, Got(key, v)
  PROVE  CachesOK'
  BY DEF CachesOK, Got

LEMMA WithoutOK ==
  ASSUME CachesOK, NEW key
  PROVE  Without(key) \in [Keys -> SUBSET Keys]
  BY DEF CachesOK, Without

LEMMA SetOK ==
  ASSUME CachesOK, NEW key \in Keys, NEW v \in Value(key), Set(key, v)
  PROVE  CachesOK'
<1>1. older' \in [Keys -> SUBSET Keys]
  <2> DEFINE rest == {k \in Keys \ {key} : redis[k] # None}
  <2>1. rest \subseteq Keys
    OBVIOUS
  <2>2. older' \in {[Without(key) EXCEPT ![key] = rest], [k \in Keys |-> {}]}
    BY DEF Set
  <2> HIDE DEF rest
  <2> QED
    BY <2>1, <2>2, WithoutOK
<1>2. \A k \in Keys : redis'[k] = IF k = key THEN v ELSE redis[k]
  BY DEF CachesOK, Set
<1>3. DOMAIN redis' = Keys /\ drive' = drive
  BY DEF CachesOK, Set
<1>4. CASE key[2] = 0
  <2>1. PICK kind \in Kinds : key = ListKey(kind) /\ key[1] = kind
    BY <1>4, KeyFacts
  <2>2. v \in SUBSET Pages /\ global' = [global EXCEPT ![kind] = v]
    BY <1>4, <2>1, KeyFacts DEF Set
  <2>3. global' \in [Kinds -> (SUBSET Pages) \cup {None}]
    BY <2>2 DEF CachesOK
  <2>4. \A k \in Kinds : global'[k] \in {None, redis'[ListKey(k)]}
    BY <1>2, <2>1, <2>2, KeyFacts DEF CachesOK
  <2> QED
    BY <1>1, <1>2, <1>3, <2>3, <2>4 DEF CachesOK
<1>5. CASE key[2] # 0
  <2>1. global' = global /\ \A k \in Kinds : redis'[ListKey(k)] = redis[ListKey(k)]
    BY <1>2, <1>5, KeyFacts DEF Set
  <2> QED
    BY <1>1, <1>2, <1>3, <2>1 DEF CachesOK
<1> QED
  BY <1>4, <1>5

LEMMA DeleteOK ==
  ASSUME CachesOK, NEW kind \in Kinds, NEW p \in Pages, Delete(Key(kind, p))
  PROVE  CachesOK'
  BY WithoutOK, KeyFacts DEF CachesOK, Delete

LEMMA KeptOK == CachesOK /\ UNCHANGED caches => CachesOK'
  BY DEF CachesOK, caches

\* Nothing that has happened is forgotten.
LEMMA HarmStep ==
  ASSUME Inv, [Next]_vars
  PROVE  HarmOK' /\ mishaps \subseteq mishaps' /\ excused \subseteq excused'
<1> DEFINE Grown == /\ mishaps \subseteq mishaps' /\ mishaps' \subseteq mishaps \cup Mishaps
                    /\ excused \subseteq excused' /\ excused' \subseteq excused \cup Pages
<1>1. \A m : Mishap(m) => Grown
  BY DEF Mishap, Happens
<1>2. UNCHANGED harm => Grown
  BY DEF harm
<1>3. \A c \in Requests : /\ frame[c].op = "Index" => frame[c].page \in Pages
                          /\ frame[c].pc = "status" => frame[c].page \in Pages
  <2> TAKE c \in Requests
  <2>1. FrameOK(frame[c]) /\ frame[c] \in Frame
    BY DEF Inv, FramesOK, FrameOK
  <2>2. frame[c].op = "Index" => frame[c].pc # "idle" /\ frame[c].pc \notin ChangeLabels
    BY <2>1, Constants DEF FrameOK, Idle
  <2>3. frame[c].pc \in IndexLabels \cup ChangeLabels \cup {"idle"}
    BY <2>1 DEF Frame, IndexLabels, ChangeLabels
  <2> QED
    BY <2>1, <2>2, <2>3 DEF FrameOK, IndexLabels
<1>4. ASSUME NEW c \in Requests, Start(c) PROVE Grown
  <2>1. ASSUME NEW p \in Pages, Index(c, p) PROVE Grown
    <3>1. mishaps \subseteq mishaps' /\ mishaps' \subseteq mishaps \cup Mishaps
      BY <2>1 DEF Index, HappensIf, Happens
    <3>2. excused \subseteq excused' /\ excused' \subseteq excused \cup Pages
      BY <2>1 DEF Index, Excuse
    <3> QED
      BY <3>1, <3>2
  <2>2. ASSUME NEW op \in Changes, NEW id \in 1..(stamp + 1), Change(c, op, id) PROVE Grown
    <3>1. mishaps \subseteq mishaps' /\ mishaps' \subseteq mishaps \cup Mishaps
      BY <2>2 DEF Change, Happens
    <3>2. {frame[d].page : d \in {r \in Requests : frame[r].op = "Index"}} \subseteq Pages
      BY <1>3
    <3>3. Excuse({frame[d].page : d \in {r \in Requests : frame[r].op = "Index"}})
      BY <2>2 DEF Change
    <3> QED
      BY <3>1, <3>2, <3>3 DEF Excuse
  <2> QED
    BY <1>4, <2>1, <2>2 DEF Start
<1>5. ASSUME NEW c \in Requests, IndexStep(c) PROVE Grown
  <2>1. CASE Status(c)
    <3>1. mishaps \subseteq mishaps' /\ mishaps' \subseteq mishaps \cup Mishaps
      BY <2>1 DEF Status, HappensIf, Happens
    <3>2. frame[c].page \in Pages
      BY <1>3, <2>1 DEF Status, At
    <3>3. excused \subseteq excused' /\ excused' \subseteq excused \cup Pages
      BY <2>1, <3>2 DEF Status, Excuse
    <3> QED
      BY <3>1, <3>3
  <2>2. CASE ~ Status(c)
    BY <1>1, <1>2, <1>5, <2>2
       DEF IndexStep, GetRows, GetTotal, Find, Count, ReadFails, SetRows, SetTotal, GetList,
           SetList, SetListPanics, Reply
  <2> QED
    BY <2>1, <2>2
<1>6. ASSUME NEW c \in Requests, ChangeStep(c) PROVE Grown
  <2>1. CASE ReadList(c)
    <3>1. Held \subseteq Pages
      BY DEF Held
    <3> QED
      BY <1>1, <2>1, <3>1 DEF ReadList, Excuse
  <2>2. CASE ~ ReadList(c)
    BY <1>1, <1>2, <1>6, <2>2
       DEF ChangeStep, Commit, CommitMisses, CommitPanics, CommitFails, DeleteKey, ListDone
  <2> QED
    BY <2>1, <2>2
<1>7. ASSUME Expire \/ Refresh \/ Crash PROVE Grown
  BY <1>1, <1>2, <1>7 DEF Expire, Refresh, Crash
<1>8. ASSUME UNCHANGED vars PROVE Grown
  BY <1>2, <1>8 DEF vars
<1> HIDE DEF Grown
<1>9. Grown
  BY <1>4, <1>5, <1>6, <1>7, <1>8 DEF Next
<1> QED
  BY <1>9 DEF Grown, Inv, HarmOK

\* A record is inserted, replaced or removed.
LEMMA RemoveFact ==
  ASSUME NEW S, NEW s \in Seq(S), NEW i \in DOMAIN s
  PROVE  /\ RemoveAt(s, i) \in Seq(S)
         /\ Len(RemoveAt(s, i)) = Len(s) - 1
         /\ \A j \in 1..(Len(s) - 1) : RemoveAt(s, i)[j] = s[IF j < i THEN j ELSE j + 1]
<1> DEFINE a == SubSeq(s, 1, i - 1)
           b == SubSeq(s, i + 1, Len(s))
<1>1. a \in Seq(S) /\ Len(a) = i - 1 /\ \A j \in 1..(i - 1) : a[j] = s[j]
  OBVIOUS
<1>2. b \in Seq(S) /\ Len(b) = Len(s) - i /\ \A j \in 1..(Len(s) - i) : b[j] = s[i + j]
  OBVIOUS
<1>3. RemoveAt(s, i) = a \o b
  BY DEF RemoveAt
<1>4. i \in 1..Len(s) /\ Len(s) \in Nat
  OBVIOUS
<1> HIDE DEF a, b
<1>5. a \o b \in Seq(S) /\ Len(a \o b) = Len(s) - 1
  BY <1>1, <1>2, <1>4
<1>6. ASSUME NEW j \in 1..(Len(s) - 1) PROVE (a \o b)[j] = s[IF j < i THEN j ELSE j + 1]
  <2>1. CASE j < i
    BY <1>1, <1>2, <1>4, <2>1
  <2>2. CASE ~ j < i
    <3>1. (a \o b)[j] = b[j - (i - 1)]
      <4>1. j \in 1..(Len(a) + Len(b)) /\ ~ j <= Len(a)
        BY <1>1, <1>2, <1>4, <2>2
      <4>2. (a \o b)[j] = b[j - Len(a)]
        <5>1. a \in Seq(S) /\ b \in Seq(S)
          BY <1>1, <1>2
        <5>2. \A k \in 1..(Len(a) + Len(b)) : ~ k <= Len(a) => (a \o b)[k] = b[k - Len(a)]
          BY <5>1
        <5> QED
          BY <4>1, <5>2
      <4> QED
        BY <1>1, <4>2
    <3>2. j - (i - 1) \in 1..(Len(s) - i) /\ i + (j - (i - 1)) = j + 1
      BY <1>4, <2>2
    <3> QED
      BY <1>2, <2>2, <3>1, <3>2
  <2> QED
    BY <2>1, <2>2
<1> QED
  BY <1>3, <1>5, <1>6

LEMMA HeadTail ==
  ASSUME NEW S, NEW s \in Seq(S), s # << >>
  PROVE  /\ Head(s) \in S /\ Head(s) = s[1] /\ 1 \in DOMAIN s /\ Len(s) \in Nat \ {0}
         /\ Tail(s) \in Seq(S) /\ Len(Tail(s)) = Len(s) - 1
         /\ \A i \in DOMAIN Tail(s) : i + 1 \in DOMAIN s /\ Tail(s)[i] = s[i + 1]
         /\ Len(s) # 1 => Tail(s) # << >>
         /\ Len(s) = 1 => Tail(s) = << >>
<1>1. Len(s) \in Nat \ {0} /\ Tail(s) \in Seq(S) /\ Len(Tail(s)) = Len(s) - 1
  OBVIOUS
<1>2. Head(s) \in S /\ Head(s) = s[1] /\ 1 \in DOMAIN s
  OBVIOUS
<1>3. \A i \in DOMAIN Tail(s) : i + 1 \in DOMAIN s /\ Tail(s)[i] = s[i + 1]
  OBVIOUS
<1> DEFINE t == Tail(s)
<1>4. t \in Seq(S) /\ Len(t) = Len(s) - 1 /\ Len(<< >>) = 0
  BY <1>1
<1> HIDE DEF t
<1>5. Len(s) # 1 => t # << >>
  BY <1>1, <1>4
<1>6. Len(s) = 1 => t = << >>
  BY <1>4
<1> QED
  BY <1>1, <1>2, <1>3, <1>5, <1>6 DEF t

LEMMA MinFact == \A a, b \in Nat : Min({a, b}) = IF a <= b THEN a ELSE b
<1> TAKE a \in Nat, b \in Nat
<1> DEFINE m == IF a <= b THEN a ELSE b
<1>1. m \in {a, b} /\ \A y \in {a, b} : m <= y
  OBVIOUS
<1>2. \A x \in {a, b} : (\A y \in {a, b} : x <= y) => x = m
  OBVIOUS
<1> HIDE DEF m
<1>3. Min({a, b}) = m
  BY <1>1, <1>2 DEF Min
<1> QED
  BY <1>3 DEF m

LEMMA RecordsOK ==
  ASSUME NEW S, servers \in Seq(S), NEW p \in Pages
  PROVE  Records(p) \in Seq(S)
<1> DEFINE m == (p - 1) * Limit + 1
           n == Min({p * Limit, Len(servers)})
<1>1. p \in Nat /\ p >= 1 /\ Limit \in Nat /\ Len(servers) \in Nat
  BY Constants
<1>2. (p - 1) * Limit \in Nat /\ p * Limit \in Nat
  BY <1>1
<1>3. m \in Nat /\ m >= 1
  BY <1>2
<1>4. n \in Nat /\ n <= Len(servers)
  BY <1>1, <1>2, MinFact
<1>5. Records(p) = SubSeq(servers, m, n)
  BY DEF Records
<1> HIDE DEF m, n
<1> QED
  BY <1>3, <1>4, <1>5

-----------------------------------------------------------------------------
(* Every step keeps the types.                                             *)

Typed == StoresOK /\ CachesOK /\ FramesOK

\* The writes of each handler, one by one.
LEMMA WritesFacts ==
  ASSUME NEW op \in Changes
  PROVE  /\ Writes(op) \in Seq({"mongo", "elastic"}) /\ Writes(op) # << >>
         /\ Writes(op) \in {<<"mongo", "elastic">>, <<"mongo">>, <<"elastic">>, <<"elastic", "mongo">>}
         /\ op \in {"AddServer", "DeleteServer"} => Writes(op) = <<"mongo", "elastic">>
         /\ op = "UpdateServer" => Writes(op) = <<"mongo">>
         /\ op = "Connect" => Writes(op) = <<"elastic">>
         /\ op = "ChangePassword" => Writes(op) = <<"elastic", "mongo">>
<1>1. op \in Writers
  BY Constants
<1>2. op \in {"AddServer", "DeleteServer"} => Writes(op) = <<"mongo", "elastic">>
  BY DEF Writes
<1>3. op = "UpdateServer" => Writes(op) = <<"mongo">>
  BY DEF Writes
<1>4. op = "Connect" => Writes(op) = <<"elastic">>
  BY DEF Writes
<1>5. op = "ChangePassword" => Writes(op) = <<"elastic", "mongo">>
  BY DEF Writes
<1>6. Writes(op) \in {<<"mongo", "elastic">>, <<"mongo">>, <<"elastic">>, <<"elastic", "mongo">>}
  BY <1>1, <1>2, <1>3, <1>4, <1>5 DEF Writers
<1>7. Writes(op) \in Seq({"mongo", "elastic"}) /\ Writes(op) # << >>
  <2> DEFINE D == {"mongo", "elastic"}
  <2>1. /\ <<"mongo", "elastic">> \in Seq(D) /\ <<"mongo", "elastic">> # << >>
        /\ <<"elastic", "mongo">> \in Seq(D) /\ <<"elastic", "mongo">> # << >>
    OBVIOUS
  <2>2. /\ <<"mongo">> \in Seq(D) /\ <<"mongo">> # << >>
        /\ <<"elastic">> \in Seq(D) /\ <<"elastic">> # << >>
    OBVIOUS
  <2> HIDE DEF D
  <2>3. Writes(op) \in Seq(D) /\ Writes(op) # << >>
    BY <1>6, <2>1, <2>2, Zenon
  <2> QED
    BY <2>3 DEF D
<1> QED
  BY <1>2, <1>3, <1>4, <1>5, <1>6, <1>7

LEMMA StartOK ==
  ASSUME Inv, NEW c \in Requests
  PROVE  /\ \A p \in Pages : Index(c, p) => Typed'
         /\ \A op \in Changes : \A id \in 1..(stamp + 1) : Change(c, op, id) => Typed'
<1>1. ASSUME NEW p \in Pages, Index(c, p) PROVE Typed'
  <2> DEFINE g == [Idle EXCEPT !.pc = "getRows", !.op = "Index", !.page = p]
  <2>1. FrameOK(g)
    <3>1. Idle \in Frame /\ FrameOK(Idle)
      BY IdleOK DEF FrameOK
    <3>2. g \in Frame
      BY <3>1 DEF Frame
    <3>3. g.pc = "getRows" /\ g.op = "Index" /\ g.page = p /\ g.kind = "rows" /\ g.found = << >>
      BY DEF Idle
    <3> HIDE DEF g
    <3> QED
      BY <3>2, <3>3 DEF FrameOK, IndexLabels, ChangeLabels
  <2>2. Local(c, g) /\ UNCHANGED <<stores, caches>>
    BY <1>1 DEF Index, Begin
  <2> QED
    BY <2>1, <2>2, LocalOK, KeptOK DEF Inv, Typed, StoresOK, stores
<1>2. ASSUME NEW op \in Changes, NEW id \in 1..(stamp + 1), Change(c, op, id) PROVE Typed'
  <2> DEFINE g == [Idle EXCEPT !.pc = "commit", !.op = op, !.todo = Writes(op),
                               !.target = id, !.mark = stamp']
  <2>1. /\ servers \in Seq(Rec) /\ stamp \in Nat /\ stamp <= Initial + MaxStamp
        /\ Initial + MaxStamp \in Nat
    BY Constants DEF Inv, StoresOK
  <2>2. stamp' \in Nat /\ stamp' <= Initial + MaxStamp
    BY <1>2, <2>1 DEF Change
  <2>3. id \in Ids
    <3>1. CASE op = "AddServer"
      BY <1>2, <2>1, <3>1 DEF Change, Ids
    <3>2. CASE op # "AddServer"
      <4>1. PICK i \in DOMAIN servers : servers[i].id = id
        BY <1>2, <3>2 DEF Change
      <4>2. servers[i] \in Rec
        BY <2>1
      <4> QED
        BY <4>1, <4>2 DEF Rec
    <3> QED
      BY <3>1, <3>2
  <2>4. Writes(op) \in Seq({"mongo", "elastic"}) /\ Writes(op) # << >>
    BY WritesFacts
  <2>5. FrameOK(g)
    <3>1. Idle \in Frame /\ FrameOK(Idle)
      BY IdleOK DEF FrameOK
    <3>2. g \in Frame
      <4>1. id \in Nat /\ op \in Changes \cup {"none", "Index"}
        BY <2>3, Constants DEF Ids
      <4> DEFINE writes == Writes(op)
                 mark == stamp'
      <4>2. writes \in Seq({"mongo", "elastic"}) /\ mark \in Nat
        BY <2>2, <2>4
      <4>3. g = [Idle EXCEPT !.pc = "commit", !.op = op, !.todo = writes, !.target = id,
                             !.mark = mark]
        OBVIOUS
      <4> HIDE DEF writes, mark, g
      <4> QED
        BY <3>1, <4>1, <4>2, <4>3 DEF Frame
    <3>3. /\ g.pc = "commit" /\ g.op = op /\ g.kind = "rows" /\ g.found = << >>
          /\ g.target = id /\ g.todo = Writes(op)
      BY DEF Idle
    <3> HIDE DEF g
    <3> QED
      BY <2>3, <2>4, <3>2, <3>3 DEF FrameOK, IndexLabels, ChangeLabels
  <2>6. Local(c, g) /\ UNCHANGED <<servers, indexed, visible, redis, older, global>>
    BY <1>2 DEF Change, Begin
  <2>7. FramesOK'
    BY <2>5, <2>6, LocalOK DEF Inv
  <2>8. DOMAIN drive' = Keys /\ \A key \in Keys : drive'[key] \in {drive[key], None}
    BY <1>2 DEF Change, Inv, CachesOK
  <2>9. CachesOK'
    BY <2>6, <2>8 DEF Inv, CachesOK
  <2> QED
    BY <2>2, <2>6, <2>7, <2>9 DEF Typed, StoresOK, Inv
<1> QED
  BY <1>1, <1>2

\* The steps of Index up to the answers of the cache.
LEMMA LookingOK ==
  ASSUME Inv, NEW c \in Requests, GetRows(c) \/ GetTotal(c)
  PROVE  Typed'
<1> DEFINE f == frame[c]
<1>1. f \in Frame /\ FrameOK(f) /\ f.page \in Pages /\ f.op = "Index" /\ f.kind = "rows"
  BY DEF GetRows, GetTotal, At, Inv, FramesOK, FrameOK, IndexLabels
<1>2. StoresOK'
  BY DEF GetRows, GetTotal, Inv, StoresOK, stores
<1>3. CASE GetRows(c)
  <2> DEFINE key == Key("rows", f.page)
             g == [f EXCEPT !.pc = "getTotal"]
             h(rows) == [f EXCEPT !.pc = "getTotal", !.rows = rows, !.hit = TRUE]
  <2>1. key \in Keys /\ Value(key) = Seq(Row)
    BY <1>1, KeyFacts
  <2>2. FrameOK(g)
    BY <1>1 DEF FrameOK, Frame, IndexLabels, ChangeLabels
  <2>3. ASSUME NEW rows \in Seq(Row) PROVE FrameOK(h(rows))
    BY <1>1, <2>3 DEF FrameOK, Frame, IndexLabels, ChangeLabels
  <2>4. \/ \E rows \in Found(drive[key], key) :
             Got(key, rows) /\ (Local(c, g) \/ (rows # None /\ Local(c, h(rows))))
        \/ UNCHANGED caches /\ Local(c, g)
    BY <1>3 DEF GetRows, Goto
  <2> HIDE DEF g, h
  <2>5. CASE UNCHANGED caches /\ Local(c, g)
    BY <1>2, <2>2, <2>5, LocalOK, KeptOK DEF Inv, Typed
  <2>6. ASSUME NEW rows \in Found(drive[key], key), Got(key, rows),
               Local(c, g) \/ (rows # None /\ Local(c, h(rows)))
        PROVE  Typed'
    <3>1. rows \in Seq(Row) \cup {None}
      BY <2>1, FoundOK DEF Inv
    <3>2. FramesOK'
      BY <2>2, <2>3, <2>6, <3>1, LocalOK DEF Inv
    <3> QED
      BY <1>2, <2>1, <2>6, <3>1, <3>2, GotOK DEF Inv, Typed
  <2> QED
    BY <2>4, <2>5, <2>6
<1>4. CASE GetTotal(c)
  <2> DEFINE key == Key("total", f.page)
             g == [f EXCEPT !.pc = "find", !.hit = FALSE]
             h(total) == [f EXCEPT !.pc = "reply", !.hit = FALSE, !.total = total]
  <2>1. key \in Keys /\ Value(key) = Nat
    BY <1>1, KeyFacts
  <2>2. FrameOK(g)
    BY <1>1 DEF FrameOK, Frame, IndexLabels, ChangeLabels
  <2>3. ASSUME NEW total \in Nat PROVE FrameOK(h(total))
    BY <1>1, <2>3 DEF FrameOK, Frame, IndexLabels, ChangeLabels
  <2>4. \/ \E total \in Found(drive[key], key) :
             Got(key, total) /\ (Local(c, g) \/ (total # None /\ Local(c, h(total))))
        \/ UNCHANGED caches /\ Local(c, g)
    BY <1>4 DEF GetTotal
  <2> HIDE DEF g, h
  <2>5. CASE UNCHANGED caches /\ Local(c, g)
    BY <1>2, <2>2, <2>5, LocalOK, KeptOK DEF Inv, Typed
  <2>6. ASSUME NEW total \in Found(drive[key], key), Got(key, total),
               Local(c, g) \/ (total # None /\ Local(c, h(total)))
        PROVE  Typed'
    <3>1. total \in Nat \cup {None}
      BY <2>1, FoundOK DEF Inv
    <3>2. FramesOK'
      BY <2>2, <2>3, <2>6, <3>1, LocalOK DEF Inv
    <3> QED
      BY <1>2, <2>1, <2>6, <3>1, <3>2, GotOK DEF Inv, Typed
  <2> QED
    BY <2>4, <2>5, <2>6
<1> QED
  BY <1>3, <1>4

\* The searches.
LEMMA SearchingOK ==
  ASSUME Inv, NEW c \in Requests, Find(c) \/ Count(c) \/ Status(c) \/ ReadFails(c)
  PROVE  Typed'
<1> DEFINE f == frame[c]
<1>1. /\ f \in Frame /\ FrameOK(f) /\ f.page \in Pages /\ f.op = "Index" /\ f.kind = "rows"
      /\ f.pc \in {"find", "count", "status"} /\ f.found \in Seq(Rec)
  BY DEF Find, Count, Status, ReadFails, At, Inv, FramesOK, FrameOK, IndexLabels
<1>2. UNCHANGED stores /\ UNCHANGED caches
  BY DEF Find, Count, Status, ReadFails
<1>3. StoresOK' /\ CachesOK'
  BY <1>2, KeptOK DEF Inv, StoresOK, stores
<1>4. CASE Find(c)
  <2> DEFINE found == Records(f.page)
             g == [f EXCEPT !.pc = "count", !.found = found]
  <2>1. found \in Seq(Rec) /\ found \in Seq(Record)
    BY <1>1, RecordsOK, SubsetOfRow DEF Inv, StoresOK
  <2>2. Local(c, g)
    BY <1>4 DEF Find
  <2>3. FrameOK(g)
    <3> HIDE DEF found
    <3> QED
      BY <1>1, <2>1 DEF FrameOK, Frame, IndexLabels, ChangeLabels
  <2> HIDE DEF g
  <2> QED
    BY <1>3, <2>2, <2>3, LocalOK DEF Inv, Typed
<1>5. CASE Count(c)
  <2> DEFINE total == Min({Len(servers), FirstBatch})
             g == [f EXCEPT !.pc = "setRows", !.total = 0]
             h == [f EXCEPT !.pc = "status", !.total = total]
  <2>1. total \in Nat
    BY MinFact, Constants DEF Inv, StoresOK
  <2>2. Local(c, g) \/ (f.found # << >> /\ Local(c, h))
    BY <1>5 DEF Count
  <2> HIDE DEF total
  <2>3. FrameOK(g) /\ (f.found # << >> => FrameOK(h))
    BY <1>1, <2>1 DEF FrameOK, Frame, IndexLabels, ChangeLabels
  <2> HIDE DEF g, h
  <2> QED
    BY <1>3, <2>2, <2>3, LocalOK DEF Inv, Typed
<1>6. CASE Status(c)
  <2> DEFINE next == Head(f.found)
             row == [id |-> next.id, attr |-> next.attr, status |-> visible[next.id]]
             label == IF Len(f.found) = 1 THEN "setRows" ELSE "status"
             rows == Append(f.rows, row)
             rest == Tail(f.found)
             g == [f EXCEPT !.pc = label, !.rows = rows, !.found = rest]
  <2>1. f.found # << >>
    BY <1>1, <1>6 DEF FrameOK, Status, At
  <2>2. next \in Rec /\ rest \in Seq(Rec) /\ rest \in Seq(Record)
        /\ (Len(f.found) # 1 => rest # << >>)
    BY <1>1, <2>1, SubsetOfRow, HeadTail
  <2>3. row \in Row
    <3>1. next.id \in Ids /\ next.attr \in Nat
      BY <2>2 DEF Rec
    <3>2. visible[next.id] \in Nat /\ next.id \in Nat
      BY <3>1, Constants DEF Inv, StoresOK, Ids
    <3> QED
      BY <3>1, <3>2 DEF Row
  <2>4. rows \in Seq(Row)
    BY <1>1, <2>3 DEF Frame
  <2>5. Local(c, g)
    BY <1>6 DEF Status
  <2>6. label \in {"setRows", "status"} /\ (label = "status" => rest # << >>)
    BY <2>2
  <2> HIDE DEF label, rows, rest, row, next
  <2>7. FrameOK(g)
    BY <1>1, <2>2, <2>4, <2>6 DEF FrameOK, Frame, IndexLabels, ChangeLabels
  <2> HIDE DEF g
  <2> QED
    BY <1>3, <2>5, <2>7, LocalOK DEF Inv, Typed
<1>7. CASE ReadFails(c)
  BY <1>3, <1>7, LocalOK, IdleOK DEF ReadFails, Return, Inv, Typed
<1> QED
  BY <1>4, <1>5, <1>6, <1>7

\* The caching of a page.
LEMMA CachingOK ==
  ASSUME Inv, NEW c \in Requests,
         SetRows(c) \/ SetTotal(c) \/ GetList(c) \/ SetList(c) \/ SetListPanics(c) \/ Reply(c)
  PROVE  Typed'
<1> DEFINE f == frame[c]
           p == f.page
           kind == f.kind
<1>1. f \in Frame /\ FrameOK(f) /\ p \in Pages /\ f.op = "Index" /\ kind \in Kinds
  BY DEF SetRows, SetTotal, GetList, SetList, SetListPanics, Reply, At, Inv, FramesOK, FrameOK,
         IndexLabels, Frame
<1>2. UNCHANGED stores
  BY DEF SetRows, SetTotal, GetList, SetList, SetListPanics, Reply
<1>3. StoresOK'
  BY <1>2 DEF Inv, StoresOK, stores
<1>4. CASE SetRows(c) \/ SetTotal(c)
  <2> DEFINE g == [f EXCEPT !.pc = "setTotal"]
             h == [f EXCEPT !.pc = "getList"]
  <2>1. f.kind = "rows"
    BY <1>1, <1>4 DEF FrameOK, SetRows, SetTotal, At
  <2>2. FrameOK(g) /\ FrameOK(h)
    <3>1. FrameOK(g)
      BY <1>1, <2>1 DEF FrameOK, Frame, IndexLabels, ChangeLabels
    <3>2. FrameOK(h)
      BY <1>1, <2>1 DEF FrameOK, Frame, IndexLabels, ChangeLabels
    <3> QED
      BY <3>1, <3>2
  <2>3. Local(c, g) \/ Local(c, h)
    <3>1. Goto(c, "setTotal") \/ Goto(c, "getList")
      BY <1>4 DEF SetRows, SetTotal
    <3> QED
      BY <3>1 DEF Goto
  <2>4. \/ UNCHANGED caches
        \/ Set(Key("rows", p), f.rows)
        \/ Set(Key("total", p), f.total)
    BY <1>4 DEF SetRows, SetTotal
  <2>5. /\ Key("rows", p) \in Keys /\ f.rows \in Value(Key("rows", p))
        /\ Key("total", p) \in Keys /\ f.total \in Value(Key("total", p))
    BY <1>1, KeyFacts DEF Frame
  <2>6. CachesOK'
    BY <2>4, <2>5, SetOK, KeptOK DEF Inv
  <2> HIDE DEF g, h
  <2> QED
    BY <1>3, <2>2, <2>3, <2>6, LocalOK DEF Inv, Typed
<1>5. CASE GetList(c)
  <2> DEFINE g(list) == [f EXCEPT !.pc = "setList", !.keys = IF list = None THEN {} ELSE list]
  <2>1. PICK list \in Found(global[kind], ListKey(kind)) \cup {None} :
          /\ Local(c, g(list))
          /\ \/ /\ global' = [global EXCEPT ![kind] = list]
                /\ list \in Found(global[kind], ListKey(kind))
             \/ UNCHANGED global
    BY <1>5 DEF GetList
  <2>2. UNCHANGED <<redis, older, drive>>
    BY <1>5 DEF GetList
  <2>3. list \in (SUBSET Pages) \cup {None}
        /\ (list \in Found(global[kind], ListKey(kind)) => list \in {None, redis[ListKey(kind)]})
    BY <1>1, KeyFacts DEF Found, Inv, CachesOK
  <2>4. FrameOK(g(list))
    <3> DEFINE keys == IF list = None THEN {} ELSE list
    <3>1. keys \in SUBSET Pages
      BY <2>3
    <3> HIDE DEF keys
    <3>2. FrameOK([f EXCEPT !.pc = "setList", !.keys = keys])
      BY <1>1, <3>1 DEF FrameOK, Frame, IndexLabels, ChangeLabels
    <3> QED
      BY <3>2 DEF keys
  <2> HIDE DEF g
  <2>5. CachesOK'
    BY <1>1, <2>1, <2>2, <2>3 DEF Inv, CachesOK
  <2> QED
    BY <1>3, <2>1, <2>4, <2>5, LocalOK DEF Inv, Typed
<1>6. CASE SetList(c)
  <2> DEFINE keys == Listed(f.keys, p)
             g == [f EXCEPT !.pc = "getList", !.kind = "total", !.keys = {}]
             h == [f EXCEPT !.pc = "reply", !.kind = "rows", !.keys = {}]
  <2>1. keys \in SUBSET Pages
    BY <1>1 DEF Listed, Frame
  <2>2. Set(ListKey(kind), keys) /\ (Local(c, g) \/ Local(c, h))
    BY <1>6 DEF SetList
  <2>3. FrameOK(g) /\ FrameOK(h)
    BY <1>1 DEF FrameOK, Frame, IndexLabels, ChangeLabels, Kinds
  <2> HIDE DEF g, h, keys
  <2>4. CachesOK'
    BY <1>1, <2>1, <2>2, SetOK, KeyFacts DEF Inv
  <2> QED
    BY <1>3, <2>2, <2>3, <2>4, LocalOK DEF Inv, Typed
<1>7. CASE SetListPanics(c)
  BY <1>3, <1>7, ExitOK DEF SetListPanics, Typed
<1>8. CASE Reply(c)
  BY <1>3, <1>8, LocalOK, IdleOK, KeptOK DEF Reply, Return, Inv, Typed
<1> QED
  BY <1>4, <1>5, <1>6, <1>7, <1>8

\* The next store to be written, and what is left after it.
LEMMA TodoFacts ==
  ASSUME NEW f, FrameOK(f), f.pc = "commit"
  PROVE  /\ f.op \in Changes /\ f.target \in Ids /\ f.mark \in Nat
         /\ Head(f.todo) \in {"mongo", "elastic"}
         /\ Head(f.todo) = "elastic" => f.op # "UpdateServer"
         /\ Len(f.todo) > 1 => /\ f.todo = Writes(f.op)
                               /\ Tail(f.todo) = Tail(Writes(f.op))
                               /\ Tail(f.todo) # << >>
         /\ Tail(f.todo) \in Seq({"mongo", "elastic"})
<1>1. f.op \in Changes /\ f.target \in Ids /\ f.mark \in Nat
  BY DEF FrameOK, ChangeLabels, Frame
<1>2. f.todo \in {Writes(f.op), Tail(Writes(f.op))} \ {<< >>} /\ f.todo \in Seq({"mongo", "elastic"})
  BY DEF FrameOK, Frame
<1>3. Writes(f.op) \in {<<"mongo", "elastic">>, <<"mongo">>, <<"elastic">>, <<"elastic", "mongo">>}
      /\ (f.op = "UpdateServer" => Writes(f.op) = <<"mongo">>)
  BY <1>1, WritesFacts
<1>4. /\ Tail(<<"mongo", "elastic">>) = <<"elastic">> /\ Tail(<<"elastic", "mongo">>) = <<"mongo">>
      /\ Tail(<<"mongo">>) = << >> /\ Tail(<<"elastic">>) = << >>
      /\ Len(<<"mongo", "elastic">>) = 2 /\ Len(<<"elastic", "mongo">>) = 2
      /\ Len(<<"mongo">>) = 1 /\ Len(<<"elastic">>) = 1
      /\ Head(<<"mongo">>) = "mongo" /\ Head(<<"elastic">>) = "elastic"
  OBVIOUS
<1>5. Head(f.todo) \in {"mongo", "elastic"} /\ Tail(f.todo) \in Seq({"mongo", "elastic"})
  BY <1>2, HeadTail
<1> DEFINE w == Writes(f.op)
           m == <<"mongo">>
           e == <<"elastic">>
           me == <<"mongo", "elastic">>
           em == <<"elastic", "mongo">>
<1>6. /\ w \in {me, m, e, em}
      /\ f.todo \in {w, Tail(w)} \ {<< >>}
      /\ f.op = "UpdateServer" => w = m
  BY <1>2, <1>3
<1>7. /\ Tail(me) = e /\ Tail(em) = m /\ Tail(m) = << >> /\ Tail(e) = << >>
      /\ Len(me) = 2 /\ Len(em) = 2 /\ Len(m) = 1 /\ Len(e) = 1
      /\ Head(m) = "mongo" /\ m # << >> /\ e # << >>
  BY <1>4
<1> HIDE DEF w, m, e, me, em
<1>8. f.op = "UpdateServer" => f.todo = m
  BY <1>6, <1>7
<1>9. f.todo \in {w, m, e}
  BY <1>6, <1>7
<1>10. Len(f.todo) > 1 => f.todo = w /\ w \in {me, em}
  BY <1>6, <1>7, <1>9
<1>11. Len(f.todo) > 1 => Tail(f.todo) \in {m, e}
  BY <1>7, <1>10
<1> QED
  BY <1>1, <1>5, <1>7, <1>8, <1>10, <1>11 DEF w

LEMMA WriteOK ==
  ASSUME StoresOK, NEW f, FrameOK(f), f.pc = "commit", Write(f)
  PROVE  StoresOK'
<1>1. f.op \in Changes /\ f.target \in Ids /\ f.mark \in Nat
  BY TodoFacts
<1>2. CASE /\ servers' \in MongoWrites(f.op, f.target, f.mark)
           /\ UNCHANGED <<indexed, visible, stamp>>
  <2>1. CASE f.op = "AddServer"
    <3> DEFINE r == [id |-> f.target, attr |-> f.mark]
    <3>1. r \in Rec
      BY <1>1 DEF Rec
    <3>2. servers' = <<r>> \o servers
      BY <1>2, <2>1 DEF MongoWrites
    <3> HIDE DEF r
    <3>3. servers' \in Seq(Rec)
      BY <3>1, <3>2 DEF StoresOK
    <3> QED
      BY <1>2, <3>3 DEF StoresOK
  <2>2. CASE f.op = "DeleteServer"
    <3>1. PICK i \in DOMAIN servers : servers' = RemoveAt(servers, i)
      BY <1>2, <2>2 DEF MongoWrites
    <3>2. servers' \in Seq(Rec)
      BY <3>1, RemoveFact DEF StoresOK
    <3> QED
      BY <1>2, <3>2 DEF StoresOK
  <2>3. CASE f.op \notin {"AddServer", "DeleteServer"}
    <3> DEFINE r(i) == IF servers[i].id = f.target THEN [servers[i] EXCEPT !.attr = f.mark]
                       ELSE servers[i]
    <3>1. servers' = [i \in DOMAIN servers |-> r(i)]
      BY <1>2, <2>3 DEF MongoWrites
    <3>2. ASSUME NEW i \in DOMAIN servers PROVE r(i) \in Rec
      <4>1. servers[i] \in Rec
        BY DEF StoresOK
      <4> QED
        BY <1>1, <4>1 DEF Rec
    <3> HIDE DEF r
    <3>3. DOMAIN servers = 1..Len(servers) /\ Len(servers) \in Nat
      BY DEF StoresOK
    <3>4. servers' \in Seq(Rec)
      BY <3>1, <3>2, <3>3
    <3> QED
      BY <1>2, <3>4 DEF StoresOK
  <2> QED
    BY <2>1, <2>2, <2>3
<1>3. CASE /\ Head(f.todo) = "elastic"
           /\ indexed' \in ElasticWrites(f.op, f.target, f.mark)
           /\ UNCHANGED <<servers, visible, stamp>>
  <2> DEFINE marked == [indexed EXCEPT ![f.target] = f.mark]
             gone == [indexed EXCEPT ![f.target] = 0]
  <2>1. f.op \in {"AddServer", "DeleteServer", "Connect", "ChangePassword"}
    BY <1>1, <1>3, TodoFacts, Constants DEF Writers
  <2>2. indexed' \in {indexed, marked, gone}
    BY <1>3, <2>1 DEF ElasticWrites
  <2>3. marked \in [Ids -> Nat] /\ gone \in [Ids -> Nat]
    BY <1>1 DEF StoresOK
  <2> QED
    BY <1>3, <2>2, <2>3 DEF StoresOK
<1> QED
  BY <1>2, <1>3 DEF Write

LEMMA AfterWriteOK ==
  ASSUME FramesOK, NEW c \in Requests, At(c, "commit"), AfterWrite(c)
  PROVE  FramesOK'
<1> DEFINE f == frame[c]
           rest == Tail(f.todo)
           g == [f EXCEPT !.todo = rest]
           h == [Idle EXCEPT !.pc = "readList", !.op = f.op, !.kind = "rows"]
<1>1. f \in Frame /\ FrameOK(f) /\ f.pc = "commit" /\ f.op \in Changes
  BY DEF At, FramesOK, FrameOK, ChangeLabels
<1>2. rest \in Seq({"mongo", "elastic"})
      /\ (Len(f.todo) > 1 => rest = Tail(Writes(f.op)) /\ rest # << >>)
  BY <1>1, TodoFacts
<1>3. (Len(f.todo) > 1 /\ Local(c, g)) \/ Local(c, h)
  BY DEF AfterWrite
<1>4. Idle \in Frame
  BY IdleOK DEF FrameOK
<1> HIDE DEF rest
<1>5. Len(f.todo) > 1 => FrameOK(g)
  BY <1>1, <1>2 DEF FrameOK, Frame, IndexLabels, ChangeLabels
<1>6. FrameOK(h)
  <2>1. h \in Frame
    BY <1>1, <1>4 DEF Frame, Kinds
  <2>2. h.pc = "readList" /\ h.op = f.op /\ h.kind = "rows" /\ h.found = << >>
    BY DEF Idle
  <2> HIDE DEF h
  <2> QED
    BY <1>1, <2>1, <2>2 DEF FrameOK, IndexLabels, ChangeLabels
<1> HIDE DEF g, h
<1> QED
  BY <1>3, <1>5, <1>6, LocalOK

\* The steps of the handlers that change servers.
LEMMA ChangingOK ==
  ASSUME Inv, NEW c \in Requests, ChangeStep(c)
  PROVE  Typed'
<1> DEFINE f == frame[c]
           kind == f.kind
<1>1. f \in Frame /\ FrameOK(f) /\ kind \in Kinds
  BY DEF Inv, FramesOK, FrameOK, Frame
<1>2. CASE Commit(c) \/ CommitMisses(c) \/ CommitPanics(c) \/ CommitFails(c)
  <2>1. f.pc = "commit" /\ At(c, "commit")
    BY <1>2 DEF Commit, CommitMisses, CommitPanics, CommitFails, At
  <2>2. StoresOK'
    <3>1. Write(f) \/ UNCHANGED stores
      BY <1>2 DEF Commit, CommitMisses, CommitPanics, CommitFails
    <3>2. UNCHANGED stores => StoresOK'
      BY DEF Inv, StoresOK, stores
    <3> QED
      BY <1>1, <2>1, <3>1, <3>2, WriteOK DEF Inv
  <2>3. \/ (AfterWrite(c) \/ Return(c)) /\ UNCHANGED caches
        \/ Exit
    BY <1>2 DEF Commit, CommitMisses, CommitPanics, CommitFails
  <2>4. CachesOK' /\ FramesOK'
    BY <2>1, <2>3, AfterWriteOK, ExitOK, KeptOK, LocalOK, IdleOK DEF Return, Inv
  <2> QED
    BY <2>2, <2>4 DEF Typed
<1>3. CASE ReadList(c)
  <2> DEFINE key == ListKey(kind)
             g(list) == [f EXCEPT !.pc = "delete", !.keys = IF list = None THEN {} ELSE list]
             h == [f EXCEPT !.pc = "delete"]
  <2>1. key \in Keys /\ Value(key) = SUBSET Pages
    BY <1>1, KeyFacts
  <2>2. \/ \E list \in Found(drive[key], key) : Got(key, list) /\ Local(c, g(list))
        \/ UNCHANGED caches /\ Local(c, h)
    BY <1>3 DEF ReadList, Goto
  <2>3. f.op \in Changes
    BY <1>1, <1>3 DEF ReadList, At, FrameOK, ChangeLabels
  <2>4. FrameOK(h)
    BY <1>1, <2>3 DEF FrameOK, Frame, IndexLabels, ChangeLabels
  <2>5. ASSUME NEW list \in (SUBSET Pages) \cup {None} PROVE FrameOK(g(list))
    <3> DEFINE keys == IF list = None THEN {} ELSE list
    <3>1. keys \in SUBSET Pages
      OBVIOUS
    <3> HIDE DEF keys
    <3>2. FrameOK([f EXCEPT !.pc = "delete", !.keys = keys])
      BY <1>1, <2>3, <3>1 DEF FrameOK, Frame, IndexLabels, ChangeLabels
    <3> QED
      BY <3>2 DEF keys
  <2> HIDE DEF g, h
  <2>6. StoresOK'
    BY <1>3 DEF ReadList, Inv, StoresOK, stores
  <2>7. CASE UNCHANGED caches /\ Local(c, h)
    BY <2>4, <2>6, <2>7, KeptOK, LocalOK DEF Inv, Typed
  <2>8. ASSUME NEW list \in Found(drive[key], key), Got(key, list), Local(c, g(list))
        PROVE  Typed'
    <3>1. list \in (SUBSET Pages) \cup {None}
      BY <2>1, FoundOK DEF Inv
    <3>2. FrameOK(g(list))
      BY <2>5, <3>1
    <3>3. FramesOK'
      BY <2>8, <3>2, LocalOK DEF Inv
    <3> QED
      BY <2>1, <2>6, <2>8, <3>1, <3>3, GotOK DEF Inv, Typed
  <2> QED
    BY <2>2, <2>7, <2>8
<1>4. ASSUME NEW p \in Pages, DeleteKey(c, p) PROVE Typed'
  <2> DEFINE g == [f EXCEPT !.keys = @ \ {p}]
  <2>1. f.pc = "delete" /\ Local(c, g) /\ UNCHANGED stores
    BY <1>4 DEF DeleteKey, At
  <2>2. FrameOK(g)
    BY <1>1, <2>1 DEF FrameOK, Frame, IndexLabels, ChangeLabels
  <2> HIDE DEF g
  <2>3. \/ Delete(Key(kind, p))
        \/ drive' = [drive EXCEPT ![Key(kind, p)] = None] /\ UNCHANGED <<redis, older, global>>
    BY <1>4 DEF DeleteKey
  <2>4. CachesOK'
    BY <1>1, <2>3, DeleteOK DEF Inv, CachesOK
  <2> QED
    BY <2>1, <2>2, <2>4, LocalOK DEF Inv, Typed, StoresOK, stores
<1>5. CASE ListDone(c)
  <2> DEFINE g == [f EXCEPT !.pc = "readList", !.kind = "total"]
  <2>1. f.pc = "delete" /\ (Local(c, g) \/ Local(c, Idle)) /\ UNCHANGED <<stores, caches>>
    BY <1>5 DEF ListDone, At, Return
  <2>2. FrameOK(g)
    BY <1>1, <2>1 DEF FrameOK, Frame, IndexLabels, ChangeLabels, Kinds
  <2> HIDE DEF g
  <2> QED
    BY <2>1, <2>2, LocalOK, IdleOK, KeptOK DEF Inv, Typed, StoresOK, stores
<1> QED
  BY <1>2, <1>3, <1>4, <1>5 DEF ChangeStep

LEMMA EnvironmentOK ==
  ASSUME Inv, Expire \/ Refresh \/ Crash
  PROVE  Typed'
<1>1. CASE Expire
  <2>1. PICK key \in Keys :
          /\ redis' = [redis EXCEPT ![key] = None]
          /\ older' = Without(key)
          /\ global' = IF key[2] = 0 THEN [global EXCEPT ![key[1]] = None] ELSE global
    BY <1>1 DEF Expire
  <2>2. older' \in [Keys -> SUBSET Keys]
    BY <2>1, WithoutOK DEF Inv
  <2>3. UNCHANGED <<stores, drive, frame>>
    BY <1>1 DEF Expire
  <2>4. \A k \in Keys : redis'[k] = IF k = key THEN None ELSE redis[k]
    BY <2>1 DEF Inv, CachesOK
  <2>5. CASE key[2] = 0
    <3>1. PICK kind \in Kinds : key = ListKey(kind) /\ key[1] = kind
      BY <2>5, KeyFacts
    <3>2. global' = [global EXCEPT ![kind] = None]
      BY <2>1, <2>5, <3>1
    <3>3. \A k \in Kinds : global'[k] \in {None, redis'[ListKey(k)]}
      BY <2>4, <3>1, <3>2, KeyFacts DEF Inv, CachesOK
    <3>4. global' \in [Kinds -> (SUBSET Pages) \cup {None}] /\ DOMAIN redis' = Keys
      BY <2>1, <3>2 DEF Inv, CachesOK
    <3> QED
      BY <2>2, <2>3, <2>4, <3>3, <3>4 DEF Inv, Typed, CachesOK, FramesOK, StoresOK, stores
  <2>6. CASE key[2] # 0
    <3>1. \A k \in Kinds : redis'[ListKey(k)] = redis[ListKey(k)]
      BY <2>4, <2>6, KeyFacts
    <3> QED
      BY <2>1, <2>2, <2>3, <2>4, <2>6, <3>1 DEF Inv, Typed, CachesOK, FramesOK, StoresOK, stores
  <2> QED
    BY <2>5, <2>6
<1>2. CASE Refresh
  BY <1>2 DEF Refresh, Inv, Typed, StoresOK, CachesOK, FramesOK, caches
<1>3. CASE Crash
  BY <1>3, ExitOK DEF Crash, Inv, Typed, StoresOK, stores
<1> QED
  BY <1>1, <1>2, <1>3

LEMMA InitOK == Init => Inv
<1> SUFFICES ASSUME Init PROVE Inv
  OBVIOUS
<1>1. StoresOK
  <2>1. Initial \in Nat /\ MaxStamp \in Nat
    BY Constants
  <2> DEFINE r(i) == [id |-> Initial + 1 - i, attr |-> Initial + 1 - i]
             status(id) == IF id <= Initial THEN id ELSE 0
  <2>2. (\A i \in 1..Initial : r(i) \in Rec) /\ \A id \in Ids : status(id) \in Nat
    BY <2>1 DEF Rec, Ids
  <2>3. servers = [i \in 1..Initial |-> r(i)] /\ indexed = [id \in Ids |-> status(id)]
    BY DEF Init, Ids
  <2> HIDE DEF r, status
  <2>4. servers \in Seq(Rec) /\ indexed \in [Ids -> Nat]
    BY <2>1, <2>2, <2>3
  <2>5. visible = indexed /\ stamp = Initial
    BY DEF Init
  <2> QED
    BY <2>1, <2>4, <2>5 DEF StoresOK
<1>2. CachesOK
  BY KeyFacts DEF Init, CachesOK
<1>3. FramesOK
  BY IdleOK DEF Init, FramesOK, FrameOK
<1> QED
  BY <1>1, <1>2, <1>3 DEF Init, Inv, HarmOK

LEMMA InvStep == Inv /\ [Next]_vars => Inv'
<1> SUFFICES ASSUME Inv, [Next]_vars PROVE Typed'
  BY HarmStep DEF Inv, Typed
<1>1. ASSUME NEW c \in Requests, Start(c) PROVE Typed'
  BY <1>1, StartOK DEF Start
<1>2. ASSUME NEW c \in Requests, IndexStep(c) PROVE Typed'
  BY <1>2, LookingOK, SearchingOK, CachingOK DEF IndexStep
<1>3. ASSUME NEW c \in Requests, ChangeStep(c) PROVE Typed'
  BY <1>3, ChangingOK
<1>4. CASE UNCHANGED vars
  BY <1>4 DEF vars, stores, caches, Inv, Typed, StoresOK, CachesOK, FramesOK
<1> QED
  BY <1>1, <1>2, <1>3, <1>4, EnvironmentOK DEF Next

LEMMA InvHolds == Spec => []Inv
  BY InitOK, InvStep, PTL DEF Spec

\* TypeOK, of Index, the handlers that change servers, and their cache: for any number of
\* requests, pages and changes.
THEOREM TypeOKHolds == Spec => []TypeOK
<1>1. Inv => TypeOK
  <2> SUFFICES ASSUME Inv PROVE TypeOK
    OBVIOUS
  <2>1. servers \in Seq(Record)
    BY SubsetOfRow DEF Inv, StoresOK
  <2> QED
    BY <2>1 DEF Inv, StoresOK, CachesOK, FramesOK, HarmOK, TypeOK, Ids
<1> QED
  BY <1>1, InvHolds, PTL

-----------------------------------------------------------------------------
(* What each step does, as long as Redis answers and the process lives.    *)

\* c goes on from a label with the same page.
Moved(c, from, to) ==
  LET f == frame[c] g == frame'[c] IN
  /\ f.pc = from /\ g.pc = to
  /\ Local(c, g)
  /\ g.op = f.op /\ g.page = f.page

\* A row is added to the page, for a record that was found.
RowOf(record) == [id |-> record.id, attr |-> record.attr, status |-> visible[record.id]]

LEMMA LookingTurns ==
  ASSUME Inv, NEW c \in Requests, "redisError" \notin mishaps'
  PROVE  LET f == frame[c] g == frame'[c] IN
         /\ GetRows(c) =>
              \E rows \in Found(drive[Key("rows", f.page)], Key("rows", f.page)) :
                /\ Got(Key("rows", f.page), rows)
                /\ Moved(c, "getRows", "getTotal")
                /\ g.kind = f.kind /\ g.found = f.found
                /\ g.rows = IF rows = None THEN f.rows ELSE rows
                /\ g.hit = IF rows = None THEN f.hit ELSE TRUE
                /\ UNCHANGED harm
         /\ GetTotal(c) =>
              \E total \in Found(drive[Key("total", f.page)], Key("total", f.page)) :
                /\ Got(Key("total", f.page), total)
                /\ \/ f.hit /\ total # None /\ Moved(c, "getTotal", "reply") /\ g.total = total
                   \/ (~ f.hit \/ total = None) /\ Moved(c, "getTotal", "find")
                /\ g.kind = f.kind /\ g.found = f.found /\ g.rows = f.rows /\ g.hit = FALSE
                /\ UNCHANGED harm
<1> DEFINE f == frame[c] g == frame'[c]
<1>1. f \in Frame /\ frame \in [Requests -> Frame] /\ ~ Mishap("redisError")
  BY DEF Inv, FramesOK, Mishap, Happens
<1>2. \A h : Local(c, h) => Local(c, g) /\ g = h
  BY <1>1 DEF Local
<1>3. ASSUME GetRows(c)
      PROVE  \E rows \in Found(drive[Key("rows", f.page)], Key("rows", f.page)) :
                /\ Got(Key("rows", f.page), rows)
                /\ Moved(c, "getRows", "getTotal")
                /\ g.kind = f.kind /\ g.found = f.found
                /\ g.rows = IF rows = None THEN f.rows ELSE rows
                /\ g.hit = IF rows = None THEN f.hit ELSE TRUE
                /\ UNCHANGED harm
  <2> DEFINE h == [f EXCEPT !.pc = "getTotal"]
             hh(rows) == [f EXCEPT !.pc = "getTotal", !.rows = rows, !.hit = TRUE]
             key == Key("rows", f.page)
  <2>1. PICK rows \in Found(drive[key], key) :
          /\ Got(key, rows) /\ UNCHANGED harm
          /\ IF rows = None THEN Local(c, h) ELSE Local(c, hh(rows))
    BY <1>1, <1>3 DEF GetRows, Goto
  <2>2. /\ h.pc = "getTotal" /\ h.op = f.op /\ h.page = f.page /\ h.kind = f.kind
        /\ h.found = f.found /\ h.rows = f.rows /\ h.hit = f.hit
    BY <1>1 DEF Frame
  <2>3. /\ hh(rows).pc = "getTotal" /\ hh(rows).op = f.op /\ hh(rows).page = f.page
        /\ hh(rows).kind = f.kind
        /\ hh(rows).found = f.found /\ hh(rows).rows = rows /\ hh(rows).hit = TRUE
    BY <1>1 DEF Frame
  <2>4. f.pc = "getRows"
    BY <1>3 DEF GetRows, At
  <2> HIDE DEF h, hh
  <2> QED
    BY <1>2, <2>1, <2>2, <2>3, <2>4 DEF Moved
<1>4. ASSUME GetTotal(c)
      PROVE  \E total \in Found(drive[Key("total", f.page)], Key("total", f.page)) :
                /\ Got(Key("total", f.page), total)
                /\ \/ f.hit /\ total # None /\ Moved(c, "getTotal", "reply") /\ g.total = total
                   \/ (~ f.hit \/ total = None) /\ Moved(c, "getTotal", "find")
                /\ g.kind = f.kind /\ g.found = f.found /\ g.rows = f.rows /\ g.hit = FALSE
                /\ UNCHANGED harm
  <2> DEFINE h == [f EXCEPT !.pc = "find", !.hit = FALSE]
             hh(total) == [f EXCEPT !.pc = "reply", !.hit = FALSE, !.total = total]
             key == Key("total", f.page)
  <2>1. PICK total \in Found(drive[key], key) :
          /\ Got(key, total) /\ UNCHANGED harm
          /\ IF f.hit /\ total # None THEN Local(c, hh(total)) ELSE Local(c, h)
    BY <1>1, <1>4 DEF GetTotal
  <2>2. /\ h.pc = "find" /\ h.op = f.op /\ h.page = f.page /\ h.kind = f.kind
        /\ h.found = f.found /\ h.rows = f.rows /\ h.hit = FALSE
    BY <1>1 DEF Frame
  <2>3. /\ hh(total).pc = "reply" /\ hh(total).op = f.op /\ hh(total).page = f.page
        /\ hh(total).kind = f.kind /\ hh(total).total = total
        /\ hh(total).found = f.found /\ hh(total).rows = f.rows /\ hh(total).hit = FALSE
    BY <1>1 DEF Frame
  <2>4. f.pc = "getTotal"
    BY <1>4 DEF GetTotal, At
  <2> HIDE DEF h, hh
  <2> QED
    BY <1>2, <2>1, <2>2, <2>3, <2>4 DEF Moved
<1> QED
  BY <1>3, <1>4

LEMMA SearchingTurns ==
  ASSUME Inv, NEW c \in Requests
  PROVE  LET f == frame[c] g == frame'[c] IN
         /\ Find(c) => /\ Moved(c, "find", "count") /\ UNCHANGED harm
                       /\ g.kind = f.kind /\ g.rows = f.rows /\ g.found = Records(f.page)
         /\ Count(c) =>
              /\ \/ f.found = << >> /\ Moved(c, "count", "setRows") /\ g.total = 0
                 \/ /\ f.found # << >> /\ Moved(c, "count", "status")
                    /\ g.total = Min({Len(servers), FirstBatch})
              /\ g.kind = f.kind /\ g.rows = f.rows /\ g.found = f.found /\ UNCHANGED harm
         /\ Status(c) =>
              LET next == Head(f.found) IN
              /\ \/ Len(f.found) = 1 /\ Moved(c, "status", "setRows")
                 \/ Len(f.found) # 1 /\ Moved(c, "status", "status")
              /\ g.kind = f.kind /\ g.total = f.total
              /\ g.rows = Append(f.rows, RowOf(next))
              /\ g.found = Tail(f.found)
              /\ visible[next.id] # indexed[next.id] =>
                   "unrefreshed" \in mishaps' /\ f.page \in excused'
         /\ ReadFails(c) => /\ f.pc \in {"find", "count", "status"} /\ Local(c, Idle)
                            /\ UNCHANGED excused
         /\ Find(c) \/ Count(c) \/ Status(c) \/ ReadFails(c) =>
              /\ UNCHANGED caches /\ UNCHANGED stores
<1> DEFINE f == frame[c] g == frame'[c]
<1>1. f \in Frame /\ frame \in [Requests -> Frame]
  BY DEF Inv, FramesOK
<1>2. \A h : Local(c, h) => Local(c, g) /\ g = h
  BY <1>1 DEF Local
<1>3. Find(c) => /\ Moved(c, "find", "count") /\ UNCHANGED harm
                 /\ g.kind = f.kind /\ g.rows = f.rows /\ g.found = Records(f.page)
  <2> DEFINE h == [f EXCEPT !.pc = "count", !.found = Records(f.page)]
  <2>1. /\ h.pc = "count" /\ h.op = f.op /\ h.page = f.page /\ h.kind = f.kind
        /\ h.rows = f.rows /\ h.found = Records(f.page)
    BY <1>1 DEF Frame
  <2>2. Find(c) => Local(c, h) /\ f.pc = "find" /\ UNCHANGED harm
    BY DEF Find, At
  <2> HIDE DEF h
  <2> QED
    BY <1>2, <2>1, <2>2 DEF Moved
<1>4. Count(c) =>
              /\ \/ f.found = << >> /\ Moved(c, "count", "setRows") /\ g.total = 0
                 \/ /\ f.found # << >> /\ Moved(c, "count", "status")
                    /\ g.total = Min({Len(servers), FirstBatch})
              /\ g.kind = f.kind /\ g.rows = f.rows /\ g.found = f.found /\ UNCHANGED harm
  <2> DEFINE total == Min({Len(servers), FirstBatch})
             h == [f EXCEPT !.pc = "setRows", !.total = 0]
             hh == [f EXCEPT !.pc = "status", !.total = total]
  <2>1. Count(c) => /\ f.pc = "count" /\ UNCHANGED harm
                    /\ IF f.found = << >> THEN Local(c, h) ELSE Local(c, hh)
    BY DEF Count, At
  <2> HIDE DEF total
  <2>2. /\ h.pc = "setRows" /\ h.op = f.op /\ h.page = f.page /\ h.kind = f.kind
        /\ h.rows = f.rows /\ h.found = f.found /\ h.total = 0
    BY <1>1 DEF Frame
  <2>3. /\ hh.pc = "status" /\ hh.op = f.op /\ hh.page = f.page /\ hh.kind = f.kind
        /\ hh.rows = f.rows /\ hh.found = f.found /\ hh.total = total
    BY <1>1 DEF Frame
  <2> HIDE DEF h, hh
  <2>4. Count(c) =>
              /\ \/ f.found = << >> /\ Moved(c, "count", "setRows") /\ g.total = 0
                 \/ f.found # << >> /\ Moved(c, "count", "status") /\ g.total = total
              /\ g.kind = f.kind /\ g.rows = f.rows /\ g.found = f.found /\ UNCHANGED harm
    BY <1>2, <2>1, <2>2, <2>3 DEF Moved
  <2> QED
    BY <2>4 DEF total
<1>5. ASSUME Status(c)
      PROVE  LET next == Head(f.found) IN
              /\ \/ Len(f.found) = 1 /\ Moved(c, "status", "setRows")
                 \/ Len(f.found) # 1 /\ Moved(c, "status", "status")
              /\ g.kind = f.kind /\ g.total = f.total
              /\ g.rows = Append(f.rows, RowOf(next))
              /\ g.found = Tail(f.found)
              /\ visible[next.id] # indexed[next.id] =>
                   "unrefreshed" \in mishaps' /\ f.page \in excused'
  <2> DEFINE next == Head(f.found)
             label == IF Len(f.found) = 1 THEN "setRows" ELSE "status"
             rows == Append(f.rows, RowOf(next))
             rest == Tail(f.found)
             h == [f EXCEPT !.pc = label, !.rows = rows, !.found = rest]
  <2>1. Local(c, h) /\ f.pc = "status"
    BY <1>5 DEF Status, At, RowOf
  <2>2. visible[next.id] # indexed[next.id] => "unrefreshed" \in mishaps' /\ f.page \in excused'
    BY <1>5 DEF Status, HappensIf, Happens, Excuse
  <2> HIDE DEF label, rows, rest
  <2>3. /\ h.pc = label /\ h.op = f.op /\ h.page = f.page /\ h.kind = f.kind
        /\ h.rows = rows /\ h.found = rest /\ h.total = f.total
    BY <1>1 DEF Frame
  <2> HIDE DEF h
  <2>4. Moved(c, "status", label) /\ g.kind = f.kind /\ g.total = f.total /\ g.rows = rows /\ g.found = rest
    BY <1>2, <2>1, <2>3 DEF Moved
  <2> QED
    BY <2>2, <2>4 DEF label, rows, rest
<1>6. ReadFails(c) => /\ f.pc \in {"find", "count", "status"} /\ Local(c, Idle)
                      /\ UNCHANGED excused
  BY DEF ReadFails, At, Return, Mishap
<1>7. Find(c) \/ Count(c) \/ Status(c) \/ ReadFails(c) => UNCHANGED caches /\ UNCHANGED stores
  BY DEF Find, Count, Status, ReadFails
<1> QED
  BY <1>3, <1>4, <1>5, <1>6, <1>7

LEMMA CachingTurns ==
  ASSUME Inv, NEW c \in Requests, "redisError" \notin mishaps'
  PROVE  LET f == frame[c] g == frame'[c] IN
         /\ SetRows(c) => /\ Moved(c, "setRows", "setTotal")
                          /\ g.kind = f.kind /\ g.rows = f.rows /\ g.total = f.total
                          /\ Set(Key("rows", f.page), f.rows)
         /\ SetTotal(c) => /\ Moved(c, "setTotal", "getList")
                           /\ g.kind = f.kind /\ g.rows = f.rows /\ g.total = f.total
                           /\ Set(Key("total", f.page), f.total)
         /\ GetList(c) => /\ Moved(c, "getList", "setList")
                          /\ g.kind = f.kind /\ g.rows = f.rows /\ g.total = f.total
                          /\ \E list \in Found(global[f.kind], ListKey(f.kind)) :
                               /\ g.keys = IF list = None THEN {} ELSE list
                               /\ global' = [global EXCEPT ![f.kind] = list]
                          /\ UNCHANGED <<redis, older, drive>>
         /\ SetList(c) => /\ \/ /\ f.kind = "rows" /\ Moved(c, "setList", "getList")
                                /\ g.kind = "total"
                             \/ /\ f.kind # "rows" /\ Moved(c, "setList", "reply")
                                /\ g.kind = "rows"
                          /\ g.rows = f.rows /\ g.total = f.total
                          /\ Set(ListKey(f.kind), f.keys \cup {f.page})
         /\ Reply(c) => f.pc = "reply" /\ Local(c, Idle) /\ UNCHANGED caches
         /\ ~ SetListPanics(c)
         /\ SetRows(c) \/ SetTotal(c) \/ GetList(c) \/ SetList(c) \/ Reply(c) =>
              /\ UNCHANGED stores /\ UNCHANGED harm
<1> DEFINE f == frame[c] g == frame'[c]
<1>1. f \in Frame /\ frame \in [Requests -> Frame] /\ ~ Mishap("redisError")
  BY DEF Inv, FramesOK, Mishap, Happens
<1>2. \A h : Local(c, h) => Local(c, g) /\ g = h
  BY <1>1 DEF Local
<1>3. ASSUME NEW label
      PROVE  LET h == [f EXCEPT !.pc = label] IN
             /\ h.pc = label /\ h.op = f.op /\ h.page = f.page /\ h.kind = f.kind
             /\ h.rows = f.rows /\ h.total = f.total
  BY <1>1 DEF Frame
<1>4. ASSUME NEW label, Goto(c, label)
      PROVE  /\ Moved(c, f.pc, label)
             /\ g.kind = f.kind /\ g.rows = f.rows /\ g.total = f.total
  <2> DEFINE h == [f EXCEPT !.pc = label]
  <2>1. Local(c, h)
    BY <1>4 DEF Goto
  <2>2. /\ h.pc = label /\ h.op = f.op /\ h.page = f.page /\ h.kind = f.kind
        /\ h.rows = f.rows /\ h.total = f.total
    BY <1>3
  <2> HIDE DEF h
  <2> QED
    BY <1>2, <2>1, <2>2 DEF Moved
<1>5. SetRows(c) => f.pc = "setRows" /\ Goto(c, "setTotal") /\ Set(Key("rows", f.page), f.rows)
  BY <1>1 DEF SetRows, At
<1>6. SetTotal(c) => f.pc = "setTotal" /\ Goto(c, "getList") /\ Set(Key("total", f.page), f.total)
  BY <1>1 DEF SetTotal, At
<1>7. ASSUME GetList(c)
      PROVE  /\ Moved(c, "getList", "setList")
             /\ g.kind = f.kind /\ g.rows = f.rows /\ g.total = f.total
             /\ \E list \in Found(global[f.kind], ListKey(f.kind)) :
                  /\ g.keys = IF list = None THEN {} ELSE list
                  /\ global' = [global EXCEPT ![f.kind] = list]
             /\ UNCHANGED <<redis, older, drive>>
  <2>1. PICK list \in Found(global[f.kind], ListKey(f.kind)) :
          /\ Local(c, [f EXCEPT !.pc = "setList", !.keys = IF list = None THEN {} ELSE list])
          /\ global' = [global EXCEPT ![f.kind] = list]
    BY <1>1, <1>7 DEF GetList
  <2> DEFINE keys == IF list = None THEN {} ELSE list
             h == [f EXCEPT !.pc = "setList", !.keys = keys]
  <2>2. Local(c, h) /\ f.pc = "getList" /\ UNCHANGED <<redis, older, drive>>
    BY <1>7, <2>1 DEF GetList, At
  <2> HIDE DEF keys
  <2>3. /\ h.pc = "setList" /\ h.op = f.op /\ h.page = f.page /\ h.kind = f.kind
        /\ h.rows = f.rows /\ h.total = f.total /\ h.keys = keys
    BY <1>1 DEF Frame
  <2> HIDE DEF h
  <2>4. /\ Moved(c, "getList", "setList") /\ g.keys = keys
        /\ g.kind = f.kind /\ g.rows = f.rows /\ g.total = f.total
    BY <1>2, <2>2, <2>3 DEF Moved
  <2> QED
    BY <2>1, <2>2, <2>4 DEF keys
<1>8. ASSUME SetList(c)
      PROVE  /\ \/ /\ f.kind = "rows" /\ Moved(c, "setList", "getList")
                   /\ g.kind = "total"
                \/ /\ f.kind # "rows" /\ Moved(c, "setList", "reply")
                   /\ g.kind = "rows"
             /\ g.rows = f.rows /\ g.total = f.total
             /\ Set(ListKey(f.kind), f.keys \cup {f.page})
  <2> DEFINE h == [f EXCEPT !.pc = "getList", !.kind = "total", !.keys = {}]
             hh == [f EXCEPT !.pc = "reply", !.kind = "rows", !.keys = {}]
  <2>1. /\ f.pc = "setList" /\ Set(ListKey(f.kind), f.keys \cup {f.page})
        /\ IF f.kind = "rows" THEN Local(c, h) ELSE Local(c, hh)
    BY <1>8 DEF SetList, At, Listed
  <2>2. /\ h.pc = "getList" /\ h.op = f.op /\ h.page = f.page /\ h.kind = "total"
        /\ h.rows = f.rows /\ h.total = f.total
    BY <1>1 DEF Frame
  <2>3. /\ hh.pc = "reply" /\ hh.op = f.op /\ hh.page = f.page /\ hh.kind = "rows"
        /\ hh.rows = f.rows /\ hh.total = f.total
    BY <1>1 DEF Frame
  <2> HIDE DEF h, hh
  <2> QED
    BY <1>2, <2>1, <2>2, <2>3 DEF Moved
<1>9. Reply(c) => f.pc = "reply" /\ Local(c, Idle) /\ UNCHANGED caches
  BY DEF Reply, At, Return
<1>10. ~ SetListPanics(c)
  BY <1>1 DEF SetListPanics
<1>11. SetRows(c) \/ SetTotal(c) \/ GetList(c) \/ SetList(c) \/ Reply(c) =>
         UNCHANGED stores /\ UNCHANGED harm
  BY <1>1 DEF SetRows, SetTotal, GetList, SetList, Reply
<1> QED
  BY <1>4, <1>5, <1>6, <1>7, <1>8, <1>9, <1>10, <1>11

LEMMA ShortTail ==
  ASSUME NEW S, NEW s \in Seq(S), s # << >>, Len(s) = 1 \/ Len(s) = 2,
         NEW todo, todo = s \/ todo = Tail(s), Len(todo) > 1
  PROVE  Tail(todo) # s
<1>1. Len(Tail(s)) = Len(s) - 1 /\ Len(s) \in Nat
  BY HeadTail
<1>2. todo = s
  BY <1>1
<1> SUFFICES ASSUME Tail(s) = s PROVE FALSE
  BY <1>2
<1> DEFINE n == Len(s)
<1>3. n = n - 1 /\ n \in Nat
  BY <1>1
<1> HIDE DEF n
<1> QED
  BY <1>3

LEMMA RestOfWrites ==
  ASSUME Inv, NEW c \in Requests, frame[c].pc = "commit"
  PROVE  /\ Len(frame[c].todo) > 1 => Tail(frame[c].todo) # Writes(frame[c].op)
         /\ Misses(frame[c]) => frame[c].todo = Writes(frame[c].op)
<1> DEFINE f == frame[c] all == Writes(f.op)
<1>1. f.op \in Changes /\ f.todo \in {all, Tail(all)} \ {<< >>}
  BY DEF Inv, FramesOK, FrameOK, ChangeLabels
<1>2. all \in Seq({"mongo", "elastic"}) /\ all # << >>
  BY <1>1, WritesFacts
<1>4. Len(all) = 1 \/ Len(all) = 2
  <2> HIDE DEF all
  <2>1. all \in {<<"mongo", "elastic">>, <<"mongo">>, <<"elastic">>, <<"elastic", "mongo">>}
    BY <1>1, WritesFacts DEF all
  <2>2. /\ Len(<<"mongo", "elastic">>) = 2 /\ Len(<<"mongo">>) = 1
        /\ Len(<<"elastic">>) = 1 /\ Len(<<"elastic", "mongo">>) = 2
    OBVIOUS
  <2> QED
    BY <2>1, <2>2, Zenon
<1>5. Len(f.todo) > 1 => Tail(f.todo) # all
  BY <1>1, <1>2, <1>4, ShortTail
<1>6. Misses(f) => f.todo = all
  <2>1. f.op = "DeleteServer" => all = <<"mongo", "elastic">>
    BY <1>1, WritesFacts
  <2>2. Tail(<<"mongo", "elastic">>) = <<"elastic">> /\ Head(<<"elastic">>) = "elastic"
    OBVIOUS
  <2> HIDE DEF all
  <2>3. f.op = "DeleteServer" /\ f.todo = Tail(all) => Head(f.todo) = "elastic"
    BY <2>1, <2>2
  <2> QED
    BY <1>1, <2>3 DEF Misses
<1> QED
  BY <1>5, <1>6

\* After a write, the handler goes on to its next one or to RemoveData.
Written(f, g) ==
  /\ g.op = f.op
  /\ \/ g.pc = "commit" /\ g.todo # Writes(f.op)
     \/ g.pc = "readList" /\ g.kind = "rows"

LEMMA AfterWriteTurns ==
  ASSUME Inv, NEW c \in Requests, frame[c].pc = "commit", AfterWrite(c)
  PROVE  Local(c, frame'[c]) /\ Written(frame[c], frame'[c])
<1> DEFINE f == frame[c]
           rest == Tail(f.todo)
           h == [f EXCEPT !.todo = rest]
           hh == [Idle EXCEPT !.pc = "readList", !.op = f.op, !.kind = "rows"]
<1>1. IF Len(f.todo) > 1 THEN Local(c, h) ELSE Local(c, hh)
  BY DEF AfterWrite
<1>2. Len(f.todo) > 1 => rest # Writes(f.op)
  BY RestOfWrites
<1>3. f \in Frame /\ frame \in [Requests -> Frame]
  BY DEF Inv, FramesOK
<1> HIDE DEF rest
<1>4. h.pc = "commit" /\ h.op = f.op /\ h.todo = rest
  BY <1>3 DEF Frame
<1>5. hh.pc = "readList" /\ hh.op = f.op /\ hh.kind = "rows"
  BY DEF Idle
<1> HIDE DEF h, hh
<1>6. \A k : Local(c, k) => Local(c, frame'[c]) /\ frame'[c] = k
  BY <1>3 DEF Local
<1> QED
  BY <1>1, <1>2, <1>4, <1>5, <1>6 DEF Written

LEMMA ChangeTurns ==
  ASSUME Inv, NEW c \in Requests, {"redisError", "exit"} \cap mishaps' = {}
  PROVE  LET f == frame[c] g == frame'[c] IN
         /\ Commit(c) =>
              /\ f.pc = "commit" /\ Write(f) /\ UNCHANGED caches /\ UNCHANGED harm
              /\ Local(c, g) /\ Written(f, g)
         /\ CommitMisses(c) =>
              /\ f.pc = "commit" /\ Misses(f) /\ Local(c, Idle)
              /\ UNCHANGED caches /\ UNCHANGED stores /\ UNCHANGED harm
         /\ ~ CommitPanics(c)
         /\ CommitFails(c) =>
              /\ f.pc = "commit" /\ "storeError" \in mishaps' /\ UNCHANGED excused
              /\ Write(f) \/ UNCHANGED stores
              /\ \/ Exit
                 \/ UNCHANGED caches /\ Local(c, g) /\ Written(f, g)
                 \/ UNCHANGED caches /\ Local(c, Idle)
         /\ ReadList(c) =>
              /\ Moved(c, "readList", "delete") /\ g.kind = f.kind
              /\ \E list \in Found(drive[ListKey(f.kind)], ListKey(f.kind)) :
                   /\ Got(ListKey(f.kind), list)
                   /\ g.keys = IF list = None THEN {} ELSE list
                   /\ Held \ g.keys \subseteq excused'
              /\ UNCHANGED stores
         /\ \A p \in Pages : DeleteKey(c, p) =>
              /\ Moved(c, "delete", "delete") /\ g.kind = f.kind
              /\ p \in f.keys /\ g.keys = f.keys \ {p}
              /\ Delete(Key(f.kind, p))
              /\ UNCHANGED stores /\ UNCHANGED harm
         /\ ListDone(c) =>
              /\ f.pc = "delete" /\ f.keys = {}
              /\ \/ f.kind = "rows" /\ Moved(c, "delete", "readList") /\ g.kind = "total"
                 \/ f.kind # "rows" /\ Local(c, Idle)
              /\ UNCHANGED stores /\ UNCHANGED harm /\ UNCHANGED caches
<1> DEFINE f == frame[c] g == frame'[c]
<1>1. /\ f \in Frame /\ frame \in [Requests -> Frame]
      /\ ~ Mishap("redisError") /\ ~ Mishap("exit")
  BY DEF Inv, FramesOK, Mishap, Happens
<1>2. \A h : Local(c, h) => Local(c, g) /\ g = h
  BY <1>1 DEF Local
<1>3. ASSUME Commit(c)
      PROVE  /\ f.pc = "commit" /\ Write(f) /\ UNCHANGED caches /\ UNCHANGED harm
             /\ Local(c, g) /\ Written(f, g)
  BY <1>3, AfterWriteTurns DEF Commit, At
<1>4. CommitMisses(c) =>
        /\ f.pc = "commit" /\ Misses(f) /\ Local(c, Idle)
        /\ UNCHANGED caches /\ UNCHANGED stores /\ UNCHANGED harm
  BY DEF CommitMisses, At, Return
<1>5. ~ CommitPanics(c)
  BY <1>1 DEF CommitPanics
<1>6. ASSUME CommitFails(c)
      PROVE  /\ f.pc = "commit" /\ "storeError" \in mishaps' /\ UNCHANGED excused
             /\ Write(f) \/ UNCHANGED stores
             /\ \/ Exit
                \/ UNCHANGED caches /\ Local(c, g) /\ Written(f, g)
                \/ UNCHANGED caches /\ Local(c, Idle)
  <2>1. /\ f.pc = "commit" /\ "storeError" \in mishaps' /\ UNCHANGED excused
        /\ Write(f) \/ UNCHANGED stores
        /\ \/ Exit
           \/ UNCHANGED caches /\ (AfterWrite(c) \/ Local(c, Idle))
    BY <1>6 DEF CommitFails, At, Return, Mishap, Happens
  <2> QED
    BY <2>1, AfterWriteTurns
<1>7. ASSUME ReadList(c)
      PROVE  /\ Moved(c, "readList", "delete") /\ g.kind = f.kind
             /\ \E list \in Found(drive[ListKey(f.kind)], ListKey(f.kind)) :
                  /\ Got(ListKey(f.kind), list)
                  /\ g.keys = IF list = None THEN {} ELSE list
                  /\ Held \ g.keys \subseteq excused'
             /\ UNCHANGED stores
  <2>1. PICK list \in Found(drive[ListKey(f.kind)], ListKey(f.kind)) :
          LET keys == IF list = None THEN {} ELSE list IN
          /\ Got(ListKey(f.kind), list)
          /\ Local(c, [f EXCEPT !.pc = "delete", !.keys = keys])
          /\ Excuse(Held \ keys)
    BY <1>1, <1>7 DEF ReadList
  <2> DEFINE keys == IF list = None THEN {} ELSE list
             h == [f EXCEPT !.pc = "delete", !.keys = keys]
  <2>2. Local(c, h) /\ f.pc = "readList" /\ UNCHANGED stores
    BY <1>7, <2>1 DEF ReadList, At
  <2>3. Held \ keys \subseteq excused'
    BY <2>1 DEF Excuse
  <2> HIDE DEF keys
  <2>4. h.pc = "delete" /\ h.op = f.op /\ h.page = f.page /\ h.kind = f.kind /\ h.keys = keys
    BY <1>1 DEF Frame
  <2> HIDE DEF h
  <2>5. Moved(c, "readList", "delete") /\ g.keys = keys /\ g.kind = f.kind
    BY <1>2, <2>2, <2>4 DEF Moved
  <2> QED
    BY <2>1, <2>2, <2>3, <2>5 DEF keys
<1>8. ASSUME NEW p \in Pages, DeleteKey(c, p)
      PROVE  /\ Moved(c, "delete", "delete") /\ g.kind = f.kind
             /\ p \in f.keys /\ g.keys = f.keys \ {p}
             /\ Delete(Key(f.kind, p))
             /\ UNCHANGED stores /\ UNCHANGED harm
  <2> DEFINE rest == f.keys \ {p}
             h == [f EXCEPT !.keys = rest]
  <2>1. /\ Local(c, h) /\ f.pc = "delete" /\ p \in f.keys
        /\ Delete(Key(f.kind, p)) /\ UNCHANGED stores /\ UNCHANGED harm
    BY <1>1, <1>8 DEF DeleteKey, At
  <2> HIDE DEF rest
  <2>2. h.pc = f.pc /\ h.op = f.op /\ h.page = f.page /\ h.kind = f.kind /\ h.keys = rest
    BY <1>1 DEF Frame
  <2> HIDE DEF h
  <2>3. Moved(c, "delete", "delete") /\ g.kind = f.kind /\ g.keys = rest
    BY <1>2, <2>1, <2>2 DEF Moved
  <2> QED
    BY <2>1, <2>3 DEF rest
<1>9. ASSUME ListDone(c)
      PROVE  /\ f.pc = "delete" /\ f.keys = {}
             /\ \/ f.kind = "rows" /\ Moved(c, "delete", "readList") /\ g.kind = "total"
                \/ f.kind # "rows" /\ Local(c, Idle)
             /\ UNCHANGED stores /\ UNCHANGED harm /\ UNCHANGED caches
  <2> DEFINE h == [f EXCEPT !.pc = "readList", !.kind = "total"]
  <2>1. /\ f.pc = "delete" /\ f.keys = {}
        /\ IF f.kind = "rows" THEN Local(c, h) ELSE Local(c, Idle)
        /\ UNCHANGED stores /\ UNCHANGED harm /\ UNCHANGED caches
    BY <1>9 DEF ListDone, At, Return
  <2>2. h.pc = "readList" /\ h.op = f.op /\ h.page = f.page /\ h.kind = "total"
    BY <1>1 DEF Frame
  <2> HIDE DEF h
  <2> QED
    BY <1>2, <2>1, <2>2 DEF Moved
<1> QED
  BY <1>3, <1>4, <1>5, <1>6, <1>7, <1>8, <1>9

LEMMA IndexMoves ==
  ASSUME Inv, NEW c \in Requests, IndexStep(c), {"redisError", "exit"} \cap mishaps' = {}
  PROVE  LET f == frame[c] g == frame'[c] IN
         /\ UNCHANGED stores
         /\ f.pc \in IndexLabels /\ f.op = "Index" /\ f.page \in Pages
         /\ \/ Local(c, Idle)
            \/ Local(c, g) /\ g.op = "Index" /\ g.page = f.page
<1> DEFINE f == frame[c] g == frame'[c]
<1>1. "redisError" \notin mishaps'
  OBVIOUS
<1>2. UNCHANGED stores /\ f.pc \in IndexLabels
  <2>1. /\ GetRows(c) \/ GetTotal(c) => UNCHANGED stores
        /\ SetListPanics(c) => FALSE
        /\ At(c, f.pc)
    BY <1>1, CachingTurns DEF GetRows, GetTotal, At
  <2>2. UNCHANGED stores
    BY <2>1, SearchingTurns, CachingTurns, <1>1 DEF IndexStep
  <2> QED
    BY <2>2 DEF IndexStep, GetRows, GetTotal, Find, Count, Status, ReadFails, SetRows, SetTotal,
                GetList, SetList, SetListPanics, Reply, At, IndexLabels
<1>4. f.op = "Index" /\ f.page \in Pages
  BY <1>2 DEF Inv, FramesOK, FrameOK
<1>5. \/ Local(c, Idle)
      \/ Local(c, g) /\ g.op = "Index" /\ g.page = f.page
  <2>1. ASSUME NEW from, NEW to, Moved(c, from, to)
        PROVE  Local(c, g) /\ g.op = "Index" /\ g.page = f.page
    BY <1>4, <2>1 DEF Moved
  <2>2. GetRows(c) \/ GetTotal(c) => Local(c, Idle) \/ \E from, to : Moved(c, from, to)
    BY <1>1, LookingTurns
  <2>3. Find(c) \/ Count(c) \/ Status(c) \/ ReadFails(c) => Local(c, Idle) \/ \E from, to : Moved(c, from, to)
    BY SearchingTurns
  <2>4. SetRows(c) \/ SetTotal(c) \/ GetList(c) \/ SetList(c) \/ SetListPanics(c) \/ Reply(c) =>
          Local(c, Idle) \/ \E from, to : Moved(c, from, to)
    BY <1>1, CachingTurns
  <2> QED
    BY <2>1, <2>2, <2>3, <2>4 DEF IndexStep
<1> QED
  BY <1>2, <1>4, <1>5

-----------------------------------------------------------------------------
(* CachedPagesListed.  An Index that nothing overlaps is the only request;  *)
(* what it caches is in the making until it is entered in the key list, and *)
(* the list is set after what it names and so outlives it.                  *)

Busy(c) == frame[c] # Idle
IndexAlone == \A c, d \in Requests : frame[c].op = "Index" /\ Busy(d) => c = d

Cached(kind, p) == redis[Key(kind, p)] # None

Entered(kind, p) ==
  /\ redis[ListKey(kind)] # None /\ p \in redis[ListKey(kind)]
  /\ MayExpire => Key(kind, p) \in older[ListKey(kind)]

Entering(f, kind, p) ==
  /\ f.op = "Index" /\ f.page = p
  /\ \/ f.pc \in {"getList", "setList"}
     \/ f.pc = "setTotal" /\ kind = "rows"
  /\ f.kind = "rows" \/ kind = "total"

PagesEntered ==
  \A kind \in Kinds, p \in Pages :
    Cached(kind, p) => Entered(kind, p) \/ \E c \in Requests : Entering(frame[c], kind, p)

\* The list as read is still complete but for the page at hand.
ListsRead ==
  \A c \in Requests, p \in Pages :
    frame[c].pc = "setList" /\ Cached(frame[c].kind, p) => p \in frame[c].keys \cup {frame[c].page}

Spared == mishaps \cap {"overlap", "exit", "redisError"} = {}
ListedInv == Spared => IndexAlone /\ PagesEntered /\ ListsRead

LEMMA ExpiryFact ==
  ASSUME Inv, mishaps \subseteq mishaps', mishaps' \subseteq Mishaps, MayExpire'
  PROVE  MayExpire
<1> DEFINE m == mishaps \cup {"expiry"}
           n == mishaps' \cup {"expiry"}
<1>1. IsFiniteSet(n) /\ IsFiniteSet(m) /\ m \subseteq n
  <2>1. IsFiniteSet(PossibleMishaps)
    <3>1. \A S, x, y : IsFiniteSet(S) => IsFiniteSet(S \cup {x, y})
      <4> TAKE S, x, y
      <4>1. S \cup {x, y} = (S \cup {x}) \cup {y}
        OBVIOUS
      <4> QED
        BY <4>1, FS_AddElement
    <3>2. PossibleMishaps = ((({} \cup {"overlap", "hurry"}) \cup {"unrefreshed", "expiry"})
                              \cup {"redisError", "storeError"}) \cup {"exit", "exit"}
      BY DEF PossibleMishaps
    <3> QED
      BY <3>1, <3>2, FS_EmptySet
  <2>2. n \subseteq PossibleMishaps /\ m \subseteq PossibleMishaps
    BY Constants DEF Inv, HarmOK, PossibleMishaps
  <2> QED
    BY <2>1, <2>2, FS_Subset
<1>2. Cardinality(m) <= Cardinality(n) /\ Cardinality(m) \in Nat /\ Cardinality(n) \in Nat
  BY <1>1, FS_Subset, FS_CardinalityType
<1>3. "expiry" \in Mishaps /\ Cardinality(n) <= MaxMishaps
  BY DEF MayExpire
<1>4. MaxMishaps \in Nat
  BY ConstantsOK DEF ConstantsOK
<1> HIDE DEF m, n
<1>5. Cardinality(m) <= MaxMishaps
  BY <1>2, <1>3, <1>4
<1> QED
  BY <1>3, <1>5 DEF MayExpire, m

\* Each request is either gone or goes on with what it is doing.
Going == \A d \in Requests : \/ frame'[d] \in {frame[d], Idle}
                             \/ Busy(d) /\ frame'[d].op = frame[d].op

LEMMA GoingAlone ==
  ASSUME Inv, Going, IndexAlone
  PROVE  IndexAlone'
<1> SUFFICES ASSUME NEW c \in Requests, NEW d \in Requests,
                    frame'[c].op = "Index", frame'[d] # Idle
             PROVE  c = d
  BY DEF IndexAlone, Busy
<1>1. Idle.op = "none"
  BY DEF Idle
<1>2. frame[c].op = "Index"
  BY <1>1 DEF Going
<1>3. Busy(d)
  BY DEF Going, Busy
<1> QED
  BY <1>2, <1>3 DEF IndexAlone

LEMMA MovedGoing ==
  ASSUME Inv, NEW c \in Requests, NEW g,
         Local(c, g), Busy(c) /\ g.op = frame[c].op
  PROVE  Going
  BY DEF Going, Local, Inv, FramesOK

LEMMA GoneGoing ==
  ASSUME Inv, NEW c \in Requests, Local(c, Idle)
  PROVE  Going
  BY DEF Going, Local, Inv, FramesOK

LEMMA BusyFact ==
  ASSUME Inv, NEW c \in Requests
  PROVE  /\ frame[c].pc # "idle" => Busy(c)
         /\ frame[c].op # "none" => Busy(c)
         /\ Busy(c) => \/ frame[c].pc \in IndexLabels /\ frame[c].op = "Index"
                       \/ frame[c].pc \in ChangeLabels /\ frame[c].op \in Changes
<1>1. FrameOK(frame[c]) /\ frame[c] \in Frame
  BY DEF Inv, FramesOK, FrameOK
<1>2. frame[c].pc \in IndexLabels \cup ChangeLabels \cup {"idle"}
  BY <1>1 DEF Frame, IndexLabels, ChangeLabels
<1>3. Idle.pc = "idle" /\ Idle.op = "none"
  BY DEF Idle
<1> QED
  BY <1>1, <1>2, <1>3 DEF FrameOK, Busy

LEMMA AloneStep ==
  ASSUME Inv, [Next]_vars, IndexAlone, Spared'
  PROVE  IndexAlone'
<1>1. /\ "redisError" \notin mishaps' /\ "overlap" \notin mishaps'
      /\ {"redisError", "exit"} \cap mishaps' = {}
  BY DEF Spared
<1>2. ASSUME NEW c \in Requests, NEW p \in Pages, Index(c, p) PROVE IndexAlone'
  <2> DEFINE g == [Idle EXCEPT !.pc = "getRows", !.op = "Index", !.page = p]
  <2>1. ~ Running(Changes \cup {"Index"}) /\ Begin(c, g)
    BY <1>1, <1>2 DEF Index, HappensIf, Happens
  <2>2. \A d \in Requests : ~ Busy(d)
    BY <2>1, BusyFact DEF Running
  <2>3. \A d \in Requests : d # c => frame'[d] = frame[d]
    BY <2>1 DEF Begin, Local, Inv, FramesOK
  <2>4. \A d \in Requests : d # c => frame'[d] = Idle
    BY <2>2, <2>3 DEF Busy
  <2>5. Idle.op = "none"
    BY DEF Idle
  <2> QED
    BY <2>4, <2>5 DEF IndexAlone, Busy
<1>3. ASSUME NEW c \in Requests, NEW op \in Changes, NEW id \in 1..(stamp + 1), Change(c, op, id)
      PROVE  IndexAlone'
  <2> DEFINE g == [Idle EXCEPT !.pc = "commit", !.op = op, !.todo = Writes(op),
                               !.target = id, !.mark = stamp']
  <2>1. ~ Running({"Index"}) /\ Begin(c, g)
    BY <1>1, <1>3 DEF Change, Happens
  <2>2. g.op = op /\ op # "Index"
    BY Constants DEF Idle
  <2> HIDE DEF g
  <2>3. \A d \in Requests : frame'[d] = IF d = c THEN g ELSE frame[d]
    BY <2>1 DEF Begin, Local, Inv, FramesOK
  <2>4. \A d \in Requests : frame[d].op # "Index"
    BY <2>1 DEF Running
  <2>5. \A d \in Requests : frame'[d].op # "Index"
    BY <2>2, <2>3, <2>4
  <2> QED
    BY <2>5 DEF IndexAlone
<1>4. ASSUME NEW c \in Requests, IndexStep(c) PROVE Going
  <2>1. ASSUME NEW from, NEW to, Moved(c, from, to), from # "idle" PROVE Going
    BY <2>1, BusyFact, MovedGoing DEF Moved
  <2>2. CASE GetRows(c) \/ GetTotal(c)
    <3>1. \E from \in {"getRows", "getTotal"}, to \in {"getTotal", "reply", "find"} : Moved(c, from, to)
      BY <1>1, <2>2, LookingTurns
    <3> QED
      BY <2>1, <3>1
  <2>3. CASE Find(c) \/ Count(c) \/ Status(c) \/ ReadFails(c)
    <3>1. \/ \E from \in {"find", "count", "status"}, to \in {"count", "setRows", "status"} : Moved(c, from, to)
          \/ Local(c, Idle)
      BY <2>3, SearchingTurns
    <3> QED
      BY <2>1, <3>1, GoneGoing
  <2>4. CASE SetRows(c) \/ SetTotal(c) \/ GetList(c) \/ SetList(c) \/ SetListPanics(c) \/ Reply(c)
    <3>1. \/ \E from \in {"setRows", "setTotal", "getList", "setList"},
                to \in {"setTotal", "getList", "setList", "reply"} : Moved(c, from, to)
          \/ Local(c, Idle)
      BY <1>1, <2>4, CachingTurns
    <3> QED
      BY <2>1, <3>1, GoneGoing
  <2> QED
    BY <1>4, <2>2, <2>3, <2>4 DEF IndexStep
<1>5. ASSUME NEW c \in Requests, ChangeStep(c) PROVE Going
  <2>1. ASSUME NEW from, NEW to, Moved(c, from, to), from # "idle" PROVE Going
    BY <2>1, BusyFact, MovedGoing DEF Moved
  <2>2. CASE Commit(c)
    <3>1. Local(c, frame'[c]) /\ frame'[c].op = frame[c].op /\ frame[c].pc = "commit"
      BY <1>1, <2>2, ChangeTurns DEF Written
    <3> QED
      BY <3>1, BusyFact, MovedGoing
  <2>3. CASE CommitFails(c)
    <3>1. /\ frame[c].pc = "commit"
          /\ \/ Exit \/ Local(c, Idle)
             \/ Local(c, frame'[c]) /\ frame'[c].op = frame[c].op
      BY <1>1, <2>3, ChangeTurns DEF Written
    <3>2. CASE Exit
      BY <3>2 DEF Exit, Going
    <3> QED
      BY <3>1, <3>2, BusyFact, MovedGoing, GoneGoing
  <2>4. CASE CommitMisses(c) \/ CommitPanics(c)
    <3>1. Local(c, Idle)
      BY <1>1, <2>4, ChangeTurns
    <3> QED
      BY <3>1, GoneGoing
  <2>5. CASE ReadList(c) \/ (\E p \in Pages : DeleteKey(c, p)) \/ ListDone(c)
    <3>1. \/ \E from \in {"readList", "delete"}, to \in {"readList", "delete"} : Moved(c, from, to)
          \/ Local(c, Idle)
      BY <1>1, <2>5, ChangeTurns
    <3> QED
      BY <2>1, <3>1, GoneGoing
  <2> QED
    BY <1>5, <2>2, <2>3, <2>4, <2>5 DEF ChangeStep
<1>6. ASSUME Expire \/ Refresh \/ Crash \/ UNCHANGED vars PROVE Going
  <2>1. UNCHANGED frame
    BY <1>1, <1>6 DEF Expire, Refresh, Crash, Mishap, Happens, vars
  <2> QED
    BY <2>1 DEF Going
<1> QED
  BY <1>2, <1>3, <1>4, <1>5, <1>6, GoingAlone DEF Next, Start

LEMMA EnteredKept ==
  ASSUME Inv, [Next]_vars, NEW kind \in Kinds, NEW p \in Pages, Entered(kind, p),
         redis'[ListKey(kind)] = redis[ListKey(kind)],
         MayExpire => Key(kind, p) \in older'[ListKey(kind)]
  PROVE  Entered(kind, p)'
<1>1. MayExpire' => MayExpire
  BY HarmStep, ExpiryFact DEF HarmOK
<1> QED
  BY <1>1 DEF Entered, ListKey, Key

\* What a Delete or an expiry leaves.
LEMMA DropEffect ==
  ASSUME Inv, [Next]_vars, NEW key \in Keys,
         redis' = [redis EXCEPT ![key] = None], older' = Without(key),
         NEW kind \in Kinds, NEW p \in Pages
  PROVE  /\ Cached(kind, p)' => Cached(kind, p) /\ key # Key(kind, p)
         /\ Entered(kind, p) /\ key \notin {Key(kind, p), ListKey(kind)} => Entered(kind, p)'
<1>1. Key(kind, p) \in Keys /\ ListKey(kind) \in Keys
  BY KeyFacts
<1>2. redis'[Key(kind, p)] = IF Key(kind, p) = key THEN None ELSE redis[Key(kind, p)]
  BY <1>1 DEF Inv, CachesOK
<1>3. Cached(kind, p)' = (redis'[Key(kind, p)] # None)
  BY DEF Cached, Key
<1>4. ASSUME Entered(kind, p), key \notin {Key(kind, p), ListKey(kind)} PROVE Entered(kind, p)'
  <2>1. redis'[ListKey(kind)] = redis[ListKey(kind)]
    BY <1>1, <1>4 DEF Inv, CachesOK
  <2>2. older'[ListKey(kind)] = older[ListKey(kind)] \ {key}
    BY <1>1, <1>4 DEF Without
  <2> QED
    BY <1>4, <2>1, <2>2, EnteredKept DEF Entered
<1> QED
  BY <1>2, <1>3, <1>4 DEF Cached

\* What a Set changes.
LEMMA SetEffect ==
  ASSUME Inv, [Next]_vars, NEW key \in Keys, NEW v, Set(key, v),
         NEW kind \in Kinds, NEW p \in Pages
  PROVE  /\ Cached(kind, p)' => Cached(kind, p) \/ key = Key(kind, p)
         /\ Entered(kind, p) /\ key \notin {Key(kind, p), ListKey(kind)} => Entered(kind, p)'
         /\ /\ key = ListKey(kind) /\ v # None /\ p \in v /\ Cached(kind, p)
            => Entered(kind, p)'
<1>1. Key(kind, p) \in Keys /\ ListKey(kind) \in Keys /\ Key(kind, p) # ListKey(kind)
  BY KeyFacts
<1>2. \A k \in Keys : redis'[k] = IF k = key THEN v ELSE redis[k]
  BY DEF Inv, CachesOK, Set
<1>3. Cached(kind, p)' = (redis'[Key(kind, p)] # None)
  BY DEF Cached, Key
<1> DEFINE rest == {k \in Keys \ {key} : redis[k] # None}
<1>4. MayExpire => older' = [Without(key) EXCEPT ![key] = rest]
  BY DEF Set
<1>5. Without(key) \in [Keys -> SUBSET Keys]
  BY WithoutOK DEF Inv
<1>6. ASSUME Entered(kind, p), key \notin {Key(kind, p), ListKey(kind)} PROVE Entered(kind, p)'
  <2>1. redis'[ListKey(kind)] = redis[ListKey(kind)]
    BY <1>1, <1>2, <1>6
  <2>2. MayExpire => older'[ListKey(kind)] = Without(key)[ListKey(kind)]
    BY <1>1, <1>4, <1>5, <1>6
  <2>3. Without(key)[ListKey(kind)] = older[ListKey(kind)] \ {key}
    BY <1>1, <1>6 DEF Without
  <2> QED
    BY <1>6, <2>1, <2>2, <2>3, EnteredKept DEF Entered
<1>7. ASSUME key = ListKey(kind), v # None, p \in v, Cached(kind, p)
      PROVE  Entered(kind, p)'
  <2>1. redis'[ListKey(kind)] = v
    BY <1>1, <1>2, <1>7
  <2>2. Key(kind, p) \in rest
    BY <1>1, <1>7 DEF Cached
  <2> HIDE DEF rest
  <2>3. MayExpire => older'[ListKey(kind)] = rest
    BY <1>1, <1>4, <1>5, <1>7
  <2>4. MayExpire' => MayExpire
    BY HarmStep, ExpiryFact DEF HarmOK
  <2> QED
    BY <1>7, <2>1, <2>2, <2>3, <2>4 DEF Entered, ListKey, Key
<1> QED
  BY <1>2, <1>3, <1>6, <1>7, <1>1 DEF Cached

\* No request is entering a page, or has just read a key list.
Elsewhere(d) == /\ frame[d].pc \notin {"setTotal", "getList", "setList"}
                /\ frame'[d].pc # "setList"

LEMMA QuietListed ==
  ASSUME Inv, [Next]_vars, PagesEntered, ListsRead, UNCHANGED <<redis, older>>,
         \A d \in Requests : frame'[d] = frame[d] \/ Elsewhere(d)
  PROVE  PagesEntered' /\ ListsRead'
<1>1. ASSUME NEW kind \in Kinds, NEW p \in Pages, Cached(kind, p)'
      PROVE  Entered(kind, p)' \/ \E c \in Requests : Entering(frame'[c], kind, p)
  <2>1. Cached(kind, p)
    BY <1>1 DEF Cached, Key
  <2>2. CASE Entered(kind, p)
    BY <2>2, EnteredKept DEF Entered
  <2>3. ASSUME NEW c \in Requests, Entering(frame[c], kind, p)
        PROVE  Entering(frame'[c], kind, p)
    BY <2>3 DEF Entering, Elsewhere
  <2> QED
    BY <2>1, <2>2, <2>3 DEF PagesEntered
<1>2. ListsRead'
  <2>1. \A kind, p : Cached(kind, p)' = Cached(kind, p)
    BY DEF Cached, Key
  <2>2. ASSUME NEW c \in Requests, NEW p \in Pages,
               frame'[c].pc = "setList", Cached(frame'[c].kind, p)
        PROVE  p \in frame'[c].keys \cup {frame'[c].page}
    BY <2>2 DEF ListsRead, Elsewhere
  <2> QED
    BY <2>1, <2>2 DEF ListsRead, Cached, Key
<1> QED
  BY <1>1, <1>2 DEF PagesEntered

\* The steps of a request that is in none of the labels where a page is entered.
LEMMA QuietSteps ==
  ASSUME Inv, [Next]_vars, IndexAlone, Spared', NEW c \in Requests,
         \/ Start(c) \/ GetRows(c) \/ GetTotal(c) \/ Find(c) \/ Count(c) \/ Status(c) \/ ReadFails(c)
         \/ Reply(c) \/ Commit(c) \/ CommitMisses(c) \/ CommitPanics(c) \/ CommitFails(c)
         \/ ReadList(c) \/ ListDone(c)
  PROVE  /\ UNCHANGED <<redis, older>>
         /\ \A d \in Requests : frame'[d] = frame[d] \/ Elsewhere(d)
<1> DEFINE Entry == {"setTotal", "getList", "setList"}
<1>1. /\ "redisError" \notin mishaps'
      /\ {"redisError", "exit"} \cap mishaps' = {}
  BY DEF Spared
<1>2. /\ \A g : Local(c, g) => \A d \in Requests : frame'[d] = IF d = c THEN g ELSE frame[d]
      /\ Idle.pc = "idle" /\ "idle" \notin Entry
  BY DEF Local, Inv, FramesOK, Idle
<1>3. ASSUME UNCHANGED <<redis, older>>, frame[c].pc \notin Entry,
             NEW g, Local(c, g), g.pc # "setList"
      PROVE  /\ UNCHANGED <<redis, older>>
             /\ \A d \in Requests : frame'[d] = frame[d] \/ Elsewhere(d)
  BY <1>2, <1>3 DEF Elsewhere
<1>4. ASSUME UNCHANGED <<redis, older>>, NEW from, NEW to, Moved(c, from, to),
             from \notin Entry, to # "setList"
      PROVE  /\ UNCHANGED <<redis, older>>
             /\ \A d \in Requests : frame'[d] = frame[d] \/ Elsewhere(d)
  BY <1>3, <1>4 DEF Moved
<1>5. ASSUME UNCHANGED <<redis, older>>, Local(c, Idle), frame[c].pc \notin Entry
      PROVE  /\ UNCHANGED <<redis, older>>
             /\ \A d \in Requests : frame'[d] = frame[d] \/ Elsewhere(d)
  BY <1>2, <1>5 DEF Elsewhere
<1>6. CASE Start(c)
  <2>1. UNCHANGED <<redis, older>>
    BY <1>6 DEF Start, Index, Change, caches
  <2>2. \E g : Local(c, g) /\ g.pc \in {"getRows", "commit"}
    <3>1. ASSUME NEW p \in Pages, Index(c, p) PROVE \E g : Local(c, g) /\ g.pc \in {"getRows", "commit"}
      <4> DEFINE g == [Idle EXCEPT !.pc = "getRows", !.op = "Index", !.page = p]
      <4>1. Local(c, g)
        BY <3>1 DEF Index, Begin
      <4>2. g.pc = "getRows"
        BY DEF Idle
      <4> HIDE DEF g
      <4> QED
        BY <4>1, <4>2
    <3>2. ASSUME NEW op \in Changes, NEW id \in 1..(stamp + 1), Change(c, op, id)
          PROVE  \E g : Local(c, g) /\ g.pc \in {"getRows", "commit"}
      <4> DEFINE g == [Idle EXCEPT !.pc = "commit", !.op = op, !.todo = Writes(op),
                                   !.target = id, !.mark = stamp']
      <4>1. Local(c, g)
        BY <3>2 DEF Change, Begin
      <4>2. g.pc = "commit"
        BY DEF Idle
      <4> HIDE DEF g
      <4> QED
        BY <4>1, <4>2
    <3> QED
      BY <1>6, <3>1, <3>2 DEF Start
  <2>3. frame[c] = Idle
    BY <1>6 DEF Start, Index, Change, Begin
  <2> QED
    BY <1>2, <2>1, <2>2, <2>3 DEF Elsewhere
<1>7. CASE GetRows(c) \/ GetTotal(c)
  <2>1. \E from \in {"getRows", "getTotal"}, to \in {"getTotal", "reply", "find"} : Moved(c, from, to)
    BY <1>1, <1>7, LookingTurns
  <2>2. UNCHANGED <<redis, older>>
    BY <1>7 DEF GetRows, GetTotal, Got, caches
  <2> QED
    BY <1>4, <2>1, <2>2
<1>8. CASE Find(c) \/ Count(c) \/ Status(c) \/ ReadFails(c)
  <2>1. \/ \E from \in {"find", "count", "status"}, to \in {"count", "setRows", "status"} : Moved(c, from, to)
        \/ Local(c, Idle) /\ frame[c].pc \in {"find", "count", "status"}
    BY <1>8, SearchingTurns
  <2>2. UNCHANGED <<redis, older>>
    BY <1>8, SearchingTurns DEF caches
  <2> QED
    BY <1>4, <1>5, <2>1, <2>2
<1>9. CASE Reply(c)
  <2>1. Local(c, Idle) /\ frame[c].pc = "reply" /\ UNCHANGED caches
    BY <1>1, <1>9, CachingTurns
  <2> QED
    BY <1>5, <2>1 DEF caches
<1>10. CASE Commit(c)
  <2>1. /\ frame[c].pc = "commit" /\ UNCHANGED caches
        /\ Local(c, frame'[c]) /\ frame'[c].pc # "setList"
    BY <1>1, <1>10, ChangeTurns DEF Written
  <2> QED
    BY <1>3, <2>1 DEF caches
<1>11. CASE CommitMisses(c) \/ CommitPanics(c)
  <2>1. Local(c, Idle) /\ frame[c].pc = "commit" /\ UNCHANGED caches
    BY <1>1, <1>11, ChangeTurns
  <2> QED
    BY <1>5, <2>1 DEF caches
<1>12. CASE CommitFails(c)
  <2>1. /\ frame[c].pc = "commit"
        /\ \/ Exit
           \/ UNCHANGED caches /\ Local(c, frame'[c]) /\ frame'[c].pc # "setList"
           \/ UNCHANGED caches /\ Local(c, Idle)
    BY <1>1, <1>12, ChangeTurns DEF Written
  <2>2. CASE Exit
    <3>1. \A d \in Requests : frame[d].op # "Index"
      <4>1. Busy(c) /\ frame[c].op \in Changes
        BY <2>1, BusyFact DEF IndexLabels
      <4> QED
        BY <4>1, Constants DEF IndexAlone
    <3>2. \A d \in Requests : frame[d].pc \notin Entry
      BY <3>1, BusyFact DEF IndexLabels, ChangeLabels, Busy, Idle
    <3>3. \A d \in Requests : frame'[d] = Idle
      BY <2>2 DEF Exit
    <3> QED
      BY <1>2, <2>2, <3>2, <3>3 DEF Elsewhere, Exit
  <2>3. CASE UNCHANGED caches /\ Local(c, frame'[c]) /\ frame'[c].pc # "setList"
    BY <1>3, <2>1, <2>3 DEF caches
  <2>4. CASE UNCHANGED caches /\ Local(c, Idle)
    BY <1>5, <2>1, <2>4 DEF caches
  <2> QED
    BY <2>1, <2>2, <2>3, <2>4
<1>13. CASE ReadList(c)
  <2>1. Moved(c, "readList", "delete")
    BY <1>1, <1>13, ChangeTurns
  <2>2. UNCHANGED <<redis, older>>
    BY <1>13 DEF ReadList, Got, caches
  <2> QED
    BY <1>4, <2>1, <2>2
<1>14. CASE ListDone(c)
  <2>1. /\ UNCHANGED caches /\ frame[c].pc = "delete"
        /\ Moved(c, "delete", "readList") \/ Local(c, Idle)
    BY <1>1, <1>14, ChangeTurns
  <2> QED
    BY <1>4, <1>5, <2>1 DEF caches
<1> QED
  BY <1>6, <1>7, <1>8, <1>9, <1>10, <1>11, <1>12, <1>13, <1>14

LEMMA ListedStep ==
  ASSUME Inv, Inv', [Next]_vars, ListedInv, Spared'
  PROVE  PagesEntered' /\ ListsRead'
<1>1. Spared /\ IndexAlone /\ PagesEntered /\ ListsRead
  BY HarmStep DEF Spared, ListedInv
<1>2. /\ "redisError" \notin mishaps'
      /\ {"redisError", "exit"} \cap mishaps' = {}
  BY DEF Spared
<1>3. ASSUME UNCHANGED <<redis, older>>,
             \A d \in Requests : frame'[d] = frame[d] \/ Elsewhere(d)
      PROVE  PagesEntered' /\ ListsRead'
  BY <1>1, <1>3, QuietListed
\* What an Index that enters a page does is all that goes on.
<1>4. ASSUME NEW c \in Requests, frame[c].op = "Index", Local(c, frame'[c])
      PROVE  /\ \A d \in Requests, kind \in Kinds, p \in Pages : Entering(frame[d], kind, p) => d = c
             /\ \A d \in Requests : frame'[d].pc = "setList" => d = c
  <2>1. \A d \in Requests : d # c => frame'[d] = frame[d]
    BY <1>4 DEF Local, Inv, FramesOK
  <2>2. \A d \in Requests : frame[d].op = "Index" => d = c
    BY <1>1, <1>4, BusyFact DEF IndexAlone
  <2>3. \A d \in Requests : frame[d].pc = "setList" => frame[d].op = "Index"
    BY DEF Inv, FramesOK, FrameOK, IndexLabels
  <2> QED
    BY <2>1, <2>2, <2>3 DEF Entering
<1>5. ASSUME NEW c \in Requests, frame[c].pc \in IndexLabels
      PROVE  frame[c].op = "Index" /\ frame[c].page \in Pages
  BY <1>5 DEF Inv, FramesOK, FrameOK
<1>6. ASSUME NEW c \in Requests, SetRows(c) PROVE PagesEntered' /\ ListsRead'
  <2> DEFINE f == frame[c] key == Key("rows", f.page)
  <2>1. Moved(c, "setRows", "setTotal") /\ frame'[c].kind = f.kind /\ Set(key, f.rows)
    BY <1>2, <1>6, CachingTurns
  <2>2. f.op = "Index" /\ f.page \in Pages /\ key \in Keys /\ f.kind = "rows"
    BY <1>5, <2>1, KeyFacts DEF Moved, IndexLabels, Inv, FramesOK, FrameOK
  <2>3. ASSUME NEW kind \in Kinds, NEW p \in Pages, Cached(kind, p)'
        PROVE  Entered(kind, p)' \/ Entering(frame'[c], kind, p)
    <3>1. CASE key = Key(kind, p)
      <4>1. kind = "rows" /\ p = f.page
        BY <3>1 DEF Key
      <4> QED
        BY <2>1, <2>2, <4>1 DEF Entering, Moved
    <3>2. CASE key # Key(kind, p)
      <4>1. Cached(kind, p) /\ key # ListKey(kind)
        BY <2>1, <2>2, <2>3, <3>2, SetEffect, KeyFacts
      <4>2. Entered(kind, p)
        BY <1>1, <1>4, <2>1, <2>2, <4>1 DEF PagesEntered, Moved, Entering
      <4> QED
        BY <2>1, <2>2, <3>2, <4>1, <4>2, SetEffect
    <3> QED
      BY <3>1, <3>2
  <2>4. \A d \in Requests : frame'[d].pc # "setList"
    BY <1>4, <2>1, <2>2 DEF Moved
  <2> QED
    BY <2>3, <2>4 DEF PagesEntered, ListsRead
<1>7. ASSUME NEW c \in Requests, SetTotal(c) PROVE PagesEntered' /\ ListsRead'
  <2> DEFINE f == frame[c] key == Key("total", f.page)
  <2>1. Moved(c, "setTotal", "getList") /\ frame'[c].kind = f.kind /\ Set(key, f.total)
    BY <1>2, <1>7, CachingTurns
  <2>2. f.op = "Index" /\ f.page \in Pages /\ key \in Keys /\ f.kind = "rows"
    BY <1>5, <2>1, KeyFacts DEF Moved, IndexLabels, Inv, FramesOK, FrameOK
  <2>3. ASSUME NEW kind \in Kinds, NEW p \in Pages, Cached(kind, p)'
        PROVE  Entered(kind, p)' \/ Entering(frame'[c], kind, p)
    <3>1. CASE p = f.page
      BY <2>1, <2>2, <3>1 DEF Entering, Moved
    <3>2. CASE p # f.page
      <4>1. key # Key(kind, p)
        BY <3>2 DEF Key
      <4>2. Cached(kind, p) /\ key # ListKey(kind)
        BY <2>1, <2>2, <2>3, <4>1, SetEffect, KeyFacts
      <4>3. Entered(kind, p)
        BY <1>1, <1>4, <2>1, <2>2, <3>2, <4>2 DEF PagesEntered, Moved, Entering
      <4> QED
        BY <2>1, <2>2, <4>1, <4>2, <4>3, SetEffect
    <3> QED
      BY <3>1, <3>2
  <2>4. \A d \in Requests : frame'[d].pc # "setList"
    BY <1>4, <2>1, <2>2 DEF Moved
  <2> QED
    BY <2>3, <2>4 DEF PagesEntered, ListsRead
<1>8. ASSUME NEW c \in Requests, GetList(c) PROVE PagesEntered' /\ ListsRead'
  <2> DEFINE f == frame[c]
  <2>1. /\ Moved(c, "getList", "setList") /\ frame'[c].kind = f.kind
        /\ UNCHANGED <<redis, older>> /\ UNCHANGED harm
    BY <1>2, <1>8, CachingTurns
  <2>2. PICK list \in Found(global[f.kind], ListKey(f.kind)) :
          frame'[c].keys = IF list = None THEN {} ELSE list
    BY <1>2, <1>8, CachingTurns
  <2>3. f.op = "Index" /\ f.page \in Pages /\ f.kind \in Kinds
    BY <1>5, <2>1 DEF Moved, IndexLabels, Inv, FramesOK, FrameOK, Frame
  <2>4. list = redis[ListKey(f.kind)]
    BY <2>2, <2>3 DEF Found, Inv, CachesOK
  <2>5. ASSUME NEW kind \in Kinds, NEW p \in Pages, Cached(kind, p)'
        PROVE  Entered(kind, p)' \/ Entering(frame'[c], kind, p)
    <3>1. Cached(kind, p)
      BY <2>1, <2>5 DEF Cached, Key
    <3>2. CASE Entered(kind, p)
      <4>1. Entered(kind, p)'
        BY <2>1, <3>2, EnteredKept DEF Entered
      <4> QED
        BY <4>1
    <3>3. CASE Entering(frame[c], kind, p)
      BY <2>1, <3>3 DEF Entering, Moved
    <3> QED
      BY <1>1, <1>4, <2>1, <2>3, <3>1, <3>2, <3>3 DEF PagesEntered, Moved
  <2>6. ASSUME NEW p \in Pages, Cached(f.kind, p)' PROVE p \in frame'[c].keys \cup {f.page}
    <3>1. Cached(f.kind, p)
      BY <2>1, <2>6 DEF Cached, Key
    <3>2. Entered(f.kind, p) \/ p = f.page
      BY <1>1, <1>4, <2>1, <2>3, <3>1 DEF PagesEntered, Moved, Entering
    <3> QED
      BY <2>2, <2>4, <3>2 DEF Entered
  <2>7. \A d \in Requests : frame'[d].pc = "setList" => d = c
    BY <1>4, <2>1, <2>3 DEF Moved
  <2>8. ListsRead'
    <3>1. \A p \in Pages : (redis'[Key(f.kind, p)] # None) => p \in frame'[c].keys \cup {f.page}
      BY <2>1, <2>6 DEF Cached, Key
    <3>2. frame'[c].kind = f.kind /\ frame'[c].page = f.page
      BY <2>1 DEF Moved
    <3> QED
      BY <2>7, <3>1, <3>2 DEF ListsRead, Cached, Key
  <2> QED
    BY <2>5, <2>8 DEF PagesEntered
<1>9. ASSUME NEW c \in Requests, SetList(c) PROVE PagesEntered' /\ ListsRead'
  <2> DEFINE f == frame[c] key == ListKey(f.kind) keys == f.keys \cup {f.page}
  <2>1. /\ \/ f.kind = "rows" /\ Moved(c, "setList", "getList") /\ frame'[c].kind = "total"
           \/ f.kind # "rows" /\ Moved(c, "setList", "reply")
        /\ Set(key, keys)
    BY <1>2, <1>9, CachingTurns
  <2>2. /\ f.op = "Index" /\ f.page \in Pages /\ f.kind \in Kinds /\ f.pc = "setList"
        /\ f.keys \subseteq Pages
    BY <1>5, <2>1 DEF Moved, IndexLabels, Inv, FramesOK, FrameOK, Frame
  <2>3. key \in Keys /\ keys # None
    BY <2>2, KeyFacts, ValuesKnown
  <2>4. ASSUME NEW kind \in Kinds, NEW p \in Pages, Cached(kind, p)'
        PROVE  Entered(kind, p)' \/ Entering(frame'[c], kind, p)
    <3>0. key # Key(kind, p)
      BY <2>2, KeyFacts
    <3>1. Cached(kind, p)
      BY <2>1, <2>3, <2>4, <3>0, SetEffect
    <3>2. CASE kind = f.kind
      <4>1. p \in keys
        BY <1>1, <2>2, <3>1, <3>2 DEF ListsRead
      <4> QED
        BY <2>1, <2>3, <3>1, <3>2, <4>1, SetEffect
    <3>3. CASE kind # f.kind
      <4>1. key # ListKey(kind)
        BY <2>2, <3>3, KeyFacts
      <4>2. CASE Entered(kind, p)
        BY <2>1, <2>3, <3>0, <4>1, <4>2, SetEffect
      <4>3. CASE Entering(frame[c], kind, p)
        BY <2>1, <2>2, <3>3, <4>3 DEF Entering, Moved, Kinds
      <4> QED
        BY <1>1, <1>4, <2>1, <2>2, <3>1, <4>2, <4>3 DEF PagesEntered, Moved
    <3> QED
      BY <3>2, <3>3
  <2>5. \A d \in Requests : frame'[d].pc # "setList"
    BY <1>4, <2>1, <2>2 DEF Moved
  <2> QED
    BY <2>4, <2>5 DEF PagesEntered, ListsRead
<1>10. ASSUME NEW c \in Requests, NEW q \in Pages, DeleteKey(c, q) PROVE PagesEntered' /\ ListsRead'
  <2> DEFINE f == frame[c] key == Key(f.kind, q)
  <2>1. Moved(c, "delete", "delete") /\ Delete(key)
    BY <1>2, <1>10, ChangeTurns
  <2>2. Busy(c) /\ f.op \in Changes /\ f.kind \in Kinds
    BY <2>1, BusyFact DEF Moved, IndexLabels, Inv, FramesOK, Frame
  <2>3. \A d \in Requests : frame[d].op # "Index"
    BY <1>1, <2>2, Constants DEF IndexAlone
  <2>4. key \in Keys /\ redis' = [redis EXCEPT ![key] = None] /\ older' = Without(key)
    BY <2>1, <2>2, KeyFacts DEF Delete
  <2>5. ASSUME NEW kind \in Kinds, NEW p \in Pages, Cached(kind, p)' PROVE Entered(kind, p)'
    <3>1. Cached(kind, p) /\ key # Key(kind, p)
      BY <2>4, <2>5, DropEffect
    <3>2. Entered(kind, p)
      BY <1>1, <2>3, <3>1 DEF PagesEntered, Entering
    <3>3. key # ListKey(kind)
      BY <2>2, KeyFacts
    <3> QED
      BY <2>4, <3>1, <3>2, <3>3, DropEffect
  <2>6. \A d \in Requests : frame'[d].pc # "setList"
    <3>1. \A d \in Requests : frame[d].pc # "setList"
      BY <2>3, <1>5 DEF IndexLabels
    <3> QED
      BY <2>1, <3>1 DEF Moved, Local, Inv, FramesOK
  <2> QED
    BY <2>5, <2>6 DEF PagesEntered, ListsRead
<1>11. CASE Expire
  <2>1. PICK key \in Keys :
          /\ older[key] = {}
          /\ redis' = [redis EXCEPT ![key] = None]
          /\ older' = Without(key)
    BY <1>11 DEF Expire
  <2>2. UNCHANGED frame /\ MayExpire
    BY <1>11 DEF Expire, Mishap, Happens, MayExpire, Failures
  <2>3. ASSUME NEW kind \in Kinds, NEW p \in Pages, Cached(kind, p)'
        PROVE  Entered(kind, p)' \/ \E c \in Requests : Entering(frame'[c], kind, p)
    <3>1. Cached(kind, p) /\ key # Key(kind, p)
      BY <2>1, <2>3, DropEffect
    <3>2. CASE Entered(kind, p)
      <4>1. key # ListKey(kind)
        BY <2>1, <2>2, <3>2 DEF Entered
      <4> QED
        BY <2>1, <3>1, <3>2, <4>1, DropEffect
    <3> QED
      BY <1>1, <2>2, <3>1, <3>2 DEF PagesEntered
  <2>4. ASSUME NEW c \in Requests, NEW p \in Pages, frame[c].pc = "setList",
               redis'[Key(frame[c].kind, p)] # None
        PROVE  p \in frame[c].keys \cup {frame[c].page}
    <3>1. frame[c].kind \in Kinds
      BY DEF Inv, FramesOK, Frame
    <3>2. redis'[Key(frame[c].kind, p)] \in {None, redis[Key(frame[c].kind, p)]}
      BY <2>1, <3>1, KeyFacts DEF Inv, CachesOK
    <3> QED
      BY <1>1, <2>4, <3>2 DEF ListsRead, Cached
  <2> QED
    BY <2>2, <2>3, <2>4 DEF PagesEntered, ListsRead, Cached, Key
<1>12. CASE Refresh \/ Crash \/ UNCHANGED vars
  <2>1. UNCHANGED <<redis, older, frame>>
    BY <1>2, <1>12 DEF Refresh, Crash, Mishap, Happens, vars, caches
  <2> QED
    BY <1>3, <2>1
<1>13. \A c \in Requests : ~ SetListPanics(c)
  BY <1>2, CachingTurns
<1>14. ASSUME NEW c \in Requests, Start(c) \/ IndexStep(c) \/ ChangeStep(c)
       PROVE  PagesEntered' /\ ListsRead'
  BY <1>1, <1>3, <1>6, <1>7, <1>8, <1>9, <1>10, <1>13, <1>14, QuietSteps DEF IndexStep, ChangeStep
<1> QED
  BY <1>11, <1>12, <1>14 DEF Next

LEMMA ListedInit == Init => ListedInv
<1> SUFFICES ASSUME Init PROVE IndexAlone /\ PagesEntered /\ ListsRead
  BY DEF ListedInv
<1>1. \A c \in Requests : frame[c] = Idle
  BY DEF Init
<1>2. Idle.op = "none" /\ Idle.pc = "idle"
  BY DEF Idle
<1>3. \A kind \in Kinds, p \in Pages : ~ Cached(kind, p)
  BY KeyFacts DEF Init, Cached
<1> QED
  BY <1>1, <1>2, <1>3 DEF IndexAlone, PagesEntered, ListsRead

LEMMA ListedInvStep == Inv /\ ListedInv /\ [Next]_vars => ListedInv'
<1> SUFFICES ASSUME Inv, ListedInv, [Next]_vars, Spared'
             PROVE  IndexAlone' /\ PagesEntered' /\ ListsRead'
  BY DEF ListedInv
<1>1. Spared
  BY HarmStep DEF Spared
<1> QED
  BY <1>1, InvStep, AloneStep, ListedStep DEF ListedInv

\* CachedPagesListed, of what RemoveData finds in the key lists: for any number of requests,
\* pages and changes, and whichever entries expire.
THEOREM CachedPagesListedHolds == Spec => []CachedPagesListed
<1>1. Inv /\ ListedInv => CachedPagesListed
  <2> SUFFICES ASSUME ListedInv, Spared, NEW kind \in Kinds, NEW p \in Pages, Cached(kind, p)
               PROVE  \/ redis[ListKey(kind)] # None /\ p \in redis[ListKey(kind)]
                      \/ \E c \in Requests : frame[c].op = "Index" /\ frame[c].page = p
    BY DEF CachedPagesListed, Spared, Cached
  <2> QED
    BY DEF ListedInv, PagesEntered, Entered, Entering
<1> QED
  BY <1>1, InitOK, InvStep, ListedInit, ListedInvStep, PTL DEF Spec

-----------------------------------------------------------------------------
(* What a Get of a page may return, and what the calls to the cache make of it. *)

Copies(kind, p) == {redis[Key(kind, p)], drive[Key(kind, p)]} \ {None}

LEMMA FoundFact ==
  \A kind \in Kinds, p \in Pages :
    Found(drive[Key(kind, p)], Key(kind, p)) \ {None} = Copies(kind, p)
  BY DEF Found, Copies

LEMMA CopiesGot ==
  ASSUME Inv, NEW key \in Keys, NEW v \in Found(drive[key], key), Got(key, v),
         NEW kind \in Kinds, NEW p \in Pages
  PROVE  Copies(kind, p)' \subseteq Copies(kind, p)
<1>1. Key(kind, p) \in Keys
  BY KeyFacts
<1>2. Copies(kind, p)' = {redis'[Key(kind, p)], drive'[Key(kind, p)]} \ {None}
  BY DEF Copies, Key
<1>3. redis' = redis /\ drive'[Key(kind, p)] = IF Key(kind, p) = key THEN v ELSE drive[Key(kind, p)]
  BY <1>1 DEF Got, Inv, CachesOK
<1> QED
  BY <1>2, <1>3 DEF Copies, Found

LEMMA CopiesSet ==
  ASSUME Inv, NEW key \in Keys, NEW v, Set(key, v), NEW kind \in Kinds, NEW p \in Pages
  PROVE  /\ Copies(kind, p)' \subseteq Copies(kind, p) \cup {v}
         /\ key # Key(kind, p) => Copies(kind, p)' = Copies(kind, p)
<1>1. Key(kind, p) \in Keys
  BY KeyFacts
<1>2. Copies(kind, p)' = {redis'[Key(kind, p)], drive'[Key(kind, p)]} \ {None}
  BY DEF Copies, Key
<1>3. drive' = drive /\ redis'[Key(kind, p)] = IF Key(kind, p) = key THEN v ELSE redis[Key(kind, p)]
  BY <1>1 DEF Set, Inv, CachesOK
<1> QED
  BY <1>2, <1>3 DEF Copies

LEMMA CopiesDelete ==
  ASSUME Inv, NEW key \in Keys, Delete(key), NEW kind \in Kinds, NEW p \in Pages
  PROVE  Copies(kind, p)' = IF key = Key(kind, p) THEN {} ELSE Copies(kind, p)
<1>1. Key(kind, p) \in Keys
  BY KeyFacts
<1>2. Copies(kind, p)' = {redis'[Key(kind, p)], drive'[Key(kind, p)]} \ {None}
  BY DEF Copies, Key
<1>3. /\ redis'[Key(kind, p)] = IF Key(kind, p) = key THEN None ELSE redis[Key(kind, p)]
      /\ drive'[Key(kind, p)] = IF Key(kind, p) = key THEN None ELSE drive[Key(kind, p)]
  BY <1>1 DEF Delete, Inv, CachesOK
<1> QED
  BY <1>2, <1>3 DEF Copies

LEMMA CopiesKept ==
  ASSUME UNCHANGED <<redis, drive>>, NEW kind \in Kinds, NEW p \in Pages
  PROVE  Copies(kind, p)' = Copies(kind, p)
  BY DEF Copies, Key

-----------------------------------------------------------------------------
(* WholePages.  Rows are in the cache only together with their total, so    *)
(* that an Index which nothing overlaps finds both or neither and never     *)
(* appends to what it found; what it makes then are the records of the page *)
(* in their order, and no two servers have one id.                          *)

\* What one request does while an Index runs, and what an Index does, it does alone.
LEMMA AloneFacts ==
  ASSUME Inv, IndexAlone, Spared', NEW c \in Requests
  PROVE  /\ Start(c) \/ ChangeStep(c) => \A d \in Requests : frame[d].op # "Index"
         /\ IndexStep(c) => /\ frame[c].op = "Index" /\ ~ Running(Changes)
                            /\ \A d \in Requests : d # c => frame[d] = Idle
<1>1. ASSUME NEW p \in Pages, Index(c, p) PROVE \A d \in Requests : frame[d].op # "Index"
  BY <1>1 DEF Index, HappensIf, Happens, Spared, Running
<1>2. ASSUME NEW op \in Changes, NEW id \in 1..(stamp + 1), Change(c, op, id)
      PROVE  \A d \in Requests : frame[d].op # "Index"
  BY <1>2 DEF Change, Happens, Spared, Running
<1>3. ASSUME ChangeStep(c) PROVE \A d \in Requests : frame[d].op # "Index"
  <2>1. frame[c].pc \in ChangeLabels
    BY <1>3 DEF ChangeStep, Commit, CommitMisses, CommitPanics, CommitFails, ReadList, DeleteKey,
                ListDone, At, ChangeLabels
  <2>2. Busy(c) /\ frame[c].op \in Changes
    BY <2>1, BusyFact DEF ChangeLabels, IndexLabels
  <2> QED
    BY <2>2, Constants DEF IndexAlone
<1>4. ASSUME IndexStep(c)
      PROVE  /\ frame[c].op = "Index" /\ ~ Running(Changes)
             /\ \A d \in Requests : d # c => frame[d] = Idle
  <2>1. frame[c].pc \in IndexLabels
    BY <1>4 DEF IndexStep, GetRows, GetTotal, Find, Count, Status, ReadFails, SetRows, SetTotal,
                GetList, SetList, SetListPanics, Reply, At, IndexLabels
  <2>2. frame[c].op = "Index"
    BY <2>1 DEF Inv, FramesOK, FrameOK
  <2>3. \A d \in Requests : d # c => frame[d] = Idle
    BY <2>2 DEF IndexAlone, Busy
  <2>4. ~ Running(Changes)
    BY <2>2, <2>3, Constants DEF Running, Idle
  <2> QED
    BY <2>2, <2>3, <2>4
<1> QED
  BY <1>1, <1>2, <1>3, <1>4 DEF Start

Unharmed == mishaps \subseteq {"unrefreshed", "storeError"}

LEMMA UnharmedFacts ==
  ASSUME Inv, [Next]_vars, Unharmed'
  PROVE  /\ Unharmed /\ Spared /\ Spared'
         /\ {"redisError", "exit"} \cap mishaps' = {} /\ "redisError" \notin mishaps'
         /\ "overlap" \notin mishaps' /\ "hurry" \notin mishaps' /\ "expiry" \notin mishaps'
         /\ ~ Expire /\ ~ Crash
<1>1. mishaps \subseteq mishaps'
  BY HarmStep
<1>2. ~ Expire /\ ~ Crash
  BY DEF Expire, Crash, Mishap, Happens, Unharmed
<1> QED
  BY <1>1, <1>2 DEF Unharmed, Spared

Distinct(s) == \A i, j \in DOMAIN s : s[i].id = s[j].id => i = j

\* An AddServer that has yet to insert its record.
Adding(f) == f.pc = "commit" /\ f.op = "AddServer" /\ f.todo = Writes("AddServer")

Unique ==
  /\ Distinct(servers)
  /\ \A i \in DOMAIN servers : servers[i].id <= stamp
  /\ \A c \in Requests : Adding(frame[c]) => frame[c].target <= stamp /\ Gone(frame[c].target)
  /\ \A c, d \in Requests :
       Adding(frame[c]) /\ Adding(frame[d]) /\ frame[c].target = frame[d].target => c = d

LEMMA RecordsDistinct ==
  ASSUME Inv, Distinct(servers), NEW p \in Pages
  PROVE  Distinct(Records(p))
<1> DEFINE m == (p - 1) * Limit + 1
           n == Min({p * Limit, Len(servers)})
           s == SubSeq(servers, m, n)
<1>1. p \in Nat /\ p >= 1 /\ Limit \in Nat /\ servers \in Seq(Rec) /\ Len(servers) \in Nat
  BY Constants DEF Inv, StoresOK
<1>2. (p - 1) * Limit \in Nat /\ p * Limit \in Nat
  BY <1>1
<1>3. m \in Nat /\ m >= 1
  BY <1>2
<1>4. n \in Nat /\ n <= Len(servers)
  BY <1>1, <1>2, MinFact
<1>5. Records(p) = s
  BY DEF Records
<1> HIDE DEF m, n
<1>6. DOMAIN s = 1..Len(s) /\ \A i \in DOMAIN s : m + i - 1 \in DOMAIN servers /\ s[i] = servers[m + i - 1]
  BY <1>1, <1>3, <1>4
<1> HIDE DEF s
<1>7. ASSUME NEW i \in DOMAIN s, NEW j \in DOMAIN s, s[i].id = s[j].id PROVE i = j
  <2>1. m + i - 1 = m + j - 1
    BY <1>6, <1>7 DEF Distinct
  <2>2. i \in Int /\ j \in Int
    BY <1>6
  <2> QED
    BY <1>3, <2>1, <2>2
<1> QED
  BY <1>5, <1>7 DEF Distinct

\* Who is adding what, and which ids are on record, after a write.
LEMMA WriteUnique ==
  ASSUME Inv, Unique, NEW c \in Requests, frame[c].pc = "commit", Write(frame[c])
  PROVE  /\ Distinct(servers)' /\ UNCHANGED stamp
         /\ \A i \in DOMAIN servers' : servers'[i].id <= stamp
         /\ \A id : Gone(id) => \/ \A i \in DOMAIN servers' : servers'[i].id # id
                                \/ Adding(frame[c]) /\ id = frame[c].target
<1> DEFINE f == frame[c]
<1>1. /\ servers \in Seq(Rec) /\ DOMAIN servers = 1..Len(servers) /\ Len(servers) \in Nat
      /\ f.op \in Changes /\ f.target \in Ids
      /\ f.todo \in {Writes(f.op), Tail(Writes(f.op))} \ {<< >>}
  BY DEF Inv, StoresOK, FramesOK, FrameOK, ChangeLabels
<1>2. CASE UNCHANGED <<servers, visible, stamp>>
  BY <1>2 DEF Unique, Distinct, Gone
<1>3. CASE /\ Head(f.todo) = "mongo" /\ servers' \in MongoWrites(f.op, f.target, f.mark)
           /\ UNCHANGED <<indexed, visible, stamp>>
  <2>1. CASE f.op = "AddServer"
    <3> DEFINE r == [id |-> f.target, attr |-> f.mark] s == <<r>> \o servers
    <3>1. servers' = s
      BY <1>3, <2>1 DEF MongoWrites
    <3>2. r.id = f.target
      OBVIOUS
    <3> HIDE DEF r
    <3>3. /\ DOMAIN s = 1..(Len(servers) + 1)
          /\ s[1] = r /\ \A i \in 2..(Len(servers) + 1) : i - 1 \in DOMAIN servers /\ s[i] = servers[i - 1]
      BY <1>1
    <3> HIDE DEF s
    <3>4. Adding(f)
      <4>1. Writes(f.op) = <<"mongo", "elastic">>
        BY <1>1, <2>1, WritesFacts
      <4>2. Head(Tail(<<"mongo", "elastic">>)) = "elastic"
        OBVIOUS
      <4>3. f.todo = Writes(f.op)
        BY <1>1, <1>3, <4>1, <4>2
      <4> QED
        BY <2>1, <4>3 DEF Adding
    <3>5. f.target <= stamp /\ Gone(f.target)
      BY <3>4 DEF Unique
    <3>6. ASSUME NEW i \in DOMAIN s, NEW j \in DOMAIN s, s[i].id = s[j].id PROVE i = j
      <4>1. CASE i = 1 /\ j # 1
        <5>1. j - 1 \in DOMAIN servers /\ servers[j - 1].id = f.target
          BY <3>2, <3>3, <3>6, <4>1
        <5> QED
          BY <3>5, <5>1 DEF Gone
      <4>2. CASE i # 1 /\ j = 1
        <5>1. i - 1 \in DOMAIN servers /\ servers[i - 1].id = f.target
          BY <3>2, <3>3, <3>6, <4>2
        <5> QED
          BY <3>5, <5>1 DEF Gone
      <4>3. CASE i # 1 /\ j # 1
        <5>1. /\ i - 1 \in DOMAIN servers /\ j - 1 \in DOMAIN servers
              /\ servers[i - 1].id = servers[j - 1].id /\ i \in Nat /\ j \in Nat
          BY <3>3, <3>6, <4>3
        <5>2. i - 1 = j - 1
          BY <5>1 DEF Unique, Distinct
        <5> QED
          BY <5>1, <5>2
      <4> QED
        BY <4>1, <4>2, <4>3
    <3>7. ASSUME NEW i \in DOMAIN s PROVE s[i].id <= stamp
      <4>1. i = 1 \/ (i - 1 \in DOMAIN servers /\ s[i] = servers[i - 1])
        BY <3>3
      <4> QED
        BY <3>2, <3>3, <3>5, <4>1 DEF Unique
    <3>8. ASSUME NEW id, Gone(id), id # f.target PROVE \A i \in DOMAIN s : s[i].id # id
      <4> TAKE i \in DOMAIN s
      <4>1. i = 1 \/ (i - 1 \in DOMAIN servers /\ s[i] = servers[i - 1])
        BY <3>3
      <4> QED
        BY <3>2, <3>3, <3>8, <4>1 DEF Gone
    <3> QED
      BY <1>3, <3>1, <3>4, <3>6, <3>7, <3>8 DEF Distinct, Gone
  <2>2. CASE f.op = "DeleteServer"
    <3>1. PICK k \in DOMAIN servers : servers' = RemoveAt(servers, k)
      BY <1>3, <2>2 DEF MongoWrites
    <3> DEFINE s == RemoveAt(servers, k)
               old(i) == IF i < k THEN i ELSE i + 1
    <3>2. s \in Seq(Rec) /\ DOMAIN s = 1..(Len(servers) - 1)
      BY <1>1, RemoveFact
    <3>3. \A i \in DOMAIN s : s[i] = servers[old(i)]
      BY <1>1, <3>2, RemoveFact
    <3> HIDE DEF s
    <3>4. \A i \in DOMAIN s : old(i) \in DOMAIN servers
      BY <1>1, <3>2
    <3>5. \A i, j \in DOMAIN s : old(i) = old(j) => i = j
      BY <1>1, <3>2
    <3> HIDE DEF old
    <3> QED
      BY <1>3, <3>1, <3>3, <3>4, <3>5 DEF Unique, Distinct, Gone, s
  <2>3. CASE f.op \notin {"AddServer", "DeleteServer"}
    <3> DEFINE s == [i \in DOMAIN servers |->
                       IF servers[i].id = f.target THEN [servers[i] EXCEPT !.attr = f.mark]
                       ELSE servers[i]]
    <3>1. servers' = s
      BY <1>3, <2>3 DEF MongoWrites
    <3>2. DOMAIN s = DOMAIN servers
      OBVIOUS
    <3>3. ASSUME NEW i \in DOMAIN servers PROVE s[i].id = servers[i].id
      <4>1. servers[i] \in Rec
        BY <1>1
      <4> QED
        BY <4>1 DEF Rec
    <3> HIDE DEF s
    <3> QED
      BY <1>3, <3>1, <3>2, <3>3 DEF Unique, Distinct, Gone
  <2> QED
    BY <2>1, <2>2, <2>3
<1> QED
  BY <1>2, <1>3 DEF Write

\* A step after which nobody adds who did not add before.
LEMMA UniqueKept ==
  ASSUME Inv, Unique, UNCHANGED <<servers, stamp>>,
         \A d \in Requests : frame'[d] = frame[d] \/ ~ Adding(frame'[d])
  PROVE  Unique'
<1>1. \A d \in Requests : Adding(frame[d])' = Adding(frame'[d])
  BY DEF Adding, Writes
<1> QED
  BY <1>1 DEF Unique, Distinct, Gone

LEMMA UniqueStep ==
  ASSUME Inv, [Next]_vars, Unharmed', Unique
  PROVE  Unique'
<1>1. /\ {"redisError", "exit"} \cap mishaps' = {} /\ "redisError" \notin mishaps'
      /\ ~ Expire /\ ~ Crash
  BY UnharmedFacts
<1>2. /\ \A c \in Requests : \A g : Local(c, g) => \A d \in Requests : frame'[d] = IF d = c THEN g ELSE frame[d]
      /\ ~ Adding(Idle)
  BY DEF Local, Inv, FramesOK, Adding, Idle
<1>3. \A d \in Requests : Adding(frame[d])' = Adding(frame'[d])
  BY DEF Adding, Writes
<1>4. ASSUME NEW c \in Requests, NEW p \in Pages, Index(c, p) PROVE Unique'
  <2> DEFINE g == [Idle EXCEPT !.pc = "getRows", !.op = "Index", !.page = p]
  <2>1. Local(c, g) /\ UNCHANGED <<servers, stamp>>
    BY <1>4 DEF Index, Begin, stores
  <2>2. g.op = "Index"
    BY DEF Idle
  <2> HIDE DEF g
  <2> QED
    BY <1>2, <2>1, <2>2, UniqueKept DEF Adding
<1>5. ASSUME NEW c \in Requests, NEW op \in Changes, NEW id \in 1..(stamp + 1), Change(c, op, id)
      PROVE  Unique'
  <2> DEFINE g == [Idle EXCEPT !.pc = "commit", !.op = op, !.todo = Writes(op),
                               !.target = id, !.mark = stamp']
  <2>1. /\ Local(c, g) /\ UNCHANGED servers
        /\ op = "AddServer" => id = stamp + 1
        /\ stamp' = IF op = "DeleteServer" THEN stamp ELSE stamp + 1
    BY <1>5 DEF Change, Begin
  <2>2. g.op = op /\ g.target = id
    BY DEF Idle
  <2> HIDE DEF g
  <2>3. stamp \in Nat /\ stamp <= stamp' /\ stamp' \in Nat
    BY <2>1 DEF Inv, StoresOK
  <2>4. \A i \in DOMAIN servers : servers[i].id \in Nat /\ servers[i].id <= stamp
    <3>1. \A i \in DOMAIN servers : servers[i] \in Rec
      BY DEF Inv, StoresOK
    <3> QED
      BY <3>1, Constants DEF Unique, Rec, Ids
  <2>5. \A d \in Requests : frame[d].target \in Nat
    BY DEF Inv, FramesOK, Frame
  <2>6. Adding(g) => g.target = stamp + 1 /\ stamp' = stamp + 1
    BY <2>1, <2>2 DEF Adding
  <2>7. Distinct(servers)' /\ \A i \in DOMAIN servers' : servers'[i].id <= stamp'
    BY <2>1, <2>3, <2>4 DEF Unique, Distinct
  <2>8. ASSUME NEW d \in Requests, Adding(frame'[d])
        PROVE  /\ frame'[d].target <= stamp'
               /\ \A i \in DOMAIN servers' : servers'[i].id # frame'[d].target
    <3>1. CASE d = c
      <4>1. Adding(g) /\ frame'[d] = g
        BY <1>2, <2>1, <2>8, <3>1
      <4>2. Gone(stamp + 1)
        BY <2>3, <2>4 DEF Gone
      <4> QED
        BY <2>1, <2>3, <2>6, <4>1, <4>2 DEF Gone
    <3>2. CASE d # c
      <4>1. frame'[d] = frame[d]
        BY <1>2, <2>1, <3>2
      <4>2. frame[d].target <= stamp /\ Gone(frame[d].target)
        BY <2>8, <4>1 DEF Unique
      <4> QED
        BY <2>1, <2>3, <2>5, <4>1, <4>2 DEF Gone
    <3> QED
      BY <3>1, <3>2
  <2>9. ASSUME NEW d \in Requests, NEW e \in Requests, Adding(frame'[d]), Adding(frame'[e]),
               frame'[d].target = frame'[e].target
        PROVE  d = e
    <3>1. \A k \in Requests : k # c /\ Adding(frame'[k]) =>
            frame'[k] = frame[k] /\ frame'[k].target <= stamp /\ frame'[k].target \in Nat
      BY <1>2, <2>1, <2>5 DEF Unique
    <3>2. frame'[c] = g
      BY <1>2, <2>1
    <3>3. CASE d = c /\ e # c
      BY <2>3, <2>6, <2>9, <3>1, <3>2, <3>3
    <3>4. CASE d # c /\ e = c
      BY <2>3, <2>6, <2>9, <3>1, <3>2, <3>4
    <3>5. CASE d # c /\ e # c
      BY <2>9, <3>1, <3>5 DEF Unique
    <3> QED
      BY <3>3, <3>4, <3>5
  <2> QED
    BY <1>3, <2>7, <2>8, <2>9 DEF Unique, Gone
<1>6. ASSUME NEW c \in Requests, IndexStep(c) PROVE Unique'
  <2>1. /\ UNCHANGED <<servers, stamp>>
        /\ \/ Local(c, Idle)
           \/ Local(c, frame'[c]) /\ frame'[c].op = "Index"
    BY <1>1, <1>6, IndexMoves DEF stores
  <2> QED
    BY <1>2, <2>1, UniqueKept DEF Adding
<1>7. ASSUME NEW c \in Requests, frame[c].pc = "commit", Write(frame[c]),
             \/ \A d \in Requests : frame'[d] = Idle
             \/ \E g : Local(c, g) /\ ~ Adding(g)
      PROVE  Unique'
  <2>1. /\ Distinct(servers)' /\ UNCHANGED stamp
        /\ \A i \in DOMAIN servers' : servers'[i].id <= stamp
        /\ \A id : Gone(id) => \/ \A i \in DOMAIN servers' : servers'[i].id # id
                               \/ Adding(frame[c]) /\ id = frame[c].target
    BY <1>7, WriteUnique
  <2>2. \A d \in Requests : Adding(frame'[d]) => d # c /\ frame'[d] = frame[d]
    BY <1>2, <1>7
  <2>3. ASSUME NEW d \in Requests, Adding(frame'[d])
        PROVE  /\ frame'[d].target <= stamp
               /\ \A i \in DOMAIN servers' : servers'[i].id # frame'[d].target
    <3>1. d # c /\ frame'[d] = frame[d] /\ Adding(frame[d])
      BY <2>2, <2>3
    <3>2. frame[d].target <= stamp /\ Gone(frame[d].target)
      BY <3>1 DEF Unique
    <3>3. Adding(frame[c]) => frame[c].target # frame[d].target
      BY <3>1 DEF Unique
    <3> DEFINE id == frame[d].target
    <3>4. Gone(id) /\ ~ (Adding(frame[c]) /\ id = frame[c].target)
      BY <3>2, <3>3
    <3> HIDE DEF id
    <3>5. \A i \in DOMAIN servers' : servers'[i].id # id
      BY <2>1, <3>4 DEF Gone
    <3> QED
      BY <2>1, <3>1, <3>2, <3>5 DEF id
  <2>4. \A d, e \in Requests :
          Adding(frame'[d]) /\ Adding(frame'[e]) /\ frame'[d].target = frame'[e].target => d = e
    BY <2>2 DEF Unique
  <2> QED
    BY <1>3, <2>1, <2>3, <2>4 DEF Unique, Gone
<1>8. ASSUME NEW c \in Requests, Commit(c) PROVE Unique'
  <2>1. frame[c].pc = "commit" /\ Write(frame[c]) /\ Local(c, frame'[c]) /\ Written(frame[c], frame'[c])
    BY <1>1, <1>8, ChangeTurns
  <2>2. ~ Adding(frame'[c])
    BY <2>1 DEF Written, Adding
  <2> QED
    BY <1>7, <2>1, <2>2
<1>9. ASSUME NEW c \in Requests, CommitFails(c) PROVE Unique'
  <2>1. /\ frame[c].pc = "commit"
        /\ Write(frame[c]) \/ UNCHANGED stores
        /\ \/ Exit
           \/ Local(c, frame'[c]) /\ Written(frame[c], frame'[c])
           \/ Local(c, Idle)
    BY <1>1, <1>9, ChangeTurns
  <2>2. \/ \A d \in Requests : frame'[d] = Idle
        \/ \E g : Local(c, g) /\ ~ Adding(g)
    BY <1>2, <2>1 DEF Exit, Written, Adding
  <2>3. CASE UNCHANGED stores
    BY <1>2, <2>2, <2>3, UniqueKept DEF stores
  <2> QED
    BY <1>7, <2>1, <2>2, <2>3
<1>10. ASSUME NEW c \in Requests, CommitMisses(c) \/ ReadList(c) \/ (\E p \in Pages : DeleteKey(c, p)) \/ ListDone(c)
       PROVE  Unique'
  <2>1. UNCHANGED stores /\ \E g : Local(c, g) /\ ~ Adding(g)
    <3>1. UNCHANGED stores /\ (Local(c, Idle) \/ \E from, to \in {"readList", "delete"} : Moved(c, from, to))
      BY <1>1, <1>10, ChangeTurns
    <3> QED
      BY <1>2, <3>1 DEF Moved, Adding
  <2> QED
    BY <1>2, <2>1, UniqueKept DEF stores
<1>11. CASE Refresh \/ UNCHANGED vars
  <2>1. UNCHANGED <<servers, stamp, frame>>
    BY <1>11 DEF Refresh, vars, stores
  <2> QED
    BY <2>1, UniqueKept
<1>12. \A c \in Requests : ~ CommitPanics(c)
  BY <1>1, ChangeTurns
<1> QED
  BY <1>1, <1>4, <1>5, <1>6, <1>8, <1>9, <1>10, <1>11, <1>12 DEF Next, Start, ChangeStep

\* The local copies are of what Redis holds.
CopiesCached ==
  \A kind \in Kinds, p \in Pages : drive[Key(kind, p)] # None => Cached(kind, p)

\* Rows are cached with their total.
Together ==
  \A p \in Pages : Cached("rows", p) =>
    Cached("total", p) \/ \E c \in Requests : frame[c].pc = "setTotal" /\ frame[c].page = p

\* A change reads the key lists as they are, and drops the rows and then the totals.
ListCopies ==
  Running(Changes) => \A kind \in Kinds : drive[ListKey(kind)] \in {None, redis[ListKey(kind)]}

Dropped(f) ==
  /\ f.pc = "delete" /\ f.kind = "rows" => \A p \in Pages : Cached("rows", p) => p \in f.keys
  /\ f.pc \in {"readList", "delete"} /\ f.kind = "total" => \A p \in Pages : ~ Cached("rows", p)

\* The list of the rows' keys names the pages of the totals, and only grows.
TotalsListed ==
  \A p \in Pages : Cached("total", p) =>
    \/ redis[ListKey("rows")] # None /\ p \in redis[ListKey("rows")]
    \/ \E c \in Requests : Entering(frame[c], "rows", p)

ListsGrow ==
  \A c \in Requests : frame[c].pc = "setList" /\ redis[ListKey(frame[c].kind)] # None =>
    redis[ListKey(frame[c].kind)] \subseteq frame[c].keys

Paired == /\ CopiesCached /\ Together /\ ListCopies /\ TotalsListed /\ ListsGrow
          /\ \A c \in Requests : Dropped(frame[c])

\* A step between the calls that change what is cached.
LEMMA QuietPaired ==
  ASSUME Inv, Paired, UNCHANGED redis,
         \A kind \in Kinds, p \in Pages :
           drive'[Key(kind, p)] # None => drive[Key(kind, p)] # None \/ redis[Key(kind, p)] # None,
         \A kind \in Kinds : drive'[ListKey(kind)] \in {None, drive[ListKey(kind)]},
         Running(Changes)' => Running(Changes) \/ \A kind \in Kinds : drive'[ListKey(kind)] = None,
         \A d \in Requests : \/ frame'[d] = frame[d]
                             \/ /\ frame[d].pc \notin {"setTotal", "getList", "setList"}
                                /\ frame'[d].pc \notin {"setList", "delete"}
                                /\ frame'[d].pc = "readList" => frame'[d].kind = "rows"
  PROVE  Paired'
<1>1. /\ \A kind, p : Cached(kind, p)' = Cached(kind, p)
      /\ \A kind : ListKey(kind)' = ListKey(kind)
      /\ \A kind, p : Key(kind, p)' = Key(kind, p)
  BY DEF Cached, Key, ListKey
<1>2. CopiesCached'
  BY <1>1 DEF Paired, CopiesCached, Cached
<1>3. Together'
  BY <1>1 DEF Paired, Together
<1>4. ListCopies'
  BY <1>1 DEF Paired, ListCopies
<1>5. TotalsListed'
  <2>1. \A c \in Requests, p \in Pages : Entering(frame[c], "rows", p) => Entering(frame'[c], "rows", p)
    BY DEF Entering
  <2>2. \A c \in Requests, p \in Pages : Entering(frame[c], "rows", p)' = Entering(frame'[c], "rows", p)
    BY DEF Entering
  <2> QED
    BY <1>1, <2>1, <2>2 DEF Paired, TotalsListed
<1>6. ListsGrow'
  BY <1>1 DEF Paired, ListsGrow
<1>7. ASSUME NEW d \in Requests PROVE Dropped(frame[d])'
  <2>1. Dropped(frame[d])
    BY DEF Paired
  <2> QED
    BY <1>1, <2>1 DEF Dropped, Kinds
<1> QED
  BY <1>2, <1>3, <1>4, <1>5, <1>6, <1>7 DEF Paired

\* An Index caches its page: there is no other request.
LEMMA IndexPaired ==
  ASSUME Inv, [Next]_vars, Paired, IndexAlone, Spared', NEW c \in Requests, IndexStep(c)
  PROVE  Paired'
<1> DEFINE f == frame[c] g == frame'[c]
<1>1. "redisError" \notin mishaps' /\ {"redisError", "exit"} \cap mishaps' = {}
  BY DEF Spared
<1>2. /\ f.op = "Index" /\ f.page \in Pages /\ f.kind \in Kinds /\ f.pc \in IndexLabels
      /\ f.kind = "rows" \/ f.pc \in {"getList", "setList"}
      /\ ~ Running(Changes)
      /\ \A d \in Requests : d # c => frame[d] = Idle
  <2>1. f.pc \in IndexLabels /\ f.page \in Pages
    BY <1>1, IndexMoves
  <2>2. f.kind \in Kinds /\ (f.kind = "rows" \/ f.pc \in {"getList", "setList"})
    BY <2>1 DEF Inv, FramesOK, FrameOK, Frame, IndexLabels
  <2> QED
    BY <2>1, <2>2, AloneFacts
<1>3. /\ \A h : Local(c, h) => g = h /\ \A d \in Requests : d # c => frame'[d] = frame[d]
      /\ \/ Local(c, Idle)
         \/ Local(c, g) /\ g.op = "Index" /\ g.page = f.page
      /\ \A d \in Requests : d # c => frame'[d] = Idle
  <2>1. \/ Local(c, Idle)
        \/ Local(c, g) /\ g.op = "Index" /\ g.page = f.page
    BY <1>1, IndexMoves
  <2> QED
    BY <1>2, <2>1 DEF Local, Inv, FramesOK
<1>4. ~ Running(Changes)'
  BY <1>3, Constants DEF Running, Idle
<1>5. Idle.pc = "idle" /\ Idle.op = "none"
  BY DEF Idle
\* Nobody drops anything, and nobody else enters anything.
<1>6. ASSUME g.pc \in IndexLabels \cup {"idle"},
             CopiesCached',
             \A p \in Pages : Cached("rows", p)' =>
               Cached("total", p)' \/ (g.pc = "setTotal" /\ g.page = p),
             \A p \in Pages : Cached("total", p)' =>
               \/ redis'[ListKey("rows")] # None /\ p \in redis'[ListKey("rows")]
               \/ Entering(g, "rows", p),
             g.pc = "setList" /\ redis'[ListKey(g.kind)] # None => redis'[ListKey(g.kind)] \subseteq g.keys
      PROVE  Paired'
  <2>1. Together'
    BY <1>6 DEF Together
  <2>2. ListCopies'
    BY <1>4 DEF ListCopies
  <2>3. TotalsListed'
    BY <1>6 DEF TotalsListed, ListKey, Entering
  <2>4. ListsGrow'
    BY <1>3, <1>5, <1>6 DEF ListsGrow, ListKey
  <2>5. \A d \in Requests : Dropped(frame[d])'
    BY <1>3, <1>5, <1>6 DEF Dropped, IndexLabels
  <2> QED
    BY <1>6, <2>1, <2>2, <2>3, <2>4, <2>5 DEF Paired
\* What holds of the totals before, for the one request there is.
<1>7. /\ \A p \in Pages : Cached("rows", p) =>
           Cached("total", p) \/ (f.pc = "setTotal" /\ f.page = p)
      /\ \A p \in Pages : Cached("total", p) =>
           \/ redis[ListKey("rows")] # None /\ p \in redis[ListKey("rows")]
           \/ Entering(f, "rows", p)
      /\ f.pc = "setList" /\ redis[ListKey(f.kind)] # None => redis[ListKey(f.kind)] \subseteq f.keys
      /\ CopiesCached
  BY <1>2, <1>5 DEF Paired, Together, TotalsListed, ListsGrow, Entering
<1>8. ASSUME NEW k \in Kinds, NEW v, Got(Key(k, f.page), v), v \in Found(drive[Key(k, f.page)], Key(k, f.page)),
             g.pc \notin {"setList", "delete", "readList"}, f.pc \notin {"setTotal", "getList", "setList"}
      PROVE  Paired'
  <2>1. Key(k, f.page) \in Keys /\ \A kind \in Kinds : ListKey(kind) # Key(k, f.page) /\ ListKey(kind) \in Keys
    BY <1>2, KeyFacts
  <2>2. UNCHANGED redis /\ drive' = [drive EXCEPT ![Key(k, f.page)] = v] /\ DOMAIN drive = Keys
    BY <1>8 DEF Got, Inv, CachesOK
  <2>3. \A kind \in Kinds, p \in Pages :
          drive'[Key(kind, p)] # None => drive[Key(kind, p)] # None \/ redis[Key(kind, p)] # None
    <3> TAKE kind \in Kinds, p \in Pages
    <3>1. Key(kind, p) \in Keys
      BY KeyFacts
    <3>2. drive'[Key(kind, p)] = IF Key(kind, p) = Key(k, f.page) THEN v ELSE drive[Key(kind, p)]
      BY <2>2, <3>1
    <3> QED
      BY <1>8, <3>2 DEF Found
  <2>4. \A kind \in Kinds : drive'[ListKey(kind)] \in {None, drive[ListKey(kind)]}
    BY <2>1, <2>2
  <2>5. \A d \in Requests : d = c \/ frame'[d] = frame[d]
    BY <1>3
  <2>6. \A d \in Requests : \/ frame'[d] = frame[d]
                            \/ /\ frame[d].pc \notin {"setTotal", "getList", "setList"}
                               /\ frame'[d].pc \notin {"setList", "delete"}
                               /\ frame'[d].pc = "readList" => frame'[d].kind = "rows"
    BY <1>8, <2>5
  <2> QED
    BY <1>4, <2>2, <2>3, <2>4, <2>6, QuietPaired
<1>9. ASSUME UNCHANGED caches, g.pc \notin {"setList", "delete", "readList"},
             f.pc \notin {"setTotal", "getList", "setList"}
      PROVE  Paired'
  <2>1. UNCHANGED <<redis, drive>>
    BY <1>9 DEF caches
  <2>2. \A d \in Requests : \/ frame'[d] = frame[d]
                            \/ /\ frame[d].pc \notin {"setTotal", "getList", "setList"}
                               /\ frame'[d].pc \notin {"setList", "delete"}
                               /\ frame'[d].pc = "readList" => frame'[d].kind = "rows"
    BY <1>3, <1>9
  <2> QED
    BY <1>4, <2>1, <2>2, QuietPaired
<1>10. ASSUME NEW key \in Keys, NEW v, Set(key, v)
       PROVE  /\ \A k \in Keys : redis'[k] = IF k = key THEN v ELSE redis[k]
              /\ UNCHANGED drive
  BY <1>10 DEF Set, Inv, CachesOK
<1>11. ASSUME NEW key \in Keys, NEW v, v # None, Set(key, v)
       PROVE  CopiesCached'
  <2>1. \A kind \in Kinds, p \in Pages : drive[Key(kind, p)] # None => redis'[Key(kind, p)] # None
    BY <1>7, <1>10, <1>11, KeyFacts DEF CopiesCached, Cached
  <2> QED
    BY <1>10, <1>11, <2>1 DEF CopiesCached, Cached, Key
<1>12. CASE GetRows(c)
  <2>1. PICK rows \in Found(drive[Key("rows", f.page)], Key("rows", f.page)) :
          Got(Key("rows", f.page), rows) /\ Moved(c, "getRows", "getTotal")
    BY <1>1, <1>12, LookingTurns
  <2> QED
    BY <1>8, <2>1, KeyFacts DEF Moved
<1>13. CASE GetTotal(c)
  <2>1. PICK total \in Found(drive[Key("total", f.page)], Key("total", f.page)) :
          /\ Got(Key("total", f.page), total)
          /\ Moved(c, "getTotal", "reply") \/ Moved(c, "getTotal", "find")
    BY <1>1, <1>13, LookingTurns
  <2> QED
    BY <1>8, <2>1, KeyFacts DEF Moved
<1>14. CASE Find(c) \/ Count(c) \/ Status(c) \/ ReadFails(c)
  <2>1. /\ UNCHANGED caches
        /\ f.pc \in {"find", "count", "status"}
        /\ g.pc \in {"idle", "count", "status", "setRows"}
    BY <1>3, <1>5, <1>14, SearchingTurns DEF Moved
  <2> QED
    BY <1>9, <2>1
<1>15. CASE Reply(c) \/ SetListPanics(c)
  <2>1. f.pc = "reply" /\ g = Idle /\ UNCHANGED caches
    BY <1>1, <1>3, <1>15, CachingTurns
  <2> QED
    BY <1>5, <1>9, <2>1
<1>16. CASE SetRows(c)
  <2> DEFINE key == Key("rows", f.page)
  <2>1. Moved(c, "setRows", "setTotal") /\ Set(key, f.rows)
    BY <1>1, <1>16, CachingTurns
  <2>2. key \in Keys /\ f.rows # None
    BY <1>2, KeyFacts, ValuesKnown DEF Inv, FramesOK, Frame
  <2>3. \A k \in Keys : redis'[k] = IF k = key THEN f.rows ELSE redis[k]
    BY <1>10, <2>1, <2>2
  <2>4. f.pc = "setRows" /\ g.pc = "setTotal" /\ g.page = f.page
    BY <2>1 DEF Moved
  <2>5. CopiesCached'
    BY <1>11, <2>1, <2>2
  <2>6. ASSUME NEW p \in Pages, Cached("rows", p)'
        PROVE  Cached("total", p)' \/ (g.pc = "setTotal" /\ g.page = p)
    <3>1. Cached("rows", p) \/ p = f.page
      BY <2>1, <2>2, <2>6, SetEffect, KeyFacts DEF Key
    <3>2. Key("total", p) # key
      BY DEF Key
    <3> QED
      BY <1>7, <2>3, <2>4, <3>1, <3>2, KeyFacts DEF Cached, Key
  <2>7. ASSUME NEW p \in Pages, Cached("total", p)'
        PROVE  redis'[ListKey("rows")] # None /\ p \in redis'[ListKey("rows")]
    <3>1. Cached("total", p)
      BY <2>1, <2>2, <2>7, SetEffect, KeyFacts DEF Key
    <3>2. redis'[ListKey("rows")] = redis[ListKey("rows")]
      BY <1>2, <2>3, KeyFacts
    <3> QED
      BY <1>7, <2>4, <3>1, <3>2 DEF Entering
  <2> QED
    BY <1>6, <2>4, <2>5, <2>6, <2>7 DEF IndexLabels
<1>17. CASE SetTotal(c)
  <2> DEFINE key == Key("total", f.page)
  <2>1. Moved(c, "setTotal", "getList") /\ g.kind = f.kind /\ Set(key, f.total)
    BY <1>1, <1>17, CachingTurns
  <2>2. key \in Keys /\ f.total # None
    BY <1>2, KeyFacts, ValuesKnown DEF Inv, FramesOK, Frame
  <2>3. \A k \in Keys : redis'[k] = IF k = key THEN f.total ELSE redis[k]
    BY <1>10, <2>1, <2>2
  <2>4. f.pc = "setTotal" /\ g.pc = "getList" /\ g.page = f.page /\ g.kind = "rows" /\ g.op = "Index"
    BY <1>2, <2>1 DEF Moved
  <2>5. CopiesCached'
    BY <1>11, <2>1, <2>2
  <2>6. ASSUME NEW p \in Pages, Cached("rows", p)' PROVE Cached("total", p)'
    <3>1. Cached("rows", p)
      BY <2>1, <2>2, <2>6, SetEffect, KeyFacts DEF Key
    <3>2. Cached("total", p) \/ f.page = p
      BY <1>7, <3>1
    <3> QED
      BY <2>2, <2>3, <3>2, KeyFacts DEF Cached, Key
  <2>7. ASSUME NEW p \in Pages, Cached("total", p)'
        PROVE  \/ redis'[ListKey("rows")] # None /\ p \in redis'[ListKey("rows")]
               \/ Entering(g, "rows", p)
    <3>1. Cached("total", p) \/ p = f.page
      BY <2>1, <2>2, <2>7, SetEffect, KeyFacts DEF Key
    <3>2. redis'[ListKey("rows")] = redis[ListKey("rows")]
      BY <1>2, <2>3, KeyFacts
    <3> QED
      BY <1>7, <2>4, <3>1, <3>2 DEF Entering
  <2> QED
    BY <1>6, <2>4, <2>5, <2>6, <2>7 DEF IndexLabels
<1>18. CASE GetList(c)
  <2>1. /\ Moved(c, "getList", "setList") /\ g.kind = f.kind
        /\ UNCHANGED <<redis, older, drive>>
    BY <1>1, <1>18, CachingTurns
  <2>2. PICK list \in Found(global[f.kind], ListKey(f.kind)) :
          g.keys = IF list = None THEN {} ELSE list
    BY <1>1, <1>18, CachingTurns
  <2>3. f.pc = "getList" /\ g.pc = "setList" /\ g.page = f.page /\ g.op = f.op
    BY <2>1 DEF Moved
  <2>4. list = redis[ListKey(f.kind)]
    BY <1>2, <2>2 DEF Found, Inv, CachesOK
  <2>5. /\ \A kind, p : Cached(kind, p)' = Cached(kind, p)
        /\ CopiesCached'
    BY <1>7, <2>1 DEF CopiesCached, Cached, Key
  <2>6. \A p : Entering(f, "rows", p) => Entering(g, "rows", p)
    BY <2>1, <2>3 DEF Entering
  <2>7. redis'[ListKey(g.kind)] # None => redis'[ListKey(g.kind)] \subseteq g.keys
    BY <2>1, <2>2, <2>4
  <2> QED
    BY <1>6, <1>7, <2>1, <2>3, <2>5, <2>6, <2>7 DEF IndexLabels
<1>19. CASE SetList(c)
  <2> DEFINE key == ListKey(f.kind) keys == f.keys \cup {f.page}
  <2>1. /\ \/ f.kind = "rows" /\ Moved(c, "setList", "getList") /\ g.kind = "total"
           \/ f.kind # "rows" /\ Moved(c, "setList", "reply")
        /\ Set(key, keys)
    BY <1>1, <1>19, CachingTurns
  <2>2. keys \in SUBSET Pages
    BY <1>2 DEF Inv, FramesOK, Frame
  <2>3. key \in Keys /\ keys # None
    BY <1>2, <2>2, KeyFacts, ValuesKnown
  <2>4. \A k \in Keys : redis'[k] = IF k = key THEN keys ELSE redis[k]
    BY <1>10, <2>1, <2>3
  <2>5. f.pc = "setList" /\ g.pc \in {"getList", "reply"}
    BY <2>1 DEF Moved
  <2>6. CopiesCached'
    BY <1>11, <2>1, <2>3
  <2>7. \A kind \in Kinds, p \in Pages : Cached(kind, p)' = Cached(kind, p)
    <3> TAKE kind \in Kinds, p \in Pages
    <3>1. redis'[Key(kind, p)] = redis[Key(kind, p)]
      BY <1>2, <2>4, KeyFacts
    <3> QED
      BY <3>1 DEF Cached, Key
  <2>8. ASSUME NEW p \in Pages, Cached("total", p)
        PROVE  redis'[ListKey("rows")] # None /\ p \in redis'[ListKey("rows")]
    <3>1. \/ redis[ListKey("rows")] # None /\ p \in redis[ListKey("rows")]
          \/ f.kind = "rows" /\ f.page = p
      BY <1>7, <2>8 DEF Entering
    <3>2. CASE f.kind = "rows"
      <4>1. p \in keys
        BY <1>7, <2>5, <3>1, <3>2
      <4> QED
        BY <2>3, <2>4, <3>2, <4>1
    <3>3. CASE f.kind # "rows"
      <4>1. redis'[ListKey("rows")] = redis[ListKey("rows")]
        BY <1>2, <2>4, <3>3, KeyFacts
      <4> QED
        BY <3>1, <3>3, <4>1
    <3> QED
      BY <3>2, <3>3
  <2> QED
    BY <1>6, <1>7, <2>5, <2>6, <2>7, <2>8, KeyFacts DEF IndexLabels
<1> QED
  BY <1>12, <1>13, <1>14, <1>15, <1>16, <1>17, <1>18, <1>19, <1>1 DEF IndexStep

\* A request comes in, or a change drops what is cached: no Index runs.
LEMMA ChangePaired ==
  ASSUME Inv, [Next]_vars, Paired, IndexAlone, PagesEntered, Unharmed',
         NEW c \in Requests, Start(c) \/ ChangeStep(c)
  PROVE  Paired'
<1> DEFINE f == frame[c] g == frame'[c]
<1>1. /\ {"redisError", "exit"} \cap mishaps' = {} /\ "hurry" \notin mishaps'
      /\ "overlap" \notin mishaps' /\ Spared'
  BY UnharmedFacts
<1>2. \A d \in Requests : frame[d].op # "Index"
  BY <1>1, AloneFacts
<1>3. \A d \in Requests : frame[d].pc \notin IndexLabels
  BY <1>2 DEF Inv, FramesOK, FrameOK
<1>4. \A h : Local(c, h) => g = h /\ \A d \in Requests : d # c => frame'[d] = frame[d]
  BY DEF Local, Inv, FramesOK
<1>5. Idle.pc = "idle" /\ Idle.op = "none"
  BY DEF Idle
\* Steps that cache and drop nothing.
<1>6. ASSUME UNCHANGED redis,
             \A kind \in Kinds, p \in Pages : drive'[Key(kind, p)] \in {None, drive[Key(kind, p)]},
             \A kind \in Kinds : drive'[ListKey(kind)] \in {None, drive[ListKey(kind)]},
             Running(Changes)' => Running(Changes) \/ \A kind \in Kinds : drive'[ListKey(kind)] = None,
             \A d \in Requests : \/ frame'[d] = frame[d]
                                 \/ /\ frame'[d].pc \notin {"setList", "delete"}
                                    /\ frame'[d].pc = "readList" => frame'[d].kind = "rows"
      PROVE  Paired'
  <2>1. \A d \in Requests : frame[d].pc \notin {"setTotal", "getList", "setList"}
    BY <1>3 DEF IndexLabels
  <2>2. \A kind \in Kinds, p \in Pages :
          drive'[Key(kind, p)] # None => drive[Key(kind, p)] # None \/ redis[Key(kind, p)] # None
    BY <1>6
  <2>3. \A d \in Requests : \/ frame'[d] = frame[d]
                            \/ /\ frame[d].pc \notin {"setTotal", "getList", "setList"}
                               /\ frame'[d].pc \notin {"setList", "delete"}
                               /\ frame'[d].pc = "readList" => frame'[d].kind = "rows"
    BY <1>6, <2>1
  <2> QED
    BY <1>6, <2>2, <2>3, QuietPaired
<1>7. ASSUME NEW p \in Pages, Index(c, p) PROVE Paired'
  <2> DEFINE h == [Idle EXCEPT !.pc = "getRows", !.op = "Index", !.page = p]
  <2>1. Local(c, h) /\ UNCHANGED <<redis, drive>>
    BY <1>7 DEF Index, Begin, caches
  <2>2. h.pc = "getRows" /\ h.op = "Index"
    BY DEF Idle
  <2> HIDE DEF h
  <2>3. Running(Changes)' => Running(Changes)
    BY <1>4, <2>1, <2>2, Constants DEF Running
  <2> QED
    BY <1>4, <1>6, <2>1, <2>2, <2>3
<1>8. ASSUME NEW op \in Changes, NEW id \in 1..(stamp + 1), Change(c, op, id) PROVE Paired'
  <2> DEFINE h == [Idle EXCEPT !.pc = "commit", !.op = op, !.todo = Writes(op),
                               !.target = id, !.mark = stamp']
  <2>1. /\ Local(c, h) /\ UNCHANGED redis
        /\ drive' = [key \in Keys |-> IF key[2] = 0 THEN None ELSE drive[key]]
    BY <1>1, <1>8 DEF Change, Begin, Happens
  <2>2. h.pc = "commit"
    BY DEF Idle
  <2> HIDE DEF h
  <2>3. /\ \A kind \in Kinds, p \in Pages : drive'[Key(kind, p)] = drive[Key(kind, p)]
        /\ \A kind \in Kinds : drive'[ListKey(kind)] = None
    BY <2>1, KeyFacts
  <2> QED
    BY <1>4, <1>6, <2>1, <2>2, <2>3
<1>9. ASSUME ChangeStep(c) PROVE Running(Changes)
  <2>1. f.pc \in ChangeLabels
    BY <1>9 DEF ChangeStep, Commit, CommitMisses, CommitPanics, CommitFails, ReadList, DeleteKey,
                ListDone, At, ChangeLabels
  <2> QED
    BY <2>1 DEF Running, Inv, FramesOK, FrameOK
<1>10. CASE Commit(c) \/ CommitMisses(c) \/ CommitFails(c)
  <2>1. /\ UNCHANGED redis
        /\ \/ /\ UNCHANGED drive
              /\ \/ Local(c, Idle)
                 \/ Local(c, g) /\ Written(f, g)
           \/ Exit
    BY <1>1, <1>10, ChangeTurns DEF caches, Exit
  <2>2. \A d \in Requests : \/ frame'[d] = frame[d]
                            \/ /\ frame'[d].pc \notin {"setList", "delete"}
                               /\ frame'[d].pc = "readList" => frame'[d].kind = "rows"
    BY <1>4, <1>5, <2>1 DEF Exit, Written
  <2>3. /\ \A kind \in Kinds, p \in Pages : drive'[Key(kind, p)] \in {None, drive[Key(kind, p)]}
        /\ \A kind \in Kinds : drive'[ListKey(kind)] \in {None, drive[ListKey(kind)]}
    BY <2>1, KeyFacts DEF Exit
  <2>4. Running(Changes)
    BY <1>9, <1>10 DEF ChangeStep
  <2> QED
    BY <1>6, <2>1, <2>2, <2>3, <2>4
\* A drop: what is cached after it was cached before it, and rows do not lose their total.
<1>11. ASSUME f.pc \in ChangeLabels,
              Local(c, g), g.pc \in ChangeLabels \cup {"idle"}, Dropped(frame[c])',
              \A kind \in Kinds : redis'[ListKey(kind)] = redis[ListKey(kind)],
              \A kind \in Kinds :
                drive'[ListKey(kind)] \in {None, drive[ListKey(kind)], redis[ListKey(kind)]},
              CopiesCached',
              \A kind \in Kinds, p \in Pages : Cached(kind, p)' => Cached(kind, p),
              \A p \in Pages : Cached("rows", p)' /\ Cached("total", p) => Cached("total", p)'
       PROVE  Paired'
  <2>1. \A d \in Requests : frame[d].pc \notin {"setTotal", "getList", "setList"}
    BY <1>3 DEF IndexLabels
  <2>2. \A p \in Pages : ~ \E d \in Requests : Entering(frame[d], "rows", p)
    BY <2>1 DEF Entering
  <2>3. Together'
    BY <1>11, <2>1, KeyFacts DEF Paired, Together
  <2>4. ListCopies'
    <3>1. Running(Changes)
      BY <1>11 DEF Running, Inv, FramesOK, FrameOK
    <3> QED
      BY <1>11, <3>1 DEF Paired, ListCopies, ListKey
  <2>5. TotalsListed'
    <3>1. ASSUME NEW p \in Pages, Cached("total", p)'
          PROVE  redis'[ListKey("rows")] # None /\ p \in redis'[ListKey("rows")]
      BY <1>11, <2>2, <3>1, KeyFacts DEF Paired, TotalsListed
    <3> QED
      BY <3>1 DEF TotalsListed, ListKey
  <2>6. ListsGrow'
    <3>1. \A d \in Requests : frame'[d].pc # "setList"
      BY <1>4, <1>11, <2>1 DEF ChangeLabels
    <3> QED
      BY <3>1 DEF ListsGrow
  <2>7. ASSUME NEW d \in Requests PROVE Dropped(frame[d])'
    <3>1. CASE d = c
      BY <1>11, <3>1
    <3>2. CASE d # c
      <4>1. frame'[d] = frame[d] /\ Dropped(frame[d])
        BY <1>4, <1>11, <3>2 DEF Paired
      <4> QED
        BY <1>11, <4>1, KeyFacts DEF Dropped
    <3> QED
      BY <3>1, <3>2
  <2> QED
    BY <1>11, <2>3, <2>4, <2>5, <2>6, <2>7 DEF Paired
<1>12. CASE ReadList(c)
  <2>1. Moved(c, "readList", "delete") /\ g.kind = f.kind
    BY <1>1, <1>12, ChangeTurns
  <2>2. PICK list \in Found(drive[ListKey(f.kind)], ListKey(f.kind)) :
          /\ Got(ListKey(f.kind), list)
          /\ g.keys = IF list = None THEN {} ELSE list
    BY <1>1, <1>12, ChangeTurns
  <2>3. f.pc = "readList" /\ g.pc = "delete" /\ Local(c, g) /\ f.kind \in Kinds
    BY <2>1 DEF Moved, Inv, FramesOK, Frame
  <2>4. Running(Changes)
    BY <1>9, <1>12 DEF ChangeStep
  <2>5. list = redis[ListKey(f.kind)]
    <3>1. drive[ListKey(f.kind)] \in {None, redis[ListKey(f.kind)]}
      BY <2>3, <2>4 DEF Paired, ListCopies
    <3> QED
      BY <2>2, <3>1 DEF Found
  <2>6. /\ UNCHANGED redis
        /\ \A key \in Keys : drive'[key] \in {drive[key], redis[key]}
        /\ \A kind \in Kinds, p \in Pages : drive'[Key(kind, p)] = drive[Key(kind, p)]
    BY <2>2, <2>3, <2>5, KeyFacts DEF Got, Inv, CachesOK
  <2>7. \A kind, p : Cached(kind, p)' = Cached(kind, p)
    BY <2>6 DEF Cached, Key
  <2>8. CopiesCached'
    BY <2>6, <2>7 DEF Paired, CopiesCached, Key
  <2>9. f.kind = "rows" => \A p \in Pages : Cached("rows", p) => p \in g.keys
    <3>1. \A p \in Pages : Cached("rows", p) => Entered("rows", p)
      BY <1>2, KeyFacts DEF PagesEntered, Entering
    <3> QED
      BY <2>2, <2>5, <3>1 DEF Entered
  <2>10. Dropped(frame[c])'
    <3>1. Dropped(f)
      BY DEF Paired
    <3> QED
      BY <2>1, <2>3, <2>7, <2>9, <3>1 DEF Dropped
  <2> QED
    BY <1>11, <2>3, <2>6, <2>7, <2>8, <2>10, KeyFacts DEF ChangeLabels
<1>13. ASSUME NEW q \in Pages, DeleteKey(c, q) PROVE Paired'
  <2> DEFINE key == Key(f.kind, q)
  <2>1. /\ Moved(c, "delete", "delete") /\ g.kind = f.kind
        /\ g.keys = f.keys \ {q} /\ Delete(key)
    BY <1>1, <1>13, ChangeTurns
  <2>2. f.pc = "delete" /\ g.pc = "delete" /\ Local(c, g) /\ f.kind \in Kinds /\ key \in Keys
    BY <2>1, KeyFacts DEF Moved, Inv, FramesOK, Frame
  <2>3. \A k \in Keys : /\ redis'[k] = IF k = key THEN None ELSE redis[k]
                        /\ drive'[k] = IF k = key THEN None ELSE drive[k]
    BY <2>1, <2>2 DEF Delete, Inv, CachesOK
  <2>4. \A kind \in Kinds, p \in Pages :
          Cached(kind, p)' = (Cached(kind, p) /\ ~ (kind = f.kind /\ p = q))
    <3> TAKE kind \in Kinds, p \in Pages
    <3>1. Key(kind, p) = key <=> kind = f.kind /\ p = q
      BY DEF Key
    <3>2. redis'[Key(kind, p)] = IF Key(kind, p) = key THEN None ELSE redis[Key(kind, p)]
      BY <2>3, KeyFacts
    <3> QED
      BY <3>1, <3>2 DEF Cached, Key
  <2>5. CopiesCached'
    <3>1. ASSUME NEW kind \in Kinds, NEW p \in Pages, drive'[Key(kind, p)] # None
          PROVE  Cached(kind, p)'
      <4>1. Key(kind, p) # key /\ drive[Key(kind, p)] # None
        BY <2>3, <3>1, KeyFacts
      <4>2. Cached(kind, p)
        BY <4>1 DEF Paired, CopiesCached
      <4> QED
        BY <2>4, <4>1, <4>2
    <3> QED
      BY <3>1 DEF CopiesCached, Key
  <2>6. Dropped(f)
    BY DEF Paired
  <2>7. f.kind = "total" => \A p \in Pages : ~ Cached("rows", p)
    BY <2>2, <2>6 DEF Dropped
  <2>8. Dropped(frame[c])'
    BY <2>1, <2>2, <2>4, <2>6, KeyFacts DEF Dropped
  <2>9. \A kind \in Kinds : /\ redis'[ListKey(kind)] = redis[ListKey(kind)]
                            /\ drive'[ListKey(kind)] = drive[ListKey(kind)]
    BY <2>2, <2>3, KeyFacts
  <2>10. \A p \in Pages : Cached("rows", p)' /\ Cached("total", p) => Cached("total", p)'
    BY <2>2, <2>4, <2>7, KeyFacts DEF Kinds
  <2> QED
    BY <1>11, <2>2, <2>4, <2>5, <2>8, <2>9, <2>10 DEF ChangeLabels
<1>14. CASE ListDone(c)
  <2>1. /\ f.pc = "delete" /\ f.keys = {}
        /\ \/ f.kind = "rows" /\ Moved(c, "delete", "readList") /\ g.kind = "total"
           \/ f.kind # "rows" /\ Local(c, Idle)
        /\ UNCHANGED <<redis, drive>>
    BY <1>1, <1>14, ChangeTurns DEF caches
  <2>2. /\ \A kind, p : Cached(kind, p)' = Cached(kind, p)
        /\ CopiesCached'
    BY <2>1 DEF Paired, CopiesCached, Cached, Key
  <2>3. Dropped(frame[c])'
    <3>1. Dropped(f)
      BY DEF Paired
    <3>2. f.kind = "rows" => \A p \in Pages : ~ Cached("rows", p)
      BY <2>1, <3>1 DEF Dropped
    <3>3. CASE g = Idle
      BY <1>5, <3>3 DEF Dropped
    <3>4. CASE f.kind = "rows" /\ g.pc = "readList"
      BY <2>2, <3>2, <3>4 DEF Dropped
    <3> QED
      BY <1>4, <2>1, <3>3, <3>4 DEF Moved
  <2>4. Local(c, g) /\ g.pc \in {"readList", "idle"}
    BY <1>4, <1>5, <2>1 DEF Moved
  <2> QED
    BY <1>11, <2>1, <2>2, <2>3, <2>4 DEF ChangeLabels
<1>15. ~ CommitPanics(c)
  BY <1>1, ChangeTurns
<1> QED
  BY <1>7, <1>8, <1>10, <1>12, <1>13, <1>14, <1>15 DEF Start, ChangeStep

\* No copy, and nothing an Index has at hand, holds a server twice; what an Index finds of
\* a page is all of it or nothing.
WholeFrame(f) ==
  /\ f.pc = "getRows" => f.rows = << >> /\ ~ f.hit
  /\ f.pc = "getTotal" => IF f.hit THEN Distinct(f.rows) /\ Cached("rows", f.page)
                          ELSE f.rows = << >>
  /\ f.pc \in {"find", "count"} => f.rows = << >>
  /\ f.pc = "count" => Distinct(f.found)
  /\ f.pc = "status" => /\ Distinct(f.rows) /\ Distinct(f.found)
                        /\ \A i \in DOMAIN f.rows, j \in DOMAIN f.found : f.rows[i].id # f.found[j].id
  /\ f.pc \in {"setRows", "setTotal", "getList", "setList", "reply"} => Distinct(f.rows)

RowsDistinct ==
  /\ \A p \in Pages : \A rows \in Copies("rows", p) : Distinct(rows)
  /\ \A c \in Requests : WholeFrame(frame[c])

WholeInv == Unharmed => Unique /\ Paired /\ RowsDistinct

\* Rows after their append.
LEMMA AppendDistinct ==
  ASSUME NEW S, NEW s \in Seq(S), Distinct(s), NEW x,
         \A i \in DOMAIN s : s[i].id # x.id
  PROVE  Distinct(Append(s, x))
<1> DEFINE t == Append(s, x)
<1>1. /\ DOMAIN s = 1..Len(s) /\ Len(s) \in Nat
      /\ DOMAIN t = 1..(Len(s) + 1) /\ t[Len(s) + 1] = x
      /\ \A i \in 1..Len(s) : t[i] = s[i]
  OBVIOUS
<1> HIDE DEF t
<1>2. ASSUME NEW i \in DOMAIN t, NEW j \in DOMAIN t, t[i].id = t[j].id PROVE i = j
  <2>1. (i \in DOMAIN s \/ i = Len(s) + 1) /\ (j \in DOMAIN s \/ j = Len(s) + 1)
    BY <1>1
  <2>2. CASE i \in DOMAIN s /\ j \in DOMAIN s
    BY <1>1, <1>2, <2>2 DEF Distinct
  <2>3. CASE i \in DOMAIN s /\ j = Len(s) + 1
    BY <1>1, <1>2, <2>3
  <2>4. CASE i = Len(s) + 1 /\ j \in DOMAIN s
    BY <1>1, <1>2, <2>4
  <2> QED
    BY <2>1, <2>2, <2>3, <2>4
<1> QED
  BY <1>2 DEF Distinct, t

LEMMA StatusDistinct ==
  ASSUME NEW S, NEW rows \in Seq(S), NEW T, NEW found \in Seq(T), found # << >>,
         Distinct(rows), Distinct(found),
         \A i \in DOMAIN rows, j \in DOMAIN found : rows[i].id # found[j].id,
         NEW row, row.id = Head(found).id
  PROVE  /\ Distinct(Append(rows, row)) /\ Distinct(Tail(found))
         /\ \A i \in DOMAIN Append(rows, row), j \in DOMAIN Tail(found) :
              Append(rows, row)[i].id # Tail(found)[j].id
<1> DEFINE t == Tail(found) a == Append(rows, row)
<1>1. /\ Head(found) = found[1] /\ 1 \in DOMAIN found /\ DOMAIN t \subseteq Nat \ {0}
      /\ \A i \in DOMAIN t : i + 1 \in DOMAIN found /\ t[i] = found[i + 1]
  <2>1. t \in Seq(T)
    BY HeadTail
  <2>2. DOMAIN t = 1..Len(t)
    BY <2>1
  <2> QED
    BY <2>2, HeadTail
<1>2. Distinct(a)
  BY <1>1, AppendDistinct
<1>3. /\ DOMAIN rows = 1..Len(rows) /\ Len(rows) \in Nat
      /\ DOMAIN a = 1..(Len(rows) + 1) /\ a[Len(rows) + 1] = row
      /\ \A i \in 1..Len(rows) : a[i] = rows[i]
  OBVIOUS
<1> HIDE DEF t, a
<1>4. Distinct(t)
  <2>1. ASSUME NEW i \in DOMAIN t, NEW j \in DOMAIN t, t[i].id = t[j].id PROVE i = j
    <3>1. i + 1 = j + 1
      BY <1>1, <2>1 DEF Distinct
    <3> QED
      BY <1>1, <3>1
  <2> QED
    BY <2>1 DEF Distinct
<1>5. ASSUME NEW i \in DOMAIN a, NEW j \in DOMAIN t PROVE a[i].id # t[j].id
  <2>1. CASE i \in DOMAIN rows
    BY <1>1, <1>3, <2>1
  <2>2. CASE i = Len(rows) + 1
    <3>1. 1 # j + 1
      BY <1>1
    <3> QED
      BY <1>1, <1>3, <2>2, <3>1 DEF Distinct
  <2> QED
    BY <1>3, <2>1, <2>2
<1> QED
  BY <1>2, <1>4, <1>5 DEF a, t

\* What an Index goes on with.
LEMMA IndexWhole ==
  ASSUME Inv, [Next]_vars, Unharmed', Unique, Paired, RowsDistinct, IndexAlone,
         NEW c \in Requests, IndexStep(c)
  PROVE  RowsDistinct'
<1> DEFINE f == frame[c] g == frame'[c]
<1>1. /\ {"redisError", "exit"} \cap mishaps' = {} /\ "redisError" \notin mishaps'
      /\ "overlap" \notin mishaps' /\ Spared'
  BY UnharmedFacts
<1>2. /\ f.page \in Pages /\ f.pc \in IndexLabels /\ f.rows \in Seq(Row) /\ f.kind \in Kinds
      /\ f.found \in Seq(Rec)
      /\ \A d \in Requests : d # c => frame[d] = Idle
  <2>1. f.pc \in IndexLabels /\ f.page \in Pages
    BY <1>1, IndexMoves
  <2>2. f.rows \in Seq(Row) /\ f.kind \in Kinds /\ f.found \in Seq(Rec)
    BY DEF Inv, FramesOK, FrameOK, Frame
  <2> QED
    BY <1>1, <2>1, <2>2, AloneFacts
<1>3. /\ \A h : Local(c, h) => g = h
      /\ \A d \in Requests : d # c => frame'[d] = Idle
  <2>1. \/ Local(c, Idle)
        \/ Local(c, g)
    BY <1>1, IndexMoves
  <2> QED
    BY <1>2, <2>1 DEF Local, Inv, FramesOK
<1>4. Idle.pc = "idle"
  BY DEF Idle
<1>5. ASSUME \A p \in Pages : \A rows \in Copies("rows", p)' : Distinct(rows),
             WholeFrame(frame[c])'
      PROVE  RowsDistinct'
  <2>1. \A d \in Requests : d # c => WholeFrame(frame[d])'
    BY <1>3, <1>4 DEF WholeFrame
  <2>2. \A rows : Distinct(rows)' = Distinct(rows)
    BY DEF Distinct
  <2> QED
    BY <1>5, <2>1, <2>2 DEF RowsDistinct
<1>6. /\ \A p \in Pages : \A rows \in Copies("rows", p) : Distinct(rows)
      /\ WholeFrame(f)
  BY DEF RowsDistinct
<1>7. ASSUME UNCHANGED caches PROVE \A p \in Pages : \A rows \in Copies("rows", p)' : Distinct(rows)
  BY <1>6, <1>7, CopiesKept, KeyFacts DEF caches
<1>8. ASSUME NEW kind \in Kinds, NEW v \in Found(drive[Key(kind, f.page)], Key(kind, f.page)),
             Got(Key(kind, f.page), v)
      PROVE  \A p \in Pages : \A rows \in Copies("rows", p)' : Distinct(rows)
  BY <1>2, <1>6, <1>8, CopiesGot, KeyFacts
<1>9. ASSUME NEW key \in Keys, NEW v, Set(key, v), \A p \in Pages : key = Key("rows", p) => Distinct(v)
      PROVE  \A p \in Pages : \A rows \in Copies("rows", p)' : Distinct(rows)
  BY <1>6, <1>9, CopiesSet, KeyFacts
<1>10. CASE GetRows(c)
  <2>1. PICK rows \in Found(drive[Key("rows", f.page)], Key("rows", f.page)) :
          /\ Got(Key("rows", f.page), rows) /\ Moved(c, "getRows", "getTotal")
          /\ g.rows = IF rows = None THEN f.rows ELSE rows
          /\ g.hit = IF rows = None THEN f.hit ELSE TRUE
    BY <1>1, <1>10, LookingTurns
  <2>2. f.rows = << >> /\ ~ f.hit /\ g.pc = "getTotal" /\ g.page = f.page
    BY <1>6, <2>1 DEF WholeFrame, Moved
  <2>3. ASSUME rows # None PROVE Distinct(rows) /\ Cached("rows", f.page)
    <3>1. rows \in Copies("rows", f.page)
      BY <2>1, <2>3 DEF Found, Copies
    <3>2. Cached("rows", f.page)
      BY <1>2, <2>1, <2>3, KeyFacts DEF Found, Paired, CopiesCached, Cached
    <3> QED
      BY <1>2, <1>6, <3>1, <3>2
  <2>4. redis' = redis
    BY <2>1 DEF Got
  <2>5. IF g.hit THEN Distinct(g.rows) /\ Cached("rows", g.page) ELSE g.rows = << >>
    BY <2>1, <2>2, <2>3
  <2>6. WholeFrame(frame[c])'
    BY <2>2, <2>4, <2>5 DEF WholeFrame, Cached, Key, Distinct
  <2> QED
    BY <1>5, <1>8, <2>1, <2>6, KeyFacts
<1>11. CASE GetTotal(c)
  <2>1. PICK total \in Found(drive[Key("total", f.page)], Key("total", f.page)) :
          /\ Got(Key("total", f.page), total)
          /\ \/ f.hit /\ Moved(c, "getTotal", "reply")
             \/ (~ f.hit \/ total = None) /\ Moved(c, "getTotal", "find")
          /\ g.rows = f.rows
    BY <1>1, <1>11, LookingTurns
  <2>2. f.pc = "getTotal" /\ g.pc \in {"reply", "find"}
    BY <2>1 DEF Moved
  <2>3. f.hit => total # None
    <3>1. f.hit => Cached("rows", f.page)
      BY <1>6, <2>2 DEF WholeFrame
    <3>2. f.hit => Cached("total", f.page)
      BY <1>2, <1>4, <2>2, <3>1 DEF Paired, Together
    <3> QED
      BY <2>1, <3>2 DEF Found, Cached
  <2>4. \/ g.pc = "reply" /\ Distinct(g.rows)
        \/ g.pc = "find" /\ g.rows = << >>
    BY <1>6, <2>1, <2>2, <2>3 DEF WholeFrame, Moved
  <2>5. WholeFrame(frame[c])'
    BY <2>4 DEF WholeFrame, Distinct
  <2> QED
    BY <1>5, <1>8, <2>1, <2>5, KeyFacts
<1>12. CASE Find(c)
  <2>1. /\ Moved(c, "find", "count") /\ g.rows = f.rows /\ g.found = Records(f.page)
        /\ UNCHANGED caches
    BY <1>12, SearchingTurns
  <2>2. g.pc = "count" /\ g.rows = << >> /\ Distinct(g.found)
    BY <1>2, <1>6, <2>1, RecordsDistinct DEF WholeFrame, Moved, Unique
  <2>3. WholeFrame(frame[c])'
    BY <2>2 DEF WholeFrame, Distinct
  <2> QED
    BY <1>5, <1>7, <2>1, <2>3
<1>13. CASE Count(c)
  <2>1. /\ Moved(c, "count", "setRows") \/ Moved(c, "count", "status")
        /\ g.rows = f.rows /\ g.found = f.found /\ UNCHANGED caches
    BY <1>13, SearchingTurns
  <2>2. g.pc \in {"setRows", "status"} /\ g.rows = << >> /\ Distinct(g.found)
    BY <1>6, <2>1 DEF WholeFrame, Moved
  <2>3. DOMAIN << >> = {}
    OBVIOUS
  <2>4. WholeFrame(frame[c])'
    BY <2>2, <2>3 DEF WholeFrame, Distinct
  <2> QED
    BY <1>5, <1>7, <2>1, <2>4
<1>14. CASE Status(c)
  <2> DEFINE next == Head(f.found) row == RowOf(next)
  <2>1. /\ Moved(c, "status", "setRows") \/ Moved(c, "status", "status")
        /\ g.rows = Append(f.rows, row) /\ g.found = Tail(f.found) /\ UNCHANGED caches
    BY <1>14, SearchingTurns
  <2>2. f.pc = "status" /\ g.pc \in {"setRows", "status"}
    BY <2>1 DEF Moved
  <2>3. f.found # << >>
    BY <2>2 DEF Inv, FramesOK, FrameOK
  <2>4. row.id = next.id
    BY DEF RowOf
  <2>5. /\ Distinct(g.rows) /\ Distinct(g.found)
        /\ \A i \in DOMAIN g.rows, j \in DOMAIN g.found : g.rows[i].id # g.found[j].id
    <3> DEFINE rows == f.rows found == f.found
    <3>1. /\ rows \in Seq(Row) /\ found \in Seq(Rec) /\ found # << >>
          /\ Distinct(rows) /\ Distinct(found) /\ row.id = Head(found).id
          /\ \A i \in DOMAIN rows, j \in DOMAIN found : rows[i].id # found[j].id
      BY <1>2, <1>6, <2>2, <2>3, <2>4 DEF WholeFrame
    <3>2. g.rows = Append(rows, row) /\ g.found = Tail(found)
      BY <2>1
    <3> DEFINE made == Append(rows, row) rest == Tail(found)
    <3> HIDE DEF rows, found, row
    <3>3. /\ Distinct(made) /\ Distinct(rest)
          /\ \A i \in DOMAIN made, j \in DOMAIN rest : made[i].id # rest[j].id
      BY <3>1, StatusDistinct
    <3> HIDE DEF made, rest
    <3>4. g.rows = made /\ g.found = rest
      BY <3>2 DEF made, rest
    <3> QED
      BY <3>3, <3>4
  <2>6. WholeFrame(frame[c])'
    BY <2>2, <2>5 DEF WholeFrame, Distinct
  <2> QED
    BY <1>5, <1>7, <2>1, <2>6
<1>15. CASE SetRows(c)
  <2>1. Moved(c, "setRows", "setTotal") /\ g.rows = f.rows /\ Set(Key("rows", f.page), f.rows)
    BY <1>1, <1>15, CachingTurns
  <2>2. g.pc = "setTotal" /\ Distinct(f.rows)
    BY <1>6, <2>1 DEF WholeFrame, Moved
  <2>3. WholeFrame(frame[c])'
    BY <2>1, <2>2 DEF WholeFrame, Distinct
  <2>4. Key("rows", f.page) \in Keys
    BY <1>2, KeyFacts
  <2>5. \A p \in Pages : \A rows \in Copies("rows", p)' : Distinct(rows)
    BY <1>9, <2>1, <2>2, <2>4
  <2> QED
    BY <1>5, <2>3, <2>5
<1>16. CASE SetTotal(c) \/ GetList(c) \/ SetList(c)
  <2>1. /\ \E from \in {"setTotal", "getList", "setList"}, to \in {"getList", "setList", "reply"} : Moved(c, from, to)
        /\ g.rows = f.rows
    BY <1>1, <1>16, CachingTurns
  <2>2. g.pc \in {"getList", "setList", "reply"} /\ Distinct(g.rows)
    BY <1>6, <2>1 DEF WholeFrame, Moved
  <2>3. WholeFrame(frame[c])'
    BY <2>1, <2>2 DEF WholeFrame, Distinct
  <2>4. \/ UNCHANGED <<redis, drive>>
        \/ Set(Key("total", f.page), f.total)
        \/ Set(ListKey(f.kind), f.keys \cup {f.page})
    BY <1>1, <1>16, CachingTurns
  <2>5. CASE UNCHANGED <<redis, drive>>
    BY <1>5, <1>6, <2>3, <2>5, CopiesKept, KeyFacts
  <2>6. CASE Set(Key("total", f.page), f.total)
    <3>1. \A p \in Pages : Key("total", f.page) # Key("rows", p)
      BY DEF Key
    <3> QED
      BY <1>2, <1>5, <1>9, <2>3, <2>6, <3>1, KeyFacts
  <2>7. CASE Set(ListKey(f.kind), f.keys \cup {f.page})
    BY <1>2, <1>5, <1>9, <2>3, <2>7, KeyFacts
  <2> QED
    BY <2>4, <2>5, <2>6, <2>7
<1>17. CASE ReadFails(c) \/ Reply(c) \/ SetListPanics(c)
  <2>1. g = Idle /\ UNCHANGED caches
    BY <1>1, <1>3, <1>17, SearchingTurns, CachingTurns
  <2>2. WholeFrame(frame[c])'
    BY <1>4, <2>1 DEF WholeFrame
  <2> QED
    BY <1>5, <1>7, <2>1, <2>2
<1> QED
  BY <1>10, <1>11, <1>12, <1>13, <1>14, <1>15, <1>16, <1>17 DEF IndexStep

\* The steps while no Index runs.
LEMMA OtherWhole ==
  ASSUME Inv, [Next]_vars, Unharmed', RowsDistinct, IndexAlone,
         NEW c \in Requests, Start(c) \/ ChangeStep(c)
  PROVE  RowsDistinct'
<1> DEFINE f == frame[c] g == frame'[c]
<1>1. /\ {"redisError", "exit"} \cap mishaps' = {} /\ Spared'
  BY UnharmedFacts
<1>2. \A d \in Requests : frame[d].pc \notin IndexLabels
  BY <1>1, AloneFacts DEF Inv, FramesOK, FrameOK
<1>3. Idle.pc = "idle"
  BY DEF Idle
<1>4. ASSUME \A p \in Pages : Copies("rows", p)' \subseteq Copies("rows", p),
             \A d \in Requests : \/ frame'[d] = frame[d]
                                 \/ frame'[d].pc \notin IndexLabels
                                 \/ frame'[d].pc = "getRows" /\ frame'[d].rows = << >> /\ ~ frame'[d].hit
      PROVE  RowsDistinct'
  <2>1. \A rows : Distinct(rows)' = Distinct(rows)
    BY DEF Distinct
  <2>2. \A d \in Requests : WholeFrame(frame[d])'
    BY <1>2, <1>4 DEF WholeFrame, IndexLabels
  <2> QED
    BY <1>4, <2>1, <2>2 DEF RowsDistinct
<1>5. \A h : Local(c, h) => \A d \in Requests : frame'[d] = IF d = c THEN h ELSE frame[d]
  BY DEF Local, Inv, FramesOK
<1>6. ASSUME UNCHANGED redis, \A k \in Keys : drive'[k] \in {None, drive[k]}
      PROVE  \A p \in Pages : Copies("rows", p)' \subseteq Copies("rows", p)
  BY <1>6, KeyFacts DEF Copies, Key
<1>7. ASSUME NEW p \in Pages, Index(c, p) PROVE RowsDistinct'
  <2> DEFINE h == [Idle EXCEPT !.pc = "getRows", !.op = "Index", !.page = p]
  <2>1. Local(c, h) /\ UNCHANGED <<redis, drive>>
    BY <1>7 DEF Index, Begin, caches
  <2>2. h.pc = "getRows" /\ h.rows = << >> /\ ~ h.hit
    BY DEF Idle
  <2> HIDE DEF h
  <2> QED
    BY <1>4, <1>5, <1>6, <2>1, <2>2
<1>8. ASSUME NEW op \in Changes, NEW id \in 1..(stamp + 1), Change(c, op, id) PROVE RowsDistinct'
  <2> DEFINE h == [Idle EXCEPT !.pc = "commit", !.op = op, !.todo = Writes(op),
                               !.target = id, !.mark = stamp']
  <2>1. Local(c, h) /\ UNCHANGED redis /\ \A k \in Keys : drive'[k] \in {None, drive[k]}
    BY <1>8 DEF Change, Begin
  <2>2. h.pc = "commit"
    BY DEF Idle
  <2> HIDE DEF h
  <2> QED
    BY <1>4, <1>5, <1>6, <2>1, <2>2 DEF IndexLabels
<1>9. ASSUME ChangeStep(c) PROVE RowsDistinct'
  <2>1. \A d \in Requests : frame'[d] = frame[d] \/ frame'[d].pc \notin IndexLabels
    <3>1. \/ Exit \/ Local(c, Idle)
          \/ Local(c, g) /\ g.pc \in ChangeLabels
      BY <1>1, <1>9, ChangeTurns DEF ChangeStep, Written, Moved, ChangeLabels
    <3> QED
      BY <1>3, <1>5, <3>1 DEF Exit, IndexLabels, ChangeLabels
  <2>2. \A p \in Pages : Copies("rows", p)' \subseteq Copies("rows", p)
    <3>1. CASE Commit(c) \/ CommitMisses(c) \/ CommitFails(c) \/ ListDone(c)
      <4>1. UNCHANGED caches \/ Exit
        BY <1>1, <3>1, ChangeTurns
      <4>2. UNCHANGED redis /\ \A k \in Keys : drive'[k] \in {None, drive[k]}
        BY <4>1 DEF caches, Exit
      <4> QED
        BY <1>6, <4>2
    <3>2. CASE ReadList(c)
      <4>1. \E list \in Found(drive[ListKey(f.kind)], ListKey(f.kind)) : Got(ListKey(f.kind), list)
        BY <1>1, <3>2, ChangeTurns
      <4>2. f.kind \in Kinds
        BY DEF Inv, FramesOK, Frame
      <4>3. ListKey(f.kind) \in Keys /\ "rows" \in Kinds
        BY <4>2, KeyFacts
      <4> QED
        BY <4>1, <4>3, CopiesGot
    <3>3. ASSUME NEW q \in Pages, DeleteKey(c, q)
          PROVE  \A p \in Pages : Copies("rows", p)' \subseteq Copies("rows", p)
      <4>1. Delete(Key(f.kind, q)) /\ f.kind \in Kinds
        BY <1>1, <3>3, ChangeTurns DEF Inv, FramesOK, Frame
      <4>2. Key(f.kind, q) \in Keys /\ "rows" \in Kinds
        BY <4>1, KeyFacts
      <4> QED
        BY <4>1, <4>2, CopiesDelete
    <3> QED
      BY <1>1, <1>9, <3>1, <3>2, <3>3, ChangeTurns DEF ChangeStep
  <2> QED
    BY <1>4, <2>1, <2>2
<1> QED
  BY <1>7, <1>8, <1>9 DEF Start

LEMMA WholeInvStep == Inv /\ ListedInv /\ WholeInv /\ [Next]_vars => WholeInv'
<1> SUFFICES ASSUME Inv, ListedInv, WholeInv, [Next]_vars, Unharmed'
             PROVE  Unique' /\ Paired' /\ RowsDistinct'
  BY DEF WholeInv
<1>1. /\ Unharmed /\ Spared /\ Spared' /\ ~ Expire /\ ~ Crash
  BY UnharmedFacts
<1>2. Unique /\ Paired /\ RowsDistinct /\ IndexAlone /\ PagesEntered
  BY <1>1 DEF WholeInv, ListedInv
<1>3. CASE Refresh \/ UNCHANGED vars
  <2>1. UNCHANGED <<redis, drive, frame>>
    BY <1>3 DEF Refresh, vars, caches
  <2>2. Paired'
    BY <1>2, <2>1, QuietPaired DEF Running
  <2>3. RowsDistinct'
    <3>1. \A p \in Pages : Copies("rows", p)' = Copies("rows", p)
      BY <2>1, CopiesKept, KeyFacts
    <3>2. \A d \in Requests : WholeFrame(frame[d])' = WholeFrame(frame[d])
      BY <2>1 DEF WholeFrame, Distinct, Cached, Key
    <3>3. \A rows : Distinct(rows)' = Distinct(rows)
      BY DEF Distinct
    <3> QED
      BY <1>2, <3>1, <3>2, <3>3 DEF RowsDistinct
  <2> QED
    BY <1>2, <2>2, <2>3, UniqueStep
<1>4. ASSUME NEW c \in Requests, Start(c) \/ IndexStep(c) \/ ChangeStep(c)
      PROVE  Paired' /\ RowsDistinct'
  BY <1>1, <1>2, <1>4, IndexPaired, ChangePaired, IndexWhole, OtherWhole
<1> QED
  BY <1>1, <1>2, <1>3, <1>4, UniqueStep DEF Next

LEMMA WholeInit == Init => WholeInv
<1> SUFFICES ASSUME Init PROVE Unique /\ Paired /\ RowsDistinct
  BY DEF WholeInv
<1>1. \A c \in Requests : frame[c] = Idle
  BY DEF Init
<1>2. Idle.pc = "idle" /\ Idle.op = "none"
  BY DEF Idle
<1>3. \A kind \in Kinds, p \in Pages : ~ Cached(kind, p) /\ drive[Key(kind, p)] = None /\ Copies(kind, p) = {}
  BY KeyFacts DEF Init, Cached, Copies
<1>4. Unique
  <2>1. Initial \in Nat /\ \A i \in 1..Initial : servers[i].id = Initial + 1 - i
    BY Constants DEF Init
  <2>2. DOMAIN servers = 1..Initial /\ stamp = Initial
    BY DEF Init
  <2>3. Distinct(servers) /\ \A i \in DOMAIN servers : servers[i].id <= stamp
    BY <2>1, <2>2 DEF Distinct
  <2> QED
    BY <1>1, <1>2, <2>3 DEF Unique, Adding
<1>5. Paired
  <2>1. ~ Running(Changes)
    BY <1>1, <1>2, Constants DEF Running
  <2>2. CopiesCached /\ Together /\ TotalsListed
    BY <1>3, KeyFacts DEF CopiesCached, Together, TotalsListed
  <2>3. ListsGrow /\ \A c \in Requests : Dropped(frame[c])
    BY <1>1, <1>2 DEF ListsGrow, Dropped
  <2> QED
    BY <2>1, <2>2, <2>3 DEF Paired, ListCopies
<1>6. RowsDistinct
  BY <1>1, <1>2, <1>3, KeyFacts DEF RowsDistinct, WholeFrame
<1> QED
  BY <1>4, <1>5, <1>6

\* WholePages, of what Index finds in the cache and of what it adds to it.
THEOREM WholePagesHolds == Spec => []WholePages
<1>1. WholeInv => WholePages
  <2> SUFFICES ASSUME WholeInv, Unharmed
               PROVE  /\ \A p \in Pages : redis[Key("rows", p)] # None => Whole(redis[Key("rows", p)])
                      /\ \A c \in Requests : At(c, "reply") => Whole(frame[c].rows)
    BY DEF WholePages, Unharmed
  <2>1. \A rows : Distinct(rows) => Whole(rows)
    BY DEF Distinct, Whole, IsInjective
  <2>2. \A p \in Pages : redis[Key("rows", p)] # None => Distinct(redis[Key("rows", p)])
    BY DEF WholeInv, RowsDistinct, Copies
  <2>3. \A c \in Requests : At(c, "reply") => Distinct(frame[c].rows)
    BY DEF WholeInv, RowsDistinct, WholeFrame, At
  <2> QED
    BY <2>1, <2>2, <2>3
<1> QED
  BY <1>1, InitOK, InvStep, ListedInit, ListedInvStep, WholeInit, WholeInvStep, PTL DEF Spec

\* As long as nothing has happened, no page is excused: RemoveData finds what it has to drop.
CleanInv == mishaps = {} => excused = {}

LEMMA HeldListed ==
  ASSUME Inv, Paired, IndexAlone, PagesEntered, NEW c \in Requests, frame[c].pc = "readList",
         NEW list \in Found(drive[ListKey(frame[c].kind)], ListKey(frame[c].kind))
  PROVE  Held \subseteq IF list = None THEN {} ELSE list
<1> DEFINE f == frame[c]
<1>1. f.op \in Changes /\ f.kind \in Kinds /\ Busy(c)
  BY BusyFact DEF Inv, FramesOK, FrameOK, Frame, ChangeLabels
<1>2. \A d \in Requests : frame[d].op # "Index"
  BY <1>1, Constants DEF IndexAlone
<1>3. list = redis[ListKey(f.kind)]
  <2>1. drive[ListKey(f.kind)] \in {None, redis[ListKey(f.kind)]}
    BY <1>1 DEF Paired, ListCopies, Running
  <2> QED
    BY <2>1 DEF Found
<1>4. \A p \in Held : Cached("rows", p) \/ Cached("total", p)
  BY DEF Held, Found, Paired, CopiesCached, Cached, Kinds
<1>5. \A kind \in Kinds, p \in Pages : Cached(kind, p) => Entered(kind, p)
  BY <1>2 DEF PagesEntered, Entering
<1>6. \A p \in Pages : Cached("total", p) => redis[ListKey("rows")] # None /\ p \in redis[ListKey("rows")]
  BY <1>2 DEF Paired, TotalsListed, Entering
<1>7. f.kind = "total" => \A p \in Pages : ~ Cached("rows", p)
  BY DEF Paired, Dropped
<1>8. Held \subseteq Pages
  BY DEF Held
<1> QED
  BY <1>1, <1>3, <1>4, <1>5, <1>6, <1>7, <1>8 DEF Entered, Kinds

LEMMA CleanInvStep == Inv /\ ListedInv /\ WholeInv /\ CleanInv /\ [Next]_vars => CleanInv'
<1> SUFFICES ASSUME Inv, ListedInv, WholeInv, CleanInv, [Next]_vars, mishaps' = {}
             PROVE  excused' = {}
  BY DEF CleanInv
<1>1. /\ mishaps = {} /\ Unharmed' /\ Spared /\ Unharmed
      /\ \A m : ~ Happens(m) /\ ~ Mishap(m)
  BY HarmStep DEF Unharmed, Spared, Happens, Mishap
<1>2. Paired /\ IndexAlone /\ PagesEntered /\ excused = {}
  BY <1>1 DEF WholeInv, ListedInv, CleanInv
<1>3. ASSUME NEW c \in Requests, NEW p \in Pages, Index(c, p) PROVE excused' = {}
  <2>1. ~ Running(Changes)
    BY <1>1, <1>3 DEF Index, HappensIf, Running
  <2> QED
    BY <1>2, <1>3, <2>1 DEF Index, Excuse
<1>4. ASSUME NEW c \in Requests, NEW op \in Changes, NEW id \in 1..(stamp + 1), Change(c, op, id)
      PROVE  excused' = {}
  <2>1. {frame[d].page : d \in {r \in Requests : frame[r].op = "Index"}} = {}
    BY <1>1, <1>4 DEF Change, Running
  <2>2. Excuse({frame[d].page : d \in {r \in Requests : frame[r].op = "Index"}})
    BY <1>4 DEF Change
  <2> QED
    BY <1>2, <2>1, <2>2 DEF Excuse
<1>5. ASSUME NEW c \in Requests, Status(c) PROVE excused' = {}
  BY <1>1, <1>2, <1>5 DEF Status, HappensIf, Excuse
<1>6. ASSUME NEW c \in Requests, ReadList(c) PROVE excused' = {}
  <2>1. frame[c].pc = "readList"
    BY <1>6 DEF ReadList, At
  <2>2. PICK list \in Found(drive[ListKey(frame[c].kind)], ListKey(frame[c].kind)) :
          Excuse(Held \ (IF list = None THEN {} ELSE list))
    BY <1>1, <1>6 DEF ReadList
  <2>3. Held \subseteq IF list = None THEN {} ELSE list
    BY <1>2, <2>1, HeldListed
  <2> QED
    BY <1>2, <2>2, <2>3 DEF Excuse
<1>7. ASSUME UNCHANGED excused PROVE excused' = {}
  BY <1>2, <1>7
<1>8. ASSUME NEW c \in Requests, IndexStep(c), ~ Status(c) PROVE UNCHANGED excused
  BY <1>1, <1>8
     DEF IndexStep, GetRows, GetTotal, Find, Count, ReadFails, SetRows, SetTotal, GetList, SetList,
         SetListPanics, Reply, harm
<1>9. ASSUME NEW c \in Requests, ChangeStep(c), ~ ReadList(c) PROVE UNCHANGED excused
  BY <1>1, <1>9
     DEF ChangeStep, Commit, CommitMisses, CommitPanics, CommitFails, DeleteKey, ListDone, harm
<1>10. ASSUME Expire \/ Refresh \/ Crash \/ UNCHANGED vars PROVE UNCHANGED excused
  BY <1>1, <1>10 DEF Expire, Refresh, Crash, vars, harm
<1> QED
  BY <1>3, <1>4, <1>5, <1>6, <1>7, <1>8, <1>9, <1>10 DEF Next, Start

-----------------------------------------------------------------------------
(* OutdatedPagesExcused and AnswersCurrent.  What is cached of a page that *)
(* has no excuse is as the stores are, or some change has written and will *)
(* yet drop it; and an Index of such a page runs beside no change, so that *)
(* it makes it from stores that stay as they are.  As long as nothing has  *)
(* happened no page has an excuse, and an Index makes its rows in order,   *)
(* each once: it never appends to rows that it found.                      *)

CurrentRow(record) == [id |-> record.id, attr |-> record.attr, status |-> indexed[record.id]]
CurrentSet(p) == {CurrentRow(record) : record \in ToSet(Records(p))}

GoodRows(p, rows) == /\ ToSet(rows) = CurrentSet(p)
                     /\ mishaps = {} => rows = CurrentRows(p)
Good(kind, p, v) == IF kind = "rows" THEN GoodRows(p, v) ELSE v = CurrentTotal(p)

\* The change has written something and will delete the page's key of this kind, if the
\* key list names it.
WillDrop(f, kind, p) ==
  \/ f.pc = "commit" /\ f.todo # Writes(f.op)
  \/ f.pc = "readList" /\ (f.kind = "rows" \/ kind = "total")
  \/ f.pc = "delete" /\ f.kind = "rows" /\ kind = "total"
  \/ f.pc = "delete" /\ f.kind = kind /\ p \in f.keys

CacheFresh(p) ==
  \A kind \in Kinds : \A v \in Copies(kind, p) :
    Good(kind, p, v) \/ \E c \in Requests : WillDrop(frame[c], kind, p)

\* The rows are of the first records, and what is found is the rest of them.
InOrder(rows, found, records) ==
  /\ Len(rows) + Len(found) = Len(records)
  /\ \A i \in 1..Len(rows) : rows[i] = CurrentRow(records[i])
  /\ \A i \in 1..Len(found) : found[i] = records[Len(rows) + i]

\* The records that are no longer to be looked up have their rows.
LookedUp(f, p) ==
  /\ ToSet(f.rows) \subseteq CurrentSet(p)
  /\ ToSet(f.found) \subseteq ToSet(Records(p))
  /\ \A record \in ToSet(Records(p)) \ ToSet(f.found) : CurrentRow(record) \in ToSet(f.rows)
  /\ mishaps = {} => InOrder(f.rows, f.found, Records(p))

MadeLabels == {"setRows", "setTotal", "getList", "setList", "reply"}

Making(f, p) ==
  /\ f.pc = "getRows" => f.rows = << >> /\ ~ f.hit
  /\ f.pc \in {"getTotal", "find", "count"} => f.rows = << >> \/ GoodRows(p, f.rows)
  /\ f.pc = "getTotal" /\ f.hit => GoodRows(p, f.rows)
  /\ f.pc = "count" => f.found = Records(p)
  /\ f.pc = "status" => LookedUp(f, p)
  /\ f.pc \in MadeLabels => GoodRows(p, f.rows)
  /\ f.pc \in MadeLabels \cup {"status"} => f.total = CurrentTotal(p)

IndexFresh(p) ==
  \A c \in Requests : frame[c].op = "Index" /\ frame[c].page = p =>
    ~ Running(Changes) /\ Making(frame[c], p)

Unspoilt == mishaps \cap {"exit", "redisError", "storeError"} = {}
FreshInv == Unspoilt => \A p \in Pages \ excused : CacheFresh(p) /\ IndexFresh(p)

LEMMA CurrentFact == \A p : ToSet(CurrentRows(p)) = CurrentSet(p)
  BY DEF CurrentRows, CurrentSet, CurrentRow, ToSet

\* What a page should be changes with the stores only.
LEMMA GoodKept ==
  ASSUME UNCHANGED <<servers, indexed>>, mishaps \subseteq mishaps'
  PROVE  \A kind, p, v : Good(kind, p, v) => Good(kind, p, v)'
<1>1. \A p : /\ CurrentSet(p)' = CurrentSet(p) /\ CurrentRows(p)' = CurrentRows(p)
            /\ CurrentTotal(p)' = CurrentTotal(p)
  BY DEF CurrentSet, CurrentRow, CurrentRows, CurrentTotal, Records
<1>2. mishaps' = {} => mishaps = {}
  OBVIOUS
<1> QED
  BY <1>1, <1>2 DEF Good, GoodRows

LEMMA CacheKept ==
  ASSUME NEW p \in Pages, CacheFresh(p), UNCHANGED <<servers, indexed>>, mishaps \subseteq mishaps',
         \A kind \in Kinds : \A v \in Copies(kind, p)' :
           \/ Good(kind, p, v)
           \/ /\ v \in Copies(kind, p)
              /\ \A d \in Requests : WillDrop(frame[d], kind, p) => WillDrop(frame'[d], kind, p)
  PROVE  CacheFresh(p)'
<1> SUFFICES ASSUME NEW kind \in Kinds, NEW v \in Copies(kind, p)'
             PROVE  Good(kind, p, v)' \/ \E c \in Requests : WillDrop(frame'[c], kind, p)
  BY DEF CacheFresh
<1>1. Good(kind, p, v) => Good(kind, p, v)'
  BY GoodKept
<1> QED
  BY <1>1 DEF CacheFresh

LEMMA IndexKept ==
  ASSUME NEW p \in Pages, IndexFresh(p), UNCHANGED <<servers, indexed>>, mishaps \subseteq mishaps',
         \A d \in Requests : frame'[d].op = "Index" /\ frame'[d].page = p =>
           /\ frame'[d] = frame[d] \/ (~ Running(Changes) /\ Making(frame'[d], p))
           /\ Running(Changes)' => Running(Changes)
  PROVE  IndexFresh(p)'
<1> SUFFICES ASSUME NEW d \in Requests, frame'[d].op = "Index", frame'[d].page = p
             PROVE  ~ Running(Changes)' /\ Making(frame[d], p)'
  BY DEF IndexFresh
<1> DEFINE g == frame'[d]
<1>1. ~ Running(Changes) /\ Making(g, p)
  BY DEF IndexFresh
<1>2. /\ CurrentSet(p)' = CurrentSet(p) /\ CurrentTotal(p)' = CurrentTotal(p)
      /\ Records(p)' = Records(p)
      /\ \A r : CurrentRow(r)' = CurrentRow(r)
  BY DEF CurrentSet, CurrentRow, CurrentTotal, Records
<1>3. GoodRows(p, g.rows) => GoodRows(p, frame[d].rows)'
  <2>1. \A v : GoodRows(p, v) => GoodRows(p, v)'
    BY GoodKept DEF Good
  <2> QED
    BY <2>1 DEF GoodRows
<1>4. LookedUp(g, p) => LookedUp(frame[d], p)'
  <2>1. mishaps' = {} => mishaps = {}
    OBVIOUS
  <2> QED
    BY <1>2, <2>1 DEF LookedUp, InOrder
<1> QED
  BY <1>1, <1>2, <1>3, <1>4 DEF Making

\* The next record is looked up.
LEMMA OrderKept ==
  ASSUME NEW S, NEW rows \in Seq(S), NEW T, NEW found \in Seq(T), found # << >>,
         NEW records \in Seq(T), InOrder(rows, found, records)
  PROVE  InOrder(Append(rows, CurrentRow(Head(found))), Tail(found), records)
<1> DEFINE t == Append(rows, CurrentRow(Head(found))) u == Tail(found)
<1>1. /\ Len(u) = Len(found) - 1 /\ Len(found) \in Nat \ {0} /\ Head(found) = found[1]
      /\ \A i \in 1..(Len(found) - 1) : u[i] = found[i + 1]
  BY HeadTail
<1>2. /\ Len(rows) \in Nat /\ Len(t) = Len(rows) + 1
      /\ t[Len(rows) + 1] = CurrentRow(Head(found))
      /\ \A i \in 1..Len(rows) : t[i] = rows[i]
  OBVIOUS
<1> HIDE DEF t, u
<1>3. Len(t) + Len(u) = Len(records)
  <2>1. Len(rows) + Len(found) = Len(records)
    BY DEF InOrder
  <2> QED
    BY <1>1, <1>2, <2>1
<1>4. ASSUME NEW i \in 1..Len(t) PROVE t[i] = CurrentRow(records[i])
  <2>1. CASE i \in 1..Len(rows)
    BY <1>2, <2>1 DEF InOrder
  <2>2. CASE i = Len(rows) + 1
    <3>1. found[1] = records[Len(rows) + 1]
      BY <1>1 DEF InOrder
    <3> QED
      BY <1>1, <1>2, <2>2, <3>1
  <2> QED
    BY <1>2, <2>1, <2>2
<1>5. ASSUME NEW i \in 1..Len(u) PROVE u[i] = records[Len(t) + i]
  <2>1. u[i] = found[i + 1] /\ i + 1 \in 1..Len(found)
    BY <1>1
  <2>2. found[i + 1] = records[Len(rows) + (i + 1)]
    BY <2>1 DEF InOrder
  <2>3. Len(rows) + (i + 1) = Len(t) + i
    BY <1>2
  <2> QED
    BY <2>1, <2>2, <2>3
<1>6. InOrder(t, u, records)
  BY <1>3, <1>4, <1>5 DEF InOrder
<1> QED
  BY <1>6 DEF t, u

\* Before the first record is looked up, and after the last.
LEMMA OrderEnds ==
  ASSUME NEW p \in Pages, NEW T, Records(p) \in Seq(T)
  PROVE  /\ InOrder(<< >>, Records(p), Records(p))
         /\ \A S : \A rows \in Seq(S), found \in Seq(T) :
              InOrder(rows, found, Records(p)) /\ Len(found) = 0 => rows = CurrentRows(p)
<1> DEFINE records == Records(p)
<1>1. DOMAIN records = 1..Len(records) /\ Len(records) \in Nat
  OBVIOUS
<1>2. InOrder(<< >>, records, records)
  BY <1>1 DEF InOrder
<1>3. ASSUME NEW S, NEW rows \in Seq(S), NEW found \in Seq(T), InOrder(rows, found, records), Len(found) = 0
      PROVE  rows = CurrentRows(p)
  <2>1. CurrentRows(p) = [i \in 1..Len(records) |-> CurrentRow(records[i])]
    BY <1>1 DEF CurrentRows, CurrentRow
  <2> HIDE DEF records
  <2>2. rows = [i \in 1..Len(rows) |-> rows[i]]
    OBVIOUS
  <2>3. Len(rows) = Len(records)
    <3>1. Len(rows) + Len(found) = Len(records)
      BY <1>3 DEF InOrder
    <3>2. Len(rows) + 0 = Len(records)
      BY <1>3, <3>1
    <3>3. Len(rows) \in Nat
      OBVIOUS
    <3> QED
      BY <3>2, <3>3
  <2>4. \A i \in 1..Len(rows) : rows[i] = CurrentRow(records[i])
    BY <1>3 DEF InOrder
  <2> QED
    BY <2>1, <2>2, <2>3, <2>4
<1> QED
  BY <1>2, <1>3

LEMMA AppendSet ==
  ASSUME NEW S, NEW s \in Seq(S), NEW x
  PROVE  ToSet(Append(s, x)) = ToSet(s) \cup {x}
<1> DEFINE t == Append(s, x)
<1>1. /\ DOMAIN s = 1..Len(s) /\ Len(s) \in Nat
      /\ DOMAIN t = 1..(Len(s) + 1) /\ t[Len(s) + 1] = x
      /\ \A i \in 1..Len(s) : t[i] = s[i]
  OBVIOUS
<1> HIDE DEF t
<1>2. ToSet(t) \subseteq ToSet(s) \cup {x}
  <2>1. ASSUME NEW i \in DOMAIN t PROVE t[i] \in ToSet(s) \cup {x}
    <3>1. i \in 1..Len(s) \/ i = Len(s) + 1
      BY <1>1
    <3> QED
      BY <1>1, <3>1 DEF ToSet
  <2> QED
    BY <2>1 DEF ToSet
<1>3. ToSet(s) \subseteq ToSet(t)
  <2>1. ASSUME NEW i \in DOMAIN s PROVE i \in DOMAIN t /\ s[i] = t[i]
    BY <1>1
  <2> QED
    BY <2>1 DEF ToSet
<1>4. x \in ToSet(t)
  <2>1. Len(s) + 1 \in DOMAIN t
    BY <1>1
  <2> QED
    BY <1>1, <2>1 DEF ToSet
<1> QED
  BY <1>2, <1>3, <1>4 DEF t

LEMMA TailSet ==
  ASSUME NEW S, NEW s \in Seq(S), s # << >>
  PROVE  /\ ToSet(s) = {Head(s)} \cup ToSet(Tail(s))
         /\ Len(s) = 1 => ToSet(Tail(s)) = {}
<1> DEFINE t == Tail(s)
<1>1. /\ DOMAIN s = 1..Len(s) /\ DOMAIN t = 1..(Len(s) - 1) /\ Len(s) \in Nat \ {0}
      /\ Head(s) = s[1]
      /\ \A i \in DOMAIN t : i + 1 \in DOMAIN s /\ t[i] = s[i + 1]
  BY HeadTail
<1> HIDE DEF t
<1>2. ASSUME NEW i \in DOMAIN s PROVE s[i] \in {Head(s)} \cup ToSet(t)
  <2>1. CASE i = 1
    BY <1>1, <2>1
  <2>2. CASE i # 1
    <3>1. i - 1 \in DOMAIN t /\ t[i - 1] = s[i]
      BY <1>1, <2>2
    <3> QED
      BY <3>1 DEF ToSet
  <2> QED
    BY <2>1, <2>2
<1>3. Head(s) \in ToSet(s) /\ ToSet(t) \subseteq ToSet(s)
  <2>1. 1 \in DOMAIN s
    BY <1>1
  <2> QED
    BY <1>1, <2>1 DEF ToSet
<1>4. ToSet(s) \subseteq {Head(s)} \cup ToSet(t)
  BY <1>2 DEF ToSet
<1>5. Len(s) = 1 => ToSet(t) = {}
  <2>1. Len(s) = 1 => DOMAIN t = {}
    BY <1>1
  <2> QED
    BY <2>1 DEF ToSet
<1> QED
  BY <1>3, <1>4, <1>5 DEF t

LEMMA WillDropRuns ==
  ASSUME Inv, NEW c \in Requests, NEW kind, NEW p, WillDrop(frame[c], kind, p)
  PROVE  frame[c].pc \in ChangeLabels /\ Running(Changes)
  BY DEF WillDrop, Running, ChangeLabels, Inv, FramesOK, FrameOK

\* Without a change running, every copy is good.
LEMMA CopiesGood ==
  ASSUME Inv, NEW p \in Pages, CacheFresh(p), ~ Running(Changes)
  PROVE  \A kind \in Kinds : \A v \in Copies(kind, p) : Good(kind, p, v)
  BY WillDropRuns DEF CacheFresh

\* An Index makes its page from good copies and from the stores.
LEMMA IndexMaking ==
  ASSUME Inv, WholeInv, [Next]_vars, Unspoilt', NEW c \in Requests, IndexStep(c),
         NEW p \in Pages \ excused', p = frame[c].page, CacheFresh(p), IndexFresh(p)
  PROVE  \/ Local(c, Idle)
         \/ /\ Local(c, frame'[c])
            /\ frame[c].pc \in IndexLabels
            /\ frame'[c].op = "Index" /\ frame'[c].page = p /\ Making(frame'[c], p)
<1> DEFINE f == frame[c] g == frame'[c]
<1>1. /\ "redisError" \notin mishaps'
      /\ {"redisError", "exit"} \cap mishaps' = {}
  BY DEF Unspoilt
<1>2. FrameOK(f) /\ f \in Frame
  BY DEF Inv, FramesOK, FrameOK
<1>3. f.pc \in IndexLabels => f.op = "Index" /\ ~ Running(Changes) /\ Making(f, p)
  BY <1>2 DEF FrameOK, IndexFresh
<1>4. ASSUME NEW from \in IndexLabels, NEW to, Moved(c, from, to)
      PROVE  /\ Local(c, g) /\ f.pc \in IndexLabels /\ g.op = "Index" /\ g.page = p
             /\ f.pc = from /\ g.pc = to /\ Making(f, p) /\ ~ Running(Changes)
  BY <1>3, <1>4 DEF Moved
<1> DEFINE Goal == \/ Local(c, Idle)
                   \/ /\ Local(c, g) /\ f.pc \in IndexLabels
                      /\ g.op = "Index" /\ g.page = p /\ Making(g, p)
<1>5. CASE GetRows(c)
  <2>1. PICK rows \in Found(drive[Key("rows", p)], Key("rows", p)) :
          /\ Moved(c, "getRows", "getTotal")
          /\ g.rows = IF rows = None THEN f.rows ELSE rows
          /\ g.hit = IF rows = None THEN f.hit ELSE TRUE
    BY <1>1, <1>5, LookingTurns
  <2>2. f.rows = << >> /\ ~ f.hit /\ ~ Running(Changes) /\ g.pc = "getTotal"
    BY <1>4, <2>1 DEF Making, IndexLabels
  <2>3. rows # None => GoodRows(p, rows)
    <3>1. rows # None => rows \in Copies("rows", p)
      BY <2>1 DEF Copies, Found
    <3> QED
      BY <2>2, <3>1, CopiesGood, KeyFacts DEF Good
  <2>4. Making(g, p)
    BY <2>1, <2>2, <2>3 DEF Making, MadeLabels
  <2> QED
    BY <1>4, <2>1, <2>4 DEF IndexLabels
<1>6. CASE GetTotal(c)
  <2>1. PICK total \in Found(drive[Key("total", p)], Key("total", p)) :
          /\ \/ f.hit /\ total # None /\ Moved(c, "getTotal", "reply") /\ g.total = total
             \/ Moved(c, "getTotal", "find")
          /\ g.rows = f.rows
    BY <1>1, <1>6, LookingTurns
  <2>2. f.pc = "getTotal" /\ Making(f, p) /\ ~ Running(Changes)
    BY <1>4, <2>1 DEF IndexLabels
  <2>3. CASE f.hit /\ total # None /\ Moved(c, "getTotal", "reply") /\ g.total = total
    <3>1. total \in Copies("total", p)
      BY <2>3 DEF Copies, Found
    <3>2. g.total = CurrentTotal(p)
      BY <2>2, <2>3, <3>1, CopiesGood, KeyFacts DEF Good
    <3>3. GoodRows(p, g.rows) /\ g.pc = "reply"
      BY <2>1, <2>2, <2>3 DEF Making, Moved
    <3> QED
      BY <3>2, <3>3, <2>3, <1>4 DEF Making, IndexLabels
  <2>4. CASE Moved(c, "getTotal", "find")
    <3>1. Making(g, p)
      BY <2>1, <2>2, <2>4 DEF Making, Moved, MadeLabels
    <3> QED
      BY <1>4, <2>4, <3>1 DEF IndexLabels
  <2> QED
    BY <2>1, <2>3, <2>4
<1>7. CASE Find(c)
  <2>1. Moved(c, "find", "count") /\ g.rows = f.rows /\ g.found = Records(p)
    BY <1>7, SearchingTurns
  <2>2. g.pc = "count" /\ (f.rows = << >> \/ GoodRows(p, f.rows))
    BY <1>4, <2>1 DEF Making, IndexLabels
  <2>3. Making(g, p)
    BY <2>1, <2>2 DEF Making, MadeLabels
  <2> QED
    BY <1>4, <2>1, <2>3 DEF IndexLabels
<1>8. CASE Count(c)
  <2>1. /\ \/ f.found = << >> /\ Moved(c, "count", "setRows") /\ g.total = 0
           \/ /\ f.found # << >> /\ Moved(c, "count", "status")
              /\ g.total = Min({Len(servers), FirstBatch})
        /\ g.rows = f.rows /\ g.found = f.found
    BY <1>8, SearchingTurns
  <2>2. (f.rows = << >> \/ GoodRows(p, f.rows)) /\ f.found = Records(p)
    BY <1>4, <2>1 DEF Making, IndexLabels
  <2>3. g.total = CurrentTotal(p)
    BY <2>1, <2>2 DEF CurrentTotal
  <2>4. ToSet(<< >>) = {}
    BY DEF ToSet
  <2>9. mishaps = {} => f.rows = << >>
    BY <2>1 DEF WholeInv, Unharmed, RowsDistinct, WholeFrame, Moved
  <2>10. Records(p) \in Seq(Rec)
    BY RecordsOK DEF Inv, StoresOK, Rec, Ids
  <2>5. LookedUp(g, p)
    <3>1. mishaps = {} => InOrder(g.rows, g.found, Records(p))
      BY <2>1, <2>2, <2>9, <2>10, OrderEnds
    <3> QED
      BY <2>1, <2>2, <2>4, <3>1 DEF LookedUp, GoodRows
  <2>6. CASE Moved(c, "count", "setRows") /\ f.found = << >>
    <3>1. CurrentSet(p) = {}
      BY <2>2, <2>4, <2>6 DEF CurrentSet
    <3>2. mishaps = {} => g.rows = CurrentRows(p)
      BY <2>1, <2>2, <2>6, <2>9 DEF CurrentRows
    <3>5. GoodRows(p, g.rows)
      BY <2>1, <2>2, <2>4, <3>1, <3>2 DEF GoodRows
    <3>3. g.pc = "setRows"
      BY <2>6 DEF Moved
    <3>4. Making(g, p)
      BY <2>3, <3>5, <3>3 DEF Making
    <3> QED
      BY <1>4, <2>6, <3>4 DEF IndexLabels
  <2>7. CASE Moved(c, "count", "status")
    <3>1. g.pc = "status"
      BY <2>7 DEF Moved
    <3>2. Making(g, p)
      BY <2>3, <2>5, <3>1 DEF Making, MadeLabels
    <3> QED
      BY <1>4, <2>7, <3>2 DEF IndexLabels
  <2> QED
    BY <2>1, <2>6, <2>7
<1>9. CASE Status(c)
  <2> DEFINE next == Head(f.found)
  <2>1. /\ \/ Len(f.found) = 1 /\ Moved(c, "status", "setRows")
           \/ Len(f.found) # 1 /\ Moved(c, "status", "status")
        /\ g.total = f.total
        /\ g.rows = Append(f.rows, RowOf(next)) /\ g.found = Tail(f.found)
        /\ visible[next.id] = indexed[next.id]
    BY <1>9, SearchingTurns
  <2>2. f.pc = "status" /\ LookedUp(f, p) /\ f.total = CurrentTotal(p)
    BY <1>4, <2>1 DEF Making, IndexLabels
  <2>3. f.found \in Seq(Rec) /\ f.found # << >> /\ f.rows \in Seq(Row)
    BY <1>2, <2>2 DEF FrameOK, Frame
  <2>4. RowOf(next) = CurrentRow(next)
    BY <2>1 DEF RowOf, CurrentRow
  <2>5. /\ ToSet(f.found) = {next} \cup ToSet(g.found)
        /\ ToSet(g.rows) = ToSet(f.rows) \cup {CurrentRow(next)}
        /\ Len(f.found) = 1 => ToSet(g.found) = {}
    BY <2>1, <2>3, <2>4, AppendSet, TailSet
  <2>6. CurrentRow(next) \in CurrentSet(p)
    BY <2>2, <2>5 DEF LookedUp, CurrentSet
  <2>11. Records(p) \in Seq(Rec)
    BY RecordsOK DEF Inv, StoresOK, Rec, Ids
  <2>12. mishaps = {} => InOrder(g.rows, g.found, Records(p))
    BY <2>1, <2>2, <2>3, <2>4, <2>11, OrderKept DEF LookedUp
  <2>7. LookedUp(g, p)
    BY <2>2, <2>5, <2>6, <2>12 DEF LookedUp
  <2>8. Len(f.found) = 1 => GoodRows(p, g.rows)
    <3>1. ASSUME Len(f.found) = 1, mishaps = {} PROVE g.rows = CurrentRows(p)
      <4>1. g.found \in Seq(Rec) /\ Len(g.found) = 0
        BY <2>1, <2>3, <3>1, HeadTail
      <4>2. g.rows \in Seq(Row)
        <5>1. frame' \in [Requests -> Frame]
          BY InvStep DEF Inv, FramesOK
        <5> QED
          BY <5>1 DEF Frame
      <4> QED
        BY <2>11, <2>12, <3>1, <4>1, <4>2, OrderEnds
    <3>2. Len(f.found) = 1 => ToSet(g.rows) = CurrentSet(p)
      BY <2>5, <2>7 DEF LookedUp, CurrentSet
    <3> QED
      BY <3>1, <3>2 DEF GoodRows
  <2>9. g.pc = "status" \/ (g.pc = "setRows" /\ GoodRows(p, g.rows))
    <3>1. CASE Len(f.found) = 1 /\ Moved(c, "status", "setRows")
      BY <2>8, <3>1 DEF Moved
    <3>2. CASE Moved(c, "status", "status")
      BY <3>2 DEF Moved
    <3> QED
      BY <2>1, <3>1, <3>2
  <2>10. Making(g, p)
    BY <2>1, <2>2, <2>7, <2>9 DEF Making, MadeLabels
  <2> QED
    BY <1>4, <2>1, <2>10 DEF IndexLabels
<1>10. CASE SetRows(c) \/ SetTotal(c) \/ GetList(c) \/ SetList(c)
  <2>1. PICK from \in MadeLabels, to \in MadeLabels \ {"setRows"} : Moved(c, from, to)
    BY <1>1, <1>10, CachingTurns DEF MadeLabels
  <2>2. g.rows = f.rows /\ g.total = f.total
    BY <1>1, <1>10, CachingTurns
  <2>3. Making(g, p)
    BY <1>4, <2>1, <2>2 DEF Making, MadeLabels, IndexLabels
  <2> QED
    BY <1>4, <2>1, <2>3 DEF MadeLabels, IndexLabels
<1>12. CASE ReadFails(c) \/ Reply(c) \/ SetListPanics(c)
  BY <1>1, <1>12, SearchingTurns, CachingTurns
<1> QED
  BY <1>5, <1>6, <1>7, <1>8, <1>9, <1>10, <1>12 DEF IndexStep

LEMMA IndexCopies ==
  ASSUME Inv, WholeInv, [Next]_vars, Unspoilt', NEW c \in Requests, IndexStep(c),
         NEW p \in Pages \ excused', CacheFresh(p), IndexFresh(p),
         NEW kind \in Kinds, NEW v \in Copies(kind, p)'
  PROVE  v \in Copies(kind, p) \/ Good(kind, p, v)
<1> DEFINE f == frame[c]
<1>1. "redisError" \notin mishaps'
  BY DEF Unspoilt
<1>2. /\ f.pc \in IndexLabels => f.op = "Index" /\ f.page \in Pages /\ (f.page = p => Making(f, p))
      /\ f.kind \in Kinds
  BY DEF Inv, FramesOK, FrameOK, Frame, IndexFresh
<1>3. ASSUME NEW k \in Kinds, f.page \in Pages, NEW w \in Found(drive[Key(k, f.page)], Key(k, f.page)),
             Got(Key(k, f.page), w)
      PROVE  v \in Copies(kind, p)
  BY <1>3, KeyFacts, CopiesGot
<1>4. ASSUME NEW k \in Kinds, f.page \in Pages, NEW w, Set(Key(k, f.page), w),
             f.page = p => Good(k, p, w)
      PROVE  v \in Copies(kind, p) \/ Good(kind, p, v)
  <2>1. Key(k, f.page) \in Keys
    BY <1>4, KeyFacts
  <2>2. v \in Copies(kind, p) \/ (v = w /\ Key(k, f.page) = Key(kind, p))
    BY <1>4, <2>1, CopiesSet
  <2>3. Key(k, f.page) = Key(kind, p) => k = kind /\ f.page = p
    BY DEF Key
  <2> QED
    BY <1>4, <2>2, <2>3
<1>5. CASE GetRows(c)
  <2>1. /\ f.pc = "getRows"
        /\ \E rows \in Found(drive[Key("rows", f.page)], Key("rows", f.page)) :
             Got(Key("rows", f.page), rows)
    BY <1>1, <1>5, LookingTurns DEF Moved
  <2> QED
    BY <1>2, <1>3, <2>1, KeyFacts DEF IndexLabels
<1>6. CASE GetTotal(c)
  <2>1. /\ f.pc = "getTotal"
        /\ \E total \in Found(drive[Key("total", f.page)], Key("total", f.page)) :
             Got(Key("total", f.page), total)
    BY <1>1, <1>6, LookingTurns DEF Moved
  <2> QED
    BY <1>2, <1>3, <2>1, KeyFacts DEF IndexLabels
<1>7. CASE Find(c) \/ Count(c) \/ Status(c) \/ ReadFails(c)
  <2>1. UNCHANGED caches
    BY <1>7, SearchingTurns
  <2> QED
    BY <2>1, CopiesKept DEF caches
<1>8. CASE SetRows(c)
  <2>1. f.pc = "setRows" /\ Set(Key("rows", f.page), f.rows)
    BY <1>1, <1>8, CachingTurns DEF Moved
  <2>2. f.page \in Pages /\ (f.page = p => Good("rows", p, f.rows))
    BY <1>2, <2>1 DEF IndexLabels, MadeLabels, Making, Good
  <2> QED
    BY <1>4, <2>1, <2>2, KeyFacts
<1>9. CASE SetTotal(c)
  <2>1. f.pc = "setTotal" /\ Set(Key("total", f.page), f.total)
    BY <1>1, <1>9, CachingTurns DEF Moved
  <2>2. f.page \in Pages /\ (f.page = p => Good("total", p, f.total))
    BY <1>2, <2>1 DEF IndexLabels, MadeLabels, Making, Good
  <2> QED
    BY <1>4, <2>1, <2>2, KeyFacts
<1>10. CASE GetList(c)
  <2>1. UNCHANGED <<redis, drive>>
    BY <1>10 DEF GetList
  <2> QED
    BY <2>1, CopiesKept
<1>11. CASE SetList(c)
  <2>1. Set(ListKey(f.kind), f.keys \cup {f.page})
    BY <1>1, <1>11, CachingTurns
  <2> QED
    BY <1>2, <2>1, KeyFacts, CopiesSet
<1>12. CASE Reply(c) \/ SetListPanics(c)
  <2>1. UNCHANGED caches
    BY <1>1, <1>12, CachingTurns
  <2> QED
    BY <2>1, CopiesKept DEF caches
<1> QED
  BY <1>5, <1>6, <1>7, <1>8, <1>9, <1>10, <1>11, <1>12 DEF IndexStep

LEMMA IndexStepFresh ==
  ASSUME Inv, WholeInv, [Next]_vars, Unspoilt', NEW c \in Requests, IndexStep(c),
         NEW p \in Pages \ excused', CacheFresh(p), IndexFresh(p)
  PROVE  CacheFresh(p)' /\ IndexFresh(p)'
<1> DEFINE f == frame[c] g == frame'[c]
<1>1. /\ "redisError" \notin mishaps'
      /\ {"redisError", "exit"} \cap mishaps' = {}
  BY DEF Unspoilt
<1>2. /\ UNCHANGED stores /\ UNCHANGED <<servers, indexed>>
      /\ f.pc \in IndexLabels /\ f.op = "Index" /\ f.page \in Pages
      /\ \/ Local(c, Idle)
         \/ Local(c, g) /\ g.op = "Index" /\ g.page = f.page
  BY <1>1, IndexMoves DEF stores
<1>6. /\ \A d \in Requests : d # c => frame'[d] = frame[d]
      /\ Local(c, Idle) => g = Idle
      /\ Idle.op = "none"
  BY <1>2 DEF Local, Inv, FramesOK, Idle
<1>7. Running(Changes)' => Running(Changes)
  <2>1. g.op \notin Changes
    BY <1>2, <1>6, Constants
  <2> QED
    BY <1>6, <2>1 DEF Running
<1>8. CacheFresh(p)'
  <2>1. \A kind \in Kinds : \A d \in Requests : WillDrop(frame[d], kind, p) => WillDrop(frame'[d], kind, p)
    BY <1>2, <1>6, WillDropRuns DEF IndexLabels, ChangeLabels
  <2> QED
    BY <1>2, <2>1, IndexCopies, CacheKept, HarmStep
<1>9. ASSUME NEW d \in Requests, frame'[d].op = "Index", frame'[d].page = p
      PROVE  frame'[d] = frame[d] \/ (~ Running(Changes) /\ Making(frame'[d], p))
  <2>1. CASE d # c
    BY <1>6, <2>1
  <2>2. CASE d = c
    <3>1. f.page = p
      BY <1>2, <1>6, <1>9, <2>2
    <3>2. ~ Running(Changes)
      BY <1>2, <3>1 DEF IndexFresh
    <3>3. Making(g, p)
      BY <1>2, <1>6, <1>9, <2>2, <3>1, IndexMaking
    <3> QED
      BY <2>2, <3>2, <3>3
  <2> QED
    BY <2>1, <2>2
<1>10. IndexFresh(p)'
  BY <1>2, <1>7, <1>9, IndexKept, HarmStep
<1> QED
  BY <1>8, <1>10

LEMMA StartFresh ==
  ASSUME Inv, [Next]_vars, Unspoilt', NEW c \in Requests, Start(c),
         NEW p \in Pages \ excused', CacheFresh(p), IndexFresh(p)
  PROVE  CacheFresh(p)' /\ IndexFresh(p)'
<1>1. \A g : Local(c, g) => \A d \in Requests : frame'[d] = IF d = c THEN g ELSE frame[d]
  BY DEF Local, Inv, FramesOK
<1>2. UNCHANGED <<servers, indexed>> /\ frame[c] = Idle
  BY DEF Start, Index, Change, Begin, stores
<1>3. ASSUME NEW g, Local(c, g)
      PROVE  \A kind \in Kinds : \A d \in Requests : WillDrop(frame[d], kind, p) => WillDrop(frame'[d], kind, p)
  <2>1. frame[c].pc = "idle"
    BY <1>2 DEF Idle
  <2> QED
    BY <1>1, <1>3, <2>1, WillDropRuns DEF ChangeLabels
<1>4. ASSUME NEW q \in Pages, Index(c, q) PROVE CacheFresh(p)' /\ IndexFresh(p)'
  <2> DEFINE g == [Idle EXCEPT !.pc = "getRows", !.op = "Index", !.page = q]
  <2>1. Local(c, g) /\ UNCHANGED caches
    BY <1>4 DEF Index, Begin
  <2>2. g.pc = "getRows" /\ g.op = "Index" /\ g.page = q /\ g.rows = << >> /\ ~ g.hit
    BY DEF Idle
  <2> HIDE DEF g
  <2>3. p = q => ~ Running(Changes)
    BY <1>4 DEF Index, Excuse
  <2>4. Running(Changes)' => Running(Changes)
    BY <1>1, <2>1, <2>2, Constants DEF Running
  <2>5. Making(g, p)
    BY <2>2 DEF Making, MadeLabels
  <2>6. CacheFresh(p)'
    BY <1>2, <1>3, <2>1, CopiesKept, CacheKept, HarmStep DEF caches
  <2>7. IndexFresh(p)'
    BY <1>1, <1>2, <2>1, <2>2, <2>3, <2>4, <2>5, IndexKept, HarmStep
  <2> QED
    BY <2>6, <2>7
<1>5. ASSUME NEW op \in Changes, NEW id \in 1..(stamp + 1), Change(c, op, id)
      PROVE  CacheFresh(p)' /\ IndexFresh(p)'
  <2> DEFINE g == [Idle EXCEPT !.pc = "commit", !.op = op, !.todo = Writes(op),
                               !.target = id, !.mark = stamp']
  <2>1. Local(c, g)
    BY <1>5 DEF Change, Begin
  <2>2. g.op # "Index"
    BY Constants DEF Idle
  <2> HIDE DEF g
  <2>3. \A d \in Requests : frame[d].op = "Index" => frame[d].page # p
    <3>1. Excuse({frame[d].page : d \in {r \in Requests : frame[r].op = "Index"}})
      BY <1>5 DEF Change
    <3> QED
      BY <3>1 DEF Excuse
  <2>4. \A kind \in Kinds : Copies(kind, p)' = Copies(kind, p)
    <3> TAKE kind \in Kinds
    <3>1. UNCHANGED redis /\ drive' \in {drive, [key \in Keys |-> IF key[2] = 0 THEN None ELSE drive[key]]}
      BY <1>5 DEF Change
    <3>2. Key(kind, p) \in Keys /\ Key(kind, p)[2] # 0
      BY KeyFacts
    <3>3. drive'[Key(kind, p)] = drive[Key(kind, p)]
      BY <3>1, <3>2
    <3> QED
      BY <3>1, <3>3 DEF Copies, Key
  <2>5. CacheFresh(p)'
    BY <1>2, <1>3, <2>1, <2>4, CacheKept, HarmStep
  <2>6. \A d \in Requests : frame'[d].op = "Index" => frame'[d].page # p
    BY <1>1, <2>1, <2>2, <2>3
  <2>7. IndexFresh(p)'
    BY <2>6 DEF IndexFresh
  <2> QED
    BY <2>5, <2>7
<1> QED
  BY <1>4, <1>5 DEF Start

LEMMA ChangeStepFresh ==
  ASSUME Inv, [Next]_vars, Unspoilt', NEW c \in Requests, ChangeStep(c),
         NEW p \in Pages \ excused', CacheFresh(p), IndexFresh(p)
  PROVE  CacheFresh(p)' /\ IndexFresh(p)'
<1> DEFINE f == frame[c] g == frame'[c]
<1>1. {"redisError", "exit"} \cap mishaps' = {} /\ "storeError" \notin mishaps'
  BY DEF Unspoilt
<1>2. f.pc \in ChangeLabels
  BY DEF ChangeStep, Commit, CommitMisses, CommitPanics, CommitFails, ReadList, DeleteKey, ListDone,
         At, ChangeLabels
<1>3. f.op \in Changes /\ f.kind \in Kinds /\ Running(Changes)
  BY <1>2 DEF Inv, FramesOK, FrameOK, Frame, Running
<1>4. \A d \in Requests : frame[d].op = "Index" => frame[d].page # p
  BY <1>3 DEF IndexFresh
<1>5. ASSUME NEW h, Local(c, h)
      PROVE  /\ \A d \in Requests : d # c => frame'[d] = frame[d]
             /\ g = h
  BY <1>5 DEF Local, Inv, FramesOK
\* No Index of the page is there, and none begins.
<1>6. ASSUME NEW h, Local(c, h), h = Idle \/ h.op = f.op PROVE IndexFresh(p)'
  <2>1. Idle.op = "none"
    BY DEF Idle
  <2>2. \A d \in Requests : frame'[d].op = "Index" => frame'[d].page # p
    BY <1>3, <1>4, <1>5, <1>6, <2>1, Constants
  <2> QED
    BY <2>2 DEF IndexFresh
\* The others will drop what they would drop before.
<1>7. ASSUME NEW h, Local(c, h), UNCHANGED <<servers, indexed>>,
             \A kind \in Kinds : \A v \in Copies(kind, p)' :
               v \in Copies(kind, p) /\ (WillDrop(f, kind, p) => WillDrop(h, kind, p))
      PROVE  CacheFresh(p)'
  <2>1. \A kind \in Kinds : \A v \in Copies(kind, p)' :
          /\ v \in Copies(kind, p)
          /\ \A d \in Requests : WillDrop(frame[d], kind, p) => WillDrop(frame'[d], kind, p)
    BY <1>5, <1>7
  <2> QED
    BY <1>7, <2>1, CacheKept, HarmStep
<1>8. CASE Commit(c)
  <2>1. Local(c, g) /\ g.op = f.op
    BY <1>1, <1>8, ChangeTurns DEF Written
  <2>2. \/ g.pc = "commit" /\ g.todo # Writes(g.op)
        \/ g.pc = "readList" /\ g.kind = "rows"
    BY <1>1, <1>8, ChangeTurns DEF Written
  <2>3. \A kind \in Kinds : WillDrop(g, kind, p)
    BY <2>2 DEF WillDrop
  <2>4. CacheFresh(p)'
    BY <2>3 DEF CacheFresh
  <2> QED
    BY <1>6, <2>1, <2>4
<1>9. CASE CommitMisses(c)
  <2>1. /\ f.pc = "commit" /\ Misses(f) /\ Local(c, Idle)
        /\ UNCHANGED <<redis, drive>> /\ UNCHANGED <<servers, indexed>>
    BY <1>1, <1>9, ChangeTurns DEF caches, stores
  <2>2. \A kind \in Kinds : ~ WillDrop(f, kind, p)
    BY <2>1, RestOfWrites DEF WillDrop
  <2> QED
    BY <1>6, <1>7, <2>1, <2>2, CopiesKept
<1>10. CASE ReadList(c)
  <2>1. /\ Moved(c, "readList", "delete") /\ g.kind = f.kind
        /\ UNCHANGED stores /\ Held \ g.keys \subseteq excused'
    BY <1>1, <1>10, ChangeTurns
  <2>2. \A kind \in Kinds : Copies(kind, p)' \subseteq Copies(kind, p)
    <3>1. \E list \in Found(drive[ListKey(f.kind)], ListKey(f.kind)) : Got(ListKey(f.kind), list)
      BY <1>1, <1>10, ChangeTurns
    <3> QED
      BY <1>3, <3>1, CopiesGot, KeyFacts
  <2>3. ASSUME NEW kind \in Kinds, NEW v \in Copies(kind, p)', WillDrop(f, kind, p)
        PROVE  WillDrop(g, kind, p)
    <3>1. v \in Copies(kind, p) /\ v # None
      BY <2>2, <2>3 DEF Copies
    <3>2. p \in Held
      BY <3>1 DEF Held, Found, Copies
    <3>3. p \in g.keys
      BY <2>1, <3>2
    <3> QED
      BY <1>3, <2>1, <2>3, <3>3 DEF WillDrop, Moved, Kinds
  <2>4. Local(c, g) /\ g.op = f.op /\ UNCHANGED <<servers, indexed>>
    BY <2>1 DEF Moved, stores
  <2> QED
    BY <1>6, <1>7, <2>2, <2>3, <2>4
<1>11. ASSUME NEW q \in Pages, DeleteKey(c, q) PROVE CacheFresh(p)' /\ IndexFresh(p)'
  <2>1. /\ Moved(c, "delete", "delete") /\ g.kind = f.kind
        /\ g.keys = f.keys \ {q} /\ Delete(Key(f.kind, q)) /\ UNCHANGED stores
    BY <1>1, <1>11, ChangeTurns
  <2>2. \A kind \in Kinds :
          Copies(kind, p)' = IF Key(f.kind, q) = Key(kind, p) THEN {} ELSE Copies(kind, p)
    BY <1>3, <2>1, CopiesDelete, KeyFacts
  <2>3. ASSUME NEW kind \in Kinds, NEW v \in Copies(kind, p)'
        PROVE  v \in Copies(kind, p) /\ (WillDrop(f, kind, p) => WillDrop(g, kind, p))
    <3>1. v \in Copies(kind, p) /\ Key(f.kind, q) # Key(kind, p)
      BY <2>2, <2>3
    <3>2. f.kind = kind => p # q
      BY <3>1
    <3> QED
      BY <2>1, <3>1, <3>2 DEF WillDrop, Moved
  <2>4. Local(c, g) /\ g.op = f.op /\ UNCHANGED <<servers, indexed>>
    BY <2>1 DEF Moved, stores
  <2> QED
    BY <1>6, <1>7, <2>3, <2>4
<1>12. CASE ListDone(c)
  <2>1. /\ f.pc = "delete" /\ f.keys = {}
        /\ \/ f.kind = "rows" /\ Moved(c, "delete", "readList") /\ g.kind = "total"
           \/ f.kind # "rows" /\ Local(c, Idle)
        /\ UNCHANGED <<redis, drive>> /\ UNCHANGED <<servers, indexed>>
    BY <1>1, <1>12, ChangeTurns DEF stores, caches
  <2>2. CASE f.kind = "rows" /\ Moved(c, "delete", "readList") /\ g.kind = "total"
    <3>1. \A kind \in Kinds : WillDrop(f, kind, p) => WillDrop(g, kind, p)
      BY <2>1, <2>2 DEF WillDrop, Moved
    <3> QED
      BY <1>6, <1>7, <2>1, <2>2, <3>1, CopiesKept DEF Moved
  <2>3. CASE f.kind # "rows" /\ Local(c, Idle)
    <3>1. \A kind \in Kinds : ~ WillDrop(f, kind, p)
      BY <2>1, <2>3 DEF WillDrop
    <3> QED
      BY <1>6, <1>7, <2>1, <2>3, <3>1, CopiesKept
  <2> QED
    BY <2>1, <2>2, <2>3
<1>13. ~ CommitPanics(c) /\ ~ CommitFails(c)
  BY <1>1, ChangeTurns
<1> QED
  BY <1>8, <1>9, <1>10, <1>11, <1>12, <1>13 DEF ChangeStep

LEMMA FreshInvStep == Inv /\ WholeInv /\ FreshInv /\ [Next]_vars => FreshInv'
<1> SUFFICES ASSUME Inv, WholeInv, FreshInv, [Next]_vars, Unspoilt', NEW p \in Pages \ excused'
             PROVE  CacheFresh(p)' /\ IndexFresh(p)'
  BY DEF FreshInv
<1>1. p \in Pages \ excused /\ Unspoilt
  BY HarmStep DEF Unspoilt
<1>2. CacheFresh(p) /\ IndexFresh(p)
  BY <1>1 DEF FreshInv
<1>3. ASSUME NEW c \in Requests, Start(c) \/ IndexStep(c) \/ ChangeStep(c)
      PROVE  CacheFresh(p)' /\ IndexFresh(p)'
  BY <1>2, <1>3, StartFresh, IndexStepFresh, ChangeStepFresh
<1>4. CASE Expire \/ Refresh \/ UNCHANGED vars
  <2>1. UNCHANGED <<servers, indexed, frame, drive>>
    BY <1>4 DEF Expire, Refresh, vars, stores, caches
  <2>2. \A kind \in Kinds : Copies(kind, p)' \subseteq Copies(kind, p)
    <3>1. CASE Expire
      <4>1. PICK key \in Keys : redis' = [redis EXCEPT ![key] = None]
        BY <3>1 DEF Expire
      <4>2. \A kind \in Kinds : Key(kind, p) \in Keys
        BY KeyFacts
      <4>3. \A kind \in Kinds : redis'[Key(kind, p)] \in {None, redis[Key(kind, p)]}
        BY <4>1, <4>2 DEF Inv, CachesOK
      <4> QED
        BY <2>1, <4>3 DEF Copies, Key
    <3>2. CASE Refresh \/ UNCHANGED vars
      <4>1. UNCHANGED <<redis, drive>>
        BY <3>2 DEF Refresh, vars, caches
      <4> QED
        BY <4>1, CopiesKept
    <3> QED
      BY <1>4, <3>1, <3>2
  <2>3. CacheFresh(p)'
    BY <1>2, <2>1, <2>2, CacheKept, HarmStep
  <2>4. Running(Changes)' = Running(Changes)
    BY <2>1 DEF Running
  <2>5. IndexFresh(p)'
    BY <1>2, <2>1, <2>4, IndexKept, HarmStep
  <2> QED
    BY <2>3, <2>5
<1>5. ~ Crash
  BY DEF Unspoilt, Crash, Mishap, Happens
<1> QED
  BY <1>3, <1>4, <1>5 DEF Next

LEMMA FreshInit == Init => FreshInv
<1> SUFFICES ASSUME Init, NEW p \in Pages PROVE CacheFresh(p) /\ IndexFresh(p)
  BY DEF FreshInv
<1>1. \A kind \in Kinds : Copies(kind, p) = {}
  BY KeyFacts DEF Init, Copies
<1>2. \A c \in Requests : frame[c].op = "none"
  BY DEF Init, Idle
<1> QED
  BY <1>1, <1>2 DEF CacheFresh, IndexFresh

\* OutdatedPagesExcused, of Index against RemoveData: for any number of requests, pages and
\* changes, whatever overlaps or comes in a hurry and whenever entries expire.
THEOREM OutdatedPagesExcusedHolds == Spec => []OutdatedPagesExcused
<1>1. Inv /\ FreshInv => OutdatedPagesExcused
  <2> SUFFICES ASSUME Inv, FreshInv, Unspoilt, ~ Running(Changes), NEW p \in Pages \ excused
               PROVE  /\ \A rows \in Found(drive[Key("rows", p)], Key("rows", p)) \ {None} :
                           ToSet(rows) = ToSet(CurrentRows(p))
                      /\ \A total \in Found(drive[Key("total", p)], Key("total", p)) \ {None} :
                           total = CurrentTotal(p)
    BY DEF OutdatedPagesExcused, Unspoilt
  <2>1. \A kind \in Kinds : \A v \in Copies(kind, p) : Good(kind, p, v)
    BY CopiesGood DEF FreshInv
  <2>2. \A v \in Copies("rows", p) : ToSet(v) = ToSet(CurrentRows(p))
    BY <2>1, KeyFacts, CurrentFact DEF Good, GoodRows
  <2>3. \A v \in Copies("total", p) : v = CurrentTotal(p)
    BY <2>1, KeyFacts DEF Good
  <2>4. /\ Found(drive[Key("rows", p)], Key("rows", p)) \ {None} = Copies("rows", p)
        /\ Found(drive[Key("total", p)], Key("total", p)) \ {None} = Copies("total", p)
    BY FoundFact, KeyFacts
  <2> QED
    BY <2>2, <2>3, <2>4
<1> QED
  BY <1>1, InitOK, InvStep, ListedInit, ListedInvStep, WholeInit, WholeInvStep, FreshInit,
     FreshInvStep, PTL DEF Spec

\* AnswersCurrent, of Index behind its cache against RemoveData: for any number of requests,
\* pages, servers and changes, as long as nothing has happened that a cached page may not
\* survive unharmed.
THEOREM AnswersCurrentHolds == Spec => []AnswersCurrent
<1>1. Init => CleanInv
  BY DEF Init, CleanInv
<1>2. Inv /\ CleanInv /\ FreshInv => AnswersCurrent
  <2> SUFFICES ASSUME Inv, CleanInv, FreshInv, mishaps = {}, NEW c \in Requests, At(c, "reply")
               PROVE  /\ frame[c].rows = CurrentRows(frame[c].page)
                      /\ frame[c].total = CurrentTotal(frame[c].page)
    BY DEF AnswersCurrent
  <2> DEFINE f == frame[c] p == f.page
  <2>1. f.pc = "reply" /\ f.op = "Index" /\ p \in Pages \ excused
    BY DEF At, Inv, FramesOK, FrameOK, IndexLabels, CleanInv
  <2>2. Making(f, p)
    BY <2>1 DEF FreshInv, Unspoilt, IndexFresh
  <2> QED
    BY <2>1, <2>2 DEF Making, MadeLabels, GoodRows
<1> QED
  BY <1>1, <1>2, InitOK, InvStep, ListedInit, ListedInvStep, WholeInit, WholeInvStep, CleanInvStep,
     FreshInit, FreshInvStep, PTL DEF Spec
=============================================================================
