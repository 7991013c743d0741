-------------------------- MODULE SearchCacheProofs --------------------------
(***************************************************************************)
(* Proofs about SearchCache, for any patterns, fields, pages and servers   *)
(* and any of the mishaps: type correctness, that the rows of an answer    *)
(* match its pattern, that the answer is of one field, and that its        *)
(* statuses are its servers' own.  Beyond the types they need              *)
(*                                                                         *)
(*   RowsInv    what is cached for a pattern matches it                    *)
(*   ListedInv  as long as nothing fails, a page in Redis is in a key list *)
(*              in Redis, and entered Redis before it                      *)
(*   WholeInv   as long as nothing fails, rows in Redis are of one field   *)
(*              and as of now, and so is the total, in Redis with them     *)
(*   StatusInv  as long as nothing but expiry happens, the statuses are    *)
(*              current                                                    *)
(***************************************************************************)
EXTENDS SearchCache, FiniteSetTheorems, SequenceTheorems, TLAPS

-----------------------------------------------------------------------------
(* Sequences and sets.                                                     *)

\* The last of a nonempty finite set of numbers, and the smaller of two.
LEMMA MinOfTwo ==
  ASSUME NEW a \in Int, NEW b \in Int
  PROVE  Min({a, b}) = IF a <= b THEN a ELSE b
<1> DEFINE m == IF a <= b THEN a ELSE b
<1>1. m \in {a, b} /\ \A y \in {a, b} : m <= y
  OBVIOUS
<1>2. \A x \in {a, b} : (\A y \in {a, b} : x <= y) => x = m
  OBVIOUS
<1> QED
  BY <1>1, <1>2 DEF Min

\* The greatest is at the end of the range.
LEMMA MaxAtEnd ==
  ASSUME NEW n \in Int, NEW S \in SUBSET Int, n \in S, \A y \in S : y <= n
  PROVE  Max(S) = n
<1>1. \A y \in S : n >= y
  OBVIOUS
<1>2. \A x \in S : (\A y \in S : x >= y) => x = n
  OBVIOUS
<1> QED
  BY <1>1, <1>2 DEF Max

\* The number of elements that are as great ranks the elements of a finite set of numbers
\* from 1 on: it is one-to-one, so that every rank is some element's.
LEMMA Ranks ==
  ASSUME NEW S \in SUBSET Nat, IsFiniteSet(S)
  PROVE  /\ Cardinality(S) \in Nat
         /\ \A i \in 1..Cardinality(S) : \E s \in S : Cardinality({t \in S : t >= s}) = i
<1> DEFINE Above(s) == {t \in S : t >= s}
           rank == [s \in S |-> Cardinality(Above(s))]
<1>1. \A s \in S : IsFiniteSet(Above(s)) /\ Cardinality(Above(s)) <= Cardinality(S)
  BY FS_Subset
<1>2. \A s \in S : Cardinality(Above(s)) \in Nat /\ Cardinality(Above(s)) # 0
  <2> TAKE s \in S
  <2>1. s \in Above(s)
    OBVIOUS
  <2> QED
    BY <1>1, <2>1, FS_CardinalityType, FS_EmptySet
<1>3. Cardinality(S) \in Nat
  BY FS_CardinalityType
<1>4. rank \in [S -> 1..Cardinality(S)]
  BY <1>1, <1>2, <1>3
<1>5. ASSUME NEW s \in S, NEW t \in S, s < t
      PROVE  rank[s] # rank[t]
  <2>1. s \in Nat /\ t \in Nat /\ \A u \in S : u \in Nat /\ (u >= t => u >= s)
    BY <1>5
  <2>2. s \in Above(s) /\ s \notin Above(t)
    BY <1>5, <2>1
  <2>3. Above(t) \in SUBSET Above(s) /\ Above(t) # Above(s)
    BY <2>1, <2>2
  <2>4. IsFiniteSet(Above(s))
    BY <1>1
  <2> HIDE DEF Above
  <2>5. Cardinality(Above(s)) # Cardinality(Above(t))
    BY <2>3, <2>4, FS_Subset
  <2> QED
    BY <2>5
<1>6. \A s, t \in S : rank[s] = rank[t] => s = t
  BY <1>5
<1> HIDE DEF rank
<1>7. rank \in Injection(S, 1..Cardinality(S))
  BY <1>4, <1>6 DEF Injection, IsInjective
<1>8. IsFiniteSet(1..Cardinality(S)) /\ Cardinality(1..Cardinality(S)) = Cardinality(S)
  BY <1>3, FS_Interval
<1>9. rank \in Surjection(S, 1..Cardinality(S))
  BY <1>7, <1>8, FS_Injection
<1>10. \A i \in 1..Cardinality(S) : \E s \in S : rank[s] = i
  BY <1>9 DEF Surjection
<1>11. \A i \in 1..Cardinality(S) : \E s \in S : Cardinality(Above(s)) = i
  BY <1>10 DEF rank
<1> QED
  BY <1>3, <1>11

\* A set of servers in order is a sequence of its elements.
LEMMA NewestFirstIsSeq ==
  ASSUME NEW S \in SUBSET Servers
  PROVE  NewestFirst(S) \in Seq(S)
<1>1. S \in SUBSET Nat /\ IsFiniteSet(S)
  BY ConstantsOK, FS_CardinalityType, FS_Subset DEF ConstantsOK
<1>2. /\ Cardinality(S) \in Nat
      /\ \A k \in 1..Cardinality(S) : \E s \in S : Cardinality({t \in S : t >= s}) = k
  BY <1>1, Ranks
<1>3. \A k \in 1..Cardinality(S) :
        (CHOOSE s \in S : Cardinality({t \in S : t >= s}) = k) \in S
  BY <1>2
<1>4. NewestFirst(S) \in [1..Cardinality(S) -> S]
  BY <1>3 DEF NewestFirst
<1> QED
  BY <1>2, <1>4

-----------------------------------------------------------------------------
(* The constants, the keys and the values.                                 *)

LEMMA Constants ==
  /\ Pages \subseteq Nat /\ \A page \in Pages : page >= 1
  /\ Limit \in Nat /\ Limit >= 1 /\ FirstBatch \in Nat /\ FirstBatch >= 1
  /\ MaxVersion \in Nat /\ MaxVersion >= 1
  /\ Servers \subseteq Nat /\ 0 \notin Servers
  /\ Records \subseteq [Fields -> SUBSET Patterns]
  /\ Mishaps \subseteq PossibleMishaps
<1>1. Cardinality(Servers) \in Nat
  BY ConstantsOK, FS_CardinalityType DEF ConstantsOK
<1> QED
  BY <1>1, ConstantsOK DEF ConstantsOK

LEMMA AppendOne ==
  /\ \A p \in Patterns : Append(p, Total) # p
  /\ \A p, q \in Patterns : Append(p, Total) = Append(q, Total) => p = q
<1> DEFINE Words == {Total} \cup (UNION {{p[i] : i \in DOMAIN p} : p \in Patterns})
<1>1. Total \in Words
  OBVIOUS
<1>2. \A p \in Patterns : p \in Seq(Words)
  <2> TAKE p \in Patterns
  <2>1. p \in Seq({p[i] : i \in DOMAIN p})
    BY ConstantsOK DEF ConstantsOK
  <2>2. {p[i] : i \in DOMAIN p} \subseteq Words
    OBVIOUS
  <2> HIDE DEF Words
  <2> QED
    BY <2>1, <2>2, SeqMonotonic
<1> HIDE DEF Words
<1>3. \A p \in Patterns :
        /\ Len(Append(p, Total)) = Len(p) + 1 /\ Len(p) \in Nat
        /\ \A i \in 1..Len(p) : Append(p, Total)[i] = p[i]
  BY <1>1, <1>2
<1>4. ASSUME NEW p \in Patterns, NEW q \in Patterns, Append(p, Total) = Append(q, Total)
      PROVE  p = q
  <2>1. Len(p) = Len(q)
    BY <1>3, <1>4
  <2>2. \A i \in 1..Len(p) : p[i] = q[i]
    BY <1>3, <1>4, <2>1
  <2> QED
    BY <1>2, <2>1, <2>2, SeqEqual
<1> QED
  BY <1>3, <1>4

\* Which keys are the same.
LEMMA KeyFacts ==
  /\ \A p \in Patterns, page \in Pages :
       /\ RowsKey(p, page) \in PageKeys /\ TotalKey(p, page) \in PageKeys
       /\ RowsKey(p, page) # TotalKey(p, page)
       /\ \A q \in Patterns, other \in Pages :
            /\ RowsKey(p, page) = RowsKey(q, other) => p = q /\ page = other
            /\ TotalKey(p, page) = TotalKey(q, other) => p = q /\ page = other
            /\ RowsKey(p, page) = TotalKey(q, other) => p = Append(q, Total)
  /\ \A kind \in Kinds : KeyList(kind) \in Keys /\ KeyList(kind) \notin PageKeys
  /\ KeyList("rows") # KeyList("total")
  /\ PageKeys \subseteq Keys
  /\ \A key \in Keys : key \in PageKeys \/ \E kind \in Kinds : key = KeyList(kind)
  /\ "rows" \in Kinds /\ "total" \in Kinds
<1>1. "rows" \in Kinds /\ "total" \in Kinds
  BY DEF Kinds
<1>2. \A p \in Patterns, page \in Pages :
        RowsKey(p, page) \in PageKeys /\ TotalKey(p, page) \in PageKeys
  BY DEF PageKeys, Kinds, Key
<1>3. \A p, page, q, other :
        /\ RowsKey(p, page) = RowsKey(q, other) => p = q /\ page = other
        /\ TotalKey(p, page) = TotalKey(q, other) =>
             Append(p, Total) = Append(q, Total) /\ page = other
        /\ RowsKey(p, page) = TotalKey(q, other) => p = Append(q, Total) /\ page = other
  BY DEF RowsKey, TotalKey
<1>4. \A kind, p, page : /\ KeyList(kind) # RowsKey(p, page)
                         /\ KeyList(kind) # TotalKey(p, page)
  BY DEF KeyList, RowsKey, TotalKey
<1>5. \A key \in PageKeys :
        \E p \in Patterns, page \in Pages : key \in {RowsKey(p, page), TotalKey(p, page)}
  BY DEF PageKeys, Key
<1>6. KeyList("rows") # KeyList("total")
  BY DEF KeyList
<1>7. /\ \A kind \in Kinds : KeyList(kind) \in Keys
      /\ PageKeys \subseteq Keys
      /\ \A key \in Keys : key \in PageKeys \/ \E kind \in Kinds : key = KeyList(kind)
  BY DEF Keys
<1>8. \A kind \in Kinds : KeyList(kind) \notin PageKeys
  BY <1>4, <1>5
<1> QED
  BY <1>1, <1>2, <1>3, <1>6, <1>7, <1>8, AppendOne

LEMMA ValueFacts ==
  /\ \A rows : /\ Rows(rows)[1] = "rows" /\ Rows(rows)[2] = rows
               /\ rows \in Seq(Row) => Rows(rows) \in PageValues
  /\ \A total : /\ Number(total)[1] = "total" /\ Number(total)[2] = total
                /\ total \in Nat => Number(total) \in PageValues
  /\ \A value \in PageValues :
       /\ value[1] = "rows" \/ value[1] = "total"
       /\ value[1] = "rows" => value[2] \in Seq(Row)
       /\ value[1] = "total" => value[2] \in Nat
  /\ None \notin PageValues /\ None \notin Nat /\ None \notin Seq(Row) /\ None \notin Records
  BY NoneIsNoValue DEF Rows, Number, PageValues

-----------------------------------------------------------------------------
(* What a search finds.                                                    *)

LEMMA Greatest ==
  ASSUME NEW S \in SUBSET Nat, IsFiniteSet(S), S # {}
  PROVE  Max(S) \in S
<1>1. Cardinality(S) \in Nat /\ Cardinality(S) # 0
  BY FS_CardinalityType, FS_EmptySet
<1>2. PICK s \in S : Cardinality({t \in S : t >= s}) = 1
  BY <1>1, Ranks
<1>3. IsFiniteSet({t \in S : t >= s})
  BY FS_Subset
<1>4. PICK x : {t \in S : t >= s} = {x}
  BY <1>2, <1>3, FS_Singleton
<1>5. \A t \in S : t >= s => t = s
  BY <1>4
<1>6. \A t \in S : s >= t
  BY <1>5
<1> QED
  BY <1>6 DEF Max

\* The servers of a page match the pattern in the field, and only an empty page has no
\* total.
LEMMA PageFacts ==
  ASSUME TypeOK, NEW pattern \in Patterns, NEW field \in Fields, NEW page \in Pages
  PROVE  /\ OnPage(pattern, field, page) \in Seq(Servers)
         /\ \A i \in DOMAIN OnPage(pattern, field, page) :
              /\ OnPage(pattern, field, page)[i] \in Servers
              /\ record[OnPage(pattern, field, page)[i]] \in Records
              /\ pattern \in record[OnPage(pattern, field, page)[i]][field]
         /\ TotalOf(pattern, field, page) \in Nat
         /\ TotalOf(pattern, field, page) = 0 => OnPage(pattern, field, page) = << >>
<1> DEFINE M == {s \in Servers : record[s] # None /\ pattern \in record[s][field]}
           all == Matching(pattern, field)
           from == (page - 1) * Limit + 1
           to == Min({page * Limit, Len(all)})
           ids == OnPage(pattern, field, page)
<1>1. \A s \in M : s \in Servers /\ record[s] \in Records /\ pattern \in record[s][field]
  BY DEF TypeOK
<1>2. all \in Seq(M)
  BY NewestFirstIsSeq DEF Matching
<1>3. M \subseteq Servers
  OBVIOUS
<1> HIDE DEF M, all
<1>4. /\ Len(all) \in Nat /\ \A i \in 1..Len(all) : all[i] \in M
      /\ page * Limit \in Nat /\ (page - 1) * Limit \in Nat
  BY <1>2, Constants
<1>5. /\ to = (IF page * Limit <= Len(all) THEN page * Limit ELSE Len(all))
      /\ from \in Int /\ from >= 1 /\ to \in Int /\ to <= Len(all)
  BY <1>4, MinOfTwo
<1>6. ids = SubSeq(all, from, to)
  BY DEF OnPage, all
<1> HIDE DEF ids, from, to
<1>7. \A i \in from..to : all[i] \in M
  BY <1>4, <1>5
<1>8. ids \in Seq(M) /\ Len(ids) = (IF from <= to THEN to - from + 1 ELSE 0)
  BY <1>5, <1>6, <1>7, SubSeqProperties
<1>9. ids \in Seq(Servers) /\ \A i \in DOMAIN ids : ids[i] \in M
  BY <1>3, <1>8
<1>10. Min({Len(all), FirstBatch}) = IF Len(all) <= FirstBatch THEN Len(all) ELSE FirstBatch
  BY <1>4, Constants, MinOfTwo
<1>11. ids # << >> => Len(all) # 0
  <2>1. ids # << >> => Len(ids) # 0
    BY <1>8, EmptySeq
  <2> QED
    BY <2>1, <1>4, <1>5, <1>8
<1>12. TotalOf(pattern, field, page) = IF ids = << >> THEN 0 ELSE Min({Len(all), FirstBatch})
  BY DEF TotalOf, ids, all
<1>13. /\ TotalOf(pattern, field, page) \in Nat
       /\ TotalOf(pattern, field, page) = 0 => ids = << >>
  BY <1>4, <1>10, <1>11, <1>12, Constants
<1> QED
  BY <1>1, <1>9, <1>13 DEF ids

\* A row's status is some server's, and its own if that was found.
LEMMA ShownFacts ==
  ASSUME TypeOK, NEW ids \in Seq(Servers), NEW silent, NEW i \in DOMAIN ids
  PROVE  /\ Shown(ids, silent, i) \in Versions
         /\ visible[ids[i]] # 0 /\ ids[i] \notin silent =>
              Shown(ids, silent, i) = visible[ids[i]]
<1> DEFINE known == {j \in 1..i : visible[ids[j]] # 0 /\ ids[j] \notin silent}
<1>1. i \in 1..Len(ids) /\ Len(ids) \in Nat
  OBVIOUS
<1>2. /\ known \in SUBSET Nat /\ known \subseteq 1..i
      /\ visible[ids[i]] # 0 /\ ids[i] \notin silent => i \in known
  BY <1>1
<1>3. Shown(ids, silent, i) = IF known = {} THEN 0 ELSE visible[ids[Max(known)]]
  BY DEF Shown
<1> HIDE DEF known
<1>4. IsFiniteSet(known)
  <2>1. IsFiniteSet(1..i)
    BY <1>1, FS_Interval
  <2> QED
    BY <1>2, <2>1, FS_Subset
<1>5. known # {} => Max(known) \in 1..i
  BY <1>2, <1>4, Greatest
<1>6. i \in known => Max(known) = i
  BY <1>1, <1>2, MaxAtEnd
<1>7. visible \in [Servers -> Versions] /\ 0 \in Versions
  BY Constants DEF TypeOK, Versions
<1>8. known # {} => visible[ids[Max(known)]] \in Versions
  BY <1>1, <1>5, <1>7
<1> QED
  BY <1>2, <1>3, <1>6, <1>7, <1>8

LEMMA FoundFacts ==
  ASSUME TypeOK, NEW ids \in Seq(Servers), NEW silent,
         \A i \in DOMAIN ids : record[ids[i]] \in Records
  PROVE  /\ Found(ids, silent) \in Seq(Row)
         /\ DOMAIN Found(ids, silent) = DOMAIN ids
         /\ \A i \in DOMAIN ids : /\ Found(ids, silent)[i].id = ids[i]
                                 /\ Found(ids, silent)[i].record = record[ids[i]]
                                 /\ Found(ids, silent)[i].status = Shown(ids, silent, i)
<1>1. \A i \in DOMAIN ids : Shown(ids, silent, i) \in Versions
  BY ShownFacts
<1>2. \A i \in DOMAIN ids :
        [id |-> ids[i], record |-> record[ids[i]], status |-> Shown(ids, silent, i)] \in Row
  BY <1>1 DEF Row
<1>3. DOMAIN ids = 1..Len(ids) /\ Len(ids) \in Nat
  OBVIOUS
<1>4. Found(ids, silent) \in [1..Len(ids) -> Row]
  BY <1>2, <1>3 DEF Found
<1>5. Found(ids, silent) \in Seq(Row)
  BY <1>3, <1>4
<1> QED
  BY <1>5 DEF Found

-----------------------------------------------------------------------------
(* What a search reads from and writes to the cache.                       *)

HoldsRows(key) == redis[key] # None /\ redis[key][1] = "rows"

LEMMA CachedFacts ==
  ASSUME TypeOK, NEW pattern \in Patterns, NEW page \in Pages, NEW fault
  PROVE  /\ CachedRows(pattern, page, fault) \in Seq(Row) \cup {None}
         /\ CachedTotal(pattern, page, fault) \in Nat \cup {None}
         /\ CachedRows(pattern, page, fault) # None =>
              /\ HoldsRows(RowsKey(pattern, page))
              /\ CachedRows(pattern, page, fault) = redis[RowsKey(pattern, page)][2]
<1>1. /\ redis[RowsKey(pattern, page)] \in PageValues \cup {None}
      /\ redis[TotalKey(pattern, page)] \in PageValues \cup {None}
  BY KeyFacts DEF TypeOK
<1>2. \A value \in PageValues \cup {None} :
        /\ RowsIn(value) \in Seq(Row) \cup {None}
        /\ RowsIn(value) # None => value # None /\ value[1] = "rows" /\ RowsIn(value) = value[2]
  BY ValueFacts DEF RowsIn
<1>3. \A value \in PageValues \cup {None} : TotalIn(value) \in Nat \cup {None}
  <2> TAKE value \in PageValues \cup {None}
  <2>1. CASE value = None
    BY <2>1 DEF TotalIn
  <2>2. CASE value # None /\ value[1] = "total"
    BY <2>2, ValueFacts DEF TotalIn
  <2>3. CASE value # None /\ value[1] # "total"
    BY <2>3 DEF TotalIn
  <2> QED
    BY <2>1, <2>2, <2>3
<1> QED
  BY <1>1, <1>2, <1>3 DEF CachedRows, CachedTotal, HoldsRows

\* The rows at the end of a search: each was in the cache or in the stores.
LEMMA MadeFacts ==
  ASSUME TypeOK, NEW pattern \in Patterns, NEW field \in Fields, NEW page \in Pages,
         NEW fault
  PROVE  LET cached == CachedRows(pattern, page, fault)
             found == Found(OnPage(pattern, field, page), fault.silent)
             made == Made(pattern, field, page, fault)
         IN  /\ made \in Seq(Row)
             /\ cached = None => made = found
             /\ \A i \in DOMAIN made :
                  \/ \E j \in DOMAIN found : made[i] = found[j]
                  \/ cached # None /\ \E j \in DOMAIN cached : made[i] = cached[j]
<1> DEFINE cached == CachedRows(pattern, page, fault)
           found == Found(OnPage(pattern, field, page), fault.silent)
           made == Made(pattern, field, page, fault)
           before == IF cached = None THEN << >> ELSE cached
<1>1. found \in Seq(Row)
  BY PageFacts, FoundFacts
<1>2. cached \in Seq(Row) \cup {None}
  BY CachedFacts
<1>3. made = before \o found
  BY DEF Made
<1>4. before \in Seq(Row)
  BY <1>2
<1> HIDE DEF cached, found, made
<1>5. made \in Seq(Row)
  BY <1>1, <1>3, <1>4
<1>6. cached = None => made = found
  BY <1>1, <1>3, ConcatEmptySeq
<1>7. ASSUME NEW i \in DOMAIN made
      PROVE  \/ \E j \in DOMAIN found : made[i] = found[j]
             \/ cached # None /\ \E j \in DOMAIN cached : made[i] = cached[j]
  <2> HIDE DEF before
  <2>1. /\ Len(made) = Len(before) + Len(found) /\ i \in 1..(Len(before) + Len(found))
        /\ Len(before) \in Nat /\ Len(found) \in Nat
        /\ DOMAIN before = 1..Len(before) /\ DOMAIN found = 1..Len(found)
        /\ made[i] = IF i <= Len(before) THEN before[i] ELSE found[i - Len(before)]
    BY <1>1, <1>3, <1>4, <1>5, ConcatProperties
  <2>2. CASE i <= Len(before)
    <3>1. i \in DOMAIN before /\ made[i] = before[i]
      BY <2>1, <2>2
    <3>2. cached # None /\ before = cached
      <4>1. DOMAIN before # {}
        BY <3>1
      <4> QED
        BY <4>1 DEF before
    <3> QED
      BY <3>1, <3>2
  <2>3. CASE ~ (i <= Len(before))
    <3>1. i - Len(before) \in DOMAIN found /\ made[i] = found[i - Len(before)]
      BY <2>1, <2>3
    <3> QED
      BY <3>1
  <2> QED
    BY <2>2, <2>3
<1> QED
  BY <1>5, <1>6, <1>7 DEF cached, found, made

LEMMA CallKeyFacts ==
  ASSUME NEW pattern \in Patterns, NEW page \in Pages
  PROVE  /\ CallKeys(pattern, page)[1] = RowsKey(pattern, page)
         /\ CallKeys(pattern, page)[2] = TotalKey(pattern, page)
         /\ CallKeys(pattern, page)[3] = KeyList("rows")
         /\ CallKeys(pattern, page)[4] = KeyList("total")
         /\ \A i \in 1..4 : CallKeys(pattern, page)[i] \in Keys
         /\ \A i, j \in 1..4 : CallKeys(pattern, page)[i] = CallKeys(pattern, page)[j] => i = j
<1>1. /\ CallKeys(pattern, page)[1] = RowsKey(pattern, page)
      /\ CallKeys(pattern, page)[2] = TotalKey(pattern, page)
      /\ CallKeys(pattern, page)[3] = KeyList("rows")
      /\ CallKeys(pattern, page)[4] = KeyList("total")
  BY DEF CallKeys
<1>2. 1..4 = {1, 2, 3, 4}
  OBVIOUS
<1>3. /\ RowsKey(pattern, page) \in PageKeys /\ TotalKey(pattern, page) \in PageKeys
      /\ RowsKey(pattern, page) # TotalKey(pattern, page)
      /\ KeyList("rows") \in Keys \ PageKeys /\ KeyList("total") \in Keys \ PageKeys
      /\ KeyList("rows") # KeyList("total") /\ PageKeys \subseteq Keys
  BY KeyFacts
<1> QED
  BY <1>1, <1>2, <1>3

LEMMA CallValueFacts ==
  ASSUME TypeOK, NEW pattern \in Patterns, NEW field \in Fields, NEW page \in Pages,
         NEW fault
  PROVE  LET values == CallValues(pattern, field, page, fault)
         IN  /\ values[1] = Rows(Made(pattern, field, page, fault))
             /\ values[2] = Number(TotalOf(pattern, field, page))
             /\ values[1] \in PageValues /\ values[2] \in PageValues
             /\ values[3] \in SUBSET PageKeys /\ values[4] \in SUBSET PageKeys
             /\ RowsKey(pattern, page) \in values[3] /\ TotalKey(pattern, page) \in values[4]
             /\ fault.unlisted = {} =>
                  Named("rows") \subseteq values[3] /\ Named("total") \subseteq values[4]
<1> DEFINE values == CallValues(pattern, field, page, fault)
           listed(kind) == IF kind \in fault.unlisted THEN {} ELSE Named(kind)
<1>1. /\ values[1] = Rows(Made(pattern, field, page, fault))
      /\ values[2] = Number(TotalOf(pattern, field, page))
      /\ values[3] = listed("rows") \cup {RowsKey(pattern, page)}
      /\ values[4] = listed("total") \cup {TotalKey(pattern, page)}
  BY DEF CallValues
<1>2. values[1] \in PageValues /\ values[2] \in PageValues
  BY <1>1, MadeFacts, PageFacts, ValueFacts
<1>3. \A kind \in Kinds : Named(kind) \in SUBSET PageKeys
  BY DEF TypeOK, Named
<1>4. values[3] \in SUBSET PageKeys /\ values[4] \in SUBSET PageKeys
  BY <1>1, <1>3, KeyFacts
<1> QED
  BY <1>1, <1>2, <1>4

\* What the calls that succeed do: each key has the value of the call that Set it, or the
\* one it had, and is younger than what was there or was Set by an earlier call.
After(pattern, page, values, done) ==
  LET keys == CallKeys(pattern, page)
      set == {keys[i] : i \in done}
  IN  /\ \A i \in done : redis'[keys[i]] = values[i]
      /\ \A key \in Keys \ set : redis'[key] = redis[key]
      /\ older' \in [Keys -> SUBSET Keys]
      /\ "expiry" \in Mishaps =>
           /\ \A key \in Keys, k \in Keys \ set :
                redis[k] # None /\ (key \in set \/ k \in older[key]) => k \in older'[key]
           /\ \A i, j \in done : i < j => keys[i] \in older'[keys[j]]

LEMMA Performed ==
  ASSUME NEW pattern \in Patterns, NEW page \in Pages, NEW values, NEW done \in SUBSET (1..4),
         older \in [Keys -> SUBSET Keys],
         Perform(CallKeys(pattern, page), values, done)
  PROVE  After(pattern, page, values, done)
<1> DEFINE keys == CallKeys(pattern, page)
           set == {keys[i] : i \in done}
           setBy(key) == {i \in done : keys[i] = key}
           others == {key \in Keys : setBy(key) = {} /\ redis[key] # None}
<1>1. /\ \A i \in 1..4 : keys[i] \in Keys
      /\ \A i, j \in 1..4 : keys[i] = keys[j] => i = j
  BY CallKeyFacts
<1>2. /\ redis' = [key \in Keys |-> IF setBy(key) = {} THEN redis[key]
                                    ELSE values[CHOOSE i \in setBy(key) : TRUE]]
      /\ older' = IF "expiry" \notin Mishaps THEN older
                  ELSE [key \in Keys |->
                          IF setBy(key) = {} THEN older[key] \cap others
                          ELSE others \cup {keys[i] : i \in {j \in done :
                                              \A k \in setBy(key) : j < k}}]
  BY DEF Perform
<1> HIDE DEF keys
<1>3. \A i \in done : setBy(keys[i]) = {i}
  BY <1>1
<1>4. \A key \in Keys : setBy(key) = {} <=> key \notin set
  OBVIOUS
<1> HIDE DEF setBy
<1>5. \A i \in done : redis'[keys[i]] = values[i]
  <2> TAKE i \in done
  <2>1. setBy(keys[i]) # {} /\ (CHOOSE j \in setBy(keys[i]) : TRUE) = i /\ keys[i] \in Keys
    BY <1>1, <1>3
  <2> QED
    BY <1>2, <2>1
<1>6. \A key \in Keys \ set : redis'[key] = redis[key]
  BY <1>2, <1>4
<1>7. older' \in [Keys -> SUBSET Keys]
  <2>1. CASE "expiry" \notin Mishaps
    BY <1>2, <2>1
  <2>2. CASE "expiry" \in Mishaps
    <3>1. ASSUME NEW key \in Keys
          PROVE  {keys[i] : i \in {j \in done : \A k \in setBy(key) : j < k}} \subseteq Keys
      BY <1>1
    <3>2. others \subseteq Keys
      OBVIOUS
    <3> QED
      BY <1>2, <2>2, <3>1, <3>2
  <2> QED
    BY <2>1, <2>2
<1>8. ASSUME "expiry" \in Mishaps, NEW key \in Keys, NEW k \in Keys \ set,
             redis[k] # None, key \in set \/ k \in older[key]
      PROVE  k \in older'[key]
  <2>1. k \in others
    BY <1>4, <1>8
  <2> HIDE DEF others
  <2>2. CASE setBy(key) = {}
    BY <1>2, <1>4, <1>8, <2>1, <2>2
  <2>3. CASE setBy(key) # {}
    BY <1>2, <1>8, <2>1, <2>3
  <2> QED
    BY <2>2, <2>3
<1>9. ASSUME "expiry" \in Mishaps, NEW i \in done, NEW j \in done, i < j
      PROVE  keys[i] \in older'[keys[j]]
  <2>1. /\ keys[j] \in Keys /\ setBy(keys[j]) = {j}
        /\ i \in {m \in done : \A k \in setBy(keys[j]) : m < k}
    BY <1>1, <1>3, <1>9
  <2>2. keys[i] \in {keys[l] : l \in {m \in done : \A k \in setBy(keys[j]) : m < k}}
    BY <2>1
  <2> QED
    BY <1>2, <1>9, <2>1, <2>2
<1> QED
  BY <1>5, <1>6, <1>7, <1>8, <1>9 DEF keys, After

-----------------------------------------------------------------------------
(* What the steps do to the cache.                                         *)

AnswerOf(pattern, field, page, rows, total) ==
  [pattern |-> pattern, field |-> field, page |-> page,
   rows |-> IF total = 0 THEN << >> ELSE rows, total |-> total]

\* A search that misses makes the calls in done: all of them, with all it found, unless
\* something fails.
Caches(pattern, field, page, fault, done) ==
  /\ Misses(pattern, page, fault)
  /\ Perform(CallKeys(pattern, page), CallValues(pattern, field, page, fault), done)
  /\ mishaps' \subseteq Mishaps
  /\ mishaps \cup Met(pattern, field, page, fault) \subseteq mishaps'
  /\ mishaps' \cap Failures = {} =>
       done = 1..4 /\ fault.unread = {} /\ fault.unlisted = {} /\ fault.silent = {}
  /\ \/ answer' = answer /\ mishaps' \cap Failures # {}
     \/ answer' = AnswerOf(pattern, field, page, Made(pattern, field, page, fault),
                           TotalOf(pattern, field, page))
  /\ asked' = asked \cup {pattern}
  /\ UNCHANGED <<record, added, history, visible>>

\* A change drops the pages in keys: all that are in the key lists, unless something fails.
Drops(keys) ==
  /\ Delete(keys)
  /\ mishaps \subseteq mishaps' /\ mishaps' \subseteq Mishaps
  /\ mishaps' \cap Failures = {} => keys = Named("rows") \cup Named("total")
  /\ answer' = None
  /\ UNCHANGED <<visible, asked>>

LEMMA FaultFacts ==
  /\ NoFault \in Fault
  /\ \A fault \in Faults :
       /\ fault \in Fault /\ FaultMishaps(fault) \subseteq Mishaps
       /\ Calls(fault) \in SUBSET (1..4)
       /\ FaultMishaps(fault) \cap Failures = {} =>
            /\ Calls(fault) = 1..4
            /\ fault.unread = {} /\ fault.unlisted = {} /\ fault.silent = {}
<1>1. NoFault \in Fault
  BY DEF NoFault, Fault
<1>2. ASSUME NEW fault \in Faults
      PROVE  /\ fault \in Fault /\ FaultMishaps(fault) \subseteq Mishaps
             /\ Calls(fault) \in SUBSET (1..4)
             /\ FaultMishaps(fault) \cap Failures = {} =>
                  /\ Calls(fault) = 1..4
                  /\ fault.unread = {} /\ fault.unlisted = {} /\ fault.silent = {}
  <2>1. fault \in Fault /\ FaultMishaps(fault) \subseteq Mishaps
    BY DEF Faults
  <2>2. Calls(fault) \in SUBSET (1..4)
    BY DEF Calls
  <2>3. ASSUME FaultMishaps(fault) \cap Failures = {}
        PROVE  /\ Calls(fault) = 1..4
               /\ fault.unread = {} /\ fault.unlisted = {} /\ fault.silent = {}
    <3>1. "storeError" \notin FaultMishaps(fault) /\ "redisError" \notin FaultMishaps(fault)
      BY <2>3 DEF Failures
    <3>2. fault.silent = {} /\ fault.unread \cup fault.unlisted \cup fault.unset = {}
      BY <3>1 DEF FaultMishaps
    <3>3. fault.unread = {} /\ fault.unlisted = {} /\ fault.unset = {}
      BY <3>2
    <3> QED
      BY <3>2, <3>3 DEF Calls
  <2> QED
    BY <2>1, <2>2, <2>3
<1> QED
  BY <1>1, <1>2

LEMMA SearchSteps ==
  ASSUME TypeOK, NEW pattern \in Patterns, NEW field \in Fields, NEW page \in Pages,
         Search(pattern, field, page)
  PROVE  \/ SearchHits(pattern, field, page)
         \/ \E fault \in Fault, done \in SUBSET (1..4) : Caches(pattern, field, page, fault, done)
<1>1. ASSUME NEW fault \in Faults, SearchMisses(pattern, field, page, fault)
      PROVE  Caches(pattern, field, page, fault, Calls(fault))
  <2>1. /\ mishaps' \subseteq Mishaps
        /\ mishaps \cup Met(pattern, field, page, fault) \subseteq mishaps'
        /\ FaultMishaps(fault) \subseteq mishaps'
    BY <1>1 DEF SearchMisses, Meet, Met, TypeOK
  <2>2. mishaps' \cap Failures = {} =>
          /\ Calls(fault) = 1..4
          /\ fault.unread = {} /\ fault.unlisted = {} /\ fault.silent = {}
    BY <2>1, FaultFacts
  <2> QED
    BY <1>1, <2>1, <2>2 DEF SearchMisses, Caches, Answers, AnswerOf
<1>2. ASSUME NEW n \in 0..3, SearchExits(pattern, field, page, n)
      PROVE  Caches(pattern, field, page, NoFault, 1..n) /\ 1..n \in SUBSET (1..4)
  <2>1. /\ mishaps' \subseteq Mishaps
        /\ mishaps \cup Met(pattern, field, page, NoFault) \subseteq mishaps'
        /\ "exit" \in mishaps'
    BY <1>2 DEF SearchExits, Meet, TypeOK
  <2>2. mishaps' \cap Failures # {}
    BY <2>1 DEF Failures
  <2> QED
    BY <1>2, <2>1, <2>2 DEF SearchExits, Caches
<1> QED
  BY <1>1, <1>2, FaultFacts DEF Search

LEMMA NamedFacts ==
  ASSUME TypeOK
  PROVE  \A kind \in Kinds :
           /\ Named(kind) \in SUBSET PageKeys
           /\ \A key \in PageKeys : redis[KeyList(kind)] # None /\ key \in redis[KeyList(kind)] =>
                                   key \in Named(kind)
  BY DEF TypeOK, Named

LEMMA RemoveDataDrops ==
  ASSUME TypeOK, RemoveData, answer' = None, UNCHANGED <<visible, asked>>
  PROVE  \E keys \in SUBSET PageKeys : Drops(keys)
<1> DEFINE named == Named("rows") \cup Named("total")
<1>1. named \in SUBSET PageKeys
  BY NamedFacts DEF Kinds
<1>2. CASE Delete(named) /\ UNCHANGED mishaps
  <2>1. Drops(named)
    BY <1>2 DEF Drops, TypeOK
  <2> QED
    BY <1>1, <2>1
<1>3. ASSUME NEW m \in Failures, NEW some \in SUBSET named, Meet({m}), Delete(some)
      PROVE  \E keys \in SUBSET PageKeys : Drops(keys)
  <2>1. m \in mishaps' /\ mishaps \subseteq mishaps' /\ mishaps' \subseteq Mishaps
    BY <1>3 DEF Meet, TypeOK
  <2>2. mishaps' \cap Failures # {}
    BY <2>1
  <2>3. Drops(some)
    BY <1>3, <2>1, <2>2 DEF Drops
  <2> QED
    BY <1>1, <2>3
<1> QED
  BY <1>2, <1>3 DEF RemoveData

-----------------------------------------------------------------------------
(* Types.                                                                  *)

StoresOK ==
  /\ record \in [Servers -> Records \cup {None}]
  /\ added \in Servers \cup {0}
  /\ history \in [Servers -> Versions] /\ visible \in [Servers -> Versions]

CacheOK ==
  /\ \A key \in PageKeys : redis[key] \in PageValues \cup {None}
  /\ \A kind \in Kinds : redis[KeyList(kind)] \in (SUBSET PageKeys) \cup {None}
  /\ older \in [Keys -> SUBSET Keys]

LEMMA Split ==
  /\ TypeOK <=> /\ StoresOK /\ CacheOK /\ asked \subseteq Patterns
                /\ answer \in Answer \cup {None} /\ mishaps \subseteq Mishaps
  /\ TypeOK' <=> /\ StoresOK' /\ CacheOK' /\ asked' \subseteq Patterns
                 /\ answer' \in Answer \cup {None} /\ mishaps' \subseteq Mishaps
  BY DEF TypeOK, StoresOK, CacheOK

LEMMA DeleteOK ==
  ASSUME CacheOK, NEW keys, Delete(keys)
  PROVE  CacheOK'
<1>1. \A key \in Keys : redis'[key] \in {redis[key], None}
  BY DEF Delete
<1>2. older' \in [Keys -> SUBSET Keys]
  BY DEF Delete, CacheOK
<1> QED
  BY <1>1, <1>2, KeyFacts DEF CacheOK

LEMMA CachesOK ==
  ASSUME TypeOK, NEW pattern \in Patterns, NEW field \in Fields, NEW page \in Pages,
         NEW fault \in Fault, NEW done \in SUBSET (1..4),
         Caches(pattern, field, page, fault, done)
  PROVE  TypeOK'
<1> DEFINE keys == CallKeys(pattern, page)
           values == CallValues(pattern, field, page, fault)
           set == {keys[i] : i \in done}
<1>1. /\ \A i \in done : redis'[keys[i]] = values[i]
      /\ \A key \in Keys \ set : redis'[key] = redis[key]
      /\ older' \in [Keys -> SUBSET Keys]
  <2>1. After(pattern, page, values, done)
    BY Performed DEF Caches, TypeOK
  <2> HIDE DEF values
  <2> QED
    BY <2>1 DEF After
<1>2. /\ values[1] \in PageValues /\ values[2] \in PageValues
      /\ values[3] \in SUBSET PageKeys /\ values[4] \in SUBSET PageKeys
  BY CallValueFacts
<1>3. /\ keys[1] \in PageKeys /\ keys[2] \in PageKeys
      /\ keys[3] = KeyList("rows") /\ keys[4] = KeyList("total")
      /\ \A i \in done : i \in {1, 2, 3, 4}
  BY CallKeyFacts, KeyFacts
<1> HIDE DEF keys, values
<1>4. \A key \in PageKeys : redis'[key] \in PageValues \cup {None}
  <2> TAKE key \in PageKeys
  <2>1. CASE key \in set
    <3>1. PICK i \in done : key = keys[i]
      BY <2>1
    <3>2. i \in {1, 2}
      BY <1>3, <3>1, KeyFacts
    <3> QED
      BY <1>1, <1>2, <3>1, <3>2
  <2>2. CASE key \notin set
    BY <1>1, <2>2, KeyFacts DEF TypeOK
  <2> QED
    BY <2>1, <2>2
<1>5. \A kind \in Kinds : redis'[KeyList(kind)] \in (SUBSET PageKeys) \cup {None}
  <2> TAKE kind \in Kinds
  <2>1. CASE KeyList(kind) \in set
    <3>1. PICK i \in done : KeyList(kind) = keys[i]
      BY <2>1
    <3>2. i \in {3, 4}
      BY <1>3, <3>1, KeyFacts
    <3> QED
      BY <1>1, <1>2, <3>1, <3>2
  <2>2. CASE KeyList(kind) \notin set
    BY <1>1, <2>2, KeyFacts DEF TypeOK
  <2> QED
    BY <2>1, <2>2
<1>6. CacheOK'
  BY <1>1, <1>4, <1>5 DEF CacheOK
<1>7. answer' \in Answer \cup {None}
  <2>1. Made(pattern, field, page, fault) \in Seq(Row) /\ TotalOf(pattern, field, page) \in Nat
    BY MadeFacts, PageFacts
  <2>2. AnswerOf(pattern, field, page, Made(pattern, field, page, fault),
                 TotalOf(pattern, field, page)) \in Answer
    BY <2>1 DEF AnswerOf, Answer
  <2> QED
    BY <2>2 DEF Caches, TypeOK
<1>8. StoresOK' /\ asked' \subseteq Patterns /\ mishaps' \subseteq Mishaps
  BY DEF Caches, TypeOK, StoresOK
<1> QED
  BY <1>6, <1>7, <1>8, Split

LEMMA HitsOK ==
  ASSUME TypeOK, NEW pattern \in Patterns, NEW field \in Fields, NEW page \in Pages,
         SearchHits(pattern, field, page)
  PROVE  TypeOK'
<1> DEFINE rows == CachedRows(pattern, page, NoFault)
           total == CachedTotal(pattern, page, NoFault)
<1>1. rows \in Seq(Row) /\ total \in Nat
  BY CachedFacts DEF SearchHits, Misses
<1> HIDE DEF rows, total
<1>2. answer' \in Answer
  BY <1>1 DEF SearchHits, Answers, Answer, rows, total
<1> QED
  BY <1>2, Split DEF SearchHits, Answers, TypeOK, StoresOK, CacheOK

LEMMA ChangeDrops ==
  ASSUME TypeOK, NEW s \in Servers, Change(s)
  PROVE  StoresOK' /\ \E keys \in SUBSET PageKeys : Drops(keys)
<1>1. RemoveData /\ answer' = None /\ UNCHANGED <<visible, asked>>
  BY DEF Change
<1>2. StoresOK /\ visible' \in [Servers -> Versions]
  BY <1>1, Split DEF StoresOK
<1>3. 0 \in Versions /\ 1 \in Versions
  BY Constants DEF Versions
<1>4. ASSUME NEW r \in Records, AddServer(s, r)
      PROVE  StoresOK'
  BY <1>2, <1>3, <1>4 DEF AddServer, StoresOK
<1>5. ASSUME NEW r \in Records, UpdateServer(s, r)
      PROVE  StoresOK'
  BY <1>2, <1>5 DEF UpdateServer, StoresOK
<1>6. ASSUME DeleteServer(s)
      PROVE  StoresOK'
  <2>1. record' \in [Servers -> Records \cup {None}]
    BY <1>2, <1>6 DEF DeleteServer, StoresOK
  <2>2. history' \in [Servers -> Versions]
    BY <1>2, <1>3, <1>6 DEF DeleteServer, StoresOK
  <2>3. added' = added
    BY <1>6 DEF DeleteServer
  <2> QED
    BY <1>2, <2>1, <2>2, <2>3 DEF StoresOK
<1>7. ASSUME Connect(s)
      PROVE  StoresOK'
  <2>1. history[s] + 1 \in Versions /\ history[s] \in Versions
    BY <1>7, <1>2, Constants DEF Connect, StoresOK, Versions
  <2>2. history' \in [Servers -> Versions]
    BY <1>2, <1>7, <2>1 DEF Connect, StoresOK
  <2>3. added' = added /\ record' = record
    BY <1>7 DEF Connect
  <2> QED
    BY <1>2, <2>2, <2>3 DEF StoresOK
<1> QED
  BY <1>1, <1>4, <1>5, <1>6, <1>7, RemoveDataDrops DEF Change

LEMMA DropsOK ==
  ASSUME TypeOK, NEW keys \in SUBSET PageKeys, Drops(keys), StoresOK'
  PROVE  TypeOK'
<1>1. CacheOK'
  BY DeleteOK, Split DEF Drops
<1> QED
  BY <1>1, Split DEF Drops

LEMMA InitOK == Init => TypeOK
<1> SUFFICES ASSUME Init PROVE TypeOK
  OBVIOUS
<1>1. history \in [Servers -> Versions] /\ visible \in [Servers -> Versions]
  BY Constants DEF Init, Versions
<1>2. \A key \in Keys : redis[key] = None
  BY DEF Init
<1> QED
  BY <1>1, <1>2, KeyFacts DEF Init, TypeOK

LEMMA NextOK == TypeOK /\ [Next]_vars => TypeOK'
<1> SUFFICES ASSUME TypeOK, [Next]_vars PROVE TypeOK'
  OBVIOUS
<1>1. ASSUME NEW pattern \in Patterns, NEW field \in Fields, NEW page \in Pages,
             Search(pattern, field, page)
      PROVE  TypeOK'
  BY <1>1, SearchSteps, HitsOK, CachesOK
<1>2. ASSUME NEW s \in Servers, Change(s)
      PROVE  TypeOK'
  BY <1>2, ChangeDrops, DropsOK
<1>3. CASE Refresh
  BY <1>3 DEF Refresh, TypeOK
<1>4. CASE Expire
  <2>1. CacheOK'
    BY <1>4, DeleteOK, Split DEF Expire
  <2> QED
    BY <1>4, <2>1, Split DEF Expire, Meet, StoresOK
<1>5. CASE UNCHANGED vars
  BY <1>5 DEF vars, TypeOK
<1> QED
  BY <1>1, <1>2, <1>3, <1>4, <1>5 DEF Next

\* The state of the system is always of the types stated: above all, a page key holds rows
\* or a total, a key list names pages only, and an answer has rows and a number.
THEOREM TypeOKHolds == Spec => []TypeOK
<1>1. Init => TypeOK
  BY InitOK
<1>2. TypeOK /\ [Next]_vars => TypeOK'
  BY NextOK
<1> QED
  BY <1>1, <1>2, PTL DEF Spec

-----------------------------------------------------------------------------
(* Rows match.                                                             *)

\* What a search that misses leaves at the page keys.
LEMMA PagesWritten ==
  ASSUME TypeOK, NEW pattern \in Patterns, NEW field \in Fields, NEW page \in Pages,
         NEW fault \in Fault, NEW done \in SUBSET (1..4),
         Caches(pattern, field, page, fault, done)
  PROVE  \A key \in PageKeys :
           \/ /\ key = RowsKey(pattern, page)
              /\ redis'[key] = Rows(Made(pattern, field, page, fault))
           \/ /\ key = TotalKey(pattern, page)
              /\ redis'[key] = Number(TotalOf(pattern, field, page))
           \/ redis'[key] = redis[key]
<1> DEFINE keys == CallKeys(pattern, page)
           values == CallValues(pattern, field, page, fault)
           set == {keys[i] : i \in done}
<1>1. /\ \A i \in done : redis'[keys[i]] = values[i]
      /\ \A key \in Keys \ set : redis'[key] = redis[key]
  <2>1. After(pattern, page, values, done)
    BY Performed DEF Caches, TypeOK
  <2> HIDE DEF values
  <2> QED
    BY <2>1 DEF After
<1>2. /\ values[1] = Rows(Made(pattern, field, page, fault))
      /\ values[2] = Number(TotalOf(pattern, field, page))
  BY CallValueFacts
<1>3. /\ keys[1] = RowsKey(pattern, page) /\ keys[2] = TotalKey(pattern, page)
      /\ keys[3] = KeyList("rows") /\ keys[4] = KeyList("total")
      /\ \A i \in done : i \in {1, 2, 3, 4}
  BY CallKeyFacts
<1> HIDE DEF keys, values
<1> TAKE key \in PageKeys
<1>4. CASE key \in set
  <2>1. PICK i \in done : key = keys[i]
    BY <1>4
  <2>2. i \in {1, 2}
    BY <1>3, <2>1, KeyFacts
  <2> QED
    BY <1>1, <1>2, <1>3, <2>1, <2>2
<1>5. CASE key \notin set
  BY <1>1, <1>5, KeyFacts
<1> QED
  BY <1>4, <1>5

LEMMA PagesDropped ==
  ASSUME NEW keys, Delete(keys)
  PROVE  \A key \in PageKeys : redis'[key] = IF key \in keys THEN None ELSE redis[key]
  BY KeyFacts DEF Delete

Match(rows, pattern) ==
  \A i \in DOMAIN rows : \E field \in Fields : pattern \in rows[i].record[field]

RowsInv ==
  \A pattern \in Patterns, page \in Pages :
    HoldsRows(RowsKey(pattern, page)) => Match(redis[RowsKey(pattern, page)][2], pattern)

LEMMA MadeMatch ==
  ASSUME TypeOK, RowsInv,
         NEW pattern \in Patterns, NEW field \in Fields, NEW page \in Pages, NEW fault
  PROVE  Match(Made(pattern, field, page, fault), pattern)
<1> DEFINE cached == CachedRows(pattern, page, fault)
           ids == OnPage(pattern, field, page)
           found == Found(ids, fault.silent)
           made == Made(pattern, field, page, fault)
<1>1. \A i \in DOMAIN made :
        \/ \E j \in DOMAIN found : made[i] = found[j]
        \/ cached # None /\ \E j \in DOMAIN cached : made[i] = cached[j]
  BY MadeFacts
<1>2. \A j \in DOMAIN found : pattern \in found[j].record[field]
  <2>1. /\ ids \in Seq(Servers)
        /\ \A j \in DOMAIN ids : record[ids[j]] \in Records /\ pattern \in record[ids[j]][field]
    BY PageFacts
  <2> HIDE DEF ids
  <2>2. DOMAIN found = DOMAIN ids /\ \A j \in DOMAIN ids : found[j].record = record[ids[j]]
    BY <2>1, FoundFacts
  <2> QED
    BY <2>1, <2>2
<1>3. cached # None => Match(cached, pattern)
  BY CachedFacts DEF RowsInv
<1> HIDE DEF cached, found, made
<1> QED
  BY <1>1, <1>2, <1>3 DEF Match, made

LEMMA RowsStep ==
  ASSUME TypeOK, RowsInv, RowsMatch, [Next]_vars
  PROVE  RowsInv' /\ RowsMatch'
<1>1. ASSUME NEW keys, Delete(keys)
      PROVE  RowsInv'
  <2>1. ASSUME NEW p \in Patterns, NEW pg \in Pages, HoldsRows(RowsKey(p, pg))'
        PROVE  Match(redis'[RowsKey(p, pg)][2], p)
    <3>1. redis'[RowsKey(p, pg)] = redis[RowsKey(p, pg)] /\ HoldsRows(RowsKey(p, pg))
      BY <1>1, <2>1, KeyFacts, PagesDropped DEF HoldsRows
    <3> QED
      BY <3>1 DEF RowsInv
  <2> QED
    BY <2>1 DEF RowsInv
<1>2. ASSUME NEW pattern \in Patterns, NEW field \in Fields, NEW page \in Pages,
             SearchHits(pattern, field, page)
      PROVE  RowsInv' /\ RowsMatch'
  <2> DEFINE rows == CachedRows(pattern, page, NoFault)
             total == CachedTotal(pattern, page, NoFault)
  <2>1. Match(rows, pattern)
    BY <1>2, CachedFacts DEF SearchHits, Misses, RowsInv
  <2>2. answer'.pattern = pattern /\ answer'.rows = IF total = 0 THEN << >> ELSE rows
    BY <1>2 DEF SearchHits, Answers
  <2> HIDE DEF rows, total
  <2>3. RowsMatch'
    BY <2>1, <2>2 DEF RowsMatch, Match
  <2> QED
    BY <1>2, <2>3 DEF SearchHits, RowsInv, HoldsRows
<1>3. ASSUME NEW pattern \in Patterns, NEW field \in Fields, NEW page \in Pages,
             NEW fault \in Fault, NEW done \in SUBSET (1..4),
             Caches(pattern, field, page, fault, done)
      PROVE  RowsInv' /\ RowsMatch'
  <2> DEFINE made == Made(pattern, field, page, fault)
             total == TotalOf(pattern, field, page)
  <2>1. Match(made, pattern)
    BY MadeMatch
  <2>2. \/ answer' = answer
        \/ answer'.pattern = pattern /\ answer'.rows = IF total = 0 THEN << >> ELSE made
    BY <1>3 DEF Caches, AnswerOf
  <2>3. \A key \in PageKeys :
          \/ key = RowsKey(pattern, page) /\ redis'[key] = Rows(made)
          \/ redis'[key] = Number(total)
          \/ redis'[key] = redis[key]
    BY <1>3, PagesWritten
  <2> HIDE DEF made, total
  <2>4. RowsMatch'
    BY <2>1, <2>2 DEF RowsMatch, Match
  <2>5. ASSUME NEW p \in Patterns, NEW pg \in Pages, HoldsRows(RowsKey(p, pg))'
        PROVE  Match(redis'[RowsKey(p, pg)][2], p)
    <3>1. CASE RowsKey(p, pg) = RowsKey(pattern, page) /\ redis'[RowsKey(p, pg)] = Rows(made)
      <4>1. p = pattern
        BY <3>1, KeyFacts
      <4> QED
        BY <2>1, <3>1, <4>1, ValueFacts
    <3>2. CASE redis'[RowsKey(p, pg)] = Number(total)
      BY <2>5, <3>2, ValueFacts DEF HoldsRows
    <3>3. CASE redis'[RowsKey(p, pg)] = redis[RowsKey(p, pg)]
      BY <2>5, <3>3 DEF RowsInv, HoldsRows
    <3> QED
      BY <2>3, <3>1, <3>2, <3>3, KeyFacts
  <2> QED
    BY <2>4, <2>5 DEF RowsInv
<1>4. ASSUME NEW pattern \in Patterns, NEW field \in Fields, NEW page \in Pages,
             Search(pattern, field, page)
      PROVE  RowsInv' /\ RowsMatch'
  BY <1>2, <1>3, <1>4, SearchSteps
<1>5. ASSUME NEW s \in Servers, Change(s)
      PROVE  RowsInv' /\ RowsMatch'
  BY <1>1, <1>5, ChangeDrops DEF Drops, RowsMatch
<1>6. CASE Refresh \/ UNCHANGED vars
  BY <1>6 DEF Refresh, vars, RowsInv, RowsMatch, HoldsRows
<1>7. CASE Expire
  BY <1>1, <1>7 DEF Expire, RowsMatch
<1> QED
  BY <1>4, <1>5, <1>6, <1>7 DEF Next

\* RowsMatch for all patterns and pages, and whatever fails or expires: a row of an answer
\* matched the pattern of the answer in some field when it was made.
THEOREM RowsMatchHolds == Spec => []RowsMatch
<1>1. Init => RowsInv /\ RowsMatch
  <2>1. Init => \A key \in PageKeys : redis[key] = None
    BY KeyFacts DEF Init
  <2> QED
    BY <2>1, KeyFacts DEF Init, RowsInv, RowsMatch, HoldsRows
<1>2. TypeOK /\ RowsInv /\ RowsMatch /\ [Next]_vars => RowsInv' /\ RowsMatch'
  BY RowsStep
<1> QED
  BY <1>1, <1>2, TypeOKHolds, PTL DEF Spec

-----------------------------------------------------------------------------
(* Pages are in the key lists.                                             *)

Harmless == {"historyless", "unrefreshed", "expiry"}

Listed(key) ==
  \E kind \in Kinds : /\ redis[KeyList(kind)] # None /\ key \in redis[KeyList(kind)]
                      /\ "expiry" \in Mishaps => key \in older[KeyList(kind)]

ListedInv ==
  mishaps \subseteq Harmless =>
    \A key \in PageKeys : redis[key] # None => Listed(key)

LEMMA HarmlessFacts ==
  \A ms : ms \subseteq Harmless => ms \cap Failures = {}
  BY DEF Harmless, Failures

\* Unless something fails, a change drops every page.
LEMMA AllDropped ==
  ASSUME TypeOK, ListedInv, NEW keys, Drops(keys), mishaps' \subseteq Harmless
  PROVE  \A key \in PageKeys : redis'[key] = None
<1>1. mishaps \subseteq Harmless /\ keys = Named("rows") \cup Named("total")
  BY HarmlessFacts DEF Drops
<1>2. \A key \in PageKeys : redis[key] # None => key \in keys
  BY <1>1, NamedFacts DEF ListedInv, Listed, Kinds
<1> QED
  BY <1>2, PagesDropped DEF Drops

\* Of what is there, the oldest entry expires first.
LEMMA Expired ==
  ASSUME TypeOK, Expire
  PROVE  \E key \in Keys :
           /\ older[key] = {}
           /\ redis'[key] = None
           /\ \A k \in Keys \ {key} : redis'[k] = redis[k] /\ older'[k] = older[k] \ {key}
           /\ mishaps \subseteq mishaps'
<1>1. PICK key \in Keys : redis[key] # None /\ older[key] = {} /\ Delete({key})
  BY DEF Expire
<1>2. /\ redis'[key] = None
      /\ \A k \in Keys \ {key} : redis'[k] = redis[k] /\ older'[k] = older[k] \ {key}
  BY <1>1 DEF Delete
<1>3. mishaps \subseteq mishaps'
  BY DEF Expire, Meet
<1> QED
  BY <1>1, <1>2, <1>3

\* The whole of what a search does to the cache if nothing fails.
LEMMA Cached ==
  ASSUME TypeOK, NEW pattern \in Patterns, NEW field \in Fields, NEW page \in Pages,
         NEW fault \in Fault, NEW done \in SUBSET (1..4),
         Caches(pattern, field, page, fault, done), mishaps' \subseteq Harmless
  PROVE  LET set == {RowsKey(pattern, page), TotalKey(pattern, page),
                     KeyList("rows"), KeyList("total")}
         IN  /\ mishaps \subseteq Harmless
             /\ fault.unread = {} /\ fault.silent = {}
             /\ redis'[RowsKey(pattern, page)] = Rows(Made(pattern, field, page, fault))
             /\ redis'[TotalKey(pattern, page)] = Number(TotalOf(pattern, field, page))
             /\ \A kind \in Kinds :
                  /\ redis'[KeyList(kind)] \in SUBSET PageKeys
                  /\ Named(kind) \cup {Key(kind, pattern, page)} \subseteq redis'[KeyList(kind)]
             /\ \A key \in Keys \ set : redis'[key] = redis[key]
             /\ "expiry" \in Mishaps =>
                  /\ \A key \in Keys, k \in Keys \ set :
                       redis[k] # None /\ (key \in set \/ k \in older[key]) => k \in older'[key]
                  /\ RowsKey(pattern, page) \in older'[TotalKey(pattern, page)]
                  /\ \A kind \in Kinds : Key(kind, pattern, page) \in older'[KeyList(kind)]
<1> DEFINE keys == CallKeys(pattern, page)
           values == CallValues(pattern, field, page, fault)
           setBy == {keys[i] : i \in done}
           set == {RowsKey(pattern, page), TotalKey(pattern, page),
                   KeyList("rows"), KeyList("total")}
<1>1. /\ mishaps \subseteq Harmless /\ done = 1..4
      /\ fault.unread = {} /\ fault.unlisted = {} /\ fault.silent = {}
  BY HarmlessFacts DEF Caches
<1>2. /\ \A i \in done : redis'[keys[i]] = values[i]
      /\ \A key \in Keys \ setBy : redis'[key] = redis[key]
      /\ "expiry" \in Mishaps =>
           /\ \A key \in Keys, k \in Keys \ setBy :
                redis[k] # None /\ (key \in setBy \/ k \in older[key]) => k \in older'[key]
           /\ \A i, j \in done : i < j => keys[i] \in older'[keys[j]]
  <2>1. After(pattern, page, values, done)
    BY Performed DEF Caches, TypeOK
  <2> HIDE DEF values
  <2> QED
    BY <2>1 DEF After
<1>3. /\ values[1] = Rows(Made(pattern, field, page, fault))
      /\ values[2] = Number(TotalOf(pattern, field, page))
      /\ values[3] \in SUBSET PageKeys /\ values[4] \in SUBSET PageKeys
      /\ RowsKey(pattern, page) \in values[3] /\ TotalKey(pattern, page) \in values[4]
      /\ Named("rows") \subseteq values[3] /\ Named("total") \subseteq values[4]
  BY <1>1, CallValueFacts
<1>4. /\ keys[1] = RowsKey(pattern, page) /\ keys[2] = TotalKey(pattern, page)
      /\ keys[3] = KeyList("rows") /\ keys[4] = KeyList("total")
  BY CallKeyFacts
<1> HIDE DEF keys, values
<1>5. done = {1, 2, 3, 4}
  BY <1>1
<1>6. setBy = set
  BY <1>4, <1>5
<1> HIDE DEF setBy
<1>7. /\ Key("rows", pattern, page) = RowsKey(pattern, page)
      /\ Key("total", pattern, page) = TotalKey(pattern, page)
  BY DEF Key
<1>8. \A kind \in Kinds :
        /\ redis'[KeyList(kind)] \in SUBSET PageKeys
        /\ Named(kind) \cup {Key(kind, pattern, page)} \subseteq redis'[KeyList(kind)]
  BY <1>2, <1>3, <1>4, <1>5, <1>7 DEF Kinds
<1>9. "expiry" \in Mishaps =>
        /\ RowsKey(pattern, page) \in older'[TotalKey(pattern, page)]
        /\ RowsKey(pattern, page) \in older'[KeyList("rows")]
        /\ TotalKey(pattern, page) \in older'[KeyList("total")]
  <2>1. 1 \in done /\ 2 \in done /\ 3 \in done /\ 4 \in done /\ 1 < 2 /\ 1 < 3 /\ 2 < 4
    BY <1>5
  <2> QED
    BY <1>2, <1>4, <2>1
<1>10. "expiry" \in Mishaps =>
         \A kind \in Kinds : Key(kind, pattern, page) \in older'[KeyList(kind)]
  BY <1>7, <1>9 DEF Kinds
<1> QED
  BY <1>1, <1>2, <1>3, <1>4, <1>5, <1>6, <1>8, <1>9, <1>10

LEMMA ListedStep ==
  ASSUME TypeOK, ListedInv, [Next]_vars
  PROVE  ListedInv'
<1> SUFFICES ASSUME mishaps' \subseteq Harmless, NEW key \in PageKeys, redis'[key] # None
             PROVE  Listed(key)'
  BY DEF ListedInv
<1>1. ASSUME NEW pattern \in Patterns, NEW field \in Fields, NEW page \in Pages,
             NEW fault \in Fault, NEW done \in SUBSET (1..4),
             Caches(pattern, field, page, fault, done)
      PROVE  Listed(key)'
  <2> DEFINE set == {RowsKey(pattern, page), TotalKey(pattern, page),
                     KeyList("rows"), KeyList("total")}
  <2>1. /\ mishaps \subseteq Harmless
        /\ \A kind \in Kinds :
             /\ redis'[KeyList(kind)] \in SUBSET PageKeys
             /\ Named(kind) \cup {Key(kind, pattern, page)} \subseteq redis'[KeyList(kind)]
        /\ \A k \in Keys \ set : redis'[k] = redis[k]
        /\ "expiry" \in Mishaps =>
             /\ \A l \in Keys, k \in Keys \ set :
                  redis[k] # None /\ (l \in set \/ k \in older[l]) => k \in older'[l]
             /\ \A kind \in Kinds : Key(kind, pattern, page) \in older'[KeyList(kind)]
    BY <1>1, Cached
  <2>2. \A kind \in Kinds : redis'[KeyList(kind)] # None
    BY <2>1, NoneIsNoValue
  <2>3. CASE \E kind \in Kinds : key = Key(kind, pattern, page)
    BY <2>1, <2>2, <2>3 DEF Listed
  <2>4. CASE key \notin {Key(kind, pattern, page) : kind \in Kinds}
    <3>1. key \in Keys \ set
      BY <2>4, KeyFacts DEF Kinds, Key
    <3>2. redis[key] # None /\ Listed(key)
      BY <2>1, <3>1 DEF ListedInv
    <3>3. PICK kind \in Kinds : redis[KeyList(kind)] # None /\ key \in redis[KeyList(kind)]
      BY <3>2 DEF Listed
    <3>4. key \in Named(kind)
      BY <3>3, NamedFacts
    <3>5. KeyList(kind) \in set /\ KeyList(kind) \in Keys
      BY KeyFacts DEF Kinds
    <3>6. key \in redis'[KeyList(kind)]
      BY <2>1, <3>4
    <3>7. "expiry" \in Mishaps => key \in older'[KeyList(kind)]
      BY <2>1, <3>1, <3>2, <3>5
    <3> QED
      BY <2>2, <3>6, <3>7 DEF Listed
  <2> QED
    BY <2>3, <2>4
<1>2. ASSUME NEW pattern \in Patterns, NEW field \in Fields, NEW page \in Pages,
             SearchHits(pattern, field, page)
      PROVE  Listed(key)'
  BY <1>2 DEF SearchHits, ListedInv, Listed
<1>3. ASSUME NEW pattern \in Patterns, NEW field \in Fields, NEW page \in Pages,
             Search(pattern, field, page)
      PROVE  Listed(key)'
  BY <1>1, <1>2, <1>3, SearchSteps
<1>4. ASSUME NEW s \in Servers, Change(s)
      PROVE  Listed(key)'
  BY <1>4, ChangeDrops, AllDropped
<1>5. CASE Refresh \/ UNCHANGED vars
  BY <1>5 DEF Refresh, vars, ListedInv, Listed
<1>6. CASE Expire
  <2>1. PICK gone \in Keys :
          /\ older[gone] = {}
          /\ redis'[gone] = None
          /\ \A k \in Keys \ {gone} : redis'[k] = redis[k] /\ older'[k] = older[k] \ {gone}
          /\ mishaps \subseteq mishaps'
    BY <1>6, Expired
  <2>2. key # gone /\ redis[key] # None
    BY <2>1, KeyFacts
  <2>3. "expiry" \in Mishaps
    BY <1>6 DEF Expire
  <2>4. PICK kind \in Kinds : /\ redis[KeyList(kind)] # None /\ key \in redis[KeyList(kind)]
                              /\ key \in older[KeyList(kind)]
    BY <2>1, <2>2, <2>3 DEF ListedInv, Listed
  <2>5. KeyList(kind) # gone /\ KeyList(kind) \in Keys
    BY <2>1, <2>4, KeyFacts
  <2>6. /\ redis'[KeyList(kind)] = redis[KeyList(kind)]
        /\ key \in older'[KeyList(kind)]
    BY <2>1, <2>2, <2>4, <2>5
  <2> QED
    BY <2>4, <2>6 DEF Listed
<1> QED
  BY <1>3, <1>4, <1>5, <1>6 DEF Next

LEMMA ListedHolds == Spec => []ListedInv
<1>1. Init => ListedInv
  BY KeyFacts DEF Init, ListedInv
<1>2. TypeOK /\ ListedInv /\ [Next]_vars => ListedInv'
  BY ListedStep
<1> QED
  BY <1>1, <1>2, TypeOKHolds, PTL DEF Spec

-----------------------------------------------------------------------------
(* An answer is of one field.                                              *)

\* These rows are those of the page, as of now.
OfField(rows, pattern, field, page) ==
  LET ids == OnPage(pattern, field, page) IN
  /\ [i \in DOMAIN rows |-> rows[i].id] = ids
  /\ \A i \in DOMAIN ids : rows[i].record = record[ids[i]]

\* Whichever field these rows were found in, the total was found with them, and will not
\* expire before them.
Whole(pattern, page) ==
  /\ HoldsRows(RowsKey(pattern, page))
  /\ "expiry" \in Mishaps => RowsKey(pattern, page) \in older[TotalKey(pattern, page)]
  /\ \E field \in Fields :
       /\ OfField(redis[RowsKey(pattern, page)][2], pattern, field, page)
       /\ redis[TotalKey(pattern, page)] = Number(TotalOf(pattern, field, page))

WholeInv ==
  mishaps \subseteq Harmless =>
    \A pattern \in Patterns, page \in Pages :
      ~ Collides(pattern) /\ redis[RowsKey(pattern, page)] # None => Whole(pattern, page)

\* As long as the records stay the same, so does what is found.
LEMMA SameFound ==
  ASSUME record' = record
  PROVE  \A pattern \in Patterns, field \in Fields, page \in Pages :
           /\ OnPage(pattern, field, page)' = OnPage(pattern, field, page)
           /\ TotalOf(pattern, field, page)' = TotalOf(pattern, field, page)
           /\ \A rows : OfField(rows, pattern, field, page)
                          => OfField(rows, pattern, field, page)'
<1>1. \A pattern \in Patterns, field \in Fields :
        Matching(pattern, field)' = Matching(pattern, field)
  BY DEF Matching, NewestFirst
<1>2. \A pattern \in Patterns, field \in Fields, page \in Pages :
        OnPage(pattern, field, page)' = OnPage(pattern, field, page)
  BY <1>1 DEF OnPage
<1>3. \A pattern \in Patterns, field \in Fields, page \in Pages :
        TotalOf(pattern, field, page)' = TotalOf(pattern, field, page)
  BY <1>1, <1>2 DEF TotalOf
<1> QED
  BY <1>2, <1>3 DEF OfField

LEMMA FoundOfField ==
  ASSUME TypeOK, NEW pattern \in Patterns, NEW field \in Fields, NEW page \in Pages
  PROVE  OfField(Found(OnPage(pattern, field, page), {}), pattern, field, page)
<1> DEFINE ids == OnPage(pattern, field, page)
           found == Found(ids, {})
<1>1. ids \in Seq(Servers) /\ \A i \in DOMAIN ids : record[ids[i]] \in Records
  BY PageFacts
<1> HIDE DEF ids
<1>2. /\ DOMAIN found = DOMAIN ids
      /\ \A i \in DOMAIN ids : found[i].id = ids[i] /\ found[i].record = record[ids[i]]
  BY <1>1, FoundFacts
<1> HIDE DEF found
<1>3. [i \in DOMAIN found |-> found[i].id] = ids
  <2>1. ids = [i \in DOMAIN ids |-> ids[i]]
    BY <1>1
  <2> QED
    BY <1>2, <2>1
<1> QED
  BY <1>2, <1>3 DEF OfField, ids, found

\* With a total of 0 the rows that are left out were none.
LEMMA NoneLeftOut ==
  ASSUME TypeOK, NEW pattern \in Patterns, NEW field \in Fields, NEW page \in Pages,
         NEW rows \in Seq(Row), OfField(rows, pattern, field, page)
  PROVE  (IF TotalOf(pattern, field, page) = 0 THEN << >> ELSE rows) = rows
<1>1. TotalOf(pattern, field, page) = 0 => OnPage(pattern, field, page) = << >>
  BY PageFacts
<1>2. DOMAIN rows = DOMAIN OnPage(pattern, field, page)
  BY DEF OfField
<1>3. TotalOf(pattern, field, page) = 0 => DOMAIN rows = {}
  BY <1>1, <1>2
<1>4. DOMAIN rows = {} => rows = << >>
  BY EmptySeq
<1> QED
  BY <1>3, <1>4

\* What a search finds in the cache, if both are there, is whole.
LEMMA WholeIsRead ==
  ASSUME TypeOK, NEW pattern \in Patterns, NEW page \in Pages, Whole(pattern, page),
         NEW fault \in Fault, fault.unread = {}
  PROVE  \E field \in Fields :
           /\ CachedRows(pattern, page, fault) \in Seq(Row)
           /\ CachedTotal(pattern, page, fault) \in Nat
           /\ OfField(CachedRows(pattern, page, fault), pattern, field, page)
           /\ CachedTotal(pattern, page, fault) = TotalOf(pattern, field, page)
<1>1. PICK field \in Fields :
        /\ OfField(redis[RowsKey(pattern, page)][2], pattern, field, page)
        /\ redis[TotalKey(pattern, page)] = Number(TotalOf(pattern, field, page))
  BY DEF Whole
<1>2. /\ CachedRows(pattern, page, fault) = RowsIn(redis[RowsKey(pattern, page)])
      /\ CachedTotal(pattern, page, fault) = TotalIn(redis[TotalKey(pattern, page)])
  BY DEF CachedRows, CachedTotal
<1>3. /\ RowsIn(redis[RowsKey(pattern, page)]) = redis[RowsKey(pattern, page)][2]
      /\ redis[RowsKey(pattern, page)][2] \in Seq(Row)
  BY KeyFacts, ValueFacts DEF Whole, HoldsRows, RowsIn, TypeOK
<1>4. TotalOf(pattern, field, page) \in Nat
  BY PageFacts
<1>5. TotalIn(Number(TotalOf(pattern, field, page))) = TotalOf(pattern, field, page)
  <2>1. /\ Number(TotalOf(pattern, field, page)) \in PageValues
        /\ Number(TotalOf(pattern, field, page))[1] = "total"
        /\ Number(TotalOf(pattern, field, page))[2] = TotalOf(pattern, field, page)
    BY <1>4, ValueFacts
  <2>2. Number(TotalOf(pattern, field, page)) # None
    BY <2>1, ValueFacts
  <2> QED
    BY <2>1, <2>2 DEF TotalIn
<1> QED
  BY <1>1, <1>2, <1>3, <1>4, <1>5

LEMMA ReadsWhole ==
  ASSUME TypeOK, WholeInv, mishaps \subseteq Harmless,
         NEW pattern \in Patterns, NEW page \in Pages, ~ Collides(pattern),
         NEW fault \in Fault, fault.unread = {}
  PROVE  /\ Misses(pattern, page, fault) => CachedRows(pattern, page, fault) = None
         /\ ~ Misses(pattern, page, fault) =>
              \E field \in Fields :
                /\ CachedRows(pattern, page, fault) \in Seq(Row)
                /\ OfField(CachedRows(pattern, page, fault), pattern, field, page)
                /\ CachedTotal(pattern, page, fault) = TotalOf(pattern, field, page)
<1>1. CASE redis[RowsKey(pattern, page)] = None
  BY <1>1 DEF CachedRows, RowsIn, Misses
<1>2. CASE redis[RowsKey(pattern, page)] # None
  <2>1. Whole(pattern, page)
    BY <1>2 DEF WholeInv
  <2>2. PICK field \in Fields :
          /\ CachedRows(pattern, page, fault) \in Seq(Row)
          /\ CachedTotal(pattern, page, fault) \in Nat
          /\ OfField(CachedRows(pattern, page, fault), pattern, field, page)
          /\ CachedTotal(pattern, page, fault) = TotalOf(pattern, field, page)
    BY <2>1, WholeIsRead
  <2>3. ~ Misses(pattern, page, fault)
    BY <2>2, ValueFacts DEF Misses
  <2> QED
    BY <2>2, <2>3
<1> QED
  BY <1>1, <1>2

\* Then so is what a search caches that misses.
LEMMA MakesWhole ==
  ASSUME TypeOK, WholeInv, mishaps' \subseteq Harmless,
         NEW pattern \in Patterns, NEW field \in Fields, NEW page \in Pages,
         NEW fault \in Fault, NEW done \in SUBSET (1..4),
         Caches(pattern, field, page, fault, done), ~ Collides(pattern)'
  PROVE  OfField(Made(pattern, field, page, fault), pattern, field, page)
<1>1. mishaps \subseteq Harmless /\ fault.unread = {} /\ fault.silent = {}
  BY Cached
<1>2. ~ Collides(pattern) /\ Misses(pattern, page, fault)
  BY DEF Collides, Caches
<1>3. CachedRows(pattern, page, fault) = None
  BY <1>1, <1>2, ReadsWhole
<1>4. Made(pattern, field, page, fault) = Found(OnPage(pattern, field, page), {})
  BY <1>1, <1>3, MadeFacts
<1> QED
  BY <1>4, FoundOfField

LEMMA WholeStep ==
  ASSUME TypeOK, ListedInv, WholeInv, [Next]_vars
  PROVE  WholeInv'
<1> SUFFICES ASSUME mishaps' \subseteq Harmless, NEW p \in Patterns, NEW pg \in Pages,
                    ~ Collides(p)', redis'[RowsKey(p, pg)] # None
             PROVE  Whole(p, pg)'
  BY DEF WholeInv
<1> DEFINE r == RowsKey(p, pg)
           t == TotalKey(p, pg)
<1>1. ASSUME ~ Collides(p), mishaps \subseteq Harmless, record' = record,
             redis'[r] = redis[r], redis'[t] = redis[t],
             "expiry" \in Mishaps /\ r \in older[t] => r \in older'[t]
      PROVE  Whole(p, pg)'
  <2>1. Whole(p, pg)
    BY <1>1 DEF WholeInv
  <2>2. PICK field \in Fields : /\ OfField(redis[r][2], p, field, pg)
                                /\ redis[t] = Number(TotalOf(p, field, pg))
    BY <2>1 DEF Whole
  <2>3. OfField(redis[r][2], p, field, pg)' /\ redis'[t] = Number(TotalOf(p, field, pg)')
    <3>1. OfField(redis'[r][2], p, field, pg)
      BY <1>1, <2>2
    <3>2. TotalOf(p, field, pg)' = TotalOf(p, field, pg) /\ OnPage(p, field, pg)' = OnPage(p, field, pg)
      BY <1>1, SameFound
    <3> QED
      BY <1>1, <2>2, <3>1, <3>2 DEF OfField
  <2>4. Number(TotalOf(p, field, pg))' = Number(TotalOf(p, field, pg)')
    BY DEF Number
  <2>5. HoldsRows(r)'
    BY <1>1, <2>1 DEF Whole, HoldsRows
  <2> QED
    BY <1>1, <2>1, <2>3, <2>4, <2>5 DEF Whole
<1>2. ASSUME NEW pattern \in Patterns, NEW field \in Fields, NEW page \in Pages,
             NEW fault \in Fault, NEW done \in SUBSET (1..4),
             Caches(pattern, field, page, fault, done)
      PROVE  Whole(p, pg)'
  <2> DEFINE set == {RowsKey(pattern, page), TotalKey(pattern, page),
                     KeyList("rows"), KeyList("total")}
  <2>1. /\ mishaps \subseteq Harmless
        /\ redis'[RowsKey(pattern, page)] = Rows(Made(pattern, field, page, fault))
        /\ redis'[TotalKey(pattern, page)] = Number(TotalOf(pattern, field, page))
        /\ \A k \in Keys \ set : redis'[k] = redis[k]
        /\ "expiry" \in Mishaps =>
             /\ \A l \in Keys, k \in Keys \ set :
                  redis[k] # None /\ (l \in set \/ k \in older[l]) => k \in older'[l]
             /\ RowsKey(pattern, page) \in older'[TotalKey(pattern, page)]
    BY <1>2, Cached
  <2>2. asked' = asked \cup {pattern} /\ record' = record
    BY <1>2 DEF Caches
  <2>3. ~ Collides(p) /\ pattern # Append(p, Total) /\ p # Append(pattern, Total)
    BY <2>2 DEF Collides
  <2>4. CASE p = pattern /\ pg = page
    <3>1. OfField(Made(p, field, pg, fault), p, field, pg)
      BY <1>2, <2>4, MakesWhole
    <3>2. redis'[r][1] = "rows" /\ redis'[r][2] = Made(p, field, pg, fault)
      BY <2>1, <2>4, ValueFacts
    <3>3. HoldsRows(r)'
      BY <3>2 DEF HoldsRows
    <3>4. OfField(redis[r][2], p, field, pg)'
      <4>1. OnPage(p, field, pg)' = OnPage(p, field, pg)
        BY <2>2, SameFound
      <4> QED
        BY <2>2, <3>1, <3>2, <4>1 DEF OfField
    <3>5. redis'[t] = Number(TotalOf(p, field, pg))'
      <4>1. TotalOf(p, field, pg)' = TotalOf(p, field, pg)
        BY <2>2, SameFound
      <4> QED
        BY <2>1, <2>4, <4>1 DEF Number
    <3>6. "expiry" \in Mishaps => r \in older'[t]
      BY <2>1, <2>4
    <3> QED
      BY <3>3, <3>4, <3>5, <3>6 DEF Whole
  <2>5. CASE ~ (p = pattern /\ pg = page)
    <3>1. r \in Keys \ set /\ t \in Keys \ set
      BY <2>3, <2>5, KeyFacts
    <3>2. redis'[r] = redis[r] /\ redis'[t] = redis[t]
      BY <2>1, <3>1
    <3>3. "expiry" \in Mishaps /\ r \in older[t] => r \in older'[t]
      <4> HIDE DEF set, r, t
      <4>1. redis[r] # None
        BY <3>2 DEF r
      <4> QED
        BY <2>1, <3>1, <4>1
    <3> QED
      BY <1>1, <2>1, <2>2, <2>3, <3>2, <3>3
  <2> QED
    BY <2>4, <2>5
<1>3. ASSUME NEW pattern \in Patterns, NEW field \in Fields, NEW page \in Pages,
             SearchHits(pattern, field, page)
      PROVE  Whole(p, pg)'
  <2>1. asked' = asked \cup {pattern} /\ UNCHANGED <<record, redis, older, mishaps>>
    BY <1>3 DEF SearchHits, Answers
  <2>2. ~ Collides(p)
    BY <2>1 DEF Collides
  <2> QED
    BY <1>1, <2>1, <2>2
<1>4. ASSUME NEW pattern \in Patterns, NEW field \in Fields, NEW page \in Pages,
             Search(pattern, field, page)
      PROVE  Whole(p, pg)'
  BY <1>2, <1>3, <1>4, SearchSteps
<1>5. ASSUME NEW s \in Servers, Change(s)
      PROVE  Whole(p, pg)'
  BY <1>5, ChangeDrops, AllDropped, KeyFacts
<1>6. CASE Refresh \/ UNCHANGED vars
  <2>1. UNCHANGED <<record, redis, older, mishaps, asked>>
    BY <1>6 DEF Refresh, vars
  <2>2. ~ Collides(p)
    BY <2>1 DEF Collides
  <2> QED
    BY <1>1, <2>1, <2>2
<1>7. CASE Expire
  <2>1. PICK gone \in Keys :
          /\ older[gone] = {}
          /\ redis'[gone] = None
          /\ \A k \in Keys \ {gone} : redis'[k] = redis[k] /\ older'[k] = older[k] \ {gone}
          /\ mishaps \subseteq mishaps'
    BY <1>7, Expired
  <2>2. UNCHANGED <<record, asked>> /\ "expiry" \in Mishaps
    BY <1>7 DEF Expire
  <2>3. ~ Collides(p) /\ mishaps \subseteq Harmless
    BY <2>1, <2>2 DEF Collides
  <2>4. r \in Keys /\ t \in Keys
    BY KeyFacts
  <2>5. r # gone /\ redis[r] # None
    BY <2>1, <2>4
  <2>6. r \in older[t]
    BY <2>2, <2>3, <2>5 DEF WholeInv, Whole
  <2>7. t # gone
    BY <2>1, <2>6
  <2>8. redis'[r] = redis[r] /\ redis'[t] = redis[t] /\ r \in older'[t]
    BY <2>1, <2>4, <2>5, <2>6, <2>7
  <2> QED
    BY <1>1, <2>2, <2>3, <2>8
<1> QED
  BY <1>4, <1>5, <1>6, <1>7 DEF Next

LEMMA WholeHolds == Spec => []WholeInv
<1>1. Init => WholeInv
  BY KeyFacts DEF Init, WholeInv
<1>2. TypeOK /\ ListedInv /\ WholeInv /\ [Next]_vars => WholeInv'
  BY WholeStep
<1> QED
  BY <1>1, <1>2, TypeOKHolds, ListedHolds, PTL DEF Spec

\* What AnswersAField says of an answer.
OfAField(a) ==
  \E field \in Fields :
    LET ids == OnPage(a.pattern, field, a.page) IN
    /\ [i \in DOMAIN a.rows |-> a.rows[i].id] = ids
    /\ \A i \in DOMAIN ids : a.rows[i].record = record[ids[i]]
    /\ a.total = TotalOf(a.pattern, field, a.page)

LEMMA OfFieldAnswers ==
  ASSUME TypeOK, NEW pattern \in Patterns, NEW page \in Pages, NEW asks,
         NEW field \in Fields, NEW rows \in Seq(Row), OfField(rows, pattern, field, page)
  PROVE  OfAField(AnswerOf(pattern, asks, page, rows, TotalOf(pattern, field, page)))
<1> DEFINE total == TotalOf(pattern, field, page)
           a == AnswerOf(pattern, asks, page, rows, total)
<1>1. /\ a.pattern = pattern /\ a.page = page /\ a.total = total
      /\ a.rows = IF total = 0 THEN << >> ELSE rows
  BY DEF AnswerOf
<1>2. a.rows = rows
  BY <1>1, NoneLeftOut
<1> HIDE DEF a
<1>3. OfAField(a)
  BY <1>1, <1>2 DEF OfAField, OfField
<1> QED
  BY <1>3 DEF a

LEMMA AnswersStep ==
  ASSUME TypeOK, WholeInv, AnswersAField, [Next]_vars
  PROVE  AnswersAField'
<1> SUFFICES ASSUME mishaps' \subseteq Harmless, answer' # None, ~ Collides(answer.pattern)'
             PROVE  OfAField(answer)'
  BY DEF AnswersAField, Harmless, OfAField
<1>1. ASSUME record' = record, OfAField(answer'), answer' \in Answer
      PROVE  OfAField(answer)'
  <2>1. PICK field \in Fields :
          LET ids == OnPage(answer'.pattern, field, answer'.page) IN
          /\ [i \in DOMAIN answer'.rows |-> answer'.rows[i].id] = ids
          /\ \A i \in DOMAIN ids : answer'.rows[i].record = record[ids[i]]
          /\ answer'.total = TotalOf(answer'.pattern, field, answer'.page)
    BY <1>1 DEF OfAField
  <2>2. answer'.pattern \in Patterns /\ answer'.page \in Pages
    BY <1>1 DEF Answer
  <2>3. /\ OnPage(answer.pattern, field, answer.page)'
             = OnPage(answer'.pattern, field, answer'.page)
        /\ TotalOf(answer.pattern, field, answer.page)'
             = TotalOf(answer'.pattern, field, answer'.page)
    BY <1>1 DEF OnPage, TotalOf, Matching, NewestFirst
  <2> QED
    BY <1>1, <2>1, <2>3 DEF OfAField
<1>2. answer' \in Answer
  BY NextOK DEF TypeOK
<1>3. ASSUME record' = record, answer' = answer, asked' = asked, mishaps \subseteq mishaps'
      PROVE  OfAField(answer)'
  <2>1. ~ Collides(answer.pattern)
    BY <1>3 DEF Collides
  <2>2. OfAField(answer)
    BY <1>3, <2>1 DEF AnswersAField, OfAField, Harmless
  <2> QED
    BY <1>1, <1>2, <1>3, <2>2
<1>4. ASSUME NEW pattern \in Patterns, NEW field \in Fields, NEW page \in Pages,
             NEW fault \in Fault, NEW done \in SUBSET (1..4),
             Caches(pattern, field, page, fault, done)
      PROVE  OfAField(answer)'
  <2> DEFINE made == Made(pattern, field, page, fault)
  <2>1. answer' = AnswerOf(pattern, field, page, made, TotalOf(pattern, field, page))
    BY <1>4, HarmlessFacts DEF Caches
  <2>2. answer'.pattern = pattern /\ record' = record
    BY <1>4, <2>1 DEF AnswerOf, Caches
  <2>3. ~ Collides(pattern)'
    BY <2>2 DEF Collides
  <2>4. OfField(made, pattern, field, page)
    BY <1>4, <2>3, MakesWhole
  <2>5. made \in Seq(Row)
    BY MadeFacts
  <2> HIDE DEF made
  <2>6. OfAField(AnswerOf(pattern, field, page, made, TotalOf(pattern, field, page)))
    BY <2>4, <2>5, OfFieldAnswers
  <2> QED
    BY <1>1, <1>2, <2>1, <2>2, <2>6
<1>5. ASSUME NEW pattern \in Patterns, NEW asks \in Fields, NEW page \in Pages,
             SearchHits(pattern, asks, page)
      PROVE  OfAField(answer)'
  <2> DEFINE rows == CachedRows(pattern, page, NoFault)
             total == CachedTotal(pattern, page, NoFault)
  <2>1. /\ ~ Misses(pattern, page, NoFault)
        /\ answer' = AnswerOf(pattern, asks, page, rows, total)
        /\ asked' = asked \cup {pattern}
        /\ record' = record /\ mishaps' = mishaps
    BY <1>5 DEF SearchHits, Answers, AnswerOf
  <2>2. answer'.pattern = pattern
    BY <2>1 DEF AnswerOf
  <2>3. ~ Collides(pattern) /\ mishaps \subseteq Harmless
    BY <2>1, <2>2 DEF Collides
  <2>4. NoFault \in Fault /\ NoFault.unread = {}
    BY FaultFacts DEF NoFault
  <2>5. PICK field \in Fields :
          /\ rows \in Seq(Row) /\ OfField(rows, pattern, field, page)
          /\ total = TotalOf(pattern, field, page)
    BY <2>1, <2>3, <2>4, ReadsWhole
  <2> HIDE DEF rows, total
  <2>6. OfAField(AnswerOf(pattern, asks, page, rows, TotalOf(pattern, field, page)))
    BY <2>5, OfFieldAnswers
  <2> QED
    BY <1>1, <1>2, <2>1, <2>5, <2>6
<1>6. ASSUME NEW pattern \in Patterns, NEW field \in Fields, NEW page \in Pages,
             Search(pattern, field, page)
      PROVE  OfAField(answer)'
  BY <1>4, <1>5, <1>6, SearchSteps
<1>7. ASSUME NEW s \in Servers, Change(s)
      PROVE  OfAField(answer)'
  BY <1>7 DEF Change
<1>8. CASE Refresh \/ UNCHANGED vars
  BY <1>3, <1>8 DEF Refresh, vars
<1>9. CASE Expire
  BY <1>3, <1>9 DEF Expire, Meet
<1> QED
  BY <1>6, <1>7, <1>8, <1>9 DEF Next

\* AnswersAField for all patterns, pages and fields and any number of servers: as long as
\* nothing fails, the rows and the total of an answer are together those of one field, as
\* of now, unless another search's keys coincide with this one's, even though the keys
\* leave out the field.
THEOREM AnswersAFieldHolds == Spec => []AnswersAField
<1>1. Init => AnswersAField
  BY DEF Init, AnswersAField
<1>2. TypeOK /\ WholeInv /\ AnswersAField /\ [Next]_vars => AnswersAField'
  BY AnswersStep
<1> QED
  BY <1>1, <1>2, TypeOKHolds, WholeHolds, PTL DEF Spec

-----------------------------------------------------------------------------
(* Statuses are the servers' own.                                          *)

Own(rows) == \A i \in DOMAIN rows : rows[i].status = history[rows[i].id]

StatusInv ==
  mishaps \subseteq {"expiry"} =>
    \A key \in PageKeys : HoldsRows(key) => Own(redis[key][2])

LEMMA MadeOwn ==
  ASSUME TypeOK, StatusInv, mishaps' \subseteq {"expiry"},
         NEW pattern \in Patterns, NEW field \in Fields, NEW page \in Pages,
         NEW fault \in Fault, NEW done \in SUBSET (1..4),
         Caches(pattern, field, page, fault, done)
  PROVE  Own(Made(pattern, field, page, fault))
<1> DEFINE cached == CachedRows(pattern, page, fault)
           ids == OnPage(pattern, field, page)
           found == Found(ids, fault.silent)
           made == Made(pattern, field, page, fault)
<1>1. \A i \in DOMAIN made :
        \/ \E j \in DOMAIN found : made[i] = found[j]
        \/ cached # None /\ \E j \in DOMAIN cached : made[i] = cached[j]
  BY MadeFacts
<1>2. mishaps \subseteq {"expiry"} /\ Met(pattern, field, page, fault) \subseteq {"expiry"}
  BY DEF Caches
<1>3. fault.silent = {}
  BY Cached DEF Harmless
<1>4. \A i \in DOMAIN ids : visible[ids[i]] # 0 /\ visible[ids[i]] = history[ids[i]]
  <2>1. /\ "historyless" \notin Met(pattern, field, page, fault)
        /\ "unrefreshed" \notin Met(pattern, field, page, fault)
    BY <1>2
  <2> QED
    BY <2>1 DEF Met
<1>5. ids \in Seq(Servers) /\ \A i \in DOMAIN ids : record[ids[i]] \in Records
  BY PageFacts
<1> HIDE DEF ids
<1>6. Own(found)
  <2>1. /\ DOMAIN found = DOMAIN ids
        /\ \A i \in DOMAIN ids : /\ found[i].id = ids[i]
                                 /\ found[i].status = Shown(ids, fault.silent, i)
    BY <1>5, FoundFacts
  <2>2. \A i \in DOMAIN ids : Shown(ids, fault.silent, i) = visible[ids[i]]
    BY <1>3, <1>4, <1>5, ShownFacts
  <2> HIDE DEF found
  <2> QED
    BY <1>4, <2>1, <2>2 DEF Own
<1>7. cached # None => Own(cached)
  <2>1. cached # None => HoldsRows(RowsKey(pattern, page)) /\ cached = redis[RowsKey(pattern, page)][2]
    BY CachedFacts
  <2> QED
    BY <1>2, <2>1, KeyFacts DEF StatusInv
<1> HIDE DEF cached, found, made
<1> QED
  BY <1>1, <1>6, <1>7 DEF Own, made

LEMMA StatusStep ==
  ASSUME TypeOK, ListedInv, StatusInv, StatusesOwn, [Next]_vars
  PROVE  StatusInv' /\ StatusesOwn'
<1> USE DEF StatusInv, StatusesOwn, Own
<1>1. ASSUME NEW pattern \in Patterns, NEW field \in Fields, NEW page \in Pages,
             NEW fault \in Fault, NEW done \in SUBSET (1..4),
             Caches(pattern, field, page, fault, done), mishaps' \subseteq {"expiry"}
      PROVE  StatusInv' /\ StatusesOwn'
  <2> DEFINE made == Made(pattern, field, page, fault)
             total == TotalOf(pattern, field, page)
  <2>1. Own(made)
    BY <1>1, MadeOwn
  <2>2. /\ \/ answer' = answer
           \/ answer'.rows = IF total = 0 THEN << >> ELSE made
        /\ mishaps \subseteq {"expiry"} /\ history' = history
    <3>1. \/ answer' = answer
          \/ answer' = AnswerOf(pattern, field, page, made, total)
      BY <1>1 DEF Caches
    <3>2. mishaps \subseteq {"expiry"} /\ history' = history
      BY <1>1 DEF Caches
    <3> QED
      BY <3>1, <3>2 DEF AnswerOf
  <2>3. \A key \in PageKeys : \/ redis'[key] = Rows(made)
                              \/ redis'[key] = Number(total)
                              \/ redis'[key] = redis[key]
    BY <1>1, PagesWritten
  <2> HIDE DEF made, total
  <2>4. StatusesOwn'
    BY <2>1, <2>2
  <2>5. ASSUME NEW key \in PageKeys, HoldsRows(key)'
        PROVE  Own(redis[key][2])'
    <3>1. CASE redis'[key] = Rows(made)
      BY <2>1, <2>2, <3>1, ValueFacts
    <3>2. CASE redis'[key] = Number(total)
      BY <2>5, <3>2, ValueFacts DEF HoldsRows
    <3>3. CASE redis'[key] = redis[key]
      BY <2>2, <2>5, <3>3 DEF HoldsRows
    <3> QED
      BY <2>3, <3>1, <3>2, <3>3
  <2> QED
    BY <2>4, <2>5
<1>2. ASSUME NEW pattern \in Patterns, NEW field \in Fields, NEW page \in Pages,
             SearchHits(pattern, field, page), mishaps' \subseteq {"expiry"}
      PROVE  StatusInv' /\ StatusesOwn'
  <2> DEFINE rows == CachedRows(pattern, page, NoFault)
             total == CachedTotal(pattern, page, NoFault)
  <2>1. /\ rows # None /\ UNCHANGED <<history, redis, mishaps>>
        /\ answer'.rows = IF total = 0 THEN << >> ELSE rows
    BY <1>2 DEF SearchHits, Answers, Misses
  <2>2. HoldsRows(RowsKey(pattern, page)) /\ rows = redis[RowsKey(pattern, page)][2]
    BY <2>1, CachedFacts
  <2>3. Own(rows)
    BY <1>2, <2>1, <2>2, KeyFacts
  <2> HIDE DEF rows, total
  <2>4. StatusesOwn'
    BY <2>1, <2>3
  <2> QED
    BY <2>1, <2>4 DEF HoldsRows
<1>3. ASSUME NEW pattern \in Patterns, NEW field \in Fields, NEW page \in Pages,
             Search(pattern, field, page)
      PROVE  StatusInv' /\ StatusesOwn'
  <2>1. CASE mishaps' \subseteq {"expiry"}
    BY <1>1, <1>2, <1>3, <2>1, SearchSteps
  <2>2. CASE ~ (mishaps' \subseteq {"expiry"})
    BY <2>2
  <2> QED
    BY <2>1, <2>2
<1>4. ASSUME NEW s \in Servers, Change(s)
      PROVE  StatusInv' /\ StatusesOwn'
  <2>1. StatusesOwn'
    BY <1>4 DEF Change
  <2>2. mishaps' \subseteq {"expiry"} => \A key \in PageKeys : redis'[key] = None
    BY <1>4, ChangeDrops, AllDropped DEF Harmless
  <2> QED
    BY <2>1, <2>2 DEF HoldsRows
<1>5. CASE Refresh \/ UNCHANGED vars
  BY <1>5 DEF Refresh, vars, HoldsRows
<1>6. CASE Expire
  <2>1. UNCHANGED <<history, answer>>
    BY <1>6 DEF Expire
  <2>2. /\ mishaps \subseteq mishaps'
        /\ \A key \in Keys : redis'[key] = None \/ redis'[key] = redis[key]
    BY <1>6, Expired
  <2> QED
    BY <2>1, <2>2, KeyFacts DEF HoldsRows
<1> QED
  BY <1>3, <1>4, <1>5, <1>6 DEF Next

\* StatusesOwn for all patterns, pages and fields and any number of servers: if every
\* server that was shown had a searchable history, up to date, and nothing failed, every
\* row of an answer shows its own server's current status.
THEOREM StatusesOwnHolds == Spec => []StatusesOwn
<1>1. Init => StatusInv /\ StatusesOwn
  BY KeyFacts DEF Init, StatusInv, StatusesOwn, HoldsRows
<1>2. TypeOK /\ ListedInv /\ StatusInv /\ StatusesOwn /\ [Next]_vars
        => StatusInv' /\ StatusesOwn'
  BY StatusStep
<1> QED
  BY <1>1, <1>2, TypeOKHolds, ListedHolds, PTL DEF Spec
=============================================================================
