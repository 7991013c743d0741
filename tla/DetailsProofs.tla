----------------------------- MODULE DetailsProofs -----------------------------
(***************************************************************************)
(* Proofs about DetailsServer, in its two parts: the rows it makes of a    *)
(* history and a window (DetailsWindow), and the cache in front of them    *)
(* (DetailsCache).                                                         *)
(*                                                                         *)
(* The window, for every bound on times and histories: type correctness,   *)
(* that every row is truthful, that no change is missed and that the       *)
(* window is reported exactly.  The loop is what makes the induction: the  *)
(* rows of the changes it has visited are truthful, complete and in order. *)
(*                                                                         *)
(* The cache, for any number of requests, windows and versions, and        *)
(* without the bound on mishaps.  What is said of a value of the cache or  *)
(* of a frame is its type and, for a list of rows, that each was made for  *)
(* a window that is accepted and has the key the list is cached under      *)
(* (Inv).  The properties that only hold while requests do not overlap     *)
(* need three more invariants: the key lists are complete (ListedInv), the *)
(* rows in the cache are covered by the status there (CoveredInv), and     *)
(* what a deletion leaves behind is known to it (DeletedInv).              *)
(***************************************************************************)
EXTENDS DetailsCache, DetailsWindow, TLAPS

-----------------------------------------------------------------------------
(* The window.                                                             *)

\* Change k is strictly inside the window.
Strictly(k) == log[k].time > start /\ log[k].time < end

\* The rows include row x.
Has(rows, x) == \E r \in DOMAIN rows : rows[r] = x

\* All rows are truthful.
AllInForce(rows) == \A r \in DOMAIN rows : InForce(rows[r].status, rows[r].time)

\* The loop has shown what is inside the window so far, and ends behind the last change.
VisitedShown ==
  /\ pc \in {"start", "end"} => i = 1
  /\ pc \in {"loop", "done"} => \A k \in DOMAIN log : k < i /\ Strictly(k) => Has(list, log[k])
  /\ pc = "done" => i > Len(log)

IInv == WindowTypeOK /\ Truthful /\ VisitedShown

\* Histories are sequences of rows in chronological order.
LEMMA HistoryFacts ==
  ASSUME NEW h \in Histories
  PROVE  /\ h \in Seq(Row)
         /\ Len(h) \in Nat
         /\ Len(h) >= 1
         /\ DOMAIN h = 1..Len(h)
         /\ \A k \in DOMAIN h : h[k] \in Row
         /\ Chronological(h)
<1>1. PICK n \in 1..MaxChanges : h \in [1..n -> Row]
  BY DEF Histories
<1>2. n \in Nat /\ n >= 1
  BY <1>1, WindowConstantsOK
<1>3. h \in Seq(Row) /\ Len(h) = n /\ DOMAIN h = 1..n
  BY <1>1, <1>2
<1>4. \A k \in DOMAIN h : h[k] \in Row
  BY <1>1
<1> QED
  BY <1>2, <1>3, <1>4 DEF Histories

\* RowIf is a sequence of no or one row.
LEMMA RowIfFacts ==
  ASSUME NEW condition \in BOOLEAN, NEW status \in Statuses, NEW time \in Times
  PROVE  /\ RowIf(condition, status, time) \in Seq(Row)
         /\ \A r \in DOMAIN RowIf(condition, status, time) :
              /\ condition
              /\ RowIf(condition, status, time)[r] = [status |-> status, time |-> time]
         /\ condition => /\ 1 \in DOMAIN RowIf(condition, status, time)
                         /\ RowIf(condition, status, time)[1] = [status |-> status, time |-> time]
<1>1. [status |-> status, time |-> time] \in Row
  BY DEF Row
<1> QED
  BY <1>1 DEF RowIf

\* What holds of the rows of two sequences holds of their concatenation.
LEMMA RowsOfConcat ==
  ASSUME NEW a \in Seq(Row), NEW b \in Seq(Row)
  PROVE  /\ a \o b \in Seq(Row)
         /\ \A r \in DOMAIN (a \o b) :
              \/ \E q \in DOMAIN a : (a \o b)[r] = a[q]
              \/ \E q \in DOMAIN b : (a \o b)[r] = b[q]
         /\ \A q \in DOMAIN a : \E r \in DOMAIN (a \o b) : (a \o b)[r] = a[q]
         /\ \A q \in DOMAIN b : \E r \in DOMAIN (a \o b) : (a \o b)[r] = b[q]
<1>1. a \o b \in Seq(Row)
  OBVIOUS
<1>2. /\ Len(a) \in Nat /\ Len(b) \in Nat
      /\ DOMAIN a = 1..Len(a) /\ DOMAIN b = 1..Len(b)
      /\ DOMAIN (a \o b) = 1..(Len(a) + Len(b))
  OBVIOUS
<1>3. \A r \in 1..(Len(a) + Len(b)) :
        (a \o b)[r] = IF r <= Len(a) THEN a[r] ELSE b[r - Len(a)]
  OBVIOUS
<1>4. ASSUME NEW r \in DOMAIN (a \o b)
      PROVE  \/ \E q \in DOMAIN a : (a \o b)[r] = a[q]
             \/ \E q \in DOMAIN b : (a \o b)[r] = b[q]
  <2>1. CASE r <= Len(a)
    BY <1>2, <1>3, <2>1
  <2>2. CASE r > Len(a)
    <3>1. r - Len(a) \in DOMAIN b
      BY <1>2, <2>2
    <3> QED
      BY <1>2, <1>3, <2>2, <3>1
  <2> QED
    BY <1>2, <2>1, <2>2
<1>5. ASSUME NEW q \in DOMAIN a
      PROVE  \E r \in DOMAIN (a \o b) : (a \o b)[r] = a[q]
  BY <1>2, <1>3
<1>6. ASSUME NEW q \in DOMAIN b
      PROVE  \E r \in DOMAIN (a \o b) : (a \o b)[r] = b[q]
  <2>1. q + Len(a) \in DOMAIN (a \o b)
    BY <1>2
  <2>2. (a \o b)[q + Len(a)] = b[q]
    BY <1>2, <1>3, <2>1
  <2> QED
    BY <2>1, <2>2
<1> QED
  BY <1>1, <1>4, <1>5, <1>6

\* So truthful rows stay truthful, and rows stay included.
LEMMA ConcatFacts ==
  ASSUME NEW a \in Seq(Row), NEW b \in Seq(Row), AllInForce(a), AllInForce(b)
  PROVE  /\ a \o b \in Seq(Row)
         /\ AllInForce(a \o b)
         /\ \A x : Has(a, x) \/ Has(b, x) => Has(a \o b, x)
<1> DEFINE s == a \o b
<1>1. /\ s \in Seq(Row)
      /\ \A r \in DOMAIN s : \/ \E q \in DOMAIN a : s[r] = a[q]
                            \/ \E q \in DOMAIN b : s[r] = b[q]
      /\ \A q \in DOMAIN a : \E r \in DOMAIN s : s[r] = a[q]
      /\ \A q \in DOMAIN b : \E r \in DOMAIN s : s[r] = b[q]
  BY RowsOfConcat
<1> HIDE DEF s
<1>2. AllInForce(s)
  BY <1>1 DEF AllInForce
<1>3. \A x : Has(a, x) \/ Has(b, x) => Has(s, x)
  BY <1>1 DEF Has
<1> QED
  BY <1>1, <1>2, <1>3 DEF s

\* The three rows an iteration may add, and the one that closes the list, are truthful.
LEMMA RowsInForce ==
  ASSUME WindowTypeOK
  PROVE  /\ \A k \in DOMAIN log : \A bound \in Times :
              Straddles(k, bound) => InForce(log[k].status, bound)
         /\ \A k \in DOMAIN log : InForce(log[k].status, log[k].time)
         /\ end > LastTime => InForce(log[Len(log)].status, end)
<1>1. /\ Len(log) \in Nat /\ Len(log) >= 1 /\ DOMAIN log = 1..Len(log)
      /\ \A k \in DOMAIN log : log[k] \in Row
      /\ Chronological(log)
  BY HistoryFacts DEF WindowTypeOK
<1>2. \A k \in DOMAIN log : log[k].time \in Nat
  BY <1>1 DEF Row, Times
<1>3. end \in Nat /\ Times \subseteq Nat
  BY DEF WindowTypeOK, Times
<1>4. ASSUME NEW k \in DOMAIN log, NEW bound \in Times, Straddles(k, bound)
      PROVE  InForce(log[k].status, bound)
  BY <1>1, <1>2, <1>3, <1>4 DEF InForce, Straddles
<1>5. ASSUME NEW k \in DOMAIN log
      PROVE  InForce(log[k].status, log[k].time)
  <2>1. k < Len(log) => log[k].time < log[k + 1].time
    BY <1>1 DEF Chronological
  <2> QED
    BY <1>1, <1>2, <2>1 DEF InForce
<1>6. end > LastTime => InForce(log[Len(log)].status, end)
  BY <1>1, <1>2, <1>3 DEF InForce, LastTime
<1> QED
  BY <1>4, <1>5, <1>6

\* A row that is only added when it is truthful.
LEMMA RowIfTruthful ==
  ASSUME NEW condition \in BOOLEAN, NEW status \in Statuses, NEW time \in Times,
         condition => InForce(status, time)
  PROVE  /\ RowIf(condition, status, time) \in Seq(Row)
         /\ AllInForce(RowIf(condition, status, time))
         /\ condition => Has(RowIf(condition, status, time), [status |-> status, time |-> time])
<1> DEFINE s == RowIf(condition, status, time)
<1>1. /\ s \in Seq(Row)
      /\ \A r \in DOMAIN s : condition /\ s[r] = [status |-> status, time |-> time]
      /\ condition => 1 \in DOMAIN s /\ s[1] = [status |-> status, time |-> time]
  BY RowIfFacts
<1> HIDE DEF s
<1>2. ASSUME NEW r \in DOMAIN s
      PROVE  InForce(s[r].status, s[r].time)
  <2>1. s[r].status = status /\ s[r].time = time /\ InForce(status, time)
    BY <1>1
  <2> QED
    BY <2>1
<1> QED
  BY <1>1, <1>2 DEF s, AllInForce, Has

LEMMA InitIInv ==
  ASSUME WindowInit
  PROVE  IInv
<1>1. Len(log) \in Nat /\ Len(log) >= 1 /\ DOMAIN log = 1..Len(log)
  BY HistoryFacts DEF WindowInit
<1>2. WindowTypeOK
  BY <1>1, WindowConstantsOK DEF WindowInit, WindowTypeOK, Times
<1>3. Truthful
  BY DEF WindowInit, Truthful
<1>4. VisitedShown
  BY DEF WindowInit, VisitedShown
<1> QED
  BY <1>2, <1>3, <1>4 DEF IInv

\* The bounds of the window are chosen before there are rows.
LEMMA ChoosePreservesIInv ==
  ASSUME IInv, ChooseStart \/ ChooseEnd
  PROVE  IInv'
<1> USE DEF IInv
<1>1. /\ Len(log) \in Nat /\ Len(log) >= 1 /\ DOMAIN log = 1..Len(log)
      /\ \A k \in DOMAIN log : log[k] \in Row
  BY HistoryFacts DEF WindowTypeOK
<1>2. FirstTime \in Times
  BY <1>1 DEF FirstTime, Row
<1>3. WindowTypeOK'
  <2>1. CASE ChooseStart
    BY <1>2, <2>1, WindowConstantsOK DEF ChooseStart, WindowTypeOK, inputs, StartIsParsed
  <2>2. CASE ChooseEnd
    BY <2>2, WindowConstantsOK DEF ChooseEnd, WindowTypeOK, inputs
  <2> QED
    BY <2>1, <2>2
<1>4. Truthful'
  BY DEF ChooseStart, ChooseEnd, Truthful, InForce, inputs
<1>5. VisitedShown'
  <2>1. CASE ChooseStart
    BY <2>1 DEF ChooseStart, VisitedShown
  <2>2. CASE ChooseEnd
    BY <1>1, <2>2 DEF ChooseEnd, VisitedShown, inputs
  <2> QED
    BY <2>1, <2>2
<1> QED
  BY <1>3, <1>4, <1>5

\* An iteration adds truthful rows, and the row of its change if that is inside.
LEMMA VisitPreservesIInv ==
  ASSUME IInv, Visit
  PROVE  IInv'
<1> USE DEF IInv
<1> DEFINE a == RowIf(Straddles(i, start), log[i].status, start)
           b == RowIf(Inside(i), log[i].status, log[i].time)
           c == RowIf(Straddles(i, end), log[i].status, end)
<1>1. /\ Len(log) \in Nat /\ Len(log) >= 1 /\ DOMAIN log = 1..Len(log)
      /\ \A k \in DOMAIN log : log[k] \in Row
  BY HistoryFacts DEF WindowTypeOK
<1>2. /\ i \in DOMAIN log /\ i' = i + 1
      /\ list' = ((list \o a) \o b) \o c
      /\ UNCHANGED <<inputs, pc, start, end>>
  BY <1>1 DEF Visit, WindowTypeOK
<1>3. log[i].status \in Statuses /\ log[i].time \in Times
      /\ log[i] = [status |-> log[i].status, time |-> log[i].time]
  BY <1>1, <1>2 DEF Row
<1>4. start \in Times /\ end \in Times /\ list \in Seq(Row)
  BY DEF WindowTypeOK
<1>5. /\ Straddles(i, start) \in BOOLEAN
      /\ Straddles(i, end) \in BOOLEAN
      /\ Inside(i) \in BOOLEAN
  BY DEF Straddles, Inside
<1>6. /\ a \in Seq(Row)
      /\ AllInForce(a)
  <2>1. Straddles(i, start) => InForce(log[i].status, start)
    BY <1>2, <1>4, RowsInForce
  <2> QED
    BY <1>3, <1>4, <1>5, <2>1, RowIfTruthful
<1>7. /\ b \in Seq(Row)
      /\ AllInForce(b)
      /\ Inside(i) => Has(b, log[i])
  <2>1. InForce(log[i].status, log[i].time)
    BY <1>2, RowsInForce
  <2>2. /\ b \in Seq(Row)
        /\ AllInForce(b)
    BY <1>3, <1>5, <2>1, RowIfTruthful
  <2>3. Inside(i) => Has(b, log[i])
    BY <1>3, <1>5, <2>1, RowIfTruthful
  <2> QED
    BY <2>2, <2>3
<1>8. /\ c \in Seq(Row)
      /\ AllInForce(c)
  <2>1. Straddles(i, end) => InForce(log[i].status, end)
    BY <1>2, <1>4, RowsInForce
  <2> QED
    BY <1>3, <1>4, <1>5, <2>1, RowIfTruthful
<1> HIDE DEF a, b, c
<1>9. /\ list \in Seq(Row)
      /\ AllInForce(list)
  BY DEF WindowTypeOK, Truthful, AllInForce
<1>10. /\ list' \in Seq(Row)
       /\ AllInForce(list')
       /\ \A x : Has(list, x) \/ Has(b, x) => Has(list', x)
  <2>1. /\ list \o a \in Seq(Row)
        /\ AllInForce(list \o a)
        /\ \A x : Has(list, x) => Has(list \o a, x)
    BY <1>6, <1>9, ConcatFacts
  <2>2. /\ (list \o a) \o b \in Seq(Row)
        /\ AllInForce((list \o a) \o b)
        /\ \A x : Has(list \o a, x) \/ Has(b, x) => Has((list \o a) \o b, x)
    BY <1>7, <2>1, ConcatFacts
  <2>3. /\ ((list \o a) \o b) \o c \in Seq(Row)
        /\ AllInForce(((list \o a) \o b) \o c)
        /\ \A x : Has((list \o a) \o b, x) => Has(((list \o a) \o b) \o c, x)
    BY <1>8, <2>2, ConcatFacts
  <2> QED
    BY <1>2, <2>1, <2>2, <2>3
<1>13. WindowTypeOK'
  BY <1>1, <1>2, <1>10 DEF WindowTypeOK, inputs
<1>14. Truthful'
  BY <1>2, <1>10 DEF AllInForce, Truthful, InForce, inputs
<1>15. VisitedShown'
  <2>1. pc = "loop"
    BY DEF Visit
  <2>2. ASSUME NEW k \in DOMAIN log, k < i + 1, Strictly(k)
        PROVE  Has(list', log[k])
    <3>1. CASE k = i
      <4>1. Inside(i)
        BY <2>2, <3>1 DEF Strictly, Inside
      <4> QED
        BY <1>7, <1>10, <3>1, <4>1
    <3>2. CASE k < i
      <4>1. Has(list, log[k])
        BY <2>1, <2>2, <3>2 DEF VisitedShown
      <4> QED
        BY <1>10, <4>1
    <3>3. k = i \/ k < i
      BY <1>1, <1>2, <2>2
    <3> QED
      BY <3>1, <3>2, <3>3
  <2> QED
    BY <1>2, <2>1, <2>2 DEF VisitedShown, Strictly, inputs
<1> QED
  BY <1>13, <1>14, <1>15

\* The closing row shows the last status at the end of the window.
LEMMA ClosePreservesIInv ==
  ASSUME IInv, Close
  PROVE  IInv'
<1> USE DEF IInv
<1> DEFINE a == RowIf(end > LastTime, log[Len(log)].status, end)
<1>1. /\ Len(log) \in Nat /\ Len(log) >= 1 /\ DOMAIN log = 1..Len(log)
      /\ \A k \in DOMAIN log : log[k] \in Row
  BY HistoryFacts DEF WindowTypeOK
<1>2. /\ list' = list \o a
      /\ i > Len(log)
      /\ pc = "loop" /\ pc' = "done"
      /\ UNCHANGED <<inputs, start, end, i>>
  BY DEF Close
<1>3. log[Len(log)].status \in Statuses /\ end \in Times /\ list \in Seq(Row)
  BY <1>1 DEF Row, WindowTypeOK
<1>4. /\ a \in Seq(Row)
      /\ AllInForce(a)
  <2>1. (end > LastTime) \in BOOLEAN /\ (end > LastTime => InForce(log[Len(log)].status, end))
    BY RowsInForce
  <2> QED
    BY <1>3, <2>1, RowIfTruthful
<1> HIDE DEF a
<1>5. /\ list' \in Seq(Row)
      /\ AllInForce(list')
      /\ \A x : Has(list, x) => Has(list', x)
  <2>1. AllInForce(list)
    BY DEF Truthful, AllInForce
  <2> QED
    BY <1>2, <1>3, <1>4, <2>1, ConcatFacts
<1>6. WindowTypeOK'
  BY <1>2, <1>5 DEF WindowTypeOK, inputs
<1>7. Truthful'
  BY <1>2, <1>5 DEF AllInForce, Truthful, InForce, inputs
<1>8. VisitedShown'
  BY <1>2, <1>5 DEF VisitedShown, Strictly, inputs
<1> QED
  BY <1>6, <1>7, <1>8

LEMMA StutterPreservesIInv ==
  ASSUME IInv, UNCHANGED windowVars
  PROVE  IInv'
BY DEF IInv, windowVars, inputs, WindowTypeOK, Truthful, InForce, VisitedShown, Strictly, Has

LEMMA IInvHolds == WindowSpec => []IInv
<1>1. WindowInit => IInv
  BY InitIInv
<1>2. IInv /\ [WindowNext]_windowVars => IInv'
  BY ChoosePreservesIInv, VisitPreservesIInv, ClosePreservesIInv, StutterPreservesIInv DEF WindowNext
<1> QED
  BY <1>1, <1>2, PTL DEF WindowSpec

\* The inputs stay what they are, the bounds are times, the list is one of rows: for
\* any history and any bound on the times.
THEOREM WindowTypeCorrect == WindowSpec => []WindowTypeOK
BY IInvHolds, PTL DEF IInv

\* DetailsServer never shows a status the server did not have at the time it shows,
\* for any history and any window.
THEOREM TruthfulHolds == WindowSpec => []Truthful
BY IInvHolds, PTL DEF IInv

\* DetailsServer shows every change strictly inside the window, for any history and
\* any window.
THEOREM NothingMissedHolds == WindowSpec => []NothingMissed
<1>1. IInv => NothingMissed
  <2> SUFFICES ASSUME IInv, pc = "done",
                      NEW k \in DOMAIN log, log[k].time > start, log[k].time < end
               PROVE  \E r \in DOMAIN list : list[r] = log[k]
    BY DEF NothingMissed
  <2>1. Len(log) \in Nat /\ DOMAIN log = 1..Len(log) /\ i \in Nat
    BY HistoryFacts DEF IInv, WindowTypeOK
  <2>2. k < i
    BY <2>1 DEF IInv, VisitedShown
  <2> QED
    BY <2>2 DEF IInv, VisitedShown, Strictly, Has
<1> QED
  BY <1>1, IInvHolds, PTL

-----------------------------------------------------------------------------
(* WindowReported.  An iteration adds the times of the answer that lie      *)
(* between its change and the next one, in order, so that the loop goes     *)
(* through the ends of the window and the changes in it from first to last. *)

\* A window that is answered with just its ends and the changes between them.
Regular == oneZone /\ start <= end /\ start <= LastTime

\* The times that such an answer shows.
Due == {start, end} \cup {log[k].time : k \in {j \in DOMAIN log : Strictly(j)}}

\* The loop has come past time t.
Passed(t) ==
  \/ pc = "done"
  \/ pc = "loop" /\ i <= Len(log) /\ t < log[i].time
  \/ pc = "loop" /\ i > Len(log) /\ t <= LastTime

TimesOf(rows) == {rows[r].time : r \in DOMAIN rows}

\* No time of T comes before one of S, nor with it if the window has a length.
UpTo(S, T) == \A x \in S, y \in T : x <= y /\ (start < end => x # y)

Ordered(rows) ==
  \A q, r \in DOMAIN rows : q < r =>
    rows[q].time <= rows[r].time /\ (start < end => rows[q].time # rows[r].time)

WindowInv ==
  /\ pc \in {"start", "end"} => list = << >>
  /\ pc # "start" => FirstTime <= start
  /\ pc \in {"loop", "done"} /\ Regular =>
       Ordered(list) /\ TimesOf(list) = {t \in Due : Passed(t)}

LEMMA TimesOfConcat ==
  ASSUME NEW a \in Seq(Row), NEW b \in Seq(Row)
  PROVE  TimesOf(a \o b) = TimesOf(a) \cup TimesOf(b)
<1> DEFINE s == a \o b
<1>1. /\ \A r \in DOMAIN s : \/ \E q \in DOMAIN a : s[r] = a[q]
                            \/ \E q \in DOMAIN b : s[r] = b[q]
      /\ \A q \in DOMAIN a : \E r \in DOMAIN s : s[r] = a[q]
      /\ \A q \in DOMAIN b : \E r \in DOMAIN s : s[r] = b[q]
  BY RowsOfConcat
<1> HIDE DEF s
<1>2. TimesOf(s) = TimesOf(a) \cup TimesOf(b)
  BY <1>1 DEF TimesOf
<1> QED
  BY <1>2 DEF s

LEMMA OrderedConcat ==
  ASSUME NEW a \in Seq(Row), NEW b \in Seq(Row), Ordered(a), Ordered(b),
         UpTo(TimesOf(a), TimesOf(b))
  PROVE  Ordered(a \o b)
<1> DEFINE s == a \o b
<1>1. /\ Len(a) \in Nat /\ Len(b) \in Nat
      /\ DOMAIN a = 1..Len(a) /\ DOMAIN b = 1..Len(b)
      /\ DOMAIN s = 1..(Len(a) + Len(b))
      /\ \A r \in 1..(Len(a) + Len(b)) : s[r] = IF r <= Len(a) THEN a[r] ELSE b[r - Len(a)]
  OBVIOUS
<1> HIDE DEF s
<1>2. ASSUME NEW q \in DOMAIN s, NEW r \in DOMAIN s, q < r
      PROVE  s[q].time <= s[r].time /\ (start < end => s[q].time # s[r].time)
  <2>1. CASE r <= Len(a)
    <3>1. q \in DOMAIN a /\ r \in DOMAIN a /\ s[q] = a[q] /\ s[r] = a[r]
      BY <1>1, <1>2, <2>1
    <3> QED
      BY <1>2, <3>1 DEF Ordered
  <2>2. CASE q > Len(a)
    <3>1. /\ q - Len(a) \in DOMAIN b /\ r - Len(a) \in DOMAIN b /\ q - Len(a) < r - Len(a)
          /\ s[q] = b[q - Len(a)] /\ s[r] = b[r - Len(a)]
      BY <1>1, <1>2, <2>2
    <3> QED
      BY <3>1 DEF Ordered
  <2>3. CASE q <= Len(a) /\ r > Len(a)
    <3>1. /\ q \in DOMAIN a /\ r - Len(a) \in DOMAIN b
          /\ s[q] = a[q] /\ s[r] = b[r - Len(a)]
      BY <1>1, <1>2, <2>3
    <3>2. s[q].time \in TimesOf(a) /\ s[r].time \in TimesOf(b)
      BY <3>1 DEF TimesOf
    <3> QED
      BY <3>2 DEF UpTo
  <2> QED
    BY <1>1, <2>1, <2>2, <2>3
<1>3. Ordered(s)
  BY <1>2 DEF Ordered
<1> QED
  BY <1>3 DEF s

LEMMA RowIfOrdered ==
  ASSUME NEW condition \in BOOLEAN, NEW status \in Statuses, NEW time \in Times
  PROVE  /\ RowIf(condition, status, time) \in Seq(Row)
         /\ Ordered(RowIf(condition, status, time))
         /\ TimesOf(RowIf(condition, status, time)) = IF condition THEN {time} ELSE {}
<1> DEFINE s == RowIf(condition, status, time)
<1>1. /\ s \in Seq(Row)
      /\ \A r \in DOMAIN s : condition /\ s[r] = [status |-> status, time |-> time]
      /\ condition => 1 \in DOMAIN s /\ s[1] = [status |-> status, time |-> time]
  BY RowIfFacts
<1>2. DOMAIN s \subseteq {1}
  BY DEF RowIf
<1> HIDE DEF s
<1>3. Ordered(s)
  BY <1>2 DEF Ordered
<1>4. TimesOf(s) = IF condition THEN {time} ELSE {}
  BY <1>1 DEF TimesOf
<1> QED
  BY <1>1, <1>3, <1>4 DEF s

\* The times of a history grow with its changes.
LEMMA LogFacts ==
  ASSUME WindowTypeOK
  PROVE  /\ Len(log) \in Nat /\ Len(log) >= 1 /\ DOMAIN log = 1..Len(log)
         /\ \A k \in DOMAIN log : /\ log[k].status \in Statuses /\ log[k].time \in Times
                                  /\ log[k].time \in Nat /\ log[k].time <= LastTime
         /\ \A j, k \in DOMAIN log : j < k => log[j].time < log[k].time
         /\ {start, end} \subseteq Nat /\ LastTime \in Nat /\ i \in Nat
         /\ Due \subseteq Nat
<1>1. /\ Len(log) \in Nat /\ Len(log) >= 1 /\ DOMAIN log = 1..Len(log)
      /\ \A k \in DOMAIN log : log[k] \in Row
      /\ Chronological(log)
  BY HistoryFacts DEF WindowTypeOK
<1>2. Times \subseteq Nat
  BY DEF Times
<1>3. /\ \A k \in DOMAIN log : /\ log[k].status \in Statuses /\ log[k].time \in Times
                                /\ log[k].time \in Nat
      /\ \A j, k \in DOMAIN log : j < k => log[j].time < log[k].time
  BY <1>1, <1>2 DEF Row, Chronological
<1>4. \A k \in DOMAIN log : log[k].time <= LastTime
  BY <1>1, <1>3 DEF LastTime
<1>5. {start, end} \subseteq Nat /\ LastTime \in Nat /\ i \in Nat
  <2>1. Len(log) \in DOMAIN log /\ i \in 1..(Len(log) + 1)
    BY <1>1 DEF WindowTypeOK
  <2>2. LastTime \in Nat
    BY <1>3, <2>1 DEF LastTime
  <2>3. {start, end} \subseteq Nat
    BY <1>2 DEF WindowTypeOK
  <2> QED
    BY <1>1, <2>1, <2>2, <2>3
<1>6. Due \subseteq Nat
  BY <1>3, <1>5 DEF Due
<1> QED
  BY <1>1, <1>3, <1>4, <1>5, <1>6

\* The times that the iteration at change i adds.
LEMMA VisitTimes ==
  ASSUME WindowTypeOK, Regular, i \in DOMAIN log, pc = "loop"
  PROVE  LET L == {t \in Due : Passed(t)}
             A == IF Straddles(i, start) THEN {start} ELSE {}
             B == IF Inside(i) THEN {log[i].time} ELSE {}
             C == IF Straddles(i, end) THEN {end} ELSE {}
         IN  /\ UpTo(L, A) /\ UpTo(L \cup A, B) /\ UpTo(L \cup A \cup B, C)
             /\ L \cup A \cup B \cup C =
                  {t \in Due : IF i < Len(log) THEN t < log[i + 1].time ELSE t <= LastTime}
<1> DEFINE L == {t \in Due : Passed(t)}
           A == IF Straddles(i, start) THEN {start} ELSE {}
           B == IF Inside(i) THEN {log[i].time} ELSE {}
           C == IF Straddles(i, end) THEN {end} ELSE {}
           T == log[i].time
           N == log[i + 1].time
<1>1. /\ Len(log) \in Nat /\ DOMAIN log = 1..Len(log)
      /\ \A k \in DOMAIN log : log[k].time \in Nat /\ log[k].time <= LastTime
      /\ \A j, k \in DOMAIN log : j < k => log[j].time < log[k].time
      /\ start \in Nat /\ end \in Nat /\ LastTime \in Nat /\ i \in Nat
      /\ Due \subseteq Nat
  BY LogFacts
<1>2. start <= end /\ oneZone /\ T \in Nat /\ T <= LastTime /\ start <= LastTime
  BY <1>1 DEF Regular
<1>3. /\ i < Len(log) => N \in Nat /\ T < N /\ T < LastTime
      /\ i = Len(log) => T = LastTime
      /\ i < Len(log) \/ i = Len(log)
  <2>1. i < Len(log) => i + 1 \in DOMAIN log
    BY <1>1
  <2>2. i < Len(log) => N \in Nat /\ T < N /\ N <= LastTime
    BY <1>1, <2>1
  <2> QED
    BY <1>1, <1>2, <2>2 DEF LastTime
<1>4. L = {t \in Due : t < T}
  BY <1>1 DEF Passed
<1>5. /\ Straddles(i, start) <=> i < Len(log) /\ T < start /\ start < N
      /\ Straddles(i, end) <=> i < Len(log) /\ T < end /\ end < N
  BY <1>2, <1>3 DEF Straddles
<1>6. Inside(i) <=> (T > start /\ T < end) \/ T = start \/ T = end
  BY <1>2 DEF Inside, EqualsStart, EqualsEnd
<1>7. {start, end} \subseteq Due /\ (Inside(i) => T \in Due)
  BY <1>6 DEF Due, Strictly
\* No other change lies from this one up to the next.
<1>8. ASSUME NEW t \in Due, t >= T, i < Len(log) => t < N, i = Len(log) => t <= LastTime
      PROVE  t \in {start, end} \/ (t = T /\ Inside(i))
  <2>1. SUFFICES ASSUME NEW k \in DOMAIN log, t = log[k].time, Strictly(k)
                 PROVE  t = T /\ Inside(i)
    BY DEF Due
  <2>2. ~ (k < i)
    BY <1>1, <1>2, <1>8, <2>1
  <2>3. ~ (k > i)
    <3>1. ASSUME k > i PROVE FALSE
      <4>1. i < Len(log) /\ i + 1 \in DOMAIN log /\ (k = i + 1 \/ i + 1 < k)
        BY <1>1, <3>1
      <4>2. N <= log[k].time
        BY <1>1, <1>3, <4>1
      <4> QED
        BY <1>1, <1>3, <1>8, <2>1, <4>1, <4>2
    <3> QED
      BY <3>1
  <2>4. k = i
    BY <1>1, <2>2, <2>3
  <2> QED
    BY <1>6, <2>1, <2>4 DEF Strictly
<1> HIDE DEF T, N
<1>9. UpTo(L, A)
  BY <1>1, <1>2, <1>4, <1>5 DEF UpTo
<1>10. UpTo(L \cup A, B)
  <2>1. Straddles(i, start) => ~ Inside(i)
    BY <1>1, <1>2, <1>5, <1>6
  <2>2. B \subseteq {T}
    BY DEF T
  <2> QED
    BY <1>1, <1>2, <1>4, <2>1, <2>2 DEF UpTo
<1>11. UpTo(L \cup A \cup B, C)
  <2>1. B \subseteq {T} /\ A \subseteq {start} /\ C \subseteq {end}
    BY DEF T
  <2>2. ASSUME NEW x \in L \cup A \cup B, NEW y \in C PROVE x <= y /\ (start < end => x # y)
    <3>1. y = end /\ T < end
      BY <1>5
    <3>2. CASE x \in L
      BY <1>1, <1>2, <1>4, <3>1, <3>2
    <3>3. CASE x = start \/ x = T
      BY <1>1, <1>2, <3>1, <3>3
    <3> QED
      BY <2>1, <3>2, <3>3
  <2> QED
    BY <2>2 DEF UpTo
<1>12. L \cup A \cup B \cup C = {t \in Due : IF i < Len(log) THEN t < N ELSE t <= LastTime}
  <2> DEFINE Next1 == {t \in Due : IF i < Len(log) THEN t < N ELSE t <= LastTime}
  <2>1. ASSUME NEW t \in L PROVE t \in Next1
    <3>1. t \in Due /\ t \in Nat /\ t < T
      BY <1>1, <1>4
    <3>2. IF i < Len(log) THEN t < N ELSE t <= LastTime
      BY <1>1, <1>2, <1>3, <3>1
    <3> QED
      BY <3>1, <3>2
  <2>2. A \subseteq Next1 /\ C \subseteq Next1
    BY <1>5, <1>7
  <2>3. B \subseteq Next1
    BY <1>2, <1>3, <1>7 DEF T
  <2>4. ASSUME NEW t \in Next1 PROVE t \in L \cup A \cup B \cup C
    <3>1. CASE t < T
      BY <1>4, <3>1
    <3>2. CASE t >= T
      <4>1. t \in {start, end} \/ (t = T /\ Inside(i))
        BY <1>3, <1>8, <3>2
      <4>2. t = T /\ t \in {start, end} => Inside(i)
        BY <1>6
      <4>3. t > T => i < Len(log) /\ t < N
        BY <1>1, <1>2, <1>3
      <4>4. t = T => t \in B
        BY <4>1, <4>2 DEF T
      <4>5. t > T => t \in A \cup C
        BY <1>2, <4>1, <4>3, <1>5
      <4>6. t = T \/ t > T
        BY <1>1, <1>2, <3>2
      <4> QED
        BY <4>4, <4>5, <4>6
    <3> QED
      BY <1>1, <1>2, <3>1, <3>2
  <2> QED
    BY <2>1, <2>2, <2>3, <2>4
<1> QED
  BY <1>9, <1>10, <1>11, <1>12 DEF N

LEMMA VisitOrdered ==
  ASSUME WindowTypeOK, WindowInv, Regular, Visit
  PROVE  Ordered(list') /\ TimesOf(list') = {t \in Due : Passed(t)'}
<1> DEFINE a == RowIf(Straddles(i, start), log[i].status, start)
           b == RowIf(Inside(i), log[i].status, log[i].time)
           c == RowIf(Straddles(i, end), log[i].status, end)
           L == {t \in Due : Passed(t)}
           A == IF Straddles(i, start) THEN {start} ELSE {}
           B == IF Inside(i) THEN {log[i].time} ELSE {}
           C == IF Straddles(i, end) THEN {end} ELSE {}
<1>1. /\ Len(log) \in Nat /\ DOMAIN log = 1..Len(log) /\ i \in Nat
      /\ \A k \in DOMAIN log : log[k].status \in Statuses /\ log[k].time \in Times
      /\ start \in Times /\ end \in Times /\ list \in Seq(Row)
  BY LogFacts DEF WindowTypeOK
<1>2. /\ i \in DOMAIN log /\ pc = "loop" /\ i' = i + 1
      /\ list' = ((list \o a) \o b) \o c
      /\ UNCHANGED <<log, pc>>
  BY <1>1 DEF Visit, WindowTypeOK, inputs
<1>3. Ordered(list) /\ TimesOf(list) = L
  BY <1>2 DEF WindowInv
<1>4. /\ Straddles(i, start) \in BOOLEAN
      /\ Straddles(i, end) \in BOOLEAN
      /\ Inside(i) \in BOOLEAN
  BY DEF Straddles, Inside
<1>5. a \in Seq(Row) /\ Ordered(a) /\ TimesOf(a) = A
  BY <1>1, <1>2, <1>4, RowIfOrdered
<1>6. b \in Seq(Row) /\ Ordered(b) /\ TimesOf(b) = B
  BY <1>1, <1>2, <1>4, RowIfOrdered
<1>7. c \in Seq(Row) /\ Ordered(c) /\ TimesOf(c) = C
  BY <1>1, <1>2, <1>4, RowIfOrdered
<1>8. /\ UpTo(L, A) /\ UpTo(L \cup A, B) /\ UpTo(L \cup A \cup B, C)
      /\ L \cup A \cup B \cup C =
           {t \in Due : IF i < Len(log) THEN t < log[i + 1].time ELSE t <= LastTime}
  BY <1>2, VisitTimes
<1> HIDE DEF a, b, c, L, A, B, C
<1>9. list \o a \in Seq(Row) /\ Ordered(list \o a) /\ TimesOf(list \o a) = L \cup A
  BY <1>1, <1>3, <1>5, <1>8, OrderedConcat, TimesOfConcat
<1> DEFINE d == list \o a e == d \o b
<1> HIDE DEF d
<1>13. d \in Seq(Row) /\ Ordered(d) /\ TimesOf(d) = L \cup A
  BY <1>9 DEF d
<1>10. e \in Seq(Row) /\ Ordered(e) /\ TimesOf(e) = L \cup A \cup B
  <2>1. UpTo(TimesOf(d), TimesOf(b))
    BY <1>6, <1>8, <1>13
  <2>2. d \o b \in Seq(Row)
    BY <1>6, <1>13
  <2>3. Ordered(d \o b) /\ TimesOf(d \o b) = TimesOf(d) \cup TimesOf(b)
    BY <1>6, <1>13, <2>1, OrderedConcat, TimesOfConcat
  <2> QED
    BY <1>6, <1>13, <2>2, <2>3
<1> HIDE DEF e
<1>11. Ordered(e \o c) /\ TimesOf(e \o c) = L \cup A \cup B \cup C
  BY <1>7, <1>8, <1>10, OrderedConcat, TimesOfConcat
<1>12. \A t : Passed(t)' <=> IF i < Len(log) THEN t < log[i + 1].time ELSE t <= LastTime
  BY <1>1, <1>2 DEF Passed, LastTime
<1> QED
  BY <1>2, <1>8, <1>11, <1>12 DEF d, e

\* What is left after the loop is at most the end of the window.
LEMMA CloseOrdered ==
  ASSUME WindowTypeOK, WindowInv, Regular, Close
  PROVE  Ordered(list') /\ TimesOf(list') = Due
<1> DEFINE a == RowIf(end > LastTime, log[Len(log)].status, end)
           A == IF end > LastTime THEN {end} ELSE {}
           L == {t \in Due : t <= LastTime}
<1>1. /\ Len(log) \in Nat /\ Len(log) >= 1 /\ DOMAIN log = 1..Len(log)
      /\ \A k \in DOMAIN log : log[k].status \in Statuses /\ log[k].time <= LastTime
      /\ end \in Times /\ list \in Seq(Row)
      /\ end \in Nat /\ LastTime \in Nat /\ Due \subseteq Nat
  BY LogFacts DEF WindowTypeOK
<1>2. Ordered(list) /\ TimesOf(list) = L /\ list' = list \o a
  <2>1. pc = "loop" /\ i > Len(log) /\ list' = list \o a
    BY DEF Close
  <2>2. \A t : Passed(t) <=> t <= LastTime
    BY <1>1, <2>1, LogFacts DEF Passed
  <2> QED
    BY <2>1, <2>2 DEF WindowInv
<1>3. a \in Seq(Row) /\ Ordered(a) /\ TimesOf(a) = A
  <2>1. (end > LastTime) \in BOOLEAN /\ log[Len(log)].status \in Statuses
    BY <1>1
  <2> QED
    BY <1>1, <2>1, RowIfOrdered
<1>4. UpTo(L, A)
  BY <1>1 DEF UpTo
<1>5. L \cup A = Due
  <2>1. \A t \in Due : t <= LastTime \/ t = end
    BY <1>1 DEF Due, Regular
  <2>2. end \in Due
    BY DEF Due
  <2>3. ASSUME NEW t \in Due PROVE t \in L \cup A
    BY <1>1, <2>1
  <2> QED
    BY <2>2, <2>3
<1> HIDE DEF a, A, L
<1> QED
  BY <1>1, <1>2, <1>3, <1>4, <1>5, OrderedConcat, TimesOfConcat

LEMMA WindowInvStep == WindowTypeOK /\ VisitedShown /\ WindowInv /\ [WindowNext]_windowVars => WindowInv'
<1> SUFFICES ASSUME WindowTypeOK, VisitedShown, WindowInv, [WindowNext]_windowVars PROVE WindowInv'
  OBVIOUS
<1>1. /\ Len(log) \in Nat /\ Len(log) >= 1 /\ DOMAIN log = 1..Len(log)
      /\ \A k \in DOMAIN log : log[k].time \in Nat
      /\ \A j, k \in DOMAIN log : j < k => log[j].time < log[k].time
      /\ start \in Nat /\ end \in Nat
  BY LogFacts
<1>2. CASE ChooseStart
  <2>1. FirstTime \in Nat /\ FirstTime' = FirstTime
    BY <1>1, <1>2 DEF ChooseStart, FirstTime, inputs
  <2>2. FirstTime <= start'
    BY <1>2, <2>1 DEF ChooseStart, StartIsParsed
  <2> QED
    BY <1>2, <2>1, <2>2 DEF WindowInv, ChooseStart
<1>3. CASE ChooseEnd
  <2>1. /\ list' = << >> /\ pc' = "loop" /\ i' = 1 /\ start' = start
        /\ FirstTime' = FirstTime /\ log' = log
    BY <1>3 DEF ChooseEnd, WindowInv, VisitedShown, FirstTime, inputs
  <2>2. FirstTime <= start
    BY <1>3 DEF ChooseEnd, WindowInv
  <2>3. ASSUME Regular', NEW t \in Due' PROVE ~ Passed(t)'
    <3>1. FirstTime <= start' /\ FirstTime <= end' /\ start' \in Nat /\ end' \in Nat
      <4>1. end' \in Nat
        BY ChoosePreservesIInv, <1>3, LogFacts DEF ChooseEnd, WindowTypeOK, Times, inputs
      <4> QED
        BY <1>1, <2>1, <2>2, <2>3, <4>1 DEF Regular, FirstTime
    <3>2. \A k \in DOMAIN log : FirstTime <= log[k].time
      BY <1>1 DEF FirstTime
    <3>3. FirstTime <= t /\ t \in Nat /\ FirstTime \in Nat
      BY <1>1, <2>1, <3>1, <3>2 DEF Due, FirstTime
    <3>4. pc' = "loop" /\ i' = 1 /\ Len(log') >= 1 /\ ~ (1 > Len(log')) /\ log'[1].time = FirstTime
      BY <1>1, <2>1 DEF FirstTime
    <3>5. ~ (t < FirstTime)
      BY <3>3
    <3> QED
      BY <3>4, <3>5 DEF Passed
  <2>4. Ordered(list)' /\ TimesOf(list)' = {}
    BY <2>1 DEF Ordered, TimesOf
  <2> QED
    BY <2>1, <2>2, <2>3, <2>4 DEF WindowInv
<1>4. CASE Visit
  <2>1. UNCHANGED <<inputs, pc, start, end>> /\ pc = "loop"
    BY <1>4 DEF Visit
  <2>2. /\ Regular' = Regular /\ Due' = Due /\ FirstTime' = FirstTime
        /\ Ordered(list)' = Ordered(list') /\ TimesOf(list)' = TimesOf(list')
    BY <2>1 DEF Regular, Due, Strictly, LastTime, FirstTime, Ordered, TimesOf, inputs
  <2>3. Regular => Ordered(list') /\ TimesOf(list') = {t \in Due : Passed(t)'}
    BY <1>4, VisitOrdered
  <2> QED
    BY <2>1, <2>2, <2>3 DEF WindowInv
<1>5. CASE Close
  <2>1. UNCHANGED <<inputs, start, end>> /\ pc = "loop" /\ pc' = "done"
    BY <1>5 DEF Close
  <2>2. /\ Regular' = Regular /\ Due' = Due /\ FirstTime' = FirstTime
        /\ Ordered(list)' = Ordered(list') /\ TimesOf(list)' = TimesOf(list')
    BY <2>1 DEF Regular, Due, Strictly, LastTime, FirstTime, Ordered, TimesOf, inputs
  <2>3. Regular => Ordered(list') /\ TimesOf(list') = Due
    BY <1>5, CloseOrdered
  <2>4. \A t : Passed(t)'
    BY <2>1 DEF Passed
  <2> QED
    BY <2>1, <2>2, <2>3, <2>4 DEF WindowInv
<1>6. CASE UNCHANGED windowVars
  BY <1>6 DEF windowVars, inputs, WindowInv, Regular, Due, Strictly, Passed, LastTime, FirstTime,
              Ordered, TimesOf
<1> QED
  BY <1>2, <1>3, <1>4, <1>5, <1>6 DEF WindowNext

\* WindowReported, of the loop of DetailsServer: for any history and any window that is not
\* turned around, begins no later than the last change and is given in the zone of the history.
THEOREM WindowReportedHolds == WindowSpec => []WindowReported
<1>1. WindowInit => WindowInv
  BY DEF WindowInit, WindowInv
<1>2. IInv /\ WindowInv => WindowReported
  <2> SUFFICES ASSUME WindowTypeOK, WindowInv, pc = "done", Regular PROVE WindowReported
    BY DEF IInv, WindowReported, Regular
  <2>1. Ordered(list) /\ TimesOf(list) = Due
    BY DEF WindowInv, Passed
  <2>2. TimesOf(list) = {list[r].time : r \in DOMAIN list} /\ DOMAIN list \subseteq Nat
    BY DEF TimesOf, WindowTypeOK
  <2>3. \A q, r \in DOMAIN list : q # r => q < r \/ r < q
    BY <2>2
  <2>4. start < end => \A q, r \in DOMAIN list : q # r => list[q].time # list[r].time
    BY <2>1, <2>3 DEF Ordered
  <2> QED
    BY <2>1, <2>2, <2>4 DEF WindowReported, Due, Strictly, Ordered
<1>3. IInv /\ WindowInv /\ [WindowNext]_windowVars => WindowInv'
  BY WindowInvStep DEF IInv
<1> QED
  BY <1>1, <1>2, <1>3, IInvHolds, PTL DEF WindowSpec

-----------------------------------------------------------------------------
(* The cache.                                                              *)

KeyLists == {KeyList(kind) : kind \in Kinds}

\* The keys that the key list of a kind may name.
OfKind(kind) == {slot \in Slots : slot[1] = kind}

\* The rows that belong under the key of w.
Fit(w) == [window : {v \in Windows \ Malformed : KeyOf(v) = KeyOf(w)}, version : Versions]

CachesOK ==
  /\ DOMAIN redis = Keys /\ DOMAIN drive = Keys
  /\ \A w \in Windows :
       {redis[ListSlot(w)], drive[ListSlot(w)]} \subseteq Seq(Fit(w)) \cup {None}
  /\ {redis[StatusSlot], drive[StatusSlot]} \subseteq Versions \cup {None}
  /\ \A kind \in Kinds :
       {redis[KeyList(kind)], drive[KeyList(kind)]} \subseteq (SUBSET OfKind(kind)) \cup {None}
  /\ global \in [Kinds -> (SUBSET Slots) \cup {None}]
  /\ \A kind \in Kinds : global[kind] \in {None, redis[KeyList(kind)]}

DetailsLabels ==
  {"getList", "getStatus", "search", "setList", "setStatus", "readKeys", "writeKeys", "reply"}

FrameOK(f) ==
  /\ f \in Frame
  /\ f.keys \subseteq OfKind(f.kind)
  /\ f.kind = "list" \/ f.pc \in {"readKeys", "writeKeys", "findKeys", "drop"}
  /\ f.pc \in DetailsLabels => f.window \in Windows /\ f.list \in Seq(Fit(f.window))

FramesOK == /\ frame \in [Requests -> Frame]
            /\ \A c \in Requests : FrameOK(frame[c])

Inv == {history, visible} \subseteq Versions /\ CachesOK /\ FramesOK

-----------------------------------------------------------------------------
(* The invariant implies the property.                                     *)

\* timeIn+timeOut; what is known of it is TimesReadable.
Joined(a, b) == a \o b

LEMMA Readable ==
  \A a, b, x, y \in ParsedTimes :
    Joined(a, b) = Joined(x, y) =>
      \/ a = x /\ b = y
      \/ a = y /\ b = x /\ << >> \in {a, b}
<1> SUFFICES ASSUME NEW a \in ParsedTimes, NEW b \in ParsedTimes, NEW x \in ParsedTimes, NEW y \in ParsedTimes,
                    a \o b = x \o y
             PROVE  \/ a = x /\ b = y
                    \/ a = y /\ b = x /\ << >> \in {a, b}
  BY Zenon DEF Joined
<1> QED
  BY TimesReadable, Zenon

LEMMA InvAnswers == Inv => AnswersWindowAsked
<1> SUFFICES ASSUME Inv, NEW c \in Requests, At(c, "reply"), NEW j \in DOMAIN frame[c].list
             PROVE  LET asked == frame[c].window
                        made == frame[c].list[j].window IN
                    /\ made \notin Malformed
                    /\ \/ made = asked
                       \/ /\ made.timeIn = asked.timeOut /\ made.timeOut = asked.timeIn
                          /\ << >> \in {made.timeIn, made.timeOut}
                       \/ /\ asked \in Malformed
                          /\ made.timeIn \o made.timeOut = asked.timeIn \o asked.timeOut
  BY DEF AnswersWindowAsked
<1> DEFINE asked == frame[c].window
           made == frame[c].list[j].window
<1>1. asked \in Windows /\ frame[c].list \in Seq(Fit(asked))
  BY DEF Inv, FramesOK, FrameOK, DetailsLabels, At
<1>2. frame[c].list[j] \in Fit(asked)
  BY <1>1
<1>3. made \in Windows \ Malformed /\ KeyOf(made) = KeyOf(asked)
  BY <1>2 DEF Fit
<1>4. made.timeIn \o made.timeOut = asked.timeIn \o asked.timeOut
  BY <1>3 DEF KeyOf
<1>5. CASE asked \notin Malformed
  <2>1. {made.timeIn, made.timeOut, asked.timeIn, asked.timeOut} \subseteq ParsedTimes
    BY <1>1, <1>3, <1>5 DEF ParsedTimes
  <2>2. \/ made.timeIn = asked.timeIn /\ made.timeOut = asked.timeOut
        \/ /\ made.timeIn = asked.timeOut /\ made.timeOut = asked.timeIn
           /\ << >> \in {made.timeIn, made.timeOut}
    <3>1. Joined(made.timeIn, made.timeOut) = Joined(asked.timeIn, asked.timeOut)
      BY <1>4 DEF Joined
    <3> QED
      BY <2>1, <3>1, Readable
  <2>3. \A w \in Windows : w = [timeIn |-> w.timeIn, timeOut |-> w.timeOut]
    BY ConstantsOK DEF ConstantsOK
  <2> HIDE DEF made, asked
  <2>4. made.timeIn = asked.timeIn /\ made.timeOut = asked.timeOut => made = asked
    BY <1>1, <1>3, <2>3, Zenon DEF made, asked
  <2> QED
    BY <1>3, <2>2, <2>4 DEF made, asked
<1> QED
  BY <1>3, <1>4, <1>5

-----------------------------------------------------------------------------
(* Keys, the cache and frames.                                             *)

\* The three kinds of keys are different.
LEMMA KeyFacts ==
  /\ \A w \in Windows : ListSlot(w) \in Slots /\ ListSlot(w)[1] = "list"
  /\ StatusSlot \in Slots /\ StatusSlot[1] = "status"
  /\ \A slot \in Slots : slot[2] # None
  /\ \A w \in Windows : ListSlot(w) # StatusSlot
  /\ \A kind \in Kinds : KeyList(kind)[1] = kind /\ KeyList(kind)[2] = None
  /\ Keys = Slots \cup KeyLists
  /\ \A kind \in Kinds : KeyList(kind) \in Keys /\ KeyList(kind) \notin Slots
  /\ \A w \in Windows : ListSlot(w) \in OfKind("list")
  /\ StatusSlot \in OfKind("status")
  /\ \A v, w \in Windows : ListSlot(v) = ListSlot(w) => KeyOf(v) = KeyOf(w)
<1>1. \A w \in Windows : ListSlot(w) \in Slots /\ ListSlot(w)[1] = "list"
                         /\ ListSlot(w)[2] = KeyOf(w)
  BY DEF Slots, ListSlot
<1>2. StatusSlot \in Slots /\ StatusSlot[1] = "status" /\ StatusSlot[2] = << >>
  BY DEF Slots, StatusSlot
<1>3. \A kind \in Kinds : KeyList(kind)[1] = kind /\ KeyList(kind)[2] = None
  BY DEF KeyList
<1>4. \A slot \in Slots : slot[2] # None
  BY <1>1, <1>2, NoneIsNoKey DEF Slots
<1>5. Keys = Slots \cup KeyLists
  BY DEF Keys, KeyLists
<1>6. \A v, w \in Windows : ListSlot(v) = ListSlot(w) => KeyOf(v) = KeyOf(w)
  BY <1>1
<1>7. \A w \in Windows : ListSlot(w) # StatusSlot
  BY <1>1, <1>2
<1>8. \A kind \in Kinds : KeyList(kind) \in Keys /\ KeyList(kind) \notin Slots
  BY <1>3, <1>4, <1>5 DEF KeyLists
<1>9. (\A w \in Windows : ListSlot(w) \in OfKind("list")) /\ StatusSlot \in OfKind("status")
  BY <1>1, <1>2 DEF OfKind
<1> QED
  BY <1>1, <1>2, <1>3, <1>4, <1>5, <1>6, <1>7, <1>8, <1>9

\* What a value that is set has to be.
Fits(key, value) ==
  /\ \A w \in Windows : key = ListSlot(w) => value \in Seq(Fit(w)) \cup {None}
  /\ key = StatusSlot => value \in Versions \cup {None}
  /\ \A kind \in Kinds : key = KeyList(kind) => value \in (SUBSET OfKind(kind)) \cup {None}

LEMMA FoundFits ==
  ASSUME CachesOK, NEW key \in Keys
  PROVE  Fits(key, Found(key)) /\ Fits(key, redis[key]) /\ Fits(key, None)
<1>1. Fits(key, redis[key])
  BY DEF CachesOK, Fits
<1>2. Fits(key, drive[key])
  BY DEF CachesOK, Fits
<1>3. Fits(key, None)
  BY DEF Fits
<1>4. Found(key) \in {drive[key], redis[key]}
  BY DEF Found
<1> QED
  BY <1>1, <1>2, <1>3, <1>4

\* An entry or a copy that is replaced by one that fits.
LEMMA ReplaceOK ==
  ASSUME CachesOK, NEW key, NEW value, Fits(key, value), UNCHANGED global,
         redis' = redis \/ (key \in Slots /\ redis' = [redis EXCEPT ![key] = value]),
         drive' \in {drive, [drive EXCEPT ![key] = value]}
  PROVE  CachesOK'
<1>1. DOMAIN redis' = Keys /\ DOMAIN drive' = Keys
  BY DEF CachesOK
<1>2. \A k \in Keys : redis'[k] \in {redis[k], value} /\ drive'[k] \in {drive[k], value}
                      /\ (k # key => redis'[k] = redis[k] /\ drive'[k] = drive[k])
  BY DEF CachesOK
<1>3. \A k \in Keys : Fits(k, redis'[k]) /\ Fits(k, drive'[k])
  BY <1>2, FoundFits DEF CachesOK, Fits
<1>4. \A kind \in Kinds : redis'[KeyList(kind)] = redis[KeyList(kind)]
  BY KeyFacts DEF CachesOK
<1> QED
  BY <1>1, <1>3, <1>4, KeyFacts DEF CachesOK, Fits

LEMMA GetOK ==
  ASSUME CachesOK, NEW key \in Keys, Get(key)
  PROVE  CachesOK'
  BY FoundFits, ReplaceOK DEF Get

LEMMA SetOK ==
  ASSUME CachesOK, NEW key \in Keys, NEW value, Fits(key, value), Set(key, value)
  PROVE  CachesOK'
<1> DEFINE r == [redis EXCEPT ![key] = value]
<1>1. redis' = r /\ drive' = drive
  BY DEF Set
<1>2. \A k \in Keys : redis'[k] = IF k = key THEN value ELSE redis[k]
  BY <1>1 DEF CachesOK
<1>3. DOMAIN redis' = Keys
  BY <1>1 DEF CachesOK
<1>4. global' \in [Kinds -> (SUBSET Slots) \cup {None}]
  <2>1. CASE key[2] = None
    <3>1. PICK kind \in Kinds : key = KeyList(kind)
      BY <2>1, KeyFacts DEF KeyLists
    <3>2. key[1] = kind /\ value \in (SUBSET Slots) \cup {None}
      BY <3>1, KeyFacts DEF Fits, OfKind
    <3>3. global' = [global EXCEPT ![kind] = value]
      BY <2>1, <3>2 DEF Set
    <3> QED
      BY <3>2, <3>3 DEF CachesOK
  <2>2. CASE key[2] # None
    BY <2>2 DEF Set, CachesOK
  <2> QED
    BY <2>1, <2>2
<1> HIDE DEF r
<1>5. \A k \in Keys : Fits(k, redis'[k])
  BY <1>2, FoundFits
<1>6. ASSUME NEW kind \in Kinds PROVE global'[kind] \in {None, redis'[KeyList(kind)]}
  <2>1. KeyList(kind) \in Keys /\ KeyList(kind)[1] = kind /\ KeyList(kind)[2] = None
    BY KeyFacts
  <2>2. CASE KeyList(kind) = key
    BY <1>2, <2>1, <2>2 DEF Set, CachesOK
  <2>3. CASE KeyList(kind) # key
    <3>1. key[2] = None => key[1] # kind
      BY <2>3, KeyFacts DEF KeyLists
    <3>2. global'[kind] = global[kind]
      BY <3>1 DEF Set, CachesOK
    <3> QED
      BY <1>2, <2>1, <2>3, <3>2 DEF CachesOK
  <2> QED
    BY <2>2, <2>3
<1> QED
  BY <1>1, <1>3, <1>4, <1>5, <1>6, KeyFacts DEF CachesOK, Fits

LEMMA IdleOK == FrameOK(Idle)
  BY ConstantsOK DEF ConstantsOK, FrameOK, Idle, Frame, DetailsLabels, Versions, Kinds, OfKind

LEMMA ExitOK ==
  ASSUME Inv, Exit
  PROVE  CachesOK' /\ FramesOK'
<1>1. FramesOK'
  BY IdleOK DEF Exit, FramesOK, FrameOK
<1>2. \A k \in Keys : drive'[k] = None
  BY DEF Exit
<1>3. /\ DOMAIN drive' = Keys /\ global' \in [Kinds -> (SUBSET Slots) \cup {None}]
      /\ \A kind \in Kinds : global'[kind] = None
      /\ redis' = redis
  BY DEF Exit
<1>4. CachesOK'
  BY <1>2, <1>3, KeyFacts DEF Inv, CachesOK
<1> QED
  BY <1>1, <1>4

LEMMA LocalOK ==
  ASSUME FramesOK, NEW c \in Requests, NEW f, FrameOK(f), Local(c, f)
  PROVE  FramesOK'
  BY DEF FramesOK, FrameOK, Local

-----------------------------------------------------------------------------
(* Every step keeps the invariant.                                         *)

\* The steps of DetailsServer up to the reading of the cache.
LEMMA ReadingOK ==
  ASSUME Inv, NEW c \in Requests
  PROVE  /\ \A w \in Windows : DetailsServer(c, w) => Inv'
         /\ GetList(c) => Inv'
         /\ GetStatus(c) => Inv'
<1>1. ASSUME NEW w \in Windows, DetailsServer(c, w) PROVE Inv'
  <2> DEFINE f == [Idle EXCEPT !.pc = "getList", !.op = "DetailsServer", !.window = w]
  <2>1. FrameOK(f)
    <3>1. f \in Frame
      <4>1. Idle \in Frame
        BY IdleOK DEF FrameOK
      <4> QED
        BY <4>1 DEF Frame
    <3>2. f.window = w /\ f.list = << >> /\ f.keys = {} /\ f.kind = "list"
      BY DEF Idle
    <3> HIDE DEF f
    <3>3. f.list \in Seq(Fit(f.window))
      BY <3>2
    <3> QED
      BY <3>1, <3>2, <3>3 DEF FrameOK
  <2>2. Local(c, f) /\ UNCHANGED <<stores, caches>>
    BY <1>1 DEF DetailsServer, Begin
  <2> QED
    BY <2>1, <2>2, LocalOK DEF Inv, CachesOK, stores, caches
<1>2. ASSUME GetList(c) PROVE Inv'
  <2> DEFINE w == frame[c].window
             key == ListSlot(w)
             f == [frame[c] EXCEPT !.pc = "getStatus"]
             g == [frame[c] EXCEPT !.pc = "getStatus", !.list = Found(key), !.hit = TRUE]
  <2>1. FrameOK(frame[c]) /\ frame[c].pc = "getList" /\ w \in Windows
    BY <1>2 DEF GetList, At, Inv, FramesOK, FrameOK, DetailsLabels
  <2>2. FrameOK(f)
    BY <2>1 DEF FrameOK, Frame, DetailsLabels
  <2>3. key \in Keys
    BY <2>1, KeyFacts
  <2>4. Found(key) # None => FrameOK(g)
    <3>1. Found(key) \in Seq(Fit(w)) \cup {None}
      BY <2>1, <2>3, FoundFits DEF Fits, Inv
    <3>2. Fit(w) \subseteq Part
      BY DEF Fit, Part
    <3>3. Seq(Fit(w)) \subseteq Seq(Part)
      BY <3>2
    <3> HIDE DEF key
    <3> QED
      BY <2>1, <3>1, <3>3 DEF FrameOK, Frame, DetailsLabels
  <2>5. /\ \/ Local(c, f)
           \/ Found(key) # None /\ Local(c, g)
        /\ Get(key) \/ UNCHANGED caches
        /\ UNCHANGED stores
    BY <1>2 DEF GetList, Goto
  <2> HIDE DEF f, g, key
  <2>6. FramesOK'
    BY <2>2, <2>4, <2>5, LocalOK DEF Inv
  <2>7. CachesOK'
    BY <2>3, <2>5, GetOK DEF Inv, CachesOK, caches
  <2> QED
    BY <2>5, <2>6, <2>7 DEF Inv, stores
<1>3. ASSUME GetStatus(c) PROVE Inv'
  <2> DEFINE found == Found(StatusSlot)
  <2>1. FrameOK(frame[c]) /\ frame[c].pc = "getStatus"
    BY <1>3 DEF GetStatus, At, Inv, FramesOK
  <2>2. StatusSlot \in Keys /\ found \in Versions \cup {None}
    BY KeyFacts, FoundFits DEF Fits, Inv
  <2>3. PICK status \in {found, None} :
          /\ AfterStatus(c, status)
          /\ Get(StatusSlot) \/ UNCHANGED caches
          /\ UNCHANGED stores
    BY <1>3 DEF GetStatus
  <2>4. FramesOK'
    <3> DEFINE label == IF frame[c].hit /\ status # None THEN "reply" ELSE "search"
               v == IF status = None THEN 0 ELSE status
               f == [frame[c] EXCEPT !.pc = label, !.status = v, !.hit = FALSE]
    <3>1. label \in DetailsLabels /\ label \in {"reply", "search"}
      BY DEF DetailsLabels
    <3>2. v \in Versions
      BY <2>2, ConstantsOK DEF Versions, ConstantsOK
    <3>3. Local(c, f)
      BY <2>3 DEF AfterStatus
    <3> HIDE DEF label, v
    <3>4. FrameOK(f)
      BY <2>1, <3>1, <3>2 DEF FrameOK, Frame, DetailsLabels
    <3> QED
      BY <3>3, <3>4, LocalOK DEF Inv
  <2>5. CachesOK'
    BY <2>2, <2>3, GetOK DEF Inv, CachesOK, caches
  <2> QED
    BY <2>3, <2>4, <2>5 DEF Inv, stores
<1> QED
  BY <1>1, <1>2, <1>3

\* The search.
LEMMA SearchOK ==
  ASSUME Inv, NEW c \in Requests,
         Search(c) \/ SearchFindsNothing(c) \/ SearchExits(c) \/ SearchFails(c)
  PROVE  Inv'
<1>1. CASE Search(c)
  <2> DEFINE w == frame[c].window
             row == [window |-> w, version |-> visible]
             f == [frame[c] EXCEPT !.pc = "setList", !.list = Made(c), !.read = visible]
  <2>1. /\ FrameOK(frame[c]) /\ w \in Windows \ Malformed /\ visible \in Versions
        /\ frame[c].list \in Seq(Fit(w)) /\ frame[c].pc = "search"
    BY <1>1 DEF Search, At, Inv, FramesOK, FrameOK, DetailsLabels
  <2>2. row \in Fit(w)
    BY <2>1 DEF Fit
  <2>3. Made(c) \in Seq(Fit(w))
    BY <2>1, <2>2 DEF Made
  <2>4. Fit(w) \subseteq Part
    BY DEF Fit, Part
  <2>5. Made(c) \in Seq(Part)
    BY <2>3, <2>4
  <2>6. FrameOK(f)
    BY <2>1, <2>3, <2>5 DEF FrameOK, Frame, DetailsLabels
  <2> QED
    BY <1>1, <2>6, LocalOK DEF Search, Inv, CachesOK, stores, caches
<1>2. CASE SearchFindsNothing(c)
  BY <1>2, IdleOK, LocalOK DEF SearchFindsNothing, Return, Inv, CachesOK, stores, caches
<1>3. CASE SearchExits(c)
  BY <1>3, ExitOK DEF SearchExits, Inv, stores
<1>4. CASE SearchFails(c)
  <2>1. CASE Exit
    BY <1>4, <2>1, ExitOK DEF SearchFails, Inv, stores
  <2>2. CASE Goto(c, "reply") /\ UNCHANGED caches
    <3>1. FrameOK(frame[c]) /\ frame[c].pc = "search"
      BY <1>4 DEF SearchFails, At, Inv, FramesOK
    <3>2. FrameOK([frame[c] EXCEPT !.pc = "reply"])
      BY <3>1 DEF FrameOK, Frame, DetailsLabels
    <3> QED
      BY <1>4, <2>2, <3>2, LocalOK DEF SearchFails, Goto, Inv, CachesOK, stores, caches
  <2> QED
    BY <1>4, <2>1, <2>2 DEF SearchFails
<1> QED
  BY <1>1, <1>2, <1>3, <1>4

\* The steps of DetailsServer that write to the cache, and its answer.
LEMMA WritingOK ==
  ASSUME Inv, NEW c \in Requests
  PROVE  /\ SetList(c) => Inv'
         /\ SetStatus(c) => Inv'
         /\ ReadKeys(c) => Inv'
         /\ WriteKeys(c) => Inv'
         /\ SetPanics(c) \/ Reply(c) => Inv'
<1> DEFINE w == frame[c].window
<1>0. FrameOK(frame[c]) /\ frame[c] \in Frame
  BY DEF Inv, FramesOK, FrameOK
<1>1. ASSUME SetList(c) PROVE Inv'
  <2>1. w \in Windows /\ frame[c].list \in Seq(Fit(w))
    BY <1>0, <1>1 DEF SetList, At, FrameOK, DetailsLabels
  <2>2. ListSlot(w) \in Keys /\ Fits(ListSlot(w), frame[c].list)
    <3>1. \A v \in Windows : ListSlot(w) = ListSlot(v) => Fit(v) = Fit(w)
      BY <2>1, KeyFacts DEF Fit
    <3>2. ListSlot(w) # StatusSlot /\ ListSlot(w) \notin KeyLists
      BY <2>1, KeyFacts DEF KeyLists
    <3> QED
      BY <2>1, <3>1, <3>2, KeyFacts DEF Fits
  <2>3. CachesOK'
    BY <1>1, <2>2, SetOK DEF SetList, Inv
  <2>4. FrameOK([frame[c] EXCEPT !.pc = "setStatus"])
    BY <1>0, <1>1 DEF SetList, At, FrameOK, Frame, DetailsLabels
  <2> QED
    BY <1>1, <2>3, <2>4, LocalOK DEF SetList, Goto, Inv, stores
<1>2. ASSUME SetStatus(c) PROVE Inv'
  <2>1. frame[c].read \in Versions /\ 0 \in Versions
    BY <1>0, ConstantsOK DEF Frame, Versions, ConstantsOK
  <2>2. StatusSlot \in Keys /\ Fits(StatusSlot, frame[c].read)
    BY <2>1, KeyFacts DEF Fits, KeyLists
  <2>3. CachesOK'
    BY <1>2, <2>2, SetOK DEF SetStatus, Inv
  <2>4. FrameOK([frame[c] EXCEPT !.pc = "readKeys", !.status = frame[c].read, !.read = 0])
    BY <1>0, <1>2, <2>1 DEF SetStatus, At, FrameOK, Frame, DetailsLabels
  <2> QED
    BY <1>2, <2>3, <2>4, LocalOK DEF SetStatus, Inv, stores
<1>3. ASSUME ReadKeys(c) PROVE Inv'
  <2> DEFINE kind == frame[c].kind
             keyList == IF global[kind] # None THEN global[kind] ELSE redis[KeyList(kind)]
             Named == (SUBSET OfKind(kind)) \cup {None}
             Reading(keys) == [frame[c] EXCEPT !.pc = "writeKeys",
                                               !.keys = IF keys = None THEN {} ELSE keys]
  <2>1. kind \in Kinds
    BY <1>0 DEF Frame
  <2>2. keyList \in {None, redis[KeyList(kind)]} /\ keyList \in Named
    BY <2>1 DEF Inv, CachesOK
  <2>3. /\ Local(c, Reading(keyList)) \/ Local(c, Reading(None))
        /\ global' \in {global, [global EXCEPT ![kind] = keyList]}
        /\ UNCHANGED <<stores, redis, drive>>
    BY <1>3 DEF ReadKeys
  <2> HIDE DEF keyList
  <2>4. ASSUME NEW keys \in Named PROVE FrameOK(Reading(keys))
    <3>1. (IF keys = None THEN {} ELSE keys) \in SUBSET OfKind(kind)
      OBVIOUS
    <3>2. (IF keys = None THEN {} ELSE keys) \in SUBSET Slots
      BY <3>1 DEF OfKind
    <3> HIDE DEF Named
    <3> QED
      BY <1>0, <1>3, <3>1, <3>2 DEF ReadKeys, At, FrameOK, Frame, DetailsLabels
  <2>5. FrameOK(Reading(keyList)) /\ FrameOK(Reading(None))
    BY <2>2, <2>4
  <2> HIDE DEF Reading, kind
  <2>6. FramesOK'
    BY <2>3, <2>5, LocalOK DEF Inv
  <2>7. CachesOK'
    BY <2>1, <2>2, <2>3, KeyFacts DEF Inv, CachesOK, OfKind
  <2> QED
    BY <2>3, <2>6, <2>7 DEF Inv, stores
<1>4. ASSUME WriteKeys(c) PROVE Inv'
  <2> DEFINE kind == frame[c].kind
             slot == IF kind = "list" THEN ListSlot(w) ELSE StatusSlot
             keys == frame[c].keys \cup {slot}
             f == [frame[c] EXCEPT !.pc = IF kind = "list" THEN "readKeys" ELSE "reply",
                                   !.kind = IF kind = "list" THEN "status" ELSE "list",
                                   !.keys = {}]
  <2>1. kind \in Kinds /\ frame[c].keys \subseteq Slots /\ w \in Windows
    BY <1>0, <1>4 DEF WriteKeys, At, FrameOK, Frame, DetailsLabels
  <2>2. keys \in SUBSET OfKind(kind)
    BY <1>0, <2>1, KeyFacts DEF FrameOK, Kinds
  <2>3. KeyList(kind) \in Keys /\ Fits(KeyList(kind), keys)
    BY <2>1, <2>2, KeyFacts DEF Fits
  <2>4. Set(KeyList(kind), keys) /\ Local(c, f) /\ UNCHANGED stores
    BY <1>4 DEF WriteKeys
  <2>5. FrameOK(f)
    BY <1>0, <1>4, <2>1 DEF WriteKeys, At, FrameOK, Frame, DetailsLabels, Kinds
  <2> HIDE DEF keys, f
  <2>6. CachesOK'
    BY <2>3, <2>4, SetOK DEF Inv
  <2> QED
    BY <2>4, <2>5, <2>6, LocalOK DEF Inv, stores
<1>5. ASSUME SetPanics(c) \/ Reply(c) PROVE Inv'
  <2>1. CASE SetPanics(c)
    BY <2>1, ExitOK DEF SetPanics, Inv, stores
  <2>2. CASE Reply(c)
    BY <2>2, IdleOK, LocalOK DEF Reply, Return, Inv, CachesOK, stores, caches
  <2> QED
    BY <1>5, <2>1, <2>2
<1> QED
  BY <1>1, <1>2, <1>3, <1>4, <1>5

\* DeleteServer.
LEMMA DeletingOK ==
  ASSUME Inv, NEW c \in Requests
  PROVE  /\ DeleteServer(c) => Inv'
         /\ DeleteOne(c) => Inv'
         /\ DeleteDoc(c) => Inv'
         /\ DeleteFails(c) => Inv'
         /\ FindKeys(c) => Inv'
         /\ \A slot \in Slots : Drop(c, slot) => Inv'
         /\ DropDone(c) => Inv'
<1>0. FrameOK(frame[c]) /\ frame[c] \in Frame /\ 0 \in Versions
  BY ConstantsOK DEF Inv, FramesOK, FrameOK, Versions, ConstantsOK
<1>1. ASSUME DeleteServer(c) PROVE Inv'
  <2>1. FrameOK([Idle EXCEPT !.pc = "deleteOne", !.op = "DeleteServer"])
    BY IdleOK DEF FrameOK, Idle, Frame, DetailsLabels
  <2> QED
    BY <1>1, <2>1, LocalOK DEF DeleteServer, Begin, Inv, CachesOK, stores, caches
<1>2. ASSUME DeleteOne(c) PROVE Inv'
  <2>1. frame[c].pc = "deleteOne" => FrameOK([frame[c] EXCEPT !.pc = "deleteDoc"])
    BY <1>0 DEF FrameOK, Frame, DetailsLabels
  <2>2. FramesOK'
    BY <1>2, <2>1, IdleOK, LocalOK DEF DeleteOne, At, Goto, Return, Inv
  <2> QED
    BY <1>2, <2>2 DEF DeleteOne, Inv, CachesOK, caches
<1>3. ASSUME DeleteDoc(c) PROVE Inv'
  <2>1. FrameOK([frame[c] EXCEPT !.pc = "findKeys"])
    BY <1>0 DEF FrameOK, Frame, DetailsLabels
  <2>2. FramesOK'
    BY <1>3, <2>1, LocalOK DEF DeleteDoc, Goto, Inv
  <2> QED
    BY <1>0, <1>3, <2>2 DEF DeleteDoc, Inv, CachesOK, caches
<1>4. ASSUME DeleteFails(c) PROVE Inv'
  <2>1. {history', visible'} \subseteq Versions
    BY <1>0, <1>4 DEF DeleteFails, Inv, stores
  <2>2. CASE Exit
    BY <2>1, <2>2, ExitOK DEF Inv
  <2>3. CASE Goto(c, "findKeys") /\ UNCHANGED caches
    <3>1. FrameOK([frame[c] EXCEPT !.pc = "findKeys"])
      BY <1>0 DEF FrameOK, Frame, DetailsLabels
    <3> QED
      BY <2>1, <2>3, <3>1, LocalOK DEF Goto, Inv, CachesOK, caches
  <2> QED
    BY <1>4, <2>2, <2>3 DEF DeleteFails
<1>5. ASSUME FindKeys(c) PROVE Inv'
  <2> DEFINE key == KeyList(frame[c].kind)
             Reading(keys) == [frame[c] EXCEPT !.pc = "drop",
                                               !.keys = IF keys = None THEN {} ELSE keys]
             Named == (SUBSET OfKind(frame[c].kind)) \cup {None}
  <2>1. frame[c].kind \in Kinds
    BY <1>0 DEF Frame
  <2>2. key \in Keys /\ Found(key) \in Named
    BY <2>1, KeyFacts, FoundFits DEF Fits, Inv
  <2>3. /\ Local(c, Reading(Found(key))) \/ Local(c, Reading(None))
        /\ Get(key) \/ UNCHANGED caches
        /\ UNCHANGED stores
    BY <1>5 DEF FindKeys
  <2> HIDE DEF key
  <2>4. ASSUME NEW keys \in Named PROVE FrameOK(Reading(keys))
    <3>1. (IF keys = None THEN {} ELSE keys) \in SUBSET OfKind(frame[c].kind)
      OBVIOUS
    <3>2. (IF keys = None THEN {} ELSE keys) \in SUBSET Slots
      BY <3>1 DEF OfKind
    <3> HIDE DEF Named
    <3> QED
      BY <1>0, <3>1, <3>2 DEF FrameOK, Frame, DetailsLabels
  <2>5. FrameOK(Reading(Found(key))) /\ FrameOK(Reading(None))
    BY <2>2, <2>4
  <2> HIDE DEF Reading
  <2>6. FramesOK'
    BY <2>3, <2>5, LocalOK DEF Inv
  <2>7. CachesOK'
    BY <2>2, <2>3, GetOK DEF Inv, CachesOK, caches
  <2> QED
    BY <2>3, <2>6, <2>7 DEF Inv, stores
<1>6. ASSUME NEW slot \in Slots, Drop(c, slot) PROVE Inv'
  <2>1. FrameOK([frame[c] EXCEPT !.keys = @ \ {slot}])
    BY <1>0, <1>6 DEF Drop, At, FrameOK, Frame, DetailsLabels
  <2>2. FramesOK'
    BY <1>6, <2>1, LocalOK DEF Drop, Inv
  <2>3. Fits(slot, None)
    BY KeyFacts, FoundFits DEF Inv
  <2>4. CachesOK'
    BY <1>6, <2>3, ReplaceOK DEF Drop, Delete, Inv
  <2> QED
    BY <1>6, <2>2, <2>4 DEF Drop, Inv, stores
<1>7. ASSUME DropDone(c) PROVE Inv'
  <2>1. frame[c].keys = {} => FrameOK([frame[c] EXCEPT !.pc = "findKeys", !.kind = "status"])
    BY <1>0 DEF FrameOK, Frame, DetailsLabels, Kinds
  <2>2. FramesOK'
    BY <1>7, <2>1, IdleOK, LocalOK DEF DropDone, Return, Inv
  <2> QED
    BY <1>7, <2>2 DEF DropDone, Inv, CachesOK, stores, caches
<1> QED
  BY <1>1, <1>2, <1>3, <1>4, <1>5, <1>6, <1>7

\* Other handlers, the stores, and the passing of time.
LEMMA EnvironmentOK ==
  ASSUME Inv, Extend \/ Refresh \/ Expire \/ Crash
              \/ (\E key \in Keys : Forget(key)) \/ (\E kind \in Kinds : ForgetKeys(kind))
  PROVE  Inv'
<1>1. CASE Extend
  <2>1. history' \in Versions
    BY <1>1, ConstantsOK DEF Extend, Versions, ConstantsOK
  <2> QED
    BY <1>1, <2>1 DEF Extend, Inv, CachesOK, FramesOK, caches
<1>2. CASE Refresh
  BY <1>2 DEF Refresh, Inv, CachesOK, FramesOK, caches
<1>3. CASE Expire
  <2>1. PICK key \in Keys :
          /\ redis' = [redis EXCEPT ![key] = None]
          /\ global' = IF key[2] = None THEN [global EXCEPT ![key[1]] = None] ELSE global
          /\ UNCHANGED <<stores, drive, frame>>
    BY <1>3 DEF Expire
  <2>2. global' \in [Kinds -> (SUBSET Slots) \cup {None}]
    BY <2>1 DEF Inv, CachesOK
  <2>3. DOMAIN redis' = Keys /\ \A k \in Keys : redis'[k] \in {redis[k], None}
    BY <2>1 DEF Inv, CachesOK
  <2>4. ASSUME NEW kind \in Kinds PROVE global'[kind] \in {None, redis'[KeyList(kind)]}
    <3>1. KeyList(kind) \in Keys /\ KeyList(kind)[1] = kind /\ KeyList(kind)[2] = None
      BY KeyFacts
    <3>2. CASE KeyList(kind) = key
      BY <2>1, <3>1, <3>2 DEF Inv, CachesOK
    <3>3. CASE KeyList(kind) # key
      BY <2>1, <3>1, <3>3 DEF Inv, CachesOK
    <3> QED
      BY <3>2, <3>3
  <2>5. CachesOK'
    BY <2>1, <2>2, <2>3, <2>4, KeyFacts DEF Inv, CachesOK
  <2> QED
    BY <2>1, <2>5 DEF Inv, FramesOK, stores
<1>4. CASE Crash
  BY <1>4, ExitOK DEF Crash, Inv, stores
<1>5. ASSUME NEW key \in Keys, Forget(key) PROVE Inv'
  <2>1. CachesOK'
    BY <1>5, FoundFits, ReplaceOK DEF Forget, Inv
  <2> QED
    BY <1>5, <2>1 DEF Forget, Inv, FramesOK, stores
<1>6. ASSUME NEW kind \in Kinds, ForgetKeys(kind) PROVE Inv'
  BY <1>6 DEF ForgetKeys, Inv, CachesOK, FramesOK, stores
<1> QED
  BY <1>1, <1>2, <1>3, <1>4, <1>5, <1>6

\* What none of the actions does: a type that changes, or a mishap that is forgotten.
Rest == /\ stored \in BOOLEAN
        /\ older \in [Keys -> SUBSET Keys]
        /\ mishaps \subseteq Mishaps

LEMMA RestHolds ==
  ASSUME Rest, [Next]_vars
  PROVE  Rest' /\ mishaps \subseteq mishaps'
<1> DEFINE Changed == /\ stored' \in {stored, FALSE}
                      /\ older' \in [Keys -> SUBSET Keys]
                      /\ mishaps \subseteq mishaps' /\ mishaps' \ mishaps \subseteq Mishaps
<1>1. \A key : Without(key) \in [Keys -> SUBSET Keys]
  BY DEF Without, Rest
<1>2. ASSUME NEW key, NEW value, Set(key, value) PROVE older' \in [Keys -> SUBSET Keys]
  <2> DEFINE rest == {k \in Keys \ {key} : redis[k] # None}
  <2>1. rest \subseteq Keys
    OBVIOUS
  <2>2. older' \in {older, [Without(key) EXCEPT ![key] = rest]}
    BY <1>2 DEF Set
  <2> HIDE DEF rest
  <2> QED
    BY <1>1, <2>1, <2>2 DEF Rest
<1>3. \A key : Get(key) => /\ older' \in [Keys -> SUBSET Keys]
                         /\ mishaps \subseteq mishaps' /\ mishaps' \ mishaps \subseteq Mishaps
  BY DEF Get, Mishap, MishapIf, Rest
<1>4. ASSUME NEW c \in Requests, DetailsStep(c) PROVE Changed
  <2>1. GetList(c) \/ GetStatus(c) => Changed
    BY <1>3 DEF Mishap, MishapIf, GetList, GetStatus, Rest, stores, caches
  <2>2. Search(c) \/ SearchFindsNothing(c) \/ SearchExits(c) \/ SearchFails(c) => Changed
    BY DEF Mishap, MishapIf, Search, SearchFindsNothing, SearchExits, SearchFails, Exit, Rest,
           stores, caches
  <2>3. SetList(c) \/ SetStatus(c) \/ ReadKeys(c) \/ WriteKeys(c) \/ SetPanics(c) \/ Reply(c)
          => Changed
    BY <1>2
       DEF Mishap, SetList, SetStatus, ReadKeys, WriteKeys, SetPanics, Reply, Exit, Rest,
           stores, caches
  <2> QED
    BY <1>4, <2>1, <2>2, <2>3 DEF DetailsStep
<1>5. ASSUME NEW c \in Requests, DeleteStep(c) PROVE Changed
  <2>1. DeleteOne(c) \/ DeleteDoc(c) \/ DeleteFails(c) => Changed
    BY DEF Mishap, MishapIf, DeleteOne, DeleteDoc, DeleteFails, Exit, Rest, stores, caches
  <2>2. FindKeys(c) \/ DropDone(c) => Changed
    BY <1>3 DEF Mishap, MishapIf, FindKeys, DropDone, Rest, stores, caches
  <2>3. ASSUME NEW slot \in Slots, Drop(c, slot) PROVE Changed
    BY <1>1, <2>3 DEF Mishap, MishapIf, Drop, Delete, Rest, stores
  <2> QED
    BY <1>5, <2>1, <2>2, <2>3 DEF DeleteStep
<1>6. ASSUME NEW c \in Requests, NEW w \in Windows, DetailsServer(c, w) PROVE Changed
  BY <1>6 DEF Mishap, MishapIf, DetailsServer, Begin, Rest, stores, caches
<1>7. ASSUME NEW c \in Requests, DeleteServer(c) PROVE Changed
  BY <1>7 DEF Mishap, MishapIf, DeleteServer, Begin, Rest, stores, caches
<1>8. ASSUME Extend \/ Refresh \/ Expire \/ Crash
             \/ (\E key \in Keys : Forget(key)) \/ (\E kind \in Kinds : ForgetKeys(kind))
      PROVE  Changed
  <2>1. CASE Expire
    BY <1>1, <2>1 DEF Expire, Rest, stores
  <2>2. CASE Crash
    BY <2>2 DEF Mishap, MishapIf, Crash, Exit, Rest, stores
  <2> QED
    BY <1>8, <2>1, <2>2 DEF Extend, Refresh, Forget, ForgetKeys, Rest, stores, caches
<1>9. ASSUME UNCHANGED vars PROVE Changed
  BY <1>9 DEF vars, Rest, stores, caches
<1> HIDE DEF Changed
<1>10. Changed
  BY <1>4, <1>5, <1>6, <1>7, <1>8, <1>9 DEF Next
<1> QED
  BY <1>10 DEF Changed, Rest

LEMMA InitOK == Init => Inv /\ Rest
<1> SUFFICES ASSUME Init PROVE Inv /\ Rest
  OBVIOUS
<1>1. {history, visible} \subseteq Versions
  BY ConstantsOK DEF Init, Versions, ConstantsOK
<1>2. FramesOK
  BY IdleOK DEF Init, FramesOK, FrameOK
<1>3. CachesOK
  BY KeyFacts DEF Init, CachesOK
<1>4. Rest
  BY DEF Init, Rest
<1> QED
  BY <1>1, <1>2, <1>3, <1>4 DEF Inv

LEMMA InvStep == Inv /\ [Next]_vars => Inv'
<1> SUFFICES ASSUME Inv, [Next]_vars PROVE Inv'
  OBVIOUS
<1>1. ASSUME NEW c \in Requests, NEW w \in Windows, DetailsServer(c, w) PROVE Inv'
  BY <1>1, ReadingOK
<1>2. ASSUME NEW c \in Requests, DeleteServer(c) PROVE Inv'
  BY <1>2, DeletingOK
<1>3. ASSUME NEW c \in Requests, DetailsStep(c) PROVE Inv'
  BY <1>3, ReadingOK, SearchOK, WritingOK DEF DetailsStep
<1>4. ASSUME NEW c \in Requests, DeleteStep(c) PROVE Inv'
  BY <1>4, DeletingOK DEF DeleteStep
<1>5. CASE UNCHANGED vars
  BY <1>5 DEF vars, stores, caches, Inv, CachesOK, FramesOK
<1> QED
  BY <1>1, <1>2, <1>3, <1>4, <1>5, EnvironmentOK DEF Next

LEMMA InvHolds == Spec => [](Inv /\ Rest)
  BY InitOK, InvStep, RestHolds, PTL DEF Spec

\* AnswersWindowAsked, of DetailsServer and its cache, for any number of requests,
\* windows and versions, however requests overlap, and whatever fails or expires.
THEOREM AnswersWindowAskedHolds == Spec => []AnswersWindowAsked
  BY InvAnswers, InvHolds, PTL

\* The types, of DetailsServer, DeleteServer and their cache.
THEOREM TypeOKHolds == Spec => []TypeOK
<1>1. Inv /\ Rest => TypeOK
  <2> SUFFICES ASSUME Inv, Rest PROVE TypeOK
    OBVIOUS
  <2>1. ASSUME NEW key \in Keys PROVE {redis[key], drive[key]} \subseteq Value(key) \cup {None}
    <3>1. \A w \in Windows : Seq(Fit(w)) \subseteq Seq(Part)
      <4> TAKE w \in Windows
      <4>1. Fit(w) \subseteq Part
        BY DEF Fit, Part
      <4> QED
        BY <4>1
    <3>2. CASE key \in KeyLists
      BY <3>2 DEF Inv, CachesOK, Value, KeyLists, OfKind
    <3>3. CASE key = StatusSlot
      BY <3>3, KeyFacts DEF Inv, CachesOK, Value
    <3>4. ASSUME NEW w \in Windows, key = ListSlot(w) PROVE Value(key) = Seq(Part)
      BY <3>4, KeyFacts DEF Value
    <3> QED
      BY <3>1, <3>2, <3>3, <3>4, KeyFacts DEF Inv, CachesOK, Slots
  <2> QED
    BY <2>1 DEF Inv, Rest, CachesOK, FramesOK, TypeOK
<1> QED
  BY <1>1, InvHolds, PTL

-----------------------------------------------------------------------------
(* The other properties are about requests that do not overlap: there is at *)
(* most one frame that matters, and what has to hold of the cache depends  *)
(* on where it is.                                                         *)

Spared(harms) == mishaps \cap harms = {}

Alone == \A c, d \in Requests : frame[c] # Idle /\ frame[d] # Idle => c = d

\* The frame of the request that runs, if one does.
Current == IF Running THEN frame[CHOOSE c \in Requests : frame[c] # Idle] ELSE Idle

LEMMA CurrentRuns ==
  ASSUME Alone, NEW c \in Requests, frame[c] # Idle
  PROVE  Current = frame[c]
<1>1. (CHOOSE d \in Requests : frame[d] # Idle) = c
  BY DEF Alone
<1> QED
  BY <1>1 DEF Current, Running

LEMMA CurrentIdle ==
  ASSUME \A c \in Requests : frame[c] = Idle
  PROVE  Current = Idle /\ Alone
  BY DEF Current, Running, Alone

\* A step of the request that runs.
LEMMA CurrentMoves ==
  ASSUME FramesOK, Alone, NEW c \in Requests, frame[c].pc # "idle", NEW g, Local(c, g)
  PROVE  Alone' /\ Current = frame[c] /\ Current' = g /\ FrameOK(Current)
<1>1. frame[c] # Idle
  BY DEF Idle
<1>2. \A d \in Requests : d # c => frame[d] = Idle
  BY <1>1 DEF Alone
<1>3. \A d \in Requests : frame'[d] = IF d = c THEN g ELSE Idle
  BY <1>2 DEF FramesOK, Local
<1>4. Alone'
  BY <1>3 DEF Alone
<1>5. Current = frame[c]
  BY <1>1, CurrentRuns
<1>6. Current' = g
  <2>1. CASE g = Idle
    BY <1>3, <2>1 DEF Current, Running
  <2>2. CASE g # Idle
    <3>1. (CHOOSE d \in Requests : frame'[d] # Idle) = c
      BY <1>3, <2>2
    <3> QED
      BY <1>3, <2>2, <3>1 DEF Current, Running
  <2> QED
    BY <2>1, <2>2
<1> QED
  BY <1>4, <1>5, <1>6 DEF FramesOK

\* A request that begins when none runs.
LEMMA CurrentBegins ==
  ASSUME FramesOK, NEW c \in Requests, NEW f, Begin(c, f), "overlap" \notin mishaps'
  PROVE  Alone' /\ Current = Idle /\ Current' = f
<1>1. ~ Running
  BY DEF Begin, MishapIf, Mishap
<1>2. \A d \in Requests : frame[d] = Idle
  BY <1>1 DEF Running
<1>3. \A d \in Requests : frame'[d] = IF d = c THEN f ELSE Idle
  BY <1>2 DEF FramesOK, Begin, Local
<1>4. Alone'
  BY <1>3 DEF Alone
<1>5. Current' = f
  <2>1. CASE f = Idle
    BY <1>3, <2>1 DEF Current, Running
  <2>2. CASE f # Idle
    <3>1. (CHOOSE d \in Requests : frame'[d] # Idle) = c
      BY <1>3, <2>2
    <3> QED
      BY <1>3, <2>2, <3>1 DEF Current, Running
  <2> QED
    BY <2>1, <2>2
<1> QED
  BY <1>1, <1>4, <1>5 DEF Current

LEMMA CurrentExits ==
  ASSUME Exit
  PROVE  Alone' /\ Current' = Idle /\ UNCHANGED <<redis, older>>
  BY DEF Exit, Alone, Current, Running

LEMMA CurrentStays ==
  ASSUME UNCHANGED frame
  PROVE  (Alone => Alone') /\ Current' = Current
  BY DEF Alone, Current, Running

LEMMA CurrentOK ==
  ASSUME FramesOK
  PROVE  FrameOK(Current)
<1>1. CASE Running
  <2>1. (CHOOSE c \in Requests : frame[c] # Idle) \in Requests
    BY <1>1 DEF Running
  <2> QED
    BY <1>1, <2>1 DEF FramesOK, Current
<1>2. CASE ~ Running
  BY <1>2, IdleOK DEF Current
<1> QED
  BY <1>1, <1>2

-----------------------------------------------------------------------------
(* Every cached slot is named in its key list, which does not expire before *)
(* it, except for what the running request has set and is yet to enter.    *)
(* That takes no more than requests that do not overlap, a Redis that      *)
(* answers, and a process that does not exit between two calls to it: old  *)
(* copies and entries that expire do no harm.                              *)

Before(key, other) == "expiry" \in Mishaps => key \in older[other]

Entered(slot) ==
  LET keyList == KeyList(slot[1]) IN
  redis[keyList] # None /\ slot \in redis[keyList] /\ Before(slot, keyList)

\* The slots that a request in this frame has set and is yet to enter.
Entering(f) ==
  {slot \in Slots :
     \/ /\ slot = ListSlot(f.window)
        /\ f.pc = "setStatus" \/ (f.pc \in {"readKeys", "writeKeys"} /\ f.kind = "list")
     \/ slot = StatusSlot /\ f.pc \in {"readKeys", "writeKeys"}}

ListedOK ==
  /\ \A slot \in Slots \ Entering(Current) : redis[slot] # None => Entered(slot)
  /\ Current.pc = "writeKeys" =>
       \A slot \in OfKind(Current.kind) \ Entering(Current) :
         redis[slot] # None => slot \in Current.keys

Unlisted == {"overlap", "redisError", "exit"}

ListedInv == Spared(Unlisted) => Alone /\ ListedOK

\* What a Set does to an entry and to the order of the entries.
LEMMA SetEffect ==
  ASSUME CachesOK, Rest, NEW key \in Keys, NEW value, Set(key, value)
  PROVE  /\ \A k \in Keys : redis'[k] = IF k = key THEN value ELSE redis[k]
         /\ \A k \in Keys \ {key} : redis[k] # None => Before(k, key)'
         /\ \A k, o \in Keys \ {key} : Before(k, o) => Before(k, o)'
<1>1. \A k \in Keys : redis'[k] = IF k = key THEN value ELSE redis[k]
  BY DEF CachesOK, Set
<1>2. CASE "expiry" \in Mishaps
  <2> DEFINE rest == {k \in Keys \ {key} : redis[k] # None}
  <2>1. older' = [Without(key) EXCEPT ![key] = rest]
    BY <1>2 DEF Set
  <2> HIDE DEF rest
  <2>2. older'[key] = rest /\ \A o \in Keys \ {key} : older'[o] = older[o] \ {key}
    BY <2>1 DEF Without
  <2> QED
    BY <1>1, <2>2 DEF Before, rest
<1>3. CASE "expiry" \notin Mishaps
  BY <1>1, <1>3 DEF Before
<1> QED
  BY <1>2, <1>3

\* What a Delete does, or an entry that expires.
LEMMA GoneEffect ==
  ASSUME CachesOK, NEW key \in Keys, redis' = [redis EXCEPT ![key] = None],
         older' = Without(key)
  PROVE  /\ \A k \in Keys : redis'[k] = IF k = key THEN None ELSE redis[k]
         /\ \A k, o \in Keys \ {key} : Before(k, o) => Before(k, o)'
  BY DEF CachesOK, Without, Before

\* The slots of a kind and its key list.
LEMMA SlotFacts ==
  /\ \A slot \in Slots : slot \in Keys /\ slot \in OfKind(slot[1]) /\ slot[1] \in Kinds
  /\ OfKind("status") = {StatusSlot}
  /\ \A slot \in OfKind("list") : \E w \in Windows : slot = ListSlot(w)
  /\ \A kind \in Kinds, slot \in Slots : KeyList(kind) # slot
  /\ KeyList("list") # KeyList("status")
<1>1. \A slot \in Slots : slot \in Keys /\ slot \in OfKind(slot[1]) /\ slot[1] \in Kinds
  BY KeyFacts DEF Slots, OfKind, Kinds
<1>2. OfKind("status") = {StatusSlot} /\ \A slot \in OfKind("list") : \E w \in Windows : slot = ListSlot(w)
  BY KeyFacts DEF Slots, OfKind
<1> QED
  BY <1>1, <1>2, KeyFacts DEF Kinds

\* A step that neither reads key lists to write them nor changes what is in Redis.
LEMMA ListedKept ==
  ASSUME ListedOK, UNCHANGED <<redis, older>>, Entering(Current) = {},
         Current'.pc \notin {"setStatus", "readKeys", "writeKeys"}
  PROVE  ListedOK'
<1>1. Entering(Current') = {}
  BY DEF Entering
<1> QED
  BY <1>1 DEF ListedOK, Entered, Before

\* The same, when a slot is gone.
LEMMA ListedGone ==
  ASSUME CachesOK, ListedOK, NEW key \in Keys, redis' = [redis EXCEPT ![key] = None],
         older' = Without(key), Entering(Current') = Entering(Current),
         \A slot \in Slots \ Entering(Current) :
            slot # key /\ redis[slot] # None => key # KeyList(slot[1]),
         Current'.pc = "writeKeys" => Current' = Current
  PROVE  ListedOK'
<1>0. /\ \A k \in Keys : redis'[k] = IF k = key THEN None ELSE redis[k]
      /\ \A k, o \in Keys \ {key} : Before(k, o) => Before(k, o)'
  BY GoneEffect
<1>1. \A slot \in Slots \ Entering(Current) : redis'[slot] # None => Entered(slot)'
  <2> SUFFICES ASSUME NEW slot \in Slots \ Entering(Current), redis'[slot] # None
               PROVE  Entered(slot)'
    OBVIOUS
  <2>1. slot # key /\ redis[slot] # None
    BY <1>0, SlotFacts
  <2>2. Entered(slot) /\ key # KeyList(slot[1])
    BY <2>1 DEF ListedOK
  <2>3. KeyList(slot[1]) \in Keys
    BY SlotFacts, KeyFacts
  <2>4. Before(slot, KeyList(slot[1]))'
    BY <2>1, <2>2, <2>3, <1>0, SlotFacts DEF Entered
  <2>5. redis'[KeyList(slot[1])] = redis[KeyList(slot[1])]
    BY <2>2, <2>3, <1>0
  <2> QED
    BY <2>2, <2>4, <2>5 DEF Entered
<1>2. \A slot \in Slots : redis'[slot] # None => redis[slot] # None
  BY <1>0, SlotFacts
<1> QED
  BY <1>1, <1>2 DEF ListedOK, OfKind

-----------------------------------------------------------------------------
(* The way from one call to the next, action by action.                    *)

Turn(c, from, to) ==
  frame[c].pc = from /\ frame'[c].pc \in to /\ Local(c, frame'[c])

\* A turn is a step of the running request.
LEMMA Turns ==
  ASSUME Inv, Alone, NEW c \in Requests, NEW from, NEW to, Turn(c, from, to), from # "idle"
  PROVE  /\ Alone' /\ Current = frame[c] /\ Current' = frame'[c]
         /\ Current.pc = from /\ Current'.pc \in to
         /\ FrameOK(Current) /\ Current \in Frame
  BY CurrentMoves DEF Turn, Inv, FrameOK

\* The steps of DetailsServer, as long as Redis answers and the process lives.
LEMMA DetailsTurns ==
  ASSUME Inv, NEW c \in Requests, {"redisError", "exit"} \cap mishaps' = {}
  PROVE  /\ GetList(c) => /\ Turn(c, "getList", {"getStatus"})
                          /\ Get(ListSlot(frame[c].window))
         /\ GetStatus(c) => /\ Turn(c, "getStatus", {"search", "reply"})
                            /\ Get(StatusSlot)
         /\ Search(c) => /\ Turn(c, "search", {"setList"})
                         /\ UNCHANGED caches
         /\ SearchFindsNothing(c) => /\ Turn(c, "search", {"idle"})
                                     /\ UNCHANGED caches
         /\ ~ SearchExits(c)
         /\ SearchFails(c) => \/ Turn(c, "search", {"reply"}) /\ UNCHANGED caches
                              \/ frame[c].pc = "search" /\ Exit
         /\ SetList(c) => Turn(c, "setList", {"setStatus"})
         /\ SetStatus(c) => Turn(c, "setStatus", {"readKeys"})
         /\ ReadKeys(c) => Turn(c, "readKeys", {"writeKeys"})
         /\ WriteKeys(c) => Turn(c, "writeKeys", {"readKeys", "reply"})
         /\ ~ SetPanics(c)
         /\ Reply(c) => Turn(c, "reply", {"idle"}) /\ UNCHANGED caches
<1>1. frame[c] \in Frame /\ frame \in [Requests -> Frame]
  BY DEF Inv, FramesOK
<1>2. ~ Mishap("redisError") /\ ~ Mishap("exit")
  BY DEF Mishap
<1>3. Idle.pc = "idle"
  BY DEF Idle
<1>4. \A g : Local(c, g) => Local(c, frame'[c]) /\ frame'[c] = g
  BY <1>1 DEF Local
<1>5. \A label : [frame[c] EXCEPT !.pc = label].pc = label
  BY <1>1 DEF Frame
<1>6. GetList(c) => Turn(c, "getList", {"getStatus"}) /\ Get(ListSlot(frame[c].window))
  <2> DEFINE key == ListSlot(frame[c].window)
             g == [frame[c] EXCEPT !.pc = "getStatus", !.list = Found(key), !.hit = TRUE]
  <2>1. g.pc = "getStatus"
    BY <1>1 DEF Frame
  <2>2. GetList(c) => /\ frame[c].pc = "getList" /\ Get(key)
                      /\ Goto(c, "getStatus") \/ Local(c, g)
    BY <1>2 DEF GetList, At
  <2> HIDE DEF g
  <2> QED
    BY <1>4, <1>5, <2>1, <2>2 DEF Turn, Goto
<1>7. GetStatus(c) => Turn(c, "getStatus", {"search", "reply"}) /\ Get(StatusSlot)
  <2> DEFINE g(status) ==
               [frame[c] EXCEPT !.pc = IF frame[c].hit /\ status # None THEN "reply" ELSE "search",
                                !.status = IF status = None THEN 0 ELSE status,
                                !.hit = FALSE]
  <2>1. \A status : g(status).pc \in {"search", "reply"}
    BY <1>1 DEF Frame
  <2>2. GetStatus(c) => /\ frame[c].pc = "getStatus" /\ Get(StatusSlot)
                        /\ Local(c, g(Found(StatusSlot)))
    BY <1>2 DEF GetStatus, AfterStatus, At
  <2> HIDE DEF g
  <2> QED
    BY <1>4, <2>1, <2>2 DEF Turn
<1>8. Search(c) => Turn(c, "search", {"setList"}) /\ UNCHANGED caches
  BY <1>1 DEF Local, Search, At, Turn, Frame
<1>9. SearchFindsNothing(c) => Turn(c, "search", {"idle"}) /\ UNCHANGED caches
  BY <1>3, <1>4 DEF SearchFindsNothing, Return, At, Turn
<1>10. SearchFails(c) => \/ Turn(c, "search", {"reply"}) /\ UNCHANGED caches
                         \/ frame[c].pc = "search" /\ Exit
  BY <1>4, <1>5 DEF SearchFails, Goto, At, Turn
<1>11. SetList(c) => Turn(c, "setList", {"setStatus"})
  BY <1>4, <1>5 DEF SetList, Goto, At, Turn
<1>12. SetStatus(c) => Turn(c, "setStatus", {"readKeys"})
  BY <1>1 DEF Local, SetStatus, At, Turn, Frame
<1>13. ReadKeys(c) => Turn(c, "readKeys", {"writeKeys"})
  <2> DEFINE kind == frame[c].kind
             keyList == IF global[kind] # None THEN global[kind] ELSE redis[KeyList(kind)]
             g == [frame[c] EXCEPT !.pc = "writeKeys", !.keys = IF keyList = None THEN {} ELSE keyList]
  <2>1. g.pc = "writeKeys"
    BY <1>1 DEF Frame
  <2>2. ReadKeys(c) => frame[c].pc = "readKeys" /\ Local(c, g)
    BY <1>2 DEF ReadKeys, At
  <2> HIDE DEF g
  <2> QED
    BY <1>4, <2>1, <2>2 DEF Turn
<1>14. WriteKeys(c) => Turn(c, "writeKeys", {"readKeys", "reply"})
  BY <1>1 DEF Local, WriteKeys, At, Turn, Frame
<1>15. ~ SearchExits(c) /\ ~ SetPanics(c)
  BY <1>2 DEF SearchExits, SetPanics
<1>16. Reply(c) => Turn(c, "reply", {"idle"}) /\ UNCHANGED caches
  BY <1>3, <1>4 DEF Reply, Return, At, Turn
<1> QED
  BY <1>6, <1>7, <1>8, <1>9, <1>10, <1>11, <1>12, <1>13, <1>14, <1>15, <1>16

\* The steps of DeleteServer.
LEMMA DeleteTurns ==
  ASSUME Inv, NEW c \in Requests, {"redisError", "exit"} \cap mishaps' = {}
  PROVE  /\ DeleteOne(c) => /\ Turn(c, "deleteOne", {"deleteDoc", "idle"})
                            /\ UNCHANGED caches
         /\ DeleteDoc(c) => /\ Turn(c, "deleteDoc", {"findKeys"})
                            /\ UNCHANGED caches
         /\ DeleteFails(c) => \/ /\ Turn(c, "deleteDoc", {"findKeys"})
                                 /\ UNCHANGED <<stores, caches>>
                              \/ frame[c].pc \in {"deleteOne", "deleteDoc"} /\ Exit
         /\ FindKeys(c) => /\ Turn(c, "findKeys", {"drop"})
                           /\ Get(KeyList(frame[c].kind))
         /\ \A slot \in Slots : Drop(c, slot) => /\ Turn(c, "drop", {"drop"})
                                                 /\ Delete(slot)
         /\ DropDone(c) => /\ Turn(c, "drop", {"findKeys", "idle"})
                           /\ UNCHANGED caches
<1>1. frame[c] \in Frame /\ frame \in [Requests -> Frame]
  BY DEF Inv, FramesOK
<1>2. ~ Mishap("redisError")
  BY DEF Mishap
<1>3. Idle.pc = "idle"
  BY DEF Idle
<1>4. \A g : Local(c, g) => Local(c, frame'[c]) /\ frame'[c] = g
  BY <1>1 DEF Local
<1>5. \A label : [frame[c] EXCEPT !.pc = label].pc = label
  BY <1>1 DEF Frame
<1>6. DeleteOne(c) => Turn(c, "deleteOne", {"deleteDoc", "idle"}) /\ UNCHANGED caches
  BY <1>3, <1>4, <1>5 DEF DeleteOne, Goto, Return, At, Turn, caches
<1>7. DeleteDoc(c) => Turn(c, "deleteDoc", {"findKeys"}) /\ UNCHANGED caches
  BY <1>4, <1>5 DEF DeleteDoc, Goto, At, Turn, caches
<1>8. DeleteFails(c) => \/ Turn(c, "deleteDoc", {"findKeys"}) /\ UNCHANGED <<stores, caches>>
                        \/ frame[c].pc \in {"deleteOne", "deleteDoc"} /\ Exit
  BY <1>4, <1>5 DEF DeleteFails, Goto, At, Turn, stores
<1>9. FindKeys(c) => Turn(c, "findKeys", {"drop"}) /\ Get(KeyList(frame[c].kind))
  <2> DEFINE key == KeyList(frame[c].kind)
             g == [frame[c] EXCEPT !.pc = "drop",
                                   !.keys = IF Found(key) = None THEN {} ELSE Found(key)]
  <2>1. g.pc = "drop"
    BY <1>1 DEF Frame
  <2>2. FindKeys(c) => frame[c].pc = "findKeys" /\ Get(key) /\ Local(c, g)
    BY <1>2 DEF FindKeys, At
  <2> HIDE DEF g
  <2> QED
    BY <1>4, <2>1, <2>2 DEF Turn
<1>10. \A slot \in Slots : Drop(c, slot) => Turn(c, "drop", {"drop"}) /\ Delete(slot)
  BY <1>1, <1>2, <1>4 DEF Drop, At, Turn, Frame
<1>11. DropDone(c) => Turn(c, "drop", {"findKeys", "idle"}) /\ UNCHANGED caches
  <2> DEFINE g == [frame[c] EXCEPT !.pc = "findKeys", !.kind = "status"]
  <2>1. g.pc = "findKeys"
    BY <1>1 DEF Frame
  <2>2. DropDone(c) => /\ frame[c].pc = "drop" /\ UNCHANGED caches
                       /\ Local(c, g) \/ Local(c, Idle)
    BY DEF DropDone, Return, At, caches
  <2> HIDE DEF g
  <2> QED
    BY <1>3, <1>4, <2>1, <2>2 DEF Turn
<1> QED
  BY <1>6, <1>7, <1>8, <1>9, <1>10, <1>11

-----------------------------------------------------------------------------
(* Every step keeps the key lists complete.                                *)

LEMMA ListedWriting ==
  ASSUME Inv, Rest, Alone, ListedOK, NEW c \in Requests,
         {"redisError", "exit"} \cap mishaps' = {},
         SetList(c) \/ SetStatus(c) \/ ReadKeys(c) \/ WriteKeys(c)
  PROVE  Alone' /\ ListedOK'
<1> DEFINE L == ListSlot(Current.window)
<1>1. /\ Alone' /\ Current = frame[c] /\ Current' = frame'[c]
      /\ FrameOK(Current) /\ Current \in Frame
  BY DetailsTurns, Turns
<1>2. /\ Current.pc \in {"setList", "setStatus", "readKeys", "writeKeys"}
      /\ Current.window \in Windows /\ L \in Slots /\ L \in OfKind("list")
  BY <1>1, KeyFacts DEF SetList, SetStatus, ReadKeys, WriteKeys, At, FrameOK, DetailsLabels
<1>3. frame \in [Requests -> Frame] /\ CachesOK
  BY DEF Inv, FramesOK
<1>4. CASE SetList(c)
  <2>1. /\ Current' = [Current EXCEPT !.pc = "setStatus"]
        /\ Set(L, Current.list)
    BY <1>1, <1>3, <1>4 DEF SetList, Goto, Local
  <2>2. Entering(Current') = {L}
    BY <1>1, <1>2, <2>1 DEF Entering, Frame
  <2>3. Current.pc = "setList" /\ Entering(Current) = {}
    BY <1>1, <1>4 DEF SetList, At, Entering
  <2>4. /\ \A k \in Keys : redis'[k] = IF k = L THEN Current.list ELSE redis[k]
        /\ \A k, o \in Keys \ {L} : Before(k, o) => Before(k, o)'
    BY <1>2, <1>3, <2>1, SetEffect, SlotFacts
  <2>5. \A slot \in Slots \ {L} : redis'[slot] # None => Entered(slot)'
    <3> SUFFICES ASSUME NEW slot \in Slots \ {L}, redis'[slot] # None PROVE Entered(slot)'
      OBVIOUS
    <3> DEFINE keyList == KeyList(slot[1])
    <3>1. slot \in Keys \ {L} /\ keyList \in Keys \ {L}
      BY <1>2, SlotFacts, KeyFacts
    <3>2. redis[slot] # None /\ redis'[keyList] = redis[keyList]
      BY <2>4, <3>1
    <3>3. Entered(slot)
      BY <2>3, <3>2 DEF ListedOK
    <3>4. Before(slot, keyList)'
      BY <2>4, <3>1, <3>3 DEF Entered
    <3> QED
      BY <3>2, <3>3, <3>4 DEF Entered
  <2>6. Current'.pc = "setStatus"
    BY <1>1, <2>1 DEF Frame
  <2> QED
    BY <1>1, <2>2, <2>5, <2>6 DEF ListedOK
<1>5. CASE SetStatus(c)
  <2>1. /\ Current' = [Current EXCEPT !.pc = "readKeys", !.status = Current.read, !.read = 0]
        /\ Set(StatusSlot, Current.read)
    BY <1>1, <1>3, <1>5 DEF SetStatus, Local
  <2>2. Current.pc = "setStatus" /\ Current.kind = "list"
    BY <1>1, <1>5 DEF SetStatus, At, FrameOK
  <2>3. Entering(Current) = {L} /\ Entering(Current') = {L, StatusSlot}
    BY <1>1, <1>2, <2>1, <2>2, KeyFacts DEF Entering, Frame
  <2>4. /\ \A k \in Keys : redis'[k] = IF k = StatusSlot THEN Current.read ELSE redis[k]
        /\ \A k, o \in Keys \ {StatusSlot} : Before(k, o) => Before(k, o)'
    BY <1>2, <1>3, <2>1, SetEffect, SlotFacts, KeyFacts
  <2>5. \A slot \in Slots \ {L, StatusSlot} : redis'[slot] # None => Entered(slot)'
    <3> SUFFICES ASSUME NEW slot \in Slots \ {L, StatusSlot}, redis'[slot] # None
                 PROVE  Entered(slot)'
      OBVIOUS
    <3> DEFINE keyList == KeyList(slot[1])
    <3>1. slot \in Keys \ {StatusSlot} /\ keyList \in Keys \ {StatusSlot}
      BY SlotFacts, KeyFacts
    <3>2. redis[slot] # None /\ redis'[keyList] = redis[keyList]
      BY <2>4, <3>1
    <3>3. Entered(slot)
      BY <2>3, <3>2 DEF ListedOK
    <3>4. Before(slot, keyList)'
      BY <2>4, <3>1, <3>3 DEF Entered
    <3> QED
      BY <3>2, <3>3, <3>4 DEF Entered
  <2>6. Current'.pc = "readKeys"
    BY <1>1, <2>1 DEF Frame
  <2> QED
    BY <1>1, <2>3, <2>5, <2>6 DEF ListedOK
<1>6. CASE ReadKeys(c)
  <2> DEFINE kind == Current.kind
             keyList == IF global[kind] # None THEN global[kind] ELSE redis[KeyList(kind)]
             keys == IF keyList = None THEN {} ELSE keyList
  <2>1. ~ Mishap("redisError")
    BY DEF Mishap
  <2>2. /\ Current' = [Current EXCEPT !.pc = "writeKeys", !.keys = keys]
        /\ UNCHANGED <<redis, older>>
    BY <1>1, <1>3, <1>6, <2>1 DEF ReadKeys, Local
  <2>3. kind \in Kinds /\ keyList = redis[KeyList(kind)]
    BY <1>1, <1>3 DEF CachesOK, Frame
  <2>4. \A slot \in OfKind(kind) \ Entering(Current) : redis[slot] # None => slot \in keys
    BY <2>3 DEF ListedOK, Entered, OfKind
  <2> HIDE DEF keys
  <2>5. /\ Current'.pc = "writeKeys" /\ Current'.kind = Current.kind /\ Current'.keys = keys
        /\ Current'.window = Current.window
    BY <1>1, <2>2 DEF Frame
  <2>6. Current.pc = "readKeys" /\ Entering(Current') = Entering(Current)
    BY <1>1, <1>6, <2>5 DEF ReadKeys, At, Entering
  <2> QED
    BY <1>1, <2>2, <2>4, <2>5, <2>6 DEF ListedOK, Entered, Before
<1>7. CASE WriteKeys(c)
  <2>0. PICK kind \in Kinds : kind = Current.kind
    BY <1>1 DEF Frame
  <2> DEFINE slot == IF kind = "list" THEN L ELSE StatusSlot
             keys == Current.keys \cup {slot}
             keyList == KeyList(kind)
  <2>1. /\ Current' = [Current EXCEPT !.pc = IF kind = "list" THEN "readKeys" ELSE "reply",
                                      !.kind = IF kind = "list" THEN "status" ELSE "list",
                                      !.keys = {}]
        /\ Set(keyList, keys)
    BY <1>1, <1>3, <1>7, <2>0 DEF WriteKeys, Local
  <2>2. Current.pc = "writeKeys" /\ Current.kind = kind /\ keyList \in Keys
    BY <1>1, <1>7, <2>0, KeyFacts DEF WriteKeys, At
  <2>3. /\ Entering(Current) = IF kind = "list" THEN {L, StatusSlot} ELSE {StatusSlot}
        /\ Entering(Current') = IF kind = "list" THEN {StatusSlot} ELSE {}
    <3>1. CASE kind = "list"
      <4>1. Current'.pc = "readKeys" /\ Current'.kind = "status"
        BY <1>1, <2>1, <3>1 DEF Frame
      <4> QED
        BY <1>2, <2>2, <3>1, <4>1, KeyFacts DEF Entering
    <3>2. CASE kind = "status"
      <4>1. Current'.pc = "reply"
        BY <1>1, <2>1, <3>2 DEF Frame
      <4> QED
        BY <1>2, <2>2, <3>2, <4>1, KeyFacts DEF Entering
    <3> QED
      BY <3>1, <3>2 DEF Kinds
  <2> HIDE DEF keys
  <2>4. /\ \A k \in Keys : redis'[k] = IF k = keyList THEN keys ELSE redis[k]
        /\ \A k \in Keys \ {keyList} : redis[k] # None => Before(k, keyList)'
        /\ \A k, o \in Keys \ {keyList} : Before(k, o) => Before(k, o)'
    <3>1. Set(keyList, keys)
      BY <2>1
    <3> HIDE DEF keyList
    <3> QED
      BY <1>3, <2>2, <3>1, SetEffect
  <2>5. \A s \in Slots \ Entering(Current') : redis'[s] # None => Entered(s)'
    <3> SUFFICES ASSUME NEW s \in Slots \ Entering(Current'), redis'[s] # None PROVE Entered(s)'
      OBVIOUS
    <3>1. s \in Keys \ {keyList} /\ redis[s] # None /\ KeyList(s[1]) \in Keys
      BY <2>2, <2>4, SlotFacts, KeyFacts
    <3>2. CASE s[1] = kind
      <4>1. s \in OfKind(kind)
        BY <3>2 DEF OfKind
      <4>2. s \in keys
        <5>1. CASE s \in Entering(Current)
          BY <2>3, <5>1 DEF keys
        <5>2. CASE s \notin Entering(Current)
          BY <2>2, <3>1, <4>1, <5>2 DEF ListedOK, keys
        <5> QED
          BY <5>1, <5>2
      <4>3. keys # None
        <5>1. keys \in SUBSET Slots
          BY <1>1, <1>2, KeyFacts DEF Frame, keys
        <5> QED
          BY <5>1, NoneIsNoValue
      <4>4. redis'[keyList] = keys /\ Before(s, keyList)'
        BY <2>2, <2>4, <3>1
      <4> QED
        BY <3>2, <4>2, <4>3, <4>4 DEF Entered
    <3>3. CASE s[1] # kind
      <4>1. KeyList(s[1]) # keyList
        <5>1. s[1] \in Kinds
          BY SlotFacts
        <5> QED
          BY <2>2, <3>3, <5>1, KeyFacts
      <4>2. s \notin Entering(Current)
        <5>1. L[1] = "list" /\ StatusSlot[1] = "status"
          BY <1>2, KeyFacts
        <5>2. s \notin Entering(Current')
          OBVIOUS
        <5> HIDE DEF L
        <5> QED
          BY <2>3, <3>3, <5>1, <5>2 DEF Kinds
      <4>3. Entered(s)
        BY <3>1, <4>2 DEF ListedOK
      <4> QED
        BY <2>4, <3>1, <4>1, <4>3 DEF Entered
    <3> QED
      BY <3>2, <3>3
  <2>6. Current'.pc # "writeKeys"
    BY <1>1, <2>1 DEF Frame
  <2> QED
    BY <1>1, <2>5, <2>6 DEF ListedOK
<1> QED
  BY <1>4, <1>5, <1>6, <1>7

LEMMA ListedStep ==
  ASSUME Inv, Rest, ListedInv, [Next]_vars
  PROVE  ListedInv'
<1> SUFFICES ASSUME Spared(Unlisted)' PROVE Alone' /\ ListedOK'
  BY DEF ListedInv
<1> DEFINE Done == Alone' /\ ListedOK'
           Away == {"idle", "getList", "getStatus", "search", "setList", "reply",
                    "deleteOne", "deleteDoc", "findKeys", "drop"}
<1>1. /\ Alone /\ ListedOK
      /\ {"redisError", "exit"} \cap mishaps' = {} /\ "overlap" \notin mishaps'
  BY RestHolds DEF Spared, Unlisted, ListedInv
<1>2. CachesOK /\ FramesOK
  BY DEF Inv
<1>3. ASSUME NEW c \in Requests, NEW from \in Away \ {"idle"}, NEW to \in SUBSET Away,
             Turn(c, from, to), UNCHANGED <<redis, older>>
      PROVE  Done
  <2>1. Alone' /\ Current.pc = from /\ Current'.pc \in to
    BY <1>1, <1>3, Turns
  <2>2. Entering(Current) = {} /\ Current'.pc \notin {"setStatus", "readKeys", "writeKeys"}
    BY <2>1 DEF Entering
  <2> QED
    BY <1>1, <1>3, <2>1, <2>2, ListedKept
<1>4. ASSUME NEW c \in Requests, frame[c].pc \in Away \ {"idle"}, Exit
      PROVE  Done
  <2>1. Current = frame[c]
    <3>1. frame[c] # Idle
      BY <1>4 DEF Idle
    <3> QED
      BY <1>1, <3>1, CurrentRuns
  <2>2. Alone' /\ Current' = Idle /\ UNCHANGED <<redis, older>>
    BY <1>4, CurrentExits
  <2>3. Entering(Current) = {} /\ Current'.pc \notin {"setStatus", "readKeys", "writeKeys"}
    BY <1>4, <2>1, <2>2 DEF Entering, Idle
  <2> QED
    BY <1>1, <2>2, <2>3, ListedKept
<1>5. ASSUME NEW c \in Requests, NEW f, f.pc \in Away, Begin(c, f)
      PROVE  Done
  <2>1. Alone' /\ Current = Idle /\ Current' = f
    BY <1>1, <1>2, <1>5, CurrentBegins
  <2>2. UNCHANGED <<redis, older>>
    BY <1>5 DEF Begin, caches
  <2>3. Entering(Current) = {} /\ Current'.pc \notin {"setStatus", "readKeys", "writeKeys"}
    BY <1>5, <2>1 DEF Entering, Idle
  <2> QED
    BY <1>1, <2>1, <2>2, <2>3, ListedKept
<1>6. ASSUME UNCHANGED <<redis, older, frame>> PROVE Done
  <2>1. Alone' /\ Current' = Current
    BY <1>1, <1>6, CurrentStays
  <2> QED
    BY <1>1, <1>6, <2>1 DEF ListedOK, Entered, Before
<1>7. \A key : Get(key) => UNCHANGED <<redis, older>>
  BY DEF Get
<1>8. UNCHANGED caches => UNCHANGED <<redis, older>>
  BY DEF caches
<1> HIDE DEF Done
<1>9. ASSUME NEW c \in Requests, DetailsStep(c) PROVE Done
  <2>1. CASE GetList(c)
    BY <1>1, <1>3, <1>7, <2>1, DetailsTurns
  <2>2. CASE GetStatus(c)
    BY <1>1, <1>3, <1>7, <2>2, DetailsTurns
  <2>3. CASE Search(c)
    BY <1>1, <1>3, <1>8, <2>3, DetailsTurns
  <2>4. CASE SearchFindsNothing(c)
    BY <1>1, <1>3, <1>8, <2>4, DetailsTurns
  <2>5. CASE SearchExits(c) \/ SetPanics(c)
    BY <1>1, <2>5, DetailsTurns
  <2>6. CASE SearchFails(c)
    BY <1>1, <1>3, <1>4, <1>8, <2>6, DetailsTurns
  <2>7. CASE SetList(c) \/ SetStatus(c) \/ ReadKeys(c) \/ WriteKeys(c)
    BY <1>1, <2>7, ListedWriting DEF Done
  <2>8. CASE Reply(c)
    BY <1>1, <1>3, <1>8, <2>8, DetailsTurns
  <2> QED
    BY <1>9, <2>1, <2>2, <2>3, <2>4, <2>5, <2>6, <2>7, <2>8 DEF DetailsStep
<1>10. ASSUME NEW c \in Requests, DeleteStep(c) PROVE Done
  <2>1. CASE DeleteOne(c)
    BY <1>1, <1>3, <1>8, <2>1, DeleteTurns
  <2>2. CASE DeleteDoc(c)
    BY <1>1, <1>3, <1>8, <2>2, DeleteTurns
  <2>3. CASE DeleteFails(c)
    BY <1>1, <1>3, <1>4, <1>8, <2>3, DeleteTurns
  <2>4. CASE FindKeys(c)
    BY <1>1, <1>3, <1>7, <2>4, DeleteTurns
  <2>5. ASSUME NEW slot \in Slots, Drop(c, slot) PROVE Done
    <3>1. Turn(c, "drop", {"drop"}) /\ Delete(slot)
      BY <1>1, <2>5, DeleteTurns
    <3>2. Alone' /\ Current.pc = "drop" /\ Current'.pc = "drop"
      BY <1>1, <3>1, Turns
    <3>3. slot \in Keys /\ \A s \in Slots : slot # KeyList(s[1])
      BY SlotFacts
    <3>4. Entering(Current') = Entering(Current)
      BY <3>2 DEF Entering
    <3>5. ListedOK'
      BY <1>1, <1>2, <3>1, <3>2, <3>3, <3>4, ListedGone DEF Delete
    <3> QED
      BY <3>2, <3>5 DEF Done
  <2>6. CASE DropDone(c)
    BY <1>1, <1>3, <1>8, <2>6, DeleteTurns
  <2> QED
    BY <1>10, <2>1, <2>2, <2>3, <2>4, <2>5, <2>6 DEF DeleteStep
<1>11. ASSUME NEW c \in Requests, NEW w \in Windows, DetailsServer(c, w) PROVE Done
  <2> DEFINE f == [Idle EXCEPT !.pc = "getList", !.op = "DetailsServer", !.window = w]
  <2>1. f.pc \in Away /\ Begin(c, f)
    BY <1>11 DEF DetailsServer, Idle
  <2> HIDE DEF f
  <2> QED
    BY <1>5, <2>1
<1>12. ASSUME NEW c \in Requests, DeleteServer(c) PROVE Done
  <2> DEFINE f == [Idle EXCEPT !.pc = "deleteOne", !.op = "DeleteServer"]
  <2>1. f.pc \in Away /\ Begin(c, f)
    BY <1>12 DEF DeleteServer, Idle
  <2> HIDE DEF f
  <2> QED
    BY <1>5, <2>1
<1>13. ASSUME Expire PROVE Done
  <2>1. PICK key \in Keys : /\ older[key] = {}
                            /\ redis' = [redis EXCEPT ![key] = None]
                            /\ older' = Without(key)
    BY <1>13 DEF Expire
  <2>2. "expiry" \in Mishaps /\ UNCHANGED frame
    BY <1>13 DEF Expire
  <2>3. Alone' /\ Current' = Current
    BY <1>1, <2>2, CurrentStays
  <2>4. \A slot \in Slots \ Entering(Current) :
          slot # key /\ redis[slot] # None => key # KeyList(slot[1])
    BY <1>1, <2>1, <2>2 DEF ListedOK, Entered, Before
  <2>5. ListedOK'
    BY <1>1, <1>2, <2>1, <2>3, <2>4, ListedGone
  <2> QED
    BY <2>3, <2>5 DEF Done
<1>14. ASSUME Extend \/ Refresh \/ Crash
              \/ (\E key \in Keys : Forget(key)) \/ (\E kind \in Kinds : ForgetKeys(kind))
       PROVE  Done
  <2>1. ~ Crash
    BY <1>1 DEF Crash, Mishap
  <2> QED
    BY <1>6, <1>14, <2>1 DEF Extend, Refresh, Forget, ForgetKeys, caches
<1>15. ASSUME UNCHANGED vars PROVE Done
  BY <1>6, <1>15 DEF vars, caches
<1> QED
  <2>1. Done
    BY <1>9, <1>10, <1>11, <1>12, <1>13, <1>14, <1>15 DEF Next
  <2> QED
    BY <2>1 DEF Done

-----------------------------------------------------------------------------
(* The rows in the cache are no newer than the status in the cache, which  *)
(* expires after them and is dropped after them; a request that finds the  *)
(* one therefore finds the other.  Here no copy may be out of date, and no *)
(* entry may expire while a request runs.                                  *)

\* A version that was searchable when it was read, and is still there if any is.
Recent(version) == version <= visible \/ (visible = 0 /\ history = 0)

DocumentOK == history = 0 \/ visible <= history

Rows(made, status) == Len(made) <= 1 /\ \A j \in DOMAIN made : made[j].version <= status

Covered(slot) ==
  /\ redis[StatusSlot] # None
  /\ Before(slot, StatusSlot)
  /\ Rows(redis[slot], redis[StatusSlot])

CoveredOK ==
  /\ redis[StatusSlot] # None => Recent(redis[StatusSlot])
  /\ \A slot \in OfKind("list") : redis[slot] # None =>
       Covered(slot) \/ (Current.pc = "setStatus" /\ slot = ListSlot(Current.window))

CurrentCovered ==
  LET f == Current
      found == redis[ListSlot(f.window)] IN
  /\ f.pc \notin {"getStatus", "setList", "setStatus", "readKeys", "writeKeys", "reply"} =>
       f.list = << >>
  /\ f.pc = "getList" => ~ f.hit
  /\ f.pc = "getStatus" =>
       \/ f.list = << >> /\ ~ f.hit
       \/ f.list = found /\ found # None /\ f.hit
  /\ f.pc \in {"setList", "setStatus"} =>
       /\ Rows(f.list, f.read)
       /\ Recent(f.read)
       /\ redis[StatusSlot] # None => redis[StatusSlot] <= f.read
  /\ f.pc = "setStatus" => f.list = found
  /\ f.pc \in {"readKeys", "writeKeys", "reply"} => Rows(f.list, f.status)
  /\ f.pc = "drop" /\ f.kind = "list" =>
       \A slot \in OfKind("list") : redis[slot] # None => slot \in f.keys
  /\ f.pc \in {"findKeys", "drop"} /\ f.kind = "status" =>
       \A slot \in OfKind("list") : redis[slot] = None

Uncovered == {"overlap", "oldCopy", "amid", "redisError", "exit"}

CoveredInv == DocumentOK /\ (Spared(Uncovered) => CoveredOK /\ CurrentCovered)

\* The invariants imply the two properties.
LEMMA CoveredAnswers ==
  ASSUME Inv, ListedInv, CoveredInv
  PROVE  StatusNotOlder /\ AnsweredOnce
<1> SUFFICES ASSUME Spared(Uncovered), NEW c \in Requests
             PROVE  /\ At(c, "reply") => \A j \in DOMAIN frame[c].list :
                                           frame[c].list[j].version <= frame[c].status
                    /\ Len(frame[c].list) <= 1
  BY DEF StatusNotOlder, AnsweredOnce, Spared, Uncovered
<1>1. Alone /\ CoveredOK /\ CurrentCovered
  BY DEF ListedInv, CoveredInv, Spared, Uncovered, Unlisted
<1>2. CASE frame[c] = Idle
  BY <1>2 DEF At, Idle
<1>3. CASE frame[c] # Idle
  <2>1. Current = frame[c]
    BY <1>1, <1>3, CurrentRuns
  <2>2. At(c, "reply") => Rows(frame[c].list, frame[c].status)
    BY <1>1, <2>1 DEF CurrentCovered, At
  <2>3. CASE frame[c].pc = "getStatus"
    <3>1. FrameOK(frame[c])
      BY DEF Inv, FramesOK
    <3>2. ListSlot(frame[c].window) \in OfKind("list")
      BY <2>3, <3>1, KeyFacts DEF FrameOK, DetailsLabels
    <3>3. Len(frame[c].list) <= 1
      BY <1>1, <2>1, <2>3, <3>2 DEF CurrentCovered, CoveredOK, Covered, Rows
    <3> QED
      BY <2>3, <3>3 DEF At
  <2>4. CASE frame[c].pc # "getStatus"
    <3>1. Len(frame[c].list) <= 1
      BY <1>1, <2>1, <2>4 DEF CurrentCovered, Rows
    <3> QED
      BY <2>2, <3>1 DEF Rows
  <2> QED
    BY <2>3, <2>4
<1> QED
  BY <1>2, <1>3

\* What a step does to the history and to what a search finds of it.
LEMMA HistoryMoves ==
  ASSUME Inv, [Next]_vars
  PROVE  \/ UNCHANGED <<history, visible>>
         \/ history' = 0 /\ UNCHANGED visible
         \/ history # 0 /\ history' = history + 1 /\ UNCHANGED visible
         \/ visible' = history /\ UNCHANGED history
<1> DEFINE Moves == \/ UNCHANGED <<history, visible>>
                    \/ history' = 0 /\ UNCHANGED visible
                    \/ history # 0 /\ history' = history + 1 /\ UNCHANGED visible
                    \/ visible' = history /\ UNCHANGED history
<1>1. ASSUME NEW c \in Requests, DetailsStep(c) PROVE UNCHANGED stores
  BY <1>1 DEF DetailsStep, GetList, GetStatus, Search, SearchFindsNothing, SearchExits, SearchFails,
              SetList, SetStatus, ReadKeys, WriteKeys, SetPanics, Reply
<1>2. ASSUME NEW c \in Requests, DeleteStep(c) PROVE Moves
  BY <1>2 DEF DeleteStep, DeleteOne, DeleteDoc, DeleteFails, FindKeys, Drop, DropDone, stores
<1>3. ASSUME NEW c \in Requests, NEW w \in Windows, DetailsServer(c, w) PROVE UNCHANGED stores
  BY <1>3 DEF DetailsServer, Begin
<1>4. ASSUME NEW c \in Requests, DeleteServer(c) PROVE UNCHANGED stores
  BY <1>4 DEF DeleteServer, Begin
<1>5. ASSUME Extend \/ Refresh \/ Expire \/ Crash
              \/ (\E key \in Keys : Forget(key)) \/ (\E kind \in Kinds : ForgetKeys(kind))
      PROVE  Moves
  BY <1>5 DEF Extend, Refresh, Expire, Crash, Forget, ForgetKeys, stores
<1>6. UNCHANGED stores \/ UNCHANGED vars => Moves
  BY DEF stores, vars
<1> HIDE DEF Moves
<1>7. Moves
  BY <1>1, <1>2, <1>3, <1>4, <1>5, <1>6 DEF Next
<1> QED
  BY <1>7 DEF Moves

LEMMA RecentKept ==
  ASSUME Inv, DocumentOK, [Next]_vars
  PROVE  /\ DocumentOK'
         /\ \A v \in Versions : Recent(v) => v <= visible' \/ (visible' = 0 /\ history' = 0)
<1>1. history \in Nat /\ visible \in Nat /\ Versions \subseteq Nat
  BY ConstantsOK DEF Inv, Versions, ConstantsOK
<1> QED
  BY <1>1, HistoryMoves DEF DocumentOK, Recent

LEMMA CoveredKept ==
  ASSUME Inv, DocumentOK, CoveredOK, [Next]_vars, UNCHANGED <<redis, older>>,
         Current.pc # "setStatus"
  PROVE  CoveredOK'
<1>1. redis[StatusSlot] # None => redis[StatusSlot] \in Versions
  BY DEF Inv, CachesOK
<1> QED
  BY <1>1, RecentKept DEF CoveredOK, Covered, Before, Recent

LEMMA CoveredIdle ==
  ASSUME Current' = Idle
  PROVE  CurrentCovered'
  BY DEF CurrentCovered, Idle

\* Without copies that are out of date, a Get finds what is in Redis.
LEMMA GetCurrent ==
  ASSUME NEW key, Get(key), "oldCopy" \notin mishaps'
  PROVE  Found(key) = redis[key] /\ UNCHANGED <<redis, older>>
  BY DEF Get, MishapIf, Mishap

\* Rows and a status that were read one after the other.
LEMMA CoveredReading ==
  ASSUME Inv, DocumentOK, CoveredOK, CurrentCovered, Alone, [Next]_vars, NEW c \in Requests,
         mishaps' \cap Uncovered = {}, GetList(c) \/ GetStatus(c)
  PROVE  CoveredOK' /\ CurrentCovered'
<1> DEFINE w == Current.window
<1>1. {"redisError", "exit"} \cap mishaps' = {} /\ "oldCopy" \notin mishaps'
  BY DEF Uncovered
<1>2. frame \in [Requests -> Frame]
  BY DEF Inv, FramesOK
<1>3. CASE GetList(c)
  <2> DEFINE key == ListSlot(w)
             f == [Current EXCEPT !.pc = "getStatus"]
             g == [Current EXCEPT !.pc = "getStatus", !.list = redis[key], !.hit = TRUE]
  <2>1. /\ Current = frame[c] /\ Current' = frame'[c] /\ Current.pc = "getList"
        /\ Current \in Frame /\ Get(key)
    BY <1>1, <1>3, DetailsTurns, Turns
  <2>2. Found(key) = redis[key] /\ UNCHANGED <<redis, older>>
    BY <1>1, <2>1, GetCurrent
  <2>3. ~ Mishap("redisError")
    BY <1>1 DEF Mishap
  <2>4. Current' = f \/ (redis[key] # None /\ Current' = g)
    <3>1. \/ Local(c, [frame[c] EXCEPT !.pc = "getStatus"])
          \/ /\ redis[key] # None
             /\ Local(c, [frame[c] EXCEPT !.pc = "getStatus", !.list = redis[key], !.hit = TRUE])
      BY <1>3, <2>1, <2>2, <2>3 DEF GetList, Goto
    <3> QED
      BY <1>2, <2>1, <3>1 DEF Local
  <2>5. /\ f.pc = "getStatus" /\ f.list = Current.list /\ f.hit = Current.hit
        /\ g.pc = "getStatus" /\ g.list = redis[key] /\ g.window = w /\ g.hit
    BY <2>1 DEF Frame
  <2> HIDE DEF f, g
  <2>6. CurrentCovered'
    BY <2>1, <2>2, <2>4, <2>5 DEF CurrentCovered
  <2> QED
    BY <2>1, <2>2, <2>6, CoveredKept
<1>4. CASE GetStatus(c)
  <2> DEFINE status == redis[StatusSlot]
             g == [Current EXCEPT !.pc = IF Current.hit /\ status # None THEN "reply" ELSE "search",
                                  !.status = IF status = None THEN 0 ELSE status,
                                  !.hit = FALSE]
  <2>1. /\ Current = frame[c] /\ Current' = frame'[c] /\ Current.pc = "getStatus"
        /\ Current \in Frame /\ Get(StatusSlot) /\ FrameOK(Current)
    BY <1>1, <1>4, DetailsTurns, Turns
  <2>2. Found(StatusSlot) = status /\ UNCHANGED <<redis, older>>
    BY <1>1, <2>1, GetCurrent
  <2>3. ~ Mishap("redisError")
    BY <1>1 DEF Mishap
  <2>4. Current' = g
    BY <1>2, <1>4, <2>1, <2>2, <2>3 DEF GetStatus, AfterStatus, Local
  <2>5. /\ g.pc = IF Current.hit /\ status # None THEN "reply" ELSE "search"
        /\ g.list = Current.list /\ (status # None => g.status = status)
    BY <2>1 DEF Frame
  <2>6. CASE Current.list = << >>
    <3>1. Rows(<< >>, g.status)
      BY DEF Rows
    <3> HIDE DEF g
    <3> QED
      BY <2>1, <2>2, <2>4, <2>5, <2>6, <3>1, CoveredKept DEF CurrentCovered
  <2>7. CASE Current.hit /\ Current.list = redis[ListSlot(w)] /\ redis[ListSlot(w)] # None
    <3>1. ListSlot(w) \in OfKind("list")
      BY <2>1, KeyFacts DEF FrameOK, DetailsLabels
    <3>2. status # None /\ Rows(Current.list, status)
      BY <2>1, <2>7, <3>1 DEF CoveredOK, Covered
    <3> HIDE DEF g
    <3> QED
      BY <2>1, <2>2, <2>4, <2>5, <2>7, <3>2, CoveredKept DEF CurrentCovered
  <2> QED
    BY <2>1, <2>6, <2>7 DEF CurrentCovered
<1> QED
  BY <1>3, <1>4

\* The search, the answers, and the ways out.
LEMMA CoveredSearching ==
  ASSUME Inv, DocumentOK, CoveredOK, CurrentCovered, Alone, [Next]_vars, NEW c \in Requests,
         mishaps' \cap Uncovered = {},
         Search(c) \/ SearchFindsNothing(c) \/ SearchFails(c) \/ Reply(c)
  PROVE  CoveredOK' /\ CurrentCovered'
<1>1. {"redisError", "exit"} \cap mishaps' = {}
  BY DEF Uncovered
<1>2. frame \in [Requests -> Frame] /\ Idle.pc = "idle"
  BY DEF Inv, FramesOK, Idle
<1>3. CASE Search(c)
  <2> DEFINE row == [window |-> Current.window, version |-> visible]
             g == [Current EXCEPT !.pc = "setList", !.list = Append(Current.list, row),
                                  !.read = visible]
  <2>1. /\ Current = frame[c] /\ Current' = frame'[c] /\ Current.pc = "search"
        /\ Current \in Frame /\ UNCHANGED caches
    BY <1>1, <1>3, DetailsTurns, Turns
  <2>2. Current' = g /\ visible # 0 /\ UNCHANGED <<visible, history, redis, older>>
    BY <1>2, <1>3, <2>1 DEF Search, Made, Local, stores, caches
  <2>3. g.pc = "setList" /\ g.list = Append(Current.list, row) /\ g.read = visible
    BY <2>1 DEF Frame
  <2>4. Current.list = << >>
    BY <2>1 DEF CurrentCovered
  <2>5. visible \in Nat
    BY ConstantsOK DEF Inv, Versions, ConstantsOK
  <2>6. Rows(Append(<< >>, row), visible) /\ Recent(visible)
    <3>1. Append(<< >>, row) = <<row>> /\ row.version = visible
      OBVIOUS
    <3> HIDE DEF row
    <3> QED
      BY <2>5, <3>1 DEF Rows, Recent
  <2>7. redis[StatusSlot] # None => redis[StatusSlot] <= visible
    BY <2>2 DEF CoveredOK, Recent
  <2>8. Rows(Current'.list, Current'.read) /\ Current'.read = visible /\ Current'.pc = "setList"
    BY <2>2, <2>3, <2>4, <2>6
  <2> HIDE DEF g, row
  <2>9. CurrentCovered'
    BY <2>2, <2>5, <2>7, <2>8 DEF CurrentCovered, Recent
  <2> QED
    BY <2>1, <2>2, <2>9, CoveredKept
<1>4. CASE SearchFindsNothing(c) \/ Reply(c)
  <2>1. /\ Current = frame[c] /\ Current' = frame'[c] /\ Current.pc \in {"search", "reply"}
        /\ UNCHANGED caches
    BY <1>1, <1>4, DetailsTurns, Turns
  <2>2. Current' = Idle
    BY <1>2, <1>4, <2>1 DEF SearchFindsNothing, Reply, Return, Local
  <2> QED
    BY <2>1, <2>2, CoveredKept, CoveredIdle DEF caches
<1>5. CASE SearchFails(c)
  <2>1. CASE Turn(c, "search", {"reply"}) /\ UNCHANGED caches
    <3>1. /\ Current = frame[c] /\ Current' = frame'[c] /\ Current.pc = "search"
          /\ Current \in Frame /\ Current'.pc = "reply"
      BY <2>1, Turns
    <3>2. frame' = [frame EXCEPT ![c] = [frame[c] EXCEPT !.pc = "reply"]] \/ Exit
      BY <1>5 DEF SearchFails, Goto, Local
    <3>3. Current' = [Current EXCEPT !.pc = "reply"]
      BY <1>2, <3>1, <3>2 DEF Exit
    <3>4. Current'.list = << >>
      BY <3>1, <3>3 DEF Frame, CurrentCovered
    <3>5. Rows(Current'.list, Current'.status)
      BY <3>4 DEF Rows
    <3>6. CurrentCovered'
      BY <3>1, <3>5 DEF CurrentCovered
    <3> QED
      BY <2>1, <3>1, <3>6, CoveredKept DEF caches
  <2>2. CASE frame[c].pc = "search" /\ Exit
    <3>1. Current = frame[c]
      BY <2>2, CurrentRuns DEF Idle
    <3> QED
      BY <2>2, <3>1, CurrentExits, CoveredKept, CoveredIdle
  <2> QED
    BY <1>1, <1>5, <2>1, <2>2, DetailsTurns
<1> QED
  BY <1>3, <1>4, <1>5

\* The list first, then the status, then the key lists.
LEMMA CoveredWriting ==
  ASSUME Inv, Rest, DocumentOK, CoveredOK, CurrentCovered, Alone, [Next]_vars,
         NEW c \in Requests, mishaps' \cap Uncovered = {},
         SetList(c) \/ SetStatus(c) \/ ReadKeys(c) \/ WriteKeys(c)
  PROVE  CoveredOK' /\ CurrentCovered'
<1>1. {"redisError", "exit"} \cap mishaps' = {}
  BY DEF Uncovered
<1>2. frame \in [Requests -> Frame] /\ CachesOK
  BY DEF Inv, FramesOK
<1>3. /\ Current = frame[c] /\ Current' = frame'[c] /\ FrameOK(Current) /\ Current \in Frame
  BY <1>1, DetailsTurns, Turns
<1>4. PICK L \in OfKind("list") : L = ListSlot(Current.window) /\ L \in Keys
  BY <1>3, KeyFacts, SlotFacts
     DEF SetList, SetStatus, ReadKeys, WriteKeys, At, FrameOK, DetailsLabels
<1>5. /\ StatusSlot \in Keys /\ StatusSlot \notin OfKind("list")
      /\ \A slot \in OfKind("list") : slot \in Keys
  BY KeyFacts, SlotFacts DEF OfKind
<1>6. /\ Versions \subseteq Nat /\ Current.read \in Versions
      /\ redis[StatusSlot] # None => redis[StatusSlot] \in Versions
  BY <1>3, ConstantsOK DEF Inv, CachesOK, Frame, Versions, ConstantsOK
<1> DEFINE StillRecent(v) == v <= visible' \/ (visible' = 0 /\ history' = 0)
<1>7. \A v \in Versions : Recent(v) => StillRecent(v)
  BY RecentKept
<1> HIDE DEF StillRecent
<1>8. CASE SetList(c)
  <2>1. Current' = [Current EXCEPT !.pc = "setStatus"] /\ Set(L, Current.list)
    BY <1>2, <1>3, <1>4, <1>8 DEF SetList, Goto, Local
  <2>2. /\ Current'.pc = "setStatus" /\ Current'.list = Current.list
        /\ Current'.read = Current.read /\ Current'.window = Current.window
        /\ Current.pc = "setList"
    BY <1>3, <1>8, <2>1 DEF Frame, SetList, At
  <2>3. /\ \A k \in Keys : redis'[k] = IF k = L THEN Current.list ELSE redis[k]
        /\ \A k, o \in Keys \ {L} : Before(k, o) => Before(k, o)'
    BY <1>2, <1>4, <2>1, SetEffect
  <2>4. redis'[StatusSlot] = redis[StatusSlot] /\ StatusSlot \in Keys \ {L}
    BY <1>4, <1>5, <2>3
  <2>5. \A slot \in OfKind("list") \ {L} : redis'[slot] # None => Covered(slot)'
    <3> SUFFICES ASSUME NEW slot \in OfKind("list") \ {L}, redis'[slot] # None
                 PROVE  Covered(slot)'
      OBVIOUS
    <3>1. slot \in Keys \ {L} /\ redis'[slot] = redis[slot]
      BY <1>5, <2>3
    <3>2. Covered(slot)
      BY <2>2, <3>1 DEF CoveredOK
    <3>3. Before(slot, StatusSlot)'
      BY <2>3, <2>4, <3>1, <3>2 DEF Covered
    <3> QED
      BY <2>4, <3>1, <3>2, <3>3 DEF Covered
  <2>6. /\ StillRecent(Current.read)
        /\ redis[StatusSlot] # None => StillRecent(redis[StatusSlot])
    BY <1>6, <1>7, <2>2 DEF CoveredOK, CurrentCovered
  <2>7. CoveredOK'
    BY <1>4, <2>2, <2>4, <2>5, <2>6 DEF CoveredOK, Recent, StillRecent
  <2>8. redis'[ListSlot(Current'.window)] = Current'.list
    BY <1>4, <2>2, <2>3
  <2> QED
    BY <2>2, <2>4, <2>6, <2>7, <2>8 DEF CurrentCovered, Recent, StillRecent
<1>9. CASE SetStatus(c)
  <2> DEFINE read == Current.read
  <2>1. /\ Current' = [Current EXCEPT !.pc = "readKeys", !.status = read, !.read = 0]
        /\ Set(StatusSlot, read)
    BY <1>2, <1>3, <1>9 DEF SetStatus, Local
  <2>2. /\ Current'.pc = "readKeys" /\ Current'.list = Current.list
        /\ Current'.status = read /\ Current.pc = "setStatus"
    BY <1>3, <1>9, <2>1 DEF Frame, SetStatus, At
  <2>3. /\ \A k \in Keys : redis'[k] = IF k = StatusSlot THEN read ELSE redis[k]
        /\ \A k \in Keys \ {StatusSlot} : redis[k] # None => Before(k, StatusSlot)'
    BY <1>2, <1>5, <2>1, SetEffect
  <2>4. redis'[StatusSlot] = read /\ read # None
    BY <1>5, <1>6, <2>3, NoneIsNoValue
  <2>5. \A slot \in OfKind("list") : redis'[slot] # None => Covered(slot)'
    <3> SUFFICES ASSUME NEW slot \in OfKind("list"), redis'[slot] # None PROVE Covered(slot)'
      OBVIOUS
    <3>1. slot \in Keys \ {StatusSlot} /\ redis'[slot] = redis[slot] /\ Before(slot, StatusSlot)'
      BY <1>5, <2>3
    <3>2. Rows(redis[slot], read)
      <4>1. CASE slot = L
        BY <1>4, <2>2, <4>1 DEF CurrentCovered
      <4>2. CASE slot # L
        <5>1. Covered(slot) /\ redis[StatusSlot] <= read
          BY <1>4, <2>2, <3>1, <4>2 DEF CoveredOK, CurrentCovered, Covered
        <5>2. \A j \in DOMAIN redis[slot] : redis[slot][j].version \in Nat
          <6>1. PICK w \in Windows : slot = ListSlot(w)
            BY SlotFacts
          <6>2. redis[slot] \in Seq(Fit(w))
            BY <1>2, <3>1, <6>1 DEF CachesOK
          <6>3. \A j \in DOMAIN redis[slot] : redis[slot][j] \in Fit(w)
            BY <6>2
          <6> QED
            BY <1>6, <6>3 DEF Fit
        <5>3. redis[StatusSlot] \in Nat /\ read \in Nat
          BY <1>6, <5>1 DEF Covered
        <5> HIDE DEF read
        <5> QED
          BY <5>1, <5>2, <5>3 DEF Covered, Rows
      <4> QED
        BY <4>1, <4>2
    <3> HIDE DEF read
    <3> QED
      BY <2>4, <3>1, <3>2 DEF Covered
  <2>7. StillRecent(Current.read)
    BY <1>6, <1>7, <2>2 DEF CurrentCovered
  <2>8. Rows(Current'.list, Current'.status)
    BY <2>2 DEF CurrentCovered
  <2>9. CoveredOK'
    BY <2>2, <2>4, <2>5, <2>7 DEF CoveredOK, Recent, StillRecent
  <2> QED
    BY <2>2, <2>8, <2>9 DEF CurrentCovered
<1>10. CASE ReadKeys(c)
  <2>1. /\ UNCHANGED <<redis, older>>
        /\ Current.pc = "readKeys" /\ Current'.pc = "writeKeys"
    <3>1. UNCHANGED <<redis, older>>
      BY <1>10 DEF ReadKeys
    <3> QED
      BY <1>1, <1>10, <3>1, DetailsTurns, Turns
  <2>2. Current'.list = Current.list /\ Current'.status = Current.status
    <3> DEFINE kind == frame[c].kind
               keyList == IF global[kind] # None THEN global[kind] ELSE redis[KeyList(kind)]
               keys == IF keyList = None THEN {} ELSE keyList
    <3>1. frame' = [frame EXCEPT ![c] = [frame[c] EXCEPT !.pc = "writeKeys", !.keys = keys]]
      BY <1>1, <1>10 DEF ReadKeys, Local, Mishap
    <3> HIDE DEF keys
    <3> QED
      BY <1>2, <1>3, <3>1 DEF Frame
  <2>3. CurrentCovered'
    BY <2>1, <2>2 DEF CurrentCovered
  <2> QED
    BY <2>1, <2>3, CoveredKept
<1>11. CASE WriteKeys(c)
  <2>0. PICK kind \in Kinds : kind = Current.kind
    BY <1>3 DEF Frame
  <2> DEFINE keyList == KeyList(kind)
  <2>1. /\ Current.pc = "writeKeys" /\ Current'.pc \in {"readKeys", "reply"}
        /\ Current'.list = Current.list /\ Current'.status = Current.status
    BY <1>2, <1>3, <1>11 DEF WriteKeys, At, Local, Frame
  <2>2. PICK keys : Set(keyList, keys)
    BY <1>3, <1>11, <2>0 DEF WriteKeys
  <2>3. keyList \in Keys /\ keyList \notin Slots
    BY KeyFacts
  <2>4. /\ \A k \in Keys : redis'[k] = IF k = keyList THEN keys ELSE redis[k]
        /\ \A k, o \in Keys \ {keyList} : Before(k, o) => Before(k, o)'
    BY <1>2, <2>2, <2>3, SetEffect
  <2>5. \A slot \in Slots : slot \in Keys \ {keyList} /\ redis'[slot] = redis[slot]
    BY <2>3, <2>4, SlotFacts
  <2>6. StatusSlot \in Slots /\ OfKind("list") \subseteq Slots
    BY KeyFacts DEF OfKind
  <2>7. \A slot \in OfKind("list") : Before(slot, StatusSlot) => Before(slot, StatusSlot)'
    BY <2>4, <2>5, <2>6
  <2>8. \A slot \in OfKind("list") : redis'[slot] # None => Covered(slot)'
    BY <2>1, <2>5, <2>6, <2>7 DEF CoveredOK, Covered
  <2>9. redis[StatusSlot] # None => StillRecent(redis[StatusSlot])
    BY <1>6, <1>7 DEF CoveredOK
  <2>10. CoveredOK'
    BY <2>5, <2>6, <2>8, <2>9 DEF CoveredOK, Recent, StillRecent
  <2> QED
    BY <2>1, <2>10 DEF CurrentCovered
<1> QED
  BY <1>8, <1>9, <1>10, <1>11

\* DeleteServer drops what is cached of the lists and then of the status.
LEMMA CoveredDeleting ==
  ASSUME Inv, ListedOK, DocumentOK, CoveredOK, CurrentCovered, Alone, [Next]_vars,
         NEW c \in Requests, mishaps' \cap Uncovered = {},
         \/ DeleteOne(c) \/ DeleteDoc(c) \/ DeleteFails(c)
         \/ FindKeys(c) \/ (\E slot \in Slots : Drop(c, slot)) \/ DropDone(c)
  PROVE  CoveredOK' /\ CurrentCovered'
<1>1. {"redisError", "exit"} \cap mishaps' = {} /\ "oldCopy" \notin mishaps'
  BY DEF Uncovered
<1>2. frame \in [Requests -> Frame] /\ frame[c] \in Frame /\ CachesOK /\ Idle.pc = "idle"
  BY DEF Inv, FramesOK, Idle
<1>3. CASE DeleteOne(c) \/ DeleteDoc(c) \/ DeleteFails(c)
  <2>1. CASE frame[c].pc \in {"deleteOne", "deleteDoc"} /\ Exit
    <3>1. Current = frame[c]
      BY <2>1, CurrentRuns DEF Idle
    <3> QED
      BY <2>1, <3>1, CurrentExits, CoveredKept, CoveredIdle
  <2>2. ASSUME NEW from \in {"deleteOne", "deleteDoc"}, NEW to,
               Turn(c, from, to), UNCHANGED caches,
               ~ Exit, \/ from = "deleteOne" /\ to = {"deleteDoc", "idle"}
                       \/ from = "deleteDoc" /\ to = {"findKeys"}
        PROVE  CoveredOK' /\ CurrentCovered'
    <3>1. /\ Current = frame[c] /\ Current' = frame'[c] /\ Current.pc = from
          /\ FrameOK(Current) /\ Current'.pc \in to
      BY <2>2, Turns
    <3>2. frame'[c] \in {Idle, [frame[c] EXCEPT !.pc = "deleteDoc"],
                         [frame[c] EXCEPT !.pc = "findKeys"]}
      BY <1>2, <1>3, <2>2 DEF DeleteOne, DeleteDoc, DeleteFails, Goto, Return, Local
    <3>3. CASE Current' = Idle
      BY <2>2, <3>1, <3>3, CoveredKept, CoveredIdle DEF caches
    <3>4. CASE Current' # Idle
      <4>1. Current'.list = Current.list /\ Current'.kind = Current.kind
        BY <1>2, <3>1, <3>2, <3>4 DEF Frame
      <4>2. Current.list = << >> /\ Current.kind = "list"
        BY <3>1 DEF CurrentCovered, FrameOK
      <4>3. Current'.pc \in {"deleteDoc", "findKeys", "idle"}
        BY <2>2, <3>1
      <4>4. CurrentCovered'
        BY <4>1, <4>2, <4>3 DEF CurrentCovered
      <4> QED
        BY <2>2, <3>1, <4>4, CoveredKept DEF caches
    <3> QED
      BY <3>3, <3>4
  <2>3. CASE Exit /\ frame[c].pc \notin {"deleteOne", "deleteDoc"}
    BY <1>3, <2>3 DEF DeleteOne, DeleteDoc, DeleteFails, At
  <2> QED
    BY <1>1, <1>3, <2>1, <2>2, <2>3, DeleteTurns DEF caches
<1>4. CASE FindKeys(c)
  <2>0. PICK kind \in Kinds : kind = frame[c].kind
    BY <1>2 DEF Frame
  <2> DEFINE keyList == redis[KeyList(kind)]
             keys == IF keyList = None THEN {} ELSE keyList
  <2>1. /\ Current = frame[c] /\ Current' = frame'[c] /\ Current.pc = "findKeys"
        /\ Current \in Frame /\ Current'.pc = "drop" /\ Get(KeyList(kind))
    BY <1>1, <1>4, <2>0, DeleteTurns, Turns
  <2>2. Found(KeyList(kind)) = keyList /\ UNCHANGED <<redis, older>>
    BY <1>1, <2>1, GetCurrent
  <2>3. ~ Mishap("redisError")
    BY <1>1 DEF Mishap
  <2>4. Local(c, [frame[c] EXCEPT !.pc = "drop", !.keys = keys])
    BY <1>4, <2>0, <2>2, <2>3 DEF FindKeys
  <2> HIDE DEF keys
  <2>5. /\ Current'.keys = keys /\ Current'.kind = kind
        /\ Current'.list = Current.list
    BY <1>2, <2>0, <2>1, <2>4 DEF Frame, Local
  <2>6. \A slot \in OfKind(kind) : redis[slot] # None => slot \in keys
    <3>1. Entering(Current) = {}
      BY <2>1 DEF Entering
    <3> QED
      BY <3>1 DEF ListedOK, Entered, OfKind, keys
  <2>7. CurrentCovered'
    BY <2>0, <2>1, <2>2, <2>5, <2>6 DEF CurrentCovered
  <2> QED
    BY <2>1, <2>2, <2>7, CoveredKept
<1>5. ASSUME NEW slot \in Slots, Drop(c, slot)
      PROVE  CoveredOK' /\ CurrentCovered'
  <2>1. /\ Current = frame[c] /\ Current' = frame'[c] /\ Current.pc = "drop"
        /\ Current'.pc = "drop" /\ FrameOK(Current) /\ Delete(slot)
    BY <1>1, <1>5, DeleteTurns, Turns
  <2>2. /\ Current'.keys = Current.keys \ {slot} /\ Current'.kind = Current.kind
        /\ Current'.list = Current.list /\ slot \in Current.keys
    BY <1>2, <1>5, <2>1 DEF Drop, Local, Frame
  <2>3. /\ \A k \in Keys : redis'[k] = IF k = slot THEN None ELSE redis[k]
        /\ \A k, o \in Keys \ {slot} : Before(k, o) => Before(k, o)'
    BY <1>2, <2>1, GoneEffect, SlotFacts DEF Delete
  <2>4. /\ StatusSlot \in Keys /\ StatusSlot \notin OfKind("list")
        /\ \A s \in OfKind("list") : s \in Keys
    BY KeyFacts, SlotFacts DEF OfKind
  <2>5. \A s \in OfKind("list") : redis'[s] # None =>
          /\ redis[s] # None /\ s # slot /\ redis'[s] = redis[s]
          /\ Covered(s)
    BY <2>1, <2>3, <2>4 DEF CoveredOK
  <2>6. slot = StatusSlot => \A s \in OfKind("list") : redis[s] = None
    <3>1. slot \in OfKind(Current.kind) /\ Current.kind \in Kinds
      BY <1>2, <2>1, <2>2 DEF FrameOK, Frame
    <3>2. slot = StatusSlot => Current.kind = "status"
      BY <2>4, <3>1 DEF Kinds
    <3> QED
      BY <2>1, <3>2 DEF CurrentCovered
  <2>7. \A s \in OfKind("list") : redis'[s] # None => Covered(s)'
    <3> SUFFICES ASSUME NEW s \in OfKind("list"), redis'[s] # None PROVE Covered(s)'
      OBVIOUS
    <3>1. slot # StatusSlot /\ s # slot /\ redis'[s] = redis[s] /\ Covered(s)
      BY <2>5, <2>6
    <3>2. redis'[StatusSlot] = redis[StatusSlot] /\ Before(s, StatusSlot)'
      BY <2>3, <2>4, <3>1 DEF Covered
    <3> QED
      BY <3>1, <3>2 DEF Covered
  <2>8. redis'[StatusSlot] # None => /\ redis'[StatusSlot] = redis[StatusSlot]
                                     /\ redis[StatusSlot] \in Versions
    BY <1>2, <2>3, <2>4 DEF CachesOK
  <2>9. CoveredOK'
    BY <2>7, <2>8, RecentKept DEF CoveredOK, Recent
  <2>10. CurrentCovered'
    BY <2>1, <2>2, <2>3, <2>4 DEF CurrentCovered
  <2> QED
    BY <2>9, <2>10
<1>6. CASE DropDone(c)
  <2>1. /\ Current = frame[c] /\ Current' = frame'[c] /\ Current.pc = "drop"
        /\ Current'.pc \in {"findKeys", "idle"} /\ UNCHANGED caches /\ FrameOK(Current)
    BY <1>1, <1>6, DeleteTurns, Turns
  <2>2. CASE Current.kind = "list"
    <3> DEFINE g == [frame[c] EXCEPT !.pc = "findKeys", !.kind = "status"]
    <3>g. /\ frame[c] \in Frame /\ frame[c].kind = "list"
      BY <1>2, <2>1, <2>2
    <3>h. g.list = frame[c].list /\ g.kind = "status" /\ g.pc = "findKeys"
      BY <3>g DEF Frame
    <3>l. Local(c, g) /\ frame[c].keys = {}
      BY <1>6, <3>g DEF DropDone
    <3> HIDE DEF g
    <3>f. frame'[c] = g
      BY <1>2, <3>l DEF Local
    <3>1. /\ Current'.list = Current.list /\ Current'.kind = "status" /\ Current'.pc = "findKeys"
          /\ Current.keys = {}
      BY <2>1, <3>h, <3>l, <3>f
    <3>2. CurrentCovered'
      BY <2>1, <2>2, <3>1 DEF CurrentCovered, caches
    <3> QED
      BY <2>1, <3>2, CoveredKept DEF caches
  <2>3. CASE Current.kind # "list"
    <3>1. Current' = Idle
      BY <1>2, <1>6, <2>1, <2>3 DEF DropDone, Return, Local
    <3> QED
      BY <2>1, <3>1, CoveredKept, CoveredIdle DEF caches
  <2> QED
    BY <2>2, <2>3
<1> QED
  BY <1>3, <1>4, <1>5, <1>6

\* What the environment does, with or without a request that runs.
LEMMA CoveredEnvironment ==
  ASSUME Inv, DocumentOK, CoveredOK, CurrentCovered, [Next]_vars,
         mishaps' \cap Uncovered = {}, UNCHANGED frame,
         UNCHANGED <<redis, older>> \/ Expire
  PROVE  CoveredOK' /\ CurrentCovered'
<1>1. Current' = Current
  BY CurrentStays
<1>2. \A v \in Versions : Recent(v) => v <= visible' \/ (visible' = 0 /\ history' = 0)
  BY RecentKept
<1>3. redis[StatusSlot] # None => redis[StatusSlot] \in Versions
  BY DEF Inv, CachesOK
<1>4. CASE UNCHANGED <<redis, older>>
  <2>1. CoveredOK'
    BY <1>1, <1>2, <1>3, <1>4 DEF CoveredOK, Covered, Before, Recent
  <2>2. Current.read \in Versions
    BY CurrentOK DEF Inv, FrameOK, Frame
  <2>3. CurrentCovered'
    BY <1>1, <1>2, <1>4, <2>2 DEF CurrentCovered, Recent
  <2> QED
    BY <2>1, <2>3
<1>5. CASE Expire
  <2>1. ~ Running /\ "expiry" \in Mishaps
    BY <1>5 DEF Expire, Uncovered
  <2>2. Current = Idle
    BY <2>1 DEF Current
  <2>3. PICK key \in Keys : /\ older[key] = {}
                            /\ redis' = [redis EXCEPT ![key] = None]
                            /\ older' = Without(key)
    BY <1>5 DEF Expire
  <2>4. /\ \A k \in Keys : redis'[k] = IF k = key THEN None ELSE redis[k]
        /\ \A k, o \in Keys \ {key} : Before(k, o) => Before(k, o)'
    BY <2>3, GoneEffect DEF Inv
  <2>5. StatusSlot \in Keys /\ \A s \in OfKind("list") : s \in Keys
    BY KeyFacts, SlotFacts DEF OfKind
  <2>6. \A s \in OfKind("list") : redis'[s] # None => Covered(s)'
    <3> SUFFICES ASSUME NEW s \in OfKind("list"), redis'[s] # None PROVE Covered(s)'
      OBVIOUS
    <3>1. s # key /\ redis'[s] = redis[s] /\ Covered(s)
      BY <2>2, <2>4, <2>5 DEF CoveredOK, Idle
    <3>2. key # StatusSlot
      BY <2>1, <2>3, <3>1 DEF Covered, Before
    <3>3. redis'[StatusSlot] = redis[StatusSlot] /\ Before(s, StatusSlot)'
      BY <2>4, <2>5, <3>1, <3>2 DEF Covered
    <3> QED
      BY <3>1, <3>3 DEF Covered
  <2>7. redis'[StatusSlot] # None => redis'[StatusSlot] = redis[StatusSlot]
    BY <2>4, <2>5
  <2>8. CoveredOK'
    BY <1>2, <1>3, <2>6, <2>7 DEF CoveredOK, Recent
  <2> QED
    BY <1>1, <2>2, <2>8, CoveredIdle
<1> QED
  BY <1>4, <1>5

LEMMA CoveredStep ==
  ASSUME Inv, Rest, ListedInv, CoveredInv, [Next]_vars
  PROVE  CoveredInv'
<1>0. DocumentOK'
  BY RecentKept DEF CoveredInv
<1> SUFFICES ASSUME Spared(Uncovered)' PROVE CoveredOK' /\ CurrentCovered'
  BY <1>0 DEF CoveredInv
<1> DEFINE Done == CoveredOK' /\ CurrentCovered'
<1>1. /\ Alone /\ ListedOK /\ CoveredOK /\ CurrentCovered /\ DocumentOK
      /\ mishaps' \cap Uncovered = {}
      /\ {"redisError", "exit"} \cap mishaps' = {} /\ "overlap" \notin mishaps'
  BY RestHolds DEF Spared, Unlisted, Uncovered, ListedInv, CoveredInv
<1>2. ASSUME NEW c \in Requests, NEW f, Begin(c, f), f.list = << >>,
             f.pc = "deleteOne" \/ (f.pc = "getList" /\ ~ f.hit)
      PROVE  Done
  <2>1. Current = Idle /\ Current' = f
    BY <1>1, <1>2, CurrentBegins DEF Inv
  <2>2. UNCHANGED <<redis, older>> /\ Current.pc # "setStatus"
    BY <1>2, <2>1 DEF Begin, caches, Idle
  <2>3. CurrentCovered'
    BY <1>2, <2>1 DEF CurrentCovered
  <2> QED
    BY <1>1, <2>2, <2>3, CoveredKept
<1>3. ASSUME NEW c \in Requests, DetailsStep(c) PROVE Done
  <2>1. ~ SearchExits(c) /\ ~ SetPanics(c)
    BY <1>1, DetailsTurns
  <2> QED
    BY <1>1, <1>3, <2>1, CoveredReading, CoveredSearching, CoveredWriting DEF DetailsStep
<1>4. ASSUME NEW c \in Requests, DeleteStep(c) PROVE Done
  BY <1>1, <1>4, CoveredDeleting DEF DeleteStep
<1>5. ASSUME NEW c \in Requests, NEW w \in Windows, DetailsServer(c, w) PROVE Done
  <2> DEFINE f == [Idle EXCEPT !.pc = "getList", !.op = "DetailsServer", !.window = w]
  <2>1. f.pc = "getList" /\ f.list = << >> /\ ~ f.hit /\ Begin(c, f)
    BY <1>5 DEF DetailsServer, Idle
  <2> HIDE DEF f
  <2> QED
    BY <1>2, <2>1
<1>6. ASSUME NEW c \in Requests, DeleteServer(c) PROVE Done
  <2> DEFINE f == [Idle EXCEPT !.pc = "deleteOne", !.op = "DeleteServer"]
  <2>1. f.pc = "deleteOne" /\ f.list = << >> /\ Begin(c, f)
    BY <1>6 DEF DeleteServer, Idle
  <2> HIDE DEF f
  <2> QED
    BY <1>2, <2>1
<1>7. ASSUME Extend \/ Refresh \/ Expire \/ Crash
             \/ (\E key \in Keys : Forget(key)) \/ (\E kind \in Kinds : ForgetKeys(kind))
      PROVE  Done
  <2>1. ~ Crash
    BY <1>1 DEF Crash, Mishap
  <2>2. UNCHANGED frame /\ (UNCHANGED <<redis, older>> \/ Expire)
    BY <1>7, <2>1 DEF Extend, Refresh, Expire, Forget, ForgetKeys, caches
  <2> QED
    BY <1>1, <2>2, CoveredEnvironment
<1>8. ASSUME UNCHANGED vars PROVE Done
  <2>1. UNCHANGED frame /\ UNCHANGED <<redis, older>>
    BY <1>8 DEF vars, caches
  <2> QED
    BY <1>1, <2>1, CoveredEnvironment
<1> HIDE DEF Done
<1>9. Done
  BY <1>3, <1>4, <1>5, <1>6, <1>7, <1>8 DEF Next
<1> QED
  BY <1>9 DEF Done

LEMMA InvariantsHold == Spec => [](ListedInv /\ CoveredInv)
<1> DEFINE Invs == Inv /\ Rest /\ ListedInv /\ CoveredInv
<1>1. Init => Invs
  <2> SUFFICES ASSUME Init PROVE Invs
    OBVIOUS
  <2>1. Inv /\ Rest
    BY InitOK
  <2>2. Current = Idle /\ Alone
    BY CurrentIdle DEF Init
  <2>3. \A slot \in Slots : redis[slot] = None
    BY SlotFacts DEF Init
  <2>4. \A slot \in OfKind("list") : slot \in Slots
    BY DEF OfKind
  <2>5. Current.pc = "idle" /\ Current.list = << >> /\ Current.kind = "list"
    BY <2>2 DEF Idle
  <2>6. ListedInv
    BY <2>2, <2>3, <2>5 DEF ListedInv, ListedOK
  <2>7. DocumentOK
    BY DEF Init, DocumentOK
  <2>8. CoveredOK /\ CurrentCovered
    BY <2>3, <2>4, <2>5, KeyFacts DEF CoveredOK, CurrentCovered
  <2> QED
    BY <2>1, <2>6, <2>7, <2>8 DEF CoveredInv
<1>2. Invs /\ [Next]_vars => Invs'
  BY InvStep, RestHolds, ListedStep, CoveredStep
<1> QED
  BY <1>1, <1>2, PTL DEF Spec

\* StatusNotOlder, of the rows and the status that DetailsServer answers with: however
\* many requests there are and whatever the history becomes, under the conditions the
\* property names.
THEOREM StatusNotOlderHolds == Spec => []StatusNotOlder
  BY CoveredAnswers, InvHolds, InvariantsHold, PTL

\* AnsweredOnce, of the rows that DetailsServer appends to what it has found.
THEOREM AnsweredOnceHolds == Spec => []AnsweredOnce
  BY CoveredAnswers, InvHolds, InvariantsHold, PTL

-----------------------------------------------------------------------------
(* What DeleteServer still has to drop is named in the keys at hand or in  *)
(* key lists that the repositories' client has no copy of: it reads them   *)
(* for no other purpose.                                                   *)

Fresh(kind) == drive[KeyList(kind)] = None

Empty(kind) == \A slot \in OfKind(kind) : redis[slot] = None

Making == {"setList", "setStatus", "readKeys", "writeKeys"}
Dropping == {"findKeys", "drop"}

DeletedOK ==
  LET f == Current IN
  /\ stored => Fresh("list") /\ Fresh("status")
  /\ f.pc = "deleteOne" => stored
  /\ f.pc \in {"deleteDoc"} \cup Dropping => ~ stored
  /\ f.pc = "deleteDoc" => Fresh("list") /\ Fresh("status")
  /\ f.pc \in Dropping => /\ history = 0
                          /\ f.kind = "list" => Fresh("status")
                          /\ f.kind = "status" => Empty("list")
  /\ f.pc = "findKeys" => Fresh(f.kind)
  /\ f.pc = "drop" => \A slot \in OfKind(f.kind) : redis[slot] # None => slot \in f.keys
  /\ ~ stored /\ f.pc \notin {"deleteDoc"} \cup Dropping =>
       /\ f.pc \notin Making
       /\ history = 0
       /\ \A slot \in Slots : redis[slot] = None

Undeleted == {"overlap", "unrefreshed", "redisError", "storeError", "exit"}

DeletedInv == Spared(Undeleted) => DeletedOK

LEMMA DeletedAnswers ==
  ASSUME DeletedInv
  PROVE  DeletedForgotten
<1> SUFFICES ASSUME Spared(Undeleted), ~ stored, ~ Running
             PROVE  \A slot \in Slots : redis[slot] = None
  BY DEF DeletedForgotten, Spared, Undeleted
<1>1. DeletedOK /\ Current.pc = "idle"
  BY DEF DeletedInv, Current, Idle
<1> QED
  BY <1>1 DEF DeletedOK, Dropping

\* A step outside the steps of a deletion that writes to the cache at most while the
\* server is on record.
LEMMA DeletedKept ==
  ASSUME DeletedOK, UNCHANGED stores,
         \A kind \in Kinds : drive'[KeyList(kind)] = drive[KeyList(kind)],
         stored \/ UNCHANGED redis,
         Current.pc \notin {"deleteDoc"} \cup Dropping,
         Current'.pc \notin {"deleteDoc"} \cup Dropping,
         Current'.pc \in Making \cup {"deleteOne"} => stored
  PROVE  DeletedOK'
  BY DEF DeletedOK, Fresh, Kinds, stores, Dropping

\* A step of the environment: the entries and the copies that are gone are not missed.
LEMMA DeletedGone ==
  ASSUME Inv, DeletedOK, UNCHANGED <<stored, frame>>, history = 0 => history' = 0,
         \A key \in Keys : redis'[key] \in {None, redis[key]} /\ drive'[key] \in {None, drive[key]}
  PROVE  DeletedOK'
<1>1. Current' = Current
  BY CurrentStays
<1>2. \A kind \in Kinds : Fresh(kind) => Fresh(kind)'
  BY KeyFacts DEF Fresh
<1>3. \A slot \in Slots : redis[slot] = None => redis'[slot] = None
  BY SlotFacts
<1>4. \A kind : \A slot \in OfKind(kind) : slot \in Slots
  BY DEF OfKind
<1>5. Current.kind \in Kinds
  BY CurrentOK DEF Inv, FrameOK, Frame
<1> DEFINE f == Current
<1>6. f' = f
  BY <1>1
<1>7. f.kind \in Kinds
  BY <1>5
<1> QED
  BY <1>2, <1>3, <1>4, <1>6, <1>7 DEF DeletedOK, Empty, Kinds

\* The steps of DetailsServer.  A search after the deletion that finds the history would
\* find an outdated one.
LEMMA DeletedDetails ==
  ASSUME Inv, Alone, DeletedOK, NEW c \in Requests, DetailsStep(c),
         mishaps' \cap Undeleted = {}
  PROVE  DeletedOK'
<1> DEFINE Others == {"idle", "getList", "getStatus", "search", "reply"}
           Step == /\ Current.pc \notin {"deleteDoc"} \cup Dropping
                   /\ Current'.pc \notin {"deleteDoc", "deleteOne"} \cup Dropping
                   /\ Current'.pc \in Making => stored
                   /\ \A kind \in Kinds : drive'[KeyList(kind)] = drive[KeyList(kind)]
                   /\ stored \/ UNCHANGED redis
<1>1. {"redisError", "exit"} \cap mishaps' = {} /\ "storeError" \notin mishaps'
      /\ "unrefreshed" \notin mishaps'
  BY DEF Undeleted
<1>2. \A kind \in Kinds : KeyList(kind) \in Keys /\ DOMAIN drive = Keys
  BY KeyFacts DEF Inv, CachesOK
<1>3. \A slot \in Slots : Get(slot) => /\ UNCHANGED redis
                                       /\ \A kind \in Kinds : drive'[KeyList(kind)] = drive[KeyList(kind)]
  BY <1>2, SlotFacts DEF Get
<1>4. UNCHANGED stores
  BY DEF DetailsStep, GetList, GetStatus, Search, SearchFindsNothing, SearchExits, SearchFails,
         SetList, SetStatus, ReadKeys, WriteKeys, SetPanics, Reply
<1>5. CASE GetList(c)
  <2>1. Current.pc = "getList" /\ Current'.pc = "getStatus" /\ Get(ListSlot(frame[c].window))
        /\ FrameOK(Current) /\ Current = frame[c]
    BY <1>1, <1>5, DetailsTurns, Turns
  <2>2. ListSlot(frame[c].window) \in Slots
    BY <2>1, KeyFacts DEF FrameOK, DetailsLabels
  <2>3. Step
    BY <1>3, <2>1, <2>2 DEF Making, Dropping
  <2> QED
    BY <1>4, <2>3, DeletedKept
<1>6. CASE GetStatus(c)
  <2>1. Current.pc = "getStatus" /\ Current'.pc \in {"search", "reply"} /\ Get(StatusSlot)
    BY <1>1, <1>6, DetailsTurns, Turns
  <2>2. Step
    BY <1>3, <2>1, KeyFacts DEF Making, Dropping
  <2> QED
    BY <1>4, <2>2, DeletedKept
<1>7. CASE Search(c)
  <2>1. Current.pc = "search" /\ Current'.pc = "setList" /\ UNCHANGED caches
    BY <1>1, <1>7, DetailsTurns, Turns
  <2>2. visible # 0 /\ visible = history
    BY <1>1, <1>7 DEF Search, MishapIf, Mishap
  <2>3. stored
    BY <2>1, <2>2 DEF DeletedOK, Dropping
  <2>4. Step
    BY <2>1, <2>3 DEF Dropping, caches
  <2> QED
    BY <1>4, <2>4, DeletedKept
<1>8. CASE SearchFindsNothing(c) \/ Reply(c)
  <2>1. Current.pc \in Others /\ Current'.pc \in Others /\ UNCHANGED caches
    BY <1>1, <1>8, DetailsTurns, Turns
  <2>2. Step
    BY <2>1 DEF Making, Dropping, caches
  <2> QED
    BY <1>4, <2>2, DeletedKept
<1>9. CASE SearchExits(c) \/ SearchFails(c) \/ SetPanics(c)
  BY <1>1, <1>9, DetailsTurns DEF SearchFails, Mishap
<1>10. CASE SetList(c) \/ SetStatus(c) \/ ReadKeys(c) \/ WriteKeys(c)
  <2>1. Current.pc \in Making /\ Current'.pc \in Making \cup {"reply"}
    BY <1>1, <1>10, DetailsTurns, Turns DEF Making
  <2>2. stored
    BY <2>1 DEF DeletedOK, Making, Dropping
  <2>3. UNCHANGED drive
    BY <1>10 DEF SetList, SetStatus, ReadKeys, WriteKeys, Set
  <2>4. Step
    BY <2>1, <2>2, <2>3 DEF Making, Dropping
  <2> QED
    BY <1>4, <2>4, DeletedKept
<1> QED
  BY <1>5, <1>6, <1>7, <1>8, <1>9, <1>10 DEF DetailsStep

\* The steps of DeleteServer.
LEMMA DeletedDeleting ==
  ASSUME Inv, Alone, ListedOK, DeletedOK, NEW c \in Requests, DeleteStep(c),
         mishaps' \cap Undeleted = {}
  PROVE  DeletedOK'
<1>1. {"redisError", "exit"} \cap mishaps' = {} /\ "storeError" \notin mishaps'
  BY DEF Undeleted
<1>2. frame \in [Requests -> Frame] /\ CachesOK
  BY DEF Inv, FramesOK
<1>3. CASE DeleteOne(c)
  <2>1. /\ Current = frame[c] /\ Current' = frame'[c] /\ Current.pc = "deleteOne"
        /\ UNCHANGED caches
    BY <1>1, <1>3, DeleteTurns, Turns
  <2>2. stored /\ Fresh("list") /\ Fresh("status")
    BY <2>1 DEF DeletedOK
  <2>3. Current'.pc = "deleteDoc" /\ ~ stored'
    BY <1>2, <1>3, <2>1, <2>2 DEF DeleteOne, Goto, Local, Frame
  <2> QED
    BY <2>1, <2>2, <2>3 DEF DeletedOK, Fresh, Dropping, Making, caches
<1>4. CASE DeleteDoc(c)
  <2>1. /\ Current = frame[c] /\ Current' = frame'[c] /\ Current.pc = "deleteDoc"
        /\ Current'.pc = "findKeys" /\ UNCHANGED caches /\ FrameOK(Current)
    BY <1>1, <1>4, DeleteTurns, Turns
  <2>2. ~ stored /\ Fresh("list") /\ Fresh("status")
    BY <2>1 DEF DeletedOK
  <2>3. ~ stored' /\ history' = 0
    BY <1>4, <2>2 DEF DeleteDoc
  <2>4. Current.kind = "list"
    BY <2>1 DEF FrameOK
  <2>5. Current'.kind = Current.kind
    BY <1>2, <1>4, <2>1 DEF DeleteDoc, Goto, Local, Frame
  <2> QED
    BY <2>1, <2>2, <2>3, <2>4, <2>5 DEF DeletedOK, Fresh, Dropping, Making, caches
<1>5. CASE DeleteFails(c)
  BY <1>1, <1>5 DEF DeleteFails, Mishap
<1>6. CASE FindKeys(c)
  <2> DEFINE kind == frame[c].kind
             key == KeyList(frame[c].kind)
             keys == IF Found(key) = None THEN {} ELSE Found(key)
             g == [frame[c] EXCEPT !.pc = "drop", !.keys = keys]
  <2>1. /\ Current = frame[c] /\ Current' = frame'[c] /\ Current.pc = "findKeys"
        /\ Current'.pc = "drop" /\ Get(key) /\ FrameOK(Current) /\ UNCHANGED stores
    <3>1. UNCHANGED stores
      BY <1>6 DEF FindKeys
    <3> QED
      BY <1>1, <1>6, <3>1, DeleteTurns, Turns
  <2>2. /\ ~ stored /\ history = 0 /\ Fresh(kind)
        /\ kind = "list" => Fresh("status")
        /\ kind = "status" => Empty("list")
    BY <2>1 DEF DeletedOK, Dropping
  <2>3. kind \in Kinds /\ key \in Keys /\ frame[c] \in Frame
    BY <2>1, KeyFacts DEF FrameOK, Frame
  <2>4. g.pc = "drop" /\ g.keys = keys /\ g.kind = kind
    BY <2>3 DEF Frame
  <2>5. Local(c, g)
    BY <1>1, <1>6 DEF FindKeys, Mishap
  <2>6. \A slot \in OfKind(kind) : redis[slot] # None => slot \in keys
    <3>1. Entering(Current) = {}
      BY <2>1 DEF Entering
    <3>2. Found(key) = redis[key]
      BY <2>2 DEF Fresh, Found
    <3> QED
      BY <2>1, <3>1, <3>2 DEF ListedOK, Entered, OfKind
  <2>7. UNCHANGED redis /\ (kind = "list" => drive'[KeyList("status")] = drive[KeyList("status")])
    BY <1>2, <2>1, SlotFacts, KeyFacts DEF Get, CachesOK, Kinds
  <2> HIDE DEF g, keys
  <2>8. frame'[c] = g
    BY <1>2, <2>5 DEF Local
  <2>9. Current'.kind = kind /\ Current'.keys = keys
    BY <2>1, <2>4, <2>8
  <2> QED
    BY <2>1, <2>2, <2>6, <2>7, <2>9 DEF DeletedOK, Fresh, Empty, Dropping, stores
<1>7. ASSUME NEW slot \in Slots, Drop(c, slot) PROVE DeletedOK'
  <2>1. /\ Current = frame[c] /\ Current' = frame'[c] /\ Current.pc = "drop"
        /\ Current'.pc = "drop" /\ Delete(slot) /\ UNCHANGED stores
    BY <1>1, <1>7, DeleteTurns, Turns DEF Drop
  <2>2. /\ Current'.keys = Current.keys \ {slot} /\ Current'.kind = Current.kind
    BY <1>2, <1>7, <2>1 DEF Drop, Local, Frame
  <2>3. \A k \in Keys : redis'[k] = IF k = slot THEN None ELSE redis[k]
    BY <1>2, <2>1, GoneEffect, SlotFacts DEF Delete
  <2>4. Fresh("status") => Fresh("status")'
    BY <1>2, <2>1, KeyFacts DEF Delete, Fresh, CachesOK, Kinds
  <2>5. \A kind : \A s \in OfKind(kind) : s \in Keys
    BY SlotFacts DEF OfKind
  <2> QED
    BY <2>1, <2>2, <2>3, <2>4, <2>5 DEF DeletedOK, Empty, Dropping, stores
<1>8. CASE DropDone(c)
  <2>1. /\ Current = frame[c] /\ Current' = frame'[c] /\ Current.pc = "drop"
        /\ UNCHANGED caches /\ UNCHANGED stores /\ FrameOK(Current)
    BY <1>1, <1>8, DeleteTurns, Turns DEF DropDone
  <2>2. /\ ~ stored /\ history = 0 /\ Empty(Current.kind)
        /\ Current.kind = "list" => Fresh("status")
        /\ Current.kind = "status" => Empty("list")
    BY <1>8, <2>1 DEF DropDone, DeletedOK, Dropping, Empty
  <2>3. CASE Current.kind = "list"
    <3> DEFINE g == [frame[c] EXCEPT !.pc = "findKeys", !.kind = "status"]
    <3>1. frame[c] \in Frame
      BY <1>2
    <3>2. g.kind = "status" /\ g.pc = "findKeys"
      BY <3>1 DEF Frame
    <3>3. Local(c, g)
      BY <1>8, <2>1, <2>3 DEF DropDone
    <3> HIDE DEF g
    <3>4. Current'.kind = "status" /\ Current'.pc = "findKeys"
      BY <1>2, <2>1, <3>2, <3>3 DEF Local
    <3> QED
      BY <2>1, <2>2, <2>3, <3>4 DEF DeletedOK, Fresh, Empty, Dropping, stores, caches
  <2>4. CASE Current.kind # "list"
    <3>1. Current' = Idle
      BY <1>2, <1>8, <2>1, <2>4 DEF DropDone, Return, Local
    <3>2. Current.kind = "status"
      BY <2>1, <2>4 DEF FrameOK, Frame, Kinds
    <3>3. \A slot \in Slots : redis[slot] = None
      BY <2>2, <3>2, SlotFacts DEF Empty, Kinds
    <3> QED
      BY <2>1, <2>2, <3>1, <3>3 DEF DeletedOK, Dropping, Making, stores, caches, Idle
  <2> QED
    BY <2>3, <2>4
<1> QED
  BY <1>3, <1>4, <1>5, <1>6, <1>7, <1>8 DEF DeleteStep

LEMMA DeletedStep ==
  ASSUME Inv, Rest, ListedInv, DeletedInv, [Next]_vars
  PROVE  DeletedInv'
<1> SUFFICES ASSUME Spared(Undeleted)' PROVE DeletedOK'
  BY DEF DeletedInv
<1>1. /\ Alone /\ ListedOK /\ DeletedOK /\ mishaps' \cap Undeleted = {}
      /\ "exit" \notin mishaps' /\ "overlap" \notin mishaps'
  BY RestHolds DEF Spared, Unlisted, Undeleted, ListedInv, DeletedInv
<1>2. ASSUME NEW c \in Requests, NEW f, Begin(c, f),
             f.pc = "getList" \/ (f.pc = "deleteOne" /\ stored)
      PROVE  DeletedOK'
  <2>1. Current = Idle /\ Current' = f
    BY <1>1, <1>2, CurrentBegins DEF Inv
  <2>2. UNCHANGED stores /\ UNCHANGED redis /\ UNCHANGED drive
    BY <1>2 DEF Begin, caches
  <2> QED
    BY <1>1, <1>2, <2>1, <2>2, DeletedKept DEF Idle, Dropping, Making
<1>3. ASSUME NEW c \in Requests, NEW w \in Windows, DetailsServer(c, w) PROVE DeletedOK'
  <2> DEFINE f == [Idle EXCEPT !.pc = "getList", !.op = "DetailsServer", !.window = w]
  <2>1. f.pc = "getList" /\ Begin(c, f)
    BY <1>3 DEF DetailsServer, Idle
  <2> HIDE DEF f
  <2> QED
    BY <1>2, <2>1
<1>4. ASSUME NEW c \in Requests, DeleteServer(c) PROVE DeletedOK'
  <2> DEFINE f == [Idle EXCEPT !.pc = "deleteOne", !.op = "DeleteServer"]
  <2>1. f.pc = "deleteOne" /\ stored /\ Begin(c, f)
    BY <1>4 DEF DeleteServer, Idle
  <2> HIDE DEF f
  <2> QED
    BY <1>2, <2>1
<1>5. ASSUME NEW c \in Requests, DetailsStep(c) \/ DeleteStep(c) PROVE DeletedOK'
  BY <1>1, <1>5, DeletedDetails, DeletedDeleting
<1>6. ASSUME Extend \/ Refresh \/ Expire \/ Crash
             \/ (\E key \in Keys : Forget(key)) \/ (\E kind \in Kinds : ForgetKeys(kind))
      PROVE  DeletedOK'
  <2>1. ~ Crash
    BY <1>1 DEF Crash, Mishap
  <2>2. UNCHANGED <<stored, frame>> /\ (history = 0 => history' = 0)
    BY <1>6, <2>1 DEF Extend, Refresh, Expire, Forget, ForgetKeys, stores
  <2>3. DOMAIN redis = Keys /\ DOMAIN drive = Keys
    BY DEF Inv, CachesOK
  <2>4. \A key \in Keys : redis'[key] \in {None, redis[key]} /\ drive'[key] \in {None, drive[key]}
    BY <1>6, <2>1, <2>3 DEF Extend, Refresh, Expire, Forget, ForgetKeys, caches
  <2> QED
    BY <1>1, <2>2, <2>4, DeletedGone
<1>7. ASSUME UNCHANGED vars PROVE DeletedOK'
  <2>1. UNCHANGED <<stored, frame>> /\ UNCHANGED history /\ UNCHANGED <<redis, drive>>
    BY <1>7 DEF vars, stores, caches
  <2> QED
    BY <1>1, <2>1, DeletedGone
<1> QED
  BY <1>3, <1>4, <1>5, <1>6, <1>7 DEF Next

LEMMA DeletedInit == Init => DeletedInv
<1> SUFFICES ASSUME Init PROVE DeletedOK
  BY DEF DeletedInv
<1>1. Current = Idle
  BY CurrentIdle DEF Init
<1>2. Current.pc = "idle"
  BY <1>1 DEF Idle
<1>3. Fresh("list") /\ Fresh("status") /\ stored
  BY KeyFacts DEF Init, Fresh, Kinds
<1> QED
  BY <1>2, <1>3 DEF DeletedOK, Dropping

\* DeletedForgotten, of DeleteServer, which finds what it has to drop in the key lists
\* that DetailsServer writes.
THEOREM DeletedForgottenHolds == Spec => []DeletedForgotten
<1>1. Inv /\ Rest /\ ListedInv /\ DeletedInv /\ [Next]_vars => DeletedInv'
  BY DeletedStep
<1> QED
  BY <1>1, DeletedInit, DeletedAnswers, InvHolds, InvariantsHold, PTL DEF Spec
=============================================================================
