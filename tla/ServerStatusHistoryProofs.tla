---------------------- MODULE ServerStatusHistoryProofs ----------------------
(***************************************************************************)
(* Theorems about ServerStatus and ServerStatusHistory, for any sets of    *)
(* servers and goroutines, of any size, and for every choice of failures.  *)
(* First those about ServerStatus alone; then the documents are shown to   *)
(* implement StatusDocument, a deleted server leaves none behind, and what *)
(* Connect and Disconnect report is recorded.                              *)
(***************************************************************************)
EXTENDS ServerStatusHistory, TLAPS

-----------------------------------------------------------------------------
(* Types.  TypeOK alone is not inductive: that a search or an update goes  *)
(* to a document at all needs that a goroutine works for a server wherever *)
(* it is between two calls.                                                *)

SharedOK ==
  /\ record \in [Servers -> {"absent", "stored", "deleted"}]
  /\ aged \in [Servers -> BOOLEAN]
  /\ index \in [Servers -> Seq(Entries)]
  /\ searchable \in [Servers -> Seq(Entries)]
  /\ clock \in Nat
  /\ failed \subseteq {"exit", "esError"}

LocalOK ==
  /\ pc \in [Goroutines -> Labels]
  /\ op \in [Goroutines -> Handlers]
  /\ srv \in [Goroutines -> Servers \cup {NoServer}]
  /\ body \in [Goroutines -> Seq(Entries)]
  /\ batch \in [Goroutines -> SUBSET Servers]

HasServer ==
  \A c \in Goroutines : pc[c] \notin {"idle", "sweep"} => srv[c] \in Servers

Typed == SharedOK /\ LocalOK /\ HasServer

\* The type invariant is the first part of the inductive one.
LEMMA TypedIsTypeOK == Typed => TypeOK
BY DEF Typed, SharedOK, LocalOK, TypeOK

\* A search without hits, and a server without a document, have a history of the type.
LEMMA EmptyHistory == NoDocument \in Seq(Entries)
BY DEF NoDocument

\* What a handler appends, and where it goes on, are as declared.
LEMMA HandlerTables ==
  ASSUME NEW handler \in Handlers
  PROVE  /\ NewStatus(handler) \in Statuses
         /\ AfterUpdate(handler) \in Labels
BY DEF NewStatus, AfterUpdate, Handlers, Statuses, Labels

\* Writing the document of one server keeps the histories in their type.
LEMMA WriteHistory ==
  ASSUME NEW logs \in [Servers -> Seq(Entries)], NEW s, NEW log \in Seq(Entries)
  PROVE  [logs EXCEPT ![s] = log] \in [Servers -> Seq(Entries)]
OBVIOUS

\* An update-by-query keeps the histories in their type.
LEMMA QueryOK ==
  ASSUME Typed, NEW c \in Goroutines
  PROVE  UpdateByQuery(srv[c], body[c]) \in [Servers -> Seq(Entries)]
BY WriteHistory DEF UpdateByQuery, Typed, SharedOK, LocalOK

\* The next process starts with goroutines of the type.
LEMMA ExitTyped ==
  ASSUME Exit
  PROVE  LocalOK' /\ HasServer'
BY EmptyHistory DEF Exit, LocalOK, HasServer, Labels, Handlers

\* A handler that returns leaves its goroutine in the type.
LEMMA ReturnTyped ==
  ASSUME LocalOK, HasServer, NEW c \in Goroutines, Return(c)
  PROVE  LocalOK' /\ HasServer'
<1>1. LocalOK'
  BY EmptyHistory DEF Return, Goto, LocalOK, Labels, Handlers
<1>2. HasServer'
  BY DEF Return, Goto, LocalOK, HasServer
<1> QED
  BY <1>1, <1>2

\* Moving on to the next call changes nothing but pc.
LEMMA GotoTyped ==
  ASSUME LocalOK, HasServer, NEW c \in Goroutines, srv[c] \in Servers,
         NEW label \in Labels, Goto(c, label), op' = op, srv' = srv, batch' = batch,
         body' \in [Goroutines -> Seq(Entries)]
  PROVE  LocalOK' /\ HasServer'
<1>1. LocalOK'
  BY DEF Goto, LocalOK
<1>2. HasServer'
  BY DEF Goto, LocalOK, HasServer
<1> QED
  BY <1>1, <1>2

\* A handler that begins works for the server it has found.
LEMMA BeginTyped ==
  ASSUME LocalOK, HasServer, NEW c \in Goroutines, NEW s \in Servers,
         NEW handler \in Handlers, NEW label \in Labels, Begin(c, handler, s, label)
  PROVE  LocalOK' /\ HasServer'
<1>1. LocalOK'
  BY DEF Begin, Goto, LocalOK
<1>2. HasServer'
  BY DEF Begin, Goto, LocalOK, HasServer
<1> QED
  BY <1>1, <1>2

\* The first process starts in the type.
LEMMA InitTyped == Init => Typed
<1> SUFFICES ASSUME Init PROVE Typed
  OBVIOUS
<1>1. SharedOK
  BY EmptyHistory DEF Init, SharedOK
<1>2. LocalOK /\ HasServer
  BY EmptyHistory DEF Init, LocalOK, HasServer, Labels, Handlers
<1> QED
  BY <1>1, <1>2 DEF Typed

\* Every step keeps the variables in their types.
LEMMA NextTyped == Typed /\ [Next]_vars => Typed'
<1> SUFFICES ASSUME Typed, [Next]_vars
             PROVE  Typed'
  OBVIOUS
<1>0. SharedOK /\ LocalOK /\ HasServer
  BY DEF Typed
<1>1. ASSUME NEW c \in Goroutines, Start(c)
      PROVE  Typed'
  <2>1. ASSUME NEW s \in Servers, AddInsert(c, s)
        PROVE  Typed'
    <3>1. LocalOK' /\ HasServer'
      BY <1>0, <2>1, BeginTyped DEF AddInsert, Handlers, Labels
    <3> QED
      BY <1>0, <2>1, <3>1 DEF AddInsert, Typed, SharedOK
  <2>2. ASSUME NEW s \in Servers, Find(c, s) \/ DeleteFind(c, s)
        PROVE  Typed'
    <3>1. LocalOK' /\ HasServer'
      BY <1>0, <2>2, BeginTyped DEF Find, DeleteFind, Handlers, Labels
    <3> QED
      BY <1>0, <2>2, <3>1 DEF Find, DeleteFind, stores, Typed, SharedOK
  <2>3. CASE SweepFind(c)
    <3>1. LocalOK'
      BY <1>0, <2>3 DEF SweepFind, Goto, LocalOK, Labels, Handlers
    <3>2. HasServer'
      BY <1>0, <2>3 DEF SweepFind, Goto, LocalOK, HasServer
    <3> QED
      BY <1>0, <2>3, <3>1, <3>2 DEF SweepFind, stores, Typed, SharedOK
  <2> QED
    BY <1>1, <2>1, <2>2, <2>3 DEF Start
<1>2. ASSUME NEW c \in Goroutines, AddStep(c)
      PROVE  Typed'
  <2>1. srv[c] \in Servers
    BY <1>0, <1>2 DEF AddStep, AddIndex, AddIndexFails, HasServer
  <2>2. LocalOK' /\ HasServer'
    BY <1>0, <1>2, <2>1, GotoTyped
    DEF AddStep, AddIndex, AddIndexFails, locals, LocalOK, Labels
  <2>3. <<[status |-> "Off", time |-> clock]>> \in Seq(Entries)
    BY <1>0 DEF SharedOK, Entries, Statuses
  <2>4. [index EXCEPT ![srv[c]] = <<[status |-> "Off", time |-> clock]>>]
          \in [Servers -> Seq(Entries)]
    BY <1>0, <2>3, WriteHistory DEF SharedOK
  <2>5. CASE AddIndex(c)
    BY <1>0, <2>2, <2>4, <2>5 DEF AddIndex, Typed, SharedOK
  <2>6. CASE AddIndexFails(c)
    BY <1>0, <2>2, <2>6 DEF AddIndexFails, EsFailure, stores, Typed, SharedOK
  <2> QED
    BY <1>2, <2>5, <2>6 DEF AddStep
<1>3. ASSUME NEW c \in Goroutines, SearchStep(c)
      PROVE  Typed'
  <2>1. srv[c] \in Servers /\ op[c] \in Handlers
    BY <1>0, <1>3 DEF SearchStep, Search, SearchNothingToDo, SearchPanics,
       SearchIsError, SearchFails, HasServer, LocalOK
  <2>2. SharedOK'
    <3>1. UNCHANGED stores
      BY <1>3 DEF SearchStep, Search, SearchNothingToDo, SearchPanics,
         SearchIsError, SearchFails
    <3>2. clock' \in {clock, clock + 1}
      BY <1>3 DEF SearchStep, Search, SearchNothingToDo, SearchPanics,
         SearchIsError, SearchFails
    <3>3. failed' \in {failed, failed \cup {"exit"}, failed \cup {"esError"}}
      BY <1>3 DEF SearchStep, Search, SearchNothingToDo, SearchPanics,
         SearchIsError, SearchFails, EsFailure
    <3> QED
      BY <1>0, <3>1, <3>2, <3>3 DEF stores, SharedOK
  <2>3. CASE Search(c)
    <3>1. [status |-> NewStatus(op[c]), time |-> clock] \in Entries
      BY <1>0, <2>1, HandlerTables DEF SharedOK, Entries
    <3>2. Extended(searchable[srv[c]], op[c])
            \in Seq(Entries)
      BY <1>0, <2>1, <3>1 DEF SharedOK, Extended
    <3>3. body' \in [Goroutines -> Seq(Entries)]
      BY <1>0, <2>3, <3>2 DEF Search, LocalOK
    <3>4. LocalOK' /\ HasServer'
      BY <1>0, <2>1, <2>3, <3>3, GotoTyped DEF Search, Labels
    <3> QED
      BY <2>2, <3>4 DEF Typed
  <2>4. CASE SearchNothingToDo(c) \/ SearchIsError(c)
    BY <1>0, <2>1, <2>2, <2>4, HandlerTables, GotoTyped
    DEF SearchNothingToDo, SearchIsError, locals, LocalOK, Typed
  <2>5. CASE SearchPanics(c) \/ SearchFails(c)
    BY <1>0, <2>2, <2>5, ExitTyped, ReturnTyped DEF SearchPanics, SearchFails, Typed
  <2> QED
    BY <1>3, <2>3, <2>4, <2>5 DEF SearchStep
<1>4. ASSUME NEW c \in Goroutines, UpdateStep(c)
      PROVE  Typed'
  <2>1. srv[c] \in Servers /\ op[c] \in Handlers
    BY <1>0, <1>4 DEF UpdateStep, Update, UpdateFails, HasServer, LocalOK
  <2>2. index' \in [Servers -> Seq(Entries)]
    BY <1>0, <1>4, QueryOK DEF UpdateStep, Update, UpdateFails, Typed, SharedOK
  <2>3. SharedOK'
    BY <1>0, <1>4, <2>2 DEF UpdateStep, Update, UpdateFails, EsFailure, SharedOK
  <2>4. AfterUpdate(op[c]) \in Labels
    BY <2>1, HandlerTables
  <2>5. LocalOK' /\ HasServer'
    <3>1. CASE /\ Goto(c, AfterUpdate(op[c]))
               /\ UNCHANGED locals
      BY <1>0, <2>1, <2>4, <3>1, GotoTyped DEF locals, LocalOK
    <3>2. CASE Exit \/ Return(c)
      BY <1>0, <3>2, ExitTyped, ReturnTyped
    <3> QED
      BY <1>4, <3>1, <3>2 DEF UpdateStep, Update, UpdateFails
  <2> QED
    BY <2>3, <2>5 DEF Typed
<1>5. ASSUME NEW c \in Goroutines, SetPassword(c) \/ RemoveData(c)
      PROVE  Typed'
  <2>1. aged' \in [Servers -> BOOLEAN]
    BY <1>0, <1>5, Zenon DEF SetPassword, RemoveData, stores, SharedOK
  <2>2. SharedOK'
    BY <1>0, <1>5, <2>1 DEF SetPassword, RemoveData, stores, SharedOK
  <2>3. CASE SetPassword(c)
    BY <1>0, <2>2, <2>3, GotoTyped DEF SetPassword, locals, LocalOK, HasServer, Labels, Typed
  <2>4. CASE RemoveData(c)
    BY <1>0, <2>2, <2>4, ReturnTyped DEF RemoveData, Typed
  <2> QED
    BY <1>5, <2>3, <2>4
<1>6. ASSUME NEW c \in Goroutines, DeleteStep(c)
      PROVE  Typed'
  <2>1. srv[c] \in Servers
    BY <1>0, <1>6 DEF DeleteStep, DeleteOne, DeleteOneMisses, DeleteDocument,
       DeleteDocumentFails, HasServer
  <2>2. [index EXCEPT ![srv[c]] = NoDocument] \in [Servers -> Seq(Entries)]
    BY <1>0, WriteHistory, EmptyHistory DEF SharedOK
  <2>3. SharedOK'
    BY <1>0, <1>6, <2>1, <2>2 DEF DeleteStep, DeleteOne, DeleteOneMisses,
       DeleteDocument, DeleteDocumentFails, EsFailure, stores, SharedOK
  <2>4. CASE DeleteOne(c) \/ DeleteDocument(c)
    BY <1>0, <2>1, <2>3, <2>4, GotoTyped
    DEF DeleteOne, DeleteDocument, locals, LocalOK, Labels, Typed
  <2>5. CASE DeleteOneMisses(c)
    BY <1>0, <2>3, <2>5, ReturnTyped DEF DeleteOneMisses, Typed
  <2>6. CASE DeleteDocumentFails(c)
    <3>1. LocalOK' /\ HasServer'
      BY <1>0, <2>1, <2>6, GotoTyped, ExitTyped
      DEF DeleteDocumentFails, locals, LocalOK, Labels
    <3> QED
      BY <2>3, <3>1 DEF Typed
  <2> QED
    BY <1>6, <2>4, <2>5, <2>6 DEF DeleteStep
<1>7. ASSUME NEW c \in Goroutines, SweepStep(c)
      PROVE  Typed'
  <2>1. ASSUME NEW s \in Servers, SweepNext(c, s)
        PROVE  Typed'
    <3>1. LocalOK'
      BY <1>0, <2>1, EmptyHistory DEF SweepNext, Goto, LocalOK, Labels
    <3>2. HasServer'
      BY <1>0, <2>1 DEF SweepNext, Goto, LocalOK, HasServer
    <3> QED
      BY <1>0, <2>1, <3>1, <3>2 DEF SweepNext, stores, Typed, SharedOK
  <2>2. CASE SweepEnd(c)
    BY <1>0, <2>2, ReturnTyped DEF SweepEnd, stores, Typed, SharedOK
  <2> QED
    BY <1>7, <2>1, <2>2 DEF SweepStep
<1>8. ASSUME NEW s \in Servers, Age(s)
      PROVE  Typed'
  <2>1. aged' \in [Servers -> BOOLEAN]
    BY <1>0, <1>8, Zenon DEF Age, SharedOK
  <2> QED
    BY <1>0, <1>8, <2>1 DEF Age, locals, Typed, SharedOK, LocalOK, HasServer
<1>9. CASE Refresh
  BY <1>0, <1>9 DEF Refresh, locals, Typed, SharedOK, LocalOK, HasServer
<1>10. CASE Crash
  BY <1>0, <1>10, ExitTyped DEF Crash, stores, Typed, SharedOK
<1>11. CASE UNCHANGED vars
  BY <1>0, <1>11 DEF vars, Typed, SharedOK, LocalOK, HasServer
<1> QED
  BY <1>1, <1>2, <1>3, <1>4, <1>5, <1>6, <1>7, <1>8, <1>9, <1>10, <1>11
  DEF Next, Proceed

\* Typed is an invariant of the specification.
LEMMA AlwaysTyped == Spec => []Typed
<1>1. Init => Typed
  BY InitTyped
<1>2. Typed /\ [Next]_vars => Typed'
  BY NextTyped
<1> QED
  BY <1>1, <1>2, PTL DEF Spec

\* The model is well typed: a history only ever holds statuses of the three kinds,
\* and a goroutine is only ever at a call its handlers make.
THEOREM TypeCorrect == Spec => []TypeOK
BY AlwaysTyped, TypedIsTypeOK, PTL

-----------------------------------------------------------------------------
(* What a step may do to the histories.  Whatever the handler, a document  *)
(* only ever receives the empty history, a first "Off", or what a handler  *)
(* is about to write; what is searchable was written before; and a handler *)
(* only ever prepares what it found, extended by one entry.  The safety    *)
(* theorems below rest on this and not on the single actions.              *)

FirstHistory == <<[status |-> "Off", time |-> clock]>>

WriteOf(s) ==
  \/ index'[s] \in {index[s], NoDocument}
  \/ index'[s] = FirstHistory /\ clock' = clock + 1
  \/ \E c \in Goroutines : pc[c] = "update" /\ index'[s] = body[c]

PreparationOf(c) ==
  \/ body'[c] \in {body[c], NoDocument}
  \/ /\ pc[c] = "search"
     /\ Appends(op[c], searchable[srv[c]])
     /\ body'[c] = Extended(searchable[srv[c]], op[c])
     /\ clock' = clock + 1

HistoriesStep ==
  /\ clock' \in {clock, clock + 1}
  /\ \A s \in Servers : WriteOf(s) /\ searchable'[s] \in {searchable[s], index[s]}
  /\ \A c \in Goroutines : PreparationOf(c)

\* A step that leaves the documents and the clock alone and at most drops what
\* handlers were about to write.
LEMMA QuietStep ==
  ASSUME UNCHANGED <<index, searchable, clock>>,
         \A c \in Goroutines : body'[c] \in {body[c], NoDocument}
  PROVE  HistoriesStep
BY DEF HistoriesStep, WriteOf, PreparationOf

\* Giving up the request or the process drops what was about to be written.
LEMMA DropBody ==
  ASSUME Typed, \/ Exit
                \/ \E d \in Goroutines : Return(d)
                \/ body' = body
  PROVE  \A c \in Goroutines : body'[c] \in {body[c], NoDocument}
BY DEF Exit, Return, Typed, LocalOK

\* Every step, of whatever handler, does to the histories what HistoriesStep allows.
LEMMA NextHistories == Typed /\ [Next]_vars => HistoriesStep
<1> SUFFICES ASSUME Typed, [Next]_vars
             PROVE  HistoriesStep
  OBVIOUS
<1>0. SharedOK /\ LocalOK /\ HasServer
  BY DEF Typed
<1>1. ASSUME NEW c \in Goroutines, Start(c)
      PROVE  HistoriesStep
  BY <1>1, QuietStep DEF Start, AddInsert, Find, DeleteFind, SweepFind, Begin, stores
<1>2. ASSUME NEW c \in Goroutines, AddStep(c)
      PROVE  HistoriesStep
  <2>1. CASE AddIndex(c)
    BY <1>0, <2>1 DEF AddIndex, locals, SharedOK, HistoriesStep, WriteOf, PreparationOf, FirstHistory
  <2>2. CASE AddIndexFails(c)
    BY <2>2, QuietStep DEF AddIndexFails, stores, locals
  <2> QED
    BY <1>2, <2>1, <2>2 DEF AddStep
<1>3. ASSUME NEW c \in Goroutines, SearchStep(c)
      PROVE  HistoriesStep
  <2>1. CASE Search(c)
    BY <1>0, <2>1
    DEF Search, stores, LocalOK, HistoriesStep, WriteOf, PreparationOf
  <2>2. CASE SearchNothingToDo(c) \/ SearchIsError(c)
    BY <2>2, QuietStep DEF SearchNothingToDo, SearchIsError, stores, locals
  <2>3. CASE SearchPanics(c) \/ SearchFails(c)
    BY <2>3, DropBody, QuietStep DEF SearchPanics, SearchFails, stores
  <2> QED
    BY <1>3, <2>1, <2>2, <2>3 DEF SearchStep
<1>4. ASSUME NEW c \in Goroutines, UpdateStep(c)
      PROVE  HistoriesStep
  <2>1. pc[c] = "update" /\ UNCHANGED <<searchable, clock>>
    BY <1>4 DEF UpdateStep, Update, UpdateFails
  <2>2. index' \in {index, UpdateByQuery(srv[c], body[c])}
    BY <1>4 DEF UpdateStep, Update, UpdateFails
  <2>3. \A s \in Servers : WriteOf(s)
    BY <1>0, <2>1, <2>2 DEF UpdateByQuery, SharedOK, WriteOf
  <2>4. \A d \in Goroutines : body'[d] \in {body[d], NoDocument}
    BY <1>4, DropBody DEF UpdateStep, Update, UpdateFails, locals
  <2> QED
    BY <2>1, <2>3, <2>4 DEF HistoriesStep, PreparationOf
<1>5. ASSUME NEW c \in Goroutines, SetPassword(c) \/ RemoveData(c)
      PROVE  HistoriesStep
  BY <1>5, DropBody, QuietStep DEF SetPassword, RemoveData, stores, locals
<1>6. ASSUME NEW c \in Goroutines, DeleteStep(c)
      PROVE  HistoriesStep
  <2>1. CASE DeleteOne(c) \/ DeleteOneMisses(c)
    BY <2>1, DropBody, QuietStep DEF DeleteOne, DeleteOneMisses, stores, locals
  <2>2. CASE DeleteDocument(c) \/ DeleteDocumentFails(c)
    <3>1. UNCHANGED <<searchable, clock>>
      BY <2>2 DEF DeleteDocument, DeleteDocumentFails
    <3>2. \A s \in Servers : WriteOf(s)
      BY <1>0, <2>2 DEF DeleteDocument, DeleteDocumentFails, SharedOK, WriteOf
    <3>3. \A d \in Goroutines : body'[d] \in {body[d], NoDocument}
      BY <2>2, DropBody DEF DeleteDocument, DeleteDocumentFails, locals
    <3> QED
      BY <3>1, <3>2, <3>3 DEF HistoriesStep, PreparationOf
  <2> QED
    BY <1>6, <2>1, <2>2 DEF DeleteStep
<1>7. ASSUME NEW c \in Goroutines, SweepStep(c)
      PROVE  HistoriesStep
  <2>1. ASSUME NEW s \in Servers, SweepNext(c, s)
        PROVE  HistoriesStep
    BY <1>0, <2>1, QuietStep DEF SweepNext, stores, LocalOK
  <2>2. CASE SweepEnd(c)
    BY <2>2, DropBody, QuietStep DEF SweepEnd, stores
  <2> QED
    BY <1>7, <2>1, <2>2 DEF SweepStep
<1>8. ASSUME NEW s \in Servers, Age(s)
      PROVE  HistoriesStep
  BY <1>8, QuietStep DEF Age, locals
<1>9. CASE Refresh
  BY <1>9 DEF Refresh, locals, HistoriesStep, WriteOf, PreparationOf
<1>10. CASE Crash
  BY <1>10, DropBody, QuietStep DEF Crash, stores
<1>11. CASE UNCHANGED vars
  BY <1>11, QuietStep DEF vars
<1> QED
  BY <1>1, <1>2, <1>3, <1>4, <1>5, <1>6, <1>7, <1>8, <1>9, <1>10, <1>11
  DEF Next, Proceed

-----------------------------------------------------------------------------
(* Chronological order.                                                    *)

Dated(log, t) == Chronological(log) /\ \A i \in DOMAIN log : log[i].time < t

ChronologyInv ==
  /\ \A s \in Servers : Dated(index[s], clock) /\ Dated(searchable[s], clock)
  /\ \A c \in Goroutines : Dated(body[c], clock)

\* The entries of a history carry times.
LEMMA EntryHasTime ==
  ASSUME NEW log \in Seq(Entries), NEW i \in DOMAIN log
  PROVE  log[i].time \in Nat
<1>1. log[i] \in Entries
  OBVIOUS
<1> QED
  BY <1>1 DEF Entries

\* A history of the past stays one as the clock advances.
LEMMA DatedLater ==
  ASSUME NEW log \in Seq(Entries), NEW t \in Nat, Dated(log, t)
  PROVE  Dated(log, t + 1)
<1>1. \A i \in DOMAIN log : log[i].time < t + 1
  BY EntryHasTime DEF Dated
<1> QED
  BY <1>1 DEF Dated

\* The history AddServer creates, and the empty one, are in order.
LEMMA DatedNew ==
  ASSUME NEW t \in Nat
  PROVE  /\ Dated(NoDocument, t)
         /\ Dated(<<[status |-> "Off", time |-> t]>>, t + 1)
BY DEF Dated, Chronological, NoDocument

\* A history of the past, extended by the present time, is in order.
LEMMA DatedAppend ==
  ASSUME NEW log \in Seq(Entries), NEW t \in Nat, Dated(log, t), NEW status \in Statuses
  PROVE  Dated(Append(log, [status |-> status, time |-> t]), t + 1)
<1> DEFINE e == [status |-> status, time |-> t]
           new == Append(log, e)
<1>1. /\ new \in Seq(Entries)
      /\ Len(new) = Len(log) + 1
      /\ \A i \in 1..Len(log) : new[i] = log[i]
      /\ new[Len(log) + 1] = e
  BY DEF Entries
<1>2. \A i \in 1..Len(log) : log[i].time \in Nat /\ log[i].time < t
  BY EntryHasTime DEF Dated
<1>3. \A i \in 1..Len(new) : new[i].time < t + 1
  BY <1>1, <1>2
<1>4. Chronological(new)
  BY <1>1, <1>2 DEF Dated, Chronological
<1> QED
  BY <1>1, <1>3, <1>4 DEF Dated

\* ChronologyInv is inductive.
LEMMA NextChronology == Typed /\ ChronologyInv /\ [Next]_vars => ChronologyInv'
<1> SUFFICES ASSUME Typed, ChronologyInv, [Next]_vars
             PROVE  ChronologyInv'
  OBVIOUS
<1>1. HistoriesStep
  BY NextHistories
<1>2. /\ clock \in Nat
      /\ \A s \in Servers : index[s] \in Seq(Entries) /\ searchable[s] \in Seq(Entries)
      /\ \A c \in Goroutines : body[c] \in Seq(Entries)
  BY DEF Typed, SharedOK, LocalOK
<1>3. ASSUME NEW log \in Seq(Entries), Dated(log, clock)
      PROVE  Dated(log, clock')
  <2>1. CASE clock' = clock
    BY <1>3, <2>1
  <2>2. CASE clock' = clock + 1
    <3>1. Dated(log, clock + 1)
      BY <1>2, <1>3, DatedLater
    <3> QED
      BY <2>2, <3>1
  <2> QED
    BY <1>1, <2>1, <2>2 DEF HistoriesStep
<1>4. Dated(NoDocument, clock')
  BY <1>2, <1>3, DatedNew, EmptyHistory
<1>5. ASSUME NEW s \in Servers
      PROVE  Dated(index'[s], clock') /\ Dated(searchable'[s], clock')
  <2>1. Dated(index'[s], clock')
    BY <1>1, <1>2, <1>3, <1>4, DatedNew
    DEF HistoriesStep, WriteOf, FirstHistory, ChronologyInv
  <2>2. Dated(searchable'[s], clock')
    BY <1>1, <1>2, <1>3 DEF HistoriesStep, ChronologyInv
  <2> QED
    BY <2>1, <2>2
<1>6. ASSUME NEW c \in Goroutines
      PROVE  Dated(body'[c], clock')
  <2>1. CASE body'[c] \in {body[c], NoDocument}
    BY <1>2, <1>3, <1>4, <2>1 DEF ChronologyInv
  <2>2. CASE pc[c] = "search" /\ body'[c] = Extended(searchable[srv[c]], op[c]) /\ clock' = clock + 1
    <3>1. srv[c] \in Servers /\ NewStatus(op[c]) \in Statuses
      BY <2>2, HandlerTables DEF Typed, LocalOK, HasServer
    <3> QED
      BY <1>2, <2>2, <3>1, DatedAppend DEF Extended, ChronologyInv
  <2> QED
    BY <1>1, <2>1, <2>2 DEF HistoriesStep, PreparationOf
<1> QED
  BY <1>5, <1>6 DEF ChronologyInv

\* ChronologyInv is an invariant of the specification.
LEMMA AlwaysChronological == Spec => []ChronologyInv
<1>1. Init => ChronologyInv
  <2>1. Dated(NoDocument, 0)
    BY DatedNew
  <2> QED
    BY <2>1 DEF Init, ChronologyInv
<1>2. Typed /\ ChronologyInv /\ [Next]_vars => ChronologyInv'
  BY NextChronology
<1> QED
  BY <1>1, <1>2, AlwaysTyped, PTL DEF Spec

\* Every version of every history, written or searchable, is in chronological
\* order, however the handlers that rewrite it interleave and fail.
THEOREM ChronologyHolds == Spec => []HistoriesChronological
<1>1. ChronologyInv => HistoriesChronological
  BY DEF ChronologyInv, HistoriesChronological, Dated
<1> QED
  BY <1>1, AlwaysChronological, PTL

-----------------------------------------------------------------------------
(* No two "Invalid" in a row.                                              *)

Spaced(log) ==
  \A i \in DOMAIN log : i > 1 /\ log[i].status = "Invalid" => log[i - 1].status # "Invalid"

SpacedInv ==
  /\ \A s \in Servers : Spaced(index[s]) /\ Spaced(searchable[s])
  /\ \A c \in Goroutines : Spaced(body[c])

\* The first histories hold no two "Invalid" in a row.
LEMMA SpacedNew == Spaced(NoDocument) /\ Spaced(FirstHistory)
BY DEF Spaced, NoDocument, FirstHistory

\* What a handler appends when Appends allows it never puts two "Invalid" in a row.
LEMMA SpacedExtension ==
  ASSUME Typed, NEW c \in Goroutines, srv[c] \in Servers,
         Spaced(searchable[srv[c]]), Appends(op[c], searchable[srv[c]])
  PROVE  Spaced(Extended(searchable[srv[c]], op[c]))
<1> DEFINE log == searchable[srv[c]]
           e == [status |-> NewStatus(op[c]), time |-> clock]
<1>1. log \in Seq(Entries) /\ op[c] \in Handlers /\ clock \in Nat
  BY DEF Typed, SharedOK, LocalOK
<1>2. e \in Entries
  BY <1>1, HandlerTables DEF Entries
<1>3. NewStatus(op[c]) = "Invalid" => op[c] = "UpdateStatus"
  BY <1>1 DEF NewStatus, Handlers
<1>4. op[c] = "UpdateStatus" => log[Len(log)].status # "Invalid"
  BY DEF Appends, LastStatus
<1>5. /\ Len(Append(log, e)) = Len(log) + 1
      /\ \A i \in 1..Len(log) : Append(log, e)[i] = log[i]
      /\ Append(log, e)[Len(log) + 1] = e
      /\ DOMAIN Append(log, e) = 1..(Len(log) + 1)
  BY <1>1, <1>2
<1>6. Spaced(Append(log, e))
  BY <1>1, <1>3, <1>4, <1>5 DEF Spaced
<1> QED
  BY <1>6 DEF Extended

\* SpacedInv is inductive.
LEMMA NextSpaced == Typed /\ SpacedInv /\ [Next]_vars => SpacedInv'
<1> SUFFICES ASSUME Typed, SpacedInv, [Next]_vars
             PROVE  SpacedInv'
  OBVIOUS
<1>1. HistoriesStep
  BY NextHistories
<1>2. ASSUME NEW s \in Servers
      PROVE  Spaced(index'[s]) /\ Spaced(searchable'[s])
  BY <1>1, SpacedNew DEF HistoriesStep, WriteOf, SpacedInv
<1>3. ASSUME NEW c \in Goroutines
      PROVE  Spaced(body'[c])
  <2>1. CASE body'[c] \in {body[c], NoDocument}
    BY <2>1, SpacedNew DEF SpacedInv
  <2>2. CASE /\ pc[c] = "search"
             /\ Appends(op[c], searchable[srv[c]])
             /\ body'[c] = Extended(searchable[srv[c]], op[c])
    <3>1. srv[c] \in Servers
      BY <2>2 DEF Typed, HasServer
    <3> QED
      BY <2>2, <3>1, SpacedExtension DEF SpacedInv
  <2> QED
    BY <1>1, <2>1, <2>2 DEF HistoriesStep, PreparationOf
<1> QED
  BY <1>2, <1>3 DEF SpacedInv

\* UpdateStatus marks an idle server once: no history ever holds two "Invalid" in a
\* row, although every pass decides on a history that may be outdated.
THEOREM InvalidMarkedOnceHolds == Spec => []InvalidMarkedOnce
<1>1. Init => SpacedInv
  BY SpacedNew DEF Init, SpacedInv
<1>2. Typed /\ SpacedInv /\ [Next]_vars => SpacedInv'
  BY NextSpaced
<1>3. SpacedInv => InvalidMarkedOnce
  BY DEF SpacedInv, InvalidMarkedOnce, Spaced
<1> QED
  BY <1>1, <1>2, <1>3, AlwaysTyped, PTL DEF Spec

-----------------------------------------------------------------------------
(* Every stored server has its history.  What is inductive says when the   *)
(* document may be missing although nothing failed: before its creation by *)
(* AddServer, and once DeleteServer has removed the record.                *)

Accounted ==
  \A s \in Servers : record[s] = "stored" /\ ~ BeingAdded(s) => index[s] # NoDocument

DocumentsOnTheWay ==
  \A c \in Goroutines :
    /\ pc[c] = "index" => c \in Calls
    /\ pc[c] = "update" => body[c] # NoDocument
    /\ pc[c] = "deleteDoc" => record[srv[c]] = "deleted"

StoredInv == failed = {} => Accounted /\ DocumentsOnTheWay

\* A goroutine that only moves on, from a call that writes no document to a call
\* that neither creates, updates nor deletes one, endangers nothing.
LEMMA StoredQuiet ==
  ASSUME Typed, Accounted, DocumentsOnTheWay, NEW c \in Goroutines, NEW label \in Labels,
         pc[c] # "index", label \notin {"index", "update", "deleteDoc"}, Goto(c, label),
         UNCHANGED <<record, index>>, \A d \in Goroutines : d # c => body'[d] = body[d],
         \A d \in Goroutines : d # c => srv'[d] = srv[d]
  PROVE  Accounted' /\ DocumentsOnTheWay'
<1>1. Accounted'
  <2>1. \A s \in Servers : BeingAdded(s) => BeingAdded(s)'
    BY DEF BeingAdded, Goto, Goroutines, Typed, LocalOK
  <2> QED
    BY <2>1 DEF Accounted
<1>2. DocumentsOnTheWay'
  BY DEF DocumentsOnTheWay, Goto, Typed, LocalOK
<1> QED
  BY <1>1, <1>2

\* Failures are remembered.
LEMMA FailuresStay == Typed /\ [Next]_vars => failed \subseteq failed'
<1> SUFFICES ASSUME Typed, [Next]_vars
             PROVE  failed \subseteq failed'
  OBVIOUS
<1>1. ASSUME NEW c \in Goroutines, Start(c)
      PROVE  failed' = failed
  BY <1>1 DEF Start, AddInsert, Find, DeleteFind, SweepFind
<1>2. ASSUME NEW c \in Goroutines, Proceed(c)
      PROVE  failed \subseteq failed'
  BY <1>2 DEF Proceed, SearchStep, Search, SearchNothingToDo, SearchPanics, SearchIsError,
     SearchFails, UpdateStep, Update, UpdateFails, AddStep, AddIndex, AddIndexFails,
     DeleteStep, DeleteOne, DeleteOneMisses, DeleteDocument, DeleteDocumentFails,
     SetPassword, RemoveData, SweepStep, SweepEnd, SweepNext, EsFailure
<1> QED
  BY <1>1, <1>2 DEF Next, Age, Refresh, Crash, vars

\* StoredInv is inductive.
LEMMA NextStored == Typed /\ StoredInv /\ [Next]_vars => StoredInv'
<1> SUFFICES ASSUME Typed, StoredInv, [Next]_vars, failed' = {}
             PROVE  Accounted' /\ DocumentsOnTheWay'
  BY DEF StoredInv
<1>0. Accounted /\ DocumentsOnTheWay /\ SharedOK /\ LocalOK /\ HasServer
  BY FailuresStay DEF StoredInv, Typed
<1>1. ASSUME NEW c \in Goroutines, NEW s \in Servers, AddInsert(c, s)
      PROVE  Accounted' /\ DocumentsOnTheWay'
  <2>1. c \in Calls /\ pc[c] = "idle" /\ record[s] = "absent"
    BY <1>1 DEF AddInsert, Begin
  <2>2. BeingAdded(s)'
    BY <1>0, <1>1, <2>1 DEF AddInsert, Begin, Goto, BeingAdded, LocalOK
  <2>3. \A t \in Servers : BeingAdded(t) => BeingAdded(t)'
    BY <1>0, <1>1, <2>1 DEF AddInsert, Begin, Goto, BeingAdded, LocalOK, Goroutines
  <2>4. Accounted'
    BY <1>0, <1>1, <2>2, <2>3 DEF AddInsert, SharedOK, Accounted
  <2>5. DocumentsOnTheWay'
    <3> SUFFICES ASSUME NEW d \in Goroutines
                 PROVE  /\ pc'[d] = "index" => d \in Calls
                        /\ pc'[d] = "update" => body'[d] # NoDocument
                        /\ pc'[d] = "deleteDoc" => record'[srv'[d]] = "deleted"
      BY DEF DocumentsOnTheWay
    <3>1. CASE d = c
      BY <1>0, <1>1, <2>1, <3>1 DEF AddInsert, Begin, Goto, LocalOK
    <3>2. CASE d # c
      <4>1. pc'[d] = pc[d] /\ srv'[d] = srv[d] /\ body'[d] = body[d]
        BY <1>0, <1>1, <3>2 DEF AddInsert, Begin, Goto, LocalOK
      <4>2. pc[d] = "deleteDoc" => srv[d] # s
        BY <1>0, <2>1 DEF DocumentsOnTheWay
      <4> QED
        BY <1>0, <1>1, <4>1, <4>2 DEF AddInsert, SharedOK, DocumentsOnTheWay
    <3> QED
      BY <3>1, <3>2
  <2> QED
    BY <2>4, <2>5
<1>2. ASSUME NEW c \in Goroutines, NEW s \in Servers, Find(c, s) \/ DeleteFind(c, s)
      PROVE  Accounted' /\ DocumentsOnTheWay'
  BY <1>0, <1>2, StoredQuiet DEF Find, DeleteFind, Begin, stores, Labels, LocalOK
<1>3. ASSUME NEW c \in Goroutines, SweepFind(c)
      PROVE  Accounted' /\ DocumentsOnTheWay'
  BY <1>0, <1>3, StoredQuiet DEF SweepFind, stores, Labels
<1>4. ASSUME NEW c \in Goroutines, AddStep(c)
      PROVE  Accounted' /\ DocumentsOnTheWay'
  <2>1. AddIndex(c)
    BY <1>4 DEF AddStep, AddIndexFails, EsFailure
  <2>2. Accounted'
    <3> SUFFICES ASSUME NEW s \in Servers, record[s] = "stored", ~ BeingAdded(s)'
                 PROVE  index'[s] # NoDocument
      BY <2>1 DEF AddIndex, Accounted
    <3>1. CASE s = srv[c]
      BY <1>0, <2>1, <3>1 DEF AddIndex, SharedOK, NoDocument
    <3>2. CASE s # srv[c]
      <4>1. ~ BeingAdded(s)
        BY <1>0, <2>1, <3>2 DEF AddIndex, Goto, locals, BeingAdded, LocalOK, Goroutines
      <4> QED
        BY <1>0, <2>1, <3>2, <4>1 DEF AddIndex, SharedOK, Accounted
    <3> QED
      BY <3>1, <3>2
  <2>3. DocumentsOnTheWay'
    BY <1>0, <2>1 DEF AddIndex, Goto, locals, DocumentsOnTheWay, LocalOK
  <2> QED
    BY <2>2, <2>3
<1>5. ASSUME NEW c \in Goroutines, SearchStep(c)
      PROVE  Accounted' /\ DocumentsOnTheWay'
  <2>1. Search(c) \/ SearchNothingToDo(c)
    BY <1>5 DEF SearchStep, SearchPanics, SearchIsError, SearchFails, EsFailure
  <2>2. CASE Search(c)
    <3>1. Accounted'
      BY <1>0, <2>2 DEF Search, Goto, stores, Accounted, BeingAdded, LocalOK, Goroutines
    <3>2. body'[c] # NoDocument
      <4>1. searchable[srv[c]] \in Seq(Entries) /\ op[c] \in Handlers
        BY <1>0, <2>2 DEF Search, SharedOK, LocalOK, HasServer
      <4>2. [status |-> NewStatus(op[c]), time |-> clock] \in Entries
        BY <1>0, <4>1, HandlerTables DEF SharedOK, Entries
      <4>3. Len(Extended(searchable[srv[c]], op[c])) # 0
        BY <4>1, <4>2 DEF Extended
      <4>4. body'[c] = Extended(searchable[srv[c]], op[c])
        BY <1>0, <2>2 DEF Search, LocalOK
      <4>5. Len(NoDocument) = 0
        BY DEF NoDocument
      <4> QED
        BY <4>3, <4>4, <4>5
    <3>3. DocumentsOnTheWay'
      BY <1>0, <2>2, <3>2 DEF Search, Goto, stores, DocumentsOnTheWay, LocalOK
    <3> QED
      BY <3>1, <3>3
  <2>3. CASE SearchNothingToDo(c)
    <3>1. op[c] \in Handlers
      BY <1>0 DEF LocalOK
    <3>2. AfterUpdate(op[c]) \in Labels \ {"index", "update", "deleteDoc"}
      BY <3>1, HandlerTables DEF AfterUpdate, Labels
    <3> QED
      BY <1>0, <2>3, <3>2, StoredQuiet DEF SearchNothingToDo, stores, locals
  <2> QED
    BY <2>1, <2>2, <2>3
<1>6. ASSUME NEW c \in Goroutines, UpdateStep(c)
      PROVE  Accounted' /\ DocumentsOnTheWay'
  <2>1. Update(c)
    BY <1>6 DEF UpdateStep, UpdateFails, EsFailure
  <2>2. op[c] \in Handlers /\ pc[c] = "update" /\ body[c] # NoDocument
    BY <1>0, <2>1 DEF Update, LocalOK, DocumentsOnTheWay
  <2>3. AfterUpdate(op[c]) \in Labels \ {"index", "update", "deleteDoc"}
    BY <2>2, HandlerTables DEF AfterUpdate, Labels
  <2>4. \A s \in Servers : index[s] # NoDocument => index'[s] # NoDocument
    BY <1>0, <2>1, <2>2 DEF Update, UpdateByQuery, SharedOK
  <2>5. Accounted'
    BY <1>0, <2>1, <2>2, <2>3, <2>4
    DEF Update, Goto, locals, Accounted, BeingAdded, LocalOK, Goroutines
  <2>6. DocumentsOnTheWay'
    BY <1>0, <2>1, <2>3 DEF Update, Goto, locals, DocumentsOnTheWay, LocalOK
  <2> QED
    BY <2>5, <2>6
<1>7. ASSUME NEW c \in Goroutines, SetPassword(c) \/ RemoveData(c)
      PROVE  Accounted' /\ DocumentsOnTheWay'
  BY <1>0, <1>7, StoredQuiet
  DEF SetPassword, RemoveData, Return, stores, locals, Labels, LocalOK
<1>8. ASSUME NEW c \in Goroutines, DeleteStep(c)
      PROVE  Accounted' /\ DocumentsOnTheWay'
  <2>1. CASE DeleteOne(c)
    <3>1. Accounted'
      BY <1>0, <2>1 DEF DeleteOne, Goto, locals, Accounted, BeingAdded, LocalOK, Goroutines, SharedOK
    <3>2. DocumentsOnTheWay'
      BY <1>0, <2>1 DEF DeleteOne, Goto, locals, DocumentsOnTheWay, LocalOK, SharedOK, HasServer
    <3> QED
      BY <3>1, <3>2
  <2>2. CASE DeleteOneMisses(c)
    BY <1>0, <2>2, StoredQuiet DEF DeleteOneMisses, Return, stores, Labels, LocalOK
  <2>3. CASE DeleteDocument(c)
    <3>1. record[srv[c]] = "deleted"
      BY <1>0, <2>3 DEF DeleteDocument, DocumentsOnTheWay
    <3>2. Accounted'
      BY <1>0, <2>3, <3>1
      DEF DeleteDocument, Goto, locals, Accounted, BeingAdded, LocalOK, Goroutines, SharedOK
    <3>3. DocumentsOnTheWay'
      BY <1>0, <2>3 DEF DeleteDocument, Goto, locals, DocumentsOnTheWay, LocalOK
    <3> QED
      BY <3>2, <3>3
  <2>4. ~ DeleteDocumentFails(c)
    BY DEF DeleteDocumentFails, EsFailure
  <2> QED
    BY <1>8, <2>1, <2>2, <2>3, <2>4 DEF DeleteStep
<1>9. ASSUME NEW c \in Goroutines, SweepStep(c)
      PROVE  Accounted' /\ DocumentsOnTheWay'
  <2>1. ASSUME NEW s \in Servers, SweepNext(c, s)
        PROVE  Accounted' /\ DocumentsOnTheWay'
    BY <1>0, <2>1, StoredQuiet DEF SweepNext, stores, Labels, LocalOK
  <2>2. CASE SweepEnd(c)
    BY <1>0, <2>2, StoredQuiet DEF SweepEnd, Return, stores, Labels, LocalOK
  <2> QED
    BY <1>9, <2>1, <2>2 DEF SweepStep
<1>10. ASSUME NEW s \in Servers, Age(s)
       PROVE  Accounted' /\ DocumentsOnTheWay'
  BY <1>0, <1>10 DEF Age, locals, Accounted, BeingAdded, DocumentsOnTheWay
<1>11. CASE Refresh
  BY <1>0, <1>11 DEF Refresh, locals, Accounted, BeingAdded, DocumentsOnTheWay
<1>12. ~ Crash
  BY DEF Crash
<1>13. CASE UNCHANGED vars
  BY <1>0, <1>13 DEF vars, Accounted, BeingAdded, DocumentsOnTheWay
<1> QED
  BY <1>1, <1>2, <1>3, <1>4, <1>5, <1>6, <1>7, <1>8, <1>9, <1>10, <1>11, <1>12, <1>13
  DEF Next, Start, Proceed

\* Without failures every server on record has a history, except between the two
\* writes of its own AddServer: the handlers that index the last status of a history
\* rely on it.
THEOREM StoredHasHistoryHolds == Spec => []StoredHasHistory
<1>1. Init => StoredInv
  BY DEF Init, StoredInv, Accounted, DocumentsOnTheWay
<1>2. Typed /\ StoredInv /\ [Next]_vars => StoredInv'
  BY NextStored
<1>3. StoredInv => StoredHasHistory
  BY DEF StoredInv, Accounted, StoredHasHistory
<1> QED
  BY <1>1, <1>2, <1>3, AlwaysTyped, PTL DEF Spec

-----------------------------------------------------------------------------
(* ServerStatusHistory.                                                    *)

\* The history variables restrict nothing: what holds of ServerStatus holds here.
LEMMA HistoryImplements == HistorySpec => Spec
<1>1. HistoryInit => Init
  BY DEF HistoryInit
<1>2. [HistoryNext]_historyVars => [Next]_vars
  BY DEF HistoryNext, historyVars
<1> QED
  BY <1>1, <1>2, PTL DEF HistorySpec, Spec

-----------------------------------------------------------------------------
(* What a step may do to a server, whatever the handler: where its record  *)
(* and its document may go, and which goroutines may come to the calls     *)
(* that create and delete them.  The invariants below rest on this.        *)

RecordStep(s) ==
  \/ record'[s] = record[s]
  \/ record[s] = "absent" /\ record'[s] = "stored" /\ BeingAdded(s)'
  \/ /\ record[s] = "stored" /\ record'[s] = "deleted"
     /\ \E c \in Goroutines : pc'[c] = "deleteDoc" /\ srv'[c] = s

DocumentStep(s) ==
  \/ index'[s] \in {index[s], NoDocument}
  \/ /\ index'[s] = FirstHistory
     /\ \E c \in Goroutines : pc[c] = "index" /\ pc'[c] # "index" /\ srv[c] = s
  \/ /\ index[s] # NoDocument
     /\ \E c \in Goroutines : pc[c] = "update" /\ srv[c] = s /\ index'[s] = body[c]

\* Only AddServer comes to the call that creates the document, for a new server.
Arrives(c) ==
  /\ c \in Calls
  /\ record[srv'[c]] = "absent" /\ record'[srv'[c]] # "absent"
  /\ \A d \in Goroutines \ {c} : pc'[d] = pc[d] /\ srv'[d] = srv[d]
  /\ index' = index

Deletes == {"deleteOne", "deleteDoc"}

LifeStep ==
  /\ \A s \in Servers : RecordStep(s) /\ DocumentStep(s)
  /\ \A c \in Goroutines :
       /\ pc'[c] = "index" => (pc[c] = "index" /\ srv'[c] = srv[c]) \/ Arrives(c)
       /\ pc'[c] \in Deletes => pc[c] \in Deletes \/ c \in Calls

\* Steps that leave both stores alone.
LEMMA QuietLife ==
  ASSUME UNCHANGED <<record, index>>,
         \A c \in Goroutines :
           /\ pc'[c] = "index" => pc[c] = "index" /\ srv'[c] = srv[c]
           /\ pc'[c] \in Deletes => pc[c] \in Deletes \/ c \in Calls
  PROVE  LifeStep
BY DEF LifeStep, RecordStep, DocumentStep

\* Nobody comes to a call that writes a store when a goroutine returns, or all end, or
\* one moves on to a call that only reads.
LEMMA ElsewhereLife ==
  ASSUME Typed,
         \/ Exit
         \/ \E c \in Goroutines : Return(c)
         \/ \E c \in Goroutines, label \in Labels \ ({"index"} \cup Deletes) :
              Goto(c, label) /\ \A d \in Goroutines \ {c} : srv'[d] = srv[d]
         \/ UNCHANGED <<pc, srv>>
  PROVE  \A c \in Goroutines :
           /\ pc'[c] = "index" => pc[c] = "index" /\ srv'[c] = srv[c]
           /\ pc'[c] \in Deletes => pc[c] \in Deletes
BY DEF Exit, Return, Goto, Typed, LocalOK, Deletes

\* Every step is a LifeStep.
LEMMA NextLife == Typed /\ [Next]_vars => LifeStep
<1> SUFFICES ASSUME Typed, [Next]_vars
             PROVE  LifeStep
  OBVIOUS
<1>0. SharedOK /\ LocalOK /\ HasServer
  BY DEF Typed
<1>1. ASSUME NEW c \in Goroutines, NEW s \in Servers, AddInsert(c, s)
      PROVE  LifeStep
  <2>1. /\ c \in Calls /\ record[s] = "absent" /\ index' = index
        /\ record' = [record EXCEPT ![s] = "stored"]
        /\ pc' = [pc EXCEPT ![c] = "index"] /\ srv' = [srv EXCEPT ![c] = s]
    BY <1>1 DEF AddInsert, Begin, Goto
  <2>2. BeingAdded(s)'
    BY <1>0, <2>1 DEF BeingAdded, LocalOK
  <2>3. Arrives(c)
    BY <1>0, <2>1 DEF Arrives, SharedOK, LocalOK
  <2> QED
    BY <1>0, <2>1, <2>2, <2>3
    DEF LifeStep, RecordStep, DocumentStep, SharedOK, LocalOK, Deletes
<1>2. ASSUME NEW c \in Goroutines, NEW s \in Servers, Find(c, s) \/ DeleteFind(c, s)
      PROVE  LifeStep
  BY <1>0, <1>2, QuietLife DEF Find, DeleteFind, Begin, Goto, stores, LocalOK, Deletes
<1>3. ASSUME NEW c \in Goroutines, SweepFind(c)
      PROVE  LifeStep
  BY <1>0, <1>3, QuietLife DEF SweepFind, Goto, stores, LocalOK, Deletes
<1>4. ASSUME NEW c \in Goroutines, AddStep(c)
      PROVE  LifeStep
  <2>1. CASE AddIndex(c)
    BY <1>0, <2>1
    DEF AddIndex, Goto, locals, LifeStep, RecordStep, DocumentStep, FirstHistory,
        SharedOK, LocalOK, Deletes
  <2>2. CASE AddIndexFails(c)
    BY <1>0, <2>2, QuietLife DEF AddIndexFails, Goto, stores, locals, LocalOK, Deletes
  <2> QED
    BY <1>4, <2>1, <2>2 DEF AddStep
<1>5. ASSUME NEW c \in Goroutines, SearchStep(c)
      PROVE  LifeStep
  <2>1. UNCHANGED <<record, index>>
    BY <1>5 DEF SearchStep, Search, SearchNothingToDo, SearchPanics, SearchIsError,
       SearchFails, stores
  <2>2. AfterUpdate(op[c]) \in Labels \ ({"index"} \cup Deletes)
    BY <1>0 DEF LocalOK, AfterUpdate, Handlers, Labels, Deletes
  <2>3. "update" \in Labels \ ({"index"} \cup Deletes)
    BY DEF Labels, Deletes
  <2>4. \A d \in Goroutines :
           /\ pc'[d] = "index" => pc[d] = "index" /\ srv'[d] = srv[d]
           /\ pc'[d] \in Deletes => pc[d] \in Deletes
    BY <1>5, <2>2, <2>3, ElsewhereLife
    DEF SearchStep, Search, SearchNothingToDo, SearchPanics, SearchIsError, SearchFails, locals
  <2> QED
    BY <2>1, <2>4, QuietLife
<1>6. ASSUME NEW c \in Goroutines, UpdateStep(c)
      PROVE  LifeStep
  <2>1. pc[c] = "update" /\ record' = record
    BY <1>6 DEF UpdateStep, Update, UpdateFails
  <2>2. index' \in {index, UpdateByQuery(srv[c], body[c])}
    BY <1>6 DEF UpdateStep, Update, UpdateFails
  <2>3. AfterUpdate(op[c]) \in Labels \ ({"index"} \cup Deletes)
    BY <1>0 DEF LocalOK, AfterUpdate, Handlers, Labels, Deletes
  <2>4. \A d \in Goroutines :
           /\ pc'[d] = "index" => pc[d] = "index" /\ srv'[d] = srv[d]
           /\ pc'[d] \in Deletes => pc[d] \in Deletes
    BY <1>6, <2>3, ElsewhereLife DEF UpdateStep, Update, UpdateFails, locals
  <2>5. \A s \in Servers : DocumentStep(s)
    BY <1>0, <2>1, <2>2 DEF UpdateByQuery, SharedOK, DocumentStep
  <2> QED
    BY <2>1, <2>4, <2>5 DEF LifeStep, RecordStep
<1>7. ASSUME NEW c \in Goroutines, SetPassword(c) \/ RemoveData(c)
      PROVE  LifeStep
  <2>1. "removeData" \in Labels \ ({"index"} \cup Deletes)
    BY DEF Labels, Deletes
  <2> QED
    BY <1>7, <2>1, QuietLife, ElsewhereLife DEF SetPassword, RemoveData, stores, locals
<1>8. ASSUME NEW c \in Goroutines, DeleteStep(c)
      PROVE  LifeStep
  <2>0. "removeData" \in Labels \ ({"index"} \cup Deletes)
    BY DEF Labels, Deletes
  <2>1. CASE DeleteOne(c)
    BY <1>0, <2>1
    DEF DeleteOne, Goto, locals, LifeStep, RecordStep, DocumentStep, SharedOK, LocalOK, Deletes
  <2>2. CASE DeleteOneMisses(c)
    BY <2>2, QuietLife, ElsewhereLife DEF DeleteOneMisses, stores
  <2>3. CASE DeleteDocument(c) \/ DeleteDocumentFails(c)
    <3>1. \A d \in Goroutines :
             /\ pc'[d] = "index" => pc[d] = "index" /\ srv'[d] = srv[d]
             /\ pc'[d] \in Deletes => pc[d] \in Deletes
      BY <2>0, <2>3, ElsewhereLife DEF DeleteDocument, DeleteDocumentFails, locals
    <3>2. record' = record /\ \A s \in Servers : DocumentStep(s)
      BY <1>0, <2>3 DEF DeleteDocument, DeleteDocumentFails, SharedOK, DocumentStep
    <3> QED
      BY <3>1, <3>2 DEF LifeStep, RecordStep
  <2> QED
    BY <1>8, <2>1, <2>2, <2>3 DEF DeleteStep
<1>9. ASSUME NEW c \in Goroutines, SweepStep(c)
      PROVE  LifeStep
  <2>1. ASSUME NEW s \in Servers, SweepNext(c, s)
        PROVE  LifeStep
    BY <1>0, <2>1, QuietLife DEF SweepNext, Goto, stores, LocalOK, Deletes
  <2>2. CASE SweepEnd(c)
    BY <2>2, QuietLife, ElsewhereLife DEF SweepEnd, stores
  <2> QED
    BY <1>9, <2>1, <2>2 DEF SweepStep
<1>10. ASSUME NEW s \in Servers, Age(s)
       PROVE  LifeStep
  BY <1>10, QuietLife DEF Age, locals
<1>11. CASE Refresh
  BY <1>11, QuietLife DEF Refresh, locals
<1>12. CASE Crash
  BY <1>12, QuietLife, ElsewhereLife DEF Crash, stores
<1>13. CASE UNCHANGED vars
  BY <1>13, QuietLife DEF vars
<1> QED
  BY <1>1, <1>2, <1>3, <1>4, <1>5, <1>6, <1>7, <1>8, <1>9, <1>10, <1>11, <1>12, <1>13
  DEF Next, Start, Proceed
-----------------------------------------------------------------------------
(* Who creates a document.  One AddServer at most is about to create the   *)
(* document of a server, and none is once there is one: what DocumentStep  *)
(* calls a first history is the first.                                     *)

Creators == \A c \in Goroutines : pc[c] = "index" => c \in Calls /\ record[srv[c]] # "absent"

OneCreator ==
  \A c, d \in Goroutines : pc[c] = "index" /\ pc[d] = "index" /\ srv[c] = srv[d] => c = d

CreatedOnce ==
  \A s \in Servers : index[s] # NoDocument => record[s] # "absent" /\ ~ BeingAdded(s)

Deleters == \A c \in Goroutines : pc[c] \in Deletes => c \in Calls

LifeInv == Creators /\ OneCreator /\ CreatedOnce /\ Deleters

\* LifeInv is inductive.
LEMMA NextLifeInv == Typed /\ LifeInv /\ [Next]_vars => LifeInv'
<1> SUFFICES ASSUME Typed, LifeInv, [Next]_vars
             PROVE  LifeInv'
  OBVIOUS
<1>0. /\ Creators /\ OneCreator /\ CreatedOnce /\ Deleters
      /\ LifeStep /\ HasServer /\ HasServer'
  BY NextLife, NextTyped DEF LifeInv, Typed
<1>1. \A s \in Servers : record[s] # "absent" => record'[s] # "absent"
  BY <1>0 DEF LifeStep, RecordStep
<1>2. Creators'
  BY <1>0, <1>1 DEF Creators, LifeStep, Arrives, HasServer
<1>3. OneCreator'
  <2> SUFFICES ASSUME NEW c \in Goroutines, NEW d \in Goroutines,
                      pc'[c] = "index", pc'[d] = "index", srv'[c] = srv'[d], c # d
               PROVE  FALSE
    BY DEF OneCreator
  <2>1. ~ Arrives(c)
    BY <1>0 DEF Arrives, Creators
  <2>2. ~ Arrives(d)
    BY <1>0 DEF Arrives, Creators
  <2> QED
    BY <1>0, <2>1, <2>2 DEF LifeStep, OneCreator
<1>4. CreatedOnce'
  <2> SUFFICES ASSUME NEW s \in Servers, index'[s] # NoDocument
               PROVE  record'[s] # "absent" /\ ~ BeingAdded(s)'
    BY DEF CreatedOnce
  <2>1. CASE index[s] # NoDocument
    <3>1. record[s] # "absent" /\ ~ BeingAdded(s)
      BY <1>0, <2>1 DEF CreatedOnce
    <3>2. ~ BeingAdded(s)'
      BY <1>0, <3>1 DEF LifeStep, Arrives, BeingAdded, Goroutines
    <3> QED
      BY <1>1, <3>1, <3>2
  <2>2. CASE index[s] = NoDocument
    <3>1. PICK c \in Goroutines : pc[c] = "index" /\ pc'[c] # "index" /\ srv[c] = s
      BY <1>0, <2>2 DEF LifeStep, DocumentStep
    <3>2. index' # index
      BY <2>2
    <3>3. \A d \in Goroutines : pc'[d] = "index" => pc[d] = "index" /\ srv'[d] = srv[d]
      BY <1>0, <3>2 DEF LifeStep, Arrives
    <3>4. ~ BeingAdded(s)'
      BY <1>0, <3>1, <3>3 DEF BeingAdded, OneCreator, Goroutines
    <3> QED
      BY <1>0, <1>1, <3>1, <3>4 DEF Creators
  <2> QED
    BY <2>1, <2>2
<1>5. Deleters'
  BY <1>0 DEF Deleters, LifeStep
<1> QED
  BY <1>2, <1>3, <1>4, <1>5 DEF LifeInv

\* LifeInv is an invariant of ServerStatus.
LEMMA AlwaysLife == Spec => []LifeInv
<1>1. Init => LifeInv
  BY DEF Init, LifeInv, Creators, OneCreator, CreatedOnce, Deleters, Deletes
<1>2. Typed /\ LifeInv /\ [Next]_vars => LifeInv'
  BY NextLifeInv
<1> QED
  BY <1>1, <1>2, AlwaysTyped, PTL DEF Spec

-----------------------------------------------------------------------------
(* What a handler is about to write is an earlier version, extended by one *)
(* later entry.                                                            *)

ExtensionOf(log, base, e) ==
  /\ log = Append(base, e)
  /\ \A i \in DOMAIN base : base[i].time < e.time

Prepared(log, bases) == \E base \in bases, e \in Entries : ExtensionOf(log, base, e)

VersionsInv ==
  /\ versions \in [Servers -> SUBSET Seq(Entries)]
  /\ \A s \in Servers : {NoDocument, index[s], searchable[s]} \subseteq versions[s]

PreparedInv == \A c \in Goroutines : pc[c] = "update" => Prepared(body[c], versions[srv[c]])

\* Whoever is about to update was so before, or has just searched.
UpdateComes(c) ==
  \/ pc[c] = "update" /\ UNCHANGED <<srv[c], body[c]>>
  \/ Search(c)

\* Every step brings goroutines to an update only as UpdateComes says.
LEMMA NextUpdates ==
  Typed /\ [Next]_vars => \A c \in Goroutines : pc'[c] = "update" => UpdateComes(c)
<1> SUFFICES ASSUME Typed, [Next]_vars, NEW c \in Goroutines, pc'[c] = "update"
             PROVE  UpdateComes(c)
  OBVIOUS
<1>0. LocalOK /\ HasServer
  BY DEF Typed
<1>1. ASSUME NEW d \in Goroutines, Start(d)
      PROVE  UpdateComes(c)
  BY <1>0, <1>1 DEF Start, AddInsert, Find, DeleteFind, SweepFind, Begin, Goto, LocalOK, UpdateComes
<1>2. ASSUME NEW d \in Goroutines, Proceed(d)
      PROVE  UpdateComes(c)
  <2>0. AfterUpdate(op[d]) # "update"
    BY <1>0 DEF LocalOK, AfterUpdate, Handlers
  <2>1. CASE Search(d)
    BY <1>0, <2>1 DEF Search, Goto, LocalOK, UpdateComes
  <2>2. CASE SearchStep(d) /\ ~ Search(d)
    BY <1>0, <2>0, <2>2
    DEF SearchStep, SearchNothingToDo, SearchPanics, SearchIsError, SearchFails, Exit, Return,
        Goto, locals, LocalOK, UpdateComes
  <2>3. CASE UpdateStep(d)
    BY <1>0, <2>0, <2>3
    DEF UpdateStep, Update, UpdateFails, Exit, Return, Goto, locals, LocalOK, UpdateComes
  <2>4. CASE AddStep(d) \/ SetPassword(d) \/ RemoveData(d)
    BY <1>0, <2>4
    DEF AddStep, AddIndex, AddIndexFails, SetPassword, RemoveData, Return, Goto, locals, LocalOK,
        UpdateComes
  <2>5. CASE DeleteStep(d)
    BY <1>0, <2>5
    DEF DeleteStep, DeleteOne, DeleteOneMisses, DeleteDocument, DeleteDocumentFails, Exit,
        Return, Goto, locals, LocalOK, UpdateComes
  <2>6. CASE SweepStep(d)
    BY <1>0, <2>6 DEF SweepStep, SweepEnd, SweepNext, Return, Goto, LocalOK, UpdateComes
  <2> QED
    BY <1>2, <2>1, <2>2, <2>3, <2>4, <2>5, <2>6 DEF Proceed
<1>3. CASE (\E s \in Servers : Age(s)) \/ Refresh \/ UNCHANGED vars
  BY <1>3 DEF Age, Refresh, vars, locals, UpdateComes
<1>4. CASE Crash
  BY <1>4 DEF Crash, Exit
<1> QED
  BY <1>1, <1>2, <1>3, <1>4 DEF Next
\* A search hands a handler an earlier version, and time.Now() is later than all of it.
LEMMA SearchPrepares ==
  ASSUME Typed, ChronologyInv, VersionsInv, NEW c \in Goroutines, Search(c)
  PROVE  srv'[c] = srv[c] /\ srv[c] \in Servers /\ Prepared(body'[c], versions[srv[c]])
<1> DEFINE found == searchable[srv[c]]
           e == [status |-> NewStatus(op[c]), time |-> clock]
<1>1. srv[c] \in Servers /\ srv' = srv /\ body'[c] = Extended(found, op[c])
  BY DEF Search, Typed, LocalOK, HasServer
<1>2. e \in Entries /\ e.time = clock
  BY HandlerTables DEF Typed, SharedOK, LocalOK, Entries
<1>3. found \in versions[srv[c]] /\ Dated(found, clock)
  BY <1>1 DEF VersionsInv, ChronologyInv
<1>4. ExtensionOf(body'[c], found, e)
  BY <1>1, <1>2, <1>3 DEF ExtensionOf, Extended, Dated
<1> QED
  BY <1>1, <1>2, <1>3, <1>4 DEF Prepared

\* Both invariants are inductive.
LEMMA NextPrepared ==
  /\ Typed /\ Typed' /\ ChronologyInv /\ VersionsInv /\ PreparedInv
  /\ [HistoryNext]_historyVars
  => VersionsInv' /\ PreparedInv'
<1> SUFFICES ASSUME Typed, Typed', ChronologyInv, VersionsInv, PreparedInv,
                    [HistoryNext]_historyVars
             PROVE  VersionsInv' /\ PreparedInv'
  OBVIOUS
<1>1. [Next]_vars /\ HistoriesStep
  BY NextHistories DEF HistoryNext, historyVars
<1>2. \A s \in Servers : index[s] \in Seq(Entries) /\ index'[s] \in Seq(Entries)
  BY DEF Typed, SharedOK
<1>3. \A s \in Servers : versions'[s] = versions[s] \cup {index'[s]}
  BY DEF HistoryNext, historyVars, vars, VersionsInv
<1>4. VersionsInv'
  <2>1. versions' \in [Servers -> SUBSET Seq(Entries)]
    BY <1>2 DEF HistoryNext, historyVars, VersionsInv
  <2>2. \A s \in Servers : {NoDocument, index'[s], searchable'[s]} \subseteq versions'[s]
    BY <1>1, <1>3 DEF HistoriesStep, VersionsInv
  <2> QED
    BY <2>1, <2>2 DEF VersionsInv
<1>5. ASSUME NEW c \in Goroutines, pc'[c] = "update"
      PROVE  Prepared(body'[c], versions'[srv'[c]])
  <2>1. /\ srv'[c] = srv[c] /\ srv[c] \in Servers
        /\ Prepared(body'[c], versions[srv[c]])
    <3>1. CASE pc[c] = "update" /\ UNCHANGED <<srv[c], body[c]>>
      BY <3>1 DEF PreparedInv, Typed, HasServer
    <3>2. CASE Search(c)
      BY <3>2, SearchPrepares
    <3> QED
      BY <1>1, <1>5, <3>1, <3>2, NextUpdates DEF UpdateComes
  <2> QED
    BY <1>3, <2>1 DEF Prepared
<1> QED
  BY <1>4, <1>5 DEF PreparedInv

\* They are invariants of ServerStatusHistory.
LEMMA AlwaysPrepared ==
  HistorySpec => [](Typed /\ ChronologyInv /\ LifeInv /\ VersionsInv /\ PreparedInv)
<1>1. HistoryInit => VersionsInv /\ PreparedInv
  BY EmptyHistory DEF HistoryInit, Init, VersionsInv, PreparedInv
<1>2. /\ Typed /\ Typed' /\ ChronologyInv /\ VersionsInv /\ PreparedInv
      /\ [HistoryNext]_historyVars
      => VersionsInv' /\ PreparedInv'
  BY NextPrepared
<1> QED
  BY <1>1, <1>2, HistoryImplements, AlwaysTyped, AlwaysChronological, AlwaysLife, PTL
  DEF HistorySpec

-----------------------------------------------------------------------------
(* The refinement.                                                         *)

\* Once its record is there and its AddServer is past the index request, a server
\* without a document never is "new" again.
LEMMA GoneStays ==
  ASSUME Typed, LifeInv, LifeStep, NEW s \in Servers,
         record[s] # "absent", ~ BeingAdded(s)
  PROVE  record'[s] # "absent" /\ ~ BeingAdded(s)'
<1>1. record'[s] # "absent"
  BY DEF LifeStep, RecordStep
<1>2. ~ BeingAdded(s)'
  BY DEF LifeStep, Arrives, BeingAdded, Goroutines
<1> QED
  BY <1>1, <1>2

\* An extension of an earlier version is what Rewrite writes.
LEMMA PreparedRewrites ==
  ASSUME NEW bases \in SUBSET Seq(Entries), NEW log, Prepared(log, bases)
  PROVE  /\ log # NoDocument
         /\ \E base \in bases : \E e \in {log[Len(log)]} :
              /\ e \in Entries
              /\ log = Append(base, e)
              /\ \A i \in DOMAIN base : base[i].time < e.time
<1>1. PICK base \in bases, e \in Entries : ExtensionOf(log, base, e)
  BY DEF Prepared
<1>2. /\ log = Append(base, e) /\ base \in Seq(Entries)
      /\ \A i \in DOMAIN base : base[i].time < e.time
  BY <1>1 DEF ExtensionOf
<1>3. Len(log) = Len(base) + 1 /\ log[Len(log)] = e
  BY <1>2
<1>4. log # NoDocument
  BY <1>2, <1>3 DEF NoDocument
<1> QED
  BY <1>2, <1>3, <1>4

\* Whatever a step does to the document of a server is a step of StatusDocument.
LEMMA NextDocument ==
  ASSUME Typed, LifeInv, VersionsInv, PreparedInv, [HistoryNext]_historyVars,
         NEW s \in Servers
  PROVE  [Document(s)!Next]_(Document(s)!docVars)
<1>1. [Next]_vars /\ LifeStep /\ HistoriesStep
  BY NextLife, NextHistories DEF HistoryNext, historyVars
<1>2. versions'[s] = versions[s] \cup {index'[s]}
  BY DEF HistoryNext, historyVars, vars, VersionsInv
<1>3. versions[s] \in SUBSET Seq(Entries) /\ NoDocument \in versions[s] /\ index[s] \in versions[s]
  BY DEF VersionsInv
<1>4. CASE index'[s] = index[s]
  <2>1. versions'[s] = versions[s]
    BY <1>2, <1>3, <1>4
  <2>2. CASE index[s] # NoDocument
    BY <1>4, <2>1, <2>2 DEF Document!docVars, PhaseOf
  <2>3. CASE index[s] = NoDocument
    <3>1. CASE PhaseOf(s)' = PhaseOf(s)
      BY <1>4, <2>1, <3>1 DEF Document!docVars
    <3>2. CASE PhaseOf(s)' # PhaseOf(s)
      <4>1. PhaseOf(s) = "new" /\ PhaseOf(s)' = "gone"
        BY <1>1, <1>4, <2>3, <3>2, GoneStays DEF PhaseOf
      <4> QED
        BY <1>4, <2>1, <2>3, <4>1 DEF Document!Next, Document!Retire, NoDocument
    <3> QED
      BY <3>1, <3>2
  <2> QED
    BY <2>2, <2>3
<1>5. CASE index'[s] # index[s] /\ index'[s] = NoDocument
  <2>1. PhaseOf(s) = "present"
    BY <1>5 DEF PhaseOf
  <2>2. record[s] # "absent" /\ ~ BeingAdded(s)
    BY <1>5 DEF LifeInv, CreatedOnce
  <2>3. PhaseOf(s)' = "gone"
    BY <1>1, <1>5, <2>2, GoneStays DEF PhaseOf
  <2>4. versions'[s] = versions[s]
    BY <1>2, <1>3, <1>5
  <2> QED
    BY <1>5, <2>1, <2>3, <2>4 DEF Document!Next, Document!Retire, NoDocument
<1>6. CASE index[s] # NoDocument /\ \E c \in Goroutines : pc[c] = "update" /\ srv[c] = s /\ index'[s] = body[c]
  <2>1. Prepared(index'[s], versions[s])
    BY <1>6 DEF PreparedInv
  <2>2. /\ index'[s] # NoDocument
        /\ \E base \in versions[s] : \E e \in {index'[s][Len(index'[s])]} :
             /\ e \in Entries
             /\ index'[s] = Append(base, e)
             /\ \A i \in DOMAIN base : base[i].time < e.time
    BY <1>3, <2>1, PreparedRewrites
  <2>3. PhaseOf(s) = "present" /\ PhaseOf(s)' = "present"
    BY <1>6, <2>2 DEF PhaseOf
  <2>4. Document(s)!Entry = Entries
    BY DEF Document!Entry, Document!Status, Entries, Statuses
  <2> QED
    BY <1>2, <2>2, <2>3, <2>4 DEF Document!Next, Document!Rewrite, NoDocument
<1>7. CASE /\ index'[s] = FirstHistory
           /\ \E c \in Goroutines : pc[c] = "index" /\ pc'[c] # "index" /\ srv[c] = s
  <2>1. BeingAdded(s)
    BY <1>7 DEF LifeInv, Creators, BeingAdded
  <2>2. index[s] = NoDocument
    BY <2>1 DEF LifeInv, CreatedOnce
  <2>3. PhaseOf(s) = "new"
    BY <2>1, <2>2 DEF PhaseOf
  <2>4. /\ Len(index'[s]) = 1
        /\ index'[s][1] = [status |-> "Off", time |-> clock]
    BY <1>7 DEF FirstHistory
  <2>5. index'[s] # NoDocument
    BY <2>4 DEF NoDocument
  <2>6. index'[s][1] \in Document(s)!Entry /\ index'[s][1].status = "Off"
    BY <2>4 DEF Document!Entry, Document!Status, Typed, SharedOK
  <2>7. PhaseOf(s)' = "present"
    BY <2>5 DEF PhaseOf
  <2> QED
    BY <1>2, <2>3, <2>4, <2>6, <2>7 DEF Document!Next, Document!Create
<1> QED
  BY <1>1, <1>4, <1>5, <1>6, <1>7 DEF LifeStep, DocumentStep

\* ServerStatus implements StatusDocument for every server: every handler, crash and
\* failure takes its document through the steps of StatusDocument.
THEOREM DocumentsRefineHolds == HistorySpec => DocumentsRefine
<1>1. HistoryInit => \A s \in Servers : Document(s)!Init
  <2> SUFFICES ASSUME HistoryInit, NEW s \in Servers PROVE Document(s)!Init
    OBVIOUS
  <2>1. record[s] = "absent" /\ index[s] = NoDocument /\ versions[s] = {NoDocument}
    BY DEF HistoryInit, Init
  <2> QED
    BY <2>1 DEF Document!Init, PhaseOf, NoDocument
<1>2. /\ Typed /\ LifeInv /\ VersionsInv /\ PreparedInv
      /\ [HistoryNext]_historyVars
      => [\A s \in Servers : [Document(s)!Next]_(Document(s)!docVars)]_historyVars
  BY NextDocument
<1> QED
  BY <1>1, <1>2, AlwaysPrepared, PTL DEF HistorySpec, DocumentsRefine
-----------------------------------------------------------------------------
(* No orphans.  A deletion is over only once it has deleted the document;  *)
(* from then on only an AddServer that was overtaken could create another. *)

DeletionDone(s) == index[s] = NoDocument /\ ~ BeingAdded(s)
BeingDeleted(s) == \E c \in Calls : pc[c] = "deleteDoc" /\ srv[c] = s

OrphanInv ==
  failed = {} =>
    \A s \in Servers :
      record[s] = "deleted" => s \in overtaken \/ BeingDeleted(s) \/ DeletionDone(s)

\* Without failures, who is about to delete a document stays so until it is deleted.
LEMMA DeleteLeaves ==
  ASSUME Typed, [Next]_vars, failed' = {}, NEW c \in Goroutines, pc[c] = "deleteDoc"
  PROVE  \/ pc'[c] = "deleteDoc" /\ srv'[c] = srv[c]
         \/ pc'[c] # "deleteDoc" /\ index'[srv[c]] = NoDocument
<1> DEFINE Stays == pc'[c] = "deleteDoc" /\ srv'[c] = srv[c]
           Left == pc'[c] # "deleteDoc" /\ index'[srv[c]] = NoDocument
<1>0. LocalOK /\ SharedOK /\ HasServer
  BY DEF Typed
<1>1. ASSUME NEW d \in Goroutines, Start(d)
      PROVE  Stays
  BY <1>0, <1>1 DEF Start, AddInsert, Find, DeleteFind, SweepFind, Begin, Goto, LocalOK
<1>2. ASSUME NEW d \in Goroutines, Proceed(d)
      PROVE  Stays \/ Left
  <2>1. CASE SearchStep(d)
    BY <1>0, <2>1
    DEF SearchStep, Search, SearchNothingToDo, SearchPanics, SearchIsError, SearchFails,
        EsFailure, Goto, locals, LocalOK
  <2>2. CASE UpdateStep(d)
    BY <1>0, <2>2 DEF UpdateStep, Update, UpdateFails, EsFailure, Goto, locals, LocalOK
  <2>3. CASE AddStep(d) \/ SetPassword(d) \/ RemoveData(d)
    BY <1>0, <2>3
    DEF AddStep, AddIndex, AddIndexFails, EsFailure, SetPassword, RemoveData, Return, Goto,
        locals, LocalOK
  <2>4. CASE DeleteStep(d)
    BY <1>0, <2>4
    DEF DeleteStep, DeleteOne, DeleteOneMisses, DeleteDocument, DeleteDocumentFails, EsFailure,
        Return, Goto, locals, LocalOK, SharedOK, HasServer
  <2>5. CASE SweepStep(d)
    BY <1>0, <2>5 DEF SweepStep, SweepEnd, SweepNext, Return, Goto, LocalOK
  <2> QED
    BY <1>2, <2>1, <2>2, <2>3, <2>4, <2>5 DEF Proceed
<1>3. CASE (\E s \in Servers : Age(s)) \/ Refresh \/ UNCHANGED vars
  BY <1>3 DEF Age, Refresh, vars, locals
<1>4. ~ Crash
  BY DEF Crash
<1> QED
  BY <1>1, <1>2, <1>3, <1>4 DEF Next

\* OrphanInv is inductive.
LEMMA NextOrphan ==
  Typed /\ LifeInv /\ OrphanInv /\ [HistoryNext]_historyVars => OrphanInv'
<1> SUFFICES ASSUME Typed, LifeInv, OrphanInv, [HistoryNext]_historyVars, failed' = {},
                    NEW s \in Servers, record'[s] = "deleted"
             PROVE  s \in overtaken' \/ BeingDeleted(s)' \/ DeletionDone(s)'
  BY DEF OrphanInv
<1>1. [Next]_vars /\ LifeStep /\ failed = {}
  BY NextLife, FailuresStay DEF HistoryNext, historyVars
<1>2. Deleters /\ Deleters' /\ CreatedOnce /\ Creators
  BY <1>1, NextLifeInv DEF LifeInv
<1>3. CASE record[s] # "deleted"
  <2>1. PICK c \in Goroutines : pc'[c] = "deleteDoc" /\ srv'[c] = s
    BY <1>1, <1>3 DEF LifeStep, RecordStep
  <2> QED
    BY <1>2, <2>1 DEF Deleters, Deletes, BeingDeleted
<1>4. CASE record[s] = "deleted" /\ s \in overtaken
  BY <1>4 DEF HistoryNext, historyVars
<1>5. CASE record[s] = "deleted" /\ BeingDeleted(s)
  <2>1. PICK c \in Calls : pc[c] = "deleteDoc" /\ srv[c] = s
    BY <1>5 DEF BeingDeleted
  <2>2. CASE pc'[c] = "deleteDoc" /\ srv'[c] = srv[c]
    BY <2>1, <2>2 DEF BeingDeleted
  <2>3. CASE pc'[c] # "deleteDoc" /\ index'[s] = NoDocument
    <3>1. CASE BeingAdded(s)
      BY <2>1, <2>3, <3>1 DEF HistoryNext, historyVars, vars, Goroutines
    <3>2. CASE ~ BeingAdded(s)
      BY <1>1, <1>5, <2>3, <3>2, GoneStays DEF DeletionDone
    <3> QED
      BY <3>1, <3>2
  <2> QED
    BY <1>1, <2>1, <2>2, <2>3, DeleteLeaves DEF Goroutines
<1>6. CASE record[s] = "deleted" /\ DeletionDone(s)
  <2>1. index'[s] = NoDocument
    BY <1>1, <1>2, <1>6 DEF LifeStep, DocumentStep, DeletionDone, Creators, BeingAdded
  <2> QED
    BY <1>1, <1>6, <2>1, GoneStays DEF DeletionDone
<1> QED
  BY <1>1, <1>3, <1>4, <1>5, <1>6 DEF OrphanInv

\* Without failures, a deleted server leaves a document behind only if its deletion is
\* still under way or overtook its own AddServer.
THEOREM NoOrphanHistoryHolds == HistorySpec => []NoOrphanHistory
<1>1. HistoryInit => OrphanInv
  BY DEF HistoryInit, Init, OrphanInv
<1>2. Typed /\ LifeInv /\ OrphanInv /\ [HistoryNext]_historyVars => OrphanInv'
  BY NextOrphan
<1>3. OrphanInv => NoOrphanHistory
  BY DEF OrphanInv, NoOrphanHistory, BeingDeleted, DeletionDone
<1> QED
  BY <1>1, <1>2, <1>3, AlwaysPrepared, PTL DEF HistorySpec

-----------------------------------------------------------------------------
(* What Connect and Disconnect report.  Their update takes effect because  *)
(* the search handed them the current version, and because whoever changes *)
(* it meanwhile is noticed.                                                *)

Reporters == {"Connect", "Disconnect"}

HandlersInv ==
  \A c \in Goroutines :
    /\ pc[c] = "index" => op[c] = "AddServer"
    /\ pc[c] = "setPassword" => op[c] = "ChangePassword"
    /\ pc[c] \in Deletes => op[c] = "DeleteServer"

RecordedInv ==
  failed = {} =>
    \A c \in Calls \ disturbed :
      /\ pc[c] = "update" => searchable[srv[c]] = index[srv[c]] /\ index[srv[c]] # NoDocument
      /\ pc[c] = "removeData" /\ op[c] \in Reporters => index[srv[c]] = body[c]

\* HandlersInv is inductive.
LEMMA NextHandlers == Typed /\ HandlersInv /\ [Next]_vars => HandlersInv'
<1> SUFFICES ASSUME Typed, HandlersInv, [Next]_vars
             PROVE  HandlersInv'
  OBVIOUS
<1>0. LocalOK
  BY DEF Typed
<1>1. ASSUME NEW d \in Goroutines, Start(d)
      PROVE  HandlersInv'
  <2>1. ASSUME NEW s \in Servers, AddInsert(d, s)
        PROVE  HandlersInv'
    BY <1>0, <2>1 DEF AddInsert, Begin, Goto, LocalOK, HandlersInv, Deletes
  <2>2. ASSUME NEW s \in Servers, Find(d, s)
        PROVE  HandlersInv'
    BY <1>0, <2>2 DEF Find, Begin, Goto, LocalOK, HandlersInv, Deletes
  <2>3. ASSUME NEW s \in Servers, DeleteFind(d, s)
        PROVE  HandlersInv'
    BY <1>0, <2>3 DEF DeleteFind, Begin, Goto, LocalOK, HandlersInv, Deletes
  <2>4. CASE SweepFind(d)
    BY <1>0, <2>4 DEF SweepFind, Goto, LocalOK, HandlersInv, Deletes
  <2> QED
    BY <1>1, <2>1, <2>2, <2>3, <2>4 DEF Start
<1>2. ASSUME NEW d \in Goroutines, Proceed(d)
      PROVE  HandlersInv'
  <2>0. /\ AfterUpdate(op[d]) \notin {"index"} \cup Deletes
        /\ AfterUpdate(op[d]) = "setPassword" => op[d] = "ChangePassword"
    BY <1>0 DEF LocalOK, AfterUpdate, Handlers, Deletes
  <2>1. CASE SearchStep(d)
    BY <1>0, <2>0, <2>1
    DEF SearchStep, Search, SearchNothingToDo, SearchPanics, SearchIsError, SearchFails, Exit,
        Return, Goto, locals, LocalOK, HandlersInv, Deletes
  <2>2. CASE UpdateStep(d)
    BY <1>0, <2>0, <2>2
    DEF UpdateStep, Update, UpdateFails, Exit, Return, Goto, locals, LocalOK, HandlersInv, Deletes
  <2>3. CASE AddStep(d) \/ SetPassword(d) \/ RemoveData(d)
    BY <1>0, <2>3
    DEF AddStep, AddIndex, AddIndexFails, SetPassword, RemoveData, Return, Goto, locals,
        LocalOK, HandlersInv, Deletes
  <2>4. CASE DeleteStep(d)
    BY <1>0, <2>4
    DEF DeleteStep, DeleteOne, DeleteOneMisses, DeleteDocument, DeleteDocumentFails, Exit,
        Return, Goto, locals, LocalOK, HandlersInv, Deletes
  <2>5. CASE SweepStep(d)
    BY <1>0, <2>5 DEF SweepStep, SweepEnd, SweepNext, Return, Goto, LocalOK, HandlersInv, Deletes
  <2> QED
    BY <1>2, <2>1, <2>2, <2>3, <2>4, <2>5 DEF Proceed
<1>3. CASE (\E s \in Servers : Age(s)) \/ Refresh \/ UNCHANGED vars
  BY <1>3 DEF Age, Refresh, vars, locals, HandlersInv
<1>4. CASE Crash
  BY <1>4 DEF Crash, Exit, HandlersInv, Deletes
<1> QED
  BY <1>1, <1>2, <1>3, <1>4 DEF Next

\* Without failures, Connect and Disconnect come to their reply only by their update.
LEMMA NextReports ==
  ASSUME Typed, HandlersInv, [Next]_vars, failed' = {}, NEW c \in Goroutines,
         pc'[c] = "removeData", op'[c] \in Reporters
  PROVE  \/ pc[c] = "removeData" /\ op[c] \in Reporters /\ UNCHANGED <<srv[c], body[c]>>
         \/ Update(c)
<1> DEFINE Goal == \/ pc[c] = "removeData" /\ op[c] \in Reporters /\ UNCHANGED <<srv[c], body[c]>>
                   \/ Update(c)
<1>0. LocalOK
  BY DEF Typed
<1>1. ASSUME NEW d \in Goroutines, Start(d)
      PROVE  Goal
  BY <1>0, <1>1 DEF Start, AddInsert, Find, DeleteFind, SweepFind, Begin, Goto, LocalOK
<1>2. ASSUME NEW d \in Goroutines, Proceed(d)
      PROVE  Goal
  <2>1. CASE SearchStep(d)
    BY <1>0, <2>1
    DEF SearchStep, Search, SearchNothingToDo, SearchPanics, SearchIsError, SearchFails, Appends,
        EsFailure, Goto, locals, LocalOK, Reporters
  <2>2. CASE UpdateStep(d)
    BY <1>0, <2>2 DEF UpdateStep, Update, UpdateFails, EsFailure, Goto, locals, LocalOK
  <2>3. CASE AddStep(d) \/ SetPassword(d) \/ RemoveData(d)
    BY <1>0, <2>3
    DEF AddStep, AddIndex, AddIndexFails, EsFailure, SetPassword, RemoveData, Return, Goto,
        locals, LocalOK, HandlersInv, Reporters
  <2>4. CASE DeleteStep(d)
    BY <1>0, <2>4
    DEF DeleteStep, DeleteOne, DeleteOneMisses, DeleteDocument, DeleteDocumentFails, EsFailure,
        Return, Goto, locals, LocalOK, HandlersInv, Reporters, Deletes
  <2>5. CASE SweepStep(d)
    BY <1>0, <2>5 DEF SweepStep, SweepEnd, SweepNext, Return, Goto, LocalOK
  <2> QED
    BY <1>2, <2>1, <2>2, <2>3, <2>4, <2>5 DEF Proceed
<1>3. CASE (\E s \in Servers : Age(s)) \/ Refresh \/ UNCHANGED vars
  BY <1>3 DEF Age, Refresh, vars, locals
<1>4. ~ Crash
  BY DEF Crash
<1> QED
  BY <1>1, <1>2, <1>3, <1>4 DEF Next

\* RecordedInv is inductive.
LEMMA NextRecorded ==
  Typed /\ HandlersInv /\ RecordedInv /\ [HistoryNext]_historyVars => RecordedInv'
<1> SUFFICES ASSUME Typed, HandlersInv, RecordedInv, [HistoryNext]_historyVars, failed' = {},
                    NEW c \in Calls \ disturbed', pc'[c] \in {"update", "removeData"}
             PROVE  /\ pc'[c] = "update" =>
                         searchable'[srv'[c]] = index'[srv'[c]] /\ index'[srv'[c]] # NoDocument
                    /\ pc'[c] = "removeData" /\ op'[c] \in Reporters =>
                         index'[srv'[c]] = body'[c]
  BY DEF RecordedInv
<1>1. [Next]_vars /\ HistoriesStep /\ failed = {} /\ c \in Goroutines
  BY NextHistories, FailuresStay DEF HistoryNext, historyVars, Goroutines
<1>2. \/ c \notin disturbed /\ ~ Misled(c) /\ ~ Overtaken(c)
      \/ c \notin disturbed /\ UNCHANGED vars
  BY <1>1 DEF HistoryNext, historyVars
<1>3. /\ pc[c] = "update" =>
           searchable[srv[c]] = index[srv[c]] /\ index[srv[c]] # NoDocument
      /\ pc[c] = "removeData" /\ op[c] \in Reporters => index[srv[c]] = body[c]
  BY <1>1, <1>2 DEF RecordedInv
<1>4. CASE UNCHANGED vars
  BY <1>3, <1>4 DEF vars
<1>5. CASE ~ Misled(c) /\ ~ Overtaken(c) /\ pc'[c] = "update"
  <2>1. CASE pc[c] = "update" /\ UNCHANGED <<srv[c], body[c]>>
    <3>1. srv[c] \in Servers
      BY <1>1, <2>1 DEF Typed, HasServer
    <3>2. index'[srv[c]] = index[srv[c]]
      BY <1>5, <2>1 DEF Overtaken
    <3> QED
      BY <1>1, <1>3, <1>5, <2>1, <3>1, <3>2 DEF HistoriesStep
  <2>2. CASE Search(c)
    BY <1>5, <2>2 DEF Search, Misled, stores
  <2> QED
    BY <1>1, <1>5, <2>1, <2>2, NextUpdates DEF UpdateComes
<1>6. CASE ~ Misled(c) /\ ~ Overtaken(c) /\ pc'[c] = "removeData" /\ op'[c] \in Reporters
  <2>1. CASE pc[c] = "removeData" /\ op[c] \in Reporters /\ UNCHANGED <<srv[c], body[c]>>
    BY <1>3, <1>6, <2>1 DEF Overtaken
  <2>2. CASE Update(c)
    <3>1. srv[c] \in Servers /\ pc[c] = "update"
      BY <1>1, <2>2 DEF Update, Typed, HasServer
    <3> QED
      BY <1>3, <1>6, <2>2, <3>1 DEF Update, UpdateByQuery, locals, Typed, SharedOK
  <2> QED
    BY <1>1, <1>6, <2>1, <2>2, NextReports
<1> QED
  BY <1>2, <1>4, <1>5, <1>6

\* As long as no request fails, what Connect and Disconnect report is in the document when
\* they reply, unless somebody else has written it since the version they were given.
THEOREM SuccessRecordedHolds == HistorySpec => []SuccessRecorded
<1>1. HistoryInit => HandlersInv /\ RecordedInv
  BY DEF HistoryInit, Init, HandlersInv, RecordedInv, Deletes, Goroutines
<1>2. Typed /\ HandlersInv /\ [HistoryNext]_historyVars => HandlersInv'
  BY NextHandlers DEF HistoryNext, historyVars
<1>3. Typed /\ HandlersInv /\ RecordedInv /\ [HistoryNext]_historyVars => RecordedInv'
  BY NextRecorded
<1>4. RecordedInv => SuccessRecorded
  BY DEF RecordedInv, SuccessRecorded, Reporters
<1> QED
  BY <1>1, <1>2, <1>3, <1>4, AlwaysPrepared, PTL DEF HistorySpec
=============================================================================
