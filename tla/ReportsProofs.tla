----------------------------- MODULE ReportsProofs -----------------------------
(***************************************************************************)
(* Proofs about Reports: its state is well typed, no row shows a status    *)
(* that is more than one change out of date when its export begins, every  *)
(* link leads to a file, and to the right one unless exports get in each   *)
(* other's way, for any number of exports and servers, and without the     *)
(* bounds on mishaps and on the servers that grow.                         *)
(***************************************************************************)
EXTENDS Reports, TLAPS

\* An export that has begun has a name, and one that has ended has a sheet no more.
Named(f) ==
  IF f.pc = "idle" THEN f.name = None /\ f.sheet = {} ELSE f.name \in Names

\* What is written to Elasticsearch is the last version, unless it was deleted, and what is
\* found there is not older than the version before.
Stored ==
  \A s \in Servers :
    /\ indexed[s] \in {0, latest[s]}
    /\ s \in record => indexed[s] = latest[s]
    /\ visible[s] <= latest[s]
    /\ visible[s] # 0 => latest[s] <= visible[s] + 1

Typed == TypeOK /\ Stored /\ \A c \in Requests : Named(frame[c])

\* Which versions an export may show when it begins.
OldestOf(selected) == [s \in Servers |-> Oldest(s, selected)]

\* The row of a server, and which status a search gives it.
RowOf(s, v) == [id |-> s, status |-> v]
Shown(s, v) == v # 0 => v = visible[s]

LEMMA PageOnRecord == \A page : OnPage(page) \subseteq record
BY DEF OnPage

LEMMA IdleFrame == Idle \in Frame /\ Named(Idle) /\ Idle.pc = "idle" /\ Idle.name = None
  /\ Idle.todo = {} /\ Idle.sheet = {} /\ Idle.oldest = [s \in Servers |-> 0]
BY ConstantsOK DEF Idle, Frame, Named, ConstantsOK, Versions, Sheet

\* What a row may show is a version, one that was written and, if it can be found, was found.
LEMMA OldestFacts ==
  ASSUME Typed, NEW selected \in SUBSET record
  PROVE  /\ OldestOf(selected) \in [Servers -> Versions]
         /\ \A s \in Servers :
              /\ OldestOf(selected)[s] <= latest[s]
              /\ visible[s] # 0 => OldestOf(selected)[s] <= visible[s]
<1>1. ASSUME NEW s \in Servers
      PROVE  /\ Oldest(s, selected) \in Versions
             /\ Oldest(s, selected) <= latest[s]
             /\ visible[s] # 0 => Oldest(s, selected) <= visible[s]
  <2>1. {indexed[s], visible[s], latest[s]} \subseteq Versions /\ MaxVersion \in Nat
    BY ConstantsOK DEF Typed, TypeOK, ConstantsOK
  <2>2. CASE s \notin selected
    BY <2>1, <2>2 DEF Oldest, Versions
  <2>3. CASE s \in selected /\ visible[s] = indexed[s]
    BY <2>1, <2>3 DEF Oldest, Versions, Typed, Stored
  <2>4. CASE s \in selected /\ visible[s] # indexed[s]
    <3>1. indexed[s] = latest[s] /\ visible[s] <= latest[s]
          /\ (visible[s] # 0 => latest[s] <= visible[s] + 1)
      BY <2>4 DEF Typed, Stored
    <3>2. Oldest(s, selected) = indexed[s] - 1
      BY <2>4 DEF Oldest
    <3> QED
      BY <2>1, <2>4, <3>1, <3>2 DEF Versions
  <2> QED
    BY <2>2, <2>3, <2>4
<1> QED
  BY <1>1 DEF OldestOf

\* What an export begins with.
LEMMA ExportFrame ==
  ASSUME Typed, NEW c \in Requests, NEW selected \in SUBSET record, Export(c, selected)
  PROVE  /\ frame[c].pc = "idle"
         /\ frame'[c] \in Frame
         /\ frame'[c].pc = Proceed(selected)
         /\ frame'[c].name \in Names
         /\ frame'[c].todo = selected /\ frame'[c].sheet = {}
         /\ frame'[c].oldest = OldestOf(selected)
         /\ frame' \in [Requests -> Frame]
         /\ \A d \in Requests \ {c} : frame'[d] = frame[d]
<1> USE IdleFrame DEF Typed, TypeOK
<1>1. PICK name \in Names :
        frame' = [frame EXCEPT ![c] = [Idle EXCEPT !.pc = Proceed(selected),
                              !.name = name, !.todo = selected,
                              !.oldest = OldestOf(selected)]]
  BY DEF Export, Goto, OldestOf
<1>2. Proceed(selected) \in {"save", "search"}
  BY DEF Proceed
<1>3. selected \in SUBSET Servers /\ OldestOf(selected) \in [Servers -> Versions]
  BY OldestFacts
<1> HIDE DEF TypeOK
<1> DEFINE f == [Idle EXCEPT !.pc = Proceed(selected),
                             !.name = name, !.todo = selected, !.oldest = OldestOf(selected)]
<1>4. /\ f \in Frame /\ f.pc = Proceed(selected) /\ f.name = name /\ f.todo = selected
      /\ f.sheet = {} /\ f.oldest = OldestOf(selected)
  BY <1>1, <1>2, <1>3 DEF Frame
<1> HIDE DEF f
<1>5. frame' = [frame EXCEPT ![c] = f]
  BY <1>1 DEF f
<1> QED
  BY <1>1, <1>4, <1>5 DEF Export, TypeOK

\* What a row makes of an export.
LEMMA RowFrame ==
  ASSUME Typed, NEW c \in Requests, NEW s \in Servers, NEW status \in Versions,
         AddRow(c, s, status)
  PROVE  /\ frame'[c] \in Frame
         /\ frame'[c].pc = Proceed(frame[c].todo \ {s})
         /\ frame'[c].name = frame[c].name /\ frame'[c].oldest = frame[c].oldest
         /\ frame'[c].todo = frame[c].todo \ {s}
         /\ frame'[c].sheet = frame[c].sheet \cup {RowOf(s, status)}
         /\ frame' \in [Requests -> Frame]
         /\ \A d \in Requests \ {c} : frame'[d] = frame[d]
<1> DEFINE todo == frame[c].todo \ {s}
           sheet == frame[c].sheet \cup {RowOf(s, status)}
           f == [frame[c] EXCEPT !.pc = Proceed(todo), !.todo = todo, !.sheet = sheet]
<1>1. frame' = [frame EXCEPT ![c] = f]
  BY DEF AddRow, Goto, RowOf
<1>2. frame \in [Requests -> Frame] /\ frame[c] \in Frame
  BY DEF Typed, TypeOK
<1>3. todo \in SUBSET Servers /\ sheet \in Sheet
  BY <1>2 DEF Frame, Sheet, Row, RowOf
<1>4. Proceed(todo) \in {"save", "search"}
  BY DEF Proceed
<1> HIDE DEF todo, sheet
<1>5. /\ f \in Frame /\ f.pc = Proceed(todo) /\ f.name = frame[c].name
      /\ f.oldest = frame[c].oldest /\ f.todo = todo /\ f.sheet = sheet
  BY <1>2, <1>3, <1>4 DEF Frame
<1> HIDE DEF f
<1> QED
  BY <1>1, <1>2, <1>5 DEF todo, sheet

\* What the search for a server makes of an export.
LEMMA SearchFrame ==
  ASSUME Typed, NEW c \in Requests, NEW s \in Servers, Search(c, s) \/ SearchIsError(c, s)
  PROVE  \E v \in Versions :
           /\ Shown(s, v)
           /\ frame'[c] \in Frame
           /\ frame'[c].pc = Proceed(frame[c].todo \ {s})
           /\ frame'[c].name = frame[c].name /\ frame'[c].oldest = frame[c].oldest
           /\ frame'[c].todo = frame[c].todo \ {s}
           /\ frame'[c].sheet = frame[c].sheet \cup {RowOf(s, v)}
           /\ frame' \in [Requests -> Frame]
           /\ \A d \in Requests \ {c} : frame'[d] = frame[d]
<1>1. PICK v \in Versions : AddRow(c, s, v) /\ Shown(s, v)
  BY ConstantsOK DEF ConstantsOK, Search, SearchIsError, Versions, Typed, TypeOK, Shown
<1> QED
  BY <1>1, RowFrame

\* Making the link of it leaves the rest of an export alone.
LEMMA LinkFrame ==
  ASSUME Typed, NEW c \in Requests, Save(c) \/ Setenv(c) \/ ExpandEnv(c)
  PROVE  /\ frame'[c].pc # "search"
         /\ \A d \in Requests :
              /\ frame'[d].name = frame[d].name /\ frame'[d].todo = frame[d].todo
              /\ frame'[d].sheet = frame[d].sheet /\ frame'[d].oldest = frame[d].oldest
              /\ d # c => frame'[d] = frame[d]
<1>1. CASE Save(c)
  BY <1>1 DEF Typed, TypeOK, Frame, Save, Goto
<1>2. CASE Setenv(c)
  BY <1>2 DEF Typed, TypeOK, Frame, Setenv, Goto
<1>3. CASE ExpandEnv(c)
  BY <1>3 DEF Typed, TypeOK, Frame, ExpandEnv, Goto
<1> QED
  BY <1>1, <1>2, <1>3

\* The steps that change what is stored.
LEMMA StoredStep ==
  ASSUME Typed, NEW s \in Servers,
         \/ AddRecord(s) \/ AddDocument(s) \/ Update(s)
         \/ Refresh(s) \/ DeleteRecord(s) \/ DeleteDocument(s)
  PROVE  /\ record' \subseteq Servers
         /\ {indexed', visible', latest'} \subseteq [Servers -> Versions]
         /\ Stored'
         /\ \A t \in Servers :
              /\ latest[t] <= latest'[t]
              /\ visible'[t] \in {visible[t], indexed[t]}
<1> USE DEF Stored
<1>1. /\ record \subseteq Servers /\ {indexed, visible, latest} \subseteq [Servers -> Versions]
      /\ 0 \in Versions /\ Stored
      /\ \A t \in Servers : indexed[t] \in Nat /\ visible[t] \in Nat /\ latest[t] \in Nat
  BY ConstantsOK DEF Typed, TypeOK, ConstantsOK, Versions
<1>2. CASE AddRecord(s) \/ DeleteRecord(s)
  BY <1>1, <1>2 DEF AddRecord, DeleteRecord
<1>3. CASE AddDocument(s) \/ Update(s)
  <2>1. /\ latest[s] < IF s \in Growing THEN MaxVersion ELSE 1
        /\ latest' = [latest EXCEPT ![s] = @ + 1]
        /\ indexed' = [indexed EXCEPT ![s] = latest'[s]]
        /\ UNCHANGED <<record, visible>>
    BY <1>3 DEF AddDocument, Update, Write
  <2>2. visible[s] = latest[s]
    BY <1>1, <1>3 DEF AddDocument, Update
  <2>3. latest[s] + 1 \in Versions
    BY <1>1, <2>1, ConstantsOK DEF ConstantsOK, Versions
  <2>4. /\ latest' = [latest EXCEPT ![s] = latest[s] + 1]
        /\ indexed' = [indexed EXCEPT ![s] = latest[s] + 1]
    BY <1>1, <2>1
  <2>5. {indexed', latest'} \subseteq [Servers -> Versions]
    BY <1>1, <2>3, <2>4
  <2>6. /\ latest'[s] = latest[s] + 1 /\ indexed'[s] = latest[s] + 1
        /\ \A t \in Servers \ {s} : latest'[t] = latest[t] /\ indexed'[t] = indexed[t]
    BY <1>1, <2>4
  <2> QED
    BY <1>1, <2>1, <2>2, <2>5, <2>6
<1>4. CASE Refresh(s)
  <2>1. UNCHANGED <<record, indexed, latest>> /\ visible' = [visible EXCEPT ![s] = indexed[s]]
    BY <1>4 DEF Refresh
  <2>2. /\ visible' \in [Servers -> Versions]
        /\ \A t \in Servers : visible'[t] \in {visible[t], indexed[t]}
    BY <1>1, <2>1
  <2> QED
    BY <1>1, <2>1, <2>2
<1>5. CASE DeleteDocument(s)
  <2>1. /\ s \notin record /\ UNCHANGED <<record, visible, latest>>
        /\ indexed' = [indexed EXCEPT ![s] = 0]
    BY <1>5 DEF DeleteDocument
  <2>2. /\ indexed' \in [Servers -> Versions]
        /\ indexed'[s] = 0 /\ \A t \in Servers \ {s} : indexed'[t] = indexed[t]
    BY <1>1, <2>1
  <2> QED
    BY <1>1, <2>1, <2>2
<1> QED
  BY <1>2, <1>3, <1>4, <1>5

LEMMA TypedHolds == Spec => []Typed
<1> USE ConstantsOK, IdleFrame DEF ConstantsOK
<1>1. Init => Typed
  <2> SUFFICES ASSUME Init PROVE Typed
    OBVIOUS
  <2>1. /\ record \subseteq Servers /\ {indexed, visible, latest} \subseteq [Servers -> Versions]
        /\ Stored
    BY DEF Init, Versions, Stored
  <2>2. frame \in [Requests -> Frame] /\ \A c \in Requests : Named(frame[c])
    BY DEF Init
  <2> QED
    BY <2>1, <2>2 DEF Init, Typed, TypeOK
<1>2. Typed /\ [Next]_vars => Typed'
  <2> SUFFICES ASSUME Typed, [Next]_vars PROVE Typed'
    OBVIOUS
  <2> USE DEF Typed, TypeOK, stores, others
  <2>m. \A ms : Meet(ms) => mishaps' \subseteq Mishaps
    BY DEF Meet
  <2>u. UNCHANGED stores => Stored'
    BY DEF Stored
  <2>1. ASSUME NEW c \in Requests, NEW selected \in SUBSET record, Export(c, selected)
        PROVE  Typed'
    <3>1. mishaps' \subseteq Mishaps /\ UNCHANGED <<stores, files, filename, panicked>>
      BY <2>1, <2>m DEF Export
    <3>2. Proceed(selected) # "idle"
      BY DEF Proceed
    <3> QED
      BY <2>1, <2>u, <3>1, <3>2, ExportFrame DEF Named
  <2>2. ASSUME NEW c \in Requests, NEW s \in Servers, Search(c, s) \/ SearchIsError(c, s)
        PROVE  Typed'
    <3>1. mishaps' \subseteq Mishaps /\ UNCHANGED <<stores, files, filename, panicked>>
          /\ frame[c].pc = "search"
      BY <2>2, <2>m DEF Search, SearchIsError, At
    <3>2. Proceed(frame[c].todo \ {s}) # "idle"
      BY DEF Proceed
    <3> QED
      BY <2>2, <2>u, <3>1, <3>2, SearchFrame DEF Named
  <2>3. ASSUME NEW c \in Requests, NEW s \in Servers, SearchPanics(c, s) PROVE Typed'
    BY <2>3, <2>u DEF SearchPanics, Exit
  <2>4. ASSUME NEW c \in Requests, Save(c) PROVE Typed'
    <3>1. frame' \in [Requests -> Frame]
      <4>1. frame[c] \in Frame
        OBVIOUS
      <4>2. [frame[c] EXCEPT !.pc = "setenv"] \in Frame
        BY <4>1 DEF Frame
      <4> QED
        BY <2>4, <4>2 DEF Save, Goto
    <3>2. \A d \in Requests : Named(frame'[d])
      BY <2>4 DEF Save, At, Goto, Frame, Named
    <3> QED
      BY <2>4, <2>u, <3>1, <3>2 DEF Save, At, Frame, Named
  <2>5. ASSUME NEW c \in Requests, Setenv(c) PROVE Typed'
    <3>1. frame' \in [Requests -> Frame]
      <4>1. frame[c] \in Frame
        OBVIOUS
      <4>2. [frame[c] EXCEPT !.pc = "expand"] \in Frame
        BY <4>1 DEF Frame
      <4> QED
        BY <2>5, <4>2 DEF Setenv, Goto
    <3>2. \A d \in Requests : Named(frame'[d])
      BY <2>5 DEF Setenv, At, Goto, Frame, Named
    <3> QED
      BY <2>5, <2>u, <3>1, <3>2 DEF Setenv, At, Frame, Named
  <2>6. ASSUME NEW c \in Requests, ExpandEnv(c) PROVE Typed'
    <3>1. frame' \in [Requests -> Frame]
      <4>1. frame[c] \in Frame
        OBVIOUS
      <4>2. [frame[c] EXCEPT !.pc = "done", !.link = filename] \in Frame
        BY <4>1 DEF Frame
      <4> QED
        BY <2>6, <4>2 DEF ExpandEnv, Goto
    <3>2. \A d \in Requests : Named(frame'[d])
      BY <2>6 DEF ExpandEnv, At, Goto, Frame, Named
    <3> QED
      BY <2>6, <2>u, <3>1, <3>2 DEF ExpandEnv, At, Frame, Named
  <2>7. ASSUME NEW c \in Requests, Return(c) PROVE Typed'
    BY <2>7, <2>u DEF Return, Goto
  <2>8. ASSUME NEW s \in Servers,
               \/ AddRecord(s) \/ AddDocument(s) \/ Update(s)
               \/ Refresh(s) \/ DeleteRecord(s) \/ DeleteDocument(s)
        PROVE  Typed'
    <3>1. UNCHANGED others /\ mishaps' \subseteq Mishaps
      BY <2>8, <2>m DEF AddRecord, AddDocument, Update, Write, Refresh, DeleteRecord, DeleteDocument
    <3>2. /\ record' \subseteq Servers /\ {indexed', visible', latest'} \subseteq [Servers -> Versions]
          /\ Stored'
      BY <2>8, StoredStep
    <3> QED
      BY <3>1, <3>2
  <2>9. CASE Crash
    BY <2>9, <2>m, <2>u DEF Crash, Exit
  <2>10. CASE UNCHANGED vars
    BY <2>10, <2>u DEF vars
  <2> QED
    BY <2>1, <2>2, <2>3, <2>4, <2>5, <2>6, <2>7, <2>8, <2>9, <2>10, PageOnRecord
       DEF Next, SheetStep
<1> QED
  BY <1>1, <1>2, PTL DEF Spec

\* The state is well typed.
THEOREM TypeCorrect == Spec => []TypeOK
<1>1. Typed => TypeOK
  BY DEF Typed
<1> QED
  BY <1>1, TypedHolds, PTL

-----------------------------------------------------------------------------
(* The kinds of steps.                                                     *)

\* The steps that put an export together, which concern no link yet.
Preparing(c) ==
  \/ \E selected \in SUBSET record : Export(c, selected)
  \/ \E s \in Servers : Search(c, s) \/ SearchIsError(c, s)

LEMMA PreparingFrame ==
  ASSUME Typed, NEW c \in Requests, Preparing(c)
  PROVE  /\ frame'[c].pc \in {"save", "search"}
         /\ UNCHANGED <<files, filename, panicked>> /\ record' = record /\ mishaps \subseteq mishaps'
         /\ \A d \in Requests \ {c} : frame'[d] = frame[d]
<1>1. \A todo : Proceed(todo) \in {"save", "search"}
  BY DEF Proceed
<1>2. ASSUME NEW selected \in SUBSET record, Export(c, selected)
      PROVE  /\ UNCHANGED <<stores, files, filename, panicked>> /\ mishaps \subseteq mishaps'
             /\ frame'[c].pc \in {"save", "search"}
             /\ \A d \in Requests \ {c} : frame'[d] = frame[d]
  <2>1. UNCHANGED <<stores, files, filename, panicked>> /\ mishaps \subseteq mishaps'
    BY <1>2 DEF Export, Meet
  <2> QED
    BY <1>1, <1>2, <2>1, ExportFrame
<1>3. ASSUME NEW s \in Servers, Search(c, s) \/ SearchIsError(c, s)
      PROVE  /\ UNCHANGED <<stores, files, filename, panicked>> /\ mishaps \subseteq mishaps'
             /\ frame'[c].pc \in {"save", "search"}
             /\ \A d \in Requests \ {c} : frame'[d] = frame[d]
  <2>1. UNCHANGED <<stores, files, filename, panicked>> /\ mishaps \subseteq mishaps'
    BY <1>3 DEF Search, SearchIsError, Meet
  <2> QED
    BY <1>1, <1>3, <2>1, SearchFrame
<1> QED
  BY <1>2, <1>3 DEF Preparing, stores

\* What changes neither exports nor files.
Elsewhere ==
  \E s \in Servers :
    \/ AddRecord(s) \/ AddDocument(s) \/ Update(s)
    \/ Refresh(s) \/ DeleteRecord(s) \/ DeleteDocument(s)

LEMMA ElsewhereStep ==
  ASSUME Elsewhere PROVE UNCHANGED <<files, filename, frame>> /\ mishaps \subseteq mishaps'
BY DEF Elsewhere, AddRecord, AddDocument, Update, Write, Refresh, DeleteRecord, DeleteDocument,
       others, Meet

\* The exports end, with the process, or by their index out of range.
Ends == Crash \/ \E c \in Requests, s \in Servers : SearchPanics(c, s)

LEMMA NextCases ==
  ASSUME [Next]_vars
  PROVE  \/ \E c \in Requests :
              Preparing(c) \/ Save(c) \/ Setenv(c) \/ ExpandEnv(c) \/ Return(c)
         \/ Elsewhere \/ Ends \/ UNCHANGED vars
BY PageOnRecord DEF Next, SheetStep, Preparing, Elsewhere, Ends

-----------------------------------------------------------------------------
(* Rows.                                                                   *)

\* No search finds a version older than those an export may show, now or after a refresh.
Dated ==
  /\ \A c \in Requests : \A s \in Servers :
       /\ frame[c].oldest[s] <= latest[s]
       /\ visible[s] # 0 => frame[c].oldest[s] <= visible[s]
  /\ RowsTruthful

LEMMA DatedHolds == Spec => []Dated
<1>1. Init => Dated
  BY IdleFrame DEF Init, Dated, RowsTruthful
<1>2. Typed /\ Dated /\ [Next]_vars => Dated'
  <2> SUFFICES ASSUME Typed, Dated, [Next]_vars PROVE Dated'
    OBVIOUS
  <2> USE DEF Typed, TypeOK, Dated, RowsTruthful, stores, others, Frame, Sheet, Row, Versions
  <2>1. ASSUME NEW c \in Requests, NEW selected \in SUBSET record, Export(c, selected)
        PROVE  Dated'
    <3>1. UNCHANGED stores
      BY <2>1 DEF Export
    <3>2. /\ frame'[c].sheet = {} /\ frame'[c].oldest = OldestOf(selected)
          /\ \A d \in Requests \ {c} : frame'[d] = frame[d]
      BY <2>1, ExportFrame
    <3>3. \A s \in Servers :
            /\ OldestOf(selected)[s] <= latest[s]
            /\ visible[s] # 0 => OldestOf(selected)[s] <= visible[s]
      BY OldestFacts
    <3> QED
      BY <3>1, <3>2, <3>3
  <2>2. ASSUME NEW c \in Requests, NEW s \in Servers, Search(c, s) \/ SearchIsError(c, s)
        PROVE  Dated'
    <3>1. UNCHANGED stores
      BY <2>2 DEF Search, SearchIsError
    <3>3. PICK status \in Versions :
            /\ Shown(s, status)
            /\ frame'[c].oldest = frame[c].oldest
            /\ frame'[c].sheet = frame[c].sheet \cup {RowOf(s, status)}
            /\ \A d \in Requests \ {c} : frame'[d] = frame[d]
      <4> HIDE DEF Typed
      <4> QED
        BY <2>2, SearchFrame
    <3>4. status # 0 => frame[c].oldest[s] <= status /\ status <= latest[s]
      BY <3>3 DEF Shown, Stored
    <3> HIDE DEF Typed
    <3>5. \A r \in frame'[c].sheet :
            r.status # 0 => frame'[c].oldest[r.id] <= r.status /\ r.status <= latest[r.id]
      <4>1. \A r \in frame[c].sheet :
              r.status # 0 => frame[c].oldest[r.id] <= r.status /\ r.status <= latest[r.id]
        OBVIOUS
      <4>2. RowOf(s, status).id = s /\ RowOf(s, status).status = status
        BY DEF RowOf
      <4> DEFINE row == RowOf(s, status)
      <4> HIDE DEF row, Dated, TypeOK, Frame, Row, Sheet, RowsTruthful
      <4>3. frame'[c].oldest = frame[c].oldest /\ frame'[c].sheet = frame[c].sheet \cup {row}
            /\ row.id = s /\ row.status = status
        BY <3>3, <4>2 DEF row
      <4> SUFFICES ASSUME NEW r \in frame'[c].sheet, r.status # 0
                   PROVE  frame[c].oldest[r.id] <= r.status /\ r.status <= latest[r.id]
        BY <4>3
      <4>4. CASE r \in frame[c].sheet
        BY <4>1, <4>4
      <4>5. CASE r = row
        BY <4>3, <4>5, <3>4
      <4> QED
        BY <4>3, <4>4, <4>5
    <3>6. \A t \in Servers :
            /\ frame'[c].oldest[t] <= latest[t]
            /\ visible[t] # 0 => frame'[c].oldest[t] <= visible[t]
      BY <3>3
    <3>7. ASSUME NEW d \in Requests \ {c}
          PROVE  /\ \A t \in Servers :
                      /\ frame'[d].oldest[t] <= latest[t]
                      /\ visible[t] # 0 => frame'[d].oldest[t] <= visible[t]
                 /\ \A r \in frame'[d].sheet :
                      r.status # 0 => frame'[d].oldest[r.id] <= r.status /\ r.status <= latest[r.id]
      BY <3>3
    <3> QED
      BY <3>1, <3>5, <3>6, <3>7
  <2>3. ASSUME NEW c \in Requests, NEW s \in Servers, SearchPanics(c, s) PROVE Dated'
    BY <2>3, IdleFrame DEF SearchPanics, Exit
  <2>4. ASSUME NEW c \in Requests, Save(c) \/ Setenv(c) \/ ExpandEnv(c) PROVE Dated'
    <3>1. UNCHANGED stores
      BY <2>4 DEF Save, Setenv, ExpandEnv
    <3>2. \A d \in Requests : frame'[d].oldest = frame[d].oldest /\ frame'[d].sheet = frame[d].sheet
      BY <2>4, LinkFrame
    <3> HIDE DEF TypeOK, Frame, Row, Sheet
    <3> QED
      BY <3>1, <3>2
  <2>5. ASSUME NEW c \in Requests, Return(c) PROVE Dated'
    BY <2>5, IdleFrame DEF Return, Goto
  <2>6. CASE Elsewhere
    <3>1. UNCHANGED frame
      BY <2>6, ElsewhereStep
    <3>2. /\ latest' \in [Servers -> Nat]
          /\ \A t \in Servers : latest[t] <= latest'[t] /\ visible'[t] \in {visible[t], indexed[t]}
      BY <2>6, StoredStep DEF Elsewhere
    <3>3. \A t \in Servers : indexed[t] \in {0, latest[t]}
      BY DEF Stored
    <3>4. \A c \in Requests : \A t \in Servers :
            /\ frame[c].oldest[t] <= latest'[t]
            /\ visible'[t] # 0 => frame[c].oldest[t] <= visible'[t]
      BY <3>2, <3>3
    <3>5. ASSUME NEW c \in Requests, NEW r \in frame[c].sheet, r.status # 0
          PROVE  frame[c].oldest[r.id] <= r.status /\ r.status <= latest'[r.id]
      <4>1. r.id \in Servers /\ r.status \in Nat /\ r.status <= latest[r.id]
            /\ frame[c].oldest[r.id] <= r.status
        BY <3>5
      <4> QED
        BY <4>1, <3>2
    <3> QED
      BY <3>1, <3>4, <3>5
  <2>7. CASE Crash
    BY <2>7, IdleFrame DEF Crash, Exit
  <2>8. CASE UNCHANGED vars
    BY <2>8 DEF vars
  <2> QED
    BY <2>1, <2>2, <2>3, <2>4, <2>5, <2>6, <2>7, <2>8, NextCases DEF Preparing, Ends
<1> QED
  BY <1>1, <1>2, TypedHolds, PTL DEF Spec

\* RowsTruthful, of the rows of Export: each shows a status its server had while the export
\* was made, or the one before if that was not refreshed when it began, whatever the other
\* handlers do meanwhile.
THEOREM RowsTruthfulHolds == Spec => []RowsTruthful
<1>1. Dated => RowsTruthful
  BY DEF Dated
<1> QED
  BY <1>1, DatedHolds, PTL

-----------------------------------------------------------------------------
(* Links.                                                                  *)

\* What FILENAME names has been written, and no file goes away.
Written ==
  /\ filename # None => files[filename] # None
  /\ \A c \in Requests :
       /\ frame[c].pc \in {"setenv", "expand"} => files[frame[c].name] # None
       /\ frame[c].pc = "expand" => filename # None
  /\ LinksResolve

LEMMA WrittenHolds == Spec => []Written
<1>1. Init => Written
  BY IdleFrame DEF Init, Written, LinksResolve, At
<1>2. Typed /\ Written /\ [Next]_vars => Written'
  <2> SUFFICES ASSUME Typed, Written, [Next]_vars PROVE Written'
    OBVIOUS
  <2> USE DEF Written, LinksResolve, At
  <2>t. /\ frame \in [Requests -> Frame] /\ files \in [Names -> Sheet \cup {None}]
        /\ filename \in Names \cup {None}
        /\ \A c \in Requests : frame[c].pc # "idle" => frame[c].name \in Names
        /\ \A c \in Requests : frame[c].link \in Names \cup {None}
    BY DEF Typed, TypeOK, Named, Frame
  <2>1. ASSUME NEW c \in Requests, Preparing(c) PROVE Written'
    BY <2>1, PreparingFrame
  <2>2. ASSUME NEW c \in Requests, Save(c) PROVE Written'
    <3>1. /\ frame[c].pc = "save" /\ UNCHANGED filename
          /\ files' = [files EXCEPT ![frame[c].name] = frame[c].sheet]
          /\ frame' = [frame EXCEPT ![c] = [frame[c] EXCEPT !.pc = "setenv"]]
      BY <2>2 DEF Save, Goto
    <3>2. frame[c].sheet # None
      BY <2>t, ConstantsOK DEF ConstantsOK, Frame
    <3>3. /\ \A n \in Names : files[n] # None => files'[n] # None
          /\ files'[frame[c].name] # None
      BY <2>t, <3>1, <3>2
    <3>4. /\ frame'[c].pc = "setenv" /\ frame'[c].name = frame[c].name
          /\ \A d \in Requests \ {c} : frame'[d] = frame[d]
      BY <2>t, <3>1 DEF Frame
    <3> QED
      BY <2>t, <3>1, <3>3, <3>4
  <2>3. ASSUME NEW c \in Requests, Setenv(c) PROVE Written'
    <3>1. /\ frame[c].pc = "setenv" /\ filename' = frame[c].name /\ UNCHANGED files
          /\ frame' = [frame EXCEPT ![c] = [frame[c] EXCEPT !.pc = "expand"]]
      BY <2>3 DEF Setenv, Goto
    <3>2. /\ frame'[c].pc = "expand" /\ frame'[c].name = frame[c].name
          /\ \A d \in Requests \ {c} : frame'[d] = frame[d]
      BY <2>t, <3>1 DEF Frame
    <3>3. filename' # None
      BY <2>t, <3>1, ConstantsOK DEF ConstantsOK
    <3> QED
      BY <2>t, <3>1, <3>2, <3>3
  <2>4. ASSUME NEW c \in Requests, ExpandEnv(c) PROVE Written'
    <3>1. /\ frame[c].pc = "expand" /\ UNCHANGED <<files, filename>>
          /\ frame' = [frame EXCEPT ![c] = [frame[c] EXCEPT !.pc = "done", !.link = filename]]
      BY <2>4 DEF ExpandEnv, Goto
    <3>2. /\ frame'[c].pc = "done" /\ frame'[c].link = filename
          /\ \A d \in Requests \ {c} : frame'[d] = frame[d]
      BY <2>t, <3>1 DEF Frame
    <3> QED
      BY <3>1, <3>2
  <2>5. ASSUME NEW c \in Requests, Return(c) PROVE Written'
    BY <2>5, <2>t, IdleFrame DEF Return, Goto
  <2>6. CASE Elsewhere
    BY <2>6, ElsewhereStep
  <2>7. CASE Ends
    <3>1. frame' = [c \in Requests |-> Idle] /\ filename' = None
      BY <2>7 DEF Ends, Crash, SearchPanics, Exit
    <3> QED
      BY <3>1, IdleFrame
  <2>8. CASE UNCHANGED vars
    BY <2>8 DEF vars
  <2> QED
    BY <2>1, <2>2, <2>3, <2>4, <2>5, <2>6, <2>7, <2>8, NextCases
<1> QED
  BY <1>1, <1>2, TypedHolds, PTL DEF Spec

\* LinksResolve, of the links Export hands out.
THEOREM LinksResolveHolds == Spec => []LinksResolve
<1>1. Written => LinksResolve
  BY DEF Written
<1> QED
  BY <1>1, WrittenHolds, PTL

-----------------------------------------------------------------------------
(* The right link.                                                         *)

Working(c) == frame[c].pc \notin {"idle", "done"}

\* While no export overlaps another or has its name, FILENAME is that of the only one.
Owned ==
  mishaps \cap {"overlap", "sameName"} = {} =>
    /\ \A c, d \in Requests : Working(c) /\ Working(d) => c = d
    /\ \A c, d \in Requests :
         frame[c].pc # "idle" /\ frame[d].pc # "idle" /\ frame[c].name = frame[d].name => c = d
    /\ \A c \in Requests :
         /\ frame[c].pc \in {"setenv", "expand", "done"} => files[frame[c].name] = frame[c].sheet
         /\ frame[c].pc = "expand" => filename = frame[c].name
         /\ frame[c].pc = "done" => frame[c].link = frame[c].name

\* An export that begins when there is no mishap finds the others idle, or done under other names.
LEMMA ExportAlone ==
  ASSUME Typed, NEW c \in Requests, NEW selected \in SUBSET record, Export(c, selected),
         mishaps' \cap {"overlap", "sameName"} = {}
  PROVE  \A d \in Requests \ {c} :
           frame[d].pc \in {"idle", "done"} /\ frame[d].name # frame'[c].name
<1>1. PICK name \in Names :
        /\ frame' = [frame EXCEPT ![c] = [Idle EXCEPT !.pc = Proceed(selected),
                              !.name = name, !.todo = selected, !.oldest = OldestOf(selected)]]
        /\ Meet((IF UnderWay THEN {"overlap"} ELSE {})
              \cup (IF files[name] # None \/ \E d \in Requests : frame[d].name = name
                    THEN {"sameName"} ELSE {})
              \cup (IF \E s \in selected : visible[s] = 0 THEN {"young"} ELSE {}))
  BY DEF Export, Goto, OldestOf
<1>2. ~ UnderWay
  BY <1>1 DEF Meet
<1>3. \A d \in Requests : frame[d].name # name
  BY <1>1 DEF Meet
<1>4. frame'[c].name = name
  BY <1>1 DEF Typed, TypeOK, Idle
<1> QED
  BY <1>2, <1>3, <1>4 DEF UnderWay

LEMMA OwnedHolds == Spec => []Owned
<1>1. Init => Owned
  BY IdleFrame DEF Init, Owned, Working
<1>2. Typed /\ Owned /\ [Next]_vars => Owned'
  <2> SUFFICES ASSUME Typed, Owned, [Next]_vars PROVE Owned'
    OBVIOUS
  <2> USE DEF Owned, Working
  <2>t. /\ frame \in [Requests -> Frame] /\ files \in [Names -> Sheet \cup {None}]
        /\ \A c \in Requests : frame[c].pc # "idle" => frame[c].name \in Names
    BY DEF Typed, TypeOK, Named, Frame
  <2>1. ASSUME NEW c \in Requests, NEW selected \in SUBSET record, Export(c, selected)
        PROVE  Owned'
    <3>1. /\ frame'[c].pc \in {"save", "search"} /\ UNCHANGED <<files, filename>>
          /\ mishaps \subseteq mishaps' /\ \A d \in Requests \ {c} : frame'[d] = frame[d]
      BY <2>1, PreparingFrame DEF Preparing
    <3> QED
      BY <2>1, <3>1, ExportAlone
  <2>2. ASSUME NEW c \in Requests, NEW s \in Servers, Search(c, s) \/ SearchIsError(c, s)
        PROVE  Owned'
    <3>1. /\ frame'[c].pc \in {"save", "search"} /\ UNCHANGED <<files, filename>>
          /\ mishaps \subseteq mishaps' /\ \A d \in Requests \ {c} : frame'[d] = frame[d]
      BY <2>2, PreparingFrame DEF Preparing
    <3>2. frame[c].pc = "search" /\ frame'[c].name = frame[c].name
      BY <2>2, SearchFrame DEF Search, SearchIsError, At
    <3> QED
      BY <3>1, <3>2
  <2>3. ASSUME NEW c \in Requests, Save(c) PROVE Owned'
    <3>1. /\ frame[c].pc = "save" /\ UNCHANGED <<filename, mishaps>>
          /\ files' = [files EXCEPT ![frame[c].name] = frame[c].sheet]
          /\ frame'[c].pc = "setenv" /\ frame'[c].name = frame[c].name
          /\ frame'[c].sheet = frame[c].sheet
          /\ \A d \in Requests \ {c} : frame'[d] = frame[d]
      BY <2>3, <2>t, LinkFrame DEF Save, Goto, At
    <3>2. files'[frame[c].name] = frame[c].sheet
      BY <2>t, <3>1
    <3>3. \A n \in Names : n # frame[c].name => files'[n] = files[n]
      BY <2>t, <3>1
    <3> QED
      BY <2>t, <3>1, <3>2, <3>3
  <2>4. ASSUME NEW c \in Requests, Setenv(c) PROVE Owned'
    <3>1. /\ frame[c].pc = "setenv" /\ filename' = frame[c].name /\ UNCHANGED <<files, mishaps>>
          /\ frame'[c].pc = "expand" /\ frame'[c].name = frame[c].name
          /\ frame'[c].sheet = frame[c].sheet
          /\ \A d \in Requests \ {c} : frame'[d] = frame[d]
      BY <2>4, <2>t, LinkFrame DEF Setenv, Goto, At
    <3> QED
      BY <3>1
  <2>5. ASSUME NEW c \in Requests, ExpandEnv(c) PROVE Owned'
    <3>1. /\ frame[c].pc = "expand" /\ UNCHANGED <<files, filename, mishaps>>
          /\ frame' = [frame EXCEPT ![c] = [frame[c] EXCEPT !.pc = "done", !.link = filename]]
      BY <2>5 DEF ExpandEnv, Goto, At
    <3>2. frame'[c].pc = "done" /\ frame'[c].link = filename
      BY <2>t, <3>1 DEF Frame
    <3>3. /\ frame'[c].name = frame[c].name /\ frame'[c].sheet = frame[c].sheet
          /\ \A d \in Requests \ {c} : frame'[d] = frame[d]
      BY <2>5, LinkFrame
    <3> QED
      BY <3>1, <3>2, <3>3
  <2>6. ASSUME NEW c \in Requests, Return(c) PROVE Owned'
    BY <2>6, <2>t, IdleFrame DEF Return, Goto
  <2>7. CASE Elsewhere
    BY <2>7, ElsewhereStep
  <2>8. CASE Ends
    <3>1. frame' = [c \in Requests |-> Idle]
      BY <2>8 DEF Ends, Crash, SearchPanics, Exit
    <3> QED
      BY <3>1, IdleFrame
  <2>9. CASE UNCHANGED vars
    BY <2>9 DEF vars
  <2> QED
    BY <2>1, <2>2, <2>3, <2>4, <2>5, <2>6, <2>7, <2>8, <2>9, NextCases DEF Preparing
<1> QED
  BY <1>1, <1>2, TypedHolds, PTL DEF Spec

\* OwnFile, of the links of Export when none gets in the way of another.
THEOREM OwnFileHolds == Spec => []OwnFile
<1>1. Owned => OwnFile
  BY DEF Owned, OwnFile, At
<1> QED
  BY <1>1, OwnedHolds, PTL

-----------------------------------------------------------------------------
(* The index out of range.                                                 *)

\* What an export has left can be found, and will be after the next refresh.
Searchable ==
  mishaps \cap {"young", "deleted"} = {} =>
    /\ ~ panicked
    /\ \A c \in Requests :
         frame[c].pc = "search" => \A s \in frame[c].todo : visible[s] # 0 /\ indexed[s] # 0

LEMMA SearchableHolds == Spec => []Searchable
<1>1. Init => Searchable
  BY IdleFrame DEF Init, Searchable
<1>2. Typed /\ Searchable /\ [Next]_vars => Searchable'
  <2> SUFFICES ASSUME Typed, Searchable, [Next]_vars PROVE Searchable'
    OBVIOUS
  <2> USE DEF Searchable
  <2>t. /\ {indexed, visible, latest} \subseteq [Servers -> Versions] /\ record \subseteq Servers
        /\ frame \in [Requests -> Frame] /\ \A c \in Requests : frame[c].todo \subseteq Servers
    BY DEF Typed, TypeOK, Frame
  <2>1. ASSUME NEW c \in Requests, NEW selected \in SUBSET record, Export(c, selected)
        PROVE  Searchable'
    <3>1. /\ frame'[c].todo = selected /\ \A d \in Requests \ {c} : frame'[d] = frame[d]
      BY <2>1, ExportFrame
    <3>2. UNCHANGED <<visible, indexed, panicked>> /\ mishaps \subseteq mishaps'
      BY <2>1 DEF Export, Meet, stores
    <3>3. "young" \notin mishaps' => \A s \in selected : visible[s] # 0
      BY <2>1 DEF Export, Meet
    <3>4. \A s \in selected : visible[s] # 0 => indexed[s] # 0
      <4>1. \A s \in selected : indexed[s] = latest[s] /\ visible[s] <= latest[s]
        BY <2>t DEF Typed, Stored
      <4> QED
        BY <2>t, <4>1 DEF Versions
    <3> QED
      BY <3>1, <3>2, <3>3, <3>4
  <2>2. ASSUME NEW c \in Requests, NEW s \in Servers, Search(c, s) \/ SearchIsError(c, s)
        PROVE  Searchable'
    <3>1. /\ frame'[c].todo = frame[c].todo \ {s}
          /\ \A d \in Requests \ {c} : frame'[d] = frame[d]
      BY <2>2, SearchFrame
    <3>2. /\ UNCHANGED <<visible, indexed, panicked>> /\ mishaps \subseteq mishaps'
          /\ frame[c].pc = "search"
      BY <2>2 DEF Search, SearchIsError, Meet, stores, At
    <3> QED
      BY <3>1, <3>2
  <2>3. ASSUME NEW c \in Requests, Save(c) \/ Setenv(c) \/ ExpandEnv(c) PROVE Searchable'
    <3>1. UNCHANGED <<visible, indexed, panicked, mishaps>>
      BY <2>3 DEF Save, Setenv, ExpandEnv, stores
    <3>2. frame'[c].pc # "search" /\ \A d \in Requests \ {c} : frame'[d] = frame[d]
      BY <2>3, LinkFrame
    <3> QED
      BY <3>1, <3>2
  <2>4. ASSUME NEW c \in Requests, Return(c) PROVE Searchable'
    BY <2>4, <2>t, IdleFrame DEF Return, Goto, stores
  <2>5. ASSUME NEW c \in Requests, NEW s \in Servers, SearchPanics(c, s) PROVE Searchable'
    <3>1. /\ frame[c].pc = "search" /\ s \in frame[c].todo /\ visible[s] = 0
          /\ UNCHANGED mishaps
      BY <2>5 DEF SearchPanics, At
    <3> QED
      BY <3>1
  <2>6. CASE Crash
    BY <2>6, IdleFrame DEF Crash, Exit, Meet
  <2>7. ASSUME NEW s \in Servers,
               AddRecord(s) \/ AddDocument(s) \/ Update(s) \/ DeleteRecord(s)
        PROVE  Searchable'
    <3>1. UNCHANGED <<frame, panicked, visible, mishaps>>
          /\ \A r \in Servers : indexed[r] # 0 => indexed'[r] # 0
      BY <2>7, <2>t
         DEF AddRecord, AddDocument, Update, Write, DeleteRecord, others, Versions
    <3> QED
      BY <2>t, <3>1
  <2>8. ASSUME NEW s \in Servers, Refresh(s) PROVE Searchable'
    <3>1. UNCHANGED <<frame, panicked, indexed, mishaps>>
          /\ \A r \in Servers : visible[r] # 0 /\ indexed[r] # 0 => visible'[r] # 0
      BY <2>8, <2>t DEF Refresh, others
    <3> QED
      BY <2>t, <3>1
  <2>9. ASSUME NEW s \in Servers, DeleteDocument(s) PROVE Searchable'
    <3>1. UNCHANGED <<frame, panicked>> /\ mishaps \subseteq mishaps'
          /\ (UnderWay => "deleted" \in mishaps')
      BY <2>9 DEF DeleteDocument, Meet, others
    <3>2. (\E c \in Requests : frame[c].pc = "search") => UnderWay
      BY DEF UnderWay
    <3> QED
      BY <3>1, <3>2
  <2>10. CASE UNCHANGED vars
    BY <2>10 DEF vars, stores
  <2> QED
    BY <2>1, <2>2, <2>3, <2>4, <2>5, <2>6, <2>7, <2>8, <2>9, <2>10, NextCases
       DEF Preparing, Elsewhere, Ends
<1> QED
  BY <1>1, <1>2, TypedHolds, PTL DEF Spec

\* PanicExcused, of the last element Export takes of every history.
THEOREM PanicExcusedHolds == Spec => []PanicExcused
<1>1. Searchable => PanicExcused
  BY DEF Searchable, PanicExcused
<1> QED
  BY <1>1, SearchableHolds, PTL
=============================================================================
