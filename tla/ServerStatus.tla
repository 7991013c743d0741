----------------------------- MODULE ServerStatus -----------------------------
(***************************************************************************)
(* The life of a managed server across the two stores that hold it: its    *)
(* record in the MongoDB collection and its status history, a document of  *)
(* the Elasticsearch index whose changeStatus array lists every status the *)
(* server has had, oldest first.  The handlers of                          *)
(* repository/repoImpl/server_repo_impl.go and operation_repo_impl.go run  *)
(* in one goroutine per request and touch the stores one call at a time;   *)
(* each such call is an action here, so that any two handlers interleave   *)
(* between any two of their calls.                                         *)
(*                                                                         *)
(* Elasticsearch answers a search from the last refresh of the index, not  *)
(* from the documents as written.  An update-by-query reads the matching   *)
(* documents the same way, and writes one back only if it has not changed  *)
(* since: a version conflict leaves it alone.  No handler looks at the     *)
(* outcome of that request.                                                *)
(*                                                                         *)
(* UpdateStatus is a goroutine that serverGrpc.Run has commented out; a     *)
(* build that starts it is the instance with a non-empty Sweepers.          *)
(*                                                                         *)
(* Time is a counter that advances with every time.Now() written into a    *)
(* history.  Two versions of a document never end with the same time, so   *)
(* equality of contents stands for equality of document versions.          *)
(*                                                                         *)
(* The operators named Faulty... are not part of the model: each is the     *)
(* definition that follows it with a plausible mistake in the code, and its *)
(* comment names the property that the mistake would break.                 *)
(***************************************************************************)
EXTENDS Naturals, Sequences

CONSTANTS
  Servers,      \* the object ids InsertOne may hand out, each only once
  NoServer,     \* "no server": the goroutine works for no server now
  Calls,        \* goroutines that serve requests
  Sweepers,     \* goroutines that run UpdateStatus
  Failures,     \* what the environment may inflict: "exit", "esError"
  MaxClock      \* bound: no goroutine takes on work once this many stamps were taken

ASSUME ConstantsOK ==
  /\ NoServer \notin Servers
  /\ Calls \cap Sweepers = {}
  /\ Failures \subseteq {"exit", "esError"}
  /\ MaxClock \in Nat

VARIABLES
  record,      \* per server, its record in MongoDB: "absent", "stored", "deleted"
  aged,        \* per server, is updated_at more than 60 days old?
  index,       \* per server, changeStatus of its document as last written
  searchable,  \* per server, changeStatus as of the last refresh
  clock,       \* the next time stamp
  pc,          \* per goroutine, the call to a store it is about to make
  op,          \* per goroutine, the handler it runs
  srv,         \* per goroutine, the server it works for
  body,        \* per goroutine, the changeStatus array it is about to write
  batch,       \* per goroutine, the servers an UpdateStatus pass has yet to visit
  failed       \* the failures met so far

vars == <<record, aged, index, searchable, clock, pc, op, srv, body, batch, failed>>

Goroutines == Calls \cup Sweepers
Statuses == {"On", "Off", "Invalid"}
Entries == [status : Statuses, time : Nat]
NoDocument == << >>    \* a search without hits leaves ChangeStatus empty
Handlers == {"none", "AddServer", "DeleteServer", "Connect", "Disconnect",
             "ChangePassword", "UpdateStatus"}
Labels == {"idle", "index", "search", "update", "setPassword", "deleteOne",
           "deleteDoc", "removeData", "sweep"}

TypeOK ==
  /\ record \in [Servers -> {"absent", "stored", "deleted"}]
  /\ aged \in [Servers -> BOOLEAN]
  /\ index \in [Servers -> Seq(Entries)]
  /\ searchable \in [Servers -> Seq(Entries)]
  /\ clock \in Nat
  /\ pc \in [Goroutines -> Labels]
  /\ op \in [Goroutines -> Handlers]
  /\ srv \in [Goroutines -> Servers \cup {NoServer}]
  /\ body \in [Goroutines -> Seq(Entries)]
  /\ batch \in [Goroutines -> SUBSET Servers]
  /\ failed \subseteq {"exit", "esError"}

Init ==
  /\ record = [s \in Servers |-> "absent"]
  /\ aged = [s \in Servers |-> FALSE]
  /\ index = [s \in Servers |-> NoDocument]
  /\ searchable = [s \in Servers |-> NoDocument]
  /\ clock = 0
  /\ pc = [c \in Goroutines |-> "idle"]
  /\ op = [c \in Goroutines |-> "none"]
  /\ srv = [c \in Goroutines |-> NoServer]
  /\ body = [c \in Goroutines |-> NoDocument]
  /\ batch = [c \in Goroutines |-> {}]
  /\ failed = {}

stores == <<record, aged, index, searchable>>
locals == <<op, srv, body, batch>>

-----------------------------------------------------------------------------
(* Steps shared by the handlers.                                           *)

Goto(c, label) == pc' = [pc EXCEPT ![c] = label]

\* A request handler is entered, and has found server s or created it.
Begin(c, handler, s, label) ==
  /\ c \in Calls
  /\ pc[c] = "idle"
  /\ clock < MaxClock
  /\ Goto(c, label)
  /\ op' = [op EXCEPT ![c] = handler]
  /\ srv' = [srv EXCEPT ![c] = s]
  /\ UNCHANGED <<body, batch>>

\* The handler returns to its client, with or without an error.
Return(c) ==
  /\ Goto(c, "idle")
  /\ op' = [op EXCEPT ![c] = "none"]
  /\ srv' = [srv EXCEPT ![c] = NoServer]
  /\ body' = [body EXCEPT ![c] = NoDocument]
  /\ UNCHANGED batch

\* log.Fatal, a panic or a kill: every goroutine is gone, the stores stay.  The
\* process that is started next begins with none of them.
Exit ==
  /\ pc' = [c \in Goroutines |-> "idle"]
  /\ op' = [c \in Goroutines |-> "none"]
  /\ srv' = [c \in Goroutines |-> NoServer]
  /\ body' = [c \in Goroutines |-> NoDocument]
  /\ batch' = [c \in Goroutines |-> {}]

EsFailure ==
  /\ "esError" \in Failures
  /\ failed' = failed \cup {"esError"}

LastStatus(log) == log[Len(log)].status

\* TypeOK: a status that is none of the three.
FaultyNewStatus(handler) == IF handler = "Connect" THEN "On" ELSE ""

\* What the handler appends to the history.
NewStatus(handler) ==
  CASE handler = "Connect"      -> "On"
    [] handler = "UpdateStatus" -> "Invalid"
    [] OTHER                    -> "Off"

\* Where the handler goes on once it is done with the history.
AfterUpdate(handler) ==
  CASE handler = "ChangePassword" -> "setPassword"
    [] handler = "UpdateStatus"   -> "sweep"
    [] OTHER                      -> "removeData"

\* InvalidMarkedOnce: UpdateStatus does not look at the last status.
FaultyAppends(handler, log) ==
  handler = "ChangePassword" => LastStatus(log) = "Invalid"

\* SuccessRecorded: nothing is appended to a server that has the status already.
FaultyAppendsOnce(handler, log) ==
  log # NoDocument => LastStatus(log) # NewStatus(handler)

\* Connect and Disconnect always append; ChangePassword only wakes up an invalid
\* server and UpdateStatus only marks one that is not invalid yet.
Appends(handler, log) ==
  \/ handler \in {"Connect", "Disconnect"}
  \/ handler = "ChangePassword" /\ LastStatus(log) = "Invalid"
  \/ handler = "UpdateStatus" /\ LastStatus(log) # "Invalid"

\* HistoriesChronological: the newest status in front.
FaultyInFront(found, handler) ==
  <<[status |-> NewStatus(handler), time |-> clock]>> \o found

\* The history that was found, and the new status with time.Now().
Extended(found, handler) ==
  Append(found, [status |-> NewStatus(handler), time |-> clock])

-----------------------------------------------------------------------------
(* AddServer.                                                              *)

\* InsertOne.  If it fails the handler returns and nothing has changed.
AddInsert(c, s) ==
  /\ Begin(c, "AddServer", s, "index")
  /\ record[s] = "absent"
  /\ record' = [record EXCEPT ![s] = "stored"]
  /\ UNCHANGED <<aged, index, searchable, clock, failed>>

\* The index request that creates the history with one "Off".
AddIndex(c) ==
  /\ pc[c] = "index"
  /\ index' = [index EXCEPT ![srv[c]] = <<[status |-> "Off", time |-> clock]>>]
  /\ clock' = clock + 1
  /\ Goto(c, "removeData")
  /\ UNCHANGED <<record, aged, searchable, locals, failed>>

\* The request fails: its outcome is not looked at, the handler goes on.
AddIndexFails(c) ==
  /\ pc[c] = "index"
  /\ EsFailure
  /\ Goto(c, "removeData")
  /\ UNCHANGED <<stores, clock, locals>>

\* RemoveData and the return.  The cache it works on is not part of this module.
RemoveData(c) ==
  /\ pc[c] = "removeData"
  /\ Return(c)
  /\ UNCHANGED <<stores, clock, failed>>

-----------------------------------------------------------------------------
(* Connect, Disconnect and ChangePassword: FindOne, Search, UpdateByQuery. *)

\* FindOne by credentials, or by id, finds the record of s.  If there is none the
\* handler returns and nothing has changed.
Find(c, s) ==
  /\ record[s] = "stored"
  /\ \E handler \in {"Connect", "Disconnect", "ChangePassword"} :
       Begin(c, handler, s, "search")
  /\ UNCHANGED <<stores, clock, failed>>

\* Search returns the history as of the last refresh, or nothing.  What is to be
\* appended carries time.Now().
Search(c) ==
  LET found == searchable[srv[c]] IN
  /\ pc[c] = "search"
  /\ \/ found # NoDocument
     \/ op[c] \in {"Connect", "Disconnect"}
  /\ Appends(op[c], found)
  /\ body' = [body EXCEPT ![c] = Extended(found, op[c])]
  /\ clock' = clock + 1
  /\ Goto(c, "update")
  /\ UNCHANGED <<stores, op, srv, batch, failed>>

\* The history is to stay as it is, for ChangePassword and UpdateStatus.
SearchNothingToDo(c) ==
  LET found == searchable[srv[c]] IN
  /\ pc[c] = "search"
  /\ found # NoDocument
  /\ ~ Appends(op[c], found)
  /\ Goto(c, AfterUpdate(op[c]))
  /\ UNCHANGED <<stores, clock, locals, failed>>

\* ChangePassword and UpdateStatus index the empty array at -1 and panic.
SearchPanics(c) ==
  /\ pc[c] = "search"
  /\ op[c] \in {"ChangePassword", "UpdateStatus"}
  /\ searchable[srv[c]] = NoDocument
  /\ Exit
  /\ failed' = failed \cup {"exit"}
  /\ UNCHANGED <<stores, clock>>

\* The answer is an error status: the history is left alone.
SearchIsError(c) ==
  /\ pc[c] = "search"
  /\ EsFailure
  /\ Goto(c, AfterUpdate(op[c]))
  /\ UNCHANGED <<stores, clock, locals>>

\* No answer: Connect and Disconnect return (Disconnect without an error),
\* the others are fatal.
SearchFails(c) ==
  /\ pc[c] = "search"
  /\ EsFailure
  /\ IF op[c] \in {"Connect", "Disconnect"} THEN Return(c) ELSE Exit
  /\ UNCHANGED <<stores, clock>>

\* DocumentsRefine, NoOrphanHistory: an index request, which overwrites or creates.
FaultyUpdateByQuery(s, log) == [index EXCEPT ![s] = log]

\* update_by_query on the document of s: written only if the search that selects
\* it returns it in its current version.
UpdateByQuery(s, log) ==
  IF searchable[s] # NoDocument /\ searchable[s] = index[s]
  THEN [index EXCEPT ![s] = log]
  ELSE index

Update(c) ==
  /\ pc[c] = "update"
  /\ index' = UpdateByQuery(srv[c], body[c])
  /\ Goto(c, AfterUpdate(op[c]))
  /\ UNCHANGED <<record, aged, searchable, clock, locals, failed>>

\* An error status is not looked at.  If the connection is lost, before or after
\* the update took effect, Connect returns the error and the others are fatal.
UpdateFails(c) ==
  /\ pc[c] = "update"
  /\ EsFailure
  /\ \/ /\ Goto(c, AfterUpdate(op[c]))
        /\ UNCHANGED <<index, locals>>
     \/ /\ index' \in {index, UpdateByQuery(srv[c], body[c])}
        /\ IF op[c] = "Connect" THEN Return(c) ELSE Exit
  /\ UNCHANGED <<record, aged, searchable, clock>>

\* UpdateOne of password and updated_at; no match is not an error.
SetPassword(c) ==
  /\ pc[c] = "setPassword"
  /\ aged' = IF record[srv[c]] = "stored" THEN [aged EXCEPT ![srv[c]] = FALSE] ELSE aged
  /\ Goto(c, "removeData")
  /\ UNCHANGED <<record, index, searchable, clock, locals, failed>>

-----------------------------------------------------------------------------
(* DeleteServer.                                                           *)

\* StoredHasHistory: the document is deleted without the record.
FaultyDeleteFind(c, s) ==
  /\ record[s] = "stored"
  /\ Begin(c, "DeleteServer", s, "deleteDoc")
  /\ UNCHANGED <<stores, clock, failed>>

\* FindOne, for the server's name.
DeleteFind(c, s) ==
  /\ record[s] = "stored"
  /\ Begin(c, "DeleteServer", s, "deleteOne")
  /\ UNCHANGED <<stores, clock, failed>>

DeleteOne(c) ==
  /\ pc[c] = "deleteOne"
  /\ record[srv[c]] = "stored"
  /\ record' = [record EXCEPT ![srv[c]] = "deleted"]
  /\ Goto(c, "deleteDoc")
  /\ UNCHANGED <<aged, index, searchable, clock, locals, failed>>

\* DeletedCount is 0: somebody else deleted it.
DeleteOneMisses(c) ==
  /\ pc[c] = "deleteOne"
  /\ record[srv[c]] # "stored"
  /\ Return(c)
  /\ UNCHANGED <<stores, clock, failed>>

DeleteDocument(c) ==
  /\ pc[c] = "deleteDoc"
  /\ index' = [index EXCEPT ![srv[c]] = NoDocument]
  /\ Goto(c, "removeData")
  /\ UNCHANGED <<record, aged, searchable, clock, locals, failed>>

\* An error status is not looked at; a lost connection is fatal, whether or not
\* the document is gone.
DeleteDocumentFails(c) ==
  /\ pc[c] = "deleteDoc"
  /\ EsFailure
  /\ \/ /\ Goto(c, "removeData")
        /\ UNCHANGED <<index, locals>>
     \/ /\ index' \in {index, [index EXCEPT ![srv[c]] = NoDocument]}
        /\ Exit
  /\ UNCHANGED <<record, aged, searchable, clock>>

-----------------------------------------------------------------------------
(* UpdateStatus, and the environment.                                      *)

\* Find: the records, and with them their updated_at, are read once per pass.
SweepFind(w) ==
  /\ w \in Sweepers
  /\ pc[w] = "idle"
  /\ clock < MaxClock
  /\ batch' = [batch EXCEPT ![w] = {s \in Servers : record[s] = "stored" /\ aged[s]}]
  /\ op' = [op EXCEPT ![w] = "UpdateStatus"]
  /\ Goto(w, "sweep")
  /\ UNCHANGED <<stores, clock, srv, body, failed>>

SweepNext(w, s) ==
  /\ pc[w] = "sweep"
  /\ s \in batch[w]
  /\ batch' = [batch EXCEPT ![w] = @ \ {s}]
  /\ srv' = [srv EXCEPT ![w] = s]
  /\ body' = [body EXCEPT ![w] = NoDocument]
  /\ Goto(w, "search")
  /\ UNCHANGED <<stores, clock, op, failed>>

\* The pass is over: the goroutine sleeps for an hour.
SweepEnd(w) ==
  /\ pc[w] = "sweep"
  /\ batch[w] = {}
  /\ Return(w)
  /\ UNCHANGED <<stores, clock, failed>>

\* Elasticsearch makes what was written searchable, by default every second.
Refresh ==
  /\ searchable' = index
  /\ UNCHANGED <<record, aged, index, clock, pc, locals, failed>>

\* 60 days have passed since updated_at of s.
Age(s) ==
  /\ Sweepers # {}
  /\ record[s] = "stored"
  /\ aged' = [aged EXCEPT ![s] = TRUE]
  /\ UNCHANGED <<record, index, searchable, clock, pc, locals, failed>>

\* The process is killed.
Crash ==
  /\ "exit" \in Failures
  /\ Exit
  /\ failed' = failed \cup {"exit"}
  /\ UNCHANGED <<stores, clock>>

-----------------------------------------------------------------------------

SearchStep(c) == Search(c) \/ SearchNothingToDo(c) \/ SearchPanics(c)
                 \/ SearchIsError(c) \/ SearchFails(c)
UpdateStep(c) == Update(c) \/ UpdateFails(c)
AddStep(c) == AddIndex(c) \/ AddIndexFails(c)
DeleteStep(c) == DeleteOne(c) \/ DeleteOneMisses(c)
                 \/ DeleteDocument(c) \/ DeleteDocumentFails(c)
SweepStep(c) == SweepEnd(c) \/ \E s \in Servers : SweepNext(c, s)

\* The next call a running handler makes.
Proceed(c) == \/ SearchStep(c) \/ UpdateStep(c) \/ AddStep(c) \/ DeleteStep(c)
              \/ SetPassword(c) \/ RemoveData(c) \/ SweepStep(c)

Start(c) == \/ SweepFind(c)
            \/ \E s \in Servers : AddInsert(c, s) \/ Find(c, s) \/ DeleteFind(c, s)

Next == \/ \E c \in Goroutines : Start(c) \/ Proceed(c)
        \/ \E s \in Servers : Age(s)
        \/ Refresh
        \/ Crash

Spec == Init /\ [][Next]_vars

-----------------------------------------------------------------------------
(* Properties.                                                             *)

Chronological(log) ==
  \A i, j \in DOMAIN log : i < j => log[i].time < log[j].time

\* DetailsServer walks a history assuming that it is sorted by time, although
\* every handler rewrites the whole array from a copy that may be outdated.  Every
\* version of every history, searchable or not, is in chronological order.
HistoriesChronological ==
  \A s \in Servers : Chronological(index[s]) /\ Chronological(searchable[s])

BeingAdded(s) == \E c \in Calls : pc[c] = "index" /\ srv[c] = s

\* ChangePassword, UpdateStatus and Export index the last element of a history
\* without looking whether there is one.  As long as no request to Elasticsearch
\* failed and the process did not exit, every server on record has a history,
\* except between the two writes of its own AddServer.
StoredHasHistory ==
  failed = {} =>
    \A s \in Servers : record[s] = "stored" /\ ~ BeingAdded(s) => index[s] # NoDocument

\* UpdateStatus marks an idle server once: however its passes and the requests
\* interleave, no history holds two "Invalid" in a row.
InvalidMarkedOnce ==
  \A s \in Servers : \A i \in DOMAIN index[s] :
    i > 1 /\ index[s][i].status = "Invalid" => index[s][i - 1].status # "Invalid"
=============================================================================
