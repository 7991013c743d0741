-------------------------------- MODULE Reports --------------------------------
(***************************************************************************)
(* Export: a spreadsheet with one row per server, written to a file, of     *)
(* which the client is given the link.  An export reads the list of servers *)
(* once and then the history of each with a request of its own, while other *)
(* handlers add, change and delete servers.  The name of its file comes     *)
(* from the time at which it began; the link is put together from variables *)
(* of the process's environment, which all exports share.                   *)
(*                                                                         *)
(* What the other handlers do is in ServerStatus.  Here a history is only a *)
(* version, the number of times it was written, which a search finds from   *)
(* the next refresh on.                                                     *)
(*                                                                         *)
(* The operators named Faulty... are not part of the model: each is the    *)
(* definition that follows it with a plausible mistake in the code, and its *)
(* comment names the property that the mistake would break.                *)
(***************************************************************************)
EXTENDS Naturals, FiniteSets

CONSTANTS
  Requests,    \* each makes one export after the other
  Servers,     \* 1..n, the newest last
  Pages,       \* the page numbers asked for, all with the same limit
  Limit,       \* limitpage
  Names,       \* the file names that the times of the exports come to
  MaxVersion,  \* bound: versions of a history
  Growing,     \* bound: the servers whose histories get more than one
  MaxLinks,    \* bound: this many links are still to be followed when an export begins
  Mishaps,     \* which of PossibleMishaps may happen
  MaxMishaps,  \* bound: this many kinds of them in one behaviour, sameName aside
  None         \* no value

PossibleMishaps ==
  {"overlap",   \* an export begins while another is being made
   "sameName",  \* an export has the name of an earlier one
   "young",     \* an export has a server of which no history was searchable yet
   "deleted",   \* a history is deleted while an export is being made
   "isError",   \* Elasticsearch answers a search with an error status
   "exit"}      \* the process is killed, or ends itself because a call failed

Failures == {"isError", "exit"}

Versions == 0..MaxVersion

\* A row of the spreadsheet.  In an empty one the status is 0.
Row == [id : Servers, status : Versions]
Sheet == SUBSET Row

ASSUME ConstantsOK ==
  /\ Servers = 1..Cardinality(Servers)
  /\ Pages \subseteq Nat \ {0}
  /\ {Limit, MaxVersion, MaxMishaps} \subseteq Nat \ {0}
  /\ MaxLinks \in Nat
  /\ None \notin Names
  /\ \A sheet \in Sheet : sheet # None
  /\ Growing \subseteq Servers
  /\ Mishaps \subseteq PossibleMishaps

VARIABLES
  record,    \* MongoDB: the servers on record
  indexed,   \* Elasticsearch: per server, the version that is written, or 0
  visible,   \* per server, the version a search finds, as of the last refresh, or 0
  latest,    \* history: per server, the last version that was ever written, or 0
  files,     \* per name, what the file of that name holds, or None
  filename,  \* the variable FILENAME of the environment, or None
  frame,     \* per request, where its export is, and its local variables
  panicked,  \* history: has an export ended the process by its index out of range
  mishaps    \* history: what has happened so far

stores == <<record, indexed, visible, latest>>
vars == <<stores, files, filename, frame, panicked, mishaps>>

Frame ==
  [pc : {"idle", "search", "save", "setenv", "expand", "done"},
   name : Names \cup {None},             \* date
   todo : SUBSET Servers,                \* what the cursor has left
   sheet : Sheet,
   oldest : [Servers -> Versions],       \* history: the oldest versions it may show
   link : Names \cup {None}]

Idle == [pc |-> "idle", name |-> None, todo |-> {}, sheet |-> {},
         oldest |-> [s \in Servers |-> 0], link |-> None]

TypeOK ==
  /\ record \subseteq Servers
  /\ {indexed, visible, latest} \subseteq [Servers -> Versions]
  /\ files \in [Names -> Sheet \cup {None}]
  /\ filename \in Names \cup {None}
  /\ frame \in [Requests -> Frame]
  /\ panicked \in BOOLEAN
  /\ mishaps \subseteq Mishaps

Init ==
  /\ record \in SUBSET Servers
  /\ indexed = [s \in Servers |-> IF s \in record THEN 1 ELSE 0]
  /\ visible = indexed
  /\ latest = indexed
  /\ files = [n \in Names |-> None]
  /\ filename = None
  /\ frame = [c \in Requests |-> Idle]
  /\ panicked = FALSE
  /\ mishaps = {}

-----------------------------------------------------------------------------

\* Bound: each kind of failure happens once.
Meet(ms) ==
  /\ ms \subseteq Mishaps \ (mishaps \cap Failures)
  /\ mishaps' = mishaps \cup ms
  /\ Cardinality(mishaps' \ {"sameName"}) <= MaxMishaps

At(c, label) == frame[c].pc = label
Goto(c, f) == frame' = [frame EXCEPT ![c] = f]

UnderWay == \E c \in Requests : frame[c].pc \notin {"idle", "done"}

\* The page of the servers on record, the newest first.
OnPage(page) ==
  {s \in record : LET before == Cardinality({t \in record : t > s})
                  IN  (page - 1) * Limit <= before /\ before < page * Limit}

-----------------------------------------------------------------------------
(* Export.                                                                 *)

\* LinksResolve: the sheet is not saved.
FaultyProceed(servers) == IF servers = {} THEN "setenv" ELSE "search"

\* Where an export goes on that has these servers left.
Proceed(servers) == IF servers = {} THEN "save" ELSE "search"

\* The version that a server on the list has when the export begins, or the one before it
\* if that one is not refreshed yet.
Oldest(s, selected) ==
  IF s \notin selected THEN 0
  ELSE IF visible[s] = indexed[s] THEN indexed[s] ELSE indexed[s] - 1

\* Name the file and find the servers, all or those of a page.
Export(c, selected) ==
  /\ frame[c] = Idle
  /\ Cardinality({d \in Requests : At(d, "done")}) <= MaxLinks
  /\ \E name \in Names :
       /\ Goto(c, [Idle EXCEPT !.pc = Proceed(selected),
                               !.name = name, !.todo = selected,
                               !.oldest = [s \in Servers |-> Oldest(s, selected)]])
       /\ Meet((IF UnderWay THEN {"overlap"} ELSE {})
             \cup (IF files[name] # None \/ \E d \in Requests : frame[d].name = name
                   THEN {"sameName"} ELSE {})
             \cup (IF \E s \in selected : visible[s] = 0 THEN {"young"} ELSE {}))
  /\ UNCHANGED <<stores, files, filename, panicked>>

AddRow(c, s, status) ==
  LET todo == frame[c].todo \ {s} IN
  Goto(c, [frame[c] EXCEPT !.pc = Proceed(todo),
                           !.todo = todo, !.sheet = @ \cup {[id |-> s, status |-> status]}])

\* The next server's last status, as of the last refresh.
Search(c, s) ==
  /\ At(c, "search")
  /\ s \in frame[c].todo
  /\ visible[s] # 0
  /\ AddRow(c, s, visible[s])
  /\ UNCHANGED <<stores, files, filename, panicked, mishaps>>

\* The row stays empty.
SearchIsError(c, s) ==
  /\ At(c, "search")
  /\ s \in frame[c].todo
  /\ Meet({"isError"})
  /\ AddRow(c, s, 0)
  /\ UNCHANGED <<stores, files, filename, panicked>>

Exit ==
  /\ frame' = [c \in Requests |-> Idle]
  /\ filename' = None
  /\ UNCHANGED <<stores, files>>

\* The last element of an empty history.
SearchPanics(c, s) ==
  /\ At(c, "search")
  /\ s \in frame[c].todo
  /\ visible[s] = 0
  /\ Exit
  /\ panicked' = TRUE
  /\ UNCHANGED mishaps

Save(c) ==
  /\ At(c, "save")
  /\ files' = [files EXCEPT ![frame[c].name] = frame[c].sheet]
  /\ Goto(c, [frame[c] EXCEPT !.pc = "setenv"])
  /\ UNCHANGED <<stores, filename, panicked, mishaps>>

\* OwnFile: FILENAME is set if it is not there yet.
FaultySetenv(c) ==
  /\ At(c, "setenv")
  /\ filename' = IF filename = None THEN frame[c].name ELSE filename
  /\ Goto(c, [frame[c] EXCEPT !.pc = "expand"])
  /\ UNCHANGED <<stores, files, panicked, mishaps>>

Setenv(c) ==
  /\ At(c, "setenv")
  /\ filename' = frame[c].name
  /\ Goto(c, [frame[c] EXCEPT !.pc = "expand"])
  /\ UNCHANGED <<stores, files, panicked, mishaps>>

\* The link names whatever FILENAME says now.
ExpandEnv(c) ==
  /\ At(c, "expand")
  /\ Goto(c, [frame[c] EXCEPT !.pc = "done", !.link = filename])
  /\ UNCHANGED <<stores, files, filename, panicked, mishaps>>

\* The client has followed its link.
Return(c) ==
  /\ At(c, "done")
  /\ Goto(c, Idle)
  /\ UNCHANGED <<stores, files, filename, panicked, mishaps>>

\* Killed, or a call of an export has failed.
Crash ==
  /\ Meet({"exit"})
  /\ Exit
  /\ UNCHANGED panicked

-----------------------------------------------------------------------------
(* The other handlers, and the refresh of what they write.                 *)

others == <<files, filename, frame, panicked>>

\* AddServer: InsertOne.  A record that is gone is not added again.
AddRecord(s) ==
  /\ s \notin record
  /\ latest[s] = 0
  /\ record' = record \cup {s}
  /\ UNCHANGED <<indexed, visible, latest, others, mishaps>>

Write(s) ==
  /\ latest[s] < IF s \in Growing THEN MaxVersion ELSE 1
  /\ latest' = [latest EXCEPT ![s] = @ + 1]
  /\ indexed' = [indexed EXCEPT ![s] = latest'[s]]
  /\ UNCHANGED <<record, visible, others, mishaps>>

\* AddServer: the first version of the history.
AddDocument(s) == s \in record /\ latest[s] = 0 /\ Write(s)

\* RowsTruthful: the document is written whichever version it is in.
FaultyUpdate(s) == indexed[s] # 0 /\ Write(s)

\* Connect and the like, perhaps of a record that is gone by now: the update finds the
\* document by a search of its own and conflicts with a version not refreshed yet.
Update(s) == indexed[s] # 0 /\ visible[s] = indexed[s] /\ Write(s)

\* What was written to a document, or that it was deleted, is seen by searches.
Refresh(s) ==
  /\ visible[s] # indexed[s]
  /\ visible' = [visible EXCEPT ![s] = indexed[s]]
  /\ UNCHANGED <<record, indexed, latest, others, mishaps>>

\* DeleteServer: the record.
DeleteRecord(s) ==
  /\ s \in record
  /\ latest[s] > 0
  /\ record' = record \ {s}
  /\ UNCHANGED <<indexed, visible, latest, others, mishaps>>

\* PanicExcused: the history goes first.
FaultyDeleteDocument(s) ==
  /\ s \in record
  /\ indexed[s] > 0
  /\ indexed' = [indexed EXCEPT ![s] = 0]
  /\ Meet(IF UnderWay THEN {"deleted"} ELSE {})
  /\ UNCHANGED <<record, visible, latest, others>>

\* DeleteServer: then the history.
DeleteDocument(s) ==
  /\ s \notin record
  /\ indexed[s] > 0
  /\ indexed' = [indexed EXCEPT ![s] = 0]
  /\ Meet(IF UnderWay THEN {"deleted"} ELSE {})
  /\ UNCHANGED <<record, visible, latest, others>>

-----------------------------------------------------------------------------

SheetStep(c) ==
  \/ \E s \in Servers : Search(c, s) \/ SearchIsError(c, s) \/ SearchPanics(c, s)
  \/ Save(c) \/ Setenv(c) \/ ExpandEnv(c) \/ Return(c)

Next ==
  \/ \E c \in Requests :
       \/ Export(c, record)
       \/ \E page \in Pages : Export(c, OnPage(page))
       \/ SheetStep(c)
  \/ \E s \in Servers :
       \/ AddRecord(s) \/ AddDocument(s) \/ Update(s)
       \/ Refresh(s) \/ DeleteRecord(s) \/ DeleteDocument(s)
  \/ Crash

Spec == Init /\ [][Next]_vars

-----------------------------------------------------------------------------
(* Properties.                                                             *)

\* A status in the spreadsheet is one that its server had at some time while the export
\* was made, or the one just before, if that of the moment at which the export began was
\* not refreshed yet.  It is never older, however many handlers succeed one another before a
\* refresh, because an update whose search does not find the last version conflicts with it.
RowsTruthful ==
  \A c \in Requests : \A r \in frame[c].sheet :
    r.status # 0 => frame[c].oldest[r.id] <= r.status /\ r.status <= latest[r.id]

\* Every link leads to a file, written in full before anybody could be given the link,
\* even where exports take each other's FILENAME, histories vanish and the process dies.
LinksResolve ==
  \A c \in Requests : At(c, "done") => frame[c].link # None /\ files[frame[c].link] # None

\* The link leads to what this export has put together, unless another export overlapped
\* and set FILENAME, or had the same name and wrote the same file.
OwnFile ==
  \A c \in Requests :
    At(c, "done") /\ mishaps \cap {"overlap", "sameName"} = {} =>
      files[frame[c].link] = frame[c].sheet

\* Export takes the last element of every history.  It finds one, in any order of the steps
\* of AddServer, DeleteServer and Export, unless a server is so new that its history could
\* not be searched when the export began, or one was deleted while it was made.
PanicExcused == panicked => mishaps \cap {"young", "deleted"} # {}
=============================================================================
