----------------------------- MODULE DetailsCache -----------------------------
(***************************************************************************)
(* The cache in front of DetailsServer, for one server: no two servers      *)
(* share a key.  The rows of each window of time are cached under a key of *)
(* their own and the current status of the server under another, and two   *)
(* key lists name the keys in use.  Only DeleteServer drops them: Connect, *)
(* Disconnect and the others that extend the history leave them alone.     *)
(* How the rows are made is DetailsWindow; here they are a window and the  *)
(* version of the history they were made from.                             *)
(*                                                                         *)
(* Handlers run in one goroutine per request; every call to a store or to  *)
(* the cache is an action.  There are two cache clients, as in ListingCache: *)
(* "drive" reads values and key lists and deletes keys, "global" writes    *)
(* everything and reads key lists to extend them, and each keeps copies in *)
(* the process for a minute.                                               *)
(*                                                                         *)
(* The operators named Faulty... are not part of the model: each is the    *)
(* definition that follows it with a plausible mistake in the code, and its *)
(* comment names the property that the mistake would break.                *)
(***************************************************************************)
EXTENDS Naturals, Sequences, SequencesExt, FiniteSets

CONSTANTS
  Requests,    \* goroutines that serve requests
  Windows,     \* the pairs of timeIn and timeOut asked for, each a sequence
  Malformed,   \* those of which a time cannot be parsed
  MaxVersion,  \* bound: versions of the history
  MaxParts,    \* bound: no request for a window whose cached rows were made that often
  Mishaps,     \* which of PossibleMishaps may happen
  MaxMishaps,  \* bound: this many kinds of them in one behaviour, expiry aside
  None         \* no value

PossibleMishaps ==
  {"overlap",      \* a DetailsServer or DeleteServer begins while another one runs
   "oldCopy",      \* a copy is read that is no longer what Redis holds
   "unrefreshed",  \* a history is read that was written to after the last refresh
   "expiry",       \* an entry has been in Redis for an hour
   "amid",         \* and that while a handler runs
   "redisError",   \* a call to Redis fails
   "storeError",   \* a call to MongoDB or Elasticsearch fails
   "exit"}         \* the process is killed, or ends itself

Failures == {"redisError", "storeError", "exit"}

ASSUME ConstantsOK ==
  /\ \A w \in Windows : w = [timeIn |-> w.timeIn, timeOut |-> w.timeOut]
  /\ Malformed \subseteq Windows
  /\ {MaxVersion, MaxParts, MaxMishaps} \subseteq Nat \ {0}
  /\ Mishaps \subseteq PossibleMishaps

\* The times that time.Parse accepts as they are.
ParsedTimes == UNION {{w.timeIn, w.timeOut} : w \in Windows \ Malformed}

\* A time begins with a year of four digits and a dash and has no other: of two that are
\* written one after the other one can tell where the second begins, if there is one.
ASSUME TimesReadable ==
  \A a, b, c, d \in ParsedTimes \cup {<< >>} :
    a \o b = c \o d =>
      \/ a = c /\ b = d
      \/ a = d /\ b = c /\ << >> \in {a, b}

VARIABLES
  stored,   \* is the server on record in MongoDB?
  history,  \* the version of its status history, 0 without one
  visible,  \* the same as of the last refresh, which is what a search finds
  redis,    \* per key, the value in Redis or None
  older,    \* per key in Redis, those there that were Set before it, if entries may expire
  drive,    \* per key, the copy the repositories' client holds
  global,   \* per kind, the copy of its key list the global client holds
  frame,    \* per goroutine, where it is in its handler and its local variables
  mishaps   \* what has happened so far that an answer may not survive unharmed

stores == <<stored, history, visible>>
caches == <<redis, older, drive, global>>
vars == <<stores, caches, frame, mishaps>>

Kinds == {"list", "status"}

\* AnswersWindowAsked: timeOut is left out.
FaultyKeyOf(w) == w.timeIn

\* timeIn+timeOut
KeyOf(w) == w.timeIn \o w.timeOut

ASSUME NoneIsNoKey == None \notin {KeyOf(w) : w \in Windows} \cup {<< >>}

ListSlot(w) == <<"list", KeyOf(w)>>
StatusSlot == <<"status", << >>>>
Slots == {ListSlot(w) : w \in Windows} \cup {StatusSlot}
KeyList(kind) == <<kind, None>>
Keys == Slots \cup {KeyList(kind) : kind \in Kinds}

Versions == 0..MaxVersion
ASSUME NoneIsNoValue == None \notin Versions /\ \A keys \in SUBSET Slots : keys # None

Part == [window : Windows, version : Versions]
Value(key) == IF key \in {KeyList(kind) : kind \in Kinds} THEN SUBSET Slots
              ELSE IF key = StatusSlot THEN Versions ELSE Seq(Part)

Frame == [pc : {"idle", "getList", "getStatus", "search", "setList", "setStatus", "readKeys",
                "writeKeys", "reply", "deleteOne", "deleteDoc", "findKeys", "drop"},
          op : {"none", "DetailsServer", "DeleteServer"},
          window : Windows \cup {None},
          list : Seq(Part),        \* statusList
          status : Versions,       \* statusServer
          hit : BOOLEAN,           \* was the list in the cache?
          read : Versions,         \* the version the search returned
          kind : Kinds,            \* the key list at hand
          keys : SUBSET Slots]     \* its keys, as read

Idle == [pc |-> "idle", op |-> "none", window |-> None, list |-> << >>, status |-> 0,
         hit |-> FALSE, read |-> 0, kind |-> "list", keys |-> {}]

TypeOK ==
  /\ stored \in BOOLEAN
  /\ {history, visible} \subseteq Versions
  /\ \A key \in Keys : {redis[key], drive[key]} \subseteq Value(key) \cup {None}
  /\ older \in [Keys -> SUBSET Keys]
  /\ global \in [Kinds -> (SUBSET Slots) \cup {None}]
  /\ frame \in [Requests -> Frame]
  /\ mishaps \subseteq Mishaps

\* The server has been added; its history may not be searchable yet.
Init ==
  /\ stored = TRUE
  /\ history = 1
  /\ visible \in {0, 1}
  /\ redis = [key \in Keys |-> None]
  /\ older = [key \in Keys |-> {}]
  /\ drive = [key \in Keys |-> None]
  /\ global = [kind \in Kinds |-> None]
  /\ frame = [c \in Requests |-> Idle]
  /\ mishaps = {}

-----------------------------------------------------------------------------
(* The cache, which is external.                                           *)

\* Bound: each kind of failure happens once.
Mishap(m) ==
  /\ m \in IF m \in Failures THEN Mishaps \ mishaps ELSE Mishaps
  /\ mishaps' = mishaps \cup {m}
  /\ Cardinality(mishaps' \ {"expiry", "amid"}) <= MaxMishaps
MishapIf(m, condition) == IF condition THEN Mishap(m) ELSE UNCHANGED mishaps

\* What a Get of the repositories' client returns: its copy, or else what is in Redis.
Found(key) == IF drive[key] # None THEN drive[key] ELSE redis[key]

\* The Get: what it finds is the client's copy from now on.
Get(key) ==
  /\ drive' = [drive EXCEPT ![key] = Found(key)]
  /\ MishapIf("oldCopy", Found(key) # redis[key])
  /\ UNCHANGED <<redis, older, global>>

\* The order of the entries without that of key.
Without(key) == [k \in Keys |-> IF k = key THEN {} ELSE older[k] \ {key}]

\* Settles: an entry without an expiration, which waits for itself.
FaultySet(key, value) ==
  /\ redis' = [redis EXCEPT ![key] = value]
  /\ older' = [older EXCEPT ![key] = {key}]
  /\ global' = IF key[2] = None THEN [global EXCEPT ![key[1]] = value] ELSE global
  /\ UNCHANGED drive

\* A Set of the global client.  Only its copies of key lists are ever read.
Set(key, value) ==
  /\ redis' = [redis EXCEPT ![key] = value]
  /\ older' = IF "expiry" \in Mishaps
              THEN [Without(key) EXCEPT ![key] = {k \in Keys \ {key} : redis[k] # None}]
              ELSE older
  /\ global' = IF key[2] = None THEN [global EXCEPT ![key[1]] = value] ELSE global
  /\ UNCHANGED drive

\* A Delete of the repositories' client.
Delete(key) ==
  /\ drive' = [drive EXCEPT ![key] = None]
  /\ redis' = [redis EXCEPT ![key] = None]
  /\ older' = Without(key)
  /\ UNCHANGED global

At(c, label) == frame[c].pc = label
Local(c, f) == frame' = [frame EXCEPT ![c] = f]
Goto(c, label) == Local(c, [frame[c] EXCEPT !.pc = label])
Return(c) == Local(c, Idle)

\* log.Fatal, a panic or a kill: every goroutine and every copy is gone.
Exit ==
  /\ frame' = [c \in Requests |-> Idle]
  /\ drive' = [key \in Keys |-> None]
  /\ global' = [kind \in Kinds |-> None]
  /\ UNCHANGED <<redis, older>>

Running == \E c \in Requests : frame[c] # Idle

Begin(c, f) ==
  /\ frame[c] = Idle
  /\ Local(c, f)
  /\ MishapIf("overlap", Running)
  /\ UNCHANGED <<stores, caches>>

-----------------------------------------------------------------------------
(* DetailsServer.                                                          *)

DetailsServer(c, w) ==
  /\ Found(ListSlot(w)) # None => Len(Found(ListSlot(w))) < MaxParts
  /\ Begin(c, [Idle EXCEPT !.pc = "getList", !.op = "DetailsServer", !.window = w])

\* dataList := GetValueCache(keyList, &statusList); a failing Get is a miss.
GetList(c) ==
  LET key == ListSlot(frame[c].window) IN
  /\ At(c, "getList")
  /\ \/ /\ Get(key)
        /\ IF Found(key) = None THEN Goto(c, "getStatus")
           ELSE Local(c, [frame[c] EXCEPT !.pc = "getStatus", !.list = Found(key), !.hit = TRUE])
     \/ Mishap("redisError") /\ Goto(c, "getStatus") /\ UNCHANGED caches
  /\ UNCHANGED stores

\* TypeOK: that nothing was found is not looked at.
FaultyAfterStatus(c, status) ==
  Local(c, [frame[c] EXCEPT !.pc = IF frame[c].hit THEN "reply" ELSE "search",
                            !.status = status, !.hit = FALSE])

\* AnsweredOnce: the early return is forgotten.
FaultyKeepsOn(c, status) ==
  Local(c, [frame[c] EXCEPT !.pc = "search",
                            !.status = IF status = None THEN 0 ELSE status,
                            !.hit = FALSE])

\* Both were found, or else the history is searched for; what was found stays.
AfterStatus(c, status) ==
  Local(c, [frame[c] EXCEPT !.pc = IF frame[c].hit /\ status # None THEN "reply" ELSE "search",
                            !.status = IF status = None THEN 0 ELSE status,
                            !.hit = FALSE])

\* dataStatus := GetValueCache(keyStatus, &statusServer)
GetStatus(c) ==
  /\ At(c, "getStatus")
  /\ \/ Get(StatusSlot) /\ AfterStatus(c, Found(StatusSlot))
     \/ Mishap("redisError") /\ AfterStatus(c, None) /\ UNCHANGED caches
  /\ UNCHANGED stores

\* statusList = append(statusList, ...), for the window and the history at hand.
Made(c) == Append(frame[c].list, [window |-> frame[c].window, version |-> visible])

\* The search, and the rows.
Search(c) ==
  /\ At(c, "search")
  /\ visible # 0
  /\ frame[c].window \notin Malformed
  /\ Local(c, [frame[c] EXCEPT !.pc = "setList", !.list = Made(c), !.read = visible])
  /\ MishapIf("unrefreshed", visible # history)
  /\ UNCHANGED <<stores, caches>>

\* "Idserver not found"
SearchFindsNothing(c) ==
  /\ At(c, "search")
  /\ visible = 0
  /\ Return(c)
  /\ UNCHANGED <<stores, caches, mishaps>>

\* A time that cannot be parsed is fatal.
SearchExits(c) ==
  /\ At(c, "search")
  /\ visible # 0
  /\ frame[c].window \in Malformed
  /\ Mishap("exit")
  /\ Exit
  /\ UNCHANGED stores

\* An error status: the answer is whatever the cache returned, and is not cached.  No
\* answer is fatal.
SearchFails(c) ==
  /\ At(c, "search")
  /\ Mishap("storeError")
  /\ \/ Goto(c, "reply") /\ UNCHANGED caches
     \/ Exit
  /\ UNCHANGED stores

\* SetValueCache(keyList, statusList)
SetList(c) ==
  /\ At(c, "setList")
  /\ Set(ListSlot(frame[c].window), frame[c].list)
  /\ Goto(c, "setStatus")
  /\ UNCHANGED <<stores, mishaps>>

\* StatusNotOlder: the status that was found is kept.
FaultySetStatus(c) ==
  LET status == IF frame[c].status # 0 THEN frame[c].status ELSE frame[c].read IN
  /\ At(c, "setStatus")
  /\ Set(StatusSlot, status)
  /\ Local(c, [frame[c] EXCEPT !.pc = "readKeys", !.status = status, !.read = 0])
  /\ UNCHANGED <<stores, mishaps>>

\* statusServer = ...; SetValueCache(keyStatus, statusServer)
SetStatus(c) ==
  /\ At(c, "setStatus")
  /\ Set(StatusSlot, frame[c].read)
  /\ Local(c, [frame[c] EXCEPT !.pc = "readKeys", !.status = frame[c].read, !.read = 0])
  /\ UNCHANGED <<stores, mishaps>>

\* SetKeyToListKeyCache, first half: a Get of the global client.  A failing Get is a
\* list without keys.
ReadKeys(c) ==
  LET kind == frame[c].kind
      list == IF global[kind] # None THEN global[kind] ELSE redis[KeyList(kind)]
      Read(keys) == Local(c, [frame[c] EXCEPT !.pc = "writeKeys",
                                             !.keys = IF keys = None THEN {} ELSE keys]) IN
  /\ At(c, "readKeys")
  /\ \/ Read(list) /\ global' = [global EXCEPT ![kind] = list] /\ UNCHANGED mishaps
     \/ Mishap("redisError") /\ Read(None) /\ UNCHANGED global
  /\ UNCHANGED <<stores, redis, older, drive>>

\* Second half, for the list and then for the status.
WriteKeys(c) ==
  LET kind == frame[c].kind
      slot == IF kind = "list" THEN ListSlot(frame[c].window) ELSE StatusSlot IN
  /\ At(c, "writeKeys")
  /\ Set(KeyList(kind), frame[c].keys \cup {slot})
  /\ Local(c, [frame[c] EXCEPT !.pc = IF kind = "list" THEN "readKeys" ELSE "reply",
                               !.kind = IF kind = "list" THEN "status" ELSE "list",
                               !.keys = {}])
  /\ UNCHANGED <<stores, mishaps>>

\* A failing Set is a panic, here as in SetList and SetStatus.
SetPanics(c) ==
  /\ \E label \in {"setList", "setStatus", "writeKeys"} : At(c, label)
  /\ Mishap("redisError")
  /\ Exit
  /\ UNCHANGED stores

Reply(c) ==
  /\ At(c, "reply")
  /\ Return(c)
  /\ UNCHANGED <<stores, caches, mishaps>>

-----------------------------------------------------------------------------
(* DeleteServer.                                                           *)

\* FindOne finds the record.
DeleteServer(c) ==
  /\ stored
  /\ Begin(c, [Idle EXCEPT !.pc = "deleteOne", !.op = "DeleteServer"])

DeleteOne(c) ==
  /\ At(c, "deleteOne")
  /\ IF stored THEN Goto(c, "deleteDoc") ELSE Return(c)
  /\ stored' = FALSE
  /\ UNCHANGED <<history, visible, caches, mishaps>>

DeleteDoc(c) ==
  /\ At(c, "deleteDoc")
  /\ history' = 0
  /\ Goto(c, "findKeys")
  /\ UNCHANGED <<stored, visible, caches, mishaps>>

\* No answer is fatal, whether or not the deletion took effect.  An error status of
\* Elasticsearch is not looked at.
DeleteFails(c) ==
  /\ Mishap("storeError")
  /\ \/ /\ At(c, "deleteOne")
        /\ stored' \in {stored, FALSE}
        /\ Exit
        /\ UNCHANGED history
     \/ /\ At(c, "deleteDoc")
        /\ history' \in {history, 0}
        /\ Exit
        /\ UNCHANGED stored
     \/ /\ At(c, "deleteDoc")
        /\ Goto(c, "findKeys")
        /\ UNCHANGED <<stored, history, caches>>
  /\ UNCHANGED visible

\* RemoveListKeyCache, for the lists and then for the status: the key list is read with
\* the repositories' client.
FindKeys(c) ==
  LET key == KeyList(frame[c].kind)
      Read(keys) == Local(c, [frame[c] EXCEPT !.pc = "drop",
                                             !.keys = IF keys = None THEN {} ELSE keys]) IN
  /\ At(c, "findKeys")
  /\ \/ Get(key) /\ Read(Found(key))
     \/ Mishap("redisError") /\ Read(None) /\ UNCHANGED caches
  /\ UNCHANGED stores

\* RemoveValueCache of one key; its error is not looked at.
Drop(c, slot) ==
  /\ At(c, "drop")
  /\ slot \in frame[c].keys
  /\ Local(c, [frame[c] EXCEPT !.keys = @ \ {slot}])
  /\ \/ Delete(slot) /\ UNCHANGED mishaps
     \/ /\ Mishap("redisError")
        /\ drive' = [drive EXCEPT ![slot] = None]
        /\ UNCHANGED <<redis, older, global>>
  /\ UNCHANGED stores

\* DeletedForgotten: the key of the status is left alone.
FaultyDropDone(c) ==
  /\ At(c, "drop")
  /\ frame[c].keys = {}
  /\ Return(c)
  /\ UNCHANGED <<stores, caches, mishaps>>

\* On to the other list, or to the other caches, which are not part of this module.
DropDone(c) ==
  /\ At(c, "drop")
  /\ frame[c].keys = {}
  /\ IF frame[c].kind = "list"
     THEN Local(c, [frame[c] EXCEPT !.pc = "findKeys", !.kind = "status"])
     ELSE Return(c)
  /\ UNCHANGED <<stores, caches, mishaps>>

-----------------------------------------------------------------------------
(* The environment.                                                        *)

\* Connect, Disconnect, ChangePassword or UpdateStatus writes to the history of a
\* searchable document, and drops no key of this module.
Extend ==
  /\ history \in 1..(MaxVersion - 1)
  /\ visible = history
  /\ history' = history + 1
  /\ UNCHANGED <<stored, visible, caches, frame, mishaps>>

Refresh ==
  /\ visible' = history
  /\ UNCHANGED <<stored, history, caches, frame, mishaps>>

\* The oldest entry of Redis has been there for an hour; the copy that the global client
\* took when it was set is gone long since.
Expire ==
  /\ \E key \in Keys :
       /\ redis[key] # None
       /\ older[key] = {}
       /\ redis' = [redis EXCEPT ![key] = None]
       /\ older' = Without(key)
       /\ global' = IF key[2] = None THEN [global EXCEPT ![key[1]] = None] ELSE global
  /\ "expiry" \in Mishaps
  /\ Running => "amid" \in Mishaps
  /\ mishaps' = mishaps \cup {"expiry"} \cup (IF Running THEN {"amid"} ELSE {})
  /\ UNCHANGED <<stores, drive, frame>>

\* A copy has been in the process for a minute.
Forget(key) ==
  /\ drive[key] # None
  /\ drive' = [drive EXCEPT ![key] = None]
  /\ UNCHANGED <<stores, redis, older, global, frame, mishaps>>

ForgetKeys(kind) ==
  /\ global[kind] # None
  /\ global' = [global EXCEPT ![kind] = None]
  /\ UNCHANGED <<stores, redis, older, drive, frame, mishaps>>

Crash ==
  /\ Mishap("exit")
  /\ Exit
  /\ UNCHANGED stores

-----------------------------------------------------------------------------

DetailsStep(c) ==
  \/ GetList(c) \/ GetStatus(c)
  \/ Search(c) \/ SearchFindsNothing(c) \/ SearchExits(c) \/ SearchFails(c)
  \/ SetList(c) \/ SetStatus(c) \/ ReadKeys(c) \/ WriteKeys(c) \/ SetPanics(c)
  \/ Reply(c)

DeleteStep(c) ==
  \/ DeleteOne(c) \/ DeleteDoc(c) \/ DeleteFails(c)
  \/ FindKeys(c) \/ (\E slot \in Slots : Drop(c, slot)) \/ DropDone(c)

Next ==
  \/ \E c \in Requests :
       \/ \E w \in Windows : DetailsServer(c, w)
       \/ DeleteServer(c)
       \/ DetailsStep(c) \/ DeleteStep(c)
  \/ Extend \/ Refresh \/ Expire \/ Crash
  \/ \E key \in Keys : Forget(key)
  \/ \E kind \in Kinds : ForgetKeys(kind)

Spec == Init /\ [][Next]_vars

\* Elasticsearch refreshes, entries of Redis expire and copies of values are forgotten in
\* time.  No handler needs to be scheduled.
Fairness ==
  /\ WF_vars(Refresh)
  /\ WF_vars(Expire)
  /\ \A slot \in Slots : WF_vars(Forget(slot))

FairSpec == Spec /\ Fairness

-----------------------------------------------------------------------------
(* Properties.                                                             *)

\* The key of a list joins timeIn and timeOut without a separator, and it is read before
\* the times are.  Whatever fails or expires, an answer was made for the window asked for
\* or the one that has its only bound at the other end, or else for one that reads the
\* same when the window asked for should not have been accepted.
AnswersWindowAsked ==
  \A c \in Requests : At(c, "reply") =>
    \A i \in DOMAIN frame[c].list :
      LET asked == frame[c].window
          made == frame[c].list[i].window IN
      /\ made \notin Malformed
      /\ \/ made = asked
         \/ /\ made.timeIn = asked.timeOut /\ made.timeOut = asked.timeIn
            /\ << >> \in {made.timeIn, made.timeOut}
         \/ /\ asked \in Malformed
            /\ made.timeIn \o made.timeOut = asked.timeIn \o asked.timeOut

\* The list and the status of an answer are cached under two keys, and most requests
\* find or miss them at different times.  As long as no two handlers overlap, no copy
\* is out of date, no entry expires between two calls of one request, and neither the
\* process nor Redis fails, the status is at least as recent as every row of the list.
StatusNotOlder ==
  mishaps \cap {"overlap", "oldCopy", "amid", "redisError", "exit"} = {} =>
    \A c \in Requests : At(c, "reply") =>
      \A i \in DOMAIN frame[c].list : frame[c].list[i].version <= frame[c].status

\* A request that finds the list but not the status appends the rows to those it has
\* found, and caches the result.  Under the same conditions that does not happen.
AnsweredOnce ==
  mishaps \cap {"overlap", "oldCopy", "amid", "redisError", "exit"} = {} =>
    \A c \in Requests : Len(frame[c].list) <= 1

\* DeleteServer finds the keys to drop in the two key lists.  As long as no handlers
\* overlap, no search finds an outdated history and nothing fails, Redis holds nothing
\* of a server that was deleted, even if key lists were extended from old copies or
\* entries expired.  (A search between the deletion and the next refresh still finds
\* the history, and what it caches stays for an hour.)
DeletedForgotten ==
  /\ mishaps \cap {"overlap", "unrefreshed", "redisError", "storeError", "exit"} = {}
  /\ ~ stored
  /\ ~ Running
  => \A slot \in Slots : redis[slot] = None

\* The history that an answer from this cached value would be about.
VersionOf(slot, value) == IF slot = StatusSlot THEN value ELSE Last(value).version

\* Connect, Disconnect and the others drop no key of this cache, and handlers, failures
\* and crashes may leave outdated values behind: none of them lasts.  Once the history
\* no longer changes, what is served is, from some time on, made from it, or, if it was
\* deleted, nothing.
Settles ==
  <>[](\A slot \in Slots : Found(slot) # None => VersionOf(slot, Found(slot)) = history)
=============================================================================
