----------------------------- MODULE ListingCache -----------------------------
(***************************************************************************)
(* The cache-aside pagination of the server list: ServerRepositoryImpl.Index *)
(* with the helpers of redisCache.go, against the handlers that change what *)
(* the pages show and then call RemoveData (or its four lines) to drop the *)
(* cached pages.  Handlers run in one goroutine per request; every call to *)
(* a store or to the cache is an action.                                   *)
(*                                                                         *)
(* A page is cached under two keys, its rows and its total, and each kind  *)
(* of key has a key list, itself cached, that names the keys to delete.    *)
(* There are two cache clients on one Redis.  Both keep copies in the      *)
(* process for a minute.  The repositories' own client ("drive") reads     *)
(* pages and deletes them, and RemoveListKeyCache reads the key lists with *)
(* it; the global client writes everything, and SetKeyToListKeyCache reads *)
(* the key lists with that one.  Neither learns of what the other does.    *)
(*                                                                         *)
(* The cache library is external: a Get returns the copy or else Redis' value *)
(* and copies it, a Set writes the client's copy and Redis, a Delete clears *)
(* both, each in one step.  That a copy has been there for a minute shows  *)
(* when it is looked for: a Get may find it gone.  Redis keeps an entry for *)
(* an hour from its last Set, so entries expire in the order they were set. *)
(*                                                                         *)
(* The operators named Faulty... are not part of the model: each is the    *)
(* definition that follows it with a plausible mistake in the code, and its *)
(* comment names the property that the mistake would break.                *)
(***************************************************************************)
EXTENDS Integers, Sequences, SequencesExt, FiniteSetsExt, Functions

CONSTANTS
  Requests,    \* goroutines that serve requests
  Pages,       \* the page numbers asked for, all with the same limit
  Limit,       \* limitPage
  FirstBatch,  \* documents in the first batch of a MongoDB cursor (101)
  Initial,     \* servers on record when the process starts
  MaxStamp,    \* bound: this many changes give out a stamp
  MaxRows,     \* bound: no request for a page whose cached rows are that many
  Changes,     \* the handlers that change servers and are called: some of Writers
  Mishaps,     \* which of PossibleMishaps may happen
  MaxMishaps,  \* bound: no more than this many kinds of them in one behaviour
  None         \* no value

Writers == {"AddServer", "UpdateServer", "DeleteServer", "Connect", "ChangePassword"}

PossibleMishaps ==
  {"overlap",      \* an Index runs at the same time as any other request
   "hurry",        \* a change comes less than a minute after another one
   "unrefreshed",  \* a status is read that was written after the last refresh
   "expiry",       \* an entry has been in Redis for an hour
   "redisError",   \* a call to Redis fails
   "storeError",   \* a call to MongoDB or Elasticsearch fails
   "exit"}         \* the process is killed

Failures == {"redisError", "storeError", "exit"}

ASSUME ConstantsOK ==
  /\ Pages \subseteq Nat \ {0}
  /\ {Limit, FirstBatch} \subseteq Nat \ {0}
  /\ {Initial, MaxStamp, MaxRows, MaxMishaps} \subseteq Nat
  /\ Changes \subseteq Writers
  /\ Mishaps \subseteq PossibleMishaps

VARIABLES
  servers,   \* MongoDB: the records, newest first, with the stamp of the last change
  indexed,   \* Elasticsearch: per id, the stamp of its current status, 0 without document
  visible,   \* the same as of the last refresh, which is what a search finds
  stamp,     \* the last stamp given out: what a change writes carries its own
  redis,     \* per key, the value in Redis or None
  older,     \* per key in Redis, those there that were Set before it, if any may expire
  drive,     \* per key, the copy the repositories' client holds
  global,    \* per kind, the copy of its key list the global client holds
  frame,     \* per goroutine, where it is in its handler and its local variables
  mishaps,   \* history: what has happened that a cached page may not survive unharmed
  excused    \* history: pages that may stay outdated in the cache after a change

stores == <<servers, indexed, visible, stamp>>
caches == <<redis, older, drive, global>>
harm == <<mishaps, excused>>
vars == <<stores, caches, frame, harm>>

Kinds == {"rows", "total"}
Key(kind, p) == <<kind, p>>
ListKey(kind) == <<kind, 0>>
Keys == Kinds \X (Pages \cup {0})

Record == [id : Nat, attr : Nat]
Row == [id : Nat, attr : Nat, status : Nat]
Value(key) == IF key[2] = 0 THEN SUBSET Pages
              ELSE IF key[1] = "rows" THEN Seq(Row) ELSE Nat

\* No value of a key is None.
ASSUME NoneIsNoValue ==
  None \notin Nat /\ None \notin Seq(Row) /\ \A keys \in SUBSET Pages : keys # None

Frame == [pc : {"idle", "getRows", "getTotal", "find", "count", "status", "setRows",
                "setTotal", "getList", "setList", "reply", "commit", "readList", "delete"},
          op : Changes \cup {"none", "Index"},
          page : Pages \cup {0},   \* Index: the page
          rows : Seq(Row),         \* Index: dt
          hit : BOOLEAN,           \* Index: were the rows in the cache?
          found : Seq(Record),     \* Index: the records whose status is yet to be looked up
          total : Nat,             \* Index: totalSer
          target : Nat,            \* the others: the server they change
          mark : Nat,              \* the others: the stamp they write
          todo : Seq({"mongo", "elastic"}),  \* the others: the stores yet to be written
          kind : Kinds,            \* the key list at hand
          keys : SUBSET Pages]     \* its pages, as read

Idle == [pc |-> "idle", op |-> "none", page |-> 0, rows |-> << >>, hit |-> FALSE,
         found |-> << >>, total |-> 0, target |-> 0, mark |-> 0, todo |-> << >>,
         kind |-> "rows", keys |-> {}]

TypeOK ==
  /\ servers \in Seq(Record)
  /\ indexed \in [1..(Initial + MaxStamp) -> Nat]
  /\ visible \in [1..(Initial + MaxStamp) -> Nat]
  /\ stamp \in Nat
  /\ \A key \in Keys : {redis[key], drive[key]} \subseteq Value(key) \cup {None}
  /\ older \in [Keys -> SUBSET Keys]
  /\ global \in [Kinds -> (SUBSET Pages) \cup {None}]
  /\ frame \in [Requests -> Frame]
  /\ mishaps \subseteq Mishaps
  /\ excused \subseteq Pages

\* The process has been started on a database with Initial servers, all with a
\* history, and a Redis without any of the keys.
Init ==
  /\ servers = [i \in 1..Initial |-> [id |-> Initial + 1 - i, attr |-> Initial + 1 - i]]
  /\ indexed = [id \in 1..(Initial + MaxStamp) |-> IF id <= Initial THEN id ELSE 0]
  /\ visible = indexed
  /\ stamp = Initial
  /\ redis = [key \in Keys |-> None]
  /\ older = [key \in Keys |-> {}]
  /\ drive = [key \in Keys |-> None]
  /\ global = [kind \in Kinds |-> None]
  /\ frame = [c \in Requests |-> Idle]
  /\ mishaps = {}
  /\ excused = {}

-----------------------------------------------------------------------------
(* The cache.                                                              *)

\* What a Get may return: the copy, or what is in Redis if there is no copy any more.
Found(copy, key) == {redis[key]} \cup ({copy} \ {None})

\* MyRediscache.Get of the repositories' client: what it finds is its copy from now on.
Got(key, value) ==
  /\ drive' = [drive EXCEPT ![key] = value]
  /\ UNCHANGED <<redis, older, global>>

\* Entries may still get an hour old within the bound on mishaps.
MayExpire == "expiry" \in Mishaps /\ Cardinality(mishaps \cup {"expiry"}) <= MaxMishaps

\* The order of the entries without that of key.
Without(key) == [k \in Keys |-> IF k = key THEN {} ELSE older[k] \ {key}]

\* MyRediscache.Set of the global client.  Only its copies of key lists are ever read.
Set(key, value) ==
  /\ redis' = [redis EXCEPT ![key] = value]
  /\ older' = IF MayExpire
              THEN [Without(key) EXCEPT ![key] = {k \in Keys \ {key} : redis[k] # None}]
              ELSE [k \in Keys |-> {}]
  /\ global' = IF key[2] = 0 THEN [global EXCEPT ![key[1]] = value] ELSE global
  /\ UNCHANGED drive

\* WholePages: only totals are deleted.
FaultyDelete(key) ==
  /\ key[1] = "total" => redis' = [redis EXCEPT ![key] = None]
                        /\ drive' = [drive EXCEPT ![key] = None]
  /\ key[1] # "total" => UNCHANGED <<redis, drive>>
  /\ older' = Without(key)
  /\ UNCHANGED global

\* MyRediscache.Delete of the repositories' client.
Delete(key) ==
  /\ drive' = [drive EXCEPT ![key] = None]
  /\ redis' = [redis EXCEPT ![key] = None]
  /\ older' = Without(key)
  /\ UNCHANGED global

\* Something happens that a cached page may not survive unharmed.  Bound: each kind of
\* failure happens once; the properties that are about pages claim nothing after one of
\* Redis or of the process.
Happens(m) ==
  /\ m \in IF m \in Failures THEN Mishaps \ mishaps ELSE Mishaps
  /\ mishaps' = mishaps \cup {m}
  /\ Cardinality(mishaps') <= MaxMishaps
HappensIf(m, condition) == IF condition THEN Happens(m) ELSE UNCHANGED mishaps
Mishap(m) == Happens(m) /\ UNCHANGED excused

\* Pages are in the making, are made from old statuses or are not in a key list, and a
\* change may leave them behind.
Excuse(pages) == excused' = excused \cup pages

At(c, label) == frame[c].pc = label
Local(c, f) == frame' = [frame EXCEPT ![c] = f]
Goto(c, label) == Local(c, [frame[c] EXCEPT !.pc = label])
Return(c) == Local(c, Idle)

\* The process is gone: every goroutine, and the copies of the cache clients.
Exit ==
  /\ frame' = [c \in Requests |-> Idle]
  /\ drive' = [key \in Keys |-> None]
  /\ global' = [kind \in Kinds |-> None]
  /\ UNCHANGED <<redis, older>>

\* A request comes in.  It may overlap another one that is still running.
Begin(c, f) ==
  /\ frame[c] = Idle
  /\ Local(c, f)

Running(ops) == \E c \in Requests : frame[c].op \in ops

-----------------------------------------------------------------------------
(* Index.                                                                  *)

Records(p) ==
  SubSeq(servers, (p - 1) * Limit + 1, Min({p * Limit, Len(servers)}))

Index(c, p) ==
  /\ \A rows \in Found(drive[Key("rows", p)], Key("rows", p)) \ {None} : Len(rows) < MaxRows
  /\ Begin(c, [Idle EXCEPT !.pc = "getRows", !.op = "Index", !.page = p])
  /\ HappensIf("overlap", Running(Changes \cup {"Index"}))
  /\ Excuse(IF Running(Changes) THEN {p} ELSE {})
  /\ UNCHANGED <<stores, caches>>

\* data := GetValueCache(key, &dt); a failing Get is a miss.
GetRows(c) ==
  LET key == Key("rows", frame[c].page) IN
  /\ At(c, "getRows")
  /\ \/ \E rows \in Found(drive[key], key) :
          /\ Got(key, rows)
          /\ IF rows = None THEN Goto(c, "getTotal")
             ELSE Local(c, [frame[c] EXCEPT !.pc = "getTotal", !.rows = rows, !.hit = TRUE])
          /\ UNCHANGED harm
     \/ Mishap("redisError") /\ Goto(c, "getTotal") /\ UNCHANGED caches
  /\ UNCHANGED stores

\* totalSe := GetValueCache(keyTotal, &totalSer); the answer is the cached one only
\* if both were found.  Otherwise dt keeps the cached rows if there were any.
GetTotal(c) ==
  LET key == Key("total", frame[c].page)
      missed == [frame[c] EXCEPT !.pc = "find", !.hit = FALSE] IN
  /\ At(c, "getTotal")
  /\ \/ \E total \in Found(drive[key], key) :
          /\ Got(key, total)
          /\ Local(c, IF frame[c].hit /\ total # None
                      THEN [frame[c] EXCEPT !.pc = "reply", !.hit = FALSE, !.total = total]
                      ELSE missed)
          /\ UNCHANGED harm
     \/ Mishap("redisError") /\ Local(c, missed) /\ UNCHANGED caches
  /\ UNCHANGED stores

\* The records of the page.
Find(c) ==
  /\ At(c, "find")
  /\ Local(c, [frame[c] EXCEPT !.pc = "count", !.found = Records(frame[c].page)])
  /\ UNCHANGED <<stores, caches, harm>>

\* The total is the length of the first batch of a second cursor; beyond the last
\* page it is 0.
Count(c) ==
  /\ At(c, "count")
  /\ Local(c, IF frame[c].found = << >>
              THEN [frame[c] EXCEPT !.pc = "setRows", !.total = 0]
              ELSE [frame[c] EXCEPT !.pc = "status", !.total = Min({Len(servers), FirstBatch})])
  /\ UNCHANGED <<stores, caches, harm>>

\* The search for the status of the next record, and dt = append(dt, ...).
Status(c) ==
  LET next == Head(frame[c].found)
      row == [id |-> next.id, attr |-> next.attr, status |-> visible[next.id]] IN
  /\ At(c, "status")
  /\ Local(c, [frame[c] EXCEPT !.pc = IF Len(frame[c].found) = 1 THEN "setRows" ELSE "status",
                               !.rows = Append(@, row),
                               !.found = Tail(@)])
  /\ HappensIf("unrefreshed", visible[next.id] # indexed[next.id])
  /\ Excuse(IF visible[next.id] # indexed[next.id] THEN {frame[c].page} ELSE {})
  /\ UNCHANGED <<stores, caches>>

\* Find or Search fails: the error is returned, nothing is cached.
ReadFails(c) ==
  /\ \E label \in {"find", "count", "status"} : At(c, label)
  /\ Mishap("storeError")
  /\ Return(c)
  /\ UNCHANGED <<stores, caches>>

\* SetValueCache, twice; a failing Set is ignored.
SetRows(c) ==
  /\ At(c, "setRows")
  /\ \/ Set(Key("rows", frame[c].page), frame[c].rows) /\ UNCHANGED harm
     \/ Mishap("redisError") /\ UNCHANGED caches
  /\ Goto(c, "setTotal")
  /\ UNCHANGED stores

SetTotal(c) ==
  /\ At(c, "setTotal")
  /\ \/ Set(Key("total", frame[c].page), frame[c].total) /\ UNCHANGED harm
     \/ Mishap("redisError") /\ UNCHANGED caches
  /\ Goto(c, "getList")
  /\ UNCHANGED stores

\* SetKeyToListKeyCache, first half: MyRediscache.Get of the global client.  A
\* failing Get is a list without keys.
GetList(c) ==
  LET kind == frame[c].kind
      Read(list) == Local(c, [frame[c] EXCEPT !.pc = "setList",
                                             !.keys = IF list = None THEN {} ELSE list]) IN
  /\ At(c, "getList")
  /\ \/ \E list \in Found(global[kind], ListKey(kind)) :
          /\ Read(list)
          /\ global' = [global EXCEPT ![kind] = list]
          /\ UNCHANGED harm
     \/ Mishap("redisError") /\ Read(None) /\ UNCHANGED global
  /\ UNCHANGED <<stores, redis, older, drive>>

\* CachedPagesListed, AnswersCurrent: only the new key is written.
FaultyListed(keys, p) == {p}

\* TypeOK: the key of the page after it, which nobody may have asked for.
FaultyListedNext(keys, p) == keys \cup {p + 1}

\* The key is added unless it is there already.
Listed(keys, p) == keys \cup {p}

\* SetKeyToListKeyCache, second half, for the rows and then for the total.  A
\* failing Set is a panic.
SetList(c) ==
  LET kind == frame[c].kind IN
  /\ At(c, "setList")
  /\ Set(ListKey(kind), Listed(frame[c].keys, frame[c].page))
  /\ Local(c, IF kind = "rows" THEN [frame[c] EXCEPT !.pc = "getList", !.kind = "total", !.keys = {}]
              ELSE [frame[c] EXCEPT !.pc = "reply", !.kind = "rows", !.keys = {}])
  /\ UNCHANGED <<stores, harm>>

SetListPanics(c) ==
  /\ At(c, "setList")
  /\ Mishap("redisError")
  /\ Exit
  /\ UNCHANGED stores

\* The page is returned to the client.
Reply(c) ==
  /\ At(c, "reply")
  /\ Return(c)
  /\ UNCHANGED <<stores, caches, harm>>

-----------------------------------------------------------------------------
(* The handlers that change what a page shows.  What they do to the stores *)
(* is ServerStatus; here each is the writes it makes, then RemoveData.     *)

\* The stores a handler writes, in this order.
Writes(op) ==
  CASE op \in {"AddServer", "DeleteServer"} -> <<"mongo", "elastic">>
    [] op = "UpdateServer"                  -> <<"mongo">>
    [] op = "Connect"                       -> <<"elastic">>
    [] op = "ChangePassword"                -> <<"elastic", "mongo">>

\* A change comes in.  Either the copies of the key lists that earlier changes took are
\* a minute old and gone, or they are still in use.
Change(c, op, id) ==
  /\ op # "DeleteServer" => stamp < Initial + MaxStamp
  /\ IF op = "AddServer" THEN id = stamp + 1
     ELSE \E i \in DOMAIN servers : servers[i].id = id
  /\ stamp' = IF op = "DeleteServer" THEN stamp ELSE stamp + 1
  /\ Begin(c, [Idle EXCEPT !.pc = "commit", !.op = op, !.todo = Writes(op),
                           !.target = id, !.mark = stamp'])
  /\ IF Running({"Index"}) THEN Happens("overlap") /\ UNCHANGED drive
     ELSE \/ /\ UNCHANGED mishaps
             /\ drive' = [key \in Keys |-> IF key[2] = 0 THEN None ELSE drive[key]]
          \/ /\ \E kind \in Kinds : drive[ListKey(kind)] # None
             /\ Happens("hurry")
             /\ UNCHANGED drive
  /\ Excuse({frame[d].page : d \in {r \in Requests : frame[r].op = "Index"}})
  /\ UNCHANGED <<servers, indexed, visible, redis, older, global>>

\* InsertOne, UpdateOne or DeleteOne of a record that is there.
MongoWrites(op, id, mark) ==
  CASE op = "AddServer"    -> {<<[id |-> id, attr |-> mark]>> \o servers}
    [] op = "DeleteServer" -> {RemoveAt(servers, i) : i \in {j \in DOMAIN servers : servers[j].id = id}}
    [] OTHER -> {[i \in DOMAIN servers |->
                    IF servers[i].id = id THEN [servers[i] EXCEPT !.attr = mark] ELSE servers[i]]}

\* The index or delete request, or an update-by-query, which writes the document only
\* if its current version is searchable.  ChangePassword only writes an "Invalid" one.
ElasticWrites(op, id, mark) ==
  LET updated == IF visible[id] # 0 /\ visible[id] = indexed[id]
                 THEN [indexed EXCEPT ![id] = mark] ELSE indexed IN
  CASE op = "AddServer"      -> {[indexed EXCEPT ![id] = mark]}
    [] op = "DeleteServer"   -> {[indexed EXCEPT ![id] = 0]}
    [] op = "Connect"        -> {updated}
    [] op = "ChangePassword" -> {indexed, updated}

Write(f) ==
  \/ /\ Head(f.todo) = "mongo"
     /\ servers' \in MongoWrites(f.op, f.target, f.mark)
     /\ UNCHANGED <<indexed, visible, stamp>>
  \/ /\ Head(f.todo) = "elastic"
     /\ indexed' \in ElasticWrites(f.op, f.target, f.mark)
     /\ UNCHANGED <<servers, visible, stamp>>

\* OutdatedPagesExcused: only the totals are dropped from the cache.
FaultyAfterWrite(c) ==
  LET f == frame[c] IN
  Local(c, IF Len(f.todo) > 1 THEN [f EXCEPT !.todo = Tail(@)]
           ELSE [Idle EXCEPT !.pc = "readList", !.op = f.op, !.kind = "total"])

\* On to the next write, or to RemoveData.
AfterWrite(c) ==
  LET f == frame[c] IN
  Local(c, IF Len(f.todo) > 1 THEN [f EXCEPT !.todo = Tail(@)]
           ELSE [Idle EXCEPT !.pc = "readList", !.op = f.op, !.kind = "rows"])

Gone(id) == \A i \in DOMAIN servers : servers[i].id # id

\* DeletedCount is 0: somebody else deleted the server.
Misses(f) == f.op = "DeleteServer" /\ Head(f.todo) = "mongo" /\ Gone(f.target)

\* ChangePassword takes the last status of a history that its search has not found.
Panics(f) == f.op = "ChangePassword" /\ Head(f.todo) = "elastic" /\ visible[f.target] = 0

Commit(c) ==
  /\ At(c, "commit")
  /\ ~ Misses(frame[c]) /\ ~ Panics(frame[c])
  /\ Write(frame[c])
  /\ AfterWrite(c)
  /\ UNCHANGED <<caches, harm>>

CommitMisses(c) ==
  /\ At(c, "commit")
  /\ Misses(frame[c])
  /\ Return(c)
  /\ UNCHANGED <<stores, caches, harm>>

CommitPanics(c) ==
  /\ At(c, "commit")
  /\ Panics(frame[c])
  /\ Mishap("exit")
  /\ Exit
  /\ UNCHANGED stores

\* A write fails, before or after it took effect.  An error status of Elasticsearch is
\* not looked at, nor any error of AddServer's index request; otherwise the handler
\* returns, without RemoveData, or is fatal.
CommitFails(c) ==
  LET write == <<frame[c].op, Head(frame[c].todo)>> IN
  /\ At(c, "commit")
  /\ Mishap("storeError")
  /\ Write(frame[c]) \/ UNCHANGED stores
  /\ \/ write[2] = "elastic" /\ AfterWrite(c) /\ UNCHANGED caches
     \/ /\ write \in {<<"AddServer", "mongo">>, <<"UpdateServer", "mongo">>,
                      <<"ChangePassword", "mongo">>, <<"Connect", "elastic">>}
        /\ Return(c)
        /\ UNCHANGED caches
     \/ /\ write \in {<<"DeleteServer", "mongo">>, <<"DeleteServer", "elastic">>,
                      <<"ChangePassword", "elastic">>, <<"Connect", "elastic">>}
        /\ Exit

\* The pages with a value in the cache, of either kind.
Held == {p \in Pages : \E kind \in Kinds :
           Found(drive[Key(kind, p)], Key(kind, p)) # {None}}

\* RemoveListKeyCache, for the rows and then for the totals: the key list is read with
\* the repositories' client.  A failing Get is a list without keys.
ReadList(c) ==
  LET key == ListKey(frame[c].kind) IN
  /\ At(c, "readList")
  /\ \/ \E list \in Found(drive[key], key) :
          LET keys == IF list = None THEN {} ELSE list IN
          /\ Got(key, list)
          /\ Local(c, [frame[c] EXCEPT !.pc = "delete", !.keys = keys])
          /\ Excuse(Held \ keys)
          /\ UNCHANGED mishaps
     \/ Mishap("redisError") /\ Goto(c, "delete") /\ UNCHANGED caches
  /\ UNCHANGED stores

\* RemoveValueCache of one key; its error is not looked at.
DeleteKey(c, p) ==
  LET kind == frame[c].kind IN
  /\ At(c, "delete")
  /\ p \in frame[c].keys
  /\ Local(c, [frame[c] EXCEPT !.keys = @ \ {p}])
  /\ \/ Delete(Key(kind, p)) /\ UNCHANGED harm
     \/ /\ Mishap("redisError")
        /\ drive' = [drive EXCEPT ![Key(kind, p)] = None]
        /\ UNCHANGED <<redis, older, global>>
  /\ UNCHANGED stores

\* All keys of the list are deleted; the list itself stays.
ListDone(c) ==
  /\ At(c, "delete")
  /\ frame[c].keys = {}
  /\ IF frame[c].kind = "rows"
     THEN Local(c, [frame[c] EXCEPT !.pc = "readList", !.kind = "total"])
     ELSE Return(c)
  /\ UNCHANGED <<stores, caches, harm>>

-----------------------------------------------------------------------------
(* The environment.                                                        *)

\* The oldest entry of Redis has been there for an hour.  If it is a key list, the copy
\* that the global client took when it was set is gone long since.
Expire ==
  /\ \E key \in Keys :
       /\ redis[key] # None
       /\ older[key] = {}
       /\ redis' = [redis EXCEPT ![key] = None]
       /\ older' = Without(key)
       /\ global' = IF key[2] = 0 THEN [global EXCEPT ![key[1]] = None] ELSE global
  /\ Mishap("expiry")
  /\ UNCHANGED <<stores, drive, frame>>

\* Elasticsearch makes what was written searchable.
Refresh ==
  /\ visible' = indexed
  /\ UNCHANGED <<servers, indexed, stamp, caches, frame, harm>>

\* The process is killed and started again.
Crash ==
  /\ Mishap("exit")
  /\ Exit
  /\ UNCHANGED stores

-----------------------------------------------------------------------------

Start(c) ==
  \/ \E p \in Pages : Index(c, p)
  \/ \E op \in Changes, id \in 1..(stamp + 1) : Change(c, op, id)

IndexStep(c) ==
  \/ GetRows(c) \/ GetTotal(c)
  \/ Find(c) \/ Count(c) \/ Status(c) \/ ReadFails(c)
  \/ SetRows(c) \/ SetTotal(c)
  \/ GetList(c) \/ SetList(c) \/ SetListPanics(c)
  \/ Reply(c)

ChangeStep(c) ==
  \/ Commit(c) \/ CommitMisses(c) \/ CommitPanics(c) \/ CommitFails(c)
  \/ ReadList(c) \/ (\E p \in Pages : DeleteKey(c, p)) \/ ListDone(c)

Next ==
  \/ \E c \in Requests : Start(c) \/ IndexStep(c) \/ ChangeStep(c)
  \/ Expire \/ Refresh \/ Crash

Spec == Init /\ [][Next]_vars

-----------------------------------------------------------------------------
(* Properties.                                                             *)

\* What Index would answer without a cache and from a refreshed index.
CurrentRows(p) ==
  [i \in DOMAIN Records(p) |->
     [id |-> Records(p)[i].id, attr |-> Records(p)[i].attr, status |-> indexed[Records(p)[i].id]]]
CurrentTotal(p) == IF Records(p) = << >> THEN 0 ELSE Min({Len(servers), FirstBatch})

\* RemoveData finds the pages to delete in the key lists, which SetKeyToListKeyCache
\* extends by reading and writing them back.  As long as no Index overlaps another
\* request, the process does not exit and Redis answers, every cached page is named in the key list
\* of its kind, except while its own request is yet to enter it: expiry never takes a
\* list before its pages.
CachedPagesListed ==
  mishaps \cap {"overlap", "exit", "redisError"} = {} =>
    \A kind \in Kinds, p \in Pages :
      redis[Key(kind, p)] # None =>
        \/ redis[ListKey(kind)] # None /\ p \in redis[ListKey(kind)]
        \/ \E c \in Requests : frame[c].op = "Index" /\ frame[c].page = p

\* Every change drops the cached pages it may affect: as long as no Index
\* overlaps another request, changes come at least a minute apart, nothing was cached an hour ago,
\* Elasticsearch was refreshed when its statuses were read, and nothing failed, an
\* answer is exactly the page as it is.  (Once Redis drops a key list, a change no
\* longer reaches the copies of the pages that the process still holds.)
AnswersCurrent ==
  mishaps = {} =>
    \A c \in Requests : At(c, "reply") =>
      /\ frame[c].rows = CurrentRows(frame[c].page)
      /\ frame[c].total = CurrentTotal(frame[c].page)

Whole(rows) == IsInjective([i \in DOMAIN rows |-> rows[i].id])

\* A request that finds the rows but not the total appends the page to what it found,
\* and caches the result.  As long as no Index overlaps another request, changes come
\* at least a minute apart, nothing expires in Redis and Redis and the process do not
\* fail, that does not happen: no page ever holds a server twice.
WholePages ==
  mishaps \subseteq {"unrefreshed", "storeError"} =>
    /\ \A p \in Pages : redis[Key("rows", p)] # None => Whole(redis[Key("rows", p)])
    /\ \A c \in Requests : At(c, "reply") => Whole(frame[c].rows)

\* RemoveData works on what the key lists name and on nothing else, at a time when
\* pages may be in the making.  As long as the process, Redis and the stores do not
\* fail, a page that is cached although it is outdated was in the making while some
\* change ran, or was missing from a key list that some change read, or was made
\* from statuses not yet refreshed; Index requests that overlap each other, changes
\* that overlap each other or come in a hurry, and expiry do no other harm.
OutdatedPagesExcused ==
  /\ mishaps \cap {"exit", "redisError", "storeError"} = {}
  /\ ~ Running(Changes)
  => \A p \in Pages \ excused :
       /\ \A rows \in Found(drive[Key("rows", p)], Key("rows", p)) \ {None} :
            ToSet(rows) = ToSet(CurrentRows(p))
       /\ \A total \in Found(drive[Key("total", p)], Key("total", p)) \ {None} :
            total = CurrentTotal(p)
=============================================================================
