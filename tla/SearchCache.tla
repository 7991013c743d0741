----------------------------- MODULE SearchCache -----------------------------
(***************************************************************************)
(* Search, which finds the servers of which one field matches a pattern,   *)
(* and its cache.  A page of results is cached under two keys, its rows and *)
(* its total.  Both name the pattern and the page but not the field, and   *)
(* the key of the total appends "_total" to the pattern, so that it is also *)
(* the key of the rows of another pattern.                                 *)
(*                                                                         *)
(* ListingCache has the same helpers with every interleaving of two        *)
(* handlers and with the copies that processes keep.  Here the subject is  *)
(* what the keys confuse: handlers run one at a time, changes come at      *)
(* least a minute apart, so that no copy differs from Redis, and a handler *)
(* is one step, unless the process ends in the middle of it.               *)
(*                                                                         *)
(* The operators named Faulty... are not part of the model: each is the    *)
(* definition that follows it with a plausible mistake in the code, and its *)
(* comment names the property that the mistake would break.                *)
(***************************************************************************)
EXTENDS Integers, Sequences, FiniteSets, FiniteSetsExt

CONSTANTS
  Patterns,    \* the patterns searched for, each a sequence of words
  Total,       \* the word "total"
  Fields,      \* the fields that can be searched
  Pages,       \* the page numbers asked for, all with the same limit
  Limit,       \* limitpage
  Records,     \* bound: what records may hold, for each field the patterns it matches
  FirstBatch,  \* documents in the first batch of a MongoDB cursor (101)
  Servers,     \* 1..n, the newest last
  MaxVersion,  \* bound: versions of a status history
  MaxRows,     \* bound: no search that finds that many rows in the cache
  Mishaps,     \* which of PossibleMishaps may happen
  MaxMishaps,  \* bound: no more than this many kinds of them in one behaviour
  None         \* no value

PossibleMishaps ==
  {"historyless",  \* a row is made for a server of which no history is found
   "unrefreshed",  \* a row is made from a history written to after the last refresh
   "expiry",       \* an entry has been in Redis for an hour
   "redisError",   \* a call to Redis fails
   "storeError",   \* a call to MongoDB or Elasticsearch fails
   "exit"}         \* the process is killed, or ends itself

Failures == {"redisError", "storeError", "exit"}

ASSUME ConstantsOK ==
  /\ \A pattern \in Patterns : pattern \in Seq({pattern[i] : i \in DOMAIN pattern})
  /\ Pages \subseteq Nat \ {0}
  /\ {Limit, FirstBatch, MaxVersion, MaxRows, MaxMishaps} \subseteq Nat \ {0}
  /\ IsFiniteSet(Servers) /\ Servers = 1..Cardinality(Servers)
  /\ Records \subseteq [Fields -> SUBSET Patterns]
  /\ Mishaps \subseteq PossibleMishaps

VARIABLES
  record,    \* MongoDB: per server, the patterns that each field matches, or None
  added,     \* how many servers were ever added: the ids 1..added
  history,   \* Elasticsearch: per server, the version of its history, 0 without one
  visible,   \* the same as of the last refresh
  redis,     \* per key, the value in Redis or None
  older,     \* per key in Redis, those there that were Set before it, if entries may expire
  asked,     \* the patterns searched for so far
  answer,    \* the last answer of Search, None if something has changed since
  mishaps    \* what has happened so far that an answer may not survive unharmed

vars == <<record, added, history, visible, redis, older, asked, answer, mishaps>>

Versions == 0..MaxVersion
Row == [id : Servers, record : Records, status : Versions]
Answer == [pattern : Patterns, field : Fields, page : Pages, rows : Seq(Row), total : Nat]

Kinds == {"rows", "total"}

\* RowsMatch: the pattern is left out.
FaultyRowsKey(pattern, page) == <<"search", << >>, page>>

\* keySearch
RowsKey(pattern, page) == <<"search", pattern, page>>

\* keyTotal
TotalKey(pattern, page) == <<"search", Append(pattern, Total), page>>

Key(kind, pattern, page) ==
  IF kind = "rows" THEN RowsKey(pattern, page) ELSE TotalKey(pattern, page)

PageKeys == {Key(kind, pattern, page) : kind \in Kinds, pattern \in Patterns, page \in Pages}
KeyList(kind) == <<"keys", kind>>
Keys == PageKeys \cup {KeyList(kind) : kind \in Kinds}

\* A value of a page is tagged with what it is: rows, or a total.
Rows(rows) == <<"rows", rows>>
Number(total) == <<"total", total>>
PageValues == {"rows"} \X Seq(Row) \cup {"total"} \X Nat

\* A miss can be told from a value, and a server that is gone from a record.
ASSUME NoneIsNoValue ==
  /\ None \notin Records /\ None \notin PageValues /\ None \notin Nat /\ None \notin Seq(Row)
  /\ \A keys \in SUBSET PageKeys : keys # None

TypeOK ==
  /\ record \in [Servers -> Records \cup {None}]
  /\ added \in Servers \cup {0}
  /\ {history, visible} \subseteq [Servers -> Versions]
  /\ \A key \in PageKeys : redis[key] \in PageValues \cup {None}
  /\ \A kind \in Kinds : redis[KeyList(kind)] \in (SUBSET PageKeys) \cup {None}
  /\ older \in [Keys -> SUBSET Keys]
  /\ asked \subseteq Patterns
  /\ answer \in Answer \cup {None}
  /\ mishaps \subseteq Mishaps

Init ==
  /\ added \in Servers \cup {0}
  /\ record \in {r \in [Servers -> Records \cup {None}] :
                   \A s \in Servers : r[s] = None <=> s > added}
  /\ history = [s \in Servers |-> IF record[s] = None THEN 0 ELSE 1]
  /\ visible = history
  /\ redis = [key \in Keys |-> None]
  /\ older = [key \in Keys |-> {}]
  /\ asked = {}
  /\ answer = None
  /\ mishaps = {}

-----------------------------------------------------------------------------
(* What Search finds in the stores.                                        *)

\* A set of servers, newest first.
NewestFirst(servers) ==
  [i \in 1..Cardinality(servers) |->
     CHOOSE s \in servers : Cardinality({t \in servers : t >= s}) = i]

\* The servers that match.
Matching(pattern, field) ==
  NewestFirst({s \in Servers : record[s] # None /\ pattern \in record[s][field]})

OnPage(pattern, field, page) ==
  LET all == Matching(pattern, field)
  IN  SubSeq(all, (page - 1) * Limit + 1, Min({page * Limit, Len(all)}))

\* TypeOK: the index of the last document for their number.
FaultyTotalOf(pattern, field, page) == Min({Len(Matching(pattern, field)), FirstBatch}) - 1

\* The length of the cursor's first batch; beyond the last page, 0.
TotalOf(pattern, field, page) ==
  IF OnPage(pattern, field, page) = << >> THEN 0
  ELSE Min({Len(Matching(pattern, field)), FirstBatch})

\* StatusesOwn: the status of every row is that of the row above.
FaultyShown(ids, silent, i) == IF i = 1 THEN 0 ELSE visible[ids[i - 1]]

\* The status of row i: status is declared outside the loop, so that a row without a
\* history, or whose lookup is answered with an error (silent), has the status of the
\* last row above it that has one; 0 stands for the empty string.
Shown(ids, silent, i) ==
  LET known == {j \in 1..i : visible[ids[j]] # 0 /\ ids[j] \notin silent}
  IN  IF known = {} THEN 0 ELSE visible[ids[Max(known)]]

Found(ids, silent) ==
  [i \in DOMAIN ids |->
     [id |-> ids[i], record |-> record[ids[i]], status |-> Shown(ids, silent, i)]]

-----------------------------------------------------------------------------
(* The cache.                                                              *)

\* Bound: each kind of failure happens once.
Meet(ms) ==
  /\ ms \subseteq Mishaps \ (mishaps \cap Failures)
  /\ mishaps' = mishaps \cup ms
  /\ Cardinality(mishaps') <= MaxMishaps

\* GetValueCache(keySearch, &dt): a total cannot be decoded into rows, which is a miss.
RowsIn(value) == IF value # None /\ value[1] = "rows" THEN value[2] ELSE None

\* GetValueCache(keyTotal, &totalSer): rows cannot be decoded into a number, but no rows
\* are written as nil, which is decoded as 0.
TotalIn(value) ==
  CASE value # None /\ value[1] = "total"                     -> value[2]
    [] value # None /\ value[1] = "rows" /\ value[2] = << >>  -> 0
    [] OTHER                                                  -> None

\* The keys in a key list.
Named(kind) == IF redis[KeyList(kind)] = None THEN {} ELSE redis[KeyList(kind)]

\* Keys are deleted, or expire.
Delete(keys) ==
  /\ redis' = [key \in Keys |-> IF key \in keys THEN None ELSE redis[key]]
  /\ older' = [key \in Keys |-> IF key \in keys THEN {} ELSE older[key] \ keys]

\* The calls that Set one key each are numbered in their order, and those in done succeed.
Perform(keys, values, done) ==
  LET setBy(key) == {i \in done : keys[i] = key}
      others == {key \in Keys : setBy(key) = {} /\ redis[key] # None}
  IN  /\ redis' = [key \in Keys |-> IF setBy(key) = {} THEN redis[key]
                                    ELSE values[CHOOSE i \in setBy(key) : TRUE]]
      /\ older' = IF "expiry" \notin Mishaps THEN older
                  ELSE [key \in Keys |->
                          IF setBy(key) = {} THEN older[key] \cap others
                          ELSE others \cup {keys[i] : i \in {j \in done :
                                              \A k \in setBy(key) : j < k}}]

-----------------------------------------------------------------------------
(* Search.                                                                 *)

\* What can go wrong without ending the process: the Gets of values and of key lists
\* that fail, each a miss, the Sets of values that fail, which is ignored, and the servers
\* whose lookup is answered with an error status.
Fault == [unread : SUBSET Kinds, unlisted : SUBSET Kinds, unset : SUBSET Kinds,
          silent : SUBSET Servers]
NoFault == [unread |-> {}, unlisted |-> {}, unset |-> {}, silent |-> {}]

FaultMishaps(fault) ==
  (IF fault.silent # {} THEN {"storeError"} ELSE {})
    \cup (IF fault.unread \cup fault.unlisted \cup fault.unset # {} THEN {"redisError"} ELSE {})

\* Bound: one call of a search fails.
Faults ==
  {fault \in Fault :
    /\ Cardinality(fault.unread) + Cardinality(fault.unlisted) + Cardinality(fault.unset)
         + Cardinality(fault.silent) <= 1
    /\ FaultMishaps(fault) \subseteq Mishaps}

\* What the two Gets return.
CachedRows(pattern, page, fault) ==
  IF "rows" \in fault.unread THEN None ELSE RowsIn(redis[RowsKey(pattern, page)])
CachedTotal(pattern, page, fault) ==
  IF "total" \in fault.unread THEN None ELSE TotalIn(redis[TotalKey(pattern, page)])

\* The early return is not taken.  Rows that were found are kept nevertheless.
Misses(pattern, page, fault) ==
  None \in {CachedRows(pattern, page, fault), CachedTotal(pattern, page, fault)}

\* dt at the end of a search: what was found in the stores is appended.
Made(pattern, field, page, fault) ==
  LET cached == CachedRows(pattern, page, fault)
  IN  (IF cached = None THEN << >> ELSE cached) \o Found(OnPage(pattern, field, page), fault.silent)

\* The four calls that cache the page and then enter its keys in the key lists.
CallKeys(pattern, page) ==
  <<RowsKey(pattern, page), TotalKey(pattern, page), KeyList("rows"), KeyList("total")>>

CallValues(pattern, field, page, fault) ==
  LET Listed(kind) == IF kind \in fault.unlisted THEN {} ELSE Named(kind)
  IN  <<Rows(Made(pattern, field, page, fault)),
        Number(TotalOf(pattern, field, page)),
        Listed("rows") \cup {RowsKey(pattern, page)},
        Listed("total") \cup {TotalKey(pattern, page)}>>

\* Those that succeed, unless the process ends: a key list that cannot be set ends it.
Calls(fault) ==
  1..4 \ ((IF "rows" \in fault.unset THEN {1} ELSE {})
           \cup (IF "total" \in fault.unset THEN {2} ELSE {}))

Met(pattern, field, page, fault) ==
  LET ids == OnPage(pattern, field, page) IN
  FaultMishaps(fault)
    \cup (IF \E i \in DOMAIN ids : visible[ids[i]] = 0 THEN {"historyless"} ELSE {})
    \cup (IF \E i \in DOMAIN ids : visible[ids[i]] # history[ids[i]] THEN {"unrefreshed"} ELSE {})

\* The reply: with a total of 0 it has no rows, even if the repository returned some.
Answers(pattern, field, page, rows, total) ==
  /\ answer' = [pattern |-> pattern, field |-> field, page |-> page,
                rows |-> IF total = 0 THEN << >> ELSE rows, total |-> total]
  /\ asked' = asked \cup {pattern}

\* Both the rows and the total are in the cache.
SearchHits(pattern, field, page) ==
  /\ ~ Misses(pattern, page, NoFault)
  /\ Answers(pattern, field, page, CachedRows(pattern, page, NoFault),
             CachedTotal(pattern, page, NoFault))
  /\ UNCHANGED <<record, added, history, visible, redis, older, mishaps>>

SearchMisses(pattern, field, page, fault) ==
  /\ Misses(pattern, page, fault)
  /\ Meet(Met(pattern, field, page, fault))
  /\ Len(Made(pattern, field, page, fault)) <= MaxRows
  /\ Perform(CallKeys(pattern, page), CallValues(pattern, field, page, fault), Calls(fault))
  /\ Answers(pattern, field, page, Made(pattern, field, page, fault), TotalOf(pattern, field, page))
  /\ UNCHANGED <<record, added, history, visible>>

\* The process ends after n calls, because it is killed, because a search cannot be made
\* or because a key list cannot be set: there is no answer.
SearchExits(pattern, field, page, n) ==
  /\ Misses(pattern, page, NoFault)
  /\ Meet({"exit"} \cup Met(pattern, field, page, NoFault))
  /\ Len(Made(pattern, field, page, NoFault)) <= MaxRows
  /\ Perform(CallKeys(pattern, page), CallValues(pattern, field, page, NoFault), 1..n)
  /\ asked' = asked \cup {pattern}
  /\ UNCHANGED <<record, added, history, visible, answer>>

Search(pattern, field, page) ==
  \/ SearchHits(pattern, field, page)
  \/ \E fault \in Faults : SearchMisses(pattern, field, page, fault)
  \/ \E n \in 0..3 : SearchExits(pattern, field, page, n)

-----------------------------------------------------------------------------
(* The handlers that change what a search finds.  What they do to the      *)
(* stores is ServerStatus; here each makes its writes, then calls          *)
(* RemoveData or its four lines.                                           *)

\* AnswersAField, StatusesOwn: only the totals are dropped.
FaultyRemoveData == Delete(Named("total")) /\ UNCHANGED mishaps

\* RemoveListKeyCache of both lists: every key in them is deleted.  If Redis fails, or the
\* process ends or the handler returns first, only some are.
RemoveData ==
  LET named == Named("rows") \cup Named("total") IN
  \/ Delete(named) /\ UNCHANGED mishaps
  \/ \E m \in Failures, some \in SUBSET named : Meet({m}) /\ Delete(some)

\* The new server's document is not searchable yet, or, after a failure, never will be.
AddServer(s, r) ==
  /\ s = added + 1
  /\ added' = s
  /\ record' = [record EXCEPT ![s] = r]
  /\ history' = [history EXCEPT ![s] = 1]

UpdateServer(s, r) ==
  /\ record[s] # None
  /\ record' = [record EXCEPT ![s] = r]
  /\ UNCHANGED <<added, history>>

\* What may be left of its document, no search looks up.
DeleteServer(s) ==
  /\ record[s] # None
  /\ record' = [record EXCEPT ![s] = None]
  /\ history' = [history EXCEPT ![s] = 0]
  /\ UNCHANGED added

\* Connect, Disconnect or ChangePassword: nothing is written unless the current version
\* is searchable.
Connect(s) ==
  /\ record[s] # None
  /\ history[s] \in 1..(MaxVersion - 1)
  /\ history' = [history EXCEPT ![s] = IF visible[s] = @ THEN @ + 1 ELSE @]
  /\ UNCHANGED <<record, added>>

Change(s) ==
  /\ \/ \E r \in Records : AddServer(s, r) \/ UpdateServer(s, r)
     \/ DeleteServer(s)
     \/ Connect(s)
  /\ RemoveData
  /\ answer' = None
  /\ UNCHANGED <<visible, asked>>

-----------------------------------------------------------------------------
(* The environment.                                                        *)

Refresh ==
  /\ visible # history
  /\ visible' = history
  /\ UNCHANGED <<record, added, history, redis, older, asked, answer, mishaps>>

\* The oldest entry of Redis has been there for an hour.
Expire ==
  /\ "expiry" \in Mishaps
  /\ \E key \in Keys :
       /\ redis[key] # None
       /\ older[key] = {}
       /\ Delete({key})
  /\ Meet({"expiry"})
  /\ UNCHANGED <<record, added, history, visible, asked, answer>>

-----------------------------------------------------------------------------

Next ==
  \/ \E pattern \in Patterns, field \in Fields, page \in Pages : Search(pattern, field, page)
  \/ \E s \in Servers : Change(s)
  \/ Refresh
  \/ Expire

Spec == Init /\ [][Next]_vars

-----------------------------------------------------------------------------
(* Properties.                                                             *)

\* A pattern that is a search's and whose rows or total share a key with another's.
Collides(pattern) ==
  \E other \in asked : other = Append(pattern, Total) \/ pattern = Append(other, Total)

\* The keys of a search leave out the field.  Whatever fails, whichever keys coincide and
\* however entries expire, a row of an answer matched the pattern, in one field or the
\* other, when it was made.
RowsMatch ==
  answer # None =>
    \A i \in DOMAIN answer.rows :
      \E field \in Fields : answer.pattern \in answer.rows[i].record[field]

\* As long as neither Redis, nor a store, nor the process fails, the rows and the total of
\* an answer are together those of one search, as of now, for the pattern in the field
\* that was asked for or in another, unless another search was made of which the rows have
\* the same key as the total of this one, or the other way round.  In particular no answer
\* holds a server twice.
AnswersAField ==
  mishaps \subseteq {"historyless", "unrefreshed", "expiry"} /\ answer # None =>
    \/ Collides(answer.pattern)
    \/ \E field \in Fields :
         LET ids == OnPage(answer.pattern, field, answer.page) IN
         /\ [i \in DOMAIN answer.rows |-> answer.rows[i].id] = ids
         /\ \A i \in DOMAIN ids : answer.rows[i].record = record[ids[i]]
         /\ answer.total = TotalOf(answer.pattern, field, answer.page)

\* Search declares status outside its loop, so that a row can show the status of another.
\* If every server that was shown had a searchable history, up to date, and nothing
\* failed, every row shows its server's current status, even where keys coincide.
StatusesOwn ==
  mishaps \subseteq {"expiry"} /\ answer # None =>
    \A i \in DOMAIN answer.rows : answer.rows[i].status = history[answer.rows[i].id]
=============================================================================
