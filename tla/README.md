# A verification project for the server management service

The repository is a Go service that keeps a list of servers, records when each
was switched on and off, and serves this through gRPC and, over a gateway, HTTP.
This directory holds TLA+ modules of its core logic, configurations that check
them with TLC on small instances, and proofs that TLAPS checks for instances of
any size.

- [1. The system](#1-the-system)
- [2. The modules and the code](#2-the-modules-and-the-code)
- [3. What is checked](#3-what-is-checked)
- [4. What is proved](#4-what-is-proved)
- [5. What is left out](#5-what-is-left-out)
- [6. Plan](#6-plan)

## 1. The system

| Component | Code | State | Operations |
|---|---|---|---|
| server records | `server_repo_impl.go`, collection in MongoDB | one record per server: name, credentials, address, `created_at`, `updated_at` | AddServer, UpdateServer, DeleteServer, ChangePassword |
| status histories | the same and `operation_repo_impl.go`, index in Elasticsearch | one document per server: `changeStatus`, the list of its statuses with their times | created by AddServer, rewritten by Connect, Disconnect, ChangePassword and UpdateStatus, deleted by DeleteServer |
| cached server list | `Index`, `RemoveData`, `redisCache.go` | per page and limit, the rows and the total; per kind of key, a list of the keys in use | Index fills, every change drops |
| server details | `DetailsServer` | cached histories per time window | DetailsServer fills, DeleteServer drops |
| search | `Search` | cached result pages | Search fills, every change drops |
| name check | `CheckServerName` | cached answers per name | CheckServerName fills, DeleteServer drops one |
| accounts | `user_repo_impl.go` | users in MongoDB, a token per login in Redis | Login, Logout, AddUser, ChangeActionUser, UpdateUser, ChangePassUser, DeleteUser, getters |
| access control | `auth_interceptor.go`, `jwt_repo_impl.go`, `serverGrpc.go` | none: a signed token carries role and actions for 30 minutes | authorize before each call |
| reports | `Export`, `SendMail` | the list of recipients of the mail loop | a spreadsheet on request, a mail a day |
| service layer | `server/server.go` | none | one method per call, around one repository method |
| front end | `main.go`, `client/client.go` | one listener | cmux gives HTTP/2 to gRPC and HTTP/1 to the gateway; starts over when all have ended |

gRPC runs each request in a goroutine of its own. Requests interact only
through the three stores: no handler takes a lock, no transaction spans two
calls. A panic or `log.Fatal` in one handler ends the process and all others.

The cache exists twice in the process. `global.MyRediscache` (created by
`global/init.go`) is used for every Set and by SetKeyToListKeyCache to read key
lists; the repositories' own client (`drive.ConnectRedis`) is used to read and
delete values and by RemoveListKeyCache to read key lists. Each has its own
local copies, kept for a minute, in front of the same Redis, where entries live
for an hour.

**What is hard, and what makes each component correct.**

- *Records and histories.* The handlers read a history with a search, which
  answers from the last refresh of the index, and write the whole array back
  with an update-by-query, whose version conflicts nobody looks at. Correct: a
  version of a history is always an earlier one extended by one later entry,
  never an invented or reordered one (entries can be lost); a record has its
  history, because three handlers panic on a record without one; an idle server
  is marked Invalid once; a deleted history does not come back.
- *Cached list.* Filling a page takes five calls to the cache and several to the
  stores, dropping it takes two per kind and one per page; either may interleave
  with anything, read a list through an outdated local copy, or be cut short.
  Correct: an answer is the current page unless one of a few named things
  happened while it was cached.
- *Details, search, name check.* The same pattern with weaker keys and fewer
  invalidations. Correct: an answer belongs to the question that was asked.
- *Accounts and access.* Decisions are made on a token that outlives the record
  it was made from. Correct: nobody gets more than some record of theirs
  granted, at the latest one token lifetime ago.
- *Reports.* Correct: every server appears once, with a status of its own that it
  had while the report was made, or the one just before if that was not refreshed
  yet, and only administrators of that day are mailed.

## 2. The modules and the code

### ServerStatus

One action per call that a handler makes to MongoDB or Elasticsearch, for
AddServer, DeleteServer, ChangePassword (`server_repo_impl.go`), Connect and
Disconnect (`operation_repo_impl.go`), and UpdateStatus, which `serverGrpc.Run`
has commented out and which the constant `Sweepers` switches on.

| State | Code |
|---|---|
| `record[s]`, `aged[s]` | the record of `s` in MongoDB; is its `updated_at` older than 60 days |
| `index[s]` | `changeStatus` of its document as written; empty if there is none |
| `searchable[s]` | what a search returns: the same as of the last refresh |
| `clock` | `time.Now()`, which advances with each time stamp that goes into a history |
| `pc`, `op`, `srv`, `body`, `batch` | a goroutine: the call it makes next, its handler, its server, the array it is about to write, and the records an UpdateStatus pass has left |
| `failed` | history: has a request failed, has the process exited |

`AddInsert`, `AddIndex` and `RemoveData` are AddServer; `DeleteFind`, `DeleteOne`
and `DeleteDocument` are DeleteServer; `Find`, `Search` and `Update` are the
common shape of Connect, Disconnect and ChangePassword, which `NewStatus`,
`Appends` and `AfterUpdate` tell apart; `SetPassword` ends ChangePassword;
`SweepFind` and `SweepNext` lead UpdateStatus to the same `Search` and `Update`.
The variants `...Fails`, `...IsError`, `...Misses` and `...Panics` are the error
paths. A request whose connection is lost may or may not have taken effect.
`Exit` is any end of the process: all goroutines are gone, the stores stay.

Elasticsearch is external. `UpdateByQuery` is modelled by what the code gets
from it: the document is written if the search inside the request finds it in
its current version, and otherwise left alone (no hit, or a conflict). Two
versions never end with the same time stamp, so contents stand for versions;
clocks that stand still or run backwards are not modelled.

`StatusDocument` is the abstract specification of one document: created once
with a single Off, then each time an earlier version (or the empty one) plus one
later entry, then gone for good. `ServerStatusHistory` adds three history
variables (`versions`, the histories a document has held; `overtaken`, the servers
deleted before their AddServer was done; `disturbed`, the handlers whose success
another handler or a late refresh may have made untrue) and, through
`Document(s) == INSTANCE StatusDocument WITH ...`, states that `ServerStatus`
implements it for every server. The phase of a document is read off the two
stores and off an AddServer on its way.

### ListingCache

Index with every call it makes, and the handlers that change what a page shows,
reduced to the writes they make (each handler in `ServerStatus` makes these and
others) followed by RemoveData with every call it makes. `Connect` stands for
Disconnect too: both write one entry to a history.

| State | Code |
|---|---|
| `servers` | the records, newest first; each change leaves its own stamp |
| `indexed`, `visible` | the current status of each server in Elasticsearch, as written and as of the last refresh |
| `redis`, `older` | the entries in Redis; for each, those that were Set before it, while expiry is considered |
| `drive`, `global` | the local copies of the two cache clients. Of the global client only key lists are ever read, so only these are kept |
| `frame` | a goroutine: its place in its handler and its local variables |
| `mishaps` | history: which of the named mishaps have happened |
| `excused` | history: the pages that some change may have left behind |

`GetRows`, `GetTotal`, `Find`, `Count`, `Status`, `SetRows`, `SetTotal`, and
`GetList`, `SetList` for each kind of key, then `Reply` are Index. `Change`,
`Commit`, then `ReadList`, `DeleteKey`, `ListDone` for each kind are a change.

The cache library is external: a Get returns the local copy or else the value
in Redis, of which it keeps a copy; a Set writes copy and Redis; a Delete clears
both. That a copy is a minute old shows when it is looked for (`Found`): a Get
may find it gone at any time. A change finds the copies of key lists gone unless
another change took them less than a minute before ("hurry").

Abstractions: all pages have one limit; a row is an id, the stamp of its record
and the stamp of its status; key lists are sets, deleted in any order; the key
lists of search results, which RemoveData clears first, are not part of the
module; `FirstBatch = 1` stands for the 101 documents of a cursor's first batch
and makes the cap on the total bite.

What may go wrong is named by `PossibleMishaps`, and the constant `Mishaps`
picks what a run allows, `MaxMishaps` how many kinds of them one behaviour may
have (a failure of each kind happens once): an Index that runs at the same time as another request,
changes less than a minute apart, a status read before the refresh, an hour
passing in Redis, Redis failing, a store failing, the process dying. Each
property says which of them it survives.

### DetailsWindow and DetailsCache

`DetailsWindow` is the computation inside DetailsServer
(`server_repo_impl.go:297-356`): `ChooseStart` and `ChooseEnd` cut the window
that is asked for to the history and to now, each `Visit` is one iteration of the
loop with its three conditions (`Straddles` the start, `Inside`, `Straddles` the
end), and `Close` is the row after the loop. Times are numbers. Go's `==` on two
`time.Time` compares locations too: `oneZone` says whether it can hold between a
time of the request and one of the history.

`DetailsCache` is what surrounds it, for one server, one action per call:
`GetList`, `GetStatus`, `Search`, `SetList`, `SetStatus`, then `ReadKeys` and
`WriteKeys` for each of the two key lists, then `Reply`; DeleteServer is
`DeleteOne`, `DeleteDoc`, then `FindKeys`, `Drop`, `DropDone` for each key list.
A cached list is a sequence of parts, each the window and the version of the
history it was made from, so that a doubled or mixed answer shows. A time is a
sequence of words, because the key joins the two without a separator. `Extend`
stands for all handlers that rewrite the history and drop nothing here. The two
clients, their copies and `older` are as in `ListingCache`, and so is `mishaps`.

### SearchCache

Search with its two keys per page. `Matching`, `OnPage`, `TotalOf` and `Shown` are
what it finds: which servers, which of them on the page, the total, and the status
that is carried from row to row. `CachedRows` and `CachedTotal` are the two Gets:
a value of the wrong type is a miss, except that no rows, stored as nil, are
decoded as the number 0. `Made` is the answer, which keeps cached rows. Four
calls cache it: `CallKeys` and `CallValues` are what they set and to what,
`Calls` which of them succeed, and `Perform` is their effect in their order; any
may fail, and after any of them the process may end (`SearchExits`). A change
deletes what `Named` says the two key lists hold. `older` says of each entry which
others were set before it, while expiry is considered, as in `ListingCache`. Patterns are sequences of words, so
that the key of a total (pattern, `_total`) can be the key of another pattern's
rows. Handlers run one at a time and a minute apart: every interleaving of the
same helpers is in `ListingCache`, and the subject here is what the keys confuse.
The answer is the reply of the service method, which leaves the rows out when the
total is 0.

### NameCheck

CheckServerName, one action per call (`Get`, `Find`, `Set`), and what clients do
with its answer: `AddServer` (its InsertOne), `UpdateServer` (its UpdateOne) or
nothing. The handlers themselves check nothing, so that clients ask first is an
assumption of the module. `DeleteServer`, `DeleteOne` and `RemoveKey` take a name
away. `Expire` and `Forget` are the hour in Redis and the minute in the process.

### Accounts

Records of users, tokens, and requests that hold one. `Login`, `Generate`, `Set`
are the three calls of Login; `Authorize` is the interceptor with the table
`AccessibleRoles`; then one action per handler. `ChangeUser` is the common shape of
the three handlers that call UpdateOne by id. A token remembers the record it was
made from and the ticks it has left; `since` (history) counts the ticks since a
record last changed. A tick is far longer than the five seconds a handler gives
its calls, so a Login that has seen two is past its deadline and `Set` fails.
`"export"` stands for the methods of the table that concern servers. Logout and the
copy of the token in Redis, which nothing reads, are left out. UpdateUser's reply
calls the full name the username (`user_repo_impl.go:202`); replies to it carry no
data here.

### Reports and DailyMail

`Reports` is Export: the list of servers is read once, then the history of each
(`Search`, `SearchIsError`, or `SearchPanics` on an empty one), then `Save`, `Setenv`
and `ExpandEnv`, the detour of the link through the environment of the process.
Of the other handlers
it has the writes: `AddRecord`, then `AddDocument`; `Update` for Connect and all that
rewrite a history; `DeleteRecord`, then `DeleteDocument`. A history is a version: the
one that is written (`indexed`), the one a search finds (`visible`, as of the last
`Refresh`), and the last there ever was (`latest`, a history variable). The update by
query conflicts with a version that its own search does not find, which is why `Update`
waits for the refresh; what a handler then writes is the next version, whatever entries
it has lost (that is the subject of `ServerStatus`). `oldest`, in the frame of an export,
remembers for each server the oldest version its rows may show. `DailyMail` is the loop of SendMail, which
`serverGrpc.Run` has commented out: `FindUsers` appends to `to`, which lives as long
as the process, `FindServers` and `Search` put the mail together, `Send`, `Sleep`.
The mail server refuses a mail without recipients. SendMail spells out the name
of the index; the module is for a deployment that calls it so.

The MC modules add symmetry and the small sets of patterns and windows. The operators
named `Faulty...` are plausible
mistakes; replacing the definition after one by it makes the property named in
its comment fail.

## 3. What is checked

| Run | Instance | Properties |
|---|---|---|
| `status_failures` | 1 server, 2 requests, 1 UpdateStatus goroutine, crashes and failing requests, 3 time stamps | `TypeOK`, `StoredHasHistory`, `InvalidMarkedOnce`, `HistoriesChronological` |
| `status_history` | 1 server, 2 requests, crashes and failing requests, 4 stamps | `NoOrphanHistory`, `SuccessRecorded`, `DocumentsRefine` |
| `listing_changes` | 2 requests, 1 page of one row, 2 changes of any kind, one kind of mishap (overlap, hurry, late refresh, failing Redis or stores, kill) | `TypeOK`, `WholePages`, `OutdatedPagesExcused` |
| `listing_pages` | 2 requests, 2 pages, 1 AddServer, overlap or expiry | `AnswersCurrent`, `CachedPagesListed`, `OutdatedPagesExcused` |
| `details_window` | histories of up to 3 changes, times 1 to 7, every window | `WindowTypeOK`, `Truthful`, `NothingMissed`, `WindowReported` |
| `details_cache` | 1 request at a time, 4 windows, of which three have one key and two are malformed, 2 versions, expiry at any time and one other kind of mishap | `TypeOK`, `AnswersWindowAsked`, `StatusNotOlder`, `AnsweredOnce`, `DeletedForgotten`, `Settles` |
| `search_cache` | 2 patterns that share a key, 2 fields, 2 servers on a page, one kind of mishap | `TypeOK`, `RowsMatch`, `AnswersAField`, `StatusesOwn` |
| `name_check` | 2 clients, 2 servers, 2 names, any two kinds of mishaps | `TakenTrue`, `NamesUnique`, `Settles` |
| `accounts` | 2 users, 2 requests, 1 good token at a time, crashes | `TypeOK`, `OutdatedBriefly`, `PowerFromPower` |
| `accounts_unknown` | the same | `UnknownIdsRejected`: violated |
| `exports` | 2 exports, 2 servers of which one has 3 versions, 2 file names, one kind of mishap beside equal names | `LinksResolve`, `OwnFile`, `RowsTruthful`, `PanicExcused` |
| `daily_mail` | 2 users, 2 servers, demotions, error answers, restarts | `ReachesAll`, `OnlyAdministrators`, `MailsGoOn` |

The type invariants of `NameCheck`, `Reports` and `DailyMail` are proved, not run.

All pass but `accounts_unknown`. What they show:

- `StoredHasHistory`: the panics of ChangePassword, UpdateStatus and Export on an
  empty history cannot be brought about by interleavings alone, as far as the
  document itself goes; it takes a failed request, a process that died inside a
  handler, or a search before the refresh.
- `HistoriesChronological`, `DocumentsRefine`: entries
  are lost when two handlers meet, or when Connect comes before the first
  refresh, but what remains is always in order and was always there. Order rests on
  the handlers alone: what they write is what a search found plus a later entry. That
  every version is one of the document's own versions plus an entry, and that none comes
  back after the deletion, rests on the update-by-query, which writes only a document
  that its search finds in its current version: with a plain write `DocumentsRefine`
  fails.
- `NoOrphanHistory`: without failures the only deleted server with a document is
  one that was deleted, from a listing, before its own AddServer wrote it.
- `InvalidMarkedOnce`: see section 4.
- `CachedPagesListed`, `AnswersCurrent`, `WholePages`: with requests that do not
  overlap, the two clients and their local copies are good enough. Outside the
  assumptions each property states, TLC finds the expected trouble quickly:
  overlapping Index requests lose keys, an Index that overlaps a change caches
  what it read before it, Connect leaves a page with the status before the
  refresh, and a change right after another one deletes by an old list, after
  which a request finds the rows without the total and doubles the page.
- `OutdatedPagesExcused`: there is no further way to an outdated page.
- `SuccessRecorded`: nobody looks at the outcome of an update, and yet, as long as
  no request fails, "Done" is true unless the history was not searchable or not
  the latest when it was read, or somebody else wrote it since.
- `Truthful`, `NothingMissed`, `WindowReported`: the loop is right for every window,
  with one reservation that the last of them states: a change at the very end of
  the window may be left out if the times carry different zones, and a window that
  is turned around gives rows that are true but not a report.
- `AnswersWindowAsked`, `StatusNotOlder`, `AnsweredOnce`, `DeletedForgotten`: among the
  windows that parse, the keys of the details confuse only one with an open start and
  the one with the same time at the open end; a window that does not parse ends the
  process, or is answered with the rows of one that reads the same if those are cached.
  Rows and status fit together, and nothing survives a deletion, under the conditions
  that each property states. Outside of them TLC finds doubled lists (a list found, its
  status not) and a deleted server that is served for an hour (a request before the
  refresh).
- `RowsMatch`, `AnswersAField`, `StatusesOwn`: a search may be answered with what was
  found in another field, or, where two patterns share a key, with rows and a total
  that do not belong together, but never with a server that the pattern does not
  match in any field.
- `NamesUnique`, `TakenTrue`: asking first keeps names unique unless two clients ask
  before either acts, an answer in the cache is outdated, or the database fails.
- `OutdatedBriefly`: it is the deadline given to `Set` in Login that bounds how
  outdated a token may be. `PowerFromPower`: an administrator can only be made by one.
- `OwnFile`, `LinksResolve`: overlapping exports may be given each other's links, but no
  link leads nowhere. `RowsTruthful`: a row shows a status that its server had while the
  export was made, or the one just before, if the history was written and not refreshed
  when the export began. Two changes behind it cannot be, because the second handler's
  update conflicts with the first until the refresh; without the conflict TLC finds
  such a row. `PanicExcused`: see the property.
- `ReachesAll`, `OnlyAdministrators`: a demoted administrator gets the mail until the
  process restarts; nobody is left out.
- `Settles` (twice) and `MailsGoOn` are liveness, see below.

Some hazards are what the code does: an outdated "free", a name taken twice, the wrong
field, links of overlapping exports, a removed administrator who is mailed. No property
forbids these; the ones named with such a hazard in `PROJECT.json` excuse it by name, and
show that it is the only cause, or bound how long it lasts. The notes there say which.

**The finding.** `proto/server.proto:39` says of response 404, for every method,
"Returned when the resource does not exist." UpdateUser, ChangePassUser and
ChangeActionUser look at the error of UpdateOne only, which is none if no record
matches, and report success. `accounts_unknown` finds the shortest way there: an
administrator changes a user whose id belongs to nobody. (UpdateServer does the same
for servers; DeleteUser and DeleteServer do reject such an id.)

**Bounds.** `MaxClock` (no work is taken on once that many stamps were taken),
`MaxStamp` (changes) and `MaxRows` (no request for a page that has already
doubled that often) keep the instances finite. The hazards are about two
handlers meeting: two goroutines suffice for every lost update and every missed
invalidation, and a third stamp or change gives a third party something to build
on. A second page tells "this page" from "all pages" in key lists; a second
server tells handlers that must not interact, where there are any. `ServerStatus` is
run with one server: no handler touches two, and the proofs are for all. Symmetry is
used for servers and request goroutines where no definition tells them apart and no
liveness is checked.

`MaxMishaps` bounds how many of the named mishaps meet in one behaviour: one, so that
each property is seen to survive every mishap it does not exclude, and two in
`NameCheck`, where they are cheap. In `DetailsCache` expiry, and in `Reports` equal
names, do not count, so that they meet every other mishap. A failure of each kind
happens once in these modules; what two failures of a kind do is not explored.
`DetailsCache` is run with one request at a time, so that its properties are not
checked for overlapping requests (in `ListingCache` the same helpers overlap), except
for `AnswersWindowAsked`, which is proved for any number.

In the other modules `MaxVersion` bounds the versions of a history (in `Reports` of
those in `Growing`: three, so that there is room for two writes before a refresh),
`MaxLinks` the links still to be followed when an export of `Reports` begins (none in the
run: links of exports that overlap are there together, but no export begins after another
has ended and before its link is followed; in the proofs any number), `MaxParts` and `MaxRows` how often an answer may double,
`MaxTokens` who may log in, `MaxTime` and `MaxChanges` the inputs of the window, and
`Faults` a search to one failing call. Two versions, two windows, two patterns, two
fields are what it takes to confuse one with the other; two pages and `FirstBatch = 1`
make every boundary of paging and of the total occur; histories of three changes have
a first, a last and one between. Time in `Accounts` is not bounded: what is left of a
token and `since` are.

**Fairness.** The invariants need none. `DetailsCache!Settles` assumes that
Elasticsearch refreshes (it does so by itself every second), that entries of Redis
expire and that local copies of values are forgotten (both are deadlines set by
`redis_drive.go:30-33` and the cache library); `NameCheck!Settles` assumes the last
two, for behaviours in which names stop changing. No handler needs to be scheduled
for either: a goroutine may stop anywhere and never go on. `MailsGoOn` assumes that
the loop of SendMail is scheduled, its calls return and its sleep ends (weak fairness
of `Round`), which holds of a goroutine while the process lives. It is about the
behaviours that restart only finitely often and whose loop has found an administrator
since; the run has restarts.

Deadlock is checked in every run but those of `DetailsWindow`, a computation that
ends, and `SearchCache`, where all that is left may be searches too large for the
bound.

## 4. What is proved

The first part of `ServerStatusHistoryProofs` proves four theorems about `ServerStatus`
from its assumption `ConstantsOK` alone, for any sets of servers, requests and
UpdateStatus goroutines and any choice of failures:

| Theorem | States |
|---|---|
| `TypeCorrect` | `Spec => []TypeOK` |
| `ChronologyHolds` | `Spec => []HistoriesChronological` |
| `InvalidMarkedOnceHolds` | `Spec => []InvalidMarkedOnce` |
| `StoredHasHistoryHolds` | `Spec => []StoredHasHistory` |

*Types.* `TypeOK` is not inductive: that a search goes to a document at all needs
that a goroutine between two calls works for a server (`HasServer`). `Typed` adds
it, and `NextTyped` proves it action by action.

*What a step does to the histories.* `NextHistories` proves once, over all
actions, that a document only receives the empty history, a first Off, or what
some handler is about to write; that what becomes searchable was written before;
and that a handler only prepares what it found plus one entry stamped now.

*Chronology.* A written history may come from any goroutine, so the invariant
covers the documents, the searchable versions and every `body`: each is in order
and earlier than the clock (`Dated`). With the lemma above each step reduces to
appending a later entry.

*Invalid marked once.* The same shape with `Spaced`. `Appends` is what keeps a
second Invalid out: the check and the array it guards come from one search, and
the array is written as a whole, so it does not matter how outdated it is.

*Stored has history.* `StoredInv` says, as long as nothing failed, when a document
may be missing: before AddServer's request, and when DeleteServer, whose record
is already gone, is about to remove it; and that no handler is about to write an
empty history. `failed` only grows, which lets each step assume that nothing has
failed yet.

The rest of the module proves three theorems about `ServerStatusHistory`. As
`HistorySpec` implements `Spec` (`HistoryImplements`), it builds on the invariants
above:

| Theorem | States |
|---|---|
| `DocumentsRefineHolds` | `HistorySpec => DocumentsRefine` |
| `NoOrphanHistoryHolds` | `HistorySpec => []NoOrphanHistory` |
| `SuccessRecordedHolds` | `HistorySpec => []SuccessRecorded` |

*What a step does to a server.* `NextLife` proves once, over all actions, where a
record and a document may go in one step and who may come to the calls that create and
delete them. From it follows `LifeInv`: at most one AddServer is about to create the
document of a server, and none once there is one.

*The refinement.* `PreparedInv` says that what is about to be written is some earlier
version plus one entry, stamped later than all of it; the times come from
`ChronologyInv`. `NextDocument` then maps each change of a document to the one step of
`StatusDocument` it can be: a first history to `Create`, because of `LifeInv`; an update
to `Rewrite`, because of `PreparedInv`; a deletion, and an AddServer that gives up, to
`Retire`. `GoneStays` rules out that a phase goes back to "new".

*No orphans.* `OrphanInv` adds to the property what a deletion leaves behind: no
document, and no AddServer that could still write one.

*Success recorded.* `RecordedInv` adds why the update takes effect: until it is made,
the version that was found is the document and is searchable, or its writer is noticed
in `disturbed`.

The first part of `DetailsProofs` proves four theorems about `DetailsWindow`, for
histories of any length and windows of any size. (The module is about both modules of
the details, which is why some names of this one begin with `Window`.)

| Theorem | States |
|---|---|
| `WindowTypeCorrect` | `WindowSpec => []WindowTypeOK` |
| `TruthfulHolds` | `WindowSpec => []Truthful` |
| `NothingMissedHolds` | `WindowSpec => []NothingMissed` |
| `WindowReportedHolds` | `WindowSpec => []WindowReported` |

`IInv` is `WindowTypeOK`, `Truthful` and `VisitedShown`: of the changes strictly inside
the window those before `i` are in the list, and the loop ends behind the last one.
`Truthful` needs nothing but types: `RowsInForce` shows that each of the conditions of
the loop, and the one after it, holds only of a status in force at the time of the
row, and `ConcatFacts` that appending such rows keeps the list truthful. That `Visit`
may read `log[k + 1]` rests on the history being in order: a change before the last
time is not the last change.

`WindowReported` says exactly which times an answer shows: the two ends and the changes
between them, once each and in order. `WindowInv` says it of the unfinished list: its times
are those of the answer that the loop has come past (`Due`, `Passed`), in order.
`VisitTimes` gives the times one iteration adds, which lie between its change and the next
one, `OrderedConcat` puts the rows of an iteration behind those of the earlier ones, and
`CloseOrdered` adds the row after the loop. The invariant also needs that the start is
cut to the history first (`FirstTime <= start`): else the first row of the answer would be
missing.

Its second part proves five theorems about `DetailsCache`, for any requests, windows and
versions, and without the bound on mishaps:

| Theorem | States | Inductive invariant |
|---|---|---|
| `TypeOKHolds` | `Spec => []TypeOK` | `Inv` |
| `AnswersWindowAskedHolds` | `Spec => []AnswersWindowAsked` | `Inv` |
| `StatusNotOlderHolds` | `Spec => []StatusNotOlder` | `CoveredInv`, on `ListedInv` |
| `AnsweredOnceHolds` | `Spec => []AnsweredOnce` | `CoveredInv`, on `ListedInv` |
| `DeletedForgottenHolds` | `Spec => []DeletedForgotten` | `DeletedInv`, on `ListedInv` |

*What the cache may hold.* `Inv` says of every value in Redis, every copy and every frame
its type and, for a list, that its rows were made for a window that parses and has the key
the list is cached under or was asked for by (`Fit`), however requests overlap. The lemmas
`GetOK`, `SetOK`, `ReplaceOK`, `LocalOK` and `ExitOK` say once how the cache and the frames
stay so, and every action is one of them with a value that fits.

*Key lists are complete.* `ListedInv`: while requests did not overlap, Redis did not fail
and the process did not die, one request runs alone (`Alone`), and what is cached is named
by its key list, or is what the running request is about to enter. The list was Set after
the entries it names, so that it does not expire before them; that is what `older` is for,
and `SetEffect` says how a Set changes it.

*Rows and status.* `CoveredInv`: a cached list has at most one part, and comes with a
cached status that is no older than it and was Set after it, so that it expires later
(`Covered`), unless the running request is about to Set that status. A request that finds a
list therefore finds its status too, and one that finds no list searches once for both.
This also needs that no client reads an outdated copy and that nothing expires while a
request runs.

*Deletion.* `DeletedInv`: once the record is gone, what is cached of a kind is named by the
key list the deletion has still to read or by the keys it has at hand, and nothing is left
of the kind it has dropped; the repositories' client has no copy of a key list that it could
read instead, because it reads them for no other purpose (`Fresh`).

The assumptions are `ConstantsOK`, `TimesReadable`, that of two times written one after the
other one can tell where the second begins (RFC 3339 has a year of four digits and a dash
at the start and nowhere else), and `NoneIsNoKey` and `NoneIsNoValue`, that a miss can be
told from a value.

`ListingCacheProofs` proves the five invariants of `ListingCache`, for any requests, pages,
servers, changes and stamps, and any number of mishaps:

| Theorem | States | Inductive invariant |
|---|---|---|
| `TypeOKHolds` | `Spec => []TypeOK` | `Inv` |
| `CachedPagesListedHolds` | `Spec => []CachedPagesListed` | `ListedInv` |
| `WholePagesHolds` | `Spec => []WholePages` | `WholeInv`, on `ListedInv` |
| `OutdatedPagesExcusedHolds` | `Spec => []OutdatedPagesExcused` | `FreshInv`, on `WholeInv` |
| `AnswersCurrentHolds` | `Spec => []AnswersCurrent` | `FreshInv`, on `CleanInv` |

*Types.* `Inv` adds to `TypeOK` what each label of a handler says of its local variables:
an Index has a page, what it has yet to look up is not empty, a change has some write to
make.

*Key lists.* `ListedInv` holds as long as an Index runs alone, Redis answers and the process
lives. A cached page is in the list of its kind, which was Set after it and so expires
later, or the Index that has cached it is on its way to enter it; then the list that Index
has read, with its own page, names every cached page (`ListsRead`).

*Whole pages.* `WholeInv`: ids are unique, and no copy of rows, nor any frame, has a server
twice (`RowsDistinct`). An Index that finds rows without their total would append to them
what it reads next; `Paired` says why there are none: rows are cached only with their total
(`Together`), because a change deletes rows before totals (`Dropped`) and deletes all of
them. For that the copies it reads key lists from are what Redis holds (`ListCopies`).

*Clean and fresh.* `FreshInv` says of each page that is not excused that every copy of it is
as the stores are or is yet to be dropped by a change that has written; and that while an
Index works on the page no change runs, and what it has is what the stores hold: its rows
in the order of the records, too, as long as there was no mishap (`InOrder`). `CleanInv` says
that until then no page is excused, which is where the key lists matter: what a change reads
names every page that is held (`HeldListed`).

The actions are opened once per group of steps and not once per invariant: the lemmas
`LookingTurns`, `SearchingTurns`, `CachingTurns` and `ChangeTurns` state what such a step does
to stores, cache and frame, and every invariant is preserved case by case over these. The
assumptions are `ConstantsOK` and `NoneIsNoValue`.

`SearchCacheProofs` proves the four invariants of `SearchCache`, for any patterns, fields,
pages, page sizes and servers, and any number of mishaps:

| Theorem | States | Inductive invariant |
|---|---|---|
| `TypeOKHolds` | `Spec => []TypeOK` | `TypeOK` |
| `RowsMatchHolds` | `Spec => []RowsMatch` | `RowsInv` |
| `AnswersAFieldHolds` | `Spec => []AnswersAField` | `WholeInv`, on `ListedInv` |
| `StatusesOwnHolds` | `Spec => []StatusesOwn` | `StatusInv`, on `ListedInv` |

*Types.* That a search finds a sequence of servers at all is a fact about numbers: `Ranks`
shows that counting the servers at least as new gives each of a finite set a rank of its own,
and, because a one-to-one function between sets of one size is onto, that every rank from 1
on is some server's. `NewestFirst` is therefore defined on all of them. `Shown` takes the
greatest of a finite set, which `Greatest` provides.

*Rows match.* `RowsInv`: rows in Redis match the pattern that their key spells.
The total of one pattern and the rows of another may have that key, but only rows can be
read as rows, and those were made for the pattern the key spells (`KeyFacts`).

*One field.* `ListedInv`: as long as nothing fails, every page in Redis is named by a key
list that was set after it and so expires later, so that a change drops all pages
(`AllDropped`). `WholeInv`: for a pattern that shares no key with another that was searched,
cached rows are those of one field as of now, and their total is cached with them and expires
no earlier (`Whole`). No search therefore finds rows without their total and appends to them.
Where keys coincide this fails, and `AnswersAField` excuses it.

*Statuses.* `StatusInv`: as long as nothing but expiry happens, cached rows show what the
histories hold. It also covers keys that coincide.

`After` states once what the four calls of a search leave in Redis, key by key, and each
invariant is preserved over that. The assumptions are `ConstantsOK`, whose last conjunct
says that a pattern is the sequence of its words, and `NoneIsNoValue`.

`AccountsProofs` proves three theorems about `Accounts`, for any users, requests,
tokens and duration:

| Theorem | States |
|---|---|
| `TypeCorrect` | `Spec => []TypeOK` |
| `OutdatedBrieflyHolds` | `Spec => []OutdatedBriefly` |
| `PowerFromPowerHolds` | `Spec => PowerFromPower` |

`StepKinds` sorts the steps first: those that write a record and reset its `since`
(`Write`), those of a login, and ticks. `OutdatedBriefly` is not inductive: a token is
not yet given out while a login holds it, and the invariant has to bound how long. It
says that what is left of a token and the ticks since its record changed together
never exceed `Duration + 1`, for tokens that were given out and, with the age of the
login, for those that were not; the deadline is what closes the gap.
`PowerFromPower` also needs `Authentic`: a request that is being handled was let in
by its token, so without an administrator's token nobody is in a handler that makes
one.

`NameCheckProofs`, `ReportsProofs` and `DailyMailProofs` prove `TypeCorrect` and every
invariant that the runs of their modules check, for any numbers of clients, requests,
users and servers, and without the bounds on mishaps:

| Module | Theorems | Inductive invariant |
|---|---|---|
| `NameCheckProofs` | `NamesUniqueHolds` | `Unique`: nobody asks while another has asked and not yet acted, so that "free" stays true until it is acted on |
| | `TakenTrueHolds` | `Alone`: a deletion has the process to itself and drops the name it has read; `Sound`: what is cached *or about to be* as "taken" is so |
| `ReportsProofs` | `RowsTruthfulHolds` | `Dated`: what a search finds, now or after a refresh, is not older than an export may show; on `Stored`: what is written is the last version unless deleted, and what is found at most one older |
| | `LinksResolveHolds` | `Written`: the file of an export that has saved, and the one FILENAME names, are there |
| | `OwnFileHolds` | `Owned`: one export at work, no two of the same name, and FILENAME is its own |
| | `PanicExcusedHolds` | `Searchable`: what an export has left is found, and will be after the next refresh |
| `DailyMailProofs` | `ReachesAllHolds` | `UnderWay`: what the round has to reach is still to come, or in the mail already |
| | `OnlyAdministratorsHolds` | `Faithful`: while nobody was demoted, whoever is on the list of recipients is an administrator |

They share a shape. Each property excuses some mishaps, and `mishaps` only grows, so a
step may assume that none of these has happened before it; what is left of the
invariant is why the other steps do no harm.

Every property of a passing run that is an invariant or an action property is thus proved.
Model-checked only are the three liveness properties, `Settles` of `DetailsCache` and of
`NameCheck` and `MailsGoOn`: they rest on fairness, and so on ENABLED, which the provers do
not handle. The bounds of the instances (`MaxClock`, `MaxMishaps`, `MaxRows` and the like)
are guards of the specifications and are arbitrary in the proofs.

## 5. What is left out

- *Process start and listener loop* (`main.go`, `client.go`): when cmux, the gRPC
  server and the gateway end, and whether they end together, is decided inside these
  libraries; the few lines around them have no behaviour that could be modelled
  without modelling those. What a restart means for the rest is in every module
  (`Exit`, `Crash`).
- *HTTP gateway and CORS*, *connections*, *repository interfaces*: no state.
- *RabbitMQ driver*, `email_repo_impl.go`: used by no code of the repository.
- *Generated code*, the minified bundles of *swagger UI*, the *API definition*, the
  *certificates*: not this program's logic.
- In the modelled handlers: contents of records beyond what a property tells apart,
  the conversions between protobuf messages and models, the five-second timeouts
  beyond "the call fails" (and the deadline of Login), cursors that need a second
  batch, the layout of the spreadsheet, SMTP, hashing and signing.
- UpdateStatus drops no cached page (`server_repo_impl.go:736`). Its goroutine is
  commented out, and how long an outdated page lasts is `ListingCache`'s subject.
- What piles up in the endless loops that defer (`operation_repo_impl.go:323`) is
  memory, which no module has as state.

## 6. Plan

Modelled: all components with state of their own; proved: all their safety properties. To
be done:

1. Larger instances of the caches: two requests for details at a time, two mishaps.
2. A composition of `ServerStatus` and `ListingCache` through the histories they
   share, should the goroutine of UpdateStatus be started.
