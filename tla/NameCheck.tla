------------------------------- MODULE NameCheck -------------------------------
(***************************************************************************)
(* CheckServerName, which tells a client whether a server has a name, its  *)
(* cache, and the handlers that give names to servers and take them away.  *)
(* AddServer and UpdateServer do not check anything: clients are expected  *)
(* to ask first, and do so here.  Asking, adding and renaming are requests *)
(* of their own.                                                           *)
(*                                                                         *)
(* An answer is cached under the name for an hour, by the global client,   *)
(* and read by the repositories' client, which keeps a copy for a minute,  *)
(* as in ListingCache.  Of the handlers that change names only DeleteServer *)
(* drops an answer: that for the name of the server it deletes.            *)
(*                                                                         *)
(* The operators named Faulty... are not part of the model: each is the    *)
(* definition that follows it with a plausible mistake in the code, and its *)
(* comment names the property that the mistake would break.                *)
(***************************************************************************)
EXTENDS Naturals, FiniteSets

CONSTANTS
  Clients,   \* each makes one request after the other
  Servers,   \* the object ids InsertOne may hand out
  Names,
  Mishaps,   \* which of PossibleMishaps may happen
  MaxMishaps, \* bound: no more than this many kinds of them in one behaviour
  None       \* no value

PossibleMishaps ==
  {"overlap",     \* a client asks for a name while another has asked and not yet acted
   "outdated",    \* an answer comes from the cache and is no longer right
   "rename",      \* a server gives up its name for another
   "race",        \* DeleteServer overlaps another request
   "redisError",  \* a call to Redis fails
   "storeError",  \* a call to MongoDB fails
   "exit"}        \* the process is killed

Failures == {"redisError", "storeError", "exit"}

ASSUME ConstantsOK ==
  /\ MaxMishaps \in Nat
  /\ None \notin BOOLEAN
  /\ {"unborn", "gone"} \cap Names = {}
  /\ Mishaps \subseteq PossibleMishaps

VARIABLES
  name,      \* MongoDB: per server its name, or "unborn" or "gone"
  redis,     \* per name, whether it is taken, as cached in Redis, or None
  drive,     \* per name, the copy the repositories' client holds, or None
  frame,     \* per client, where its request is, and its local variables
  mishaps    \* what has happened so far

caches == <<redis, drive>>
vars == <<name, caches, frame, mishaps>>

Labels == {"idle", "get", "find", "set", "answered", "deleteOne", "removeKey"}
Frame == [pc : Labels,
          asked : Names \cup {None},       \* the name asked for, or to be deleted
          server : Servers \cup {None},    \* the server to be deleted
          check : BOOLEAN]                 \* the answer

Idle == [pc |-> "idle", asked |-> None, server |-> None, check |-> FALSE]

TypeOK ==
  /\ name \in [Servers -> Names \cup {"unborn", "gone"}]
  /\ {redis, drive} \subseteq [Names -> BOOLEAN \cup {None}]
  /\ frame \in [Clients -> Frame]
  /\ mishaps \subseteq Mishaps

Init ==
  /\ name = [s \in Servers |-> "unborn"]
  /\ redis = [n \in Names |-> None]
  /\ drive = [n \in Names |-> None]
  /\ frame = [c \in Clients |-> Idle]
  /\ mishaps = {}

-----------------------------------------------------------------------------

Taken(n) == \E s \in Servers : name[s] = n

\* What a Get of the repositories' client returns.
Found(n) == IF drive[n] # None THEN drive[n] ELSE redis[n]

\* Bound: each kind of failure happens once.
Mishap(m) ==
  /\ m \in IF m \in Failures THEN Mishaps \ mishaps ELSE Mishaps
  /\ mishaps' = mishaps \cup {m}
  /\ Cardinality(mishaps') <= MaxMishaps
MishapIf(m, condition) == IF condition THEN Mishap(m) ELSE UNCHANGED mishaps

At(c, label) == frame[c].pc = label
Local(c, f) == frame' = [frame EXCEPT ![c] = f]
Goto(c, label) == Local(c, [frame[c] EXCEPT !.pc = label])
Return(c) == Local(c, Idle)

Forms == {"get", "find", "set", "answered"}
Busy(labels) == \E c \in Clients : frame[c].pc \in labels

-----------------------------------------------------------------------------
(* CheckServerName.                                                        *)

CheckServerName(c, n) ==
  /\ frame[c] = Idle
  /\ Local(c, [Idle EXCEPT !.pc = "get", !.asked = n])
  /\ IF Busy(Forms) THEN Mishap("overlap")
     ELSE MishapIf("race", Busy({"deleteOne", "removeKey"}))
  /\ UNCHANGED <<name, caches>>

\* GetValueCache; a failing Get is a miss.
Get(c) ==
  LET n == frame[c].asked IN
  /\ At(c, "get")
  /\ \/ /\ Found(n) # None
        /\ drive' = [drive EXCEPT ![n] = Found(n)]
        /\ Local(c, [frame[c] EXCEPT !.pc = "answered", !.check = Found(n)])
        /\ MishapIf("outdated", Found(n) # Taken(n))
     \/ /\ Found(n) = None
        /\ Goto(c, "find")
        /\ UNCHANGED <<drive, mishaps>>
     \/ /\ Mishap("redisError")
        /\ Goto(c, "find")
        /\ UNCHANGED drive
  /\ UNCHANGED <<name, redis>>

\* NamesUnique: whether FindOne found a record is not looked at.
FaultyFind(c) ==
  /\ At(c, "find")
  /\ Local(c, [frame[c] EXCEPT !.pc = "set", !.check = FALSE])
  /\ UNCHANGED <<name, caches, mishaps>>

Find(c) ==
  /\ At(c, "find")
  /\ Local(c, [frame[c] EXCEPT !.pc = "set", !.check = Taken(frame[c].asked)])
  /\ UNCHANGED <<name, caches, mishaps>>

\* Any error of FindOne is taken to mean that the name is free.
FindFails(c) ==
  /\ At(c, "find")
  /\ Mishap("storeError")
  /\ Local(c, [frame[c] EXCEPT !.pc = "set", !.check = FALSE])
  /\ UNCHANGED <<name, caches>>

\* SetValueCache; that it fails is ignored.
Set(c) ==
  /\ At(c, "set")
  /\ \/ redis' = [redis EXCEPT ![frame[c].asked] = frame[c].check] /\ UNCHANGED mishaps
     \/ Mishap("redisError") /\ UNCHANGED redis
  /\ Goto(c, "answered")
  /\ UNCHANGED <<name, drive>>

-----------------------------------------------------------------------------
(* What a client does with the answer.                                     *)

\* InsertOne of AddServer.  Nothing else it does concerns names.
AddServer(c, s) ==
  /\ At(c, "answered")
  /\ ~ frame[c].check
  /\ name[s] = "unborn"
  /\ name' = [name EXCEPT ![s] = frame[c].asked]
  /\ Return(c)
  /\ UNCHANGED <<caches, mishaps>>

\* UpdateOne of UpdateServer.  Nothing else it does concerns names.
UpdateServer(c, s) ==
  /\ At(c, "answered")
  /\ ~ frame[c].check
  /\ name[s] \in Names
  /\ name' = [name EXCEPT ![s] = frame[c].asked]
  /\ Return(c)
  /\ MishapIf("rename", name[s] # frame[c].asked)
  /\ UNCHANGED caches

\* The name is taken, or the client thinks better of it.
GiveUp(c) ==
  /\ At(c, "answered")
  /\ Return(c)
  /\ UNCHANGED <<name, caches, mishaps>>

-----------------------------------------------------------------------------
(* DeleteServer.                                                           *)

\* FindOne, for the name.
DeleteServer(c, s) ==
  /\ frame[c] = Idle
  /\ name[s] \in Names
  /\ Local(c, [Idle EXCEPT !.pc = "deleteOne", !.asked = name[s], !.server = s])
  /\ MishapIf("race", Busy(Labels \ {"idle"}))
  /\ UNCHANGED <<name, caches>>

\* DeletedCount is 0 if somebody else deleted it.
DeleteOne(c) ==
  LET s == frame[c].server IN
  /\ At(c, "deleteOne")
  /\ IF name[s] \in Names THEN Goto(c, "removeKey") ELSE Return(c)
  /\ name' = [name EXCEPT ![s] = "gone"]
  /\ UNCHANGED <<caches, mishaps>>

\* No answer of a store is fatal, before or after the record is gone.
DeleteFails(c) ==
  /\ \/ At(c, "deleteOne") /\ name' \in {name, [name EXCEPT ![frame[c].server] = "gone"]}
     \/ At(c, "removeKey") /\ UNCHANGED name
  /\ Mishap("storeError")
  /\ frame' = [d \in Clients |-> Idle]
  /\ drive' = [n \in Names |-> None]
  /\ UNCHANGED redis

\* TakenTrue: the key of another cache is dropped.
FaultyRemoveKey(c) ==
  /\ At(c, "removeKey")
  /\ Return(c)
  /\ UNCHANGED <<name, caches, mishaps>>

\* RemoveValueCache; that it fails is ignored.
RemoveKey(c) ==
  LET n == frame[c].asked IN
  /\ At(c, "removeKey")
  /\ drive' = [drive EXCEPT ![n] = None]
  /\ \/ redis' = [redis EXCEPT ![n] = None] /\ UNCHANGED mishaps
     \/ Mishap("redisError") /\ UNCHANGED redis
  /\ Return(c)
  /\ UNCHANGED name

-----------------------------------------------------------------------------
(* The environment.                                                        *)

\* Settles: an entry is kept beyond its hour.
FaultyExpire(n) == redis[n] # None /\ UNCHANGED vars

\* An answer has been in Redis for an hour.
Expire(n) ==
  /\ redis[n] # None
  /\ redis' = [redis EXCEPT ![n] = None]
  /\ UNCHANGED <<name, drive, frame, mishaps>>

\* A copy has been in the process for a minute.
Forget(n) ==
  /\ drive[n] # None
  /\ drive' = [drive EXCEPT ![n] = None]
  /\ UNCHANGED <<name, redis, frame, mishaps>>

Crash ==
  /\ Mishap("exit")
  /\ frame' = [c \in Clients |-> Idle]
  /\ drive' = [n \in Names |-> None]
  /\ UNCHANGED <<name, redis>>

-----------------------------------------------------------------------------

CheckStep(c) == Get(c) \/ Find(c) \/ FindFails(c) \/ Set(c)
FormStep(c) == GiveUp(c) \/ \E s \in Servers : AddServer(c, s) \/ UpdateServer(c, s)
DeleteStep(c) == DeleteOne(c) \/ DeleteFails(c) \/ RemoveKey(c)

Next ==
  \/ \E c \in Clients :
       \/ \E n \in Names : CheckServerName(c, n)
       \/ \E s \in Servers : DeleteServer(c, s)
       \/ CheckStep(c) \/ FormStep(c) \/ DeleteStep(c)
  \/ \E n \in Names : Expire(n) \/ Forget(n)
  \/ Crash

Spec == Init /\ [][Next]_vars

\* Entries and copies go when their time is up, whatever the handlers do.
Fairness == \A n \in Names : WF_vars(Expire(n)) /\ WF_vars(Forget(n))
FairSpec == Spec /\ Fairness

-----------------------------------------------------------------------------
(* Properties.                                                             *)

BeingDeleted(n) == \E c \in Clients : At(c, "removeKey") /\ frame[c].asked = n

\* DeleteServer drops the cached answer for its server's name and no other handler drops
\* any.  As long as it overlaps no other request, no server is renamed and nothing fails,
\* a cached "taken" is true, however many clients ask and add at the same time.
TakenTrue ==
  mishaps \subseteq {"overlap", "outdated"} =>
    \A n \in Names : TRUE \in {redis[n], drive[n]} => Taken(n) \/ BeingDeleted(n)

\* Nothing but the answer to CheckServerName keeps clients from using a name twice, and
\* AddServer and UpdateServer do not drop the answer that a name is free.  Two servers
\* have the same name only if two clients asked before either acted, or a cached answer
\* was outdated, or an error was taken for the answer: deletions at the same time, a
\* failing Redis and crashes do no harm.
NamesUnique ==
  mishaps \cap {"overlap", "outdated", "storeError"} = {} =>
    \A s, t \in Servers : name[s] \in Names /\ name[s] = name[t] => s = t

Changing == \E s \in Servers : name'[s] # name[s]

\* An outdated answer, free or taken, lasts an hour and a minute: if from some time on no
\* name changes and nothing fails, every answer in the cache is right from some time on.
\* (That failures end is a bound of the model.)
Settles ==
  <>[][~ Changing]_vars =>
    <>[](\A n \in Names : Found(n) # None => Found(n) = Taken(n))
=============================================================================
