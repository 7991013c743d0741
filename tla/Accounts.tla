-------------------------------- MODULE Accounts --------------------------------
(***************************************************************************)
(* The records of users, the tokens that Login makes from them, and the    *)
(* interceptor that decides on a token what a request may do.  A token is   *)
(* signed, carries the role and the actions its user had when Login read    *)
(* the record, and is good for tokenDuration; no handler can take it back.  *)
(*                                                                         *)
(* Time passes in ticks of any length far above the five seconds that a     *)
(* handler gives its calls to the stores: a Login that has seen two ticks   *)
(* begin is past its deadline.  Tokens and logins keep what time is left or  *)
(* gone, so time is not bounded.                                            *)
(*                                                                         *)
(* The copy of a token that Login puts into Redis and Logout removes is read *)
(* by nobody and not part of the state; that putting it there may fail is.   *)
(*                                                                         *)
(* The operators named Faulty... are not part of the model: each is the    *)
(* definition that follows it with a plausible mistake in the code, and its *)
(* comment names the property that the mistake would break.                *)
(***************************************************************************)
EXTENDS Naturals, FiniteSets

CONSTANTS
  Users,      \* the object ids InsertOne may hand out
  Founder,    \* the user whose record was made by hand: the API starts with none
  Usernames,
  Passwords,
  Actions,    \* the lists of actions a request may carry
  Requests,   \* each makes one request after the other
  Duration,   \* tokenDuration, in ticks
  MaxTokens   \* bound: nobody logs in while so many tokens are good

ASSUME ConstantsOK ==
  /\ Founder \in Users
  /\ Duration \in Nat \ {0}
  /\ MaxTokens \in Nat

VARIABLES
  record,   \* MongoDB: per user the record, or Unborn or Gone
  tokens,   \* the tokens given to clients that Verify accepts
  frame,    \* per request, where its handler is, and its local variables
  since     \* history: per user, the ticks since its record last changed

vars == <<record, tokens, frame, since>>

-----------------------------------------------------------------------------
(* Roles and rights.                                                       *)

Roles == {"admin", "assistant", "staff"}

AssistantActions ==
  {"Add Server", "Update Server", "Detail Status", "Export",
   "Connect", "Disconnect", "Delete Server", "Change Password"}

\* All actions a record may list.
Rights == {"All Rights"} \cup AssistantActions \cup UNION Actions

\* The actions that go with a role, of those the request asks for.
ActionList(role, actions) ==
  IF role = "admin" THEN {"All Rights"}
  ELSE IF role = "assistant" THEN AssistantActions
  ELSE actions

\* PowerFromPower: assistants may add users.
FaultyAccessibleRoles ==
  [addUser |-> {"admin", "assistant"},
   changeActionUser |-> {"admin"},
   deleteUser |-> {"admin"},
   getListUser |-> {"admin"},
   changePassUser |-> Roles,
   updateUser |-> Roles,
   getUser |-> Roles,
   export |-> {"admin", "assistant", "Export"}]

\* Per method, the roles and actions one of which a token must name.  "export"
\* stands for all methods of the table that concern servers; login and logout are not in it.
AccessibleRoles ==
  [addUser |-> {"admin"},
   changeActionUser |-> {"admin"},
   deleteUser |-> {"admin"},
   getListUser |-> {"admin"},
   changePassUser |-> Roles,
   updateUser |-> Roles,
   getUser |-> Roles,
   export |-> {"admin", "assistant", "Export"}]

Methods == DOMAIN AccessibleRoles

\* What a token or a record says of its owner.
Claims(r) == {r.role} \cup r.action

Authorized(method, r) == AccessibleRoles[method] \cap Claims(r) # {}

-----------------------------------------------------------------------------

Unborn == [state |-> "unborn"]
Gone == [state |-> "gone"]
Record == [state : {"stored"}, username : Usernames, password : Passwords,
           role : Roles, action : SUBSET Rights]

\* A token, and the record it was made from: only role and action are in the token.
Token == [issuer : Users, was : Record, left : 0..Duration]

\* TypeOK: a token is still accepted when its time is up.
FaultyGood(t) == t.left >= 0

\* Does Verify accept the token?
Good(t) == t.left > 0

Stored(u) == record[u].state = "stored"

NewUser(name, password, role, actions) ==
  [state |-> "stored", username |-> name, password |-> password,
   role |-> role, action |-> ActionList(role, actions)]

Late == 2
Idle == [pc |-> "idle"]

\* A frame of Login: "compare" after FindOne, "set" after Generate.
LoggingIn(f) == f.pc \in {"compare", "set"}

Frame ==
  {Idle}
    \cup [pc : {"compare", "set"}, token : Token, age : 0..Late]
    \cup [pc : {"handle"}, method : Methods, token : Token]
    \cup [pc : {"done"}, ok : BOOLEAN]

TypeOK ==
  /\ record \in [Users -> Record \cup {Unborn, Gone}]
  /\ tokens \in SUBSET {t \in Token : t.left > 0}
  /\ frame \in [Requests -> Frame]
  /\ since \in [Users -> 0..Duration + 1]

Init ==
  /\ \E name \in Usernames, password \in Passwords :
       record = [u \in Users |-> IF u = Founder THEN NewUser(name, password, "admin", {})
                                 ELSE Unborn]
  /\ tokens = {}
  /\ frame = [c \in Requests |-> Idle]
  /\ since = [u \in Users |-> Duration + 1]

-----------------------------------------------------------------------------

At(c, label) == frame[c].pc = label
Goto(c, f) == frame' = [frame EXCEPT ![c] = f]
Done(c, ok) == Goto(c, [pc |-> "done", ok |-> ok])

\* The reply has reached the client.
Return(c) ==
  /\ At(c, "done")
  /\ Goto(c, Idle)
  /\ UNCHANGED <<record, tokens, since>>

Exit == frame' = [c \in Requests |-> Idle]

\* MongoDB has done its work; its answer may be lost.
Acknowledged(c) == Done(c, TRUE) \/ Done(c, FALSE)

Change(u, r) ==
  /\ record' = [record EXCEPT ![u] = r]
  /\ since' = [since EXCEPT ![u] = 0]

-----------------------------------------------------------------------------
(* Login.                                                                  *)

\* FindOne by the username.  Nothing keeps usernames unique: any record with it is found.
Login(c, u) ==
  /\ frame[c] = Idle
  /\ Cardinality(tokens) < MaxTokens
  /\ Stored(u)
  /\ Goto(c, [pc |-> "compare", age |-> 0,
              token |-> [issuer |-> u, was |-> record[u], left |-> 0]])
  /\ UNCHANGED <<record, tokens, since>>

\* CompareHashAndPassword, then Generate.
Generate(c) ==
  /\ At(c, "compare")
  /\ Goto(c, [pc |-> "set", age |-> frame[c].age,
              token |-> [frame[c].token EXCEPT !.left = Duration]])
  /\ UNCHANGED <<record, tokens, since>>

WrongPassword(c) ==
  /\ At(c, "compare")
  /\ Done(c, FALSE)
  /\ UNCHANGED <<record, tokens, since>>

\* OutdatedBriefly: Set is not given the deadline.
FaultySet(c) ==
  /\ At(c, "set")
  /\ tokens' = tokens \cup {t \in {frame[c].token} : Good(t)}
  /\ Done(c, TRUE)
  /\ UNCHANGED <<record, since>>

\* Only a Set that meets the deadline lets the client have the token.
Set(c) ==
  /\ At(c, "set")
  /\ frame[c].age < Late
  /\ tokens' = tokens \cup {t \in {frame[c].token} : Good(t)}
  /\ Done(c, TRUE)
  /\ UNCHANGED <<record, since>>

\* Redis may fail at any time.
SetPanics(c) ==
  /\ At(c, "set")
  /\ Exit
  /\ UNCHANGED <<record, tokens, since>>

-----------------------------------------------------------------------------
(* A request with a token.                                                 *)

\* authorize: nothing but the token is looked at.
Authorize(c, method, t) ==
  /\ frame[c] = Idle
  /\ IF Authorized(method, t.was)
     THEN Goto(c, [pc |-> "handle", method |-> method, token |-> t])
     ELSE Done(c, FALSE)
  /\ UNCHANGED <<record, tokens, since>>

Handles(c, method) == At(c, "handle") /\ frame[c].method = method

AddUser(c, u) ==
  /\ Handles(c, "addUser")
  /\ record[u] = Unborn
  /\ \E name \in Usernames, password \in Passwords, role \in Roles, actions \in Actions :
       Change(u, NewUser(name, password, role, actions))
  /\ Acknowledged(c)
  /\ UNCHANGED tokens

\* UpdateOne by the id: that there may be no such record is not looked at.
ChangeUser(c, u, change) ==
  /\ IF Stored(u) THEN Change(u, change) ELSE UNCHANGED <<record, since>>
  /\ Acknowledged(c)
  /\ UNCHANGED tokens

ChangeActionUser(c, u) ==
  /\ Handles(c, "changeActionUser")
  /\ \E role \in Roles, actions \in Actions :
       ChangeUser(c, u, [record[u] EXCEPT !.role = role, !.action = ActionList(role, actions)])

UpdateUser(c, u) ==
  /\ Handles(c, "updateUser")
  /\ \E name \in Usernames : ChangeUser(c, u, [record[u] EXCEPT !.username = name])

ChangePassUser(c, u) ==
  /\ Handles(c, "changePassUser")
  /\ \E password \in Passwords :
       ChangeUser(c, u, [record[u] EXCEPT !.password = password])

DeleteUser(c, u) ==
  /\ Handles(c, "deleteUser")
  /\ IF Stored(u) THEN Change(u, Gone) ELSE UNCHANGED <<record, since>>
  /\ Done(c, Stored(u))
  /\ UNCHANGED tokens

\* getUser returns the record of the token's user, getListUser those of all.
GetUsers(c) ==
  /\ Handles(c, "getUser") \/ Handles(c, "getListUser")
  /\ Done(c, Handles(c, "getListUser") \/ Stored(frame[c].token.issuer))
  /\ UNCHANGED <<record, tokens, since>>

\* A request that leaves users alone.
Export(c) ==
  /\ Handles(c, "export")
  /\ Done(c, TRUE)
  /\ UNCHANGED <<record, tokens, since>>

\* MongoDB fails.  This ends the process if it was to delete a user.
HandleFails(c) ==
  /\ At(c, "handle")
  /\ IF frame[c].method = "deleteUser" THEN Exit ELSE Done(c, FALSE)
  /\ UNCHANGED <<record, tokens, since>>

\* As in Acknowledged, but with the end of the process.
DeleteUserLost(c, u) ==
  /\ Handles(c, "deleteUser")
  /\ Stored(u)
  /\ Change(u, Gone)
  /\ Exit
  /\ UNCHANGED tokens

-----------------------------------------------------------------------------
(* The environment.                                                        *)

\* The process is killed.  It comes back with the same key.
Crash ==
  /\ \E c \in Requests : frame[c] # Idle
  /\ Exit
  /\ UNCHANGED <<record, tokens, since>>

Sooner(t) == [t EXCEPT !.left = IF @ > 0 THEN @ - 1 ELSE 0]
Later(f) == [pc |-> f.pc, age |-> IF f.age < Late THEN f.age + 1 ELSE Late,
             token |-> Sooner(f.token)]

Tick ==
  /\ tokens' = {t \in {Sooner(t) : t \in tokens} : Good(t)}
  /\ frame' = [c \in Requests |-> IF LoggingIn(frame[c]) THEN Later(frame[c]) ELSE frame[c]]
  /\ since' = [u \in Users |-> IF since[u] <= Duration THEN since[u] + 1 ELSE Duration + 1]
  /\ UNCHANGED record

-----------------------------------------------------------------------------

LoginStep(c) == (\E u \in Users : Login(c, u)) \/ Generate(c) \/ WrongPassword(c) \/ Set(c) \/ SetPanics(c)

HandleStep(c) ==
  \/ GetUsers(c) \/ Export(c) \/ HandleFails(c) \/ Return(c)
  \/ \E u \in Users :
       \/ AddUser(c, u) \/ ChangeActionUser(c, u) \/ UpdateUser(c, u)
       \/ ChangePassUser(c, u) \/ DeleteUser(c, u) \/ DeleteUserLost(c, u)

Next ==
  \/ \E c \in Requests :
       \/ LoginStep(c) \/ HandleStep(c)
       \/ \E method \in Methods, t \in tokens : Authorize(c, method, t)
  \/ Crash
  \/ Tick

Spec == Init /\ [][Next]_vars

-----------------------------------------------------------------------------
(* Properties.                                                             *)

\* A token outlives changes of the record it was made from: demotion, a new password, the
\* deletion of the user.  Whatever the handlers of other requests do meanwhile, a token
\* that is still good says what the record says, or the record has changed within the last
\* tokenDuration.  What makes this so is the deadline Login gives to Set: without it a
\* login that lingers after FindOne would hand out rights that were taken away long ago.
OutdatedBriefly ==
  \A t \in tokens : t.was = record[t.issuer] \/ since[t.issuer] <= Duration

Admin(r) == "admin" \in Claims(r)

\* No administrator on record, no token of one, and no login or request of one under way.
Powerless ==
  /\ \A u \in Users : Stored(u) => ~ Admin(record[u])
  /\ \A t \in tokens : ~ Admin(t.was)
  /\ \A c \in Requests : frame[c].pc \in {"compare", "set", "handle"} => ~ Admin(frame[c].token.was)

\* Administrators come only from administrators: once there is none, nor a token or a
\* request left from one, no sequence of requests leads to one again.
PowerFromPower == [][Powerless => Powerless']_vars

\* The API definition answers 404 for a resource that does not exist.  UpdateUser,
\* ChangePassUser and ChangeActionUser report success for the id of no record.
UnknownIdsRejected ==
  [][\A c \in Requests, u \in Users :
       ~ Stored(u) /\ (ChangeActionUser(c, u) \/ UpdateUser(c, u) \/ ChangePassUser(c, u))
         => ~ frame'[c].ok]_vars
=============================================================================
