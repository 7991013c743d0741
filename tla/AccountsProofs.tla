---------------------------- MODULE AccountsProofs ----------------------------
(***************************************************************************)
(* Proofs about Accounts for any number of users and requests and any life *)
(* of a token: type correctness, that outdated tokens are so only briefly,  *)
(* and that administrators come only from administrators.                  *)
(***************************************************************************)
EXTENDS Accounts, TLAPS

\* A frame that works on a login or with a token has the fields this takes.
LEMMA FrameFields ==
  ASSUME NEW f \in Frame
  PROVE  /\ f.pc = "compare" \/ f.pc = "set" =>
              /\ f \in [pc : {"compare", "set"}, token : Token, age : 0..Late]
              /\ f.token \in Token
              /\ f.age \in 0..Late
         /\ f.pc = "handle" =>
              /\ f \in [pc : {"handle"}, method : Methods, token : Token]
              /\ f.token \in Token
              /\ f.method \in Methods
  BY DEF Frame, Idle

LEMMA TokenFields ==
  ASSUME NEW t \in Token
  PROVE  t.issuer \in Users /\ t.was \in Record /\ t.left \in 0..Duration
  BY DEF Token

\* What is on record in the state "stored" is a record.
LEMMA StoredRecord ==
  ASSUME TypeOK, NEW u \in Users, Stored(u)
  PROVE  record[u] \in Record
  BY DEF TypeOK, Stored, Unborn, Gone

LEMMA ActionListType ==
  ASSUME NEW role \in Roles, NEW actions \in Actions
  PROVE  ActionList(role, actions) \in SUBSET Rights
<1>1. CASE role = "admin"
  BY <1>1 DEF ActionList, Rights
<1>2. CASE role = "assistant"
  BY <1>2 DEF ActionList, Rights
<1>3. CASE role = "staff"
  BY <1>3 DEF ActionList, Rights
<1> QED
  BY <1>1, <1>2, <1>3 DEF Roles

LEMMA NewUserType ==
  ASSUME NEW name \in Usernames, NEW password \in Passwords, NEW role \in Roles,
         NEW actions \in Actions
  PROVE  NewUser(name, password, role, actions) \in Record
  BY ActionListType DEF NewUser, Record

-----------------------------------------------------------------------------
(* The three ways to change a record.                                      *)

LEMMA ChangedAction ==
  ASSUME NEW r \in Record, NEW role \in Roles, NEW actions \in Actions
  PROVE  [r EXCEPT !.role = role, !.action = ActionList(role, actions)] \in Record
  BY ActionListType DEF Record

LEMMA ChangedName ==
  ASSUME NEW r \in Record, NEW name \in Usernames
  PROVE  /\ [r EXCEPT !.username = name] \in Record
         /\ Claims([r EXCEPT !.username = name]) = Claims(r)
  BY DEF Record, Claims

LEMMA ChangedPassword ==
  ASSUME NEW r \in Record, NEW password \in Passwords
  PROVE  /\ [r EXCEPT !.password = password] \in Record
         /\ Claims([r EXCEPT !.password = password]) = Claims(r)
  BY DEF Record, Claims

LEMMA SoonerFields ==
  ASSUME NEW t \in Token
  PROVE  /\ Sooner(t) \in Token
         /\ Sooner(t).issuer = t.issuer
         /\ Sooner(t).was = t.was
         /\ Sooner(t).left = IF t.left > 0 THEN t.left - 1 ELSE 0
  BY ConstantsOK DEF Token, Sooner

LEMMA LaterFields ==
  ASSUME NEW f \in Frame, LoggingIn(f)
  PROVE  /\ Later(f) \in Frame
         /\ LoggingIn(Later(f))
         /\ Later(f).pc = f.pc
         /\ Later(f).token = Sooner(f.token)
         /\ Later(f).age = IF f.age < Late THEN f.age + 1 ELSE Late
<1>1. /\ f.pc \in {"compare", "set"}
      /\ f.token \in Token
      /\ f.age \in 0..Late
  BY FrameFields DEF LoggingIn
<1>2. Sooner(f.token) \in Token
  BY <1>1, SoonerFields
<1>3. (IF f.age < Late THEN f.age + 1 ELSE Late) \in 0..Late
  BY <1>1 DEF Late
<1> QED
  BY <1>1, <1>2, <1>3 DEF Later, LoggingIn, Frame

-----------------------------------------------------------------------------
(* Type correctness.                                                       *)

\* What the steps do that leave tokens alone and make no login go on: the frames
\* they leave, and the records they change.
Aside ==
  /\ tokens' = tokens
  /\ frame' \in [Requests -> Frame]
  /\ \A c \in Requests : frame'[c] = frame[c] \/ frame'[c].pc \in {"idle", "handle", "done"}

Untouched(u) == record'[u] = record[u] /\ since'[u] = since[u]

Calm == Aside /\ UNCHANGED <<record, since>>

Write ==
  /\ Aside
  /\ record' \in [Users -> Record \cup {Unborn, Gone}]
  /\ since' \in [Users -> 0..Duration + 1]
  /\ \A u \in Users : Untouched(u) \/ since'[u] = 0

LEMMA GotoAside ==
  ASSUME TypeOK, NEW c \in Requests, NEW f \in Frame, f.pc \in {"idle", "handle", "done"},
         Goto(c, f), UNCHANGED tokens
  PROVE  Aside
  BY DEF Aside, Goto, TypeOK

LEMMA DoneAside ==
  ASSUME TypeOK, NEW c \in Requests, NEW ok \in BOOLEAN, Done(c, ok), UNCHANGED tokens
  PROVE  Aside
<1>1. [pc |-> "done", ok |-> ok] \in Frame
  BY DEF Frame
<1> QED
  BY <1>1, GotoAside DEF Done

LEMMA ExitAside ==
  ASSUME TypeOK, Exit, UNCHANGED tokens
  PROVE  Aside
  BY DEF Aside, Exit, TypeOK, Frame, Idle

LEMMA CalmSteps ==
  ASSUME TypeOK, NEW c \in Requests,
         \/ WrongPassword(c) \/ SetPanics(c) \/ GetUsers(c) \/ Export(c) \/ HandleFails(c)
         \/ Return(c) \/ Crash
         \/ \E method \in Methods, t \in tokens : Authorize(c, method, t)
  PROVE  Calm
<1>1. CASE WrongPassword(c)
  BY <1>1, DoneAside DEF WrongPassword, Calm
<1>2. CASE SetPanics(c)
  BY <1>2, ExitAside DEF SetPanics, Calm
<1>3. CASE GetUsers(c)
  <2> DEFINE ok == Handles(c, "getListUser") \/ Stored(frame[c].token.issuer)
  <2>1. ok \in BOOLEAN
    OBVIOUS
  <2> HIDE DEF ok
  <2>2. Done(c, ok)
    BY <1>3 DEF GetUsers, ok
  <2> QED
    BY <1>3, <2>1, <2>2, DoneAside DEF GetUsers, Calm
<1>4. CASE HandleFails(c)
  BY <1>4, DoneAside, ExitAside DEF HandleFails, Calm
<1>5. CASE Return(c)
  BY <1>5, GotoAside DEF Return, Calm, Frame, Idle
<1>6. CASE Crash
  BY <1>6, ExitAside DEF Crash, Calm
<1>7. ASSUME NEW method \in Methods, NEW t \in tokens, Authorize(c, method, t)
      PROVE  Calm
  <2>1. t \in Token
    BY DEF TypeOK
  <2>2. [pc |-> "handle", method |-> method, token |-> t] \in Frame
    BY <2>1 DEF Frame
  <2>3. Aside
    BY <1>7, <2>2, GotoAside, DoneAside DEF Authorize
  <2> QED
    BY <1>7, <2>3 DEF Authorize, Calm
<1>8. CASE Export(c)
  BY <1>8, DoneAside DEF Export, Calm
<1> QED
  BY <1>1, <1>2, <1>3, <1>4, <1>5, <1>6, <1>7, <1>8

LEMMA ChangeWrites ==
  ASSUME TypeOK, Aside, NEW u \in Users, NEW r \in Record \cup {Gone}, Change(u, r)
  PROVE  Write
  BY ConstantsOK DEF Write, Change, TypeOK, Untouched

LEMMA CalmWrites ==
  ASSUME TypeOK, Calm
  PROVE  Write
  BY DEF Calm, Write, TypeOK, Untouched

LEMMA ChangeUserWrites ==
  ASSUME TypeOK, NEW c \in Requests, NEW u \in Users, NEW r, Stored(u) => r \in Record,
         ChangeUser(c, u, r)
  PROVE  Write
<1>1. Aside
  BY DoneAside DEF ChangeUser, Acknowledged
<1>2. CASE Stored(u)
  BY <1>1, <1>2, ChangeWrites DEF ChangeUser
<1>3. CASE ~ Stored(u)
  BY <1>1, <1>3, CalmWrites DEF ChangeUser, Calm
<1> QED
  BY <1>2, <1>3

LEMMA WriteSteps ==
  ASSUME TypeOK, NEW c \in Requests, NEW u \in Users,
         \/ AddUser(c, u) \/ ChangeActionUser(c, u) \/ UpdateUser(c, u)
         \/ ChangePassUser(c, u) \/ DeleteUser(c, u) \/ DeleteUserLost(c, u)
  PROVE  Write
<1> USE ConstantsOK
<1>1. CASE AddUser(c, u)
  <2>1. PICK name \in Usernames, password \in Passwords, role \in Roles, actions \in Actions :
          Change(u, NewUser(name, password, role, actions))
    BY <1>1 DEF AddUser
  <2>2. Aside
    BY <1>1, DoneAside DEF AddUser, Acknowledged
  <2> QED
    BY <2>1, <2>2, NewUserType, ChangeWrites
<1>2. CASE ChangeActionUser(c, u)
  <2>1. PICK role \in Roles, actions \in Actions :
          ChangeUser(c, u, [record[u] EXCEPT !.role = role, !.action = ActionList(role, actions)])
    BY <1>2 DEF ChangeActionUser
  <2>2. Stored(u) =>
          [record[u] EXCEPT !.role = role, !.action = ActionList(role, actions)] \in Record
    BY StoredRecord, ChangedAction
  <2> QED
    BY <2>1, <2>2, ChangeUserWrites
<1>3. CASE UpdateUser(c, u)
  <2>1. PICK name \in Usernames : ChangeUser(c, u, [record[u] EXCEPT !.username = name])
    BY <1>3 DEF UpdateUser
  <2>2. Stored(u) => [record[u] EXCEPT !.username = name] \in Record
    BY StoredRecord, ChangedName
  <2> QED
    BY <2>1, <2>2, ChangeUserWrites
<1>4. CASE ChangePassUser(c, u)
  <2>1. PICK password \in Passwords :
          ChangeUser(c, u, [record[u] EXCEPT !.password = password])
    BY <1>4 DEF ChangePassUser
  <2>2. Stored(u) => [record[u] EXCEPT !.password = password] \in Record
    BY StoredRecord, ChangedPassword
  <2> QED
    BY <2>1, <2>2, ChangeUserWrites
<1>5. CASE DeleteUser(c, u)
  <2>1. Stored(u) \in BOOLEAN
    BY DEF Stored
  <2>2. Aside
    BY <1>5, <2>1, DoneAside DEF DeleteUser
  <2>3. CASE Stored(u)
    BY <1>5, <2>2, <2>3, ChangeWrites DEF DeleteUser
  <2>4. CASE ~ Stored(u)
    BY <1>5, <2>2, <2>4, CalmWrites DEF DeleteUser, Calm
  <2> QED
    BY <2>3, <2>4
<1>6. CASE DeleteUserLost(c, u)
  BY <1>6, ExitAside, ChangeWrites DEF DeleteUserLost
<1> QED
  BY <1>1, <1>2, <1>3, <1>4, <1>5, <1>6

\* Every step writes, goes on with a login, or lets time pass.
LEMMA StepKinds ==
  ASSUME TypeOK, [Next]_vars
  PROVE  \/ Write
         \/ \E c \in Requests : (\E u \in Users : Login(c, u)) \/ Generate(c) \/ Set(c)
         \/ Tick
<1>1. CASE UNCHANGED vars
  <2>1. Calm
    BY <1>1 DEF vars, Calm, Aside, TypeOK
  <2> QED
    BY <2>1, CalmWrites
<1>2. ASSUME NEW c \in Requests, LoginStep(c)
      PROVE  \/ Write
             \/ (\E u \in Users : Login(c, u)) \/ Generate(c) \/ Set(c)
  BY <1>2, CalmSteps, CalmWrites DEF LoginStep
<1>3. ASSUME NEW c \in Requests, HandleStep(c)
      PROVE  Write
  BY <1>3, CalmSteps, CalmWrites, WriteSteps DEF HandleStep
<1>4. ASSUME NEW c \in Requests, \E method \in Methods, t \in tokens : Authorize(c, method, t)
      PROVE  Write
  BY <1>4, CalmSteps, CalmWrites
<1>5. CASE Crash
  <2>1. PICK c \in Requests : frame[c] # Idle
    BY <1>5 DEF Crash
  <2> QED
    BY <1>5, <2>1, CalmSteps, CalmWrites
<1> QED
  BY <1>1, <1>2, <1>3, <1>4, <1>5 DEF Next

LEMMA LoginFrames ==
  ASSUME TypeOK, NEW c \in Requests
  PROVE  /\ \A u \in Users : Login(c, u) =>
              /\ UNCHANGED <<record, tokens, since>>
              /\ frame' \in [Requests -> Frame]
              /\ \A d \in Requests \ {c} : frame'[d] = frame[d]
              /\ frame'[c].pc = "compare" /\ frame'[c].age = 0
              /\ frame'[c].token.issuer = u /\ frame'[c].token.was = record[u]
              /\ Stored(u)
         /\ Generate(c) =>
              /\ UNCHANGED <<record, tokens, since>>
              /\ frame' \in [Requests -> Frame]
              /\ \A d \in Requests \ {c} : frame'[d] = frame[d]
              /\ frame[c].pc = "compare"
              /\ frame'[c].pc = "set" /\ frame'[c].age = frame[c].age
              /\ frame'[c].token.issuer = frame[c].token.issuer
              /\ frame'[c].token.was = frame[c].token.was
              /\ frame'[c].token.left = Duration
         /\ Set(c) =>
              /\ UNCHANGED <<record, since>>
              /\ frame' \in [Requests -> Frame]
              /\ \A d \in Requests \ {c} : frame'[d] = frame[d]
              /\ frame'[c].pc = "done"
              /\ frame[c].pc = "set" /\ frame[c].age < Late
              /\ frame[c].token \in Token
              /\ tokens' = tokens \cup {t \in {frame[c].token} : Good(t)}
<1>1. ASSUME NEW u \in Users, Login(c, u)
      PROVE  LET t == [issuer |-> u, was |-> record[u], left |-> 0] IN
             /\ t \in Token
             /\ [pc |-> "compare", age |-> 0, token |-> t] \in Frame
  <2>1. [issuer |-> u, was |-> record[u], left |-> 0] \in Token
    BY <1>1, ConstantsOK, StoredRecord DEF Login, Token
  <2> QED
    BY <2>1 DEF Frame, Late
<1>2. ASSUME Generate(c)
      PROVE  LET t == [frame[c].token EXCEPT !.left = Duration] IN
             /\ t \in Token
             /\ t.issuer = frame[c].token.issuer
             /\ t.was = frame[c].token.was
             /\ t.left = Duration
             /\ [pc |-> "set", age |-> frame[c].age, token |-> t] \in Frame
  <2>1. frame[c].token \in Token /\ frame[c].age \in 0..Late
    BY <1>2, FrameFields DEF Generate, At, TypeOK
  <2> QED
    BY <2>1, ConstantsOK DEF Frame, Token
<1>3. ASSUME Set(c)
      PROVE  frame[c].token \in Token /\ [pc |-> "done", ok |-> TRUE] \in Frame
  <2>1. frame[c].token \in Token
    BY <1>3, FrameFields DEF Set, At, TypeOK
  <2> QED
    BY <2>1 DEF Frame
<1>4. \A u \in Users : Login(c, u) =>
        /\ UNCHANGED <<record, tokens, since>>
        /\ frame' \in [Requests -> Frame]
        /\ \A d \in Requests \ {c} : frame'[d] = frame[d]
        /\ frame'[c].pc = "compare" /\ frame'[c].age = 0
        /\ frame'[c].token.issuer = u /\ frame'[c].token.was = record[u]
        /\ Stored(u)
  <2> SUFFICES ASSUME NEW u \in Users, Login(c, u)
               PROVE  /\ UNCHANGED <<record, tokens, since>>
                      /\ frame' \in [Requests -> Frame]
                      /\ \A d \in Requests \ {c} : frame'[d] = frame[d]
                      /\ frame'[c].pc = "compare" /\ frame'[c].age = 0
                      /\ frame'[c].token.issuer = u /\ frame'[c].token.was = record[u]
                      /\ Stored(u)
    OBVIOUS
  <2> DEFINE f == [pc |-> "compare", age |-> 0,
                   token |-> [issuer |-> u, was |-> record[u], left |-> 0]]
  <2>1. f \in Frame
    BY <1>1
  <2>2. /\ f.pc = "compare" /\ f.age = 0
        /\ f.token.issuer = u /\ f.token.was = record[u]
    OBVIOUS
  <2>3. Goto(c, f)
    BY DEF Login
  <2> HIDE DEF f
  <2> QED
    BY <2>1, <2>2, <2>3 DEF Login, Goto, TypeOK
<1>5. Generate(c) =>
        /\ UNCHANGED <<record, tokens, since>>
        /\ frame' \in [Requests -> Frame]
        /\ \A d \in Requests \ {c} : frame'[d] = frame[d]
        /\ frame[c].pc = "compare"
        /\ frame'[c].pc = "set" /\ frame'[c].age = frame[c].age
        /\ frame'[c].token.issuer = frame[c].token.issuer
        /\ frame'[c].token.was = frame[c].token.was
        /\ frame'[c].token.left = Duration
  BY <1>2 DEF Generate, Goto, At, TypeOK
<1>6. Set(c) =>
        /\ UNCHANGED <<record, since>>
        /\ frame' \in [Requests -> Frame]
        /\ \A d \in Requests \ {c} : frame'[d] = frame[d]
        /\ frame'[c].pc = "done"
        /\ frame[c].pc = "set" /\ frame[c].age < Late
        /\ frame[c].token \in Token
        /\ tokens' = tokens \cup {t \in {frame[c].token} : Good(t)}
  BY <1>3 DEF Set, Done, Goto, At, TypeOK
<1> QED
  BY <1>4, <1>5, <1>6

LEMMA TickTyped ==
  ASSUME TypeOK, Tick
  PROVE  TypeOK'
<1>1. tokens' \in SUBSET {t \in Token : t.left > 0}
  BY SoonerFields DEF TypeOK, Tick, Good
<1>2. frame' \in [Requests -> Frame]
  BY LaterFields DEF TypeOK, Tick
<1>3. since' \in [Users -> 0..Duration + 1]
  BY ConstantsOK DEF TypeOK, Tick
<1> QED
  BY <1>1, <1>2, <1>3 DEF TypeOK, Tick

LEMMA NextTyped ==
  ASSUME TypeOK, [Next]_vars
  PROVE  TypeOK'
<1>1. CASE Write
  BY <1>1 DEF Write, Aside, TypeOK
<1>2. CASE Tick
  BY <1>2, TickTyped
<1>3. ASSUME NEW c \in Requests, (\E u \in Users : Login(c, u)) \/ Generate(c)
      PROVE  TypeOK'
  BY <1>3, LoginFrames DEF TypeOK
<1>4. ASSUME NEW c \in Requests, Set(c)
      PROVE  TypeOK'
  BY <1>4, LoginFrames DEF TypeOK, Good
<1> QED
  BY <1>1, <1>2, <1>3, <1>4, StepKinds

LEMMA InitTyped ==
  ASSUME Init
  PROVE  TypeOK
<1>1. PICK name \in Usernames, password \in Passwords :
        record = [u \in Users |-> IF u = Founder THEN NewUser(name, password, "admin", {})
                                  ELSE Unborn]
  BY DEF Init
<1>2. NewUser(name, password, "admin", {}) \in Record
  BY DEF NewUser, ActionList, Record, Roles, Rights
<1>3. record \in [Users -> Record \cup {Unborn, Gone}]
  BY <1>1, <1>2
<1> QED
  BY <1>3, ConstantsOK DEF Init, TypeOK, Frame

\* Records, tokens and the state of every request are well typed, whatever fails.
THEOREM TypeCorrect == Spec => []TypeOK
<1> QED
  BY InitTyped, NextTyped, PTL DEF Spec

-----------------------------------------------------------------------------
(* Outdated tokens.  The time since a record changed and the time its older *)
(* tokens have left add up to no more than the life of a token and a tick,  *)
(* the one that may begin during a login.                                   *)

Current(t) == t.was = record[t.issuer]

FreshTokens ==
  \A t \in tokens : Current(t) \/ since[t.issuer] + t.left <= Duration + 1

FreshLogin(f) ==
  LoggingIn(f) /\ f.age < Late /\ ~ Current(f.token) =>
    /\ since[f.token.issuer] <= f.age
    /\ f.pc = "set" => since[f.token.issuer] + f.token.left <= Duration + 1

Fresh == FreshTokens /\ \A c \in Requests : FreshLogin(frame[c])

\* The tokens and logins that were fresh stay so when records change.
LEMMA WriteFresh ==
  ASSUME TypeOK, Fresh, Write
  PROVE  Fresh'
<1>1. ASSUME NEW t \in Token, Current(t) \/ since[t.issuer] + t.left <= Duration + 1
      PROVE  Current(t)' \/ since'[t.issuer] + t.left <= Duration + 1
  <2>1. t.issuer \in Users /\ t.left \in 0..Duration
    BY TokenFields
  <2> QED
    BY <1>1, <2>1, ConstantsOK DEF Write, Untouched, Current
<1>2. FreshTokens'
  BY <1>1 DEF FreshTokens, Fresh, Write, Aside, TypeOK
<1>3. ASSUME NEW c \in Requests
      PROVE  FreshLogin(frame[c])'
  <2>1. CASE frame'[c].pc \in {"idle", "handle", "done"}
    BY <2>1 DEF FreshLogin, LoggingIn
  <2>2. CASE frame'[c] = frame[c] /\ LoggingIn(frame[c])
    <3> DEFINE t == frame[c].token
    <3>1. frame[c] \in Frame /\ frame[c].pc \in {"compare", "set"}
      BY <2>2 DEF TypeOK, LoggingIn
    <3>2. t \in Token /\ frame[c].age \in 0..Late
      BY <3>1, FrameFields
    <3>3. t.issuer \in Users /\ t.left \in 0..Duration
      BY <3>2, TokenFields
    <3>4. Untouched(t.issuer) \/ since'[t.issuer] = 0
      BY <3>3 DEF Write
    <3>5. FreshLogin(frame[c])
      BY DEF Fresh
    <3>6. CASE Untouched(t.issuer)
      BY <2>2, <3>5, <3>6 DEF FreshLogin, Untouched, Current
    <3>7. CASE since'[t.issuer] = 0
      BY <2>2, <3>2, <3>3, <3>7, ConstantsOK DEF FreshLogin
    <3> QED
      BY <3>4, <3>6, <3>7
  <2>3. CASE frame'[c] = frame[c] /\ ~ LoggingIn(frame[c])
    BY <2>3 DEF FreshLogin
  <2> QED
    BY <2>1, <2>2, <2>3 DEF Write, Aside
<1> QED
  BY <1>2, <1>3 DEF Fresh

LEMMA LoginFresh ==
  ASSUME TypeOK, Fresh, NEW c \in Requests,
         (\E u \in Users : Login(c, u)) \/ Generate(c) \/ Set(c)
  PROVE  Fresh'
<1>1. UNCHANGED <<record, since>>
  BY LoginFrames
<1>2. ASSUME NEW d \in Requests \ {c}
      PROVE  FreshLogin(frame[d])'
  <2>1. frame'[d] = frame[d]
    BY LoginFrames
  <2> QED
    BY <1>1, <2>1 DEF Fresh, FreshLogin, Current
<1>3. ASSUME NEW u \in Users, Login(c, u)
      PROVE  Fresh'
  <2>1. FreshTokens'
    BY <1>1, <1>3, LoginFrames DEF Fresh, FreshTokens, Current
  <2>2. FreshLogin(frame[c])'
    BY <1>1, <1>3, LoginFrames DEF FreshLogin, Current
  <2> QED
    BY <1>2, <2>1, <2>2 DEF Fresh
<1>4. CASE Generate(c)
  <2>1. FreshTokens'
    BY <1>1, <1>4, LoginFrames DEF Fresh, FreshTokens, Current
  <2>2. frame[c] \in Frame /\ frame[c].pc = "compare"
    BY <1>4, LoginFrames DEF TypeOK
  <2>3. frame[c].token \in Token /\ frame[c].age \in 0..Late
    BY <2>2, FrameFields
  <2>4. frame[c].token.issuer \in Users
    BY <2>3, TokenFields
  <2>5. since[frame[c].token.issuer] \in Nat
    BY <2>4, ConstantsOK DEF TypeOK
  <2>6. FreshLogin(frame[c])
    BY DEF Fresh
  <2>7. frame[c].age < Late /\ ~ Current(frame[c].token) =>
          since[frame[c].token.issuer] <= frame[c].age
    BY <2>2, <2>6 DEF FreshLogin, LoggingIn
  <2>8. frame[c].age < Late => frame[c].age <= 1
    BY <2>3 DEF Late
  <2>9. /\ frame'[c].age = frame[c].age
        /\ frame'[c].token.issuer = frame[c].token.issuer
        /\ frame'[c].token.was = frame[c].token.was
        /\ frame'[c].token.left = Duration
    BY <1>4, LoginFrames
  <2>10. FreshLogin(frame[c])'
    BY <1>1, <2>3, <2>5, <2>7, <2>8, <2>9, ConstantsOK DEF FreshLogin, Current, Late
  <2> QED
    BY <1>2, <2>1, <2>10 DEF Fresh
<1>5. CASE Set(c)
  <2>1. FreshLogin(frame[c])'
    BY <1>5, LoginFrames DEF FreshLogin, LoggingIn
  <2>2. /\ frame[c].pc = "set" /\ frame[c].age < Late
        /\ tokens' = tokens \cup {t \in {frame[c].token} : Good(t)}
    BY <1>5, LoginFrames
  <2>3. FreshLogin(frame[c])
    BY DEF Fresh
  <2>4. FreshTokens'
    BY <1>1, <2>2, <2>3 DEF Fresh, FreshTokens, FreshLogin, LoggingIn, Current
  <2> QED
    BY <1>2, <2>1, <2>4 DEF Fresh
<1> QED
  BY <1>3, <1>4, <1>5

LEMMA TickFresh ==
  ASSUME TypeOK, Fresh, Tick
  PROVE  Fresh'
<1>1. \A u \in Users : since[u] \in Nat /\ since'[u] \in Nat /\ since'[u] <= since[u] + 1
  BY ConstantsOK DEF TypeOK, Tick
<1>2. record' = record
  BY DEF Tick
<1>3. ASSUME NEW t \in tokens'
      PROVE  Current(t)' \/ since'[t.issuer] + t.left <= Duration + 1
  <2>1. PICK s \in tokens : t = Sooner(s) /\ Good(t)
    BY DEF Tick
  <2>2. s \in Token /\ s.left > 0
    BY DEF TypeOK
  <2>3. t.issuer = s.issuer /\ t.was = s.was /\ t.left = s.left - 1
    BY <2>1, <2>2, SoonerFields
  <2>4. s.issuer \in Users /\ s.left \in Nat
    BY <2>2, TokenFields, ConstantsOK
  <2>5. Current(s) \/ since[s.issuer] + s.left <= Duration + 1
    BY DEF Fresh, FreshTokens
  <2> QED
    BY <1>1, <1>2, <2>3, <2>4, <2>5, ConstantsOK DEF Current
<1>4. ASSUME NEW c \in Requests
      PROVE  FreshLogin(frame[c])'
  <2>1. CASE ~ LoggingIn(frame[c])
    BY <2>1 DEF Tick, FreshLogin
  <2>2. CASE LoggingIn(frame[c])
    <3> DEFINE f == frame[c]
               g == Later(f)
    <3>1. f \in Frame /\ frame'[c] = g
      BY <2>2 DEF TypeOK, Tick
    <3>2. f.token \in Token /\ f.age \in 0..Late
      BY <2>2, <3>1, FrameFields DEF LoggingIn
    <3>3. f.token.issuer \in Users /\ f.token.left \in 0..Duration
      BY <3>2, TokenFields
    <3>4. /\ g.pc = f.pc
          /\ g.token.issuer = f.token.issuer /\ g.token.was = f.token.was
          /\ g.token.left = IF f.token.left > 0 THEN f.token.left - 1 ELSE 0
          /\ g.age = IF f.age < Late THEN f.age + 1 ELSE Late
      BY <2>2, <3>1, <3>2, LaterFields, SoonerFields
    <3>5. FreshLogin(f)
      BY DEF Fresh
    <3> HIDE DEF f, g
    <3>7. SUFFICES ASSUME g.age < Late, ~ (g.token.was = record[g.token.issuer])
                   PROVE  /\ since'[g.token.issuer] <= g.age
                          /\ g.pc = "set" => since'[g.token.issuer] + g.token.left <= Duration + 1
      BY <1>2, <3>1 DEF FreshLogin, Current
    <3>8. f.age < Late /\ g.age = f.age + 1 /\ g.age <= 1
      BY <3>2, <3>4, <3>7 DEF Late
    <3>9. /\ since[f.token.issuer] <= f.age
          /\ f.pc = "set" => since[f.token.issuer] + f.token.left <= Duration + 1
      BY <2>2, <3>4, <3>5, <3>7, <3>8 DEF FreshLogin, Current, f
    <3>10. since'[f.token.issuer] <= since[f.token.issuer] + 1
      BY <1>1, <3>3
    <3>11. since'[g.token.issuer] <= g.age
      BY <1>1, <3>2, <3>3, <3>4, <3>8, <3>9, <3>10
    <3>12. CASE f.token.left > 0
      BY <1>1, <3>3, <3>4, <3>9, <3>10, <3>11, <3>12, ConstantsOK
    <3>13. CASE f.token.left = 0
      BY <1>1, <3>2, <3>3, <3>4, <3>8, <3>11, <3>13, ConstantsOK DEF Late
    <3> QED
      BY <3>3, <3>11, <3>12, <3>13, ConstantsOK
  <2> QED
    BY <2>1, <2>2
<1> QED
  BY <1>3, <1>4 DEF Fresh, FreshTokens

\* A token that says what the record no longer says is younger than the record is old.
THEOREM OutdatedBrieflyHolds == Spec => []OutdatedBriefly
<1>1. Init => TypeOK /\ Fresh
  BY InitTyped DEF Init, Fresh, FreshTokens, FreshLogin, LoggingIn, Idle
<1>2. TypeOK /\ Fresh /\ [Next]_vars => (TypeOK /\ Fresh)'
  BY NextTyped, StepKinds, WriteFresh, LoginFresh, TickFresh
<1>3. TypeOK /\ Fresh => OutdatedBriefly
  <2> SUFFICES ASSUME TypeOK, Fresh, NEW t \in tokens
               PROVE  t.was = record[t.issuer] \/ since[t.issuer] <= Duration
    BY DEF OutdatedBriefly
  <2>1. t \in Token /\ t.left > 0
    BY DEF TypeOK
  <2>2. t.issuer \in Users /\ t.left \in Nat
    BY <2>1, TokenFields, ConstantsOK
  <2>3. since[t.issuer] \in Nat
    BY <2>2, ConstantsOK DEF TypeOK
  <2> QED
    BY <2>1, <2>2, <2>3, ConstantsOK DEF Fresh, FreshTokens, Current
<1> QED
  BY <1>1, <1>2, <1>3, PTL DEF Spec

-----------------------------------------------------------------------------
(* Power.  A request that has passed authorize still has the claims for it, *)
(* so that without an administrator's token no request that gives power, or *)
(* takes it, is under way.                                                  *)

Authentic ==
  \A c \in Requests : At(c, "handle") => Authorized(frame[c].method, frame[c].token.was)

\* Only authorize lets a request into a handler, and only with a token that is good.
LEMMA NewHandle ==
  ASSUME TypeOK, [Next]_vars, NEW c \in Requests, frame'[c].pc = "handle"
  PROVE  \/ frame'[c] = frame[c]
         \/ frame'[c].token \in tokens /\ Authorized(frame'[c].method, frame'[c].token.was)
<1> DEFINE Claim == \/ frame'[c] = frame[c]
                    \/ /\ frame'[c].token \in tokens
                       /\ Authorized(frame'[c].method, frame'[c].token.was)
<1>1. ASSUME NEW d \in Requests, NEW ok, Done(d, ok)
      PROVE  Claim
  BY <1>1 DEF Done, Goto, TypeOK
<1>2. CASE Exit
  BY <1>2 DEF Exit, Idle
<1>3. CASE UNCHANGED vars
  BY <1>3 DEF vars
<1>4. ASSUME NEW d \in Requests, (\E u \in Users : Login(d, u)) \/ Generate(d) \/ Set(d)
      PROVE  Claim
  BY <1>4, LoginFrames
<1>5. ASSUME NEW d \in Requests, LoginStep(d)
      PROVE  Claim
  BY <1>1, <1>2, <1>4, <1>5 DEF LoginStep, WrongPassword, SetPanics
<1>6. ASSUME NEW d \in Requests, GetUsers(d) \/ Export(d) \/ HandleFails(d) \/ Return(d)
      PROVE  Claim
  <2>1. CASE Return(d)
    BY <2>1 DEF Return, Goto, Idle, TypeOK
  <2> QED
    BY <1>1, <1>2, <1>6, <2>1 DEF GetUsers, Export, HandleFails
<1>7. ASSUME NEW d \in Requests, NEW u \in Users,
             \/ AddUser(d, u) \/ ChangeActionUser(d, u) \/ UpdateUser(d, u)
             \/ ChangePassUser(d, u) \/ DeleteUser(d, u) \/ DeleteUserLost(d, u)
      PROVE  Claim
  BY <1>1, <1>2, <1>7 DEF AddUser, ChangeActionUser, UpdateUser, ChangePassUser, ChangeUser,
                          Acknowledged, DeleteUser, DeleteUserLost
<1>8. ASSUME NEW d \in Requests, NEW method \in Methods, NEW t \in tokens,
             Authorize(d, method, t)
      PROVE  Claim
  <2>1. CASE Authorized(method, t.was)
    BY <1>8, <2>1 DEF Authorize, Goto, TypeOK
  <2>2. CASE ~ Authorized(method, t.was)
    BY <1>1, <1>8, <2>2 DEF Authorize
  <2> QED
    BY <2>1, <2>2
<1>9. CASE Tick
  <2>1. frame'[c] = IF LoggingIn(frame[c]) THEN Later(frame[c]) ELSE frame[c]
    BY <1>9 DEF Tick
  <2>2. LoggingIn(frame[c]) => Later(frame[c]).pc # "handle"
    BY LaterFields DEF TypeOK, LoggingIn
  <2> QED
    BY <2>1, <2>2
<1>10. CASE Crash
  BY <1>2, <1>10 DEF Crash
<1> QED
  BY <1>3, <1>5, <1>6, <1>7, <1>8, <1>9, <1>10 DEF Next, HandleStep

LEMMA NextAuthentic ==
  ASSUME TypeOK, Authentic, [Next]_vars
  PROVE  Authentic'
  BY NewHandle DEF Authentic, At

LEMMA PowerlessHandlers ==
  ASSUME Powerless, Authentic, NEW c \in Requests, At(c, "handle")
  PROVE  frame[c].method \notin {"addUser", "changeActionUser", "deleteUser"}
<1>1. "admin" \notin Claims(frame[c].token.was)
  BY DEF Powerless, At, Admin
<1>2. AccessibleRoles[frame[c].method] \cap Claims(frame[c].token.was) # {}
  BY DEF Authentic, Authorized
<1>3. /\ AccessibleRoles["addUser"] = {"admin"}
      /\ AccessibleRoles["changeActionUser"] = {"admin"}
      /\ AccessibleRoles["deleteUser"] = {"admin"}
  BY DEF AccessibleRoles
<1> QED
  BY <1>1, <1>2, <1>3

\* Only six actions write records.
LEMMA RecordSteps ==
  ASSUME TypeOK, [Next]_vars
  PROVE  \/ UNCHANGED record
         \/ \E c \in Requests, u \in Users :
              \/ AddUser(c, u) \/ ChangeActionUser(c, u) \/ UpdateUser(c, u)
              \/ ChangePassUser(c, u) \/ DeleteUser(c, u) \/ DeleteUserLost(c, u)
  BY DEF Next, vars, LoginStep, HandleStep, Login, Generate, WrongPassword, Set, SetPanics,
         GetUsers, Export, HandleFails, Return, Authorize, Crash, Tick

LEMMA WeakRecords ==
  ASSUME TypeOK, Powerless, Authentic, [Next]_vars, NEW v \in Users, Stored(v)'
  PROVE  ~ Admin(record'[v])
<1>1. CASE UNCHANGED record
  BY <1>1 DEF Powerless, Stored
<1>2. ASSUME NEW c \in Requests, NEW u \in Users,
             \/ AddUser(c, u) \/ ChangeActionUser(c, u) \/ DeleteUser(c, u) \/ DeleteUserLost(c, u)
      PROVE  FALSE
  BY <1>2, PowerlessHandlers
     DEF AddUser, ChangeActionUser, DeleteUser, DeleteUserLost, Handles
<1>3. ASSUME NEW c \in Requests, NEW u \in Users, NEW r, ChangeUser(c, u, r),
             Stored(u) => Claims(r) = Claims(record[u])
      PROVE  ~ Admin(record'[v])
  <2>1. CASE Stored(u) /\ v = u
    <3>1. record'[v] = r
      BY <1>3, <2>1 DEF ChangeUser, Change, TypeOK
    <3> QED
      BY <1>3, <2>1, <3>1 DEF Powerless, Admin
  <2>2. CASE Stored(u) /\ v # u
    <3>1. record'[v] = record[v]
      BY <1>3, <2>2 DEF ChangeUser, Change, TypeOK
    <3> QED
      BY <3>1 DEF Powerless, Stored
  <2>3. CASE ~ Stored(u)
    BY <1>3, <2>3 DEF ChangeUser, Powerless, Stored
  <2> QED
    BY <2>1, <2>2, <2>3
<1>4. ASSUME NEW c \in Requests, NEW u \in Users, UpdateUser(c, u)
      PROVE  ~ Admin(record'[v])
  <2>1. PICK name \in Usernames : ChangeUser(c, u, [record[u] EXCEPT !.username = name])
    BY <1>4 DEF UpdateUser
  <2> QED
    BY <1>3, <2>1, StoredRecord, ChangedName
<1>5. ASSUME NEW c \in Requests, NEW u \in Users, ChangePassUser(c, u)
      PROVE  ~ Admin(record'[v])
  <2>1. PICK password \in Passwords :
          ChangeUser(c, u, [record[u] EXCEPT !.password = password])
    BY <1>5 DEF ChangePassUser
  <2> QED
    BY <1>3, <2>1, StoredRecord, ChangedPassword
<1> QED
  BY <1>1, <1>2, <1>4, <1>5, RecordSteps

LEMMA WeakTokens ==
  ASSUME TypeOK, Powerless, [Next]_vars, NEW t \in tokens'
  PROVE  ~ Admin(t.was)
<1>1. CASE Write
  BY <1>1 DEF Write, Aside, Powerless
<1>2. ASSUME NEW c \in Requests, (\E u \in Users : Login(c, u)) \/ Generate(c) \/ Set(c)
      PROVE  ~ Admin(t.was)
  BY <1>2, LoginFrames DEF Powerless
<1>3. CASE Tick
  <2>1. PICK s \in tokens : t = Sooner(s)
    BY <1>3 DEF Tick
  <2>2. t.was = s.was
    BY <2>1, SoonerFields DEF TypeOK
  <2> QED
    BY <2>2 DEF Powerless
<1> QED
  BY <1>1, <1>2, <1>3, StepKinds

LEMMA WeakFrames ==
  ASSUME TypeOK, Powerless, [Next]_vars, NEW c \in Requests,
         frame'[c].pc \in {"compare", "set", "handle"}
  PROVE  ~ Admin(frame'[c].token.was)
<1>1. CASE frame'[c] = frame[c]
  BY <1>1 DEF Powerless
<1>2. CASE frame'[c].pc = "handle"
  BY <1>1, <1>2, NewHandle DEF Powerless
<1>3. CASE Write /\ frame'[c].pc \in {"compare", "set"}
  BY <1>1, <1>3 DEF Write, Aside
<1>4. ASSUME NEW d \in Requests, (\E u \in Users : Login(d, u)) \/ Generate(d) \/ Set(d)
      PROVE  ~ Admin(frame'[c].token.was)
  <2>1. CASE c # d
    BY <1>1, <1>4, <2>1, LoginFrames
  <2>2. CASE c = d
    BY <1>4, <2>2, LoginFrames DEF Powerless
  <2> QED
    BY <2>1, <2>2
<1>5. CASE Tick /\ frame'[c] # frame[c]
  <2>1. LoggingIn(frame[c]) /\ frame'[c] = Later(frame[c])
    BY <1>5 DEF Tick
  <2>2. frame[c] \in Frame
    BY DEF TypeOK
  <2>3. frame[c].token \in Token
    BY <2>1, <2>2, FrameFields DEF LoggingIn
  <2>4. frame'[c].token.was = frame[c].token.was
    BY <2>1, <2>2, <2>3, LaterFields, SoonerFields
  <2> QED
    BY <2>1, <2>4 DEF Powerless, LoggingIn
<1> QED
  BY <1>1, <1>2, <1>3, <1>4, <1>5, StepKinds

\* Once there is no administrator left, nor a token or a request of one, there never is.
THEOREM PowerFromPowerHolds == Spec => PowerFromPower
<1>1. Init => TypeOK /\ Authentic
  BY InitTyped DEF Init, Authentic, At, Idle
<1>2. TypeOK /\ Authentic /\ [Next]_vars => (TypeOK /\ Authentic)'
  BY NextTyped, NextAuthentic
<1>3. TypeOK /\ Authentic /\ [Next]_vars => [Powerless => Powerless']_vars
  BY WeakRecords, WeakTokens, WeakFrames DEF Powerless
<1> QED
  BY <1>1, <1>2, <1>3, PTL DEF Spec, PowerFromPower
=============================================================================
