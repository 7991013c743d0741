------------------------------- MODULE DailyMail -------------------------------
(***************************************************************************)
(* SendMail: once a day, the goroutine mails the last status of every       *)
(* server to the administrators.  It finds the administrators, then the     *)
(* servers, then the history of each, while users and servers change.  Its  *)
(* list of recipients is declared outside the loop and only grows.          *)
(*                                                                         *)
(* Run has the goroutine commented out; the module shows what it would do,  *)
(* in a deployment whose index has the name that the function spells out.   *)
(*                                                                         *)
(* The operators named Faulty... are not part of the model: each is the    *)
(* definition that follows it with a plausible mistake in the code, and its *)
(* comment names the property that the mistake would break.                *)
(***************************************************************************)
EXTENDS Naturals

CONSTANTS
  Users,
  Servers,
  Mishaps   \* which of PossibleMishaps may happen

PossibleMishaps ==
  {"demotion",   \* an administrator is deleted or becomes something else
   "isError",    \* Elasticsearch answers a search with an error status
   "exit"}       \* a call fails, which ends the process, or it is killed

ASSUME ConstantsOK == Mishaps \subseteq PossibleMishaps

VARIABLES
  admins,    \* MongoDB: the users whose role is admin
  record,    \* MongoDB: the servers on record
  visible,   \* Elasticsearch: the servers of which a search finds a history
  pc,        \* where the goroutine is
  to,        \* per user, how often it is among the recipients: 2 stands for twice or more
  todo,      \* the servers the cursor has left
  result,    \* the servers with a line in the mail
  steady,    \* history: the users that are administrators, and the servers that are on record
             \* and searchable, ever since this round began
  mishaps    \* history: the demotions since the process started, the errors since this round began

stores == <<admins, record, visible>>
vars == <<stores, pc, to, todo, result, steady, mishaps>>

TypeOK ==
  /\ admins \subseteq Users
  /\ record \subseteq Servers
  /\ visible \subseteq Servers
  /\ pc \in {"users", "servers", "search", "send", "sleep"}
  /\ to \in [Users -> 0..2]
  /\ todo \subseteq Servers
  /\ result \subseteq Servers
  /\ steady \in [users : SUBSET Users, servers : SUBSET Servers]
  /\ mishaps \subseteq Mishaps

Steady == [users |-> admins, servers |-> record \cap visible]

Init ==
  /\ admins \in SUBSET Users
  /\ record \in SUBSET Servers
  /\ visible = record
  /\ pc = "users"
  /\ to = [u \in Users |-> 0]
  /\ todo = {}
  /\ result = {}
  /\ steady = Steady
  /\ mishaps = {}

Mishap(m) == m \in Mishaps /\ mishaps' = mishaps \cup {m}

-----------------------------------------------------------------------------
(* A round.                                                                *)

\* OnlyAdministrators: the role is not looked at.
FaultyFindUsers ==
  /\ pc = "users"
  /\ to' = [u \in Users |-> IF to[u] < 2 THEN to[u] + 1 ELSE to[u]]
  /\ pc' = "servers"
  /\ UNCHANGED <<stores, todo, result, steady, mishaps>>

\* Every administrator is appended once more.
FindUsers ==
  /\ pc = "users"
  /\ to' = [u \in Users |-> IF u \in admins /\ to[u] < 2 THEN to[u] + 1 ELSE to[u]]
  /\ pc' = "servers"
  /\ UNCHANGED <<stores, todo, result, steady, mishaps>>

FindServers ==
  /\ pc = "servers"
  /\ todo' = record
  /\ result' = {}
  /\ pc' = "search"
  /\ UNCHANGED <<stores, to, steady, mishaps>>

\* ReachesAll: after a server without a history the others are left out.
FaultySearch(s) ==
  /\ pc = "search"
  /\ s \in todo
  /\ todo' = IF s \in visible THEN todo \ {s} ELSE {}
  /\ result' = result \cup ({s} \cap visible)
  /\ UNCHANGED <<stores, pc, to, steady, mishaps>>

\* A server whose history is not found gets no line, as does one whose search is answered
\* with an error.
Search(s) ==
  /\ pc = "search"
  /\ s \in todo
  /\ todo' = todo \ {s}
  /\ \/ result' = result \cup ({s} \cap visible) /\ UNCHANGED mishaps
     \/ Mishap("isError") /\ UNCHANGED result
  /\ UNCHANGED <<stores, pc, to, steady>>

Searched ==
  /\ pc = "search"
  /\ todo = {}
  /\ pc' = "send"
  /\ UNCHANGED <<stores, to, todo, result, steady, mishaps>>

Recipients == {u \in Users : to[u] > 0}

\* smtp.SendMail, to all of "to".  A mail to nobody is refused, which ends the process.
Send ==
  /\ pc = "send"
  /\ Recipients # {}
  /\ pc' = "sleep"
  /\ UNCHANGED <<stores, to, todo, result, steady, mishaps>>

\* MailsGoOn: the loop is left after the first mail.
FaultySleep == FALSE /\ UNCHANGED vars

\* A day later.
Sleep ==
  /\ pc = "sleep"
  /\ pc' = "users"
  /\ steady' = Steady
  /\ mishaps' = mishaps \ {"isError"}
  /\ UNCHANGED <<stores, to, todo, result>>

\* The process ends and is started again: the list of recipients is empty.
Restart ==
  /\ "exit" \in Mishaps
  /\ mishaps' = {}
  /\ pc' = "users"
  /\ to' = [u \in Users |-> 0]
  /\ todo' = {}
  /\ result' = {}
  /\ steady' = Steady
  /\ UNCHANGED stores

-----------------------------------------------------------------------------
(* What others do meanwhile.                                               *)

goroutine == <<pc, to, todo, result>>
Still == steady' = [users |-> steady.users \cap admins',
                    servers |-> steady.servers \cap record' \cap visible']

Promote(u) ==
  /\ u \notin admins
  /\ admins' = admins \cup {u}
  /\ UNCHANGED <<record, visible, goroutine, mishaps>>
  /\ Still

Demote(u) ==
  /\ u \in admins
  /\ admins' = admins \ {u}
  /\ Mishap("demotion")
  /\ UNCHANGED <<record, visible, goroutine>>
  /\ Still

\* AddServer and DeleteServer change the record, and then what a search finds.
ChangeRecord(s) ==
  /\ record' = IF s \in record THEN record \ {s} ELSE record \cup {s}
  /\ UNCHANGED <<admins, visible, goroutine, mishaps>>
  /\ Still

Refresh(s) ==
  /\ visible' = IF s \in record THEN visible \cup {s} ELSE visible \ {s}
  /\ UNCHANGED <<admins, record, goroutine, mishaps>>
  /\ Still

-----------------------------------------------------------------------------

Round == FindUsers \/ FindServers \/ (\E s \in Servers : Search(s)) \/ Searched \/ Send \/ Sleep

Next ==
  \/ Round
  \/ Restart
  \/ \E u \in Users : Promote(u) \/ Demote(u)
  \/ \E s \in Servers : ChangeRecord(s) \/ Refresh(s)

Spec == Init /\ [][Next]_vars

\* The goroutine is scheduled, its calls return and its sleep ends.
FairSpec == Spec /\ WF_vars(Round)

-----------------------------------------------------------------------------
(* Properties.                                                             *)

\* The mail reaches everybody who was an administrator all the time, and reports on every
\* server that was on record and searchable all the time, whatever else came and went
\* while it was put together, unless a search was answered with an error.
ReachesAll ==
  pc = "sleep" =>
    /\ steady.users \subseteq Recipients
    /\ "isError" \in mishaps \/ steady.servers \subseteq result

\* The list of recipients outlives the round: only while no administrator has lost that role
\* since the process started does every mail go to administrators only.
OnlyAdministrators ==
  pc = "send" /\ "demotion" \notin mishaps => Recipients \subseteq admins

\* From some time on the process does not end any more, and a round has found an
\* administrator: then there is always another mail, whatever becomes of the
\* administrators and the servers.
MailsGoOn ==
  <>[][~ Restart]_vars /\ <>[](Recipients # {}) => []<>(pc = "send") /\ []<>(pc = "sleep")
=============================================================================
