---------------------------- MODULE DailyMailProofs ----------------------------
(***************************************************************************)
(* Proofs about DailyMail: its state is well typed, the mail reaches those  *)
(* it has to reach, and nobody else is mailed, for any number of users and *)
(* servers.  None of them needs fairness.                                  *)
(***************************************************************************)
EXTENDS DailyMail, TLAPS

\* The state is well typed.
THEOREM TypeCorrect == Spec => []TypeOK
<1>1. Init => TypeOK
  BY DEF Init, TypeOK, Steady
<1>2. TypeOK /\ [Next]_vars => TypeOK'
  <2> SUFFICES ASSUME TypeOK, [Next]_vars PROVE TypeOK'
    OBVIOUS
  <2> USE DEF TypeOK, stores, goroutine
  <2>1. CASE FindUsers
    BY <2>1 DEF FindUsers
  <2>2. CASE FindServers
    BY <2>2 DEF FindServers
  <2>3. ASSUME NEW s \in Servers, Search(s) PROVE TypeOK'
    BY <2>3 DEF Search, Mishap
  <2>4. CASE Searched
    BY <2>4 DEF Searched
  <2>5. CASE Send
    BY <2>5 DEF Send
  <2>6. CASE Sleep
    BY <2>6 DEF Sleep, Steady
  <2>7. CASE Restart
    BY <2>7 DEF Restart, Steady
  <2>8. ASSUME NEW u \in Users, Promote(u) PROVE TypeOK'
    BY <2>8 DEF Promote, Still
  <2>9. ASSUME NEW u \in Users, Demote(u) PROVE TypeOK'
    BY <2>9 DEF Demote, Mishap, Still
  <2>10. ASSUME NEW s \in Servers, ChangeRecord(s) PROVE TypeOK'
    BY <2>10 DEF ChangeRecord, Still
  <2>11. ASSUME NEW s \in Servers, Refresh(s) PROVE TypeOK'
    BY <2>11 DEF Refresh, Still
  <2>12. CASE UNCHANGED vars
    BY <2>12 DEF vars
  <2> QED
    BY <2>1, <2>2, <2>3, <2>4, <2>5, <2>6, <2>7, <2>8, <2>9, <2>10, <2>11, <2>12 DEF Next, Round
<1> QED
  BY <1>1, <1>2, PTL DEF Spec

-----------------------------------------------------------------------------

\* What a round has to reach: who was an administrator, and what was on record and
\* searchable, ever since the round began still is, and is on its way into the mail.
Errors == "isError" \in mishaps

UnderWay ==
  /\ steady.users \subseteq admins
  /\ steady.servers \subseteq record \cap visible
  /\ pc # "users" => steady.users \subseteq Recipients
  /\ pc = "search" => Errors \/ steady.servers \subseteq todo \cup result
  /\ pc \in {"send", "sleep"} => Errors \/ steady.servers \subseteq result

LEMMA UnderWayHolds == Spec => []UnderWay
<1>1. Init => UnderWay
  BY DEF Init, UnderWay, Steady
<1>2. TypeOK /\ UnderWay /\ [Next]_vars => UnderWay'
  <2> SUFFICES ASSUME TypeOK, UnderWay, [Next]_vars PROVE UnderWay'
    OBVIOUS
  <2> USE DEF TypeOK, UnderWay, Errors, Recipients, stores, goroutine
  <2>1. CASE FindUsers
    <3>1. \A u \in Users : to[u] \in Nat /\ to'[u] \in Nat
                           /\ (u \in admins \/ to[u] > 0 => to'[u] > 0)
      BY <2>1 DEF FindUsers
    <3> QED
      BY <2>1, <3>1 DEF FindUsers
  <2>2. CASE FindServers
    BY <2>2 DEF FindServers
  <2>3. ASSUME NEW s \in Servers, Search(s) PROVE UnderWay'
    BY <2>3 DEF Search, Mishap
  <2>4. CASE Searched
    BY <2>4 DEF Searched
  <2>5. CASE Send
    BY <2>5 DEF Send
  <2>6. CASE Sleep
    BY <2>6 DEF Sleep, Steady
  <2>7. CASE Restart
    BY <2>7 DEF Restart, Steady
  <2>8. ASSUME NEW u \in Users, Promote(u) PROVE UnderWay'
    BY <2>8 DEF Promote, Still
  <2>9. ASSUME NEW u \in Users, Demote(u) PROVE UnderWay'
    BY <2>9 DEF Demote, Mishap, Still
  <2>10. ASSUME NEW s \in Servers, ChangeRecord(s) PROVE UnderWay'
    BY <2>10 DEF ChangeRecord, Still
  <2>11. ASSUME NEW s \in Servers, Refresh(s) PROVE UnderWay'
    BY <2>11 DEF Refresh, Still
  <2>12. CASE UNCHANGED vars
    BY <2>12 DEF vars
  <2> QED
    BY <2>1, <2>2, <2>3, <2>4, <2>5, <2>6, <2>7, <2>8, <2>9, <2>10, <2>11, <2>12 DEF Next, Round
<1> QED
  BY <1>1, <1>2, TypeCorrect, PTL DEF Spec

\* Every mail of SendMail reaches everybody who was an administrator all the time, and
\* reports on every server that was on record and searchable all the time.
THEOREM ReachesAllHolds == Spec => []ReachesAll
<1>1. UnderWay => ReachesAll
  BY DEF UnderWay, ReachesAll, Errors
<1> QED
  BY <1>1, UnderWayHolds, PTL

-----------------------------------------------------------------------------

\* The list of recipients holds administrators only until the first of them is demoted.
Faithful == "demotion" \notin mishaps => Recipients \subseteq admins

\* As long as nobody was demoted, SendMail mails to nobody who is not an administrator.
THEOREM OnlyAdministratorsHolds == Spec => []OnlyAdministrators
<1>1. Init => Faithful
  BY DEF Init, Faithful, Recipients
<1>2. TypeOK /\ Faithful /\ [Next]_vars => Faithful'
  <2> SUFFICES ASSUME TypeOK, Faithful, [Next]_vars PROVE Faithful'
    OBVIOUS
  <2> USE DEF TypeOK, Faithful, Recipients, stores, goroutine
  <2>1. CASE FindUsers
    <3>1. \A u \in Users \ admins : to'[u] = to[u]
      BY <2>1 DEF FindUsers
    <3> QED
      BY <2>1, <3>1 DEF FindUsers
  <2>2. CASE Restart
    BY <2>2 DEF Restart
  <2>3. ASSUME NEW u \in Users, Demote(u) PROVE Faithful'
    BY <2>3 DEF Demote, Mishap
  <2>4. ASSUME NEW s \in Servers, Search(s) PROVE Faithful'
    BY <2>4 DEF Search, Mishap
  <2>5. CASE FindServers \/ Searched \/ Send \/ Sleep
    BY <2>5 DEF FindServers, Searched, Send, Sleep
  <2>6. ASSUME NEW u \in Users, Promote(u) PROVE Faithful'
    BY <2>6 DEF Promote
  <2>7. ASSUME NEW s \in Servers, ChangeRecord(s) \/ Refresh(s) PROVE Faithful'
    BY <2>7 DEF ChangeRecord, Refresh
  <2>8. CASE UNCHANGED vars
    BY <2>8 DEF vars
  <2> QED
    BY <2>1, <2>2, <2>3, <2>4, <2>5, <2>6, <2>7, <2>8 DEF Next, Round
<1>3. Faithful => OnlyAdministrators
  BY DEF Faithful, OnlyAdministrators
<1> QED
  BY <1>1, <1>2, <1>3, TypeCorrect, PTL DEF Spec
=============================================================================
