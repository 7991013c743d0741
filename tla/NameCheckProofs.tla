---------------------------- MODULE NameCheckProofs ----------------------------
(***************************************************************************)
(* Proofs about NameCheck: its state is well typed, when asking first keeps *)
(* names unique and when a cached "taken" is true, for any number of        *)
(* clients, servers and names, and without the bound on mishaps.           *)
(***************************************************************************)
EXTENDS NameCheck, TLAPS

\* A request has a name, and one to delete a server has a server.
Asked(f) ==
  /\ f.pc # "idle" => f.asked \in Names
  /\ f.pc = "deleteOne" => f.server \in Servers

Typed == TypeOK /\ \A c \in Clients : Asked(frame[c])

LEMMA TypedHolds == Spec => []Typed
<1>1. Init => Typed
  BY DEF Init, Typed, Asked, TypeOK, Idle, Frame, Labels
<1>2. Typed /\ [Next]_vars => Typed'
  <2> SUFFICES ASSUME Typed, [Next]_vars PROVE Typed'
    OBVIOUS
  <2> USE DEF Typed, TypeOK, Asked
  <2>0. /\ Idle \in Frame /\ Idle.pc = "idle"
        /\ \A c \in Clients : frame[c] \in Frame
    BY DEF Idle, Frame, Labels
  <2>a. \A n \in Names : Found(n) \in BOOLEAN \cup {None}
    BY DEF Found
  <2>1. ASSUME NEW c \in Clients, NEW n \in Names, CheckServerName(c, n) PROVE Typed'
    BY <2>1, <2>0 DEF CheckServerName, Local, Mishap, MishapIf, caches, Idle, Frame, Labels
  <2>2. ASSUME NEW c \in Clients, NEW s \in Servers, DeleteServer(c, s) PROVE Typed'
    BY <2>2, <2>0 DEF DeleteServer, Local, Mishap, MishapIf, caches, Idle, Frame, Labels
  <2>3. ASSUME NEW c \in Clients, Get(c) PROVE Typed'
    <3> DEFINE n == frame[c].asked
    <3>1. frame[c].pc = "get" /\ n \in Names
      BY <2>3, <2>0 DEF Get, At, Frame
    <3>2. drive' \in [Names -> BOOLEAN \cup {None}]
      BY <2>3, <3>1, <2>a DEF Get
    <3>3. \/ Found(n) \in BOOLEAN /\ frame' = [frame EXCEPT ![c] =
                                      [frame[c] EXCEPT !.pc = "answered", !.check = Found(n)]]
          \/ frame' = [frame EXCEPT ![c] = [frame[c] EXCEPT !.pc = "find"]]
      <4>1. Found(n) = None \/ Found(n) \in BOOLEAN
        BY <3>1, <2>a
      <4> QED
        BY <2>3, <4>1 DEF Get, Local, Goto
    <3>4. mishaps' \subseteq Mishaps
      BY <2>3 DEF Get, Mishap, MishapIf
    <3>5. frame' \in [Clients -> Frame] /\ \A d \in Clients : Asked(frame'[d])
      <4> HIDE DEF n
      <4>1. CASE Found(n) \in BOOLEAN /\ frame' = [frame EXCEPT ![c] =
                                      [frame[c] EXCEPT !.pc = "answered", !.check = Found(n)]]
        BY <4>1, <3>1, <2>0 DEF Frame, Labels, n
      <4>2. CASE frame' = [frame EXCEPT ![c] = [frame[c] EXCEPT !.pc = "find"]]
        BY <4>2, <3>1, <2>0 DEF Frame, Labels, n
      <4> QED
        BY <3>3, <4>1, <4>2
    <3> QED
      BY <2>3, <3>2, <3>4, <3>5 DEF Get
  <2>4. ASSUME NEW c \in Clients, Find(c) PROVE Typed'
    <3>1. [frame[c] EXCEPT !.pc = "set", !.check = Taken(frame[c].asked)] \in Frame
      BY <2>0 DEF Frame, Labels, Taken
    <3> QED
      BY <2>4, <3>1 DEF Find, At, Local, caches
  <2>5. ASSUME NEW c \in Clients, FindFails(c) PROVE Typed'
    BY <2>5, <2>0 DEF FindFails, At, Local, Mishap, caches, Frame, Labels
  <2>6. ASSUME NEW c \in Clients, Set(c) PROVE Typed'
    BY <2>6, <2>0 DEF Set, At, Local, Goto, Mishap, Frame, Labels
  <2>7. ASSUME NEW c \in Clients, FormStep(c) PROVE Typed'
    BY <2>7, <2>0 DEF FormStep, GiveUp, AddServer, UpdateServer, At, Local, Return, Mishap,
                      MishapIf, caches
  <2>8. ASSUME NEW c \in Clients, DeleteOne(c) PROVE Typed'
    BY <2>8, <2>0 DEF DeleteOne, At, Local, Goto, Return, caches, Frame, Labels
  <2>9. ASSUME NEW c \in Clients, DeleteFails(c) PROVE Typed'
    BY <2>9, <2>0 DEF DeleteFails, At, Mishap
  <2>10. ASSUME NEW c \in Clients, RemoveKey(c) PROVE Typed'
    BY <2>10, <2>0 DEF RemoveKey, At, Local, Return, Mishap
  <2>11. ASSUME NEW n \in Names, Expire(n) \/ Forget(n) PROVE Typed'
    BY <2>11, <2>0 DEF Expire, Forget
  <2>12. CASE Crash
    BY <2>12, <2>0 DEF Crash, Mishap
  <2>13. CASE UNCHANGED vars
    BY <2>13, <2>0 DEF vars, caches
  <2> QED
    BY <2>1, <2>2, <2>3, <2>4, <2>5, <2>6, <2>7, <2>8, <2>9, <2>10, <2>11, <2>12, <2>13
       DEF Next, CheckStep, DeleteStep
<1> QED
  BY <1>1, <1>2, PTL DEF Spec

\* The state is well typed.
THEOREM TypeCorrect == Spec => []TypeOK
<1>1. Typed => TypeOK
  BY DEF Typed
<1> QED
  BY <1>1, TypedHolds, PTL

\* What Get comes to: the answer from the cache, right unless it is a mishap, or a miss.
LEMMA GetCases ==
  ASSUME Typed, NEW c \in Clients, Get(c)
  PROVE  LET n == frame[c].asked IN
         /\ n \in Names /\ frame[c].pc = "get" /\ UNCHANGED <<name, redis>>
         /\ \/ /\ Found(n) \in BOOLEAN
               /\ drive' = [drive EXCEPT ![n] = Found(n)]
               /\ frame' = [frame EXCEPT ![c] =
                              [frame[c] EXCEPT !.pc = "answered", !.check = Found(n)]]
               /\ \/ mishaps' = mishaps \cup {"outdated"}
                  \/ mishaps' = mishaps /\ Found(n) = Taken(n)
            \/ /\ UNCHANGED drive
               /\ frame' = [frame EXCEPT ![c] = [frame[c] EXCEPT !.pc = "find"]]
               /\ mishaps' \in {mishaps, mishaps \cup {"redisError"}}
<1> DEFINE n == frame[c].asked
<1>1. frame[c].pc = "get" /\ n \in Names
  BY DEF Get, At, Typed, TypeOK, Asked, Frame
<1>2. Found(n) = None \/ Found(n) \in BOOLEAN
  BY <1>1 DEF Found, Typed, TypeOK
<1>3. \/ /\ Found(n) # None
         /\ drive' = [drive EXCEPT ![n] = Found(n)]
         /\ frame' = [frame EXCEPT ![c] =
                        [frame[c] EXCEPT !.pc = "answered", !.check = Found(n)]]
         /\ MishapIf("outdated", Found(n) # Taken(n))
      \/ /\ UNCHANGED drive
         /\ frame' = [frame EXCEPT ![c] = [frame[c] EXCEPT !.pc = "find"]]
         /\ UNCHANGED mishaps \/ Mishap("redisError")
  BY DEF Get, Local, Goto
<1>4. MishapIf("outdated", Found(n) # Taken(n)) =>
        \/ mishaps' = mishaps \cup {"outdated"}
        \/ mishaps' = mishaps /\ Found(n) = Taken(n)
  <2>1. CASE Found(n) = Taken(n)
    BY <2>1, Zenon DEF MishapIf
  <2>2. CASE Found(n) # Taken(n)
    <3>1. MishapIf("outdated", Found(n) # Taken(n)) => Mishap("outdated")
      BY <2>2, Zenon DEF MishapIf
    <3>2. Mishap("outdated") => mishaps' = mishaps \cup {"outdated"}
      BY DEF Mishap
    <3> QED
      BY <3>1, <3>2, Zenon
  <2> QED
    BY <2>1, <2>2, Zenon
<1>5. Mishap("redisError") => mishaps' = mishaps \cup {"redisError"}
  BY DEF Mishap
<1>6. UNCHANGED <<name, redis>>
  BY DEF Get
<1> HIDE DEF n
<1>7. \/ /\ Found(n) \in BOOLEAN
         /\ drive' = [drive EXCEPT ![n] = Found(n)]
         /\ frame' = [frame EXCEPT ![c] =
                        [frame[c] EXCEPT !.pc = "answered", !.check = Found(n)]]
         /\ \/ mishaps' = mishaps \cup {"outdated"}
            \/ mishaps' = mishaps /\ Found(n) = Taken(n)
      \/ /\ UNCHANGED drive
         /\ frame' = [frame EXCEPT ![c] = [frame[c] EXCEPT !.pc = "find"]]
         /\ mishaps' \in {mishaps, mishaps \cup {"redisError"}}
  BY Zenon, <1>2, <1>3, <1>4, <1>5
<1> QED
  BY Zenon, <1>1, <1>6, <1>7 DEF n

\* What CheckServerName comes to: one more request, a mishap unless it is alone.
LEMMA CheckCases ==
  ASSUME Typed, NEW c \in Clients, NEW n \in Names, CheckServerName(c, n)
  PROVE  /\ frame'[c].pc = "get" /\ \A d \in Clients \ {c} : frame'[d] = frame[d]
         /\ UNCHANGED name /\ mishaps \subseteq mishaps'
         /\ \/ "overlap" \in mishaps'
            \/ \A d \in Clients : frame[d].pc \notin Forms
         /\ \/ \E d \in Clients : frame[d].pc \in Forms
            \/ "race" \in mishaps'
            \/ \A d \in Clients : frame[d].pc \notin {"deleteOne", "removeKey"}
<1>1. frame' = [frame EXCEPT ![c] = [Idle EXCEPT !.pc = "get", !.asked = n]]
  BY DEF CheckServerName, Local
<1>2. frame'[c].pc = "get" /\ \A d \in Clients \ {c} : frame'[d] = frame[d]
  BY <1>1 DEF Typed, TypeOK, Idle
<1>3. CASE Busy(Forms)
  <2>1. Mishap("overlap") /\ UNCHANGED name
    BY <1>3 DEF CheckServerName
  <2>2. mishaps' = mishaps \cup {"overlap"}
    BY <2>1 DEF Mishap
  <2> QED
    BY <1>2, <1>3, <2>1, <2>2 DEF Busy
<1>4. CASE ~ Busy(Forms)
  <2>1. MishapIf("race", Busy({"deleteOne", "removeKey"})) /\ UNCHANGED name
    BY <1>4 DEF CheckServerName
  <2>2. \/ mishaps' = mishaps \cup {"race"}
        \/ mishaps' = mishaps /\ ~ Busy({"deleteOne", "removeKey"})
    BY <2>1 DEF MishapIf, Mishap
  <2> QED
    BY <1>2, <1>4, <2>1, <2>2 DEF Busy
<1> QED
  BY <1>3, <1>4

\* What AddServer and UpdateServer come to: a server takes the name that was asked for.
LEMMA FormCases ==
  ASSUME Typed, NEW c \in Clients, NEW s \in Servers, AddServer(c, s) \/ UpdateServer(c, s)
  PROVE  /\ frame[c].pc = "answered" /\ ~ frame[c].check /\ frame[c].asked \in Names
         /\ name' = [name EXCEPT ![s] = frame[c].asked]
         /\ frame' = [frame EXCEPT ![c] = Idle]
         /\ mishaps \subseteq mishaps'
         /\ name[s] = "unborn" \/ name[s] = frame[c].asked \/ "rename" \in mishaps'
<1>1. frame[c].pc = "answered" /\ ~ frame[c].check /\ frame[c].asked \in Names
  BY DEF AddServer, UpdateServer, At, Typed, TypeOK, Asked
<1>2. CASE AddServer(c, s)
  BY <1>1, <1>2 DEF AddServer, Return, Local
<1>3. CASE UpdateServer(c, s)
  BY <1>1, <1>3 DEF UpdateServer, Return, Local, MishapIf, Mishap
<1> QED
  BY <1>2, <1>3

-----------------------------------------------------------------------------
(* Names are unique.                                                       *)

\* Nobody else asks while a client has asked and not yet acted, so that "free" stays true
\* until it acts on it.
Unique ==
  mishaps \cap {"overlap", "outdated", "storeError"} = {} =>
    /\ \A c, d \in Clients : frame[c].pc \in Forms /\ frame[d].pc \in Forms => c = d
    /\ \A c \in Clients :
         frame[c].pc \in {"set", "answered"} /\ ~ frame[c].check => ~ Taken(frame[c].asked)
    /\ \A s, t \in Servers : name[s] \in Names /\ name[s] = name[t] => s = t

LEMMA UniqueHolds == Spec => []Unique
<1>1. Init => Unique
  BY ConstantsOK DEF Init, Unique, Idle, Forms, ConstantsOK
<1>2. Typed /\ Unique /\ [Next]_vars => Unique'
  <2> SUFFICES ASSUME Typed, Unique, [Next]_vars PROVE Unique'
    OBVIOUS
  <2> USE ConstantsOK DEF Typed, TypeOK, Asked, Unique, Taken, Forms, ConstantsOK
  <2>0. /\ Idle.pc = "idle"
        /\ \A c \in Clients : frame[c] \in Frame
    BY DEF Idle
  <2> USE <2>0 DEF Frame
  <2>1. ASSUME NEW c \in Clients, NEW n \in Names, CheckServerName(c, n) PROVE Unique'
    BY <2>1, CheckCases
  <2>2. ASSUME NEW c \in Clients, NEW s \in Servers, DeleteServer(c, s) PROVE Unique'
    BY <2>2 DEF DeleteServer, Local, Mishap, MishapIf, caches, Idle
  <2>3. ASSUME NEW c \in Clients, Get(c) PROVE Unique'
    <3> DEFINE n == frame[c].asked
    <3>1. n \in Names /\ frame[c].pc = "get" /\ UNCHANGED name
      BY <2>3, GetCases
    <3>2. CASE frame' = [frame EXCEPT ![c] = [frame[c] EXCEPT !.pc = "find"]]
               /\ mishaps' \in {mishaps, mishaps \cup {"redisError"}}
      BY <3>1, <3>2
    <3>3. CASE mishaps' = mishaps \cup {"outdated"}
      BY <3>3
    <3>4. CASE /\ frame' = [frame EXCEPT ![c] =
                              [frame[c] EXCEPT !.pc = "answered", !.check = Found(n)]]
               /\ mishaps' = mishaps /\ Found(n) = Taken(n)
      <4>1. frame'[c].check <=> Taken(n)
        BY <3>4
      <4>2. /\ frame'[c].pc = "answered" /\ frame'[c].asked = n
            /\ \A d \in Clients \ {c} : frame'[d] = frame[d]
        BY <3>4
      <4> QED
        BY <3>1, <3>4, <4>1, <4>2
    <3> QED
      BY <2>3, GetCases, <3>2, <3>3, <3>4, Zenon
  <2>4. ASSUME NEW c \in Clients, Find(c) PROVE Unique'
    BY <2>4 DEF Find, At, Local, caches
  <2>5. ASSUME NEW c \in Clients, FindFails(c) PROVE Unique'
    BY <2>5 DEF FindFails, Mishap
  <2>6. ASSUME NEW c \in Clients, Set(c) PROVE Unique'
    BY <2>6 DEF Set, At, Local, Goto, Mishap
  <2>7. ASSUME NEW c \in Clients, GiveUp(c) PROVE Unique'
    BY <2>7 DEF GiveUp, At, Local, Return
  <2>8. ASSUME NEW c \in Clients, NEW s \in Servers, AddServer(c, s) \/ UpdateServer(c, s)
        PROVE Unique'
    <3> DEFINE n == frame[c].asked
    <3>1. /\ frame[c].pc = "answered" /\ ~ frame[c].check /\ n \in Names
          /\ name' = [name EXCEPT ![s] = n] /\ frame' = [frame EXCEPT ![c] = Idle]
          /\ mishaps \subseteq mishaps'
      BY <2>8, FormCases
    <3>2. frame'[c].pc = "idle" /\ \A d \in Clients \ {c} : frame'[d] = frame[d]
      BY <3>1
    <3> QED
      BY <3>1, <3>2
  <2>9. ASSUME NEW c \in Clients, DeleteOne(c) PROVE Unique'
    BY <2>9 DEF DeleteOne, At, Local, Goto, Return
  <2>10. ASSUME NEW c \in Clients, DeleteFails(c) PROVE Unique'
    BY <2>10 DEF DeleteFails, Mishap
  <2>11. ASSUME NEW c \in Clients, RemoveKey(c) PROVE Unique'
    BY <2>11 DEF RemoveKey, At, Local, Return, Mishap
  <2>12. ASSUME NEW n \in Names, Expire(n) \/ Forget(n) PROVE Unique'
    BY <2>12 DEF Expire, Forget
  <2>13. CASE Crash
    BY <2>13 DEF Crash, Mishap
  <2>14. CASE UNCHANGED vars
    BY <2>14 DEF vars
  <2> QED
    BY <2>1, <2>2, <2>3, <2>4, <2>5, <2>6, <2>7, <2>8, <2>9, <2>10, <2>11, <2>12, <2>13, <2>14
       DEF Next, CheckStep, FormStep, DeleteStep
<1> QED
  BY <1>1, <1>2, TypedHolds, PTL DEF Spec

\* NamesUnique, of CheckServerName and those that act on its answer, for any number of
\* clients, servers and names.
THEOREM NamesUniqueHolds == Spec => []NamesUnique
<1>1. Unique => NamesUnique
  BY DEF Unique, NamesUnique
<1> QED
  BY <1>1, UniqueHolds, PTL

-----------------------------------------------------------------------------
(* A cached "taken" is true.                                               *)

Mild == mishaps \subseteq {"overlap", "outdated"}

\* A deletion has the process to itself, and what it will drop is the name it has read.
Alone ==
  Mild =>
    /\ \A c, d \in Clients :
         frame[c].pc \in {"deleteOne", "removeKey"} /\ frame[d].pc # "idle" => c = d
    /\ \A c \in Clients : At(c, "deleteOne") => name[frame[c].server] = frame[c].asked

LEMMA AloneHolds == Spec => []Alone
<1>1. Init => Alone
  BY DEF Init, Alone, Idle, At
<1>2. Typed /\ Alone /\ [Next]_vars => Alone'
  <2> SUFFICES ASSUME Typed, Alone, [Next]_vars PROVE Alone'
    OBVIOUS
  <2> USE DEF Typed, TypeOK, Asked, Alone, At, Mild
  <2>0. /\ Idle.pc = "idle"
        /\ \A c \in Clients : frame[c] \in Frame
    BY DEF Idle
  <2> USE <2>0 DEF Frame
  <2>1. ASSUME NEW c \in Clients, NEW n \in Names, CheckServerName(c, n) PROVE Alone'
    <3>1. /\ frame'[c].pc = "get" /\ \A d \in Clients \ {c} : frame'[d] = frame[d]
          /\ UNCHANGED name /\ mishaps \subseteq mishaps'
      BY <2>1, CheckCases
    <3>2. \/ \E d \in Clients : frame[d].pc \in Forms
          \/ "race" \in mishaps'
          \/ \A d \in Clients : frame[d].pc \notin {"deleteOne", "removeKey"}
      BY <2>1, CheckCases
    <3>3. Mild' => \A d \in Clients : frame[d].pc \notin {"deleteOne", "removeKey"}
      BY <2>1, <3>1, <3>2 DEF CheckServerName, MishapIf, Mishap, Busy, Forms
    <3> QED
      BY <3>1, <3>3
  <2>2. ASSUME NEW c \in Clients, NEW s \in Servers, DeleteServer(c, s) PROVE Alone'
    <3>1. \/ \A d \in Clients : frame[d].pc = "idle"
          \/ "race" \in mishaps'
      BY <2>2 DEF DeleteServer, Mishap, MishapIf, Busy, Labels
    <3>2. /\ frame' = [frame EXCEPT ![c] =
                         [Idle EXCEPT !.pc = "deleteOne", !.asked = name[s], !.server = s]]
          /\ UNCHANGED name
      BY <2>2 DEF DeleteServer, Local
    <3> QED
      BY <3>1, <3>2 DEF Idle
  <2>3. ASSUME NEW c \in Clients, Get(c) PROVE Alone'
    <3>1. /\ frame[c].pc = "get" /\ UNCHANGED name
          /\ mishaps \subseteq mishaps'
      BY <2>3, GetCases
    <3>2. \E f \in {[frame[c] EXCEPT !.pc = "answered", !.check = Found(frame[c].asked)],
                   [frame[c] EXCEPT !.pc = "find"]} : frame' = [frame EXCEPT ![c] = f]
      BY <2>3, GetCases
    <3>3. /\ frame'[c].pc \in {"answered", "find"}
          /\ \A d \in Clients \ {c} : frame'[d] = frame[d]
      BY <3>2
    <3> QED
      BY <3>1, <3>3
  <2>4. ASSUME NEW c \in Clients, Find(c) PROVE Alone'
    BY <2>4 DEF Find, Local
  <2>5. ASSUME NEW c \in Clients, FindFails(c) PROVE Alone'
    BY <2>5 DEF FindFails, Mishap
  <2>6. ASSUME NEW c \in Clients, Set(c) PROVE Alone'
    BY <2>6 DEF Set, Local, Goto, Mishap
  <2>7. ASSUME NEW c \in Clients, GiveUp(c) PROVE Alone'
    BY <2>7 DEF GiveUp, Local, Return
  <2>8. ASSUME NEW c \in Clients, NEW s \in Servers, AddServer(c, s) \/ UpdateServer(c, s)
        PROVE Alone'
    <3>1. /\ frame' = [frame EXCEPT ![c] = Idle] /\ mishaps \subseteq mishaps'
          /\ name' = [name EXCEPT ![s] = frame[c].asked]
          /\ name[s] = "unborn" \/ name[s] = frame[c].asked \/ "rename" \in mishaps'
          /\ frame[c].pc = "answered"
      BY <2>8, FormCases
    <3>2. frame'[c].pc = "idle" /\ \A d \in Clients \ {c} : frame'[d] = frame[d]
      BY <3>1
    <3>3. \A d \in Clients : frame[d].pc # "deleteOne" \/ ~ Mild'
      BY <3>1
    <3> QED
      BY <3>1, <3>2, <3>3
  <2>9. ASSUME NEW c \in Clients, DeleteOne(c) PROVE Alone'
    <3>1. frame[c].pc = "deleteOne" /\ UNCHANGED mishaps
      BY <2>9 DEF DeleteOne
    <3>2. \E f \in {Idle, [frame[c] EXCEPT !.pc = "removeKey"]} :
            frame' = [frame EXCEPT ![c] = f]
      BY <2>9 DEF DeleteOne, Local, Goto, Return
    <3>3. /\ frame'[c].pc \in {"idle", "removeKey"}
          /\ \A d \in Clients \ {c} : frame'[d] = frame[d]
      BY <3>2
    <3> QED
      BY <3>1, <3>3
  <2>10. ASSUME NEW c \in Clients, DeleteFails(c) PROVE Alone'
    BY <2>10 DEF DeleteFails, Mishap
  <2>11. ASSUME NEW c \in Clients, RemoveKey(c) PROVE Alone'
    BY <2>11 DEF RemoveKey, Local, Return, Mishap
  <2>12. ASSUME NEW n \in Names, Expire(n) \/ Forget(n) PROVE Alone'
    BY <2>12 DEF Expire, Forget
  <2>13. CASE Crash
    BY <2>13 DEF Crash, Mishap
  <2>14. CASE UNCHANGED vars
    BY <2>14 DEF vars
  <2> QED
    BY <2>1, <2>2, <2>3, <2>4, <2>5, <2>6, <2>7, <2>8, <2>9, <2>10, <2>11, <2>12, <2>13, <2>14
       DEF Next, CheckStep, FormStep, DeleteStep
<1> QED
  BY <1>1, <1>2, TypedHolds, PTL DEF Spec

\* What is about to be cached, in Redis or held by the process as "taken" is so.
SaysTaken(n) ==
  \/ redis[n] = TRUE \/ drive[n] = TRUE
  \/ \E c \in Clients : At(c, "set") /\ frame[c].check /\ frame[c].asked = n

Sound == Mild => \A n \in Names : SaysTaken(n) => Taken(n) \/ BeingDeleted(n)

LEMMA SoundHolds == Spec => []Sound
<1>0. None # TRUE /\ None # FALSE /\ "gone" \notin Names /\ "unborn" \notin Names
  BY ConstantsOK DEF ConstantsOK
<1>1. Init => Sound
  <2> SUFFICES ASSUME Init, NEW n \in Names PROVE ~ SaysTaken(n)
    BY DEF Sound
  <2>1. redis[n] # TRUE /\ drive[n] # TRUE
    BY <1>0 DEF Init
  <2>2. \A c \in Clients : ~ At(c, "set")
    BY DEF Init, At, Idle
  <2> QED
    BY <2>1, <2>2 DEF SaysTaken
<1>2. Typed /\ Alone /\ Alone' /\ Sound /\ [Next]_vars => Sound'
  <2> SUFFICES ASSUME Typed, Alone, Sound, [Next]_vars,
                      mishaps' \subseteq {"overlap", "outdated"},
                      NEW n \in Names, SaysTaken(n)'
               PROVE  Taken(n)' \/ BeingDeleted(n)'
    BY DEF Sound, Mild
  <2> USE <1>0 DEF Typed, TypeOK, Asked, At, Taken, BeingDeleted, SaysTaken
  <2>0. /\ Idle.pc = "idle"
        /\ \A c \in Clients : frame[c] \in Frame
    BY DEF Idle
  <2> USE <2>0 DEF Frame
  <2>c. SaysTaken(n) /\ Mild => Taken(n) \/ BeingDeleted(n)
    BY DEF Sound
  <2>d. ASSUME Mild, SaysTaken(n), UNCHANGED name,
               \A c \in Clients : At(c, "removeKey") => UNCHANGED frame[c]
        PROVE  Taken(n)' \/ BeingDeleted(n)'
    BY <2>c, <2>d
  <2>1. ASSUME NEW c \in Clients, NEW m \in Names, CheckServerName(c, m)
        PROVE  Taken(n)' \/ BeingDeleted(n)'
    BY <2>1, <2>d DEF CheckServerName, Local, Mishap, MishapIf, caches, Idle, Mild
  <2>2. ASSUME NEW c \in Clients, NEW s \in Servers, DeleteServer(c, s)
        PROVE  Taken(n)' \/ BeingDeleted(n)'
    BY <2>2, <2>d DEF DeleteServer, Local, Mishap, MishapIf, caches, Idle, Mild
  <2>3. ASSUME NEW c \in Clients, Get(c)
        PROVE  Taken(n)' \/ BeingDeleted(n)'
    <3> DEFINE m == frame[c].asked
    <3>1. m \in Names /\ frame[c].pc = "get" /\ UNCHANGED <<name, redis>>
          /\ mishaps \subseteq mishaps'
      BY <2>3, GetCases
    <3>2. CASE /\ Found(m) \in BOOLEAN
               /\ drive' = [drive EXCEPT ![m] = Found(m)]
               /\ frame' = [frame EXCEPT ![c] =
                              [frame[c] EXCEPT !.pc = "answered", !.check = Found(m)]]
      <4>1. frame'[c].pc = "answered" /\ \A d \in Clients \ {c} : frame'[d] = frame[d]
        BY <3>2
      <4>2. drive'[n] = TRUE => drive[n] = TRUE \/ redis[n] = TRUE
        BY <3>1, <3>2 DEF Found
      <4>3. SaysTaken(n)
        BY <3>1, <4>1, <4>2
      <4> QED
        BY <3>1, <4>1, <4>3, <2>d DEF Mild
    <3>3. CASE UNCHANGED drive /\ frame' = [frame EXCEPT ![c] = [frame[c] EXCEPT !.pc = "find"]]
      BY <3>1, <3>3, <2>d DEF Mild
    <3> QED
      BY <2>3, GetCases, <3>2, <3>3, Zenon
  <2>4. ASSUME NEW c \in Clients, Find(c)
        PROVE  Taken(n)' \/ BeingDeleted(n)'
    <3>1. UNCHANGED <<name, redis, drive>> /\ Mild
      BY <2>4 DEF Find, caches, Mild
    <3>2. /\ frame[c].pc = "find" /\ frame'[c].pc = "set"
          /\ frame'[c].asked = frame[c].asked
          /\ frame'[c].check = (\E s \in Servers : name[s] = frame[c].asked)
          /\ \A d \in Clients \ {c} : frame'[d] = frame[d]
      BY <2>4 DEF Find, Local
    <3>3. CASE SaysTaken(n)
      <4>1. \A d \in Clients : At(d, "removeKey") => UNCHANGED frame[d]
        BY <3>2
      <4> QED
        BY <3>1, <3>3, <4>1, <2>d
    <3>4. CASE ~ SaysTaken(n)
      <4>0. PICK d \in Clients : frame'[d].pc = "set" /\ frame'[d].check /\ frame'[d].asked = n
        BY <3>1, <3>4
      <4>d. d = c
        BY <3>2, <3>4, <4>0
      <4>1. frame'[c].check /\ frame'[c].asked = n
        BY <4>0, <4>d
      <4>2. \E s \in Servers : name[s] = n
        BY <3>2, <4>1
      <4> QED
        BY <3>1, <4>2
    <3> QED
      BY <3>3, <3>4
  <2>5. ASSUME NEW c \in Clients, FindFails(c)
        PROVE  Taken(n)' \/ BeingDeleted(n)'
    BY <2>5 DEF FindFails, Mishap
  <2>6. ASSUME NEW c \in Clients, Set(c)
        PROVE  Taken(n)' \/ BeingDeleted(n)'
    BY <2>6, <2>d DEF Set, Local, Goto, Mishap, Mild
  <2>7. ASSUME NEW c \in Clients, GiveUp(c)
        PROVE  Taken(n)' \/ BeingDeleted(n)'
    BY <2>7, <2>d DEF GiveUp, Local, Return, caches, Mild, Idle
  <2>8. ASSUME NEW c \in Clients, NEW s \in Servers, AddServer(c, s) \/ UpdateServer(c, s)
        PROVE  Taken(n)' \/ BeingDeleted(n)'
    <3>1. /\ mishaps \subseteq mishaps' /\ frame[c].pc = "answered"
          /\ frame' = [frame EXCEPT ![c] = Idle] /\ UNCHANGED caches
          /\ name' = [name EXCEPT ![s] = frame[c].asked]
      BY <2>8, FormCases DEF AddServer, UpdateServer
    <3>2. name[s] = "unborn" \/ name[s] = frame[c].asked
      BY <2>8, FormCases
    <3>3. SaysTaken(n) /\ Mild
      BY <3>1 DEF caches, Mild
    <3>4. Taken(n) => Taken(n)'
      BY <3>1, <3>2
    <3>5. BeingDeleted(n) => BeingDeleted(n)'
      BY <3>1
    <3> QED
      BY <2>c, <3>3, <3>4, <3>5
  <2>9. ASSUME NEW c \in Clients, DeleteOne(c)
        PROVE  Taken(n)' \/ BeingDeleted(n)'
    <3> DEFINE s == frame[c].server
    <3>1. /\ frame[c].pc = "deleteOne" /\ UNCHANGED <<caches, mishaps>>
          /\ s \in Servers /\ frame[c].asked \in Names
          /\ name' = [name EXCEPT ![s] = "gone"]
      BY <2>9 DEF DeleteOne
    <3>2. name[s] = frame[c].asked
      BY <3>1 DEF Alone, Mild
    <3>3. frame' = [frame EXCEPT ![c] = [frame[c] EXCEPT !.pc = "removeKey"]]
      BY <2>9, <3>1, <3>2 DEF DeleteOne, Goto, Local
    <3>4. SaysTaken(n) /\ Mild
      BY <3>1, <3>3 DEF caches, Mild
    <3>5. CASE n = frame[c].asked
      BY <3>1, <3>3, <3>5
    <3>6. CASE n # frame[c].asked
      <4>1. Taken(n) => Taken(n)'
        BY <3>1, <3>2, <3>6
      <4>2. BeingDeleted(n) => BeingDeleted(n)'
        BY <3>1, <3>3
      <4> QED
        BY <2>c, <3>4, <4>1, <4>2
    <3> QED
      BY <3>5, <3>6
  <2>10. ASSUME NEW c \in Clients, DeleteFails(c)
         PROVE  Taken(n)' \/ BeingDeleted(n)'
    BY <2>10 DEF DeleteFails, Mishap
  <2>11. ASSUME NEW c \in Clients, RemoveKey(c)
         PROVE  Taken(n)' \/ BeingDeleted(n)'
    <3> DEFINE m == frame[c].asked
    <3>1. /\ frame[c].pc = "removeKey" /\ m \in Names /\ UNCHANGED <<name, mishaps>>
          /\ drive' = [drive EXCEPT ![m] = None] /\ redis' = [redis EXCEPT ![m] = None]
          /\ frame' = [frame EXCEPT ![c] = Idle]
      BY <2>11 DEF RemoveKey, Local, Return, Mishap
    <3>2. n # m
      <4> SUFFICES ASSUME n = m PROVE FALSE
        OBVIOUS
      <4>1. redis'[n] = None /\ drive'[n] = None
        BY <3>1
      <4>2. PICK d \in Clients : frame'[d].pc = "set"
        BY <4>1
      <4>3. d # c /\ frame[d].pc = "set"
        BY <3>1, <4>2
      <4> QED
        BY <3>1, <4>3 DEF Alone, Mild
    <3>3. SaysTaken(n) /\ Mild
      BY <3>1, <3>2 DEF Mild
    <3>4. BeingDeleted(n) => BeingDeleted(n)'
      BY <3>1, <3>2
    <3> QED
      BY <2>c, <3>1, <3>3, <3>4
  <2>12. ASSUME NEW m \in Names, Expire(m) \/ Forget(m)
         PROVE  Taken(n)' \/ BeingDeleted(n)'
    BY <2>12, <2>d DEF Expire, Forget, Mild
  <2>13. CASE Crash
    BY <2>13 DEF Crash, Mishap
  <2>14. CASE UNCHANGED vars
    BY <2>14, <2>d DEF vars, caches, Mild
  <2> QED
    BY <2>1, <2>2, <2>3, <2>4, <2>5, <2>6, <2>7, <2>8, <2>9, <2>10, <2>11, <2>12, <2>13, <2>14
       DEF Next, CheckStep, FormStep, DeleteStep
<1> QED
  BY <1>1, <1>2, TypedHolds, AloneHolds, PTL DEF Spec

\* TakenTrue, of the cached answers and the one handler that drops any.
THEOREM TakenTrueHolds == Spec => []TakenTrue
<1>1. Sound => TakenTrue
  BY DEF Sound, SaysTaken, TakenTrue, Mild
<1> QED
  BY <1>1, SoundHolds, PTL
=============================================================================
