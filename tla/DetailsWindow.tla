---------------------------- MODULE DetailsWindow ----------------------------
(***************************************************************************)
(* How DetailsServer turns the status history of a server and a window of  *)
(* time into the rows it answers with: the statuses at the two ends of the *)
(* window and the changes in between.  The loop of server_repo_impl.go is   *)
(* followed one iteration per step.                                        *)
(*                                                                         *)
(* Times are numbers.  A history is in chronological order, is not empty,  *)
(* and lies in the past: ServerStatus shows the first, the caller has      *)
(* looked at the second.  Go's == on two time.Time also compares their      *)
(* locations: it can only hold between a time of the history and a time    *)
(* parsed from the request if both were given the same location, and it    *)
(* never holds of time.Now().                                              *)
(*                                                                         *)
(* Names that DetailsCache has as well begin with Window here, for one      *)
(* module of proofs extends both.                                          *)
(*                                                                         *)
(* The operators named Faulty... are not part of the model: each is the    *)
(* definition that follows it with a plausible mistake in the code, and its *)
(* comment names the property that the mistake would break.                *)
(***************************************************************************)
EXTENDS Naturals, Sequences

CONSTANTS
  Statuses,    \* the statuses a history may hold
  MaxTime,     \* bound: the times are 1..MaxTime
  MaxChanges,  \* bound: changes in a history
  Blank        \* the empty string, for a timeIn or timeOut that is not given

ASSUME WindowConstantsOK ==
  /\ {MaxTime, MaxChanges} \subseteq Nat \ {0}
  /\ Blank \notin Nat

VARIABLES
  log,        \* detailSV.ChangeStatus
  timeIn,     \* the window that is asked for
  timeOut,
  now,        \* time.Now()
  oneZone,    \* do parsed times and times of the history share a location?
  pc,         \* "start", "end", "loop", "done"
  start, end, \* the window that is answered for
  i,          \* the change the loop is at
  list        \* statusList

inputs == <<log, timeIn, timeOut, now, oneZone>>
windowVars == <<inputs, pc, start, end, i, list>>

Times == 1..MaxTime
Row == [status : Statuses, time : Times]

Chronological(h) == \A j, k \in DOMAIN h : j < k => h[j].time < h[k].time

Histories ==
  {h \in UNION {[1..n -> Row] : n \in 1..MaxChanges} : Chronological(h)}

WindowTypeOK ==
  /\ log \in Histories
  /\ {timeIn, timeOut} \subseteq Times \cup {Blank}
  /\ now \in Times
  /\ oneZone \in BOOLEAN
  /\ pc \in {"start", "end", "loop", "done"}
  /\ {start, end} \subseteq Times
  /\ i \in 1..Len(log) + 1
  /\ list \in Seq(Row)

WindowInit ==
  /\ log \in Histories
  /\ timeIn \in Times \cup {Blank}
  /\ timeOut \in Times \cup {Blank}
  /\ now \in Times
  /\ \A k \in DOMAIN log : log[k].time < now
  /\ oneZone \in BOOLEAN
  /\ pc = "start"
  /\ start = 1
  /\ end = 1
  /\ i = 1
  /\ list = << >>

-----------------------------------------------------------------------------

FirstTime == log[1].time
LastTime == log[Len(log)].time
StartIsParsed == timeIn # Blank /\ timeIn >= FirstTime

\* The window begins no earlier than the history.
ChooseStart ==
  /\ pc = "start"
  /\ pc' = "end"
  /\ start' = IF StartIsParsed THEN timeIn ELSE FirstTime
  /\ UNCHANGED <<inputs, end, i, list>>

\* WindowTypeOK: no end is given, and none is chosen.
FaultyChooseEnd ==
  /\ pc = "end"
  /\ pc' = "loop"
  /\ end' = IF timeOut # Blank /\ timeOut > now THEN now ELSE timeOut
  /\ UNCHANGED <<inputs, start, i, list>>

\* The window ends no later than now.
ChooseEnd ==
  /\ pc = "end"
  /\ pc' = "loop"
  /\ end' = IF timeOut = Blank \/ timeOut > now THEN now ELSE timeOut
  /\ UNCHANGED <<inputs, start, i, list>>

RowIf(condition, status, time) ==
  IF condition THEN <<[status |-> status, time |-> time]>> ELSE << >>

\* tmp == start and tmp == end
EqualsStart(t) == t = start /\ (StartIsParsed => oneZone)
EqualsEnd(t) == t = end /\ oneZone

\* Truthful: the status of the change that follows.
FaultyStraddles(k, bound) ==
  k < Len(log) /\ log[k].time > bound /\ (k > 1 => log[k - 1].time < bound)

\* The bound falls between change k and the one after it.
Straddles(k, bound) ==
  log[k].time < LastTime /\ log[k].time < bound /\ log[k + 1].time > bound

\* NothingMissed: the last change is left out.
FaultyInside(k) == log[k].time < LastTime /\ log[k].time > start /\ log[k].time < end

\* Change k is in the window, or at one of its ends.
Inside(k) ==
  \/ log[k].time > start /\ log[k].time < end
  \/ EqualsStart(log[k].time)
  \/ EqualsEnd(log[k].time)

\* One iteration.
Visit ==
  /\ pc = "loop"
  /\ i <= Len(log)
  /\ list' = list \o RowIf(Straddles(i, start), log[i].status, start)
                  \o RowIf(Inside(i), log[i].status, log[i].time)
                  \o RowIf(Straddles(i, end), log[i].status, end)
  /\ i' = i + 1
  /\ UNCHANGED <<inputs, pc, start, end>>

\* WindowReported: a window that ends with the last change shows it twice.
FaultyClose ==
  /\ pc = "loop"
  /\ i > Len(log)
  /\ list' = list \o RowIf(end >= LastTime, log[Len(log)].status, end)
  /\ pc' = "done"
  /\ UNCHANGED <<inputs, start, end, i>>

\* After the loop: the status since the last change.
Close ==
  /\ pc = "loop"
  /\ i > Len(log)
  /\ list' = list \o RowIf(end > LastTime, log[Len(log)].status, end)
  /\ pc' = "done"
  /\ UNCHANGED <<inputs, start, end, i>>

WindowNext == ChooseStart \/ ChooseEnd \/ Visit \/ Close

WindowSpec == WindowInit /\ [][WindowNext]_windowVars

-----------------------------------------------------------------------------
(* Properties.                                                             *)

\* The server had this status at time t: the reference definition.
InForce(status, t) ==
  \E k \in DOMAIN log :
    /\ log[k].status = status
    /\ log[k].time <= t
    /\ k < Len(log) => t < log[k + 1].time

\* Whatever the window, turned around, in the future or before the history, every
\* row shows the status the server had at the row's time.
Truthful == \A r \in DOMAIN list : InForce(list[r].status, list[r].time)

\* Every change strictly inside the window is a row, even if the window is asked
\* for in another zone than the history was written in.
NothingMissed ==
  pc = "done" =>
    \A k \in DOMAIN log :
      log[k].time > start /\ log[k].time < end => \E r \in DOMAIN list : list[r] = log[k]

\* A window that is not turned around, begins no later than the last change and is
\* given in the zone of the history is answered with exactly its two ends and the
\* changes between them, in order and, if it has a length, each once.
WindowReported ==
  pc = "done" /\ oneZone /\ start <= end /\ start <= LastTime =>
    /\ {list[r].time : r \in DOMAIN list} =
         {start, end} \cup {log[k].time : k \in {j \in DOMAIN log : /\ log[j].time > start
                                                                  /\ log[j].time < end}}
    /\ \A q, r \in DOMAIN list : q < r => list[q].time <= list[r].time
    /\ start < end => \A q, r \in DOMAIN list : q # r => list[q].time # list[r].time
=============================================================================
