---------------------------- MODULE StatusDocument ----------------------------
(***************************************************************************)
(* What the status index promises of the document of one server, whatever  *)
(* the handlers, the crashes and the failures: it is created once, with a  *)
(* single "Off"; from then on each change writes some version it already   *)
(* had, or the empty history, extended by one later entry; and once gone it *)
(* never comes back.  A change may drop entries, it can never invent or     *)
(* reorder any.                                                             *)
(***************************************************************************)
EXTENDS Naturals, Sequences

VARIABLES
  phase,   \* "new", "present" or "gone"
  log,     \* the history, empty unless present
  past     \* every history the document ever had, and the empty one

docVars == <<phase, log, past>>

Status == {"On", "Off", "Invalid"}
Entry == [status : Status, time : Nat]

Init ==
  /\ phase = "new"
  /\ log = << >>
  /\ past = {<< >>}

\* AddServer
Create ==
  /\ phase = "new"
  /\ phase' = "present"
  /\ Len(log') = 1
  /\ log'[1] \in Entry
  /\ log'[1].status = "Off"
  /\ past' = past \cup {log'}

\* Connect, Disconnect, ChangePassword, UpdateStatus
Rewrite ==
  /\ phase = "present"
  /\ log' # << >>
  /\ \E base \in past : \E e \in {log'[Len(log')]} :
       /\ e \in Entry
       /\ log' = Append(base, e)
       /\ \A i \in DOMAIN base : base[i].time < e.time
  /\ past' = past \cup {log'}
  /\ UNCHANGED phase

\* DeleteServer, or an AddServer that never wrote the document
Retire ==
  /\ phase # "gone"
  /\ phase' = "gone"
  /\ log' = << >>
  /\ UNCHANGED past

Next == Create \/ Rewrite \/ Retire

Spec == Init /\ [][Next]_docVars
=============================================================================
