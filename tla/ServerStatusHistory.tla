-------------------------- MODULE ServerStatusHistory --------------------------
(***************************************************************************)
(* ServerStatus with three history variables, and what can only be said    *)
(* with them: how the document of each server relates to StatusDocument,   *)
(* when a deleted server leaves a document behind, and what the success    *)
(* that Connect and Disconnect report to their clients is worth.           *)
(***************************************************************************)
EXTENDS ServerStatus

VARIABLES
  versions,    \* per server, every history its document has held, and the empty one
  overtaken,   \* servers whose document DeleteServer removed before AddServer wrote it
  disturbed    \* the handlers that were given no history or an outdated one, or whose
               \* server's document somebody else has written since

historyVars == <<vars, versions, overtaken, disturbed>>

HistoryInit ==
  /\ Init
  /\ versions = [s \in Servers |-> {NoDocument}]
  /\ overtaken = {}
  /\ disturbed = {}

\* c goes on with what a search returned that was not the document.
Misled(c) ==
  /\ pc[c] = "search" /\ pc'[c] = "update"
  /\ \/ searchable[srv[c]] = NoDocument
     \/ searchable[srv[c]] # index[srv[c]]

\* Someone else than c writes the document of c's server.
Overtaken(c) ==
  /\ pc[c] \in {"update", "removeData"}
  /\ index'[srv[c]] # index[srv[c]]
  /\ ~ (pc[c] = "update" /\ pc'[c] # "update")

HistoryNext ==
  /\ Next
  /\ versions' = [s \in Servers |-> versions[s] \cup {index'[s]}]
  /\ overtaken' = overtaken \cup
       {srv[c] : c \in {d \in Goroutines : pc[d] = "deleteDoc" /\ pc'[d] # "deleteDoc"
                                           /\ BeingAdded(srv[d])}}
  /\ disturbed' = {c \in Goroutines : /\ pc'[c] # "idle"
                                      /\ c \in disturbed \/ Misled(c) \/ Overtaken(c)}

HistorySpec == HistoryInit /\ [][HistoryNext]_historyVars

-----------------------------------------------------------------------------

\* New until the index request of its AddServer has been made.
PhaseOf(s) ==
  IF index[s] # NoDocument THEN "present"
  ELSE IF record[s] = "absent" \/ BeingAdded(s) THEN "new"
  ELSE "gone"

Document(s) == INSTANCE StatusDocument
                 WITH phase <- PhaseOf(s), log <- index[s], past <- versions[s]

\* Every handler, crash and failure takes the document of a server through the
\* steps of StatusDocument: no update ever brings a deleted history back, and none
\* writes anything but an earlier version plus one later entry.
DocumentsRefine ==
  /\ \A s \in Servers : Document(s)!Init
  /\ [][\A s \in Servers : [Document(s)!Next]_(Document(s)!docVars)]_historyVars

\* DeleteServer clears two stores with two calls while other handlers rewrite the
\* document.  Without failures a deleted server leaves a document behind only if it
\* was deleted, from a listing, before its own AddServer came to write it.
NoOrphanHistory ==
  failed = {} =>
    \A s \in Servers :
      record[s] = "deleted" /\ index[s] # NoDocument =>
        \/ s \in overtaken
        \/ \E c \in Calls : pc[c] = "deleteDoc" /\ srv[c] = s

\* Connect and Disconnect report success without having looked at the outcome of their
\* update, and Disconnect even without having got so far.  As long as no request fails,
\* what they report is in the document when they reply, unless somebody else has written
\* the document since the version they were given.
SuccessRecorded ==
  failed = {} =>
    \A c \in Calls \ disturbed :
      pc[c] = "removeData" /\ op[c] \in {"Connect", "Disconnect"} => index[srv[c]] = body[c]
=============================================================================
