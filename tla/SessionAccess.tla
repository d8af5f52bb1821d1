---------------------------- MODULE SessionAccess ----------------------------
(***************************************************************************)
(* What the API promises about a stored bucket session, whatever caches it *)
(* keeps: only the owner is served, a session is never served before it is *)
(* created, and a deleted session may linger for a while but, once gone,   *)
(* is never served again.  SessionCache implements this specification.     *)
(***************************************************************************)
CONSTANTS Users, Sessions, Requests

VARIABLES
  status,   \* [Sessions -> Statuses]
  holder,   \* [Sessions -> SUBSET Users]: who owns the session, {} before creation
  serving   \* set of <<request, session, user>> now being served

vars == <<status, holder, serving>>

Statuses == {"unused", "stored", "lingering", "gone"}

Init ==
  /\ status = [s \in Sessions |-> "unused"]
  /\ holder = [s \in Sessions |-> {}]
  /\ serving = {}

\* A user stores a session under an id no session had before.
Create(s, u) ==
  /\ status[s] = "unused"
  /\ status' = [status EXCEPT ![s] = "stored"]
  /\ holder' = [holder EXCEPT ![s] = {u}]
  /\ UNCHANGED serving

\* A session is deleted; copies of it may outlive the row.
Delete(s) ==
  /\ status[s] = "stored"
  /\ \E left \in {"lingering", "gone"} : status' = [status EXCEPT ![s] = left]
  /\ UNCHANGED <<holder, serving>>

\* A request starts being served: it is the owner's, and the session is not gone.
Serve(q, s, u) ==
  /\ status[s] \in {"stored", "lingering"}
  /\ u \in holder[s]
  /\ serving' = serving \cup {<<q, s, u>>}
  /\ UNCHANGED <<status, holder>>

\* Requests end, and deleted sessions nothing refers to any more are gone.
Settle ==
  /\ serving' \subseteq serving
  /\ \E faded \in SUBSET {s \in Sessions : status[s] = "lingering"} :
       status' = [s \in Sessions |-> IF s \in faded THEN "gone" ELSE status[s]]
  /\ \A t \in serving' : status'[t[2]] # "gone"
  /\ UNCHANGED holder

Next ==
  \/ \E s \in Sessions, u \in Users : Create(s, u)
  \/ \E s \in Sessions : Delete(s)
  \/ \E q \in Requests, s \in Sessions, u \in Users : Serve(q, s, u)
  \/ Settle

Spec == Init /\ [][Next]_vars
=============================================================================
