----------------------------- MODULE FleetEdits -----------------------------
(***************************************************************************)
(* Fleet with the two database statements of updateServer taken apart: the *)
(* handler reads the whole row, overlays the request on it and writes the  *)
(* whole row back, with no transaction around the two.                     *)
(***************************************************************************)
EXTENDS MCFleet

VARIABLE edit   \* the PUT between its read and its write: at most one

evars == <<vars, edit>>

EInit == Init /\ edit = {}

\* updateServerRequest.applyTo: NoPort is a request without a port, "" one without a
\* desired state.
applyTo(row, port, desired) ==
  [home |-> IF port = NoPort THEN row.home ELSE port,
   desired |-> IF desired = "" THEN row.desired ELSE desired]

\* The handler up to the UPDATE; a port is refused for a member.
EditRead(n, port, desired) ==
  /\ edit = {} /\ rows[n] # NoRow
  /\ rows[n].home = Clustered => port = NoPort
  /\ edit' = {[name |-> n, row |-> applyTo(rows[n], port, desired), asked |-> desired]}
  /\ UNCHANGED vars

\* The UPDATE: it touches the row that has the name now, if there is one, and is
\* refused where its port or cluster is not admissible.
EditWrite ==
  \E e \in edit :
    /\ edit' = {}
    /\ rows' = IF rows[e.name] # NoRow
                  /\ (rows[e.name].home = e.row.home \/ Admissible(e.row.home))
               THEN [rows EXCEPT ![e.name] = e.row] ELSE rows
    /\ UNCHANGED <<clusterPort, w, container, proxyVars, mgrVars>>

ENext ==
  \/ Next /\ UNCHANGED edit
  \/ \E n \in Names, port \in Ports \cup {NoPort}, desired \in Desired \cup {""} :
       EditRead(n, port, desired)
  \/ EditWrite

ESpec == EInit /\ [][ENext]_evars

\* types.go:136, "An empty DesiredState preserves the current one (use /start and
\* /stop to change it)": the write of such a request leaves the desired state as it
\* finds it, whatever a /stop or the worker's stop_after_hrs did since the read.
EmptyDesiredPreserves ==
  [][\A e \in edit : e.asked = "" /\ edit' = {} /\ rows[e.name] # NoRow =>
       rows'[e.name].desired = rows[e.name].desired]_evars

=============================================================================
