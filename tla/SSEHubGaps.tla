----------------------------- MODULE SSEHubGaps ------------------------------
(***************************************************************************)
(* The event stream with the writes that signal nobody, and with the       *)
(* history of the store: what the stream does not give its clients.        *)
(***************************************************************************)
EXTENDS SSEHub

VARIABLE past     \* history: the states the store has been in

gapVars == <<hubVars, past>>

GapInit == HubInit /\ past = {Nothing}

\* updateServer of a row whose worker has nothing to do (not running, or a field other
\* than the port): the store is written and the manager is nudged, but no worker moves
\* and the hub is not notified.
updateServerQuiet ==
  /\ servers < MaxWrites
  /\ servers' = servers + 1
  /\ UNCHANGED <<clusters, signals, hub, streams>>

GapNext ==
  /\ HubNext \/ updateServerQuiet
  /\ past' = past \cup {[servers |-> servers', clusters |-> clusters']}

GapFairSpec == GapInit /\ [][GapNext]_gapVars /\ HubFairness

-----------------------------------------------------------------------------
\* What snapshotPayload's comment says: servers and clusters travel together, and a
\* consumer always has a consistent view of both: one the fleet has been in.
ConsistentView == \A c \in Clients : view[c] # NoSnapshot => view[c] \in past

\* What sseHub's comment says: the hub is poked for API writes that move no worker, so
\* that every change is broadcast in the end.
WritesAreBroadcast == <>[](last = Current \/ lost)
=============================================================================
