------------------------------- MODULE SSEHub --------------------------------
(***************************************************************************)
(* The state feed of the API's event stream (orchestration/api/sse.go).    *)
(* Writers change the fleet's state and then signal one of two coalescing  *)
(* channels; the hub's run loop answers a signal with one whole-state      *)
(* snapshot, offered to every client's one-slot buffer; a client first     *)
(* registers, then takes a snapshot of its own, then forwards its buffer.  *)
(* The fleet's state is two counters, one for what /api/servers shows and  *)
(* one for /api/clusters.  The host feed has the same shape and no signal, *)
(* and is left out.                                                        *)
(***************************************************************************)
EXTENDS Naturals

CONSTANTS
  Clients,
  MaxWrites,     \* bound on the changes of either half of the state
  NoSnapshot     \* no snapshot: an empty channel, or a client that was sent nothing

ASSUME HubConstants == MaxWrites \in Nat /\ NoSnapshot \notin [servers : Nat, clusters : Nat]

VARIABLES
  servers, clusters, \* how often either half of the fleet's state has changed
  wpc,               \* writer -> "idle", or "wrote": changed but not yet signalled
  changes, poke,     \* the two signal channels: is the one slot taken?
  hpc, hsnap,        \* the run loop: its step, and the snapshot it is taking
  last, lost,        \* the last snapshot broadcast; was a later one lost to an error?
  cpc, csnap,        \* handleSSE of each client: its step, and its first snapshot
  slot,              \* the state channel of each client
  view,              \* what each client was last sent
  skipped            \* did the last broadcast find the client's buffer full?

store == <<servers, clusters>>
signals == <<wpc, changes, poke>>
hub == <<hpc, hsnap, last, lost>>
streams == <<cpc, csnap, slot, view, skipped>>
hubVars == <<store, signals, hub, streams>>

Writers == {"worker", "cluster"}
Snapshot == [servers : 0 .. MaxWrites, clusters : 0 .. MaxWrites]
Nothing == [servers |-> 0, clusters |-> 0]

HubTypeOK ==
  /\ servers \in 0 .. MaxWrites /\ clusters \in 0 .. MaxWrites
  /\ wpc \in [Writers -> {"idle", "wrote"}]
  /\ changes \in BOOLEAN /\ poke \in BOOLEAN
  /\ hpc \in {"select", "servers", "clusters", "broadcast"}
  /\ hsnap \in Snapshot /\ last \in Snapshot
  /\ lost \in BOOLEAN
  /\ cpc \in [Clients -> {"gone", "servers", "clusters", "stream"}]
  /\ csnap \in [Clients -> Snapshot]
  /\ slot \in [Clients -> Snapshot \cup {NoSnapshot}]
  /\ view \in [Clients -> Snapshot \cup {NoSnapshot}]
  /\ skipped \in [Clients -> BOOLEAN]

HubInit ==
  /\ servers = 0 /\ clusters = 0
  /\ wpc = [w \in Writers |-> "idle"]
  /\ changes = FALSE /\ poke = FALSE
  /\ hpc = "select"
  /\ hsnap = Nothing /\ last = Nothing /\ lost = FALSE
  /\ cpc = [c \in Clients |-> "gone"]
  /\ csnap = [c \in Clients |-> Nothing]
  /\ slot = [c \in Clients |-> NoSnapshot]
  /\ view = [c \in Clients |-> NoSnapshot]
  /\ skipped = [c \in Clients |-> FALSE]

-----------------------------------------------------------------------------
(* The writers. *)

\* A worker changes its phase, its port or its presence ...
WorkerMoves ==
  /\ wpc["worker"] = "idle" /\ servers < MaxWrites
  /\ servers' = servers + 1
  /\ wpc' = [wpc EXCEPT !["worker"] = "wrote"]
  /\ UNCHANGED <<clusters, changes, poke, hub, streams>>

\* Mutant: the signal is offered only to a run loop that is waiting for it.
signalChangeUnbuffered ==
  /\ wpc["worker"] = "wrote"
  /\ changes' = (changes \/ hpc = "select")
  /\ wpc' = [wpc EXCEPT !["worker"] = "idle"]
  /\ UNCHANGED <<store, poke, hub, streams>>

\* ... and signals: a full channel absorbs the signal.
signalChange ==
  /\ wpc["worker"] = "wrote"
  /\ changes' = TRUE
  /\ wpc' = [wpc EXCEPT !["worker"] = "idle"]
  /\ UNCHANGED <<store, poke, hub, streams>>

\* A cluster handler writes the store ...
ClusterWrite ==
  /\ wpc["cluster"] = "idle" /\ clusters < MaxWrites
  /\ clusters' = clusters + 1
  /\ wpc' = [wpc EXCEPT !["cluster"] = "wrote"]
  /\ UNCHANGED <<servers, changes, poke, hub, streams>>

\* ... and pokes the hub.
notify ==
  /\ wpc["cluster"] = "wrote"
  /\ poke' = TRUE
  /\ wpc' = [wpc EXCEPT !["cluster"] = "idle"]
  /\ UNCHANGED <<store, changes, hub, streams>>

-----------------------------------------------------------------------------
(* The run loop. *)

\* select takes one of the signals that are there; the other stays for the next round.
TakeChange ==
  /\ hpc = "select" /\ changes
  /\ changes' = FALSE
  /\ hpc' = "servers"
  /\ UNCHANGED <<store, wpc, poke, hsnap, last, lost, streams>>

TakePoke ==
  /\ hpc = "select" /\ poke
  /\ poke' = FALSE
  /\ hpc' = "servers"
  /\ UNCHANGED <<store, wpc, changes, hsnap, last, lost, streams>>

\* fleetSnapshot reads the servers, then the clusters: two statements, no transaction.
\* serverStatuses reads the rows before the workers' phases, which are what a worker's
\* move changes; that read is the step.  (A write to a row is like one to a cluster,
\* signalled by the same notify after it is done, whichever read it falls behind.)
HubReadServers ==
  /\ hpc = "servers"
  /\ hsnap' = [hsnap EXCEPT !.servers = servers]
  /\ hpc' = "clusters"
  /\ UNCHANGED <<store, signals, last, lost, streams>>

\* Mutant: the clusters are those of the previous snapshot.
HubReadClustersCached ==
  /\ hpc = "clusters"
  /\ hpc' = "broadcast"
  /\ UNCHANGED <<store, signals, hsnap, last, lost, streams>>

HubReadClusters ==
  /\ hpc = "clusters"
  /\ hsnap' = [hsnap EXCEPT !.clusters = clusters]
  /\ hpc' = "broadcast"
  /\ UNCHANGED <<store, signals, last, lost, streams>>

\* A read fails: the signal is spent and nothing is pushed.
HubSnapshotFails ==
  /\ hpc \in {"servers", "clusters"}
  /\ lost' = TRUE
  /\ hpc' = "select"
  /\ UNCHANGED <<store, signals, hsnap, last, streams>>

\* Mutant: a client is registered after its first snapshot.
RegisteredLate(c) == cpc[c] = "stream"

\* The hub's clients: from add to remove.
Registered(c) == cpc[c] # "gone"

\* broadcastState, under the hub's mutex: a client whose buffer is full is skipped.
broadcastState ==
  /\ hpc = "broadcast"
  /\ slot' = [c \in Clients |-> IF Registered(c) /\ slot[c] = NoSnapshot THEN hsnap ELSE slot[c]]
  /\ skipped' = [c \in Clients |-> Registered(c) /\ slot[c] # NoSnapshot]
  /\ last' = hsnap /\ lost' = FALSE
  /\ hpc' = "select"
  /\ UNCHANGED <<store, signals, hsnap, cpc, csnap, view>>

-----------------------------------------------------------------------------
(* handleSSE. *)

\* add: the client registers with an empty buffer before it reads anything.
add(c) ==
  /\ cpc[c] = "gone"
  /\ cpc' = [cpc EXCEPT ![c] = "servers"]
  /\ slot' = [slot EXCEPT ![c] = NoSnapshot]
  /\ view' = [view EXCEPT ![c] = NoSnapshot]
  /\ skipped' = [skipped EXCEPT ![c] = FALSE]
  /\ UNCHANGED <<store, signals, hub, csnap>>

ClientReadServers(c) ==
  /\ cpc[c] = "servers"
  /\ csnap' = [csnap EXCEPT ![c].servers = servers]
  /\ cpc' = [cpc EXCEPT ![c] = "clusters"]
  /\ UNCHANGED <<store, signals, hub, slot, view, skipped>>

\* The second read completes the first snapshot, and it is sent.
ClientReadClusters(c) ==
  /\ cpc[c] = "clusters"
  /\ csnap' = [csnap EXCEPT ![c].clusters = clusters]
  /\ view' = [view EXCEPT ![c] = csnap'[c]]
  /\ cpc' = [cpc EXCEPT ![c] = "stream"]
  /\ UNCHANGED <<store, signals, hub, slot, skipped>>

\* A read fails: the stream goes on without a first snapshot.
ClientSnapshotFails(c) ==
  /\ cpc[c] \in {"servers", "clusters"}
  /\ cpc' = [cpc EXCEPT ![c] = "stream"]
  /\ UNCHANGED <<store, signals, hub, csnap, slot, view, skipped>>

\* The loop forwards what is in the buffer.
Forward(c) ==
  /\ cpc[c] = "stream" /\ slot[c] # NoSnapshot
  /\ view' = [view EXCEPT ![c] = slot[c]]
  /\ slot' = [slot EXCEPT ![c] = NoSnapshot]
  /\ UNCHANGED <<store, signals, hub, cpc, csnap, skipped>>

\* The client disconnects: the deferred remove deletes it and closes its channels.
remove(c) ==
  /\ cpc[c] = "stream"
  /\ cpc' = [cpc EXCEPT ![c] = "gone"]
  /\ slot' = [slot EXCEPT ![c] = NoSnapshot]
  /\ view' = [view EXCEPT ![c] = NoSnapshot]
  /\ skipped' = [skipped EXCEPT ![c] = FALSE]
  /\ UNCHANGED <<store, signals, hub, csnap>>

-----------------------------------------------------------------------------
HubStep == TakeChange \/ TakePoke \/ HubReadServers \/ HubReadClusters \/ broadcastState

HubNext ==
  \/ WorkerMoves \/ signalChange \/ ClusterWrite \/ notify
  \/ HubStep \/ HubSnapshotFails
  \/ \E c \in Clients :
       \/ add(c) \/ ClientReadServers(c) \/ ClientReadClusters(c) \/ ClientSnapshotFails(c)
       \/ Forward(c) \/ remove(c)

HubSpec == HubInit /\ [][HubNext]_hubVars

\* The goroutines that have something to do run: a writer reaches its signal, the run
\* loop takes its signals and a handler forwards its buffer.
HubFairness ==
  /\ WF_hubVars(signalChange) /\ WF_hubVars(notify)
  /\ WF_hubVars(HubStep \/ HubSnapshotFails)
  /\ \A c \in Clients :
       /\ WF_hubVars(ClientReadServers(c) \/ ClientReadClusters(c))
       /\ WF_hubVars(Forward(c))

HubFairSpec == HubSpec /\ HubFairness

-----------------------------------------------------------------------------
Current == [servers |-> servers, clusters |-> clusters]
AtLeast(a, b) == a.servers >= b.servers /\ a.clusters >= b.clusters

\* No change is forgotten by the coalescing: as long as the last broadcast lacks a
\* change, its signal is still to come or waiting, or the run loop has yet to read it or
\* has read it and is about to send it, unless a failed read lost it.
NothingForgotten ==
  /\ last.servers < servers =>
       \/ wpc["worker"] = "wrote" \/ changes \/ lost
       \/ hpc = "servers"
       \/ hpc \in {"clusters", "broadcast"} /\ hsnap.servers = servers
  /\ last.clusters < clusters =>
       \/ wpc["cluster"] = "wrote" \/ poke \/ lost
       \/ hpc \in {"servers", "clusters"}
       \/ hpc = "broadcast" /\ hsnap.clusters = clusters

\* A client that was not skipped is as current as the hub: with an empty buffer and the
\* last broadcast not withheld from it, it was sent nothing older than that broadcast,
\* whatever was broadcast while it was registering and taking its first snapshot.
UnskippedIsCurrent ==
  \A c \in Clients :
    cpc[c] = "stream" /\ slot[c] = NoSnapshot /\ ~skipped[c] /\ view[c] # NoSnapshot =>
      AtLeast(view[c], last)

\* The inductive invariant behind NothingForgotten and UnskippedIsCurrent (ApiProofs):
\* what the run loop's step tells of the signals, and where the last broadcast is.
SignalInv ==
  /\ hpc = "select" =>
       \/ lost
       \/ /\ last.servers = servers \/ wpc["worker"] = "wrote" \/ changes
          /\ last.clusters = clusters \/ wpc["cluster"] = "wrote" \/ poke
  /\ hpc \in {"clusters", "broadcast"} =>
       hsnap.servers = servers \/ wpc["worker"] = "wrote" \/ changes
  /\ hpc = "broadcast" =>
       hsnap.clusters = clusters \/ wpc["cluster"] = "wrote" \/ poke

StreamInv ==
  /\ last.servers <= servers /\ last.clusters <= clusters
  /\ hsnap.servers <= servers /\ hsnap.clusters <= clusters
  /\ \A c \in Clients :
       /\ cpc[c] = "gone" => slot[c] = NoSnapshot
       /\ cpc[c] \in {"servers", "clusters"} => view[c] = NoSnapshot
       /\ slot[c] # NoSnapshot /\ ~skipped[c] => slot[c] = last
       /\ cpc[c] = "clusters" /\ slot[c] = NoSnapshot /\ ~skipped[c] =>
            csnap[c].servers >= last.servers
  /\ UnskippedIsCurrent

\* The order of the snapshots: a client's broadcasts reach it in the order they were read.
FeedInv ==
  /\ AtLeast(hsnap, last)
  /\ \A c \in Clients :
       /\ slot[c] # NoSnapshot => AtLeast(last, slot[c])
       /\ view[c] # NoSnapshot /\ view[c] # csnap[c] =>
            AtLeast(last, view[c]) /\ (slot[c] # NoSnapshot => AtLeast(slot[c], view[c]))

\* The broadcasts never go back, and neither does what a client is sent, although its
\* buffer is one deep and it may be skipped.  The one exception is the hand-over from the
\* first snapshot, which is its own, to a broadcast that was read before it.
FeedNeverGoesBack ==
  [][/\ AtLeast(last', last)
     /\ \A c \in Clients :
          view[c] # NoSnapshot /\ view'[c] # NoSnapshot /\ view[c] # csnap[c] =>
            AtLeast(view'[c], view[c])]_hubVars

\* Every change is broadcast in the end, or a failed read lost it.
BroadcastCatchesUp == <>[](last = Current \/ lost)

\* What broadcastState's comment says of a skipped client: the next snapshot makes up for
\* the one it missed, so that a connected client ends up with the current state.
ViewsCatchUp ==
  \A c \in Clients : <>[](cpc[c] = "stream" => view[c] = NoSnapshot \/ view[c] = Current \/ lost)
=============================================================================
