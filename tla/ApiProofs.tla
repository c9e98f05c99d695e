----------------------------- MODULE ApiProofs ------------------------------
(***************************************************************************)
(* Proofs about the API: what its event stream shows, the snapshots of the *)
(* fleet (SSEHub), for every set of clients and any number of writes, and  *)
(* the CPU share of the host (HostStats), for every width of the counters; *)
(* and its accounts (Accounts), for any names, passwords, secrets and      *)
(* clients, and any lifetime of a token.                                   *)
(***************************************************************************)
EXTENDS SSEHub, HostStats, Accounts, TLAPS

USE DEF store, signals, hub, streams

-----------------------------------------------------------------------------
(* The event stream.                                                       *)

\* The hub starts with nothing signalled and nobody connected.
LEMMA HubInitHolds == HubInit => HubTypeOK /\ SignalInv /\ StreamInv
<1> SUFFICES ASSUME HubInit PROVE HubTypeOK /\ SignalInv /\ StreamInv
  OBVIOUS
<1> USE HubConstants DEF HubInit
<1>1. HubTypeOK
  <2>1. Nothing \in Snapshot
    BY DEF Nothing, Snapshot
  <2>2. servers \in 0 .. MaxWrites /\ clusters \in 0 .. MaxWrites
    OBVIOUS
  <2>3. changes \in BOOLEAN /\ poke \in BOOLEAN /\ lost \in BOOLEAN
    OBVIOUS
  <2>4. wpc \in [Writers -> {"idle", "wrote"}]
    BY DEF Writers
  <2>5. QED
    BY <2>1, <2>2, <2>3, <2>4 DEF HubTypeOK
<1>2. SignalInv
  BY DEF SignalInv, Nothing
<1>3. StreamInv
  BY DEF StreamInv, UnskippedIsCurrent, Nothing
<1>4. QED
  BY <1>1, <1>2, <1>3

\* Every step keeps the types.
LEMMA HubTypeStep ==
  ASSUME HubTypeOK, [HubNext]_hubVars
  PROVE  HubTypeOK'
<1> USE HubConstants DEF HubTypeOK, Writers, Snapshot
<1>1. CASE WorkerMoves
  BY <1>1 DEF WorkerMoves
<1>2. CASE signalChange
  BY <1>2 DEF signalChange
<1>3. CASE ClusterWrite
  BY <1>3 DEF ClusterWrite
<1>4. CASE notify
  BY <1>4 DEF notify
<1>5. CASE TakeChange
  BY <1>5 DEF TakeChange
<1>6. CASE TakePoke
  BY <1>6 DEF TakePoke
<1>7. CASE HubReadServers
  BY <1>7 DEF HubReadServers
<1>8. CASE HubReadClusters
  BY <1>8 DEF HubReadClusters
<1>9. CASE broadcastState
  BY <1>9 DEF broadcastState
<1>10. CASE HubSnapshotFails
  BY <1>10 DEF HubSnapshotFails
<1>11. ASSUME NEW c \in Clients, add(c) PROVE HubTypeOK'
  BY <1>11 DEF add
<1>12. ASSUME NEW c \in Clients, ClientReadServers(c) PROVE HubTypeOK'
  BY <1>12 DEF ClientReadServers
<1>13. ASSUME NEW c \in Clients, ClientReadClusters(c) PROVE HubTypeOK'
  BY <1>13 DEF ClientReadClusters
<1>14. ASSUME NEW c \in Clients, ClientSnapshotFails(c) PROVE HubTypeOK'
  BY <1>14 DEF ClientSnapshotFails
<1>15. ASSUME NEW c \in Clients, Forward(c) PROVE HubTypeOK'
  BY <1>15 DEF Forward
<1>16. ASSUME NEW c \in Clients, remove(c) PROVE HubTypeOK'
  BY <1>16 DEF remove
<1>17. CASE UNCHANGED hubVars
  BY <1>17 DEF hubVars
<1>18. QED
  BY <1>1, <1>2, <1>3, <1>4, <1>5, <1>6, <1>7, <1>8, <1>9, <1>10, <1>11, <1>12, <1>13, <1>14, <1>15, <1>16, <1>17 DEF HubNext, HubStep

\* Every step keeps the signals' part of the invariant.
LEMMA SignalInvStep ==
  ASSUME HubTypeOK, SignalInv, [HubNext]_hubVars
  PROVE  SignalInv'
<1> USE HubConstants DEF HubTypeOK, Writers, Snapshot, SignalInv
<1>1. CASE WorkerMoves
  BY <1>1 DEF WorkerMoves
<1>2. CASE signalChange
  BY <1>2 DEF signalChange
<1>3. CASE ClusterWrite
  BY <1>3 DEF ClusterWrite
<1>4. CASE notify
  BY <1>4 DEF notify
<1>5. CASE TakeChange
  BY <1>5 DEF TakeChange
<1>6. CASE TakePoke
  BY <1>6 DEF TakePoke
<1>7. CASE HubReadServers
  BY <1>7 DEF HubReadServers
<1>8. CASE HubReadClusters
  BY <1>8 DEF HubReadClusters
<1>9. CASE broadcastState
  BY <1>9 DEF broadcastState
<1>10. CASE HubSnapshotFails
  BY <1>10 DEF HubSnapshotFails
<1>11. ASSUME NEW c \in Clients, add(c) PROVE SignalInv'
  BY <1>11 DEF add
<1>12. ASSUME NEW c \in Clients, ClientReadServers(c) PROVE SignalInv'
  BY <1>12 DEF ClientReadServers
<1>13. ASSUME NEW c \in Clients, ClientReadClusters(c) PROVE SignalInv'
  BY <1>13 DEF ClientReadClusters
<1>14. ASSUME NEW c \in Clients, ClientSnapshotFails(c) PROVE SignalInv'
  BY <1>14 DEF ClientSnapshotFails
<1>15. ASSUME NEW c \in Clients, Forward(c) PROVE SignalInv'
  BY <1>15 DEF Forward
<1>16. ASSUME NEW c \in Clients, remove(c) PROVE SignalInv'
  BY <1>16 DEF remove
<1>17. CASE UNCHANGED hubVars
  BY <1>17 DEF hubVars
<1>18. QED
  BY <1>1, <1>2, <1>3, <1>4, <1>5, <1>6, <1>7, <1>8, <1>9, <1>10, <1>11, <1>12, <1>13, <1>14, <1>15, <1>16, <1>17 DEF HubNext, HubStep

\* Every step keeps the streams' part of the invariant.
LEMMA StreamInvStep ==
  ASSUME HubTypeOK, HubTypeOK', StreamInv, [HubNext]_hubVars
  PROVE  StreamInv'
<1> USE HubConstants
    DEF HubTypeOK, Snapshot, StreamInv, UnskippedIsCurrent, AtLeast, Registered
<1>1. CASE WorkerMoves
  BY <1>1 DEF WorkerMoves
<1>2. CASE signalChange
  BY <1>2 DEF signalChange
<1>3. CASE ClusterWrite
  BY <1>3 DEF ClusterWrite
<1>4. CASE notify
  BY <1>4 DEF notify
<1>5. CASE TakeChange
  BY <1>5 DEF TakeChange
<1>6. CASE TakePoke
  BY <1>6 DEF TakePoke
<1>7. CASE HubReadServers
  BY <1>7 DEF HubReadServers
<1>8. CASE HubReadClusters
  BY <1>8 DEF HubReadClusters
<1>9. CASE broadcastState
  <2> USE <1>9 DEF broadcastState
  <2>1. (last.servers <= servers /\ last.clusters <= clusters)'
    OBVIOUS
  <2>2. (hsnap.servers <= servers /\ hsnap.clusters <= clusters)'
    OBVIOUS
  <2>3. ASSUME NEW c \in Clients, ~skipped'[c]
        PROVE  slot'[c] # NoSnapshot => slot'[c] = last'
    BY <2>3
  <2>4. ASSUME NEW c \in Clients, slot'[c] = NoSnapshot
        PROVE  cpc[c] = "gone"
    BY <2>4
  <2>5. QED
    BY <2>1, <2>2, <2>3, <2>4
<1>10. CASE HubSnapshotFails
  BY <1>10 DEF HubSnapshotFails
<1>11. ASSUME NEW c \in Clients, add(c) PROVE StreamInv'
  BY <1>11 DEF add
<1>12. ASSUME NEW c \in Clients, ClientReadServers(c) PROVE StreamInv'
  BY <1>12 DEF ClientReadServers
<1>13. ASSUME NEW c \in Clients, ClientReadClusters(c) PROVE StreamInv'
  BY <1>13 DEF ClientReadClusters
<1>14. ASSUME NEW c \in Clients, ClientSnapshotFails(c) PROVE StreamInv'
  BY <1>14 DEF ClientSnapshotFails
<1>15. ASSUME NEW c \in Clients, Forward(c) PROVE StreamInv'
  BY <1>15 DEF Forward
<1>16. ASSUME NEW c \in Clients, remove(c) PROVE StreamInv'
  BY <1>16 DEF remove
<1>17. CASE UNCHANGED hubVars
  BY <1>17 DEF hubVars
<1>18. QED
  BY <1>1, <1>2, <1>3, <1>4, <1>5, <1>6, <1>7, <1>8, <1>9, <1>10, <1>11, <1>12, <1>13, <1>14, <1>15, <1>16, <1>17 DEF HubNext, HubStep

\* The types and both parts of the invariant hold in every state of every behaviour.
THEOREM HubInvariant == HubSpec => [](HubTypeOK /\ SignalInv /\ StreamInv)
<1>1. HubTypeOK /\ SignalInv /\ StreamInv /\ [HubNext]_hubVars
        => HubTypeOK' /\ SignalInv' /\ StreamInv'
  BY HubTypeStep, SignalInvStep, StreamInvStep
<1>2. QED
  BY <1>1, HubInitHolds, PTL DEF HubSpec

\* The coalescing signals forget no change: signalChange, notify and run together.
THEOREM SignalsAreNotForgotten == HubSpec => []NothingForgotten
<1>1. HubTypeOK /\ SignalInv => NothingForgotten
  BY DEF HubTypeOK, Snapshot, SignalInv, NothingForgotten
<1>2. QED
  BY <1>1, HubInvariant, PTL

\* A client that the last broadcast did not skip is as current as the hub, however its
\* registration and first snapshot interleave with broadcasts.
THEOREM UnskippedClientsAreCurrent == HubSpec => []UnskippedIsCurrent
<1>1. StreamInv => UnskippedIsCurrent
  BY DEF StreamInv
<1>2. QED
  BY <1>1, HubInvariant, PTL

\* A step that moves no snapshot.
LEMMA Unmoved ==
  ASSUME HubTypeOK, FeedInv, UNCHANGED <<hsnap, last, slot, view, csnap>>
  PROVE  FeedInv' /\ AtLeast(last', last)
         /\ \A c \in Clients : view[c] # NoSnapshot => AtLeast(view'[c], view[c])
BY DEF HubTypeOK, Snapshot, FeedInv, AtLeast

\* A step of one client's handler: the others' snapshots stay where they are.
LEMMA OthersUnmoved ==
  ASSUME HubTypeOK, FeedInv, NEW c \in Clients, UNCHANGED <<hsnap, last>>,
         \A d \in Clients \ {c} : /\ slot'[d] = slot[d] /\ view'[d] = view[d]
                                  /\ csnap'[d] = csnap[d],
         slot'[c] # NoSnapshot => AtLeast(last, slot'[c]),
         view'[c] # NoSnapshot /\ view'[c] # csnap'[c] =>
           AtLeast(last, view'[c]) /\ (slot'[c] # NoSnapshot => AtLeast(slot'[c], view'[c]))
  PROVE  FeedInv' /\ AtLeast(last', last)
         /\ \A d \in Clients \ {c} : view[d] # NoSnapshot => AtLeast(view'[d], view[d])
<1>1. AtLeast(last', last) /\ AtLeast(hsnap', last')
  BY DEF HubTypeOK, Snapshot, FeedInv, AtLeast
<1>2. \A d \in Clients \ {c} : view[d] # NoSnapshot => AtLeast(view'[d], view[d])
  BY DEF HubTypeOK, Snapshot, AtLeast
<1>3. \A d \in Clients :
        /\ slot'[d] # NoSnapshot => AtLeast(last, slot'[d])
        /\ view'[d] # NoSnapshot /\ view'[d] # csnap'[d] =>
             AtLeast(last, view'[d]) /\ (slot'[d] # NoSnapshot => AtLeast(slot'[d], view'[d]))
  BY DEF FeedInv
<1>4. FeedInv'
  BY <1>1, <1>3 DEF FeedInv
<1>5. QED
  BY <1>1, <1>2, <1>4

\* Every step keeps the order of the snapshots, and sends no client an older one unless
\* what it holds is its own first snapshot.
LEMMA FeedStep ==
  ASSUME HubTypeOK, StreamInv, FeedInv, [HubNext]_hubVars
  PROVE  /\ FeedInv' /\ AtLeast(last', last)
         /\ \A c \in Clients :
              view[c] # NoSnapshot /\ view'[c] # NoSnapshot /\ view[c] # csnap[c] =>
                AtLeast(view'[c], view[c])
<1>1. CASE \/ WorkerMoves \/ signalChange \/ ClusterWrite \/ notify
           \/ TakeChange \/ TakePoke \/ HubSnapshotFails \/ UNCHANGED hubVars
  <2>1. UNCHANGED <<hsnap, last, slot, view, csnap>>
    BY <1>1 DEF WorkerMoves, signalChange, ClusterWrite, notify, TakeChange, TakePoke,
                HubSnapshotFails, hubVars
  <2>2. QED
    BY <2>1, Unmoved
<1>2. CASE HubReadServers \/ HubReadClusters
  <2>1. UNCHANGED <<last, slot, view, csnap>>
    BY <1>2 DEF HubReadServers, HubReadClusters
  <2>2. AtLeast(hsnap', last)
    BY <1>2 DEF HubReadServers, HubReadClusters, HubTypeOK, Snapshot, StreamInv, FeedInv, AtLeast
  <2>3. AtLeast(last', last) /\ \A c \in Clients : view[c] # NoSnapshot => AtLeast(view'[c], view[c])
    BY <2>1 DEF HubTypeOK, Snapshot, AtLeast
  <2>4. FeedInv'
    BY <2>1, <2>2 DEF FeedInv
  <2>5. QED
    BY <2>3, <2>4
<1>3. CASE broadcastState
  <2>1. /\ UNCHANGED <<hsnap, view, csnap>> /\ last' = hsnap
        /\ slot' = [c \in Clients |-> IF Registered(c) /\ slot[c] = NoSnapshot THEN hsnap ELSE slot[c]]
    BY <1>3 DEF broadcastState
  <2>2. AtLeast(last', last) /\ AtLeast(hsnap', last') /\ AtLeast(hsnap, hsnap)
    BY <2>1 DEF HubTypeOK, Snapshot, FeedInv, AtLeast
  <2>3. ASSUME NEW c \in Clients, view[c] # NoSnapshot PROVE AtLeast(view'[c], view[c])
    BY <2>1, <2>3 DEF HubTypeOK, Snapshot, AtLeast
  <2>4. \A a, b, d \in Snapshot : AtLeast(a, b) /\ AtLeast(b, d) => AtLeast(a, d)
    BY HubConstants DEF Snapshot, AtLeast
  <2>5. ASSUME NEW c \in Clients
        PROVE  /\ slot'[c] # NoSnapshot => AtLeast(hsnap, slot'[c])
               /\ view[c] # NoSnapshot /\ view[c] # csnap[c] =>
                    /\ AtLeast(hsnap, view[c])
                    /\ slot'[c] # NoSnapshot => AtLeast(slot'[c], view[c])
    <3>1. hsnap \in Snapshot /\ last \in Snapshot /\ AtLeast(hsnap, last)
      BY DEF HubTypeOK, FeedInv
    <3>2. slot[c] \in Snapshot \cup {NoSnapshot} /\ view[c] \in Snapshot \cup {NoSnapshot}
      BY DEF HubTypeOK
    <3>3. slot'[c] = slot[c] \/ slot'[c] = hsnap
      BY <2>1
    <3>4. slot[c] # NoSnapshot => AtLeast(hsnap, slot[c])
      BY <2>4, <3>1, <3>2 DEF FeedInv
    <3>5. view[c] # NoSnapshot /\ view[c] # csnap[c] => AtLeast(hsnap, view[c])
      BY <2>4, <3>1, <3>2 DEF FeedInv
    <3>6. view[c] # NoSnapshot /\ view[c] # csnap[c] /\ slot[c] # NoSnapshot =>
            AtLeast(slot[c], view[c])
      BY DEF FeedInv
    <3>7. QED
      BY <2>2, <3>3, <3>4, <3>5, <3>6
  <2>6. FeedInv'
    BY <2>1, <2>2, <2>5 DEF FeedInv
  <2>7. QED
    BY <2>2, <2>3, <2>6
<1>4. ASSUME NEW c \in Clients, add(c) \/ remove(c)
      PROVE  FeedInv' /\ AtLeast(last', last) /\ view'[c] = NoSnapshot
             /\ \A d \in Clients \ {c} : view[d] # NoSnapshot => AtLeast(view'[d], view[d])
  <2>1. /\ UNCHANGED <<hsnap, last>> /\ slot'[c] = NoSnapshot /\ view'[c] = NoSnapshot
        /\ \A d \in Clients \ {c} : /\ slot'[d] = slot[d] /\ view'[d] = view[d]
                                    /\ csnap'[d] = csnap[d]
    BY <1>4 DEF add, remove, HubTypeOK
  <2>2. QED
    BY <2>1, OthersUnmoved
<1>5. ASSUME NEW c \in Clients,
             ClientReadServers(c) \/ ClientReadClusters(c) \/ ClientSnapshotFails(c)
      PROVE  FeedInv' /\ AtLeast(last', last) /\ view[c] = NoSnapshot
             /\ \A d \in Clients \ {c} : view[d] # NoSnapshot => AtLeast(view'[d], view[d])
  <2>1. view[c] = NoSnapshot
    BY <1>5 DEF ClientReadServers, ClientReadClusters, ClientSnapshotFails, StreamInv
  <2>2. /\ UNCHANGED <<hsnap, last>> /\ slot'[c] = slot[c]
        /\ \A d \in Clients \ {c} : /\ slot'[d] = slot[d] /\ view'[d] = view[d]
                                    /\ csnap'[d] = csnap[d]
    BY <1>5 DEF ClientReadServers, ClientReadClusters, ClientSnapshotFails, HubTypeOK
  <2>3. view'[c] = NoSnapshot \/ view'[c] = csnap'[c]
    BY <1>5, <2>1 DEF ClientReadServers, ClientReadClusters, ClientSnapshotFails, HubTypeOK
  <2>4. slot'[c] # NoSnapshot => AtLeast(last, slot'[c])
    BY <2>2 DEF FeedInv
  <2>5. QED
    BY <2>1, <2>2, <2>3, <2>4, OthersUnmoved
<1>6. ASSUME NEW c \in Clients, Forward(c)
      PROVE  FeedInv' /\ AtLeast(last', last)
             /\ (view[c] # NoSnapshot /\ view[c] # csnap[c] => AtLeast(view'[c], view[c]))
             /\ \A d \in Clients \ {c} : view[d] # NoSnapshot => AtLeast(view'[d], view[d])
  <2>1. /\ UNCHANGED <<hsnap, last>> /\ slot'[c] = NoSnapshot /\ view'[c] = slot[c]
        /\ slot[c] # NoSnapshot
        /\ \A d \in Clients \ {c} : /\ slot'[d] = slot[d] /\ view'[d] = view[d]
                                    /\ csnap'[d] = csnap[d]
    BY <1>6 DEF Forward, HubTypeOK
  <2>2. /\ AtLeast(last, view'[c])
        /\ view[c] # NoSnapshot /\ view[c] # csnap[c] => AtLeast(view'[c], view[c])
    BY <2>1 DEF FeedInv
  <2>3. QED
    BY <2>1, <2>2, OthersUnmoved
<1>7. QED
  BY <1>1, <1>2, <1>3, <1>4, <1>5, <1>6 DEF HubNext, HubStep

\* Broadcasts never go back, and a client that was sent one is never sent an older one
\* (run, broadcastState and handleSSE together); its own first snapshot it may fall behind.
THEOREM FeedsNeverGoBack == HubSpec => FeedNeverGoesBack
<1> DEFINE Ahead == /\ AtLeast(last', last)
                    /\ \A c \in Clients :
                         view[c] # NoSnapshot /\ view'[c] # NoSnapshot /\ view[c] # csnap[c] =>
                           AtLeast(view'[c], view[c])
<1>1. HubInit => FeedInv
  BY DEF HubInit, FeedInv, AtLeast, Nothing
<1>2. ASSUME HubTypeOK, StreamInv, FeedInv, [HubNext]_hubVars PROVE FeedInv' /\ [Ahead]_hubVars
  BY <1>2, FeedStep
<1> HIDE DEF Ahead
<1>3. HubSpec => [][Ahead]_hubVars
  BY <1>1, <1>2, HubInvariant, PTL DEF HubSpec
<1>4. QED
  BY <1>3 DEF Ahead, FeedNeverGoesBack

-----------------------------------------------------------------------------
(* The host's figures.                                                     *)

\* Differences undo sums although both wrap around (the subtractions of cpuDelta).
LEMMA MinusPlus ==
  ASSUME NEW a \in 0 .. W - 1, NEW d \in 0 .. W - 1, W \in Nat \ {0}
  PROVE  Plus(a, d) \in 0 .. W - 1 /\ Minus(Plus(a, d), a) = d
BY DEF Plus, Minus

\* A counter that runs twice has run the sum (two accountings of the kernel between two
\* readings of it).
LEMMA PlusPlus ==
  ASSUME NEW a \in 0 .. W - 1, NEW d \in Nat, NEW e \in Nat, W \in Nat \ {0}, d + e < W
  PROVE  Plus(Plus(a, d), e) = Plus(a, d + e)
BY DEF Plus

\* The sampler starts in the invariant, whether its first reading succeeds or not.
LEMMA SampleInit == ASSUME W \in Nat \ {0} PROVE StatInit => SampleInv
BY DEF StatInit, SampleInv, ShownIsTrue, Line, Jiffies, NoJiffies, ZeroLine, Plus

\* The kernel's accounting keeps the invariant (an increment of the counters).
LEMMA RunStep ==
  ASSUME W \in Nat \ {0}, SampleInv, NEW busy \in 0 .. W - 1, NEW idle \in 0 .. W - 1,
         Run(busy, idle)
  PROVE  SampleInv'
<1>1. kernel.idle \in 0 .. W - 1 /\ kernel.total \in 0 .. W - 1
      /\ since.busy \in 0 .. W - 1 /\ since.idle \in 0 .. W - 1
      /\ prev.idle \in 0 .. W - 1 /\ prev.total \in 0 .. W - 1
  BY DEF SampleInv, Line, Jiffies
<1>2. /\ since'.busy = since.busy + busy /\ since'.idle = since.idle + idle
      /\ since' \in Jiffies /\ since'.busy + since'.idle < W
  BY <1>1 DEF Run, Jiffies
<1>3. /\ kernel'.idle = Plus(kernel.idle, idle)
      /\ kernel'.total = Plus(kernel.total, busy + idle)
      /\ kernel' \in Line
  <2>1. busy + idle \in 0 .. W - 1
    BY <1>1 DEF Run
  <2> QED
    BY <2>1, <1>1, MinusPlus DEF Run, Line
<1>4. ASSUME prevRead
      PROVE  /\ kernel'.idle = Plus(prev.idle, since'.idle)
             /\ kernel'.total = Plus(prev.total, since'.busy + since'.idle)
  <2>1. /\ kernel.idle = Plus(prev.idle, since.idle)
        /\ kernel.total = Plus(prev.total, since.busy + since.idle)
    BY <1>4 DEF SampleInv
  <2>2. Plus(Plus(prev.idle, since.idle), idle) = Plus(prev.idle, since.idle + idle)
    BY <1>1, <1>2, PlusPlus
  <2>3. Plus(Plus(prev.total, since.busy + since.idle), busy + idle)
          = Plus(prev.total, (since.busy + since.idle) + (busy + idle))
    <3>1. since.busy + since.idle \in Nat /\ busy + idle \in Nat
          /\ (since.busy + since.idle) + (busy + idle) < W
      BY <1>1, <1>2
    <3> QED BY <1>1, <3>1, PlusPlus
  <2>4. (since.busy + since.idle) + (busy + idle) = since'.busy + since'.idle
    BY <1>1, <1>2
  <2> QED BY <2>1, <2>2, <2>3, <2>4, <1>2, <1>3
<1> QED BY <1>2, <1>3, <1>4 DEF SampleInv, ShownIsTrue, Run

\* A tick keeps the invariant: cpuDelta of two readings gives back what ran between them,
\* and a failed reading is shown but claims nothing.
LEMMA SampleStep ==
  ASSUME W \in Nat \ {0}, SampleInv, NEW read \in BOOLEAN, Sample(read)
  PROVE  SampleInv'
<1>1. kernel \in Line /\ prev \in Line /\ since \in Jiffies /\ since.busy + since.idle < W
  BY DEF SampleInv
<1>2. prev' \in Line /\ since' \in Jiffies /\ since'.busy + since'.idle < W
      /\ kernel' \in Line /\ prevRead' \in BOOLEAN /\ truth' \in Jiffies
  BY <1>1 DEF Sample, Line, Jiffies, ZeroLine, NoJiffies
<1>3. prevRead' => /\ kernel'.idle = Plus(prev'.idle, since'.idle)
                   /\ kernel'.total = Plus(prev'.total, since'.busy + since'.idle)
  BY <1>1 DEF Sample, Line, NoJiffies, Plus
<1>4. ShownIsTrue'
  <2> SUFFICES ASSUME truth' # NoJiffies
               PROVE  shown' = [busy |-> truth'.busy, of |-> truth'.busy + truth'.idle]
    BY DEF ShownIsTrue, NoJiffies
  <2>1. read /\ prevRead /\ truth' = since /\ shown' = cpuDelta(prev, kernel)
    BY DEF Sample
  <2>2. /\ kernel.idle = Plus(prev.idle, since.idle)
        /\ kernel.total = Plus(prev.total, since.busy + since.idle)
    BY <2>1 DEF SampleInv
  <2>3. /\ Minus(kernel.idle, prev.idle) = since.idle
        /\ Minus(kernel.total, prev.total) = since.busy + since.idle
    BY <1>1, <2>2, MinusPlus DEF Line, Jiffies
  <2>4. since.busy + since.idle # 0 =>
          Minus(since.busy + since.idle, since.idle) = since.busy
    BY <1>1 DEF Minus, Jiffies
  <2>5. since.busy + since.idle = 0 => since.busy = 0
    BY <1>1 DEF Jiffies
  <2> QED BY <2>1, <2>3, <2>4, <2>5 DEF cpuDelta
<1> QED BY <1>2, <1>3, <1>4 DEF SampleInv

\* The share shown between two ticks that were both read is what the machine did between
\* them, for every width of the counters and although they wrap around.
THEOREM ShownShareIsTrue == ASSUME W \in Nat \ {0} PROVE StatSpec => []ShownIsTrue
<1>1. StatInit => SampleInv
  BY SampleInit
<1>2. SampleInv /\ [StatNext]_statVars => SampleInv'
  <2> SUFFICES ASSUME SampleInv, [StatNext]_statVars PROVE SampleInv'
    OBVIOUS
  <2>1. CASE \E busy, idle \in 0 .. W - 1 : Run(busy, idle)
    BY <2>1, RunStep
  <2>2. CASE \E read \in BOOLEAN : Sample(read)
    BY <2>2, SampleStep
  <2>3. CASE UNCHANGED statVars
    BY <2>3 DEF statVars, SampleInv, ShownIsTrue
  <2> QED BY <2>1, <2>2, <2>3 DEF StatNext
<1>3. SampleInv => ShownIsTrue
  BY DEF SampleInv
<1> QED BY <1>1, <1>2, <1>3, PTL DEF StatSpec

-----------------------------------------------------------------------------
(* The accounts: the requests in flight.                                   *)

USE AccountsAssumption

\* A client that asks has its request in flight, and nobody else's changes.
LEMMA AskFacts ==
  ASSUME AccountsTypeOK, NEW c \in Browsers, NEW r \in Login \cup Edit, Asks(c, r)
  PROVE  /\ call' \in [Browsers -> Login \cup Edit \cup {None}]
         /\ call'[c] = r /\ \A d \in Browsers \ {c} : call'[d] = call[d]
BY DEF AccountsTypeOK, Asks

\* An answer ends the request of its client and no other.
LEMMA AnswerFacts ==
  ASSUME AccountsTypeOK, NEW c \in Browsers, Answered(c)
  PROVE  /\ call' \in [Browsers -> Login \cup Edit \cup {None}]
         /\ call'[c] = None /\ \A d \in Browsers \ {c} : call'[d] = call[d]
BY DEF AccountsTypeOK, Answered

\* What a request in flight carries: a name, and unless it deletes a password.
LEMMA RequestFacts ==
  ASSUME AccountsTypeOK, NEW c \in Browsers, call[c] # None
  PROVE  /\ call[c].user \in Users
         /\ call[c].kind \in {"login", "create", "setPassword"} => call[c].pass \in Passwords
<1>1. call[c] \in Login \cup Edit
  BY DEF AccountsTypeOK
<1>2. CASE call[c] \in Login
  BY <1>2 DEF Login
<1>3. CASE call[c] \in [kind : {"create", "setPassword"}, user : Users, pass : Passwords]
  BY <1>3
<1>4. CASE call[c] \in [kind : {"delete"}, user : Users]
  BY <1>4
<1>5. QED
  BY <1>1, <1>2, <1>3, <1>4 DEF Edit

\* The statements of the account handlers change at most the row of the request's name.
\* Only an INSERT makes a row: UPDATE and DELETE leave a missing one missing.
LEMMA StatementFacts ==
  ASSUME AccountsTypeOK, NEW c \in Browsers,
         CreateUser(c) \/ SetUserPassword(c) \/ DeleteUser(c)
  PROVE  /\ AccountsTypeOK'
         /\ call[c] # None /\ call'[c] = None
         /\ \A d \in Browsers \ {c} : call'[d] = call[d]
         /\ UNCHANGED <<admin, adminPass, secret, dbUp, cookie>>
         /\ \A u \in Users : users[u] = None /\ users'[u] # None =>
              call[c].kind = "create" /\ call[c].user = u
<1>1. /\ call[c] # None /\ Answered(c) /\ UNCHANGED <<admin, adminPass, secret, dbUp, cookie>>
      /\ call[c].kind \in {"create", "setPassword", "delete"}
  BY DEF CreateUser, SetUserPassword, DeleteUser, Statement
<1>2. /\ call[c].user \in Users
      /\ call[c].kind \in {"create", "setPassword"} => call[c].pass \in Passwords
  BY <1>1, RequestFacts
<1>3. /\ call' \in [Browsers -> Login \cup Edit \cup {None}]
      /\ call'[c] = None /\ \A d \in Browsers \ {c} : call'[d] = call[d]
  BY <1>1, AnswerFacts
<1>4. /\ users' \in [Users -> Passwords \cup {None}]
      /\ \A u \in Users : users[u] = None /\ users'[u] # None =>
           call[c].kind = "create" /\ call[c].user = u
  <2>1. users \in [Users -> Passwords \cup {None}]
    BY DEF AccountsTypeOK
  <2>2. CASE CreateUser(c)
    BY <1>2, <2>1, <2>2 DEF CreateUser, Statement
  <2>3. CASE SetUserPassword(c)
    BY <1>2, <2>1, <2>3 DEF SetUserPassword, Statement
  <2>4. CASE DeleteUser(c)
    BY <1>2, <2>1, <2>4 DEF DeleteUser, Statement
  <2>5. QED
    BY <2>2, <2>3, <2>4
<1>5. QED
  BY <1>1, <1>3, <1>4 DEF AccountsTypeOK

-----------------------------------------------------------------------------
(* The accounts: every step, and the theorems.                             *)

\* Every step keeps the types.
LEMMA AccountsStep ==
  ASSUME AccountsTypeOK, [Next]_vars
  PROVE  AccountsTypeOK'
<1>1. ASSUME NEW c \in Browsers, LoginAnswer(c) PROVE AccountsTypeOK'
  <2>1. /\ call[c] # None /\ call[c].kind = "login"
        /\ Answered(c) /\ UNCHANGED <<admin, adminPass, secret, users, dbUp>>
    BY <1>1 DEF LoginAnswer
  <2>2. signToken(call[c].user) \in Token
    <3>1. call[c].user \in Users /\ secret \in Secrets /\ tokenTTL \in 1 .. tokenTTL
      BY <2>1, RequestFacts DEF AccountsTypeOK
    <3>2. QED
      BY <3>1 DEF signToken, Token
  <2>3. cookie' \in [Browsers -> Token \cup {None}]
    BY <1>1, <2>2 DEF LoginAnswer, AccountsTypeOK
  <2>4. /\ call' \in [Browsers -> Login \cup Edit \cup {None}]
        /\ call'[c] = None /\ \A d \in Browsers \ {c} : call'[d] = call[d]
    BY <2>1, AnswerFacts
  <2>5. QED
    BY <2>1, <2>3, <2>4 DEF AccountsTypeOK
<1>2. ASSUME NEW c \in Browsers, Logout(c) PROVE AccountsTypeOK'
  BY <1>2 DEF Logout, AccountsTypeOK
<1>3. ASSUME NEW c \in Browsers, CreateUser(c) \/ SetUserPassword(c) \/ DeleteUser(c)
      PROVE  AccountsTypeOK'
  BY <1>3, StatementFacts
<1>4. ASSUME NEW c \in Browsers, NEW u \in Users, NEW p \in Passwords, LoginRead(c, u, p)
      PROVE  AccountsTypeOK'
  <2> DEFINE h == IF u = admin THEN adminPass ELSE UserHash(u)
             r == [kind |-> "login", user |-> u, pass |-> p, hash |-> h]
  <2>1. h \in Passwords \cup {None}
    BY DEF UserHash, AccountsTypeOK
  <2>2. r \in Login /\ r.user = u /\ r.hash = h
    BY <2>1 DEF Login
  <2>3. Asks(c, r) /\ UNCHANGED <<admin, adminPass, secret, users, dbUp, cookie>>
    BY <1>4 DEF LoginRead
  <2> HIDE DEF r
  <2>4. /\ call' \in [Browsers -> Login \cup Edit \cup {None}]
        /\ call'[c] = r /\ \A d \in Browsers \ {c} : call'[d] = call[d]
    BY <2>2, <2>3, AskFacts
  <2>5. QED
    BY <2>3, <2>4 DEF AccountsTypeOK
<1>5. ASSUME NEW c \in Browsers, NEW e \in Edit, requireAuth(c, e)
      PROVE  AccountsTypeOK'
  <2>1. Asks(c, e) /\ UNCHANGED <<admin, adminPass, secret, users, dbUp, cookie>>
    BY <1>5 DEF requireAuth
  <2>2. /\ call' \in [Browsers -> Login \cup Edit \cup {None}]
        /\ call'[c] = e /\ \A d \in Browsers \ {c} : call'[d] = call[d]
    BY <2>1, AskFacts
  <2>3. e.kind # "login"
    BY DEF Edit
  <2>4. QED
    BY <2>1, <2>2, <2>3 DEF AccountsTypeOK
<1>6. CASE Tick
  <2>1. ASSUME NEW c \in Browsers PROVE cookie'[c] \in Token \cup {None}
    <3>1. CASE cookie[c] = None \/ cookie[c].left = 1
      BY <1>6, <3>1 DEF Tick
    <3>2. CASE cookie[c] # None /\ cookie[c].left # 1
      <4>1. cookie[c] \in Token /\ cookie'[c] = [cookie[c] EXCEPT !.left = @ - 1]
        BY <1>6, <3>2 DEF Tick, AccountsTypeOK
      <4>2. cookie[c].left - 1 \in 1 .. tokenTTL
        BY <3>2, <4>1 DEF Token
      <4>3. QED
        BY <4>1, <4>2 DEF Token
    <3>3. QED
      BY <3>1, <3>2
  <2>2. cookie' \in [Browsers -> Token \cup {None}]
    BY <1>6, <2>1 DEF Tick
  <2>3. QED
    BY <1>6, <2>2 DEF Tick, AccountsTypeOK
<1>7. CASE DatabaseFlaps
  BY <1>7 DEF DatabaseFlaps, AccountsTypeOK
<1>8. CASE Restart
  <2>1. PICK e \in Environments : admin' = e.user /\ adminPass' = e.pass /\ secret' = e.secret
    BY <1>8 DEF Restart
  <2>2. admin' \in Users /\ adminPass' \in Passwords /\ secret' \in Secrets
    BY <2>1, AccountsAssumption
  <2>3. QED
    BY <1>8, <2>2 DEF Restart, AccountsTypeOK
<1>9. CASE UNCHANGED vars
  BY <1>9 DEF vars, AccountsTypeOK
<1>10. QED
  BY <1>1, <1>2, <1>3, <1>4, <1>5, <1>6, <1>7, <1>8, <1>9 DEF Next

\* The types hold throughout.
THEOREM AccountsTyped == Spec => []AccountsTypeOK
<1>1. Init => AccountsTypeOK
  <2> SUFFICES ASSUME Init PROVE AccountsTypeOK
    OBVIOUS
  <2>1. PICK e \in Environments : admin = e.user /\ adminPass = e.pass /\ secret = e.secret
    BY DEF Init
  <2>2. admin \in Users /\ adminPass \in Passwords /\ secret \in Secrets
    BY <2>1, AccountsAssumption
  <2>3. QED
    BY <2>2 DEF Init, AccountsTypeOK
<1>2. QED
  BY <1>1, AccountsStep, PTL DEF Spec

\* A deleted account comes back through a creation of its name only (the UPDATE of
\* SetUserPassword matches no row once it is gone, however long its hashing took).
THEOREM DeletedComesBackByCreation == Spec => DeletedStaysDeleted
<1> DEFINE Revived == \A u \in Users : users[u] = None /\ users'[u] # None =>
                        \E c \in Browsers : /\ call[c] # None /\ call'[c] = None
                                           /\ call[c].kind = "create" /\ call[c].user = u
<1>1. ASSUME AccountsTypeOK, [Next]_vars PROVE [Revived]_vars
  <2>1. ASSUME NEW c \in Browsers, CreateUser(c) \/ SetUserPassword(c) \/ DeleteUser(c)
        PROVE  Revived
    <3>1. /\ call[c] # None /\ call'[c] = None
          /\ \A u \in Users : users[u] = None /\ users'[u] # None =>
               call[c].kind = "create" /\ call[c].user = u
      BY <1>1, <2>1, StatementFacts
    <3>2. QED
      BY <3>1
  <2>2. CASE UNCHANGED users
    BY <2>2
  <2>3. QED
    BY <1>1, <2>1, <2>2 DEF Next, vars, LoginAnswer, Logout, LoginRead, requireAuth, Tick,
                            DatabaseFlaps, Restart
<1> HIDE DEF Revived
<1>2. Spec => [][Revived]_vars
  BY <1>1, AccountsTyped, PTL DEF Spec
<1>3. QED
  BY <1>2 DEF Revived, DeletedStaysDeleted

\* A step that leaves the cookies alone ages no session.
LEMMA SameCookies ==
  ASSUME UNCHANGED cookie, AccountsTypeOK, NEW u \in Users
  PROVE  \A c \in Browsers : cookie'[c] # None /\ cookie'[c].sub = u =>
           /\ cookie[c] # None /\ cookie[c].sub = u
           /\ cookie'[c].left <= cookie[c].left
<1>1. \A c \in Browsers : cookie[c] # None => cookie[c].left \in Nat
  BY DEF AccountsTypeOK, Token
<1>2. QED
  BY <1>1

\* Once nobody gets in as u, the sessions of u only run out: a login that starts reads no
\* hash, one that is being answered is refused, and no request renews a token.
LEMMA ShutOutStep ==
  ASSUME AccountsTypeOK, [Next]_vars, NEW u \in Users, ShutOut(u)
  PROVE  /\ ShutOut(u)' \/ users'[u] # None \/ admin' = u
         /\ \A c \in Browsers : cookie'[c] # None /\ cookie'[c].sub = u =>
              /\ cookie[c] # None /\ cookie[c].sub = u
              /\ cookie'[c].left <= cookie[c].left
<1> DEFINE Ages == \A c \in Browsers : cookie'[c] # None /\ cookie'[c].sub = u =>
                     /\ cookie[c] # None /\ cookie[c].sub = u
                     /\ cookie'[c].left <= cookie[c].left
           Stays == ShutOut(u)' \/ users'[u] # None \/ admin' = u
<1>0. \A c \in Browsers : cookie[c] # None => cookie[c] \in Token /\ cookie[c].left \in Nat
  BY DEF AccountsTypeOK, Token
<1>1. ASSUME NEW c \in Browsers, LoginAnswer(c) PROVE Stays /\ Ages
  <2>1. /\ call[c] # None /\ call[c].kind = "login" /\ Answered(c)
        /\ UNCHANGED <<admin, adminPass, secret, users, dbUp>>
    BY <1>1 DEF LoginAnswer
  <2>2. call'[c] = None /\ \A d \in Browsers \ {c} : call'[d] = call[d]
    BY <2>1, AnswerFacts
  <2>3. Stays
    BY <2>1, <2>2 DEF ShutOut
  <2>4. CASE call[c].hash # call[c].pass
    <3>1. UNCHANGED cookie
      BY <1>1, <2>4 DEF LoginAnswer
    <3>2. QED
      BY <2>3, <3>1, SameCookies
  <2>5. CASE call[c].hash = call[c].pass
    <3>1. call[c].user # u
      BY <2>1, <2>5 DEF ShutOut
    <3>2. /\ cookie' = [cookie EXCEPT ![c] = signToken(call[c].user)]
          /\ cookie \in [Browsers -> Token \cup {None}]
      BY <1>1, <2>5 DEF LoginAnswer, AccountsTypeOK
    <3>3. cookie'[c].sub # u
      BY <3>1, <3>2 DEF signToken
    <3>4. \A d \in Browsers \ {c} : cookie'[d] = cookie[d]
      BY <3>2
    <3>5. Ages
      BY <1>0, <3>3, <3>4
    <3>6. QED
      BY <2>3, <3>5
  <2>6. QED
    BY <2>4, <2>5
<1>2. ASSUME NEW c \in Browsers, Logout(c) PROVE Stays /\ Ages
  <2>1. /\ cookie' = [cookie EXCEPT ![c] = None] /\ UNCHANGED <<admin, users, call>>
        /\ cookie \in [Browsers -> Token \cup {None}]
    BY <1>2 DEF Logout, AccountsTypeOK
  <2>2. cookie'[c] = None /\ \A d \in Browsers \ {c} : cookie'[d] = cookie[d]
    BY <2>1
  <2>3. Ages
    BY <1>0, <2>2
  <2>4. QED
    BY <2>1, <2>3 DEF ShutOut
<1>3. ASSUME NEW c \in Browsers, CreateUser(c) \/ SetUserPassword(c) \/ DeleteUser(c)
      PROVE  Stays /\ Ages
  <2>1. /\ call'[c] = None /\ \A d \in Browsers \ {c} : call'[d] = call[d]
        /\ UNCHANGED <<admin, cookie>>
    BY <1>3, StatementFacts
  <2>2. Ages
    BY <2>1, SameCookies
  <2>3. Stays
    BY <2>1 DEF ShutOut
  <2>4. QED
    BY <2>2, <2>3
<1>4. ASSUME NEW c \in Browsers, NEW v \in Users, NEW p \in Passwords, LoginRead(c, v, p)
      PROVE  Stays /\ Ages
  <2> DEFINE h == IF v = admin THEN adminPass ELSE UserHash(v)
             r == [kind |-> "login", user |-> v, pass |-> p, hash |-> h]
  <2>1. Asks(c, r) /\ UNCHANGED <<admin, users, cookie>>
    BY <1>4 DEF LoginRead
  <2>2. h \in Passwords \cup {None}
    BY DEF UserHash, AccountsTypeOK
  <2>3. r \in Login /\ (r.user = u => r.hash = None) /\ r.pass = p
    BY <2>2 DEF Login, ShutOut, UserHash
  <2> HIDE DEF r
  <2>4. call'[c] = r /\ \A d \in Browsers \ {c} : call'[d] = call[d]
    BY <2>1, <2>3, AskFacts
  <2>5. r.user = u => r.hash # r.pass
    BY <2>3
  <2>6. Stays
    BY <2>1, <2>4, <2>5 DEF ShutOut
  <2>7. QED
    BY <2>1, <2>6, SameCookies
<1>5. ASSUME NEW c \in Browsers, NEW e \in Edit, requireAuth(c, e) PROVE Stays /\ Ages
  <2>1. Asks(c, e) /\ UNCHANGED <<admin, users, cookie>>
    BY <1>5 DEF requireAuth
  <2>2. call'[c] = e /\ \A d \in Browsers \ {c} : call'[d] = call[d]
    BY <2>1, AskFacts
  <2>3. e.kind # "login"
    BY DEF Edit
  <2>4. Stays
    BY <2>1, <2>2, <2>3 DEF ShutOut
  <2>5. QED
    BY <2>1, <2>4, SameCookies
<1>6. CASE Tick
  <2>1. ASSUME NEW c \in Browsers, cookie'[c] # None, cookie'[c].sub = u
        PROVE  /\ cookie[c] # None /\ cookie[c].sub = u
               /\ cookie'[c].left <= cookie[c].left
    <3>1. cookie[c] # None /\ cookie'[c] = [cookie[c] EXCEPT !.left = @ - 1]
      BY <1>6, <2>1 DEF Tick
    <3>2. cookie[c] \in Token /\ cookie[c].left \in Nat
      BY <1>0, <3>1
    <3>3. cookie'[c].sub = cookie[c].sub /\ cookie'[c].left = cookie[c].left - 1
      BY <3>1, <3>2 DEF Token
    <3>4. QED
      BY <2>1, <3>1, <3>2, <3>3
  <2>2. UNCHANGED <<admin, users, call>>
    BY <1>6 DEF Tick
  <2>3. Stays
    BY <2>2 DEF ShutOut
  <2>4. QED
    BY <2>1, <2>3
<1>7. CASE DatabaseFlaps \/ UNCHANGED vars
  <2>1. UNCHANGED <<admin, users, cookie, call>>
    BY <1>7 DEF DatabaseFlaps, vars
  <2>2. Stays
    BY <2>1 DEF ShutOut
  <2>3. QED
    BY <2>1, <2>2, SameCookies
<1>8. CASE Restart
  <2>1. UNCHANGED <<users, cookie>> /\ \A c \in Browsers : call'[c] = None
    BY <1>8 DEF Restart
  <2>2. Stays
    BY <2>1 DEF ShutOut
  <2>3. QED
    BY <2>1, <2>2, SameCookies
<1>9. QED
  BY <1>1, <1>2, <1>3, <1>4, <1>5, <1>6, <1>7, <1>8 DEF Next

\* Tokens are never revoked, and yet: once nobody gets in under a name, that is over only
\* by a creation or a seed admin of that name, and its sessions only get older.
THEOREM ShutOutSessionsRunOut == Spec => SessionsRunOut
<1> DEFINE RunOut == \A u \in Users : ShutOut(u) =>
             /\ ShutOut(u)' \/ users'[u] # None \/ admin' = u
             /\ \A c \in Browsers : cookie'[c] # None /\ cookie'[c].sub = u =>
                  /\ cookie[c] # None /\ cookie[c].sub = u
                  /\ cookie'[c].left <= cookie[c].left
<1>1. ASSUME AccountsTypeOK, [Next]_vars PROVE [RunOut]_vars
  BY <1>1, ShutOutStep
<1> HIDE DEF RunOut
<1>2. Spec => [][RunOut]_vars
  BY <1>1, AccountsTyped, PTL DEF Spec
<1>3. QED
  BY <1>2 DEF RunOut, SessionsRunOut
=============================================================================
