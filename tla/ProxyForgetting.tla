-------------------------- MODULE ProxyForgetting ---------------------------
(***************************************************************************)
(* ProxyLifecycle with two history variables that watch the clients: the   *)
(* registration that last served each client, and how long the client has  *)
(* sent nothing.  A client silent for longer than the conntrack timeout    *)
(* counts as gone.                                                         *)
(***************************************************************************)
EXTENDS ProxyLifecycle

VARIABLES
  served,   \* client -> generation its last served flow was opened under, 0 if gone
  quiet     \* client -> ticks since its last packet

fvars == <<lvars, served, quiet>>

FInit ==
  /\ LInit
  /\ served = [c \in Clients |-> 0]
  /\ quiet = [c \in Clients |-> 0]

\* A packet of c: queued to the handler or forwarded by the kernel.
Send(c) ==
  /\ \E p \in Ports : Handle(c, p) \/ Forward(<<c, p>>)
  /\ quiet' = [quiet EXCEPT ![c] = 0]
  /\ UNCHANGED <<workerVars, stranded, served>>

\* A flow is opened to the backend of the packet's mark.
Serve ==
  /\ Reinject
  /\ served' = [c \in Clients |->
       IF \E k \in inflight : k.client = c /\ conntrack'[<<c, k.port>>].mark = k.mark
       THEN (CHOOSE k \in inflight : k.client = c).mark ELSE served[c]]
  /\ UNCHANGED <<workerVars, stranded, quiet>>

Elapse ==
  /\ Tick
  /\ quiet' = [c \in Clients |-> IF quiet[c] > CtTimeout THEN quiet[c] ELSE quiet[c] + 1]
  /\ served' = [c \in Clients |-> IF quiet[c] >= CtTimeout THEN 0 ELSE served[c]]
  /\ UNCHANGED <<workerVars, stranded>>

Other ==
  /\ \/ \E ip \in IPs :
          \/ BringUpFlush(ip) \/ BringUpStart(ip)
          \/ \E p \in Ports : BringUpAdd(ip, p)
          \/ AddReturns(ip)
          \/ TeardownRemove(ip) \/ RemoveReturns(ip) \/ TeardownFlush(ip)
          \/ TeardownStop(ip)
     \/ (Sweep \/ \E f \in Flows : Reply(f)) /\ UNCHANGED <<workerVars, stranded>>
  /\ UNCHANGED <<served, quiet>>

FSpec == FInit /\ [][(\E c \in Clients : Send(c)) \/ Serve \/ Elapse \/ Other]_fvars

\* router.go:135, "there is never a case where an entry is forgotten while its
\* client can still send a packet we'd misclassify": a client that never paused for
\* the conntrack timeout is not taken for a new one, so it is not handed from the
\* registration it plays on to another.
ActiveClientNotMoved ==
  [][\A c \in Clients : served[c] # 0 /\ served'[c] # 0 => served'[c] = served[c]]_fvars

=============================================================================
