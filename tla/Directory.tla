----------------------------- MODULE Directory -----------------------------
(***************************************************************************)
(* What the proxy promises a client, without its router, its marks, its    *)
(* kernel tables and its locks: a directory of the instances that serve a  *)
(* port.  A client is bound to an instance that is listed at that moment   *)
(* and stays bound to it, listed or not, until the directory forgets the   *)
(* client; a flow is opened only to the instance its client is bound to,   *)
(* and leads there until it is closed.  An instance number is never given  *)
(* out twice, so a server that registers again is another instance.        *)
(***************************************************************************)
EXTENDS Naturals

CONSTANTS Ports, IPs, Clients

VARIABLES
  listed,  \* the instances listed: [port, ip, id]
  next,    \* the last instance number given out
  bound,   \* client -> the number and address of its instance; 0 is none
  flow     \* <<client, port>> -> the same of the instance it leads to

dirVars == <<listed, next, bound, flow>>

Of(i) == [id |-> i.id, ip |-> i.ip]

\* The address of the unbound and of the flow that is not there is of no interest.
Unbound(b) == b.id = 0

DirInit ==
  /\ listed = {} /\ next = 0
  /\ \A c \in Clients : Unbound(bound[c])
  /\ \A f \in Clients \X Ports : Unbound(flow[f])

\* A server registers on a port, in place of its former registration there.
List(p, ip) ==
  /\ next' = next + 1
  /\ listed' = {i \in listed : i.port # p \/ i.ip # ip}
                 \cup {[port |-> p, ip |-> ip, id |-> next + 1]}
  /\ UNCHANGED <<bound, flow>>

Delist(p, ip) ==
  /\ listed' = {i \in listed : i.port # p \/ i.ip # ip}
  /\ UNCHANGED <<next, bound, flow>>

\* A port is given up with all that is listed on it.
Close(p) ==
  /\ listed' = {i \in listed : i.port # p}
  /\ UNCHANGED <<next, bound, flow>>

Bind(c, p) ==
  /\ Unbound(bound[c])
  /\ \E i \in listed : i.port = p /\ bound' = [bound EXCEPT ![c] = Of(i)]
  /\ UNCHANGED <<listed, next, flow>>

\* Clients that have been silent are forgotten, any number at a time.
Forget ==
  /\ \A c \in Clients : bound'[c] = bound[c] \/ Unbound(bound'[c])
  /\ UNCHANGED <<listed, next, flow>>

Open(c, p) ==
  /\ Unbound(flow[<<c, p>>]) /\ ~Unbound(bound[c])
  /\ flow' = [flow EXCEPT ![<<c, p>>] = bound[c]]
  /\ UNCHANGED <<listed, next, bound>>

\* Flows end by expiry or because they are cut, any number at a time.
End ==
  /\ \A f \in Clients \X Ports : flow'[f] = flow[f] \/ Unbound(flow'[f])
  /\ UNCHANGED <<listed, next, bound>>

DirNext ==
  \/ \E p \in Ports, ip \in IPs : List(p, ip) \/ Delist(p, ip)
  \/ \E c \in Clients, p \in Ports : Bind(c, p) \/ Open(c, p)
  \/ \E p \in Ports : Close(p)
  \/ Forget \/ End

DirSpec == DirInit /\ [][DirNext]_dirVars

=============================================================================
