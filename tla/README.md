# csfleet in TLA+

csfleet runs a fleet of Counter-Strike 2 servers on one host. One Go process
(`orchestration/`) keeps the wanted fleet in MariaDB, runs each game server in a
docker container on a private bridge, puts a UDP proxy made of nftables, conntrack
and an NFQUEUE handler in front of them, and serves an HTTP API with an event
stream. This directory models the parts of that process that keep state, checks them
with TLC, and proves the central results with TLAPS.

    tlc -workers 2 -config MCLeases.cfg Leases        # a run (PROJECT.json lists them)
    tlapm ProxyProofs.tla                             # the proofs of a component

## 1. The system

| Part | State it keeps | Operations | What is hard about it |
|---|---|---|---|
| **Router** (`proxy/router.go`) | pools of backends per port, generation counter, session per client | add, remove, unmanage, route, sweep | called by the packet handler and by every worker; a generation has to tell a restarted server from its former self |
| **Proxy entrypoints** (`proxy/proxy.go`, `nftables.go`, `conntrack.go`, `handler.go`) | the nft map `@pool` (mark to address), the kernel's flows | AddBackend, RemoveBackend*, FlushConntrack, Unmanage, onPacket | each is a router change followed by a netlink request that may fail; packets are routed between the two |
| **Fleet manager and workers** (`fleet/`) | phase, instance, port, backoff of each worker | dispatch, reconcile, bringUp, bringDown, rebind, handleCrash, lifecycle limits, reap, shutdown | rows change, containers die, docker fails and the context is cancelled in the middle of a pass |
| **Server build** (`server/`, `plugin/apply.go`, `serverconfig/`) | the overlay directories of each server | mount, apply plugins, apply configs, create, unmount | builds run concurrently, share local sources, and leave directories behind when the process dies |
| **Plugin resolution** (`plugin/resolve.go`) | none | ResolveOrder | cycles, duplicates, missing manifests, map iteration order |
| **Download cache** (`internal/install/cache.go`) | a blob and a meta file per URL | Get: fresh hit, conditional request, store, evict | one fetch evicts the files another one is about to use; crashes between two file operations |
| **Provisioning** (`provision/`) | the base install, its mods, the receipt | image, SteamCMD with retries, mods, hook, receipt | the receipt is written once, at the end; a later start decides from it what to skip |
| **Store** (`database/`) | rows of servers, clusters, manifests, configs; scoped assignments, markers, environment | CRUD transactions, EffectivePlugins, LoadEnv, ResolveServer | several reads that are not one transaction, beside transactions that write |
| **API** (`api/servers.go`, `clusters.go`, `catalog.go`) | none of its own; leases bridge addresses to rows | write a row, then nudge the manager or poke the hub | read-modify-write without a transaction; an address is free for the next server while a worker still uses it |
| **Event stream** (`api/sse.go`) | clients with one-slot buffers, two signal channels | notify, run, broadcastState, handleSSE | coalescing, dropping, registration beside a broadcast |
| **Process** (`main.go`, `database/schema.go`) | bridge, MariaDB container, nft table, DOCKER-USER rule | boot in order, deferred teardown in reverse | `log.Fatalf` and crashes skip the teardown; the next boot starts from what is left |
| **Users and sessions** (`api/auth.go`, `database/users.go`) | accounts; the seed admin in memory; tokens only in the clients | login, logout, gate, create, delete, set password | hashing takes long between a check and its write; a token outlives the account; the environment changes between two processes |
| **Host metrics** (`api/orchestratorinfo.go`) | the previous reading of `/proc/stat` | sample | differences of unsigned counters that wrap or are missing |
| **Frontend** (`frontend/`), static files, scripts | presentation | | not modelled |

How they interact. The API writes a row and nudges the manager. The manager starts a
worker for each row without one and wakes all of them. A worker resolves its row,
builds the server, starts the container and registers it with the proxy; every change
of phase signals the event hub. The proxy's handler, its sweep and the kernel run
beside all of this. `main` starts the parts in order and takes them down in reverse.

What makes each part correct, in one line each: the router sends a client to one
instance for as long as it is up, and never to its successor; the fleet reaches what
the rows ask for and leaves no container that nobody owns; a build installs exactly
what was resolved; the cache answers with what upstream confirmed; provisioning skips
only what is complete; a read of the scopes is what was stored at some moment; an
address has one holder, who is registered; a deleted account stays deleted and loses
its sessions; the stream tells of every change; a boot works whatever the last process
left.

## 2. The modules

`PROJECT.json` maps every definition to the lines it models. Mutants (operators whose
comment says so) stand before the definition they vary and are used by no
specification.

**Proxy.** State: `managed`, `backends`, `rr` (router.pools), `sessions`, `gen`,
`elements` (`@pool`), `conntrack`, and two places where the code is between two
steps: `op`, the entrypoint that holds `opMu` and has changed the router but not the
kernel, and `inflight`, the packet between its verdict and its reinjection. The
handler and `Unmanage` do not take `opMu`, so they run between the halves of an
entrypoint, as in the code. Entrypoints are called in any order. Times are ages in
ticks, capped. The round-robin cursor is kept modulo `RRWrap`, which every pool length
of a run divides. `NetlinkFaults` says which netlink requests may fail. nftables, conntrack and NFQUEUE
are external; they are modelled by the effect the code relies on.

**Directory** is what the proxy promises its clients, with no router, marks, kernel or
locks: a client is bound to an instance that is listed and stays bound until it is
forgotten, a flow leads to the instance its client is bound to, and no instance number
is given out twice. `Dir` in Proxy is the refinement mapping: the pools are the listing
(at the moment the router changes, whatever the kernel still has to do), a session is
a binding, a conntrack entry with a mark is a flow.

**ProxyLifecycle** restricts the callers to the order the workers keep (Flush, Start,
Add; Remove, Flush, Stop; rebind). A reap unmanages its port whatever is registered
there, as the code does; `stranded` is history, the generations whose port was unmanaged
under them. Their `RemoveBackend` finds no pool and leaves the element, so what the
teardown promises does not hold of them. **ProxyForgetting** adds the history of an active
client.

**Fleet.** `rows` and `clusterPort` are the database, `w` the workers, `container`
docker, `managed` and `reg` the proxy's table. A reconcile pass is cut at every call
to docker and to the proxy; `w[n].pc` is the call that comes next. Wake-ups are not
state: nudges, docker events and timers only bring forward a pass that the ticker
makes possible anyway. `Faults` lists what may fail (`start`, `inspect`, `add`,
`stop`), and `late` a start that docker carries out although the context of the
request was cancelled. A failed registration whose stop fails too (`AddError`) leaves its
container. Ports are small numbers: that `resolve.go:31` cuts a port column to 16 bits is
not modelled (`EffPort`). **FleetEdits** takes the two statements of `updateServer`
apart.

**Leases** is the same fleet seen from the bridge addresses, which Fleet identifies
with the servers. `rows` lease addresses, `req` is a handler between its read and its
write, `wk` a worker between its calls with the address and the definition of its
instance, `container` docker, `reg` what is registered with the proxy, by address
only. `lost` is history: the addresses on which a container died by itself and a
second worker may have come to believe it holds them too. The members share one port,
which does not change; phases, backoff and shutdown are Fleet's.

**ServerBuild.** A build is mount, then per plugin fetch, ignore, layout rules and
templates, then configs, then create. A mount may fail, any later step may fail, and so
may the unmount that follows; a failed mount leaves its directories, which are empty if
they are new, and a failed unmount leaves them with what was laid. A path of the upper directory holds the name of
its last writer. `Wanted`, the reference, says without any order what each path should
hold. **ResolveOrder** is the breadth-first walk and Kahn's loop, one step per
iteration, over every catalog.

**AssetCache** has one step per file operation or request. A body and its ETag are one
version number, every blob has size one, so the bound is on the number of blobs and
unequal sizes are not covered. **Provision** has one step per step of
`provision.Run`; `Stop` ends the process anywhere. **ProvisionDisturbed** lets somebody
delete `addons/` between two starts.

In both, `Publish` only moves upstream forward. The code compares versions and ETags for
equality, so this is an assumption of `ConfirmedIsServed`, `DoneMeansBuilt` and
`SkippedIsComplete`: after an interrupted re-lay or store, an upstream that returns to the
version recorded on disk makes the half-done work look complete. `Withdraw` lets it
return, in `WithdrawSpec` of AssetCache and of ProvisionDisturbed (section 6).

**Scopes.** Tables are sets of rows; a transaction is one action; `reader` holds a
worker's bring-up: the walk through the scopes for the plugin set, then for the config
set, one action per statement, then the config files one by one. `seen` and `asked` are
history. The tables of plugins and of configs differ in nothing but their names, so
one operator stands for both and the named actions choose the kind. **SSEHub** counts the changes of either half of the fleet's state, so a
snapshot is a pair of counters; the phases that the first read takes from memory after
its rows are read with them, in one step. **SSEHubGaps** adds the writes that signal nobody.
**Boot** is `main`, step by step, with what each step does to the host. Teardowns whose
errors are logged (the bridge, the DOCKER-USER rule) may fail and the next one runs all the
same; those whose errors are dropped (the MariaDB container, the nft table) are taken to
succeed. A build with another subnet is installed (`Upgrade`) only while MariaDB is stopped;
`BootStaleSubnet.cfg` lifts that. **Startup**
composes it with Provision: the one step in which Boot provisions becomes the steps of
`provision.Run`, which end when the process does.

**Accounts.** `cookie` is the token each client holds, with the time it has left;
`call` a request between what it read and what it writes, so that a login and an edit
interleave at the hashing of the password. `Restart` starts the process with any of
`Environments` (a seed admin's name, its password, a secret), which MCAccounts defines, and
drops the requests. An expired token is no cookie.
**HostStats** is the sampler of `/proc/stat` over counters of `W` values; `since` and
`truth` are history, the jiffies the kernel really counted.

Composition: ProxyLifecycle is the proxy with the fleet's calls; Fleet is the workers
with the proxy's table, the database and docker; Scopes is the API's writes with a
worker's reads; Leases is the API's handlers with the workers, docker and the proxy's
registrations; Startup is the process around them with its provisioning.

## 3. The runs

| Run | Bounds | Shows |
|---|---|---|
| `MCProxyLifecycle` | 2 ports, 2 addresses, 1 client, 2 generations, failing adds and verdicts | the proxy implements Directory; generations name one address in pools, sessions, map and flows; whatever can be chosen has its element when no entrypoint runs; after Remove and Flush no flow leads to the server, even one that was in flight, and a flow never survives into the next instance, both unless the port was unmanaged under the registration; an orphaned session ages out while its client keeps sending |
| `MCFleetMembers` | 2 members, 2 ports the cluster may move between, failing adds and stops | a running server is routed where its worker believes; what is routed has a container, a live worker and one port |
| `MCFleetOne` | 1 server with any home, 2 ports, failing starts and inspects, both limits, shutdown, no late starts | not live means no running container; after shutdown nothing runs; wanted servers come up, unwanted go down, port changes arrive, shutdown ends |
| `MCAssetCache` | 2 URLs, 2 versions that only grow, room for 1 blob, failures, crashes | what a 200 or a 304 confirmed is what is served; a store ends within the bound |
| `MCSSEHub` | 1 client, 2 writes of each half | coalescing forgets nothing; a client that was not skipped is current; the last broadcast catches up |
| `MCResolveOrder` | every catalog of 3 plugins with up to 2 requires each, 3 root lists | an order is closed, without repetition and installable; there is a refusal exactly where there is no order; the algorithm ends |
| `MCServerBuild` | 2 servers, 3 manifests, 2 configs, 2 starts, failing mounts and steps, 1 loss (a crash or a failed unmount) | every wanted path holds what its last writer put there; nothing else is there but leftovers |
| `MCStartup` | 2 subnets (changed while MariaDB is stopped), 3 losses, 2 versions of each part that only grow, 2 attempts | a process that serves stands on its own table, network and database; an orderly end leaves neither the table nor the database container and, where their removals succeed, neither the bridge nor its own rule; done means built and recorded; what is skipped is complete; containers play on a whole base/; starting again works |
| `MCScopes` | 1 server name used twice, 1 cluster, 1 plugin, 1 config, every create request with env | no scope outlives its owner; an explicit set is honoured; a read is a state of the tables at some moment of it |
| `MCLeases` | 2 names, 2 addresses, 1 request in flight, failing starts and adds, containers that die | an address has one holder, and the holder's registration is not taken away, unless a container died by itself on it; a wanted server gets its address, unless a stale worker sits on one |
| `MCAccounts` | 2 names, either of which may be the seed admin's, 2 passwords, 3 environments, 2 clients, a lifetime of 2 ticks | a deleted account comes back only by creation; a name that is shut out gets no new session and none is prolonged; it loses all its sessions |
| `FleetLeak` | 1 server, 2 ports, failing adds | violated on purpose: see section 6 |

Why the bounds are enough. Two ports and two addresses are the least for a backend to
move, for two to share a pool and for a session to meet the wrong pool; one client
suffices since clients share nothing but the round-robin cursor. Two generations are
one for each of two instances. Two members
suffice for one worker's teardown to meet another's registration. One blob of room for
two URLs makes every store evict. Two versions make a change and two attempts a retry.
One loss between two starts leaves a directory for the second; three losses are a
crash, a failure of the boot after it and a reboot (a bridge that is not removed costs
none, a rule that is not removed costs one, since rules add up). Two servers and two addresses let
an address pass from one server to another and back, with a second one to choose. One
plugin and one config tell an empty set, a full one and none apart. A lifetime of two
ticks lets a session be young or old. Symmetry is used in
`MCFleetMembers` only of these, which checks no liveness. `MCResolveOrder`,
`MCServerBuild` and `MCLeases` may stop: an algorithm ends, starts are counted, and a
worker with nothing to do has no step.

Beside the runs: `MCProxy.cfg` with module Proxy (every order of calls, three
generations, every netlink fault; the invariants of the proofs as well; 1.1 million
states) and `HostStats.cfg` with `SampleInv` and `ShownIsTrue`. Both pass. So do, in place
of the properties of the run: `ResolveInv` and `StepsRunOut` with `MCResolveOrder.cfg`,
`FeedInv` and `FeedNeverGoesBack` with `MCSSEHub.cfg`; the proofs are about these too. `MCLeases.cfg` with two handlers in place of one
and without `LeaseIsServed` checks two requests in flight: 5.4 million states, no
error.

Fairness. `MCProxyLifecycle`: time passes, the sweep's ticker fires, the kernel
reinjects a packet. `MCFleetOne`: a pass runs to its end because every call returns,
tickers and backoff timers fire, `select` takes a context that stays done (strong
fairness, as Go's select chooses at random), and a start that is tried for ever does
not fail every time; nothing is assumed of the API or of the containers' health.
`MCSSEHub`: runnable goroutines run. `MCStartup`: the operator starts the process
again, and a process that is not killed takes its next step, SteamCMD and docker
included; losses are bounded by `MaxLosses`, so it is the recovery after the last one
that is checked. `MCLeases`: as `MCFleetOne`, with strong fairness for a start that is
refused while the address is taken and is tried again. `MCAccounts`: time passes and a
login that has read its hash is answered; no request has to be made.

## 4. The proofs

TLAPS proves the following for every value of the constants: any sets of servers, ports,
addresses, clients, plugins and versions, any bounds. A proof module starts with lemmas
on the operators, then has one lemma per action or group of actions, then the theorems.
The inductive invariants stand in the modules of the components; TLC had agreed to each
on an instance before it was proved.

**ProxyProofs.** `TypeCorrect`, `PoolInvariant`, `PoolsStaySets`, `RoutableIsExecutable`,
`SessionsStayPinned`, `GenerationsAreUnique`, `FlowsFollowSessions` and
`ProxyImplementsDirectory`, under every netlink fault and every order of calls. Assumed:
`NoIP` is no address, the bounds are naturals, the session TTL exceeds the conntrack
timeout, the cursor's modulus is positive. "Whatever can be chosen has its element" is
not inductive: between the halves of an entrypoint it is false. `PoolInv` says what holds
there. `opMu` has one holder; no two registrations share a generation; every generation
in use was issued; the generation whose element is about to be deleted is registered
nowhere (`OldIsGone`); a backend has its element or is the one the entrypoint will
install it for (`ElementOrPending`). Removal and unmanaging only thin the pools out,
which one lemma settles for all of them (`ThinnedKeepsPools`); registration is
`AddBackendRegisters`. For the uniqueness of generations across sessions, map and flows
the invariant is existential: there is one owner function from generations to addresses
with which all of them agree (`OwnerInv`), and each step either keeps that function or
defines it at the new generation. The refinement needs one fact more, `PacketInv`: a packet
in flight carries the generation of its client's session, which is too young to be swept
before the packet is reinjected. Then each step of the router is a step of Directory (a registration
lists, a removal delists, a new session binds, the sweep forgets, a reinjection opens
a flow) or leaves the mapped variables alone.

Of ProxyLifecycle, in the same module: `LifecycleIsProxy`, the proxy under the workers'
order of calls is a proxy, so all of the above holds of it. `LifecycleInvariant`, `DrainIsQuiet` and
`FlowsKeepTheirInstance`, under the hypothesis `DeletesSucceed` (the deletion of
an element and the flush do not fail; additions and verdicts may). Without it the
properties are false: the code logs a failed deletion and goes on. All three except the
generations in `stranded`: `Unmanage` is called without a condition and drops a pool that
another server may be registered in, and `ProxyGaps.cfg` refutes `DrainedIsQuiet`, the
statement without the exception. Every other element leads
to the instance that is up or to the removal in progress (`ElementOK`), the entrypoint in
progress belongs to the stage of its worker (`CallOK`), and so a packet in flight can open
a flow to a server only while that server is up; after Remove and Flush nothing can
(`FlowOK`). Each worker's stage is followed separately: a step leaves all other servers
alone (`LeftAloneStaysSound`).

**FleetProofs.** `FleetInvariant`: for each point of a reconcile pass, what the phase, the
port, the registration and the container can be (`PassOK`, `RegOK`), for any servers and
every fault. From it `ProxyRoutesOnlyToLiveServers`: whatever fails, what is
routed has a container, a live worker, and one port. `RunningServersAreRouted` has the
hypothesis `PortsKeepOwners`: a port that a standalone server may have is neither a
cluster's nor another server's. `FleetGaps.cfg` refutes `RunningIsRouted` without it.
`NotLiveHasNoContainer` and `ShutdownLeavesNothing` have the hypothesis `StopsSucceed`:
starts and inspections may fail, but not stops and registrations, and no start is
carried out after its request was cancelled; `FleetLeak` and `FleetGaps.cfg` refute
the statements without it.

**LeasesProofs.** `AddressHasOneHolder` and `HolderStaysRegistered`, with every fault and
any requests in flight. The rows give no protection: an address is leased to the
next server while the last one's worker still holds it. It is docker, which
refuses an address in use, that keeps them apart: at most one container runs on an
address (`OneRunning`), a worker that holds one has it running (`HoldingIsUp`) unless it
died by itself, and unregistering comes before stopping, so a teardown never takes the
registration of its successor away (`PassInv`).

**ScopesProofs.** `NoScopeOutlivesItsOwner`, `RequestsAreHonoured`, `ReadsAreSnapshots`. A
row that exists keeps the sets that were asked at its creation (`RowOK`). The read is
up to six statements without a transaction. What makes it a snapshot is that no call ever
marks or unmarks the scope of a row that exists, and the global marker is never removed:
the scopes a walk has passed are still unmarked when it reaches the one it
takes (`WalkOK`), so the set it takes is the effective one at that moment. A server deleted
and created again during the walk is told apart by the id of its row (`ReaderOK`): the old
worker's reading is then not the new row's.

**StartupProofs.** Of Boot: `ReadyProcessIsFresh` and `OrderlyExitIsClean`, from `BootInv`,
which says per step of `main` what is on the host, whatever earlier processes left. The
second speaks of the table, the database container, the bridge and the rule that this
process inserted; rules of earlier processes and game containers may be left. Of
Provision, whose upstream only moves forward: `ReceiptIsTrue` and `SkippingIsSafe`, from `ProvisionInv`, which says per step
what the receipt in memory, the tree being laid and the game are; while the tree is torn
down, upstream is ahead of the receipt, so the next start lays it again. Of their
composition: `StartupImplementsParts`, and with it both invariants in
`ContainersPlayWholeBase`, whose own part (`PlayInv`) is that the process starts no
container before its provisioning is done, and kills what was left before it begins.

**ApiProofs.** Of SSEHub: `SignalsAreNotForgotten` from `SignalInv` (at each step of the
run loop, what has been read is current or a signal is still due), and
`UnskippedClientsAreCurrent` from `StreamInv` (where the last broadcast is while a
client registers). `FeedsNeverGoBack`, an action property, from `FeedInv` (what is being
read is at least the last broadcast, which is at least what is in a buffer, which is at least
the broadcast its client was sent before): broadcasts advance, and a client that was sent one
is never sent an older one, although snapshots are read in two statements, buffers are one
deep and clients are skipped. What a client may fall behind is its own first snapshot: a
broadcast that was read before it may be in the buffer, and is forwarded after it. TLC shows
this in 12 steps when the property is stated without the exception, so it cannot be dropped;
the signal of the write that was visible already makes up for it.

Of HostStats: `ShownShareIsTrue`, for every width of the counters: between two
readings that succeeded, the share shown is the machine's. `SampleInv` relates the
previous reading, what the kernel counted since, and its counters modulo `W`; the
lemmas say that the wrapping sum and difference cancel (`MinusPlus`, `PlusPlus`).

Of Accounts: `DeletedComesBackByCreation`, an action property: the statement of a password change is an
UPDATE and matches no row once the account is gone. `ShutOutSessionsRunOut`, the safety half
of `DeletedIsLockedOut`: once a name has no row, is not the seed admin's and no login that
is being answered will be let in under it, only a creation or a restart with that seed admin
changes this, and meanwhile its sessions are those that were there and only get older.
Since a token has a lifetime of `tokenTTL`, they end.

**ResolveProofs.** `ResolveInvariant`, `OrdersAreInstallable`, `RefusalsHaveCause` and
`ResolutionIsBounded`, for any plugins, manifests (circles, repetitions and gaps included),
roots, and orders of Go's maps. Assumed: `Missing` is no list of requires, and for the
last one that the catalog is finite. The closure is defined as what lies in every closed set
and a circle as a set in which everyone needs someone, so no induction over paths is needed.
`WalkInv`: what is loaded or queued lies in the closure, and what a loaded plugin needs is
loaded or queued; with an empty queue the loaded set is closed and therefore the closure.
`SortInv`: a degree counts the places of a manifest whose plugin is not placed, repetitions
included (`PlaceDegrees`), and the plugins of degree zero are placed or ready, once
(`order \o ready` has no repetition, and placing the head of `ready` does not change that
sequence, only its division: `MoveHead`). When nothing is ready, each plugin left over has
an open requirement, which is left over too: the rest is a circle (`LeftoverIsCircular`).
Conversely a circle has a member that is placed first, which would require an earlier one
(`DoneIsNotCircular`, from the well-foundedness of the naturals); so whether there is an
error depends on the catalog and the roots only. `ResolutionIsBounded`, the safety half of
`Resolves`: the natural number `Remaining` decreases with every step. Loading a plugin
removes one from what is still to be loaded and queues at most `MaxRequires` others, which
the weight `MaxRequires + 1` pays for.

**InstallProofs.** Of AssetCache: `ConfirmedVersionIsServed`, while upstream
only moves forward, and `StoresKeepTheBound`, for blobs that count one each. That
the body matches its validator is false between the rename and the meta, and a crash
there makes it last. `VersionInv` has what remains: a body may be newer than its validator
but never older, and both are upstream's or older, so a validator that upstream confirms
has a body just as new. For the bound, an eviction works on a list that other fetches make
stale. `BoundInv`: of the evictions under way, the one that listed the blobs last leaves
few enough when it has deleted the rest of its list; if a blob was renamed into place since
then, the store of that blob has its own listing before it; after a crash nobody has
evicted yet. The list of the blobs has no duplicates (`Distinct`), so its length is their
number.

Of ServerBuild: `PlanIsInstalled` and `NothingIsAdded`, for any catalog, plans and number of concurrent builds. `BuildInv` says how far a build is
(plugins laid, rules of the plugin in hand, configs written) and that each path holds
what the last of its writers so far put there (`PathOK`), or was there at the mount
(`TracedOK`). "Last" is stated with a witness, not as a maximum, so that no induction is
needed to know that there is one; at the end it is the maximum in `Wanted`. Builds meet
only in the local directories, which shrink (`DirsOK`). `PlanIsInstalled` therefore has the
hypothesis `SourcesAgree`: manifests that name one directory ignore the same entries of
it. `BuildGaps.cfg` refutes the statement without it; the other needs no hypothesis.

Only model-checked. Everything with fairness, since liveness and ENABLED are beyond the
prover: `OrphansAgeOut`, `WantedComesUp`, `UnwantedGoesDown`, `PortChangeArrives`,
`ShutdownEnds`, `BroadcastCatchesUp`, `Resolves`, `BootRecovers`, `LeaseIsServed` and
`DeletedIsLockedOut`. For three of them the part that is a matter of safety is proved:
`SignalsAreNotForgotten` for `BroadcastCatchesUp`, `ResolutionIsBounded` for `Resolves`,
`ShutOutSessionsRunOut` for `DeletedIsLockedOut`.

## 5. What is left out

Packet bytes, rule encoding, HTTP and JSON, archive extraction, file permissions, the
image build (a step that succeeds or fails), the operator's hook, log lines, and
durations: timers are steps that may fire. Columns that only pass through the store
are left out. In Fleet a server is identified with its address; Leases covers a server
that is deleted and created again with another one. Of the host metrics the rows of the
cores (the same arithmetic, paired by position), memory, disk and load are left out, and
the kernel is taken to count idle time upwards, which it does not promise for iowait;
guest time, which the kernel also counts in user time, makes the total of a reading
larger than the time that passed. Certificates, routing and static files
keep no state a property is about, and the frontend replaces its view with each event.
The truncation of a 64-bit
generation to a 32-bit mark needs 2^32 restarts to matter and is not modelled.

## 6. Where code and comments part

`FleetLeak` is listed as a run: when a rebind's AddBackend fails, the worker is marked
crashed and its container runs on; a stop then takes the branch commented "it is
already stopped" (`fleet/worker.go:142`) and leaves the container running under phase
stopped.

More comments do not hold as they are written. Each has a property that states it and
a configuration with which TLC finds the counterexample (`tlc -config X.cfg M`).
A configuration that lists several properties is meant to be run with one of them at a
time, since TLC stops at the first that fails; each of them that the table names fails.

| Config, module | The comment | What happens |
|---|---|---|
| `ProxyForgetting`, ProxyForgetting | `router.go:136`, an entry is never forgotten while its client can still send | established packets do not refresh `lastSeen`; a client active for longer than the TTL is swept, and a later new packet of it may go to another backend |
| `ProxyGaps` (OrphanMeansGone), ProxyLifecycle | `router.go:153`, "orphan: backend gone or generation stale" | the session is looked up in the pool of the packet's port; a client is dropped on a second port while its backend is up on the first |
| `ProxyGaps` (DnatVerdictIsExecuted), ProxyLifecycle | `router.go:126`, the kernel DNATs the packet | a packet routed before the element is installed opens a flow without NAT |
| `ProxyGaps` (StampedIsRegistered), ProxyLifecycle | `nftables.go:181`, "Go never stamps a removed backend's mark anyway" | a removal may come between the verdict and the stamp |
| `ProxyGaps` (DrainedIsQuiet), ProxyLifecycle | `proxy.go:188`, Remove, then Flush, "MUST perform these in order" | a reap of another server has unmanaged the port; RemoveBackend then returns early and keeps the element, and a packet in flight opens a flow after the flush |
| `FleetGaps` (RunningIsRouted), MCFleet | `worker.go:157`, the call is for "a deleted standalone port" | the port may belong to another server by then, which stays running and unrouted |
| `FleetGaps` (ManagedHasOwner), MCFleet | `proxy.go:238`, Unmanage is called "when a cluster is deleted" | it is not; the port stays managed and drops |
| `FleetGaps` (ReturnedMeansEmpty), MCFleet | `main.go:150`, "the bridge is empty by then" | a start cut off by the cancelled context may leave its container, and the clean-up uses the same context |
| `FleetEdits`, FleetEdits | `types.go:136`, "An empty DesiredState preserves the current one" | the update writes back the state it read before a concurrent start or stop |
| `CachePoison`, AssetCache | `cache.go:65`, Get returns the path to a cached copy | a blob evicted before the 304 is not fetched again: the meta is renewed without it, by every later Get as well |
| `ProvisionRemoved`, ProvisionDisturbed | `mods.go:31`, re-lay if "`addons/` is missing" | an interrupted re-lay of a deleted `addons/` is skipped by the next start |
| `MCSSEHub` with PROPERTY ViewsCatchUp instead of its own, SSEHub | `sse.go:70`, "the next snapshot supersedes the missed one" | there is no next snapshot while nothing changes |
| `SSEGaps` (ConsistentView), SSEHubGaps | `sse.go:167`, "a consistent view of both" | two reads around a write |
| `SSEGaps` (WritesAreBroadcast), SSEHubGaps | `sse.go:28`, "poke for API writes that don't move a worker" | updateServer does not poke |
| `BuildGaps` (OverlayIsExact), MCServerBuild | `plugins/examples/README.md:11`, the tree is rebuilt when a version drifts | the upper directory that survived a crash is mounted again with plugins no longer assigned |
| `BuildGaps` (WantedIsInstalled), MCServerBuild | `plugins/examples/README.md:19`, `ignore` drops archive entries | for a local source it deletes from the operator's directory, from which another manifest installs |
| `BootStaleSubnet`, Boot | `main.go:41`, a network of another subnet is torn down and recreated | a MariaDB container still running is cut off by it and reused, and every boot fails |
| `LeasesGaps` (AlwaysRegistered), Leases | `worker.go:250`, teardown removes "the backend" of the instance | a container that died by itself has lost its address, which docker may have given to a new server; the crash handler then unregisters that one, which runs on unrouted |
| `LeasesGaps` (NeverStale), Leases | `types.go:133`, an update preserves the ip | it writes back the ip it read; a server recreated meanwhile gets the address of its predecessor, under a worker that holds another |
| `LeasesRecreate`, Leases | `servers.go:144`, "Change them by recreating the server" | recreated between two passes of its worker, the server runs on with the plugins, configs and env of its predecessor |
| `AccountsRenamed`, MCAccounts | `auth.go:163`, "The seed admin isn't in the DB"; `schema.go:325` says it "is reconciled here on every boot", `main.go:193` that it "lives only in memory" | after a restart with ADMIN_USER set to an existing account, that name is listed twice and its row can be neither edited nor deleted |
| `HostStats` (ShownIsAFraction), HostStats | `orchestratorinfo.go:230`, "the busy fraction between two cumulative readings" | a reading that failed is all zeros, and the difference to it wraps around: more than 100% may be shown |
| `ScopesEnv`, Scopes | `schema.go:279`, "scope_name is '' for global" | setEnv stores the name it is given; a key may have two global rows |

Two specifications lift an assumption instead, that upstream only moves forward.
With `SPECIFICATION WithdrawSpec` in `ProvisionRemoved.cfg` (ProvisionDisturbed) TLC refutes
`DoneMeansBuilt`: a release is withdrawn
after a re-lay was cut short, `mods.go:41` finds upstream equal to the receipt again, and the
half-laid layer is kept. With it in `MCAssetCache.cfg`
(AssetCache) it refutes `ConfirmedIsServed`: a crash
between the rename and the meta leaves a new body beside the old ETag, upstream takes the body
back and confirms that ETag, and the withdrawn body is served.

One more comment, without a configuration of its own: `schema.go:263` says that the
hour fields default to -1 "so a fresh server never silently inherits a restart/stop".
`CreateServer` inserts them explicitly, as NULL when the request leaves them out, and
`resolveHrs` then takes the cluster's.

## 7. Plan

Done, in this order: Proxy and its proofs, ProxyLifecycle, Fleet, AssetCache,
Provision and its proofs, SSEHub and its proofs, ResolveOrder, ServerBuild, Boot,
Scopes; then Directory and the refinement, Startup, Leases, Accounts, HostStats and its
proof, and the config sets in Scopes.

Then the proofs, in this order: Leases, Boot and Startup, the routing and the containers
of Fleet, the refinement of Directory, ProxyLifecycle, Scopes, Accounts, AssetCache,
ServerBuild, ResolveOrder, the order of the event stream's snapshots and the sessions of
deleted accounts. Every safety property of a passing run is stated by a theorem.

Next: a refinement of SSEHub to a mailbox of one value per client, and measures like
`Remaining` for the passes of Fleet, whose progress is model-checked only.
