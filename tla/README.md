# A TLA+ model of the browser control plane

The control plane hands out browser profiles that live on many machines. A *global controller*
keeps the registry of machines, profiles and accounts and leases profiles to clients; a *machine
controller* (agent) on every machine runs the browsers, lets clients in who hold a lease, stores the
artifacts they upload and reports what happened. This directory models the parts of the two programs
that keep state and run concurrently, and the client that uses them, checks the models with TLC on small
instances, and proves their safety properties for all values of the constants with TLAPS.

## 1. The system

| Part | State it keeps | Operations | Interacts with |
|---|---|---|---|
| Global controller, registry and leases (`bcp-controller`: `lib.rs`, `service.rs`, `persistence.rs`) | `ControllerState` behind a lock; its copy in SQLite; the network directory; spawned uninstall calls | register, heartbeat, acquire, renew, release, quarantine, release quarantine, reads that expire leases, the sweep, restart | agents (reports, uninstall), clients |
| Agent, lease table (`bcp-agent/src/lib.rs`, `main.rs`) | leases installed, in memory | install, uninstall, sync loop, `validate_lease` | controller (`ListMachineLeases`), clients |
| Fleet manager (`bcp-core/src/fleet.rs`) | status of the desired browsers, buffer of audit events and metric samples | reconcile loop, recording, drain, requeue | gateway, telemetry reporter |
| Telemetry (`bcp-agent/src/main.rs`, `service.rs` and `persistence.rs` of the controller) | batch in flight; bounded event log and metric points with their rows | report, acknowledge, retry, restart | fleet manager, controller |
| Artifact store (`bcp-core/src/artifact.rs`, handlers in `bcp-agent/src/service.rs`) | rows in SQLite, files in `tmp/` and `files/` | reserve, write, commit, fail, download, delete, list, cleanup loop | clients |
| Browser process lifecycle (`bcp-agent/src/lifecycle.rs`) | children map | launch, readiness wait, stop | fleet manager, clients |
| Browser gateway (`bcp-core/src/pwright/real.rs`) | cached connection per profile | connect, evict, retry, scripts, stop | browser |
| Recording gateway (`bcp-core/src/pwright/recording.rs`) | health of each browser | ensure, stop, check, operations | fleet manager, clients |
| CDP proxy (`bcp-agent/src/proxy.rs`) | calls under way, open bridges | authorise, discovery, rewriting of URLs, bridge | agent lease table, Chrome |
| Configuration and start of an agent (`bcp-agent/src/config.rs`, `main.rs`) | ports in use; the table of profiles in SQLite | discovery, port allocation, hydration, storing | proxy, fleet manager |
| Client (`bcp-client/src/main.rs`) | the lease of the command that runs | acquire, install, ensure, operate, release, and single calls of operators | controller, agent |
| Artifact metadata on the controller, web pages, end-to-end harness | see `PROJECT.json` | | |

What is hard about it:

- *Concurrency.* Handlers of one process interleave; several read the clock before they wait for the
  lock. Handlers of the agent await browsers, files and the network between two looks at shared state.
- *Failure.* Either side restarts; the controller comes back from SQLite, the lease table and the
  event buffer of an agent do not come back. Uninstall calls are sent once and forgotten. A browser
  process dies, a connection drops with an answer outstanding, a file cannot be removed. A command of the
  client fails after any of its steps and leaves its lease; an agent fails half-way through its start.
- *Ordering.* Installs, uninstalls and the answers of the sync loop overtake each other.
- *Time.* Leases, artifacts and heartbeats end by deadline; deadlines are copied and renewed on one
  side only.
- *Bounds.* The buffer of an agent, the event log and the metric points evict at their limit; ports run out.

What makes the parts correct: a profile has one holder at a time and reads `Leased` exactly then; a
quarantine ends only by its operator; every early revocation is announced; an agent lets nobody in
after the last deadline given for a lease; revocations and leases reach agents in the end, whatever
was lost; an audit event is stored once and lost only at a documented bound; an artifact stays until it
expires and goes after; a profile has one browser process, and a lost connection heals; two profiles are
not given one port; a failed start does not harm the stored profiles; a lease that is not accepted starts
neither a call nor a connection; a bridge goes on while both its peers can be read, and when one is gone or
cannot be read the other is let go; a command keeps its profile while it is within its time, and a lease that
has ended reaches the browser with one operation at most.
`PROJECT.json` lists the places where these could go wrong ("hazards") with the property that would
show it.

## 2. Modules

| Module | What it is |
|---|---|
| `Controller` | the global controller: state, handlers, sweep, restart, and its properties |
| `ProfileLock` | abstract specification: the lease table as a lock service |
| `ControllerProofs` | theorems about `Controller`, including that it implements `ProfileLock` |
| `MCController` | instances, and the loop over a report written out as a reference |
| `ReportLoopProofs` | theorem that the loop is the closed form in `Controller` |
| `Agent` | the lease tables of the agents |
| `LeaseSystem` | `Controller` and `Agent` composed with what travels between them and clients |
| `MCLeaseSystem` | its instances |
| `Fleet` | the reconcile loop of the fleet manager and its buffer of events and samples |
| `Telemetry` | `Fleet` with the reporter, and the event log and the metric points of the controller |
| `ArtifactStore`, `MCArtifactStore` | the artifact store, statement by statement; its instances |
| `Gateway` | process and cached connection of one managed profile |
| `AgentStartup` | configuration, port allocation and stored profiles of an agent that starts |
| `CdpProxy`, `MCCdpProxy` | `AgentStartup` and `Agent` with the CDP proxy of the process; its instances |
| `CliSession` | the commands of the client on `Agent` and the recording gateway |
| `LeaseSystemProofs`, `TelemetryProofs`, `ArtifactStoreProofs`, `GatewayProofs`, `CdpProxyProofs`, `CliSessionProofs` | theorems about these modules; those about `AgentStartup` are in `CdpProxyProofs` |

Definitions named `Mut...` are deliberate bugs. Each property has one, which replaces the definition
after it and makes the property fail; nothing else uses them.

### How state and actions correspond to the code

**Controller.** A mutating handler takes the write lock, clones the state, works on the clone, persists it in
one transaction and only then installs it. So a handler is one action, `Commit(next)`, where `next` is the
value of an operator on state records that is named after the function of the source: `MarkExpiredLeases`,
`UpsertProfiles`, `Selectable`, `GrantLease`, `MarkOffline`, ... An error return and a failed transaction
change nothing and are no step; a crash between the transaction and the answer is `Commit` followed by
`Restart`. `now` ranges over `LockedNow`, the times a handler may have read before it got the lock;
`Heartbeat` reads the clock under the lock, as in the code. `ExpireOnRead` is the effect of the reads that
expire leases; `GetRoute` commits only if it finds its lease. What a lookup answers is the operator
`LookupBrowserConnection`. The loop over the profiles of a report, in which every profile sees the bindings
that earlier ones made and dropped, is modelled in closed form (`AcceptsReport`, `UpsertProfiles`);
`MCController` has the loop, profile by profile, and the two are compared by a run and proved equal
(`LoopIsClosedForm`). Abstractions: labels and other attributes of profiles and machines are left out, so a
request without an account key may be given any available profile, as some selector would; an account key is a
value; the fencing token is merged with the lease id, since both are fresh and are always given together; the
controller always has its store, as `main.rs` starts it, so `ControllerService::new` without one is not
modelled.

**Agent, LeaseSystem.** `installed` is the lease map of each agent. `granted` collects every lease with
every deadline a client was given; a client may install any of them at any time, repeatedly.
`notices` of the controller are the uninstall calls: delivered or lost at any time later. `syncing` is
the answer of `ListMachineLeases` between the moment the controller computed it and the moment the loop
applies it. `curtailed` is history: the ids of the leases that were cut short, by an announced revocation or
by a renewal to an earlier deadline, which `HolderServed` excepts. All clocks are one clock.

**Fleet, Telemetry.** The pass of the reconcile loop is a small state machine with its awaits; events
carry the time read before the check. The serial number of an event is history: the code identifies
events by profile and millisecond (`EventId`). `ReportTelemetry` takes a whole batch or nothing. After a
restart the controller loads its log in the order of the ids: `RestartController` takes any list of the
rows that is in this order (`InOrderOfIds`). Two samples are kept, the counter of restarts
and the gauge that tells whether a browser runs; the value of a gauge is the serial number of its
sample. Every push takes the lock of its own, so a pass of the loop has one step for each. Of the key of a
metric point its name, profile and minute are kept (the reason of a restart is not). The points are always
persisted with the events of the same report, so memory and disk are one variable.

**ArtifactStore.** One action per SQL statement or file operation, because other handlers and the cleanup
loop run between any two. Rows and files survive `Crash`, handlers do not. `Undeletable` are files the
disk may refuse to remove; the code ignores that error. A download changes nothing; what it would serve is
`Downloadable`.

**Gateway.** One managed profile. `child` is the entry of the children map, `running` counts processes,
`orphans` those that outlived their entry (`stop_process` removes it before it kills), `active` is the entry
of the active map, `link` the state of each connection. Workers are operations (through `with_reconnect`),
scripts (`run_script`) and keepers (the checks of the reconcile loop and of clients). Locks cover single
steps, as in the code; launch, connection and calls into the page are awaited. The browser and the library
that talks to it are external: a call on a link that drops may or may not have been executed. Connection
numbers are reused once nobody holds the connection. Errors that the code returns without looking at them are
faults: of `try_wait`, of a launch, of opening the tab on a link that is up, of closing it, of the kill. A
child that is launched beside an orphan is taken to come up all the same; who of the two answers on the port
is left open (`Reachable`, `LinksAfterExit`).

**AgentStartup.** A configuration is a sequence of entries; an entry names an address, a port or neither
(`AutoPort`), and `parses` says whether a port can be read off its address; a port is any integer, and the
allocator is not told of those that are not positive. Discovery takes one entry at a
time; `busy` are the ports other programs listen on at that moment. Only `PersistProfiles` writes the
table, in one transaction. `Exit` is an error on the way up as well as a crash later; either way the next
`LoadConfig` may find another configuration, or none.

**CdpProxy.** The lease table is that of `Agent`, on one machine, and changes by installs, uninstalls and
syncs while calls and bridges are under way. A call (`call`) is authorised in one step and answered in a
later one; `operation` stands for the browser operations of the gRPC service, which validate in the same
way. A credential is a lease id, from the query or the header. A bridge has its two directions, each of
which notices an end when it reads or fails to send, sends its Close and finishes; the first to finish
ends the bridge, as `select!` does, wherever the other is. `client` and `chrome` say whether the peer is up,
cannot be read any more although it is there (`broken`: a message over the limit of the WebSocket library, an
error of its protocol) or is gone; a read ends in the last two cases, and a Close fails in the last only.
`closed` says which of them were sent a Close.

**CliSession.** A session is a command between two of its calls. `Validated` and the action that executes
the call are two steps, because the gateway is awaited in between. Of the controller only the lease table is
kept, with the guard of `AcquireBrowser` and the removals of the handlers: it is an environment here, and nothing
is claimed of it. `InstallByHand` takes any id and profile, as the install command does. `strays` are the leases
that an operator ended or installed by hand, `late` counts for each lease the operations that were executed
after it had ended: both are history, for the properties to name their exceptions.

## 3. Runs

Passing runs:

| Run | Instance | Shows |
|---|---|---|
| `controller` | 2 machines, 2 profiles, 1 account, 2 leases, 4 ticks, lock waits of 1 | `ExclusiveLease`, `LeasedIffLease`, `LeasesRoutable`, `LeaseDeadlineBounded`, `LookupTruthful`, `BindingsMatchAccounts`, `IInv` (with the types), `QuarantineHolds`, `RevocationAnnounced`; `LoopMatchesClosedForm`: loop and closed form agree on all lists of two profiles, in either order, from every reachable state; `ImplementsLock`: the refinement of `ProfileLock` |
| `leases` | 1 machine, 1 profile, 2 leases, 3 ticks | `AgentExclusive`, `AcceptedWithinGrant`, `HolderServed`: the agent serves only whom the controller has as holder; `RevokedPruned`, `LeaseRecovered`, `ExpiredLeaseReclaimed`, `SilentMachineOffline` with only sweep and sync loop fair |
| `telemetry` | 1 profile, 3 events, 3 samples, buffer and log of 2, 1 metric point, 2 minutes of 2 ms | `StoredOnce`, `RecordingOrder`, `HandedOver`, `DeliveredWhileFresh`, `CountedOnce`, `GaugeNeverOlder` |
| `artifacts` | 2 artifacts, one undeletable, 3 ticks, 1 crash | `KeptUntilExpiry`, `CleanupOnlyExpired`, `ExpiredFileRemoved` |
| `gateway` | an operation and a script of 2 steps, a keeper, 1 fault (a stop with all that fails in it is one) | `OneBrowser`, `AnsweredOnce`, `SelfHeals` |
| `proxy` | 2 profiles, 6 configurations, ports 2 and 3 of a space of 3, 2 leases, 1 connection, 3 instants | `AllocatedDistinct`, `StoredTableComplete`, `UrlCarriesAuthority`, `NoNewDriver`, `EndReachesPeer`, `BridgeReleased` |
| `cli` | 2 clients, 1 profile, 2 leases of 1 tick, installs by hand of 2 ticks, 4 instants | `KeptWhileRunning`, `OperationsFenced`, `EnsuredStaysUp`, `OneLateOperation` |

The runs leave out the type invariants of the modules other than `Controller`; they are proved
(section 4).

Why the bounds are enough to be interesting: two leases let a profile be leased, lost and leased again; in
`controller` the largest requested ttl exceeds the maximum, and zero asks for the default; the clock outlasts
the longest lease and the offline limit; reports bind, move and drop the account and move a profile between
machines. With one account and two profiles a report meets every case of the loop: free, own, bound earlier in
the list, released earlier in the list, bound to a profile still to come. Two ttls let a renewal shorten a
lease. Three events overflow a buffer and a log of two, three samples the same buffer, and a second metric
point the bound on points; two instants fall into two minutes. Events and samples are ordered within an agent
whatever their profile is, so one profile is enough; profiles matter for the order in which a restarted
controller reads its log, which no property depends on. Two artifacts make the cleanup loop hold a list while
an upload commits; three ticks outlast the longest ttl. One fault leaves two callers with the same dead
connection, each of which evicts and reconnects. The configurations of `proxy` have two allocated ports in a
range of two, one of which may be busy, so the range runs out; a named address before and after an allocated
port; an address whose port does not parse; a profile listed twice; and none. The port space is as small as
the range, so that a port is cut off at 16 bits, as in the code. One connection suffices, since connections
share nothing. The two leases of `proxy` are on the two profiles, so a credential that is used for the other
profile shows. In `cli` a lease ends one tick after it was granted, so a command may be overtaken at any of
its calls, and the hand-made deadline is later than the real one. The symmetry set of `controller` permutes
lease ids, which are only compared; that run has no liveness property. `leases` takes handlers without lock
waits, which `controller` covers. Counters of metric points are not told apart above `MaxCount`.

Fairness, and what in the code justifies it:

- `SysFairness`: the sweep runs (`spawn_sweep` loops at a fixed interval); every agent asks for its leases
  again and again (`spawn_lease_sync`), and an answer is applied if answers keep coming: restarts do not
  hit every round.
- `Fairness` of `Telemetry`: the reporter drains and finishes its rounds; the controller is reachable
  infinitely often. No answer is assumed to arrive.
- `FairSpec` of `ArtifactStore`: the cleanup loop runs. Uploads and deletions may stop anywhere.
- `Fairness` of `CdpProxy`: the task of a bridge is polled, so an attempt to connect ends, the end of a peer
  or the error of its stream is read, and a direction that closes finishes; a peer that is there takes its
  Close. A peer that vanishes without closing its socket is not covered: the code sets no timeout.
- `Fairness` of `Gateway`: calls that were started are polled, the reconcile loop checks on each tick, a
  browser that is left alone becomes ready. Faults are bounded, since the claim is recovery after them.

TLC checks all passing runs for deadlock and finds none.

### Where documents or comments and the code differ

In each of these runs TLC finds a behaviour of the code that a sentence of the repository excludes;
`PROJECT.json` quotes the sentences.

| Run | Behaviour |
|---|---|
| `offline_lease` | a profile on a machine that was marked offline is leased again until the next sweep |
| `superseded_lease` | a late install of a released lease evicts its successor and is accepted |
| `poison_batch` | two events of a profile in one millisecond, or a lost answer, block telemetry for ever |
| `late_commit` | a commit between the two steps of the cleanup leaves a file under a row `Deleted` |
| `clean_close` | a client goes away, the direction to the client notices first, and Chrome is dropped without a Close |

Others that the models contain and that have no run of their own:

- The sweep considers machines in status Online only, and a heartbeat stores whatever status it reports: a
  machine that last reported another status is never marked offline (`MarkOffline`, `Heartbeat`).
- An answer of the sync loop that was computed before a lease was granted prunes the lease after its client
  installed it, until the next answer; a comment in `bcp-agent/src/lib.rs` says that pruning only ever removes
  released or expired leases (`ApplySync`).
- A renewal with a shorter ttl moves the deadline back on the controller only; the agent accepts the lease
  past it, up to the later deadline (`RenewLease`, `AcceptedWithinGrant`).
- The first step of a script is executed twice when its answer is lost with the connection, although a comment in
  `real.rs` says that nothing has run yet (`Restartable`).
- The `install` command of `bcp-client` sends a deadline of its own, so an ended lease gets in again
  (`InstallByHand`; `strays` in the properties of `CliSession`).
- A call that was let in goes on after its lease has ended, into the browser of the next holder (`late`, once
  for each lease: `OneLateOperation`), and so does an open bridge (`NoNewDriver` says that nothing new starts).
- A batch of samples without any event has no id and is counted twice when its answer is lost (`bare`); so is
  one whose event the log at its bound has evicted (`CountedOnce`).
- A profile without a port that is listed before one that names the same port shares its browser, and so does
  one listed after an address with a trailing slash, whose port does not parse (`AllocatedDistinct`).
- `is_port_available` cuts the number to 16 bits while the address keeps it, so a range above 65535 gives
  addresses that nothing can listen on (`IsPortAvailable`).
- A process without configuration takes its stored profiles into the fleet manager and the proxy, but builds a
  gateway without any (`HydrateProfiles`).
- After a restart of the controller the event log is in the order of ids, that is of profiles, so the bound
  on it does not keep the newest events (`RestartController`, `Bounded`).
- The temporary file of an upload that breaks off is never removed (`AbortUpload`).
- A worker that connected before the browser died may cache its dead connection after another worker
  evicted it, so that the retry of the other is not on a fresh connection (`Insert`).
- `stop_browser` returns before it kills the process when closing the tab fails (`StopBrowser`); when the kill
  itself fails, the process goes on without an entry and the next call launches a second one (`StopProcess`).

## 4. Proofs

Every invariant and every action property of the passing runs, and the refinement, are proved for all
values of the constants. The assumptions are the named `ASSUME`s of the modules, which say what kind of
value a constant is: bounds and times are natural numbers (some at least 1), sentinels are no members of the
sets they extend, a report names a profile once, a configuration is a sequence of entries. The sets of
machines, profiles, leases, artifacts, connections and clients are arbitrary; only `GatewayAssumption` asks
for finite sets of workers, because a fresh connection number must be left over, and `FleetAssumption` takes
profiles to be numbers, because the ids of events are ordered by them.

| Module | Theorem | Statement |
|---|---|---|
| `ControllerProofs` | `Invariance` | `Spec => []IInv` |
| | `TypeCorrect`, `LeaseExclusion`, `StatusAgreement`, `BindingAgreement`, `Durability`, `Routability`, `DeadlineBound`, `TruthfulLookup` | the invariants that follow from it |
| | `QuarantineStands`, `NoSilentRevocation` | `QuarantineHolds`, `RevocationAnnounced` |
| | `Refinement` | `Spec => ImplementsLock` |
| `ReportLoopProofs` | `LoopIsClosedForm` | the loop over a report equals its closed form, for any record and any list that names a profile once |
| | `LoopAgrees` | `LoopMatchesClosedForm` |
| `LeaseSystemProofs` | `SysInvariance`, `ControllerInside` | `SysSpec => []SysIInv`, `SysSpec => Spec` |
| | `AgentExclusion`, `NoAccessBeyondGrant`, `ServedHolder` | `AgentExclusive`, `AcceptedWithinGrant`, `HolderServed` |
| | `ServedExclusively` | of the leases not cut short, one at most is let in for a profile, over all machines |
| `TelemetryProofs` | `Invariance`, `TypeCorrect` | `Spec => []IInv` and the types |
| | `AtMostOnce`, `OrderKept` | `StoredOnce`, `RecordingOrder` |
| | `NothingDropped`, `NotCountedTwice`, `GaugesForward` | `HandedOver`, `CountedOnce`, `GaugeNeverOlder` |
| `ArtifactStoreProofs` | `Invariance`, `TypeCorrect` | `Spec => []IInv` and the types |
| | `Retention`, `CleanupSafety` | `KeptUntilExpiry`, `CleanupOnlyExpired` |
| `GatewayProofs` | `Invariance`, `TypeCorrect` | `Spec => []IInv` and the types |
| | `SingleBrowser`, `NoReplay` | `OneBrowser`, `AnsweredOnce` |
| `CdpProxyProofs` | `Invariance`, `TypeCorrect` | `Spec => []IInv` and the types |
| | `PortsDistinct`, `StoredComplete` | `AllocatedDistinct`, `StoredTableComplete` |
| | `UrlsAuthorised`, `EndsTold`, `Revoked` | `UrlCarriesAuthority`, `EndReachesPeer`, `NoNewDriver` |
| `CliSessionProofs` | `Invariance`, `TypeCorrect` | `Spec => []IInv` and the types |
| | `NotRobbed`, `BrowserStays` | `KeptWhileRunning`, `EnsuredStaysUp` |
| | `Fenced`, `AtMostOneLate` | `OperationsFenced`, `OneLateOperation` |

Every module has an inductive invariant with one lemma for each action or group of actions, and a second set
of lemmas about single steps for the action properties. What had to be added to the properties to make them
inductive is, each time, what the code relies on without saying so.

*Controller.* None of the properties is inductive alone. `ExclusiveLease` needs `LeasedIffLease` only where
`UpsertProfiles` computes a status, but `LeasedIffLease` needs `ExclusiveLease` everywhere: freeing a profile
when one of its leases goes is right only if there is no second. A grant keeps both because its id is new to
the table, which needs "ids in the table were issued". `LeasesRoutable` needs that profiles live on registered
machines and that all of those are in the directory, and restarts need that memory equals disk. `IInv` is the
conjunction. What it says about a record alone is `Consistent(s)`; one lemma per operator shows that the
operator preserves it, and one lemma per action composes them, so the longest argument (that the loop over a
report keeps bindings and accounts inverse) is made once, for `UpsertProfiles`. The action properties and the
refinement rest on a second set of lemmas that say what a step does to the lease table: it grants one lease on
a profile that has none, under a fresh id, or it grants nothing and announces each lease it removes before its
deadline.

*The report loop.* The theorems about `Controller` are about `UpsertProfiles`, the closed form of the loop; that
the loop computes it is `LoopIsClosedForm`. `UpsertLoop` is a recursive function from the number of profiles
processed to the set of outcomes: no outcome after an error, one otherwise. The closed forms of the prefixes
of the list satisfy its recurrence (`OneMore`: one more profile is accepted exactly if it raises no conflict
with what the prefix left, and the record it leaves is the closed form of the longer prefix; `ClaimedOnce` is
what makes the binding of an account well-defined). That the recurrence has one solution is an induction over
the length; it is made with the smallest index at which two solutions differ (`UpTo`), because the library's
induction theorems cannot be instantiated here.

*LeaseSystem.* Every step of the system is a step of the controller or leaves it alone (`ControllerInside`),
so `IInv` of the controller comes for free. Tables of agents and answers on their way to them are `Backed`:
they name each profile and each id once, and hold only what some client was granted. An install keeps the
first half because it evicts whatever shares the profile *or* the id; a sync because the table of the
controller is exclusive when the answer is computed. `HolderServed` needs to know what became of each lease
that was ever given: its holder still has it, with that deadline or a later one, or the deadline has passed, or
it was cut short (`Promised`). A handler keeps that because a lease whose deadline has not passed stays with its
profile and machine or is announced (`StillHeld`, `Announced`), whatever old time the handler works with.
`ServedExclusively` combines it with the exclusive table of the controller: the agents never talk to each
other, and still a profile that moves to another machine is not served on both.

*Telemetry.* The batch followed by the buffer is one line in the order of serial numbers, and an event is the
only one with its serial number wherever it is, on either side. Once a batch is accepted, each of its events
is `Safe`: in the table, or the log is at its bound. A sample that was counted and did not travel bare stands
behind an event of its batch that is `Safe` (`Told`), so the log knows the batch when it comes again; that is
why a retry does not count twice. For a gauge, as long as nothing was cut off, the samples at the head of the
line are all newer than the point, or the one the point shows is among them so that the report ends at that
reading or a newer one (`Shown`). The lemmas about appending, putting back and cutting off numbered sequences
are stated once for events and samples.

*ArtifactStore.* The cleanup loop works from a list it made before; its items stay expired because every one
has a row, and a deadline is written only where there is none (`ListedExpired`, `RowOfUpload`). Until the
deadline nothing but a deletion takes the file from the rename on, or the status from the commit on (`Kept`).

*Gateway.* A call may have executed a step once in the pass it is in and once before it reconnected
(`MayHaveRun`), but a script has exactly one answer to each step that this pass got past and no other, since
`run_script` restarts only at its first step (`Restartable`). `OneBrowser` counts the orphans out and is
inductive with the types; that a new connection finds a free number is a counting argument over the workers
(`UnusedExists`).

*AgentStartup, CdpProxy.* `AllocatedDistinct` is about a finished configuration and is not inductive. While
entries are discovered, the allocator knows every port that was named and every port it gave to an entry that
still decides the address of its profile (`Remembered`), which an entry listed again later does not break. The
authority of calls and URLs holds as long as the agent's table is a part of `Granted`. A live bridge implies
that the process serves and that the route is unchanged, because routes change only on the way up. For
`EndReachesPeer` a direction that closes has a cause in the state of a peer (`Caused`), so that the first to
finish either has sent its Close to a peer that takes it or leaves one behind that is gone (`Told`).

*CliSession.* Commands hold distinct leases, each granted once under its id, and what reaches the agent was
granted or comes from an operator. `KeptWhileRunning` and `EnsuredStaysUp` are inductive on top of that.
`OneLateOperation` needs to know of a lease that has been late that it is over for good and that no operation is
under way for it (`LateOver`): the next one would have to pass the check, and who passes it holds the profile
(`ValidatedHolds`).

*Only model-checked:*

- Liveness (`RevokedPruned`, `LeaseRecovered`, `ExpiredLeaseReclaimed`, `SilentMachineOffline`,
  `DeliveredWhileFresh`, `ExpiredFileRemoved`, `SelfHeals`, `BridgeReleased`): fairness and `ENABLED` are
  beyond the prover. Of these properties nothing is proved.

## 5. What is not modelled

- Labels, handles, health texts, pagination, rendering: data that no property tells apart.
- What happens inside a page, YAML parsing and parameter substitution of scripts.
- The end-to-end harness: test code. Generated protocol code. Web pages and views: they render a snapshot,
  and the expiry that taking it performs is `ExpireOnRead`.
- `report_artifacts` on the controller: no agent calls it.
- Of the client the commands that only read; of the configuration the checks of single fields, accounts, and
  the templates of launch commands.
- Frames on a bridge, and peers that vanish without closing their socket.
- Clock skew between machines. The agent compares the controller's deadline with its own clock; the
  model has one clock.
- Poisoned locks: the code continues with the inner value, which a clone-and-swap handler never leaves
  half-written.

## 6. Plan

Order of the work, most important behaviour first. All of it is done.

1. `Controller` with `ProfileLock`: exclusivity, statuses, bindings, revocation, restarts.
2. `Agent` and `LeaseSystem`: the protocol under loss, delay, duplication and restarts.
3. `ControllerProofs`: the inductive invariant and the refinement.
4. `Fleet` and `Telemetry`: at-most-once storage, order, bounds.
5. `ArtifactStore`: uploads against the cleanup loop and crashes.
6. `Gateway`: process lifecycle and reconnection.
7. `AgentStartup` and `CdpProxy`: ports, stored profiles, authorisation at connection time against leases that
   end while calls and bridges are under way, and the two directions of a bridge.
8. Metrics in `Fleet` and `Telemetry`: what a retry does to counters and gauges.
9. `CliSession`: the commands of the client on the agent, and what a lease that has ended can still do.
10. Theorems about the other modules, in the order of what they say about the system: the lease protocol,
    telemetry, the artifact store, the gateway, the proxy, the client.
11. The report loop against its closed form, and who is served by the agents against who holds the lease on
    the controller (`HolderServed`).

What could follow: the composition of `CliSession` with `LeaseSystem`, so that the commands run against the
handlers of the controller and not against a lease table that stands for them.
