# TLA+ models of xray-runner

xray-runner starts an Xray core from a subscription and points the machine at
it: by the desktop's proxy settings, by routing everything through a tun device
(with a kill switch), or by redirecting chosen programs (the split). It undoes
all of that when it leaves, is killed or loses its core. A privileged service can
do the part that needs root for an interface without it.

What is hard here is not the translation of subscriptions into configs. It is
that several goroutines, and several processes, change one host and must put it
back, whatever dies in the middle. That is what the modules are about.

Contents: [inventory](#inventory), [plan](#plan), [modules](#modules),
[runs](#runs-and-bounds), [fairness](#fairness), [proofs](#proofs),
[findings](#where-the-code-and-its-words-differ), [what is left out](#left-out).

## Inventory

Every component, the state it keeps, what it does, what is hard about it, and
what makes it correct. `PROJECT.json` has the status of each, and the hazards by
line.

### Service (`internal/service/service.go`) — modelled

* State: the session (`s.sess`: kind, owner, holder, token, grace timer,
  `stopping`, `done`), `closing`, the set of connections, the mutexes `mu`
  (short) and `op` (held across slow calls).
* Operations: accept, hello with or without a token (`resume`), `start_tun`,
  `stop`, `enable_split`, `refresh_split`, `disable_split`, the end of a
  connection (`detach`), the grace timer, the end of a TUN session by itself, the
  service's own shutdown.
* Hard: seven actors may each end a session; a timer that has fired cannot be
  called back; `finish` waits for another goroutine with `op` held.
* Correct when: one session at a time, of one user, taken down once before the
  next; a session nobody holds ends; a holder is told; shutdown leaves no session
  standing. What a takedown could not take off is only logged, and is the journal's
  to remember.

### TUN routing (`internal/system/route_linux.go`, `netlink_linux.go`) — modelled

* State: `installed` (what this process owns), the journal's record of it, the
  kernel's tables, which other programs change as well.
* Operations: `EnableTunRouting` (preflight, note, add one by one, undo),
  `DisableTunRouting` (list, delete newest first, note), recovery of entries an
  earlier run left.
* Hard: a kill or a refusal between any two calls; entries of others that are
  spelled like ours; a delete that ignores the type of an IPv6 route.
* Correct when: what is ours is in the journal before it is in the kernel; a
  clean result means a clean table; nothing of anyone else is removed; the
  server's exception is never the entry that is missing.

### Journal (`internal/system/journal.go`, `journal_linux.go`), kill switch (`firewall_linux.go`, `nft_linux.go`), split (`split_linux.go`) — modelled, the last two partly

* State: one record per pid in `/run`, the process's own record, the nftables
  chain, the split's cgroup, where each moved process came from.
* Operations: `note`, `saveJournal`, `RecoverJournal`, `recoverSplit`,
  `EnableKillSwitch`/`DisableKillSwitch`, `EnableSplit`/`RefreshSplit`/`DisableSplit`.
* Hard: several runs at once over one host, pids that come round, reboots,
  recoveries killed half way, writes that are only logged when they fail.
* Correct when: whatever is on the host is named by a record the next run acts on,
  and no record outlives what it names.

### Session (`internal/app/session.go`, `health.go`, `internal/xray/runner.go`) — modelled partly

* State: the session's context, the core process and its generation, the restart
  flag, `tunRouted`, `killSwitchOn`, the health shown.
* Operations: `runSession`, `RunWithRetryHooks`, the hooks `afterStart` and
  `afterStop` of a TUN session, the health loops, `releaseSession`, `cleanup`.
* Hard: a core may die in any step of its own setup; the network may be gone; a
  restart is asked by one goroutine of a process another one is replacing; every
  teardown waits for goroutines that may wait themselves.
* Correct when: a kill switch once up holds until the release; a restarted core
  starts over none of our routes; nothing is left on the host unmarked; nothing
  waits for ever, and no session sits in front of a dead core.

### Remote client (`internal/app/remote.go`, `internal/ipc/client.go`) — modelled partly

* State: the attached connection, the token, the split it believes the service
  has, the watcher, the call under way.
* Operations: `redialService`, `dropService`, `runRemoteSession`, `watchRemote`,
  `reconnectService`, `stopRemote`, `serviceSplit`, `resumeSplit`.
* Hard: a lost connection and a disconnecting user at once; a redial that comes
  back without the session; an answer, and the end of a session, that come late.
* Correct when: a TUN session left is stopped or left to the service's grace, one
  connection works at a time, and a split that was lost is not shown as on.

### Geo database store (`internal/service/geostore.go`, `internal/app/remote_geo.go`) — modelled

* State: blobs by hash and age, pairs' folders, the active pair, an upload per
  connection and the count of them. Operations: `geo_have`, `geo_put` in pieces,
  room by age, `keep`, `makeSet`, pruning, `shareGeo`.
* Hard: the room an upload was given is taken by another; what `missing` answered
  is stale when the session starts; a service killed while it prunes.
* Correct when: the store keeps its limit, no place is lost, a running session's
  pair stays, and an interface alone with the store finds what it handed over.

### System proxy (`internal/system/proxy*.go`, `internal/app/proxycheck.go`) — modelled

* State: the desktop's setting, the snapshot taken of it, whether one is owed back
  (`proxyTouched`, `proxyRestoreFailed`), what of it is ours.
* Operations: the check for a dead address of ours and its clearing, the snapshot,
  `Enable` with its undo, the exact restore with its fallback, four places that
  try it.
* Hard: a desktop refuses any of the commands of a write, for a moment or for a
  while; the user changes the setting meanwhile; a kill before it is put back.
* Correct when: the user's setting comes back, no run that ends leaves the machine
  on a port nothing listens on, and a leftover of ours is never taken for the
  user's.

### Application shell (`internal/app/app.go`, `lock_*.go`, `leftovers.go`, `state.go`) — modelled partly

* State: the lock file and its lock, the saved mode, what is loaded. Hard: a lock is
  of a file, its name can pass to another one; a load that was abandoned ends after
  the next (`commitLoad`, in Library). Correct when: one run is past the lock.

### Navigation, subscriptions and their store (`internal/app/navigate.go`, `geo.go`, `internal/subscription/store.go`, `cache.go`, `internal/tui/subs.go`) — modelled partly

* State: the list (plain or sealed), the saved answers, a panel's databases, the
  profiles in use, the screen, the loads beside it.
* Hard: loads left behind go on; the list is sealed in two writes; a key that is
  there in one run and not in the next.
* Correct when: what a connection is built from is what the screen shows; the list
  is the user's; saved answers go with their subscription.

### Updater (`internal/updater`, `internal/tui/update.go`) — modelled

* State: two databases and a core, what is moved aside, the lock, the screen, the
  remembered release. Operations: `commitAll` and its rollback, the core's rename,
  the screen and the guard of its installs.
* Hard: a rename refused at any place, the rollback's own too; two loads putting a
  pair into one directory; a screen left while an install works.
* Correct when: a pair is of one install, nothing is lost, and a screen that has
  returned has nothing of its own at work.

### Configs of the core (`internal/xraycfg`, `internal/app/navigate.go`, `benchmark.go`, `servetun.go`) — modelled partly

* No state of its own: merges of a profile and of one server of it, the split's
  rewrite, the probe's rules, the TLS policy, the mark on direct outbounds.
* Hard: each is applied after another, in four builds (session, preview, ping, the
  service's), and the panel may have sent anything.
* Correct when: a ping measures what a session would use, the panel's rules hold,
  a program that is not listed stays off the tunnel, nothing the core sends comes
  back to it.

### Not modelled

* IPC (`internal/ipc`): bounded send queue, admission, deadlines, the client's table
  of calls. Service and Remote take a connection as something that delivers in
  order or is lost; see [left out](#left-out).
* Windows routes, firewall and journal; the service as a unit; files and secrets;
  the core's ties to its parent and the classification of its output.
* Screens' rendering, parsing of subscriptions, encodings: translation, without
  anything that interleaves.

### How they interact

The interface runs a session itself (Session, which calls TunRouting and the kill
switch, which write the Journal, or takes the desktop's proxy, SystemProxy) or asks
the service to (Remote → IPC → Service → `ServeTun`, which runs the same runner and
hooks as Session). The service and an interface are two processes over the same
journal, chain and cgroup. What a session runs on comes from Library (whose
profiles), CoreConfig (which config), Install (which databases) and, in the service,
GeoStore. Within a process goroutines share state under mutexes; nothing passes
between processes but the socket, the journal and the host itself.

## Plan

Most important behaviour first: what changes the host, and who may change it.

1. **Service**, with the abstract **SessionLease** it implements, its inductive
   invariant **ServiceInv**, and the proofs. *Done.*
2. **TunRouting** and its proofs: the entries of one run in the kernel. *Done.*
3. **Journal**: several runs over one host, with the kill switch and the split.
   *Done, with its proofs.*
4. **Session** and its proofs: runner, TUN lifecycle, health. *Done, without the
   split of a proxy session.*
5. **Remote**: a client's connection and token against the service's session, with
   a reconnect, a cancel and a stop at once. *Done, with its proofs.*
6. **GeoStore**: uploads of several connections, room, pairs, the session's use.
   *Done, with its proofs.*
7. **Install** and **Library**: what is on disk. *Done, with their proofs.*
8. **CoreConfig**: the pure algorithms, against what the core does with their result.
   *Checked over bounded inputs, and proved for any.*
9. **SystemProxy** with **SystemProxyProof**. *Done; `OneRunAtWork` and
   `LeftoverIsNotKept` proved, and the rest for histories without a refusal; what holds
   under refusals is checked only.*
10. A module of `internal/ipc`: queue, calls in flight, admission; abstract
    specification: each call gets one answer, its own, or an error.
11. The split of a proxy session with its rescans, beside Session and Journal.
12. The Windows counterparts of routing and journal.

For each: a module without `RECURSIVE`, constants with a named assumption, one
action per operation; TLC first; then the invariant made inductive and proved.

## Modules

| module | what it is |
|---|---|
| `Service` | the service: state, actions, fairness, properties |
| `SessionLease` | what the service promises: a lease of the machine |
| `ServiceInv` | the inductive invariant of Service |
| `ServiceProof` | proofs: the invariant and the safety properties, Service implements SessionLease |
| `TunRouting` | entries in the kernel, the journal's record of them, other programs |
| `Journal` | records, takeover, chain, cgroup, homes, over several runs |
| `JournalProof` | proofs: what is on the host is in a record, for any number of runs |
| `Session` | runSession, the runner, the TUN hooks, the health loop |
| `SessionProof` | proofs of its safety properties and of `RestartsOverNothing` |
| `Remote` | the interface's side of the service: connections, calls, watcher, redial |
| `RemoteProof` | proofs: one connection works, the menu holds no TUN session |
| `GeoStore` | the service's databases, the uploads, an interface handing its pair over |
| `Library` | the list of subscriptions, saved answers, loads beside the screen |
| `LibraryProof` | proofs: the list is the user's, the screen's subscription is the one loaded |
| `Install` | installs of core and databases, their rollback, the update screen |
| `DatabasesProof` | proofs about GeoStore: the store's size and places, what is pinned, an interface alone with it; and about Install: whose files are under which name, what the screen may say |
| `CoreConfig` | configs built from a panel's profiles, and where a core sends a connection |
| `RoutingProof` | proofs about CoreConfig: where connections go, for any panel; and about TunRouting: its invariants and `OthersKept` |
| `SystemProxy` | runs of the client, their lock, the desktop's proxy taken and given back |
| `SystemProxyProof` | proofs: no two runs are past the lock; whose setting a session takes and leaves |
| `MC*` | instances for TLC: connections, entries, panels, symmetry |

`PROJECT.json` maps each definition to its lines. What follows is how to read them.

**Service.** `mu` guards sections that never block; each is one atomic step. `op`
is held across slow calls and is a variable: `op` says who holds it, `opStep` what
comes next, `opSess` the session meant. Taking a free `op` and the `mu` section
after it are one step, since nothing between the two needs `op`. A handler is `pc`:
`accepted` is the window before `s.conns[c]` is set, `want` waits for `op`, `busy`
holds it. A timer is armed, fired (its callback waits for `op`) or over; a
connection is detached once, so its timer has its name. A TUN session is two
goroutines: `tun` runs `ServeTun`, `pump` answers the client. `host` says whether a
session's changes are in force, or were taken down and some are left: a failed
`DisableSplit` is logged and the session dropped all the same, `EnableSplit` ignores
its own, and what a TUN session's teardown could not undo ends with its App. `told`, `endedTo`, `stoppedBy`, `known` are the
addresses of the messages a property is about. `tunSpec`'s validation,
`redirectOwnedBy`, `RefreshSplit` and `EnableSplit` may each go either way. Requests
that change nothing are left out, `enable_split` with no names among them.

**TunRouting.** The entries of a session are numbers in the order they are added;
constants say which are rules, IPv6 routes, or routes through the tun device. Each
listing and each change of the kernel is a step and another program may move
before it: add an entry spelled like ours, beside it or in its place, replace or
remove ours. `held` and `put` are ghosts the properties speak with. One process at
a time runs; that several do is Journal's.

**Journal.** A record is named by pid and says its writer (pid and start) and boot.
`pc` goes through a recovery (read, takeover, drop one by one, teardown of what was
found) and then through the operations, each step of which a kill may follow. Reading
the records and asking whether their writers live is one step. The kill switch is
a chain that the host has once; a chain put up replaces whatever was there. The split
is a cgroup, processes in it, and homes: what the kernel says of where they were,
what the process knows, what the record has.

**Session.** `pc` is runSession's goroutine, `run` the runner's with the hooks it
calls, `health` the loop's; `core` is the process. `genCtx` is the core's context,
which is cancelled when the core has been waited for, not when it dies: the
distance between `dead` and `reaped` is where most of the races are. Calls of
TunRouting and the kill switch succeed, fail with nothing left or fail part way.
Time is a choice: a core ran for a minute or not, a wait ran out or not. `gen`
counts the cores, in a proxy session too. Routes and switch are released in one
step because every other goroutine has been waited for.

**Remote.** `pc` is the session's goroutine from the call that asks for it to the
menu, `watch` the watcher of a TUN session or the loop that keeps a split. A
connection has a number: `link` is the interface's end of it, `served` the
service's, and between them are the queues of requests, answers and events. `sess`,
`kind`, `holder` are the service in the few steps Service promises of it; its stop
is one step. `why` is what is in the channel `remote.ended`, a session's number, so
that an end which comes late can be told from the end of this one. `SlowSpec` adds
that the fifteen seconds for a split run out.

**GeoStore.** A database stands for its hash and is uploaded in two pieces. `blobs` is
what the store has and `older` how the times of the files order it; two that were
touched within a tick have the same time, and pruning may take either first. How many
blobs are past their keep time is a choice when pruning looks.
`alone` is a ghost: nobody else has touched the store since this interface asked what
is missing. `CutSpec` adds a service killed while it prunes.

**Library.** The list is two files, `plain` and `sealed`, and `keyed` whether this
run has a key. A task is a load, a refresh or an addition; `left` says that the user
went back and its context is cancelled, which it sees at its next look. `loaded`,
`geoDir` are App's; `open`, `rows`, `shown` the screen's. `wanted` is a ghost, what
the user has asked for, entry by entry; `strayed` marks what the code itself calls best-effort, an
effect after the last look or a write cut off, after which nothing but
`LaterLoadStands` is claimed.

**Install.** A file is the version it is of, `aside` what stands next to it under
another name. `op` is an install, by the screen or by a load; `pc` goes through the
lock, a move aside and a rename for each file, and the rollback. `torn` marks a kill
in the middle. `slot` and `marked` are the geo releases' memory.

**CoreConfig.** A config is a record of outbounds, rules and balancers; a rule is the
sets of destinations, programs and inbounds it names, empty for no condition.
`Way(cfg, p)` is what a core does with connection `p`: the reference the builders are
compared with. `Starts` says which configs it takes: no tag twice, no rule that leads
nowhere. `job` is what runs on a config, and the steps between (choosing
programs, switching mode) are there because what was computed before them is used
after. A list is picked from by its least place (`Min`) and a config's rules by the
places that stay (`Stays`, `InOrder`), so that both can be reasoned about. The
properties speak of a core that starts; `PingIsOfSession` and `RulesArePanels` also of
a panel whose balancers choose among servers (`BalancesServers`), since one that
balances over `freedom` sends the probe, too, past the tunnel.

**SystemProxy.** A desktop is the sequence of stores it tries. A write is a sequence
of commands, each with what its refusal costs (`miss`), and `Command` runs the first:
taken, refused with the rollback and the fallback to the next store, or only logged.
`call` is the write under way and what it is `for`; `pc` where its run is. `app` has
the fields of App the code decides by. `users` and `struck` are ghosts: what the
user's setting may be now, and whether a run was killed, or has ended, with ours
still in force. `refusing` is a time in which a desktop takes nothing.

## Runs and bounds

| run | module | what it shows |
|---|---|---|
| `service_sessions` | MCService | two windows of one user, two sessions in succession: every end of a session against every other, whose takedown may fall short; nothing put up once Serve is past the teardown; the refinement of SessionLease |
| `service_live` | MCService | under fairness: orphans end, requests are answered, shutdown gets past the session |
| `service_grace` | MCService | a divergence, see [below](#where-the-code-and-its-words-differ) |
| `tun_routing` | MCTunRouting | one entry of each kind; a kill, a kernel failure and two moves of others between any two steps |
| `journal` | MCJournal | three runs over two pids, a kernel refusal, a reboot |
| `session` | MCSession | two sessions of either mode; three deaths, restarts or outages; one host call that fails; with liveness |
| `remote` | MCRemote | three connections, two sessions of either kind, two lost connections or crashes; with liveness |
| `geostore` | MCGeoStore | two interfaces, three overlapping pairs, a store of four databases, two uploads at once |
| `library` | MCLibrary | two subscriptions, one with databases of its own; two loads, refreshes or additions at once |
| `install` | MCInstall | the screen and two loads; two refused renames, a kill |
| `config` | MCCoreConfig | some hundred and seventy panels in every mode and build |
| `system_proxy` | MCSystemProxy | three runs, two sessions, one refusal and one change by the user, on each desktop |

Why the bounds are enough:

* Service. A connection is accepted once, a session used once, so two connections
  allow one hand-over and its races, three allow another user in the middle
  (`ServiceUsers.cfg`). Two sessions show what an actor left over from the first (a
  timer, a pump, a request in flight) does to the second; a third would meet the
  same leftovers. Any takedown may fall short in `service_sessions`
  (`MaxLeft` 2): no guard looks at what is left, so states that differ in that alone
  are explored once (`VIEW Going`), and the proof of `ServiceIsLease` is without the
  view. In the run with liveness, which a view would spoil, none does (`MaxLeft` 0).
  The safety properties are proved for any number besides.
* TunRouting. Five entries have the code's order with each kind once: the server's
  exception, the mark rule, an IPv6 route, both halves of the default. `MaxMoves` 2
  is a move before a listing and one after. Proved for any number besides.
* Journal. A record is written by one run, taken over by a second that may die and
  again by a third: `Runs` 3. Two pids allow both a record under the taker's own
  pid and one under another. With `MaxKernelFaults` 2 the run passes as well, it
  only takes longer. Nothing is claimed after a write that failed, as the source
  says, so TLC stops there (`WhileKind`).
* Session. `MaxRetries` is 2 instead of 5: what matters is a retry with budget and
  one without. Three events allow a death, a restart asked meanwhile and an outage
  in one session. Without the liveness properties the run passes with `MaxEvents` 4
  and `MaxFaults` 2.
* Remote. A connection is lost, dialled again and lost again: three connections and
  two faults. The second session meets what the first left in the queues and in the
  channel.
* GeoStore. `MaxStore` is four times a file, which is the least the code's own
  constants guarantee (`GeoStoreAssumption`): two pairs fill it, so the third pair,
  which shares a database with the first, always needs room. Two interfaces fill
  every place.
* Library. A load left behind and the one that follows it are two tasks; a deletion
  by place needs two subscriptions to be wrong. `NotStrayed` ends a run where the
  code gives up its claim.
* Install. Two refusals allow a rename to fail and then the rollback of it. Two
  versions tell an old file from a new one; the third writer is the second load.
* CoreConfig. Inputs are bounded, not steps: six lists of outbounds (with and
  without direct, block, a second server, an untagged and a foreign one), three
  balancers, lists of up to two of seven rules, and the odd ones apart: spellings, a tag
  used twice, a server called `direct`, a balancer without a name, a dns outbound,
  rules that lead nowhere. Two rules are what the order of rules needs; for longer
  lists there is the proof.
* SystemProxy. The third run is needed for the lock: one holds, one has opened the
  file, one comes after. Two sessions show a restore still owed when the next one
  starts. A refusal is a single one or lasts (`refusing`), so `MaxFaults` 1 covers
  every retry failing. The properties say what they do not claim in `Repairable`: a
  refused write that goes on to another desktop's store, and a Linux snapshot that
  was not read, lose the setting in the code as it is.

Runs where the system may stop (a Journal whose runs are all dead, a Session that
has exited, a bound used up in Remote, Library, Install, CoreConfig or SystemProxy)
do not check deadlock; in Service stopping is an action of its own (`Over`), so
deadlock is checked there, and in TunRouting and GeoStore.

Every property of a passing run has a mutant in `PROJECT.json`: a plausible bug in
one definition that breaks it. Their `_`-named forms stand beside the definitions.

Configurations kept beside the runs, for a reader who wants to run them
(`tlc -config X.cfg MCY`):

| cfg | module | outcome |
|---|---|---|
| `ServiceUsers` | MCService | holds: three connections, two users, one session; `OwnerHolds` and the inductive invariant where TLC can look |
| `JournalMore` | MCJournal | holds: types; records of the dead go |
| `SessionMore` | MCSession | holds: `HealthIsOfThisCore`, `RestartHitsItsCore`, `OutageIsWaitedOut`, `RestartsOverNothing`, `ConnectEnds` |
| `InstallMore` | MCInstall | holds: the screen says "latest" of what is (`UpToDateIsTrue`) |
| `CoreConfigMore` | MCCoreConfig | holds: the label of a TUN session; unchecked certificates need the opt-in |
| `ServiceShutdownReturns`, `ServiceStopsOwnSession`, `TunRoutingTakesBackOwn`, `JournalHomesStayNamed`, `SessionSymptomIsRetried`, `GeoStorePairIsWhole`, `RemoteLeavesAsFound`, `LibraryLaterLoadStands`, `CoreConfigKeptOff`, `SystemProxyLeftoverGoes`, `SystemProxyNoAddress` | the module of the name | refuted, see [below](#where-the-code-and-its-words-differ) |

## Fairness

*Service.* Weak fairness for what a goroutine does next by itself. Strong fairness
for taking `op`: it is a `sync.Mutex`, whose starvation mode hands it to the oldest
waiter. The hello fails fairly because it has a deadline (5 s). `TunReturn` is fair
only once the session is stopping, since a core may run for ever, but a cancelled
`ServeTun` returns. A client owes nothing: it need not send, read or close.

*Session.* Weak fairness for runSession, the runner and the hooks, for a core that
is told to stop, for the wait that reaps it, for the interrupt after the flag and
for the health loop's end. None for the user, for a core's death or for failed
checks. A core whose context ends is killed (`exec.CommandContext`), which is
certain; that one which is only interrupted (`Runner.Stop`, for a restart) goes is
an assumption about Xray, and a core that hung on it would hold its session until
the user leaves.

*Remote.* Weak fairness for the readers of a connection at both ends, for the
session's goroutine and the watcher, for the service's answer to a start, its pump
and its grace timer; a dial comes to some end, which is what its timeout is for. None
for the user, for a loss of a connection, for a crash of the service or for a dial
that succeeds.

The other modules claim no liveness: a call that is killed does not finish.

## Proofs

What `tlapm` checks, for every value of the constants under each module's named
assumption (`ServiceAssumption`, `TunRoutingAssumption`, `JournalAssumption`,
`SessionAssumption`, `RemoteAssumption`, `GeoStoreAssumption`, `InstallAssumption`,
`LibraryAssumption`, `CoreConfigAssumption`, `SystemProxyAssumption`):

* `ServiceProof`: `IInv` is an invariant; `TypeOK`, `HostIsHeld`, `DoneOnce`,
  `StoppingHoldsOp`, `HolderIsServed`, `OrphanHasTimer`, `OwnerHolds`,
  `LastHolderIsTold`, `ShutdownIsFinal` follow. Service implements SessionLease
  (`ServiceIsLease`).
* `JournalProof`: `KillSwitchRemembered`, `SplitRemembered`, `RecordIsTrue`,
  `DeadRecordsGo` and `TypeOK` from `JInv`.
* `RoutingProof`, about TunRouting: `TypeOK`, `Remembered`, `Owned`, `CleanIsClean`,
  `ExceptionsFirst` from `RoutingInv`, and the action property `OthersKept`.
* `RoutingProof`, about CoreConfig: `PingIsOfSession`, `RulesArePanels`, `SplitIsSafe`
  and `NothingLoops` from `BuiltInv`, for panels of any size, any rules in any order,
  any check hosts and any list of programs.
* `SessionProof`: `TypeOK`, `KillSwitchHolds`, `HealthIsOfThisCore`,
  `RestartHitsItsCore`, `OutageIsWaitedOut`, `NothingIsForgotten` from `SessionInv`,
  and the action property `RestartsOverNothing`.
* `RemoteProof`: `OneConnection`, `MenuHoldsNoTun` and `TypeOK` from `RInv`, with the
  slow service (`SlowSpec`) as well as without.
* `DatabasesProof`, about GeoStore: `StoreBounded`, `PlacesHeld`, `RunsOnItsPair`, `OwnPairIsThere` from
  `GInv`, and the action property `PinnedStay`; all of `CutSpec`, where the service may
  be killed while it prunes.
* `DatabasesProof`, about Install: `PairIsOfOneInstall`, `ReturnsQuiet` from `IInv`, and the action
  properties `NothingIsLost` and `UpToDateIsTrue`.
* `LibraryProof`: `OpenIsLoaded`, `ListIsUsers`, `CopiesAreListed` and `TypeOK` from
  `LibraryInv`, for any number of subscriptions, tasks, deletions and kills.
* `SystemProxyProof`: `OneRunAtWork` from `LockInv`, and `LeftoverIsNotKept` from
  `SettingInv`, for any number of runs and any desktop. Also `GoesCleanly`, which is
  `NotLeftOnOurs` for a history without a refusal and a user whose proxy, when it is on,
  has an address for HTTP (`Addressed`), and `BackCalmly`, which is `UsersComeBack` for
  a history without a refusal and a user whose proxy has the addresses that a restore
  would make up otherwise (`AddressesKept`: HTTP's on GNOME and KDE, HTTPS's on KDE;
  nothing is asked of the registry, and TLC finds `UsersComeBack` violated on KDE
  without it).

What is proved here and not in the list of a run (`HostIsHeld`, `Owned`,
`OutageIsWaitedOut` and the like) needs no run to hold; the runs are kept for what
only they show.

Why the invariants are stronger. None of Service's properties is inductive.
`DoneOnce`, say, needs that a split session is the service's exactly until its
`done` is closed (`SplitInv`), that a TUN session's `done` is closed by its own
goroutine alone (`TunInv`), and that whoever is about to drop a session holds `op`
over the current one, marked (`OpInv`, `StopInv`). `OrphanHasTimer` needs that a
session's timer was armed for it by a handler that is gone (`GraceInv`); so no other
detach can arm it again. `ShutdownIsFinal` needs that a closing service can only have
the session Serve saw (`ServeInv`). Each action has a lemma `…Keeps` with a step per
part it can disturb, and `NextInv` joins them.

The refinement maps the lease to `sess`, its user and connection to that session's,
`ending` to its mark, `used` to the sessions ever claimed, `touched` to those whose
changes are in force, `left` to those with changes that would not come off. Each step of Service is one step of the lease or none:
`HandlerLeases` and `OthersLease` say which. It needs the invariant where a step
leaves the lease (`LeaseReturns`: they are not in force by then, and only its own were added to what
is left) and where a mark
might be set twice (`MarkRevokes`).

TunRouting's `Remembered` and `Owned` need where the entries are while a teardown
walks (`WalkInv`: each one of ours has been seen, and is still ahead or was kept),
and that an entry is in the record before it is added (`AddInv`). `ExceptionsFirst`
needs, on an undisturbed host, that all before the next one to be added are there
and that what was visited is gone (`OrderInv`). `OthersKept` has an invariant of its
own, about what a walk has seen in others' hands.

CoreConfig has few states and large ones. Its invariant, `BuiltInv`, is that the config
that runs is still the one that the row picked would be built into: each step leaves
alone what a running job was built of (`SameBuild`), so each property is a fact about
the building alone. A lemma for each builder says what it does to any list, by places
and not by recursion: which rule is the first that holds (`WayIs`, `WayPast`), what
comes first once a server is pinned (`PinIs`), which rules a split keeps, and that they
keep their order (`InOrderIs`, `SplitRules`). The last steps, the certificate policy and the
marks, change nothing a rule can tell apart: `Alike` says that, and `AlikeThrough` that
configs that are alike send every connection the same way. The four properties then
follow: a probe's rule is met first and aims at servers (`ProbeWay`), and at the same ones
from either builder (`AimedAlike`); a connection that is no probe's goes as it would
without those rules (`ProbedWay`); a rule of a split that sends an unlisted program
anywhere leads to a local outbound (`SplitKeepsOut`), and a listed one meets the rules
it would have met in the whole (`SplitGoesOn`). `Starts` is needed, since with a tag used
twice a rule of a local tag may lead to a server.

Journal speaks of runs that die between any two steps, so its invariant is about what
the next one reads. A pid is its run's while it lives, and a record is under its
writer's pid (`LifeInv`, `StoreInv`). Where the disk takes every write and no pid comes
round in the middle of a recovery of its record (`Kind`), a live run's record is what it
has in mind (`OwnInv`); what a recovery has read stays in its list, and in its own record, until it drops the record
it came from (`RecoveryInv`); and where a run may be with a switch or a split in its
record is known (`PlaceInv`). `KillInv` and `SplitInv` then name a record that will not
let go of what is on the host: each step either keeps that bearer or shows another,
which is the takeover's case. `SplitRemembered` holds for any number of refusals by the
kernel, `KillSwitchRemembered` for one: a chain that is refused its end and then another
in its place is forgotten, in the code too.

Session's properties name places of the runner; its invariant says what holds at
the places before. `KillSwitchHolds` needs that a setup which ends without an error
has been past the kill switch (`HostInv`), and no error is left over when one begins
(`SetUpInv`). `RestartHitsItsCore` needs that a TUN session's loop runs only while
its core is waited for (`ChecksInv`), and `RestartsOverNothing` that the routes are
gone wherever a next core may come from (`HostInv`). `TypeOK` needs `BudgetInv`: the
count of crashes has room for one more until the backoff spends it.

Remote is two processes and the queues between them; its invariant says what may be there.
`OneConnection` needs that the only connection that can work is the interface's own, and
that one being dialled is nobody's yet (`LinkInv`, `WatchInv`). `MenuHoldsNoTun` is about
a stop that is on its way: it needs that an answer is only taken while its call is waited
for (`CallInv`), that no stop of a run is in a queue before the run has sent it (`MsgInv`),
that a token kept for a split names a split's session (`TokenInv`), and that while a TUN
session is being stopped its stop is the last of the queue and unanswered, or the session
is gone (`TunInv`). The steps of the service leave the interface's half alone and the
other way round: `ServeKeeps` and `WireKeeps` are for the ones, `AppKeeps`, `QuietKeeps`
and `OverKeeps` for the others.

GeoStore's `StoreBounded` is inductive: a database is kept only if, after what had to go
has gone, there is room for it, however many uploads were let in before; what a set of
databases takes when one joins or leaves it is in the lemmas on `Bytes`. `PlacesHeld` needs that those in progress are
finitely many. `RunsOnItsPair` goes through a kill while pruning (`CutSpec`).
`OwnPairIsThere` is the one with an argument: what an interface alone with the store has
there is newer than the rest (`AloneInv`), and the pinned pair with one database of its
own leave room for the largest file (`ThreeFit`), so eviction, which takes the oldest that
is not pinned, stops before it. The four files of `GeoStoreAssumption` are what that
takes; the code's constants allow as many.

Install's invariant follows an operation through its stages (`OpInv`): what it has asked
for, moved aside, put, and not yet. `KeptInv` says that what it has moved stands next to
its name until it is back, `FilesInv` what is under the names meanwhile, and `FitInv` that
a rollback would put back a pair of one install. `LockInv` is that only the holder of the
lock commits. `ReturnsQuiet` needs that the screen leaves with its operation over
(`ScreenInv`), `UpToDateIsTrue` that the pair put in is of the release that was asked for
last, and is marked only when it is in (`MemoryInv`).

Library has loads that go on after the user has left them, beside the one he waits for.
`OpenIsLoaded` needs that at most one task has not been left and that the screen waits
for that one (`ScreenInv`), that a load not left is of the subscription in the title,
and what it has put into App at each of its places (`LoadInv`); everybody else's steps
must leave that alone as long as none strayed. `ListIsUsers` compares two lists: a
deletion is by place, so it takes the entry the user meant only because the rows on
the screen are the list while nothing else is at work on it, and because nothing is on
the list twice (`ListInv`). `RemoveAtOnce` and `RemoveFirstIs` are what a removal does to
a list without repetitions: the same entry by place and by name. That the copies and a
panel's databases are of who is listed survives the pruning that follows a deletion.
All of it is claimed of a history in which nothing `strayed`; `TaskInv` and `ScreenInv`
hold of every history.

SystemProxy's `OneRunAtWork` is about a lock, and the lock is of a file. `LockInv`
says that a run past it has the file that bears the lock's name (`FileInv`), which
stays true because nothing removes that file, that it holds the lock of that file
(`HeldInv`), and that a file is locked once (`OnceInv`). Most steps of a run are past
the lock, change only its own place, App and write, and keep its file: `Onward` says
that once, `OnwardKeeps` that it keeps the invariant, and the lemmas `…Onward` that
each step is one. `CallInv` is there for a kill or an end: no write is under way where
a run leaves its place without it.

`LeftoverIsNotKept` is about what a session has read of the host, at the check and again
before its own write, and about the writes between. `Underway` says of a write how far it
is: its commands all aim at the setting it is for (`Fits`), and what has no command ahead
has been set (`Reached`), whatever the desktop and its order of commands; so `WriteDone`
can say what is on the host when a write is over. With that, `KeptInv` has the host
without our address from the check to the snapshot. `BackInv` is the same for a session's
end: a snapshot that is on has an address, not ours, so the restore takes ours off.
`OwnKeeps` reduces a step of a run past the lock to that run and the host, by
`OneRunAtWork`; `QuietKeeps` is for the steps that write nothing.

`BackCalmly` needs more of a snapshot than its switch and address: that it is, word for
word, of a setting of the user's that is still theirs to have back (`Theirs`), and that a
restore's commands say all of it (`Exactly`: what each sets is the snapshot's, and what
has none ahead is so already). `WritesAreStraight` is where `AddressesKept` is needed.
While no session holds a snapshot the host itself is the user's (`UsersInv`); so no run
comes to its check with anything to clear. A user who sets the proxy over a session's own
adds a setting to the ones that may come back, which is what keeps `Theirs` true of the
snapshot (`UserSetsUsers`).

With TLC only, and why:

* The liveness properties (`OrphansEnd`, `RequestsAreAnswered`, `ShutdownTakesDown`,
  `ConnectEnds`, `NoDeadSession`, `TeardownEnds`, `SplitLossIsShown`, `LeftSessionEnds`):
  liveness under fairness and `ENABLED` are out of this prover's reach.
* SystemProxy's `UsersComeBack` and `NotLeftOnOurs`: they are true of one refused command
  or read, not of any number, and TLC shows why with `MaxFaults` 3. An undo of a failed
  `Enable` that is itself refused, a Windows read of one value out of two that
  `proxyStillOurs` takes for "not ours", a restore left half done: each time the code
  gives up, with a line in the log. They also hold only for a user whose proxy has an
  address when it is on. What is left without a refusal is `GoesCleanly` and
  `BackCalmly`, which are proved.

## Where the code and its words differ

Each is a property that states what a comment, or the manual, promises, and which
TLC finds violated. `GraceIsWhole` is a listed run; the others have a cfg beside the
runs.

* `GraceIsWhole` (`service_grace`): a grace timer that fired before a resume may take
  the session down after the next drop, whose own grace period has just begun
  (`service.go:307-316`).
* `StopsOwnSession`: a `refresh_split` in flight on a lost connection takes down the
  session its client has resumed on the next one (`service.go:755-766`).
* `ShutdownReturns`: a connection accepted and not yet registered when Serve closes
  the others is never closed, and Serve waits for it (`service.go:186-198`).
* `TakesBackOwn`: a first add that fails leaves its entry in the journal; the next
  run's recovery deletes another program's identical entry (`route_linux.go:268`).
* `HomesStayNamed`: a recovery writes the split it takes over into its own record
  without the homes, and drops the record that had them before the processes are
  back (`journal.go:199-212`).
* `SymptomIsRetried`: a core that dies during its setup fails a routing call before
  it has been waited for; that passes for a failure under a live core and ends the
  session (`session.go:957`).
* `PairIsWhole` (`GeoStorePairIsWhole`): "one that is there is complete", says
  `makeSet` of a pair's folder, but pruning removes a folder in place, file by file;
  a service killed in between runs its next session on a folder with a file missing,
  and pins it (`geostore.go:311-313`, `370`).
* `LeavesAsFound` (`RemoteLeavesAsFound`): a split not answered in fifteen seconds is
  taken for off and nothing withdraws the request; the service enables it later, and
  at the menu a working connection holds a session (`remote.go:483`; "always leaves
  the system as it found it", `session.go:29-30`).
* `LaterLoadStands` (`LibraryLaterLoadStands`): a refresh left behind sets its
  profiles without the look at its context that a load takes, under the list of the
  subscription opened meanwhile (`navigate.go:338`; 271-272 promises otherwise).
* `EveryServerIsKeptOff` (`CoreConfigKeptOff`): only outbounds of the kinds the
  client lists as servers are kept off the tunnel; a trojan, socks, http or wireguard
  outbound a profile routes to is dialled through it (`navigate.go:55-58`).
* `LeftoverGoes` (`SystemProxyLeftoverGoes`): connecting again takes a dead address of
  ours away, says the program's `README.md:359-361`; a TUN session has no HTTP port to
  know it by and reports it as somebody else's (`proxycheck.go:37`), and a TUN session
  of the service returns before the check (`session.go:55-57`).
* `UsersComeBack` (`SystemProxyNoAddress`, where the user's proxy is on without an HTTP
  address, as one for SOCKS alone is): a session "always leaves the system as it found
  it" (`session.go:29-30`), but restoring such a proxy on GNOME or KDE turns the empty
  host into the local proxy's (`proxy_state_linux.go:336-344`), on which nothing listens
  after the session. It came out of the proof of `GoesCleanly`, which needs `Addressed`.
  The proof of `BackCalmly` gave its counterpart on KDE: an address for HTTPS that the
  user has not set is the one for HTTP after the session.

Observations made while modelling, not stated as properties:

* Service. A `DisableSplit` that fails is logged and the stop answered with success
  (`service.go:695-698`), so the client drops what it knows of the session and nobody
  tries again before the next split or the next start's recovery; "returns once the
  machine is left as it was found" (146-147) holds as far as that went. "EnableSplit
  leaves nothing behind when it fails" (798) is not so either: a cgroup that cannot be
  made returns without a takedown (`split_linux.go:301`), and the other two
  ways ignore how theirs went (308, 314).
* Session. In a proxy session a restart asked while the runner waits out a backoff is
  spent on a later core's crash (`RestartHitsItsCore` is about TUN sessions for that
  reason). `serveTun` makes an App per session, so a mark that a teardown failed is
  lost with it and only the journal remembers.
* Remote. `watchRemote` with an empty token accepts a connection that resumed nothing.
  The end of a previous session may come late enough to end the next. The token of a
  split is kept after it was disabled.
* Library. Naming a subscription reads and writes the list without a lock
  (`store.go:255-311`), and may undo an addition or a deletion beside it. A copy of an
  answer may be saved after its subscription was removed; a kill between the list and
  the copy leaves the copy. A removal of the plain list that fails is reported as a
  failed write though the sealed list is written.
* SystemProxy. On a desktop with two stores one refused command makes a restore
  succeed in the other store. A Linux snapshot that could not be read is not refused.
  With two failures on Windows a proxy the user had switched off may come back on. An
  unreadable setting is taken for somebody else's (`proxyStillOurs`), and a setting the
  user makes during a session is overwritten by its restore.
* CoreConfig. A preview uses the split as it was before the programs were chosen. Two
  profiles with one server share its row in a flat list. Where nothing else is left a
  split's unmatched traffic goes direct. A panel without a `freedom` outbound whose
  server is called `direct` gets a second outbound of that tag from a split
  (`split.go:67-77`), on which the core does not start. It came out of the
  proof of `SplitIsSafe`, which is why the property asks for `Starts`.

## Left out

* IPC: the bounded send queue, `Refuse`, the admission limit and the table of calls in
  flight. A connection here delivers in order or is lost, and calls are answered once
  or fail with it; that the code's queue and table amount to this is not shown. It is
  the next module of the plan.
* Service: status events and the forwarded log, what is in a request.
* TunRouting: parsing of routes, the choice of the rule's priority, several list
  calls of one listing (one step here); recovery reads, puts and drops in one step
  (Journal has them apart).
* Journal: routes (TunRouting's), the rules in the chain, the chain of older
  versions, setuid pinning and the closing of sockets after a move, a home cgroup
  that is gone by the time of the return, records that cannot be read. The cgroup and
  the ruleset of a split are put up in one step.
* Session: the split of a proxy session, the status channel, a core that ignores an
  interrupt. The desktop's proxy and the lock are SystemProxy's, whose sessions are
  only their own steps.
* Remote: the choice of a service at the start, the closing of connections after a
  rescan, notes on the screen. A service's stop is one step.
* GeoStore: pieces between the first and the last, a removal the system refuses.
* Library: the scripted start, filters, the benchmark's numbers. Install: what is in a
  release and its checksum, which is a download that comes or fails.
* CoreConfig: dns sections, transports, each protocol's fields, `fallbackTag`.
* SystemProxy: a port chosen by the user, other programs on ours, a desktop that
  changes while a run is at work; a change by the user while a write of ours is under
  way.
* Windows routes, firewall and journal: another kernel under TunRouting and Journal,
  where the filters of a session go with the process that holds them.
* Installing the service, `safefile`, `secret`, `config`, the core's ties to its parent
  and its output, rendering, parsing of links: one call after another, or translation.
