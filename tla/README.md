# Verification of mihomo-fleet

TLA+ modules, TLC configurations and TLAPS proofs for mihomo-fleet, a local
controller (Go, `internal/app`) that keeps a fleet of mihomo proxy processes.
The modules are translated from the source; this file says which part of the
code each one models, what is checked, what is proved, and what is not.

## 1. The system

| Component (source) | State it keeps | Operations | Interacts with |
|---|---|---|---|
| **Manager** (`manager.go`) | `procs`, `starting`, `starts`, `reservedPorts`, `deleting`, `watchdogs`, `coreUpdating` under `Manager.mu`; one `lifecycle` mutex per instance | Start, Stop, Restart, Reload, StartAll/StopAll, Shutdown; exit goroutine; crash watchdog | reads the Store, launches mihomo, writes the runtime config file |
| **Instance handlers** (`instance_handler.go`) | none | GET/PUT/DELETE, actions, reload, batch | Manager, Store |
| **Store** (`store.go`) | instance and profile records under `Store.mu`, `instances.json`, one `config.yaml` per profile | create, update, delete, selections, errors, profile edits | its files |
| **Profiles and subscriptions** (`profile_handler.go`, `subscription*.go`) | set of refreshes in flight | refresh, URL change, scheduler tick | Store, the network |
| **Core and geodata updates** (`core_update.go`, `geo_update*.go`, `download_swap.go`) | the binary and the geodata files, each with its `.bak`, temporary files | download, verify, unpack, `atomicSwap`, fall-back to another directory | the Manager's gate; geodata: every start |
| **Geodata staging** (`geodata.go`) | links and copies in the instances' directories | find, compare, link or copy | called by start and reload; reads what updates write |
| **Import/export** (`export.go`) | an import at a time (`importMu`) | bundle validation, creation, rollback | Store, operation by operation |
| **Config generation** (`config.go`, `chain_candidates.go`, `proxy_bind.go`) | none | profile and instance to runtime document, the global chain | called by start and reload; its plan also checks edits and answers the form |
| **mihomo API** (`mihomo_api.go`, `mihomo_proxy.go`, `proxy_client.go`) | none | HTTP calls to the child process | the process |
| **GeoIP lookup** (`geoip_handler.go`, `mmdb.go`) | the databases in memory, with path and time | open again what changed, look addresses up | reads what updates and users write |
| **HTTP layer** (`controller.go`, `http_helpers.go`, `hardened_transport.go`) | none that requests share | routing, header checks | all |
| **Web console** (`web-src`) | client copies of fleet state, polling timers | polling, latency tests, editing | the API |

What is hard about it: every API request, every watchdog backoff and every
process exit is a goroutine of its own; they meet in short critical sections of
`Manager.mu`, in the longer sections of an instance's `lifecycle` mutex, and in
waits that hold neither (a Stop waiting for a start it cancelled, the backoff).
Decisions are taken on state that was read in an earlier section. Processes die
at any moment, contexts end at any moment, and saves, removals and launches may
fail. Updates replace files that processes use, next to a controller and a
machine that may die between two renames. `PROJECT.json` lists these hazards line by line.

What makes each component correct:

* **Manager**: one process per instance; nothing runs while the core binary is
  replaced; what is launched is what was tested; a reload reaches the process it
  was checked against; no port is used twice; the bookkeeping of attempts never
  leaks; a Stop wins against the watchdog; a crash is answered; every request
  returns.
* **Store/Profiles**: an edit happens completely or not at all; content that
  differs from what a process runs is always announced as "pending restart"; a
  refresh never installs content of a URL the profile no longer has.
* **Updates**: at every instant, and after a crash or a power loss at any instant,
  only verified content is at the path or in `.bak`, and a copy that was there
  stays available; an update that reports success is what a search finds.
* **Geodata staging**: a start leaves its instance with the file the search finds.
* **Import**: all or nothing, next to other clients.
* **Config generation**: traffic passes an accepted chain from end to end; what is
  offered is accepted, and what is accepted can be started.
* **GeoIP lookup**: the database in memory is the one the search finds, and an
  answer is what the database says.

## 2. Modules

| Module | What it is |
|---|---|
| `Lifecycle` | the Manager's concurrent protocol, with the DELETE, PUT and reload handlers around it |
| `Supervisor` | the abstract promise `Lifecycle` implements |
| `MCLifecycle` | symmetry for the runs |
| `LifecycleTypes` | proof of the type invariant, and the frame lemmas the other proofs use |
| `LifecycleSteps` | the parts of the invariant and, step by step, that they are kept: attempts, the mutex and the registration of processes, config files, reloads, ports, the watchdog, waits |
| `LifecycleProofs` | the inductive invariant, the safety theorems and the refinement |
| `Profiles` | a shared profile: its edits, refreshes and rollbacks, and the starts and reloads that read it |
| `AtomicEdits` | the abstract promise `Profiles` implements |
| `MCProfiles` | symmetry for the runs |
| `ProfilesProofs` | the inductive invariant, the safety theorems and the refinement |
| `Records` | the Store's records and their files, and the import of a bundle next to other clients |
| `Fleet` | the abstract promise `Records` implements |
| `MCRecords` | bundles and symmetry for the runs |
| `RecordsProofs` | the inductive invariant, the safety theorems and the refinement |
| `Chains` | the global-chain mode: which chains build, where traffic goes, what the form offers |
| `Selections` | `Chains` with an instance whose chain and selections are edited while its profile changes |
| `MCSelections` | the contents, chains and nodes of the run |
| `SelectionsProofs` | what the operators of `Chains` compute, the inductive invariant and the safety theorems |
| `Updates` | the update of one file: the binary, or a geodata file that may lie in several directories |
| `Staging` | `Updates` composed with the starts that link or copy that file |
| `GeoCache` | `Staging` composed with the lookup that keeps a database in memory |
| `UpdatesProofs` | the inductive invariants and the safety theorems of `Updates`, `Staging` and `GeoCache`, and that each implements the one before |
| `MmdbTree` | the tree of a GeoIP database: from the bits of an address to the offset of a record |
| `Mmdb` | the reader of GeoIP databases: their metadata and records |
| `MmdbFiles` | GeoIP databases as they are written, byte by byte, and what they mean: what `Mmdb` is to read |
| `MmdbProofs` | that `MmdbTree` and `Mmdb` read what `MmdbFiles` wrote, in databases of any size |
| `GeoLookup` | `GeoCache` with databases that `Mmdb` reads |
| `MCUpdates`, `MCGeoLookup` | symmetry for the runs; the databases, made by a writer |

`Updates` and `Lifecycle` meet in the core-update gate, which `Lifecycle` has; the
check for running instances before the swap is one of the failures of `Fail` here.
`Lifecycle` and `Profiles` meet in `startContext` and `ReloadContext`: `Lifecycle`
has their protocol and treats the configuration as one step, `Profiles` has the
steps in which they read it and treats the protocol as the per-instance mutex
they hold, any error, and a process that may exit at any time. Each of the two
is an over-approximation of what the other one does. `Records` and `Profiles` meet
in the Store: `Records` has which records there are and their references, ports and
files, with one operation at a time; `Profiles` has the content of one profile and
the steps outside `Store.mu`. `Selections` has the fields that only a chain and a
selection depend on, with an operation of the Store as one step that succeeds.

### `Lifecycle` against the code

*Goroutines.* `Requests` are slots for API requests or batch workers, `Backoffs`
for the goroutines that `scheduleRestart` spawns. `pc[t]` names the critical
section a goroutine is about to run, `g[t]` holds its locals. One action is one
critical section of `Manager.mu` or `Store.mu`, one file or process operation, or
the end of one wait. The exit goroutine of a process needs no slot: what it still
has to do is the state of its process (`dead`, `crashed`/`exited`, `closed`,
`arming`). Slots are used again, so a behaviour has any number of operations;
only the number in flight is bounded.

*Start* (`startContext`): `StartEnter` (early reads), `StartBlocked`,
`StartNothing`, `StartRegister` (the outcomes of the registration section),
`StartLock`, `StartCheck`, `StartRead` (second read, port recheck, probes),
`StartWrite` (runtime file and geodata), `StartTest` (`mihomo -t` and the recheck
of `startCtx`), `StartSpawn` (`cmd.Start`), `StartPublish` (`procs[id] = ps`),
`StartUnlock` and `StartCleanup` (the deferred functions, in the order Go runs
them).

*Stop* (`StopContext`): `StopMark` (`markUserStopped`), `StopResolve`
(`m.state`), `StopFind`/`StopAwait`/`StopSettle` (`cancelAndAwaitStart`),
`StopGate`, `StopLock`, `StopSignal`, `StopWait`, `StopKilled`, `StopUnlock`.
Restart goes on to `start`, DELETE to `delete_remove`.

*DELETE*: `DeleteBegin`, the Stop, `DeleteRemove` (three outcomes of
`store.Delete`), `DeleteDrop` (`dropWatchdog`), `DeleteEnd`. *Reload*:
`ReloadLock` to `ReloadUnlock`. *Core update*: `CoreBegin`, `CoreEnd`. *PUT with a
port*: `EditGuard` asks `Busy`, `EditStore` updates the store later.

*Ports.* A process that was launched listens from `Listen` on, which the environment does
at any time, or never if somebody else listens there. `PortFree` is what a probe finds: a
port on which no live process listens. Between `cmd.Start` and `Listen` nothing holds a
port, as the reservation ends with the attempt. `Listen` is an event of the run
`ports`. In the others nobody ever listens and every probe may succeed: there is one
instance, and a process that listens could only make probes fail, each of which may fail
there anyway, for another program.

*Watchdog*: `MaybeAutoRestart`, `ScheduleRestart`, `Wake`, `CheckEligible`, the
steps of `startContext` under a backoff's identity, `Rearm` after a failure,
`Relaunched` and `WatchHealthy`. A `*watchdogState` that was dropped while a
goroutine holds it is a goroutine that is no longer `attached`. The generation
counter is modelled by the identity of the goroutine armed last: two goroutines
have the same generation exactly when they are the same goroutine.

*History.* `runtimeConfig[i]` says which goroutine wrote the instance's runtime
file last while it still has the mutex; `stopAcked` says whose last Stop returned
nil; `overtaken` the instances whose last start was registered after an edit of
its ports had asked `Busy` and before it was stored, or was missed by the Stop of a DELETE
that removed the record. No action reads them.

*Abstractions.* One port stands for an instance's controller and mixed port; both
are checked, reserved and edited by the same lines. A profile always exists (the
store refuses to delete one in use). Timeouts may fire at any time (15 s for an
attempt, 3 s and 1 s for a process, the backoff, `healthyAfter`). The sections of
`ReloadContext` between its lock and its second look at `procs` are one step,
because what they read is decided upon together. An unsuccessful save in Create
or in an edit is a step that does nothing. Not in this module: Shutdown, the
worker pool of `runBatch` (its workers are requests), `restoreSelection`,
`markReloaded`'s time stamps, `SetError`, the crash evidence in views, logs.

### `Profiles` against the code

*State.* One profile and the instances that use it. `file` is `config.yaml`;
`url`, `setting` and `updatedAt` are records under `Store.mu` (`mutex`);
`setting` stands for all fields of an instance that its runtime configuration
depends on. `job[w]` holds the locals of a request or scheduler run, `reader[i]`
those of the start or reload that holds instance `i`'s lifecycle mutex,
`process[i]` the configuration and the `started` stamp of its process.

*Requests*: `Patch` and `Replace` (the two branches of PUT profile), `Refresh`
(`refreshProfileSubscription`, single flight `refreshing`), `Update` (PUT
instance). They read the records, decide on a method, and reach it later; `Fetch`
and `FetchFails` end a download.

*Edits*: `Lock`, `Write` (the file), `Commit` (records and stamps in memory),
`Save` (`instances.json`) or `SaveFails` with the rollback; `WriteFails` and
`Refuse` return before anything changed. `PatchProfile`,
`ApplySubscriptionFetchForURL`, `ReplaceProfileSubscription` and
`UpdateWithOptions` go through the same steps and differ in `NextURL`, `Outdated`
and `Changes`. `UpdateWithOptions` assigns the record's fields before it writes
the file; nobody can see the difference, as the mutex is held throughout.

*Starts and reloads*: `Stamp`, `ReadRecords` (needs `Store.mu`), `ReadFile` (does
not), then `Publish`, or `Push` and `MarkReloaded`; `Abandon` for every error;
`Exit` of the process. What a view shows is `PendingRestart`.

*History.* `file.from` remembers the URL a content was fetched from. `peeked`
remembers that a reader read a text while an edit could still be undone, and
whether it was. No guard reads either of them.

*Abstractions.* The clock counts the stamps of edits. This assumes that the stamp
of an edit is later than every stamp taken before it, as `decorateStatus` does
when it compares with `After`; a wall clock that is set back, or two stamps in one
tick of a coarse clock, is outside the model. Names, intervals, `LastUpdateError`
and subscription metadata are left out, as no decision about content reads them;
so are the saves that only store those (`SetProfileUpdateError`, `SetError`,
`SetSelection`, see `Records`), the selection reconciliation of a refresh (see
`Selections`), the second, best-effort `PatchProfile` after a URL change, the
creation and removal of profiles and edits that move an instance to another profile
(see `Records`; the latter is refused while the instance runs, by the same unlocked
check as port edits in `Lifecycle`).
`rollbackConfigFile` succeeds: a second failure in the same edit is not modelled,
nor is a crash of the controller between the file and `instances.json`. A refresh
reads the URL and takes the single-flight flag in one step; the URL it reads is
compared again under the lock. A request that is refused under the lock for a
reason of validation changes nothing and is not a step.

### `Records` against the code

*State.* `instances` and `profiles` are the Store's maps, `saved` is
`instances.json`, `dirs` and `configs` are the files that records need. `op` holds
the locals of the operation that has `Store.mu`; `before` is what it restores when it
fails. `import` holds those of `createBundle`: what it created, in order, and whether
it is creating or undoing. An instance is its profile, its two ports and whether it
has a saved selection.

*Operations*: `CreateProfile`, `CreateInstance` (with a profile of its own, or one
that exists), `Clone`, `Change` (PUT with ports or a profile), `SetSelection`,
`Delete`, `DeleteProfile`, `Note` (`SetError`, `SetProfileUpdateError`). They begin with the checks, then go through their files:
`WriteConfig`, `MakeDir`, `Save`, `RemoveFiles`, each of which may fail
(`WriteConfigFails`, ...), with the clean-up that the code does there and whose own
failure it ignores (`Cleaned`). `SetSelection` and `Note` are those that do not undo: what
they changed stays in memory until something else is saved (the source says so of
`SetError`, and logs the failure of both messages). Of a message only that it is to be saved
is modelled.
`Restart` is the death of the controller at any point, and `load`.

*Import*: `ImportBegin` (`validateBundle`), `ImportProfile`, `ImportPatch` (for a
subscription), `ImportInstance` (with its second try on taken ports, which is another
choice of ports), `ImportRefused`, `ImportDone`; `rollbackImport` is `UndoInstance` and
`UndoNothing`, then `UndoProfile` and `UndoRefused`, each from the last to the first.
Clients act between any two of them.

*History.* `mine` is what the import created and nobody deleted, `reported` what its
rollback could not remove and says so, `unsaved` the records with a selection or a message
that was refused and is in memory. No guard reads them.

*Abstractions.* `uniqueSlug` is any unused id. Which ports other programs hold is not
known, so `allocatePort` is any free one; a port that is asked for is another. A bundle is
the number of its profiles and, for each instance, which of them it uses. The migration
of records without profiles and a corrupt `instances.json` are not modelled: the file is
replaced as a whole (`writeFileAtomic`), so the controller never finds a torn one.

### `Chains` and `Selections` against the code

`Chains` is what `config.go` computes, as operators: `Chain` (the default chain),
`Plans` (`buildGlobalChainPlan` succeeds), `Builds` (`applyGlobalChainConfig`
succeeds), `Dialer` (the dialer-proxy of every node in the generated document),
`Groups` (`parseProfileProxyGroupsBase`), `Candidates` (`chainCandidates`: the lists it may
answer with, cut at `Most` = `chainCandidatesMax`; which of the profile's nodes are left out
depends on their order, which is data). `Route` is mihomo: from the MATCH target each node
dials through its dialer-proxy. A node of a provider may bring one too (`brings`: its own or
its provider's `override`); the generator replaces it only where the chain has a member
before the select group (`config.go:340`).

`Selections` has one instance's record (`item`), the content of its profile (`doc`) and
its process. `Put` is `UpdateWithOptions`, with the content that the same request may
give the profile, or with another profile; `Refresh` is a fetched subscription with
`reconcileInstanceSelection`; `Patch` every other edit of the content. The selection
handler is `SelectBegin`, which checks, and `SelectSave`, which saves what was checked
earlier. `Launch` is `writeRuntimeConfig`.

*History.* `checked` is the content that the chain in the record was checked against,
`loose` whether something since the last refresh went past the checks of selections,
`request.fresh` whether the check of a selection still holds. No guard reads them.

*Abstractions.* A request sets one of mode, local nodes and chain: several at once are
reached one after the other in rule mode, where nothing is checked. The Store's
operations succeed (their failures are `Records`'s and `Profiles`'s). What mihomo
answers to a selection is open. Groups of provider nodes have no member that the
controller knows, and nodes of providers are one node, `Remote`, which may be any of them.

Two behaviours that no property excludes, as the code's comments accept them: a
refresh drops the selection of a node that only a provider knows, since the
reconciliation sees the static members of a group; and a chain that begins with the
select group leaves to a selected node, of a provider too, the dialer-proxy it brings itself, so that
traffic may leave the chain or loop (`ChainIsWalked` names this exception).

### `Updates` against the code

*State.* `disk[p]` is what directory `p` holds: the file at its path (`target`) and
the one it replaced (`bak`). `persisted[p]` is the set of states of the directory
that a power loss may leave: the state when it was last synced and all since. `job`
holds the locals of the update under way (`at` is the next system call); the two
`TryLock`s of the handlers make it one update at a time for each kind of file.
`found` is `Controller.mihomoFound`, set at startup only. A file is the release it
was downloaded of, whether its content is complete and unaltered (`whole`), and
whether it was synced (`flushed`).

*One module, two files.* Where `archived` is true it is the binary: an archive that
is unpacked, one path, a `found` that guards the update. Where it is false it is a
geodata file: no archive, several directories, a present file that may make the
update unnecessary, and the fall-back. `Init` chooses, and no action changes it.

*Actions.* `Begin` (release, checksum, `resolveLocalGeoFile`, comparison with the
present file), `Download` (`downloadToFile`), `Verify` (`verifyChecksum`), `Unpack`
(`decompressGzipToFile`, `extractZipExecutableToFile`), `Fail` (any error before a
file was moved), then `atomicSwap` call by call: `Flush`, `Clear` (removal of
`.bak`, `Lstat`), `Aside` (first rename), `Install` or `InstallFails` (second
rename), `Rollback` (which may fail), `SyncDir` (which may be impossible).
`Failed` says where an error leads: the end, or for geodata the first directory.
`Crash`, `PowerLoss`, `Restart` (`resolveMihomoPath`). `Restore` is the user, who
moves `.bak` back as the error message tells; `Writeback` is the operating system.

*Abstractions.* A rename is one change of a directory and survives a power loss as
a whole or not at all; changes are not reordered; the content of a file that was
not synced may be lost although its name survives. Temporary files that a crash
leaves behind have names that nothing looks up. An upstream that publishes the
release of the checksum while the download is already of the next one is a
`Download` of another release. Not modelled: checksum file formats, asset names,
progress events, the version shown after an update.

### `Staging` against the code

It adds to `Updates` the files in the instances' directories (`staged`) and the
starts (`start`): `Find` (`findGeodataSource`), `Accept` and `Discard`
(`existingGeodataTargetOK`), `Link` (`linkOrCopyGeodata`: what the system can do is
`Kinds`), `Refuse` (any error). An update, or the user, may change the directories
between any two of them. A symbolic link names a path; a hard link is the file it
was made for, which a rename at that path does not change; a copy is not synced.
`Alike` compares size and time, which stand for the release and not for the
content: two releases differ in size or time.

*History.* `start[i].undisturbed` says that neither an update nor the user nor a
crash changed the directories since this start began; no guard reads it.

*Abstractions.* One geodata file with one of its names. An instance's own file is
used when no directory has one; `Find` then leaves it alone. The lifecycle mutex
makes it one start of an instance at a time.

### `GeoCache`, `MmdbTree`, `Mmdb`, `MmdbFiles` and `GeoLookup` against the code

`GeoCache` adds to `Staging` the database that a lookup keeps (`geo`). `Look` is the first part of
`openStagedDatabase`: the interval is over, the file is found and its time is taken.
`Open` and `OpenFails` are `openGeoDB`, later: the file may be another one by then.
Times are not numbers here: `seen` says where the file is that has the remembered time
(at the path, in `.bak`, nowhere any more), as a rename keeps it. That no two files
have the same time is an assumption; a user who drops in a file is `Restore` of
`Staging` or an update. The ASN database goes the same way.

`MmdbTree` and `Mmdb` are the reader, byte by byte: the tree with its three record
sizes and the start of the IPv4 tree; headers with their extended types and sizes,
pointers with their bias and the limit of hops, `skipValue` with the limit of depth,
maps, the metadata, and what is made of a record (`normalizeCountryCode`,
`sanitizeASNOrg`). It is evaluated, not executed in steps: it has no state, and its
loops are recursive functions.

What it is to read is said without it. `Represents` says what the format asks of a tree:
that the two records of every node, as `Packed` writes them, lead to the node of a longer
prefix, to the record of a network, or to the number that means nothing. `MmdbFiles` says
what it asks of a section: a layout (`values`) has a record for every offset at which a
value begins, with its type and size, the offsets of what is in it and the one behind it,
its level and, for a pointer, where it leads and in how many hops; `Written` asks that the
bytes at the offset are those of its header (`Control`, `PointerTo`), that its content
follows, and that it keeps to the limits of the reader. Types, sizes of any number of bytes,
pointers of any width, pointers to pointers and keys that are pointers are all there, and
no value need be reachable from another. `TextAt`, `NumberAt` and `MemberAt` are what a
layout means, without a walk: the member of a map is the one with the key, wherever it is.
`AnswersAreRight` (`GeoLookup`) compares the reader with all this: `RecordsAreFound` for the
tree, `NodesAreRead` for the bytes of its nodes, and `CountryOf` and `AsnOf` of every
database with what the records say. In the run a writer (`MCGeoLookup`) makes the
databases of networks, and what they say comes from the networks; `DatabasesAssumption`
is where TLC evaluates that its files are `Written` and that their layouts mean just that.

*Abstractions.* The keys of maps are one byte, so that sections stay small; a file comes split
at its last metadata marker, and the limit to its size is left out; the organisation's name is
in ASCII, where `sanitizeASNOrg` works byte by byte. Widths are the code's: a number of nodes
and an autonomous system's number are checked against 32 bits as in the code (`Is32`), and
nothing else it computes can leave the 64 bits it has for it.

*History.* `geo.undisturbed` says that no file was moved since the last look began.

## 3. Runs

| Run | Instance | Checks | Bounds |
|---|---|---|---|
| `reload` | start, delete, create again, reload, contexts that end | `TypeOK`, `OneProcess`, `WaitsEnd` | 1 instance, 2 requests, 2 processes |
| `watchdog` | start, stop, reload, crashes, relaunches, two backoffs, core update | `LaunchedConfigTested`, `ReloadReachesItsProcess`, `BackoffIsCancellable`, `WatchdogYieldsToStop`, `CoreGate`, `CrashIsFollowed`, refinement of `Supervisor` | 1 instance, 1 request, 2 backoffs, 2 processes, `MaxRestarts = 1` |
| `ports` | create, start, port edits, processes that listen late | `PortsExclusive`, `AttemptsAccounted` | 2 instances, 2 requests, 2 processes, 2 ports |
| `crash` | fair: start, restart, stop, delete, reload, crash, AutoRestart edits | `CrashIsAnswered`, `RequestsReturn` | 1 instance, 1 request, 1 backoff, 1 process, `MaxRestarts = 2` |
| `stop` | start, stop | `StopSticks`, violated | 1 instance, 2 requests |
| `profiles` | overlapping edits, refreshes and URL changes against starts and reloads | `TypeOK`, `DriftIsShown`, `FetchesKeepContentAndURL`, refinement of `AtomicEdits` | 2 instances (one runs), 2 writers, 2 contents and URLs, 2 stamps |
| `url` | the same, smaller | `ContentFollowsURL`, violated | 1 instance, 2 writers, 2 stamps |
| `records` | creations, clones, moves, selections, error messages, deletions, imports; failures and restarts | `TypeOK`, `References`, `PortsDiffer`, `MemoryIsSaved`, `ExportIsWhole`, `FailedImportUndone`, `BlockedByOthersOnly`, refinement of `Fleet` | 2 instances, 2 profiles, 4 ports, 2 bundles, `MaxUnsaved = 1` |
| `import` | the same | `RollbackTakesItsOwn`, violated | as `records`, without `MaxUnsaved` |
| `chains` | edits of mode, local nodes and chain, selections, refreshes, starts | `TypeOK`, `ChainIsWalked`, `AcceptedChainBuilds`, `OfferedIsAccepted`, `ActiveIsSelected`, `RefreshedSelectionsExist` | 5 contents, 4 lists of local nodes, 7 chains, 2 groups, 2 nodes, `Most = 2` |
| `updates` | updates with fall-back, failures, crashes, power losses, restores, starts and lookups | `TypeOK`, `InstalledIsWhole`, `LastCopyKept`, `StagedIsWhole`, `StartsUseTheFoundFile`, `UpdatedIsFound`, `LooksFindTheFile`, `AnswersAreRight` | 2 directories, 2 releases, 1 instance, `Settles` for geodata; 24 databases |
| `lost` | updates of the binary or of geodata | `NothingLost`, violated | 1 directory, 2 releases |

The first five are runs of `MCLifecycle`, the next two of `MCProfiles`, two of
`MCRecords`, one of `MCSelections`, one of `MCGeoLookup` and one of `MCUpdates`.

Two requests are enough for the pairwise races the code's comments describe; two
process slots let an instance crash and be launched again while goroutines still
hold the old `*processState`; two backoffs let a stale one meet its successor;
the two ports of `ports` are one that an edit frees, which an instance that is created then
gets, and one that it takes.
One request is enough for `watchdog`: its reloads meet the relaunches of the two
backoffs, and a Restart between the steps of a reload would need the lifecycle lock
that a relaunch needs too. The safety properties of `reload`, `watchdog` and `ports`
are also proved for all sizes (below), which is what makes one instance enough for
`CoreGate`. `crash` has one request next to the watchdog's
goroutine: the chains of waits it looks for (a Stop for a start, a goroutine for
the mutex, a Stop for a process) join two goroutines each; with a second request
the liveness check of the crash behaviours does not end in reasonable time.
`Operations` and `Events` select what the environment asks for in a run; together
the passing runs take every action.

In `MCProfiles`, `MaxClock` bounds the edits of a behaviour and `Active` the
instances that are started. Two edits are enough for one before a start's stamp or
between the stamp and the read, and one after it. The instance that does not run is
there for its stamps: a rollback that forgets it is the mutant of `EditsAreAtomic`.
Two writers are what a decision on an old URL needs. There is one value of the
settings in `profiles`: that they are read and rolled back like the content is left to
the proofs, which cover all properties of this run for all sizes.

In `MCRecords` nothing is bounded but the ids, and, in `records`, the number of records that
keep what a save refused at the same time (`MaxUnsaved`: two would be independent of each
other): clients, imports, failures and restarts follow each other without end. Two instances need four ports, one of which a mutant may
give twice; of the bundles one has two instances on a profile, so that an import can
fail between them, and one refers to a profile it does not have. All properties of this run are
proved for all sizes.

The contents of `MCSelections` are chosen for the cases of the code: nodes with and
without a dialer-proxy of their own, one that leads to a local node, groups, a
profile without groups, one whose nodes come from a provider only, one whose provider's
nodes bring a dialer-proxy, one with a node named like a local one, and a group named like the select group. The chains have
the select group first, last, in the middle and not at all, a member twice, and the
reserved name. With `Most = 2` there is room for all nodes of a content, for one of two, and
for none next to the local nodes. All properties of this run are proved for all contents and chains.

In `MCGeoLookup` nothing is bounded but the releases: any number of updates, crashes
and power losses follow each other, as `persisted` is the only history and has
finitely many values. Two releases are an old and a new one; a third could only
repeat one of their parts. Two directories are what the fall-back needs. `Settles`
concerns geodata only: an update of it begins when the operating system has written the
directories back, so that a power loss uncovers states of one update and not of
several at once; those of the binary, which has one directory, do without. A behaviour
has starts or it has lookups: both only watch the directories, and neither reads what the
other writes. The databases
have every record size, both versions, networks at every depth, addresses that no
network holds, and records that are written in every way the format has: pointers as
keys and as values, as many hops as the reader follows, padding that makes pointers of two
bytes necessary, pointers of four, long strings, names that are cleaned and cut, and values
that have to be skipped, one of them as deep as the reader goes. Addresses have 2 bits, or 4.
Out of TLC's reach are pointers of 3 bytes, whose targets are beyond 526335 bytes, sizes of 3
bytes and numbers beyond 2^31: the proofs cover them.

Symmetry is used in the safety runs only.

*Deadlock* is checked in every run: a state without a successor would be a stuck
system, as new requests (in `Profiles`: starts and exits; in `Updates` and `Records`:
crashes and restarts) can always arrive.

### Fairness

`FairSpec` adds weak fairness for every goroutine's steps, which is the Go
scheduler, and strong fairness for taking the lifecycle mutex: `sync.Mutex` hands
the lock to a waiter that starves for a millisecond. Nothing is assumed of
clients, of crashes or of AutoRestart edits. The waits of a Stop need no
assumption on processes: they end by their timeouts, which is what
`StopWaitForever`, the mutant of `RequestsReturn`, removes.

### Findings

*`StopSticks`* (run `stop`). `StopContext` asks `m.procs` and then `m.starts`
under two acquisitions of `Manager.mu`. TLC's trace: a Start has spawned mihomo
and has not published it; a Stop marks the instance and finds no process; the
Start publishes, releases the mutex and removes its attempt; the Stop finds no
attempt, takes the mutex, finds `ps == nil` and returns nil. The process lives on.
The comment at `manager.go:820` promises that Stop waits for such a start to
settle before deciding. A DELETE that gets this answer removes the record of a
running instance. Reading both maps in one section closes the window.

*Two processes on one port* (run `ports`, which passes). `PortsExclusive` has one exception
that the code's comments do not know of, `overtaken`. The PUT handler asks `Busy`, and the
store changes the port later. Without the exception TLC finds this trace: an edit of the
ports of `i1` finds it idle; a start of `i1` reserves the old port, launches mihomo and
returns, which ends the reservation; the edit is stored, so that no record has the old port
any more, while mihomo does not listen on it yet; `i2` is created with this port and started
on it. Two live processes have one port, and the one that comes second cannot bind it: what
mihomo then does is its own matter, and the controller, which does not wait for a child's
bind, shows both as running. The comment at `manager.go:566` counts on the reservation for
starts, and for running instances on the uniqueness of the stored ports and the result of
bind; `README.md:206` of the repository says that each instance has its fixed port. With
the exception, for such a start or one that a DELETE's Stop missed (`StopSticks`), the
property is proved: no other way leads two live processes to one port, listening or not.

*`RollbackTakesItsOwn`* (run `import`). `rollbackImport` deletes by id, and the id of
a deleted record is free again. TLC's trace: an import creates a profile; a client
deletes it; the import's next step, the patch of that profile, is refused, and the
import begins to roll back; a client creates another profile, which gets the same id;
the rollback deletes the client's profile with its file. `importMu` keeps imports apart, not
other clients. The comment at `export.go:92` says that a failure rolls back what
"this call itself created". What does hold is `FailedImportUndone`: of what it created, nothing stays unreported.

*A profile that the rollback finds in use* (run `records`, which passes). The comment at
`export.go:349` says that once every created instance is gone, every created profile "is
guaranteed unreferenced". It is not: an import creates a profile, a client creates an
instance on it, the import's next operation is refused, and the rollback finds its profile
in use. `DeleteProfile` refuses it and the answer says so, so nothing is lost; but only
imports wait for each other. `BlockedByOthersOnly` says what does hold: only the
instance of another client, or one whose deletion failed and was reported, keeps a profile
from being removed. Without the first of the two TLC finds the trace above.

*`ContentFollowsURL`* (run `url`). The PUT handler reads the profile, decides on
this reading, and calls `PatchProfile`, which does not look again. A PUT that
repeats the present URL is overtaken by one that changes it; the first then puts
the old URL back over the content of the new one, or, on a profile that had no
URL, a config of its own under the new URL. The comments at `store.go:565` and
`profile_handler.go:208` name this state as what `ReplaceProfileSubscription` is to
prevent. `FetchesKeepContentAndURL` is what does hold: no refresh and no URL change
leads there by itself, only such an edit.

*Comments of `ReloadContext`* (run `watchdog`, which passes). `manager.go:1502-1506` says
that a crash can let "a watchdog relaunch replace" the process of a reload "at any moment,
lock or no lock", `1513-1517` that "a watchdog relaunch's own writeRuntimeConfig can
interleave" with that of the reload, and `1562-1565` (`markReloaded`) that a fresh Start may
replace the process in the middle of a reload. The code is stricter: a relaunch goes through
`startContext`, which takes the lifecycle lock (`manager.go:623`) before it writes, tests and
launches, and a reload holds that lock from before its first look at `procs` to its return.
The run has crashes, relaunches, starts, stops and reloads of one instance in every order:
`LaunchedConfigTested` and `ReloadReachesItsProcess` hold, and are proved. What the comments
describe is what the mutants `StartLockless` and `ReloadLockless`, which do not take the lock,
lead to. A crash alone can of course clear `procs` in the middle of a reload, which then
reaches nobody.

*Silent drift* (no run of its own). `DriftIsShown` has one exception, `peeked`: an edit
writes `config.yaml` before it saves `instances.json`, and `writeRuntimeConfig` reads
the file without `Store.mu`. A start that takes its stamp, reads the file an edit has
just written, and launches after that edit's save failed and its rollback put file and
stamps back, runs a configuration that is stored nowhere, and no view says so. The
comment at `manager.go:643` says that stamping first can only err towards a redundant
hint. Without the exception TLC finds this trace; with it the property is proved, so
this is the only way to a silent drift.

*`NothingLost`* (run `lost`). `atomicSwap` removes `.bak` before it looks for the
target. TLC's trace: the target was moved to `.bak`, the installation and its
rollback failed, and another update begins (the binary's under the same controller,
whose `mihomoFound` was set at startup). It finds no target and has removed `.bak`
before it installs. If its own rename fails too, or the controller dies there,
nothing is left. A geodata file needs no double failure: a crash between the two
renames leads to the same state, and any update may follow. The comment at
`download_swap.go:472` says that after a failed rollback nothing is lost.
`LastCopyKept` is what does hold: this removal is the
only step that can take the last copy.

## 4. Proofs

`tlapm` proves the following about `Lifecycle`, for every value of the constants
that satisfies `OperationsAssumption`, `NoneAssumption` and `MaxRestartsAssumption` (`nil` is no
id, goroutine, process or port; a request is no backoff; `MaxRestarts` is a
number). No set is assumed finite.

| Theorem | Establishes |
|---|---|
| `TypesHold`, `TypeCorrect` | `Spec => []TypeInv`, hence `[]TypeOK` |
| `InvariantHolds` | `Spec => []IInv` |
| `AtMostOneProcess` | `OneProcess` |
| `CoreUpdatesAlone` | `CoreGate` |
| `LaunchesWhatItTested` | `LaunchedConfigTested` |
| `ReloadsWhatItChecked` | `ReloadReachesItsProcess` |
| `NoPortTwice` | `PortsExclusive` |
| `AttemptsTrue` | `AttemptsAccounted` |
| `StopIsObeyed` | `WatchdogYieldsToStop` |
| `BackoffsCancellable` | `BackoffIsCancellable` |
| `NobodyWaitsInVain` | `WaitsEnd` |
| `CrashesFollowed` | `CrashIsFollowed` |
| `Implements` | `Spec => Promise!Spec`, the refinement |

The argument. Of the properties only `BackoffIsCancellable` is inductive, next to
`TypeInv`; the others need more. `IInv` is the conjunction of
`TypeInv` (types, and that a goroutine at a given step has the locals this step
reads), `AttemptsAccounted` (attempts, `starting`, `starts` and `reservedPorts`
agree), `MutexHeld` (a goroutine inside a protected section owns its instance's
mutex, and a mutex that is taken has such an owner), `Registered` (a process that exists is in `procs`, or its start is about
to put it there), `NothingRegistered` (while a start that has not launched is in
flight, its instance has no process), `Written` (a start that tested or is
about to launch wrote the runtime file last), `Reloaded` (the process a reload
captured is the only one its instance can have) and `WatchdogYieldsToStop`, which is
inductive with these. `OneProcess` follows from `Registered`: two processes of an
instance would both be `procs[i]` or both be the pending launch of the one attempt
that `starts[i]` allows. Each `*Kept` lemma says that a conjunct only depends on a
few variables, so a step that leaves those alone preserves it; the step lemmas
then have one case per action. `BackoffIsCancellable` says in both directions which
sleeping goroutine `cancelPending` names, and that is why it needs nothing else: a step
that cancels an instance's handle (a manual start, a Stop's mark, a DELETE's drop)
cancels with it the only goroutine that was sleeping for that entry (`CancelKeeps`), a
step that arms one makes every other a stale one (`ArmKeeps`), and one that wakes up and
finds itself current knows that the handle was its own (`WakeKeeps`). The refinement needs `IInv` for two facts: a launch
finds its instance without a process and no core update under way, and
`CoreBegin`'s test of `procs` and `starting` finds every process.

`NoPortTwice` has an induction of its own, on top of `IInv`. `PortsInv` says that stored ports
differ (`StoredApart`), that an edit which is past `Busy` has overtaken every start its
instance has had since (`EditsOvertake`), and that, unless it was overtaken, an instance in
preparation has read the port that is stored (`PreparedOnRecord`) and a live process runs on
it (`RunningOnRecord`). Nothing in it depends on a probe or on who listens: that two processes
have different ports comes from their records and not from the operating system, so it holds
in the time between the launch and the bind as well. With at most one process to an instance
(`OneUnreaped`), `PortsExclusive` follows.

`WaitsEnd` is the safety side of `RequestsReturn`: a mutex that is taken is in use, an
attempt that a Stop waits for is in flight, of the same instance and cancelled, and a
process that a Stop waits for was asked to end. Its first part belongs to `MutexHeld`; the
others are inductive next to `IInv`. A Stop finds the attempt it cancels by
`AttemptsAccounted`, the end of the attempt wakes all who wait for it, and a process slot
is not used again while a Stop points to it.

`CrashIsFollowed` is the safety side of `CrashIsAnswered`: no step drops a crash between
the goroutines that hand it on (exit goroutine, backoff, relaunch, next backoff). It is a
property of steps, so its proof has no invariant of its own: one case per action says who
has the crash in hand afterwards (`RelaunchesStill`, `ArmFollows`) or why it is answered.
`BackoffIsCancellable` is what keeps the other instances out: a cancel reaches no sleeper
but the one of its own instance (`CancelsItsOwn`). `AttemptsAccounted` gives a relaunch
that finds its instance starting an attempt that is in flight. The property has three
exceptions, and TLC finds it violated without any one of them: a manual start whose ports
are taken and a DELETE's drop of the entry end the recovery (`GivesUp`); and a relaunch
that finds a start in flight leaves the instance to it (`starts'[i] # None`). This start may
have launched the very process whose crash the relaunch answers, and have yet to remove its
attempt: then nobody is left with the crash. The code meets this only if a backoff (one
second at least) is over before a start has returned through its deferred functions;
`crash`, whose only backoff goroutine is also the one that relaunches, leaves it out.

About `Profiles`, from `ActiveAssumption` (the started instances are instances),
`ClockAssumption` (the bound is a number) and `AbsentAssumption` (`None` and `Keep`
are no contents, URLs, settings, writers or instances), `ProfilesProofs` proves:

| Theorem | Establishes |
|---|---|
| `InvariantHolds` | `Spec => []IInv` |
| `TypeCorrect` | `TypeOK` |
| `DriftShown` | `DriftIsShown` |
| `FetchesStayTogether` | `FetchesKeepContentAndURL` |
| `Atomic` | `EditsAreAtomic`, the refinement of `AtomicEdits` |

The argument. `IInv` is `TypeInv /\ EditInv /\ SeenInv`. `EditInv` says what the
edit that holds the mutex has done so far relative to its snapshot (`Undoable`): it
makes `SaveFails` a step that restores exactly what was visible, so that the
visible Store changes in `Save` only (`VisibleKept`, `VisibleSaved`); the
refinement and `FetchesKeepContentAndURL` follow from what `Undoable` says before
a `Save`. `SeenInv` says of every reader, at each of its steps, and of every
process, that what it has read is what is visible or its stamp is earlier than the
instance's `ConfigUpdatedAt`. It is kept by an edit's `Save` because the edit's
stamp was taken later than every reader's (`Saving`), and by `MarkReloaded`
because a reload that reached its process holds what the process runs.

About `Records`, from `IdsAssumption` (no id is both an instance's and a profile's),
`BundlesAssumption` (what a bundle is) and `NoneAssumption` (`None` is no id, port,
record or operation), `RecordsProofs` proves:

| Theorem | Establishes |
|---|---|
| `InvariantHolds`, `TypeCorrect` | `Spec => []IInv`, `[]TypeOK` |
| `NothingDangles` | `References` |
| `NoPortTwice` | `PortsDiffer` |
| `MemorySaved` | `MemoryIsSaved` |
| `ExportsWhole` | `ExportIsWhole` |
| `ImportsUndone` | `FailedImportUndone` |
| `OthersOnly` | `BlockedByOthersOnly` |
| `ImplementsFleet` | `RecordsAreAtomic`, the refinement of `Fleet` |

The argument. `IInv` is `RecInv /\ ImpInv`. `RecInv` says of the operation that holds
the mutex what it found and what it has done so far (`OpOK`), and that what is visible
from outside is what `instances.json` says, up to refused selections and messages
(`Matches(Visible)`): so a failed save that restores `before` changes nothing visible,
a restart loses nothing visible, and the only step of `Fleet` is `Save`
(`FleetSave`). `References` is inductive with it because a file is made before the
record that names it is saved, and removed after. `ImpInv` says that what the import
created and nobody deleted is in its lists or about to be removed (`Listed`,
`Awaited`), which makes `FailedImportUndone` true when the lists are empty.

About `Selections`, from `NoneAssumption` (`None` is no content, group or node),
`ListsAssumption` (chains and lists of local nodes are sequences, and may be empty) and
`NodesAssumption` (the node that stands for those of providers is neither the select group
nor a node of a content or of a local list, and a content's nodes have names), with
`MostAssumption` (the limit of candidates is a number) assumed for the run,
`SelectionsProofs` proves:

| Theorem | Establishes |
|---|---|
| `InvariantHolds`, `TypeCorrect` | `Spec => []IInv`, `[]TypeOK` |
| `ActiveAmongSelected` | `ActiveIsSelected` |
| `RefreshDropsTheMissing` | `RefreshedSelectionsExist` |
| `OffersWhatIsAccepted` | `OfferedIsAccepted` |
| `AcceptedCanStart` | `AcceptedChainBuilds` |
| `TrafficPassesTheChain` | `ChainIsWalked` |

The argument. What the state adds is small: `IInv` says that the record passes the
checks of the content `checked` it was last checked against (`Accepts`), that the active
group is a selected one, and what a refresh left of the selections as long as nothing
went past it. The rest is about `Chains`, for every content and every chain of any
length: a chain that passes the checks has a plan that the generator accepts, member by
member, and the way of traffic through the generated dialers visits the members of the
chain in their order (`WayAlong`, `WayThrough`). Where the code walks a list, the proofs
go along it by the least position at which the claim would fail (`OneByOne`), since
induction theorems are out of reach; recursive functions are unfolded once, from the
equation that defines them.

About `Updates`, `Staging` and `GeoCache`, from `PlacesAssumption` (there is a directory),
`SettlesAssumption`, `NoneAssumption`, `KindsAssumption` and `StagedAssumption` (a
system can do one of three things; `None` is no file, release or link):

| Theorem | Establishes |
|---|---|
| `InvariantHolds`, `TypeCorrect` | `Spec => []IInv`, `[]TypeOK` |
| `OnlyWholeFiles` | `InstalledIsWhole` |
| `KeepsTheLastCopy` | `LastCopyKept` |
| `UpdatesAreFound` | `UpdatedIsFound` |
| `StartsOnlyRead` | `StagingSpec => Spec` |
| `ReadsWhole` | `StagedIsWhole` |
| `UsesTheFoundFile` | `StartsUseTheFoundFile` |
| `LooksOnlyRead` | `GeoSpec => StagingSpec` |
| `GeoInvariant` | `GeoSpec => [](IInv /\ Gap /\ GeoInv)` |
| `LooksAreRight` | `LooksFindTheFile` |

The argument. `DiskInv` extends the claim from what is on disk to everything a
power loss may uncover: every state in `persisted` is made of files that are whole
and synced. It is inductive with `JobInv`, which says what an update has achieved at
each step; its key is that the file is verified before `flush` and synced before the
first rename. `LastCopyKept` then follows step by step, as every other change of a
directory leaves a file there. `UpdatedIsFound` needs that no earlier directory than
the update's own has the file while it runs (`WayClear`), for which the first
directory of a non-empty set is found by well-foundedness. `Staging` inherits all of
it by `StartsOnlyRead`; `Fresh` says what a start knows at each of its steps as long
as nothing disturbs it. `GeoCache` inherits that again by `LooksOnlyRead`. `LooksFindTheFile`
needs that a file is never overwritten in place: `Gap` says that an update installs where
it has made room, so a directory changes only in the ways that `Moves` lists, and in each
of them the file whose time was remembered is where `Moved` says (`Followed`);
`Looked` is what a look knows as long as no file was moved since it began.

About `MmdbTree`, `Mmdb` and `GeoLookup`, from `BitsAssumption` (an address of IPv6 is longer,
and `Mapped` are the bits that it has more), `NodesAssumption` (the records of a node fit in their
size), `TreesAssumption` (every file of `Trees` can be opened and its tree `Represents` its
networks) and `DatabasesAssumption` (the sections of every database are `Written`, its metadata
have the numbers of its tree, networks lead to values that were written, and `says` is what these
mean), `MmdbProofs` proves:

| Theorem | Establishes |
|---|---|
| `FindsRecords` | `RecordsAreFound` |
| `ReadsNodes` | `NodesAreRead` |
| `ReadsDatabases` | `ReadRight` |
| `AnswersRight` | `AnswersAreRight` |

TLC evaluates the assumptions for the 24 databases of the run, so something satisfies them. They
do not lean on the reader: of its operators they have `Opened`, which names the database that a
file is (its parts, and where the IPv4 tree starts), and what bytes and fields stand for
(`Bytes`, `Has`, `Value`, `Inside`, `Normalized`, `AsnRecord`), but none of its headers,
pointers, walks or searches.

The argument, for the tree. `Place` says where the bits of every prefix are to lead: the record of
the network that holds them, an inner node, or nothing. One step of `traverse` goes from the
place of a prefix to that of the next one (`NextPlace`), also when the walk has already
arrived, as at most one network holds a prefix (`OneHolder`) and nothing lies below what
no network begins with. So the places along an address are the values of `traverse`
(`Walked`, `WalkEnds`), from the root or from the start of the IPv4 tree, which is the
place of the zeros (`Opening`). Nodes may be shared: the numbering need not be injective,
so databases that lead `::ffff:0:0/96` to the IPv4 tree are covered.

For the bytes. A number has at most four bytes wherever it is written, so that `Value` is
unfolded step by step (`ShortValues`) and the digits of a number add up to it again
(`DigitsValue`, `HighAndDigits`); bytes of several parts are read part by part (`Cut`). With
that a node's records (`Unpacked`) and every header (`ControlRead`, `PointerRead`, `HeaderRead`)
are read as they were written.

For the values. A chain of pointers ends where the layout says, as one hop less is left after
each (`ResolveRead`). What is behind a value is found by the levels: with so many levels
left, `skipValue` gets past every value of no more levels (`SkipRead`), one after the other in a
map or an array (`InsideEnds`). So `lookupKey` is at a key after each member, whether the
key is a text or points to one (`KeyRead`), and stops at the only one with the right text
(`SearchRead`, `LookupRead`). Texts, numbers, country codes and the metadata follow
(`TextRead`, `UintRead`, `CodeRead`, `ParseRead`). Recursive functions are either unfolded from
the equation that defines them, once it is known that something satisfies it (`ResolveSteps`,
`SkipSteps`), or recognised in the values that the layout says they have; `UpTo`, from the
well-foundedness of the numbers, takes the place of induction.

`AnswersRight` adds nothing of the state: whichever file the controller holds, the reader is right
about all of them. That the file is the right one is `LooksFindTheFile`.

Not proved, only model-checked: `CrashIsAnswered` and `RequestsReturn`, which are
liveness under fairness. Every other property of a passing run is stated by a theorem.

## 5. Not modelled

* `Shutdown` (and `main.go`'s signal handler): it scans `starts`, then `procs`, and a
  start that registers between may survive the controller. It would add a goroutine to
  `Lifecycle` that acts on all instances, and with it a case to every proof there.
* Overlapping DELETEs of one instance (`Manager.deleting` is a set and not a count).
* `restoreSelection`, which tells mihomo after a start what the record said before it:
  what mihomo has selected is state of the child process that the controller only
  shows.
* The scheduler of refreshes: which profiles are due is a matter of the wall clock; the
  refreshes it makes are those of `Profiles`.
* The migration of old records and the recovery from a corrupt `instances.json`; the
  proxy-group cache, whose entries are compared with the file's time and size.
* The four geodata files as one request, the status queries, asset names and checksum
  file formats.
* The document transformations of `config.go` other than the chain (ports and
  listeners that a profile may not set, override lists, bind fields), the HTTP
  layer with its header checks, logs, the command line, and the web console. They keep no state that
  requests share, or map one document to another; unit tests reach them.
