# Thunder device plugin: TLA+ verification project

The repository runs GPUs of the Thunder service in Kubernetes through Dynamic
Resource Allocation. This directory models its core in TLA+, checks the models
with TLC on small instances, and proves the most important results with TLAPS
for every instance. `PROJECT.json` maps every definition to the lines it models.

## The system

| Part | Code | State | Operations |
|---|---|---|---|
| DRA driver | `internal/daemon/driver.go`, `start.go` | the operation in progress; one at a time per node | `prepareOne`, `unprepareOne`, called by the kubelet and repeated until they succeed |
| Stores | `internal/daemon/store.go`, `internal/thunderclient` | the `ThunderClient` resource per claim UID (finalizer, token ID), the setup Secret per claim name | `Upsert`, `Get`, `Delete`; `Create`, `Remove` |
| CDI device store | `internal/daemon/store.go` | per node and claim: CDI spec, state directory with token, cached client config and lock file | `Create`, `StagedClientID`, `Remove` |
| CDI hook | `internal/daemon/cdihook.go`, `clientconfig.go` | a process per container: lock, token | lock, ensure the library, read the cached config or exchange the token, cache, copy the library, exit |
| Node reconciler | `internal/daemon/reconcile.go`, `runtime.go`, `status.go` | counters, resolved zone and cached zone ID, plugin, backoff | one pass: resolve the zone, find or create it in Thunder, judge health, restart or reinstall thunderd, start the plugin |
| Slices and classes | `internal/operator/operator.go`, `resourceslice.go`, `deviceclass.go` | cache of published definitions and generations; `ResourceSlice`s and `DeviceClass`es in the cluster | `Sync` |
| Inventory | `internal/operator/inventory.go` | none | `buildDesiredPools` |
| Orphan reaper | `internal/operator/clients.go` | when each orphan was first seen | `reapOrphanedClients`, `reap`, at the end of every `Sync` |
| libthunder cache | `internal/daemon/libthunder.go` | one file per digest and a lock file, shared by the daemon and all hooks of a node | `Resolve`, `Ensure` |
| The rest | `nvidia.go`, `node.go`, `logs.go`, both `config.go`, `cmd/`, charts, `hack/`, `test/` | none of their own | reading the host, forwarding logs, settings, packaging |

How they interact. The kubelet calls the daemon, which mints an enrollment token
in Thunder, writes the setup Secret, the CDI files and the `ThunderClient`
record. Later the container runtime starts hooks, one per container, that share
only files and a `flock` with the daemon; a hook exchanges the token for a
client. The daemon and the hooks of a node also share the cache of the client
library, behind one lock. A VM instead exchanges the token of the Secret inside its guest.
Teardown revokes client and token and removes everything again. The operator,
in another pod, reaps the records of claims that are gone; it races with the
daemon on those records and can only see what they hold. All of them talk to
two services whose calls fail, or take effect and are reported as failed.

What is hard: operations are sequences of calls, any of which may fail or lose
its answer; four kinds of process (daemon, hook, operator, kubelet) work on one
claim without a common lock; processes crash between two calls and what they
remember is gone; nodes disappear; tokens are single-use; and counters, caches
and generations outlive the step they were computed in. What makes the parts
correct, in short: no enrollment is forgotten before it is revoked; a prepared
claim can be used; one container stages a claim at a time; teardown and reaping
end; a node comes back after any outage; what the cluster advertises follows
Thunder's inventory, no more and no less than is there; and a workload only
ever preloads a library whose digest was verified. The full list of hazards, with the properties that would
catch each, is in `PROJECT.json`.

## Modules

Claim lifecycle:

- `Deployment`: shared constants (nodes, claims, hooks, tokens). `Faults`: the
  fault budget, and `Remote`, one call over the network with its three outcomes
  (done, failed without effect, done but reported as failed).
- `ThunderAPI` (external): `token[t]` is none, unspent, spent or revoked, and
  `client[t]` is the client exchanged for `t`. Revoking one leaves the other, as
  `driver.go` 108-110 says.
- `KubeAPI` (external, plus the record's shape): `record[c]` with token,
  finalizer, deletion mark and resource version, and `secret[name]`.
- `CDIDeviceStore`: `files[n][c]` and lock inodes. The lock is held on an inode,
  and the directory can be deleted under it, so inodes are modelled.
- `Driver`: `op[n]`, the daemon's operation, one API or file call per action.
- `CDIHook`: `hook[h]`, a hook process. `OrphanReaper`: `pass`, the reaper's
  pass, and the orphans it remembers.
- `ClaimLifecycle` composes these with kubelets, runtimes, VMs and failures and
  states the properties. `EnrollmentLedger` is the abstract specification:
  minted, recorded, revoked, in that order.
- `MCClaimLifecycle`: instances.

Node:

- `Reconciler` (`rec`, `host`, `label`, `registry`, `delay`): a pass of the
  reconcile loop. `registry` is Thunder's list of zones, in which several may
  have one display name; `ensureThunderZone` is three actions (list, create,
  list again), between which other nodes create zones (`RivalZone`).
  `MCReconciler`.
- `LibthunderCache` (`library`, `lock`, `user`, `rootfs`, `pin`, `served`):
  `Ensure` as the daemon and the hooks run it, one file or network operation per
  action, and the copy into the container. Thunder's installer (`pin`) and
  artifact host (`served`) are released one at a time. `MCLibthunderCache`.

Operator:

- `DesiredPools` (`status`, `client`, `policy`, `read`): `buildDesiredPools`,
  one action per API call, over servers, clients and targets that change
  meanwhile. `stood`, `ever` and `policies` record what was there during the
  read, for the properties. `MCDesiredPools`.
- `PoolPublisher` (`slices`, `class`, `cache`, `sync`, `stock`): `Sync`. It is a
  sequence of actions, one per API call; `sync` holds what this `Sync` has read,
  so everything after may be stale. `stock[p]` is what `DesiredPools` yields for
  pool `p`; pools are read one after the other. `Overlap` and `Tamper` are what
  another operator does to the slices during a rolling update: it writes any
  rendering, or deletes. `MCPoolPublisher`.

Proofs, each of what its name says: `ClaimLifecycleProofs` (types),
`RecordProofs` (with the refinement of the ledger), `StagingProofs` and
`ClientProofs` of the claim lifecycle, each on top of the ones before;
`ReconcilerProofs`, `LibraryProofs`, `InventoryProofs` (of `DesiredPools`),
`PublisherProofs`.

Abstractions. Names, tokens and zones are model values; file contents, scripts,
labels and log lines are left out, except where two keys of one thing differ
(`NameOf`: claim names against UIDs; `DnsLabel`: pool names against pool keys).
An upsert of a Secret is one step, and so are the daemon's two file writes for a
device, token and CDI spec: a daemon that dies between the calls is back at the
start of `prepareOne` with no record, and then writes both anew. A lost
`ThunderClient` answer, an unreadable config (which makes a hook try the exchange
again) and a failing file write are faults. The grace period is an action that
lets time pass. In `Reconciler`, time is the number of checks; `thunder
status` calls a running service healthy if someone has enabled it at boot, token
or not, and never the transient one the daemon installs (`status.go` 58-66); a node's
advertised IP is left out, zones come from labels, and DRA is enabled. In
`PoolPublisher` a definition is its capacity and one value for all the numbers
that only labels show; a definition recovered from slices lacks the
oversubscription, so it never equals a wanted one; `NameRank` is the order of
slice names, which as text differs from that of the shards from eleven on. A
write at a stale resource version is recognised by the slice having changed. In
`DesiredPools` a target is a multiple of `1/Scale`, which binary fractions are
exactly; a sum over servers or clients is the number of its units, pairs of who
adds and what is added; `Normal` is what trimming and lower case make of a
spelling. In
`LibthunderCache` a build is its digest, and a failed download's contents are
the digest of nothing. `torn[p]` in `PoolPublisher` is a history variable that no
guard reads: `applyPool` gave pool `p` up on an error, and no Sync has got to its
end since. Definitions whose
comment begins with "Mutant" are wrong variants, used by nothing; each shows
that a property can fail.

## Runs

Passing runs:

| Run | Shows |
|---|---|
| `lifecycle` | types, `RecordInv`, `ReleasedOnlyRevoked` and the refinement of the ledger under every kind of fault |
| `staging` | a prepared claim stays usable, a live client stays within reach, hooks stage one at a time, a client is revoked before the state that names it goes, a running claim's Secret carries its own token, a token is spent only once the record names it (`SpentOnRecord`); and `LifeInv`, the invariant that the proofs of these rest on |
| `liveness` | orphans are reaped and unprepare completes |
| `shared` | two nodes use one claim and overwrite each other's token on its record: a teardown that gets as far as removing its node's config has revoked the client it names (`UnprepareRevokesItsOwn`) |
| `reconcile` | limits of the counters, a cached zone ID that is of the node's zone whoever else creates zones, the backoff, and that a node recovers once faults stop |
| `library` | only verified builds are cached and staged, one process downloads at a time and never in vain, a hook is served an explicitly pinned build that is cached without the network (`PinnedIsServed`), every call returns unless a download of the daemon's never ends, and the node gets what is released |
| `capacity` | what is published lies between what stood all through the read and what was there at some time of it, for zones that share a name too; and `ReadInv`, the invariant that the proof of this rests on |
| `publish` | shards of one generation belong to one rendering, except in a pool that was given up half-way (`SharedUnlessTorn`), and a pool that is right is not rendered anew and keeps the slices it needs (`KeepsWhatIsWanted`), across failing calls, lost answers and crashes of the operator; what a Sync listed stands until it is used (`ListingStands`) and generations only go up (`GenerationInv`) |
| `inventory` | slices, and the classes of two types, come to follow the inventory, whatever failed, whatever another operator wrote or deleted, and although another pool is refused for ever |

Runs that show the code and its own comments disagree (details, with quotes, in
`PROJECT.json` under findings):

| Run | Shows |
|---|---|
| `hook_race` | unprepare reads the staged client before it takes the lock; a late hook's client is never revoked |
| `lost_node` | the operator revokes the token and forgets the client |
| `zone_move` | a healthy node that is relabelled stays in its old zone |

Further configurations are kept that are not among the runs; TLC finds the named
property violated in each. They are the reason for the limits of the passing
runs, or smaller disagreements of the same kind:

| Configuration | Module, property | Shows |
|---|---|---|
| `HookDies` | `MCClaimLifecycle`, `NothingStagedNothingEnrolled` | a hook killed after the exchange leaves a client that nothing names; `store.go` 527-528 takes an empty ID for a claim that never started |
| `VMTeardown` | `MCClaimLifecycle`, `NothingStagedNothingEnrolled` | a VM's client is never revoked, although `test/e2e/README.md` 25 says that teardown revokes the enrolment |
| `VMToken` | `MCClaimLifecycle`, `SetupTokenIsTheGuests` | the single-use token of a VM's claim is in its Secret and in the node's state directory; a hook run for the launcher (`cdihook.go` 353-355) spends it before the guest does |
| `LostUpsert` | `MCClaimLifecycle`, `PreparedIsUsable` | `Upsert` takes effect and is reported as failed: prepare rolls everything back but the record, and the next prepare takes the claim for prepared |
| `SharedClaim` | `MCClaimLifecycle`, `LedgerSpec` | two nodes that prepare one claim overwrite each other's token, the only record of it |
| `SharedRollback` | `MCClaimLifecycle`, `ClientGoesBeforeItsState` | one node's teardown deletes the record two nodes share, the other's takes a missing record for nothing to do, and a later rollback there removes the config of a live client |
| `StaleLock` | `MCClaimLifecycle`, `StagedOneAtATime` | the lock file is deleted with what it locks; a hook that waited for it and one of the next pod stage together (`cdihook.go` 137) |
| `NameReuse` | `MCClaimLifecycle`, `SecretIsTheClaims` | an old claim's teardown deletes the Secret of a new claim of that name |
| `ZoneSplit` | `MCReconciler`, `NodesAgree` | a zone with a smaller ID appears after a node has cached another of that name: nodes of one zone are in two Thunder zones |
| `LibraryOffline` | `MCLibthunderCache`, `CachedIsServed` | without an explicit pin a hook needs the installer even when the library is cached, where `reconcile.go` 343-346 says that such a node can still serve claims |
| `LibraryStalls` | `MCLibthunderCache`, `HookIsBounded` | the daemon's download has no deadline and holds the lock; hooks wait for it past the deadline that `cdihook.go` 32-33 gives the whole hook |
| `GenerationReuse` | `MCPoolPublisher`, `SharedGeneration` | a pool that is applied half-way, because a call fails, and then changes again has two renderings at one generation, where `resourceslice.go` 55-56 has the slices of a pool share one |
| `ManyShards` | `MCPoolPublisher`, `NoChurn` | from eleven shards on, slice names do not sort like shards, so a restarted operator renders an unchanged pool anew at the next generation |
| `PoolFlap` | `MCPoolPublisher`, `KeepsWhatIsWanted` | a zone whose name is no DNS label is deleted and recreated by every Sync |
| `NoPrefix` | `MCPoolPublisher`, `ClassesFollowInventory` | an empty extended resource prefix removes all classes, where the chart's README (164) says it publishes them |

Bounds. A claim's processes meet on one claim, so one claim suffices for their
races (two in `NameReuse`). Two tokens let a claim be prepared,
torn down and prepared again while a stale process still holds the first; three
inodes let a directory be recreated under two waiters. `HookOverlap` says
whether the kubelet may tear a pod down while a hook runs: `staging` and
`shared` set it to FALSE, because with it the code fails as `hook_race` and
`StaleLock` show; `lifecycle` and `liveness` set it to TRUE. For the same
reason `staging` leaves out VMs (`VMToken`), lost answers (`LostUpsert`) and hook
crashes (`HookDies`), and `publish` has three shards at most (`ManyShards`). It
has three faults, of any kind but another operator's writes: enough for a call to
fail half-way, for the one that would mend it to fail, and for a kill. The
fault budget is two or more faults per behaviour where that is affordable, so
that a fault can hit the recovery from another, and one in `liveness`.
The reconciler has the code's restart limit and its shapes of thresholds, three
faults, and three zone IDs for two names, so that one name has two zones; seven consecutive failures take the delay from 10 s past its cap of
300 s. Slices hold two devices; a pool has up to five in `publish` (three
shards, the last one full or not) so that shards appear, vanish, fill and
shrink; `inventory` has two pools of a GPU type each, one of them refused, with up
to two shards of one device and two faults. `capacity` has two zones of one name
(and one without name and ID), a server in each, three policies (none; 1.5; 0.5
for one type and a malformed value for the other), clients larger than the
hosts, and up to two changes during a read: enough for a change before and
after each kind of call. `library` has two hooks and the daemon, one of the
hooks with an explicit pin, two builds and three faults, so that a kill, a
corrupt download and a release can meet. Symmetry is used for tokens and hooks
of claims, in runs of safety properties only.

Deadlock is checked in every run.

Fairness. Daemons and hooks finish what they started: they are goroutines and
processes that run until they return, and their calls have timeouts; a hook's wait
for the library, which has none, is not in the claim lifecycle (`LibraryStalls`).
The kubelet
repeats unprepare until it succeeds and the plugin's mutex serves waiters in
turn (strong fairness per claim), and hooks get the lock they wait for (strong
fairness, `flock` queues). The operator ticks for ever and time passes. The
reconcile loop only ends with its process, a service that can start settles,
and from some point on it does so within the transition window: without that
last assumption a slow service is restarted for ever, which is a hazard listed
in `PROJECT.json`. A call of `Ensure` goes on to its end, except where the daemon
waits for the installer or for a download: neither has a deadline, so nothing is
assumed of them, and `EnsureReturns` and `CacheIsWarmed` say what holds unless
the daemon is stuck there (`StuckAt`). A hook's have one. Hooks and the daemon get
the cache's lock if it is free again and again. A `Sync` ends and is followed by
the next (`Run`'s ticker). No fairness is assumed of users, crashes, faults or the scheduler.

## Proofs

All proofs are for arbitrary sets of nodes, claims, hooks, tokens, builds, pools
and faults. Where a theorem has assumptions, they are conditions on constants:
how claims and names are used, and which faults may happen. They hold in the runs
that check the property, and they are limits of the code, not of the proofs: the
configurations named here, or what is said, show how it fails without them.

| Assumption | Says | Without it |
|---|---|---|
| `SingleHome` | every claim is used on one node | `SharedClaim`, `SharedRollback` |
| `OwnNames` | no two claims have one name | `NameReuse` |
| `~HookOverlap` | no hook outlives its pod | `HookRace`, `StaleLock` |
| `NoneLost` | no lost replies, unreadable configs, killed hooks or VMs | `LostUpsert`, `HookDies`, `VMTeardown`, `VMToken` |
| `OwnLabels` | pool names are DNS labels | `PoolFlap` |
| `OrderedNames` | slice names sort like shards | `ManyShards` |
| `NoMeddling` | nobody else writes the operator's slices | a rival may write any rendering, at any generation |

The claim lifecycle:

- `TypeCorrect` (`ClaimLifecycleProofs`): `Spec => []TypeOK`, by one lemma per
  component. `TypeOK` says more than the types of variables: a process in the
  middle of something holds what it needs to go on.
- `RecordInvariant` and `ReleaseFollowsRevoke` (`RecordProofs`), assuming
  `SingleHome`: a record loses its finalizer
  only after its token was revoked, whether daemon or operator releases it.
  That is not inductive alone. The strengthening `RecordInv` adds that a daemon
  preparing a claim knows there is no record (so an Upsert overwrites none),
  that a daemon tearing down holds the token that the record names and has
  revoked it before it forgets the claim, and that a copy the operator listed
  and that has not been written since still names the record's token, which is
  what the resource version protects.
- `LedgerRefined` (`RecordProofs`), from both: the lifecycle implements
  `EnrollmentLedger` under the mapping `Standing`. Every step maps to one ledger
  step or to none.
- `StagedAlone` (`StagingProofs`), without overlapping hooks, whatever fails:
  containers that share a claim are staged one at a time. The invariant
  (`StageLockInv`) says that a running hook's lock is on the inode that is on
  disk; Remove replaces that file only in a teardown, and the daemon tears down
  only what the kubelet asked it to (`CallInv`, layer 0).
- `ClientProofs`: the staging properties. `LifeInv` is their inductive invariant,
  in layers that each rest on the ones before and are proved under the
  assumptions they need:

  | Layer | Says | Assumes | Gives |
  |---|---|---|---|
  | 0 `CallInv` | a daemon does what its kubelet asked last | | |
  | 1 `StageLockInv` | see above | `~HookOverlap` | `StagedOneAtATime` |
  | 2 `RecordStandsInv` | a claim that exists and is in use has its record, with its finalizer until it is unprepared | `SingleHome` | |
  | 3 `VouchedInv` | a token within reach of a hook or guest is on record or revoked | and `OwnNames`, `~HookOverlap` | `SpentOnRecord` |
  | 4 `ConfigInv` | a cached config names a client of a spent token; teardown revoked it before it goes on | `SingleHome`, `~HookOverlap`, configs readable | `ClientGoesBeforeItsState` |
  | 5 `SecretInv` | the Secret of a claim in use holds the token on record | `SingleHome`, `OwnNames`, no lost replies | `SecretIsTheClaims` |
  | 6 `TokenInv` | no token is known as two claims' | `SingleHome` | |
  | 7 `UsableInv` | what is on the node and on record together can be used | all, and `NoneLost` | `PreparedIsUsable`, `LiveClientWithinReach` |

  All steps of the system are first classified by what they do to one claim
  (`LifeStep`); each layer is then proved class by class, not action by action.
- `TeardownRevokesItsOwn` (`ClientProofs`), without `SingleHome`: what is left of
  layer 4 when nodes share a claim, whatever fails but configs. The record may
  name another node's token, be rewritten or be gone, so the invariant
  (`OwnClientInv`) is about one node's disk only: the client a teardown read is
  still the cached one when it revokes it, because hooks run only where the
  kubelet has not asked for a teardown (layers 0 and 1), and stays revoked,
  because its token was spent.

The node:

- `ReconcilerTypeCorrect` and `ZoneCacheFresh` (`ReconcilerProofs`): counters
  within their limits for any thresholds, and the cached zone ID is of a zone
  that has the name last resolved, whichever steps of earlier passes failed and
  whatever zones others create; the strengthening says that a pass past
  resolution has a zone.
- `DelaysAreBackoff` (`ReconcilerProofs`), without assumptions: after any number
  of failures the doubled and capped delay is the base times that power of two,
  capped. `Exact` defines the power by recursion; the argument is an induction
  over the natural numbers, done as the choice of a least counterexample
  (`WFMin`), which the provers can follow because it is about a set.
- `LibraryInvariant`, `VerifiedLibrary`, `SingleDownload` and
  `PinnedHookIsServed` (`LibraryProofs`):
  for any number of hooks and builds, what is cached or staged was verified,
  one process downloads at a time, and a hook whose explicit pin is cached is
  served it. None is inductive alone: `LibraryInv` adds
  that whoever is past the lock holds it (so no other call's return released
  it), that a call past `Resolve` has a build, which is its explicit pin if it
  has one, that nobody downloads what the node has, and that what is about to be
  renamed or copied is that build.

Reading the inventory (`InventoryProofs`), for any finite sets of zones, servers
and clients, any sizes and policies, and however much changes meanwhile:

- `ReadsAreBracketed`, and from it `StandingPublished` and `NoneInvented`: a pool
  is published with no less than what stood all through the read yields, and with
  no more than what was there at some time of it yields. Both speak of the end of
  a read only; `ReadInv` says the same of every point of it, in two layers: what
  the calls for the zone at hand have returned, and the sums over the zones that
  are through. A sum is the number of its units, so it grows because a set does,
  and no induction over the summands is needed.

The operator's Sync (`PublisherProofs`), for any pools, capacities and slice sizes:

- `PublisherTypes`, without assumptions. `PublisherTypeOK` includes what the
  steps of a Sync rely on (`SyncFits`), and needs the arithmetic of sharding:
  the last shard is never empty, and the shards of a capacity are as many as
  rounding up says.
- `WantedIsKept`, with `OwnLabels`, whatever fails and whoever else writes: no
  step deletes a slice that a pool read as wanted needs.
- `WhatWasListedStands`, with `OwnLabels` and `NoMeddling`, whatever fails: until
  a Sync comes to a pool, the listing it decides from is still true, and in the
  pool at hand what it has not come to yet. From it,
  `RightIsLeftAlone` (`NoChurn`), which needs `OrderedNames` too: a pool that is
  published as it should be matches its listing shard by shard and keeps its
  generation.
- `GenerationsGoUp` and `OneRenderingPerGeneration`, with the same three
  assumptions, through failing calls, lost answers and kills at any step: shards of
  one generation are of one rendering, unless the pool is `torn`. Without that
  exception it is false (`GenerationReuse`); with it, the theorem says that giving
  a pool up half-way is the only cause, and that the next Sync that gets to the end
  of the pool mends it. `SharedUnlessTorn` is not inductive: that a new rendering's
  generation is new rests on the generation read from the first slice, or from the
  cache, being the latest. `GenerationInv` says so, for a pool that a killed operator
  left half written too: shards are written first to last, so the first is the
  latest. The cache lags only while a pool is `Underway`, that is, being written and
  no longer as it was listed.

Only model-checked: liveness (`OrphansAreReaped`, `UnprepareCompletes`,
`Converges`, `PublishesInventory`, `ClassesFollowInventory`, `EnsureReturns`,
`CacheIsWarmed`), because fairness and ENABLED are out of the prover's reach.
Every other property of a passing run is a theorem.

## Not modelled

Reading the host (`nvidia.go`, `node.go`), log forwarding, configuration,
packaging and tests keep no state to check. The CA bundle a hook adds to a
container is read by nothing in the repository. A token minted by a daemon that
then dies before it writes anything is known to Thunder only; the code leaves it
to expire. Temporary files of killed downloads stay behind; nothing counts or
removes them. Floating-point targets that are no binary fractions may be rounded
before they are rounded down.

## Plan

1. An abstract "published inventory" that `PoolPublisher` should implement.
2. The staging properties when hooks may outlive their pods, should the code come
   to read the staged client under the lock (`hook_race`).
