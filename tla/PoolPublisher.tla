---------------------------- MODULE PoolPublisher -----------------------------
(***************************************************************************)
(* The operator's Sync (internal/operator/operator.go, resourceslice.go,   *)
(* deviceclass.go): it lists the ResourceSlices it published, reads        *)
(* Thunder's inventory, and makes the slices of every pool and the         *)
(* DeviceClass of every GPU type follow it, one API call per step.  Only   *)
(* the cache of what it published survives from one Sync to the next.      *)
(***************************************************************************)
EXTENDS Naturals, FiniteSets, Faults

CONSTANTS Pools,          \* zone + GPU type, numbered as sortedPoolKeys sorts
          DnsLabel,       \* DnsLabel[p]: the key read back from p's pool name
          Types, TypeOf,  \* TypeOf[p]: the GPU type of pool p
          MaxCapacity,    \* bound: GPUs a pool publishes
          NameRank,       \* NameRank[i]: where shard i's name sorts as text
          Numbers,        \* what slice labels say beyond the spec
          PerSlice,       \* devicesPerSlice
          ExtendedResources, \* is ExtendedResourcePrefix set?
          Rejected,       \* pools whose slices the API server never accepts
          MaxChanges,     \* bound: inventory changes
          None

Labels == {DnsLabel[p] : p \in Pools}
Keys == Pools \cup Labels

\* A pool definition: the published capacity, and the numbers that only the
\* slice labels show (host and client capacity, oversubscription).
Definition == [cap : 1 .. MaxCapacity, nums : Numbers]
\* What is recovered from published slices lacks the oversubscription and so
\* equals no definition read from the inventory; cap 0 says as much.
Recovered == [cap |-> 0, nums |-> None]
Cached == [def : Definition \cup {Recovered}, gen : Nat]

MaxShards == (MaxCapacity + PerSlice - 1) \div PerSlice
Shards == 0 .. (MaxShards - 1)

\* A ResourceSlice: its spec (pool, gen, count, dev devices) and its labels.
\* Which devices they are follows from the shard it is.
Slice == [pool : Pools, gen : Nat, count : 1 .. MaxShards, dev : 1 .. PerSlice,
          nums : Numbers]
NoSlices == [i \in Shards |-> None]

\* A DeviceClass of that name: not there, not ours, outdated or as wanted.
ClassStates == {"absent", "unmanaged", "outdated", "current"}

ASSUME PublisherAssumption ==
    /\ Pools \subseteq Nat /\ DOMAIN DnsLabel = Pools /\ TypeOf \in [Pools -> Types]
    /\ \A i, j \in Shards : NameRank[i] \in Nat /\ (NameRank[i] = NameRank[j] => i = j)
    /\ PerSlice \in Nat \ {0} /\ MaxCapacity \in Nat \ {0} /\ MaxChanges \in Nat
    /\ ExtendedResources \in BOOLEAN /\ Rejected \subseteq Pools
    /\ None \notin Slice /\ None \notin Definition /\ None \notin Cached
    /\ None \notin Keys

VARIABLES stock,          \* Thunder's inventory: stock[p], or None
          changes,        \* how often it has changed
          slices,         \* slices[l][i]: shard i published under pool name l
          class,          \* class[t]: the DeviceClass named for t
          cache,          \* cache[k]: what the operator last published for k
          sync,           \* the Sync in progress
          torn            \* torn[p]: was p changed and given up half-way? (history)

publisherVars == <<stock, changes, slices, class, cache, sync, torn, faults>>

SyncPCs == {"idle", "inventory", "prune", "apply", "put", "trim", "classes", "class"}

\* existing, desired, classes: as read; todo: keys or types still to do; cur: the
\* pool at hand, with its generation gen, the next shard next to write and the
\* shards left to delete.
NoSync == [pc |-> "idle", existing |-> [l \in Labels |-> NoSlices],
           desired |-> [p \in Pools |-> None], classes |-> [t \in Types |-> "absent"],
           todo |-> {}, cur |-> None, gen |-> 0, next |-> 0, left |-> {}]

PublisherInit ==
    /\ stock \in [Pools -> Definition \cup {None}]
    /\ class \in [Types -> ClassStates]
    /\ changes = 0
    /\ slices = [l \in Labels |-> NoSlices]
    /\ cache = [k \in Keys |-> None]
    /\ sync = NoSync
    /\ torn = [p \in Pools |-> FALSE]
    /\ faults = 0

-------------------------------------------------------------------------------
(* Rendering a pool *)

Published(ss) == {i \in Shards : ss[i] # None}
First(S) == CHOOSE i \in S : \A j \in S : i <= j

\* Listed slices are sorted by name: the first of them, and where shard i comes.
FirstListed(S) == CHOOSE i \in S : \A j \in S : NameRank[i] <= NameRank[j]
Position(i, S) == Cardinality({j \in S : NameRank[j] < NameRank[i]})

\* Mutant: an empty shard after a full one.
ShardCountPastEnd(cap) == (cap + PerSlice) \div PerSlice

ShardCount(cap) == (cap + PerSlice - 1) \div PerSlice

buildSlice(p, d, gen, i) ==
    [pool |-> p, gen |-> gen, count |-> ShardCount(d.cap), nums |-> d.nums,
     dev |-> IF (i + 1) * PerSlice > d.cap THEN d.cap - i * PerSlice ELSE PerSlice]

buildResourceSlices(p, d, gen) ==
    [i \in Shards |-> IF i < ShardCount(d.cap) THEN buildSlice(p, d, gen, i) ELSE None]

SameSpec(a, b) == [a EXCEPT !.nums = b.nums] = b

\* The slices this Sync listed for a key: a key that is no pool name has none.
Existing(k) == IF k \in Labels THEN sync.existing[k] ELSE NoSlices

\* Mutant: compares the labels as well.
MatchesWithLabels(p, d, current) ==
    current = buildResourceSlices(p, d, current[FirstListed(Published(current))].gen)

\* The listed slices, in the order of their names, are what definition d renders
\* to at their generation, in the order of the shards.  The devices differ from
\* shard to shard.
currentDefinitionMatches(p, d, current) ==
    LET listed == Published(current)
        wanted == buildResourceSlices(p, d, current[FirstListed(listed)].gen)
    IN /\ listed = Published(wanted)
       /\ \A i \in listed : Position(i, listed) = i /\ SameSpec(current[i], wanted[i])

\* Mutant: takes what was recovered for what is wanted.
nextGenerationRecovered(p, d, current) ==
    IF cache[p] # None
    THEN IF cache[p].def \in {d, Recovered} THEN cache[p].gen ELSE cache[p].gen + 1
    ELSE 1

nextGeneration(p, d, current) ==
    LET has == Published(current) # {}
        gen == current[FirstListed(Published(current))].gen
    IN IF has /\ currentDefinitionMatches(p, d, current) THEN gen
       ELSE IF cache[p] # None
       THEN IF cache[p].def = d THEN cache[p].gen ELSE cache[p].gen + 1
       ELSE IF has THEN gen + 1 ELSE 1

-------------------------------------------------------------------------------
(* Sync *)

AtSync(pc) == sync.pc = pc
Outside == <<stock, changes, torn>>
EndSync == sync' = NoSync

\* listExistingResourceSlices: for keys that are not in the cache, the slices
\* tell what was published.
ListSlices ==
    /\ AtSync("idle")
    /\ sync' = [NoSync EXCEPT !.pc = "inventory", !.existing = slices,
                              !.todo = Pools]
    /\ cache' = [k \in Keys |->
                   IF cache[k] = None /\ k \in Labels /\ Published(slices[k]) # {}
                   THEN [def |-> Recovered,
                         gen |-> slices[k][FirstListed(Published(slices[k]))].gen]
                   ELSE cache[k]]
    /\ UNCHANGED <<Outside, slices, class, faults>>

\* buildDesiredPools (module DesiredPools): the inventory pool by pool, as it is
\* when its zone is read, or an error that ends the Sync.
ReadPool ==
    /\ AtSync("inventory") /\ sync.todo # {}
    /\ \/ /\ \E p \in sync.todo :
                sync' = [sync EXCEPT !.todo = @ \ {p}, !.desired[p] = stock[p]]
          /\ UNCHANGED faults
       \/ Fault("error") /\ EndSync
    /\ UNCHANGED <<Outside, slices, class, cache>>

Desired == {p \in Pools : sync.desired[p] # None}

\* The pools that were listed and are not desired.
FindStale ==
    /\ AtSync("inventory") /\ sync.todo = {}
    /\ sync' = [sync EXCEPT !.pc = "prune",
                  !.todo = {l \in Labels \ Desired : Published(sync.existing[l]) # {}}]
    /\ UNCHANGED <<Outside, slices, class, cache, faults>>

DeleteSlice(l, i) == slices' = [slices EXCEPT ![l][i] = None]

\* The stale pools, in any order, each slice by slice; an error skips the rest
\* of the pool and leaves its cache entry.
PrunePool ==
    /\ AtSync("prune") /\ sync.cur = None
    /\ \/ \E k \in sync.todo :
            sync' = [sync EXCEPT !.cur = k, !.todo = @ \ {k},
                                 !.left = Published(sync.existing[k])]
       \/ /\ sync.todo = {}
          /\ sync' = [sync EXCEPT !.pc = "apply", !.todo = Desired]
    /\ UNCHANGED <<Outside, slices, class, cache, faults>>

PruneSlice ==
    /\ AtSync("prune") /\ sync.cur # None
    /\ LET k == sync.cur
           i == FirstListed(sync.left)
           rest == sync.left \ {i}
           skip == sync' = [sync EXCEPT !.cur = None, !.left = {}] /\ UNCHANGED cache
       IN Remote(DeleteSlice(k, i), UNCHANGED slices,
                 IF rest # {}
                 THEN sync' = [sync EXCEPT !.left = rest] /\ UNCHANGED cache
                 ELSE /\ sync' = [sync EXCEPT !.cur = None, !.left = {}]
                      /\ cache' = [cache EXCEPT ![k] = None],
                 skip)
    /\ UNCHANGED <<Outside, class>>

\* The desired pools in order; then forget the cache entries of all others.
StartPool ==
    /\ AtSync("apply") /\ sync.todo # {}
    /\ LET p == First(sync.todo)
       IN sync' = [sync EXCEPT !.pc = "put", !.cur = p, !.todo = @ \ {p}, !.next = 0,
                               !.gen = nextGeneration(p, sync.desired[p], Existing(p))]
    /\ UNCHANGED <<Outside, slices, class, cache, faults>>

ForgetPools ==
    /\ AtSync("apply") /\ sync.todo = {}
    /\ cache' = [k \in Keys |-> IF k \in Desired THEN cache[k] ELSE None]
    /\ sync' = [sync EXCEPT !.pc = "classes", !.cur = None]
    /\ UNCHANGED <<Outside, slices, class, faults>>

\* Mutant: gives the others up with it.
SkipAllPools == EndSync /\ UNCHANGED torn

\* An error gives this pool up until the next Sync, its cache entry unchanged,
\* also when some of its slices are changed by now.
SkipPool ==
    /\ sync' = [sync EXCEPT !.pc = "apply", !.left = {}]
    /\ torn' = [torn EXCEPT ![sync.cur] =
                   @ \/ slices'[DnsLabel[sync.cur]] # Existing(sync.cur)]

\* Mutant: compares the specs alone.
SameSpecListed(listed, wanted) == listed # None /\ SameSpec(listed, wanted)

\* Labels and spec.
samePublishedResourceSlice(listed, wanted) == listed = wanted

\* applyPool, one wanted slice: create it if none of that name was listed, leave
\* it if it is the same, else update it at the version that was listed.
PutSlice ==
    /\ AtSync("put")
    /\ LET p == sync.cur
           l == DnsLabel[p]
           i == sync.next
           wanted == buildResourceSlices(p, sync.desired[p], sync.gen)
           listed == Existing(p)[i]
           same == samePublishedResourceSlice(listed, wanted[i])
           advance == sync' = [sync EXCEPT !.next = i + 1] /\ UNCHANGED torn
       IN /\ i \in Published(wanted)
          /\ \/ /\ same
                /\ advance /\ UNCHANGED <<slices, faults>>
             \/ /\ ~same /\ slices[l][i] = listed /\ p \notin Rejected
                /\ Remote(slices' = [slices EXCEPT ![l][i] = wanted[i]],
                          UNCHANGED slices, advance, SkipPool)
             \/ /\ ~same /\ (slices[l][i] # listed \/ p \in Rejected)
                /\ UNCHANGED <<slices, faults>> /\ SkipPool
    /\ UNCHANGED <<stock, changes, class, cache>>

\* Mutant: counts from one.
FinishPutShort ==
    /\ AtSync("put")
    /\ LET n == ShardCount(sync.desired[sync.cur].cap)
       IN /\ sync.next = n
          /\ sync' = [sync EXCEPT !.pc = "trim",
                        !.left = {i \in Published(Existing(sync.cur)) : i + 1 >= n}]
    /\ UNCHANGED <<Outside, slices, class, cache, faults>>

\* What was listed and is not wanted belonged to a wider version of the pool.
FinishPut ==
    /\ AtSync("put")
    /\ LET n == ShardCount(sync.desired[sync.cur].cap)
       IN /\ sync.next = n
          /\ sync' = [sync EXCEPT !.pc = "trim",
                        !.left = {i \in Published(Existing(sync.cur)) : i >= n}]
    /\ UNCHANGED <<Outside, slices, class, cache, faults>>

TrimSlice ==
    /\ AtSync("trim")
    /\ \E i \in sync.left :
          Remote(DeleteSlice(DnsLabel[sync.cur], i), UNCHANGED slices,
                 sync' = [sync EXCEPT !.left = @ \ {i}] /\ UNCHANGED torn, SkipPool)
    /\ UNCHANGED <<stock, changes, class, cache>>

FinishPool ==
    /\ AtSync("trim") /\ sync.left = {}
    /\ cache' = [cache EXCEPT ![sync.cur] = [def |-> sync.desired[sync.cur],
                                             gen |-> sync.gen]]
    /\ sync' = [sync EXCEPT !.pc = "apply"]
    /\ torn' = [torn EXCEPT ![sync.cur] = FALSE]
    /\ UNCHANGED <<stock, changes, slices, class, faults>>

-------------------------------------------------------------------------------
(* syncDeviceClasses *)

WantedTypes == IF ExtendedResources THEN {TypeOf[p] : p \in Desired} ELSE {}
Managed(listing) == {t \in Types : listing[t] \in {"outdated", "current"}}

\* Mutant: has nothing to do when no pool is wanted.
ListClassesIfAny ==
    /\ AtSync("classes")
    /\ IF Desired = {} THEN EndSync
       ELSE sync' = [sync EXCEPT !.pc = "class", !.classes = class,
                                 !.todo = WantedTypes \cup Managed(class)]
    /\ UNCHANGED <<Outside, slices, class, cache, faults>>

ListClasses ==
    /\ AtSync("classes")
    /\ \/ /\ sync' = [sync EXCEPT !.pc = "class", !.classes = class,
                                  !.todo = WantedTypes \cup Managed(class)]
          /\ UNCHANGED faults
       \/ Fault("error") /\ EndSync
    /\ UNCHANGED <<Outside, slices, class, cache>>

SetClass(t, to) == class' = [class EXCEPT ![t] = to]

\* The wanted classes first, in any order, then the stale ones; the first error
\* ends it.  A class that is there but not ours is left as it is.
PutClass(t) ==
    /\ AtSync("class") /\ t \in sync.todo \cap WantedTypes
    /\ LET done == sync' = [sync EXCEPT !.todo = @ \ {t}]
       IN \/ /\ \/ t \notin Managed(sync.classes) /\ class[t] = "absent"
                \/ sync.classes[t] = "outdated" /\ class[t] = "outdated"
             /\ Remote(SetClass(t, "current"), UNCHANGED class, done, EndSync)
          \/ /\ \/ t \notin Managed(sync.classes) /\ class[t] # "absent"
                \/ sync.classes[t] = "current"
             /\ done /\ UNCHANGED <<class, faults>>
          \/ /\ sync.classes[t] = "outdated" /\ class[t] # "outdated"
             /\ EndSync /\ UNCHANGED <<class, faults>>
    /\ UNCHANGED <<Outside, slices, cache>>

DeleteClass(t) ==
    /\ AtSync("class") /\ sync.todo \cap WantedTypes = {} /\ t \in sync.todo
    /\ Remote(SetClass(t, "absent"), UNCHANGED class,
              sync' = [sync EXCEPT !.todo = @ \ {t}], EndSync)
    /\ UNCHANGED <<Outside, slices, cache>>

FinishSync ==
    /\ AtSync("class") /\ sync.todo = {}
    /\ EndSync
    /\ UNCHANGED <<Outside, slices, class, cache, faults>>

SyncStep ==
    \/ ListSlices \/ ReadPool \/ FindStale \/ PrunePool \/ PruneSlice
    \/ StartPool \/ ForgetPools \/ PutSlice \/ FinishPut \/ TrimSlice \/ FinishPool
    \/ ListClasses \/ (\E t \in Types : PutClass(t) \/ DeleteClass(t)) \/ FinishSync

-------------------------------------------------------------------------------
(* The world around it (external) *)

ChangeStock ==
    /\ changes < MaxChanges
    /\ \E p \in Pools, d \in Definition \cup {None} :
          /\ d # stock[p]
          /\ stock' = [stock EXCEPT ![p] = d]
    /\ changes' = changes + 1
    /\ UNCHANGED <<slices, class, cache, sync, torn, faults>>

\* Someone deletes a published object.
Tamper ==
    /\ Fault("tamper")
    /\ \/ /\ \E l \in Labels, i \in Shards : slices[l][i] # None /\ DeleteSlice(l, i)
          /\ UNCHANGED class
       \/ /\ \E t \in Types : class[t] # "absent" /\ SetClass(t, "absent")
          /\ UNCHANGED slices
    /\ UNCHANGED <<Outside, cache, sync>>

\* Another operator, which a rolling update leaves running for a while with a
\* cache and an inventory of its own, writes a slice.
Generations == UNION {{slices[l][i].gen : i \in Published(slices[l])} : l \in Labels}

Overlap ==
    /\ Fault("overlap")
    /\ \E p \in Pools \ Rejected, d \in Definition, i \in Shards,
           gen \in {1} \cup Generations \cup {g + 1 : g \in Generations} :
          /\ i < ShardCount(d.cap)
          /\ slices' = [slices EXCEPT ![DnsLabel[p]][i] = buildSlice(p, d, gen, i)]
    /\ UNCHANGED <<Outside, class, cache, sync>>

Restart ==
    /\ Fault("operatorCrash")
    /\ EndSync
    /\ cache' = [k \in Keys |-> None]
    /\ UNCHANGED <<Outside, slices, class>>

PublisherNext == SyncStep \/ ChangeStock \/ Tamper \/ Overlap \/ Restart

PublisherSpec == PublisherInit /\ [][PublisherNext]_publisherVars

\* Run's ticker starts a Sync for ever, and a Sync goes on to its end.
PublisherFairSpec == PublisherSpec /\ WF_publisherVars(SyncStep)

-------------------------------------------------------------------------------
(* Properties *)

\* The slices under one pool name that are of one generation agree on how many
\* there are.
OneRendering(l) ==
    \A i, j \in Published(slices[l]) :
        slices[l][i].gen = slices[l][j].gen => slices[l][i].count = slices[l][j].count

\* Slices that share a pool name and a generation are shards of one rendering
\* of the pool (resourceslice.go 55-56).
SharedGeneration == \A l \in Labels : OneRendering(l)

\* The same, through failing calls and restarts at any step, for every pool but
\* those that applyPool gave up half-way (operator.go 208-211), and for these
\* again from when a Sync gets to the end of them.
SharedUnlessTorn == \A p \in Pools : ~torn[p] => OneRendering(DnsLabel[p])

\* A pool that is published as it should be is left alone, after a restart too:
\* a change of labels only does not churn the generation (resourceslice.go 142-143,
\* operator.go 202-206).
NoChurn ==
    [][\A p \in Pools :
          LET published == slices[DnsLabel[p]]
              right == buildResourceSlices(p, sync.desired[p], published[0].gen)
          IN /\ sync' # sync /\ sync.desired[p] # None /\ published[0] # None
             /\ Published(published) = Published(right)
             /\ \A i \in Published(right) : SameSpec(published[i], right[i])
             => /\ Published(slices'[DnsLabel[p]]) = Published(right)
                /\ \A i \in Published(right) : SameSpec(slices'[DnsLabel[p]][i], right[i])]_publisherVars

\* Once the inventory stands still, every pool comes to be published as it is,
\* and stays so: one device per GPU, all shards at one generation, none left
\* over, and nothing for a pool that is gone, whatever failed before and even
\* if another pool fails for ever (operator.go 88-89).
PublishesInventory ==
    \A p \in Pools \ Rejected :
        /\ \A d \in Definition : <>[](stock[p] = d) =>
              <>[](LET published == slices[DnsLabel[p]]
                   IN /\ published[0] # None
                      /\ published = buildResourceSlices(p, d, published[0].gen))
        /\ <>[](stock[p] = None) => <>[](slices[DnsLabel[p]] = NoSlices)

\* A GPU type is requestable exactly as long as some pool has it: once the
\* inventory stands still the classes of all types follow it, although a failing
\* one ends the pass over the others (syncDeviceClasses; README, GPU types).
ClassesFollowInventory ==
    LET stocked(t) == \E p \in Pools : TypeOf[p] = t /\ stock[p] # None
    IN <>[][UNCHANGED stock]_publisherVars =>
          <>[](\A t \in Types :
                  class[t] \in {IF stocked(t) THEN "current" ELSE "absent", "unmanaged"})

\* Committed clients are never dropped from inventory (inventory.go 110-111): a
\* Sync deletes no slice of a pool that it is about to publish.
KeepsWhatIsWanted ==
    [][\A p \in Pools, i \in Shards :
          /\ sync.desired[p] # None /\ sync' # sync
          /\ i < ShardCount(sync.desired[p].cap)
          /\ slices[DnsLabel[p]][i] # None
          => slices'[DnsLabel[p]][i] # None]_publisherVars
-------------------------------------------------------------------------------
(* What a Sync relies on, for any inventory *)

Syncing ==
    [pc : SyncPCs, existing : [Labels -> [Shards -> Slice \cup {None}]],
     desired : [Pools -> Definition \cup {None}], classes : [Types -> ClassStates],
     todo : SUBSET (Keys \cup Types), cur : Keys \cup {None}, gen : Nat, next : Nat,
     left : SUBSET Shards]

\* How many shards the pool at hand is to have.
Width == ShardCount(sync.desired[sync.cur].cap)

\* What the steps of a Sync rely on: the pools that are pruned were listed
\* and are not desired, the ones that are applied are, shards are written in order
\* up to the pool's width and only those beyond it are trimmed.
SyncFits ==
    /\ sync \in Syncing
    /\ sync.pc = "inventory" => sync.todo \subseteq Pools /\ sync.cur = None
    /\ sync.pc = "prune" =>
          /\ \A k \in sync.todo : k \in Labels \ Desired /\ Published(sync.existing[k]) # {}
          /\ sync.cur # None => sync.cur \in Labels \ Desired /\ sync.left # {}
    /\ sync.pc \in {"apply", "put", "trim"} => sync.todo \subseteq Desired
    /\ sync.pc \in {"put", "trim"} => sync.cur \in Desired \ sync.todo
    /\ sync.pc = "put" => sync.next \in 0 .. Width
    /\ sync.pc = "trim" => \A i \in sync.left : i >= Width
    /\ sync.pc = "class" => sync.todo \subseteq Types

\* Types, and that every step of a Sync finds what it needs.
PublisherTypeOK ==
    /\ stock \in [Pools -> Definition \cup {None}]
    /\ changes \in 0 .. MaxChanges
    /\ slices \in [Labels -> [Shards -> Slice \cup {None}]]
    /\ class \in [Types -> ClassStates]
    /\ cache \in [Keys -> Cached \cup {None}]
    /\ SyncFits
    /\ torn \in [Pools -> BOOLEAN]
    /\ FaultsTypeOK

\* Pool names are DNS labels already, and shards' names sort as their numbers do.
OwnLabels == \A p \in Pools : DnsLabel[p] = p
OrderedNames == \A i, j \in Shards : i < j => NameRank[i] < NameRank[j]

\* Nobody else deletes or writes what the operator publishes.
NoMeddling == FaultKinds \cap {"tamper", "overlap"} = {}

\* Until a Sync comes to a pool, the pool's slices are what it listed; while
\* applyPool writes them, those it has passed are as wanted and the others as listed, and
\* the generation is the listed one if that was right; what it trims is gone.
ListingStands ==
    /\ sync.pc = "inventory" => slices = sync.existing
    /\ sync.pc = "prune" => \A p \in Desired : slices[p] = sync.existing[p]
    /\ sync.pc \in {"apply", "put", "trim"} =>
          \A p \in sync.todo : slices[p] = sync.existing[p]
    /\ sync.pc = "put" =>
          LET d == sync.desired[sync.cur]
              listed == sync.existing[sync.cur]
          IN /\ \A i \in Shards :
                   slices[sync.cur][i] = IF i < sync.next
                                         THEN buildResourceSlices(sync.cur, d, sync.gen)[i]
                                         ELSE listed[i]
             /\ /\ Published(listed) # {}
                /\ currentDefinitionMatches(sync.cur, d, listed)
                => sync.gen = listed[FirstListed(Published(listed))].gen
    /\ sync.pc = "trim" => \A i \in Shards :
          slices[sync.cur][i] =
              IF i < Width
              THEN buildResourceSlices(sync.cur, sync.desired[sync.cur], sync.gen)[i]
              ELSE IF i \in sync.left THEN sync.existing[sync.cur][i] ELSE None

\* No slice of a pool is of a later generation than gen, and those of generation
\* gen are of a rendering with that many shards.
UpTo(ss, gen, count) ==
    \A i \in Published(ss) :
        ss[i].gen <= gen /\ (ss[i].gen = gen => ss[i].count = count)

\* Is p changed and not finished?
Underway(p) ==
    /\ sync.cur = p /\ sync.pc \in {"put", "trim"}
    /\ slices[p] # sync.existing[p]

\* Generations only go up (nextGeneration, applyPool): a pool's shards are written
\* first to last, so the first one's is the latest, and so is the cached one, unless
\* the pool is underway.  All of it is lost when a pool is given up half-way: the
\* cached generation lags behind the published one then.
GenerationInv ==
    /\ SharedUnlessTorn
    /\ \A p \in Rejected : slices[p] = NoSlices
    /\ sync.pc \in {"put", "trim"} /\ ~torn[sync.cur] =>
          UpTo(slices[sync.cur], sync.gen, Width)
    /\ \A p \in Pools : ~torn[p] =>
          /\ \A i, j \in Published(slices[p]) :
                i < j => slices[p][i].gen >= slices[p][j].gen
          /\ cache[p] # None /\ ~Underway(p) =>
                /\ \A i \in Published(slices[p]) : slices[p][i].gen <= cache[p].gen
                /\ cache[p].def # Recovered =>
                      UpTo(slices[p], cache[p].gen, ShardCount(cache[p].def.cap))
===============================================================================
