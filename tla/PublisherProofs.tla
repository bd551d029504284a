---------------------------- MODULE PublisherProofs ---------------------------
(***************************************************************************)
(* The operator's Sync is correct for any inventory: any number of pools,  *)
(* any capacities and any number of devices per slice.                     *)
(***************************************************************************)
EXTENDS PoolPublisher, FiniteSetTheorems, WellFoundedInduction, TLAPS

-------------------------------------------------------------------------------
(* Arithmetic of the shards *)

\* Division rounding up, as the least multiple that covers what is divided.
LEMMA Division ==
    ASSUME NEW n \in Nat, NEW d \in Nat \ {0}
    PROVE  /\ n \div d \in Nat
           /\ (n \div d) * d <= n
           /\ n < (n \div d) * d + d
BY Z3

LEMMA Products ==
    ASSUME NEW a \in Nat, NEW b \in Nat, NEW d \in Nat \ {0}
    PROVE  /\ a * d \in Nat
           /\ (a + 1) * d = a * d + d
           /\ a <= b => a * d <= b * d
BY Z3

\* ShardCount is the number of slices of PerSlice devices that cap devices need.
LEMMA ShardCounts ==
    ASSUME NEW cap \in 1 .. MaxCapacity
    PROVE  /\ ShardCount(cap) \in 1 .. MaxShards
           /\ MaxShards \in Nat
           /\ ShardCount(cap) * PerSlice < cap + PerSlice
           /\ cap <= ShardCount(cap) * PerSlice
<1> DEFINE n == ShardCount(cap)
           a == cap + PerSlice - 1
           b == MaxCapacity + PerSlice - 1
<1>0. PerSlice \in Nat \ {0} /\ MaxCapacity \in Nat \ {0} /\ cap \in Nat \ {0}
  BY PublisherAssumption
<1>1. /\ a \in Nat /\ b \in Nat /\ a <= b /\ n = a \div PerSlice
      /\ MaxShards = b \div PerSlice
  BY <1>0 DEF ShardCount, MaxShards
<1>2. n \in Nat /\ n * PerSlice <= a /\ a < n * PerSlice + PerSlice
  BY <1>0, <1>1, Division
<1>3. /\ MaxShards \in Nat /\ MaxShards * PerSlice <= b
      /\ b < MaxShards * PerSlice + PerSlice
  BY <1>0, <1>1, Division
<1>4. n * PerSlice < cap + PerSlice /\ cap <= n * PerSlice
  <2>1. n * PerSlice \in Nat
    BY <1>0, <1>2, Products
  <2> QED
    BY <2>1, <1>0, <1>2
<1>5. n # 0
  <2>1. 0 * PerSlice = 0
    BY <1>0
  <2> QED
    BY <2>1, <1>0, <1>4
<1>6. n <= MaxShards
  <2> SUFFICES ASSUME MaxShards + 1 <= n PROVE FALSE
    BY <1>2, <1>3
  <2>1. /\ (MaxShards + 1) * PerSlice <= n * PerSlice
        /\ (MaxShards + 1) * PerSlice = MaxShards * PerSlice + PerSlice
        /\ MaxShards * PerSlice \in Nat /\ n * PerSlice \in Nat
    BY <1>0, <1>2, <1>3, Products
  <2> QED
    BY <2>1, <1>0, <1>1, <1>2, <1>3
<1> QED
  BY <1>2, <1>3, <1>4, <1>5, <1>6

\* A shard of a pool has at least one device and no more than fit in a slice.
LEMMA ShardDevices ==
    ASSUME NEW cap \in 1 .. MaxCapacity, NEW i \in Nat, i < ShardCount(cap)
    PROVE  (IF (i + 1) * PerSlice > cap THEN cap - i * PerSlice ELSE PerSlice)
              \in 1 .. PerSlice
<1> DEFINE n == ShardCount(cap)
<1>0. /\ PerSlice \in Nat \ {0} /\ cap \in Nat /\ n \in Nat
      /\ n * PerSlice < cap + PerSlice /\ i + 1 <= n
  BY ShardCounts, PublisherAssumption
<1>1. /\ i * PerSlice \in Nat /\ (i + 1) * PerSlice = i * PerSlice + PerSlice
      /\ (i + 1) * PerSlice <= n * PerSlice /\ n * PerSlice \in Nat
  BY <1>0, Products
<1> QED
  BY <1>0, <1>1

-------------------------------------------------------------------------------
(* The first of the shards, and what a pool is rendered to *)

LEMMA LeastNatural ==
    ASSUME NEW S \in SUBSET Nat, S # {}
    PROVE  \E i \in S : \A j \in S : i <= j
<1>1. \E i \in S : \A j \in S : <<j, i>> \notin OpToRel(<, Nat)
  BY NatLessThanWellFounded, WFMin
<1>2. PICK i \in S : \A j \in S : <<j, i>> \notin OpToRel(<, Nat)
  BY <1>1
<1>3. ASSUME NEW j \in S PROVE i <= j
  <2>1. ~(j < i)
    BY <1>2, <1>3 DEF OpToRel
  <2> QED
    BY <2>1
<1> QED
  BY <1>3

LEMMA FirstIsLeast ==
    ASSUME NEW S \in SUBSET Nat, S # {}
    PROVE  First(S) \in S /\ \A j \in S : First(S) <= j
BY LeastNatural DEF First

LEMMA ShardsAreNaturals ==
    /\ Shards \in SUBSET Nat /\ MaxShards \in Nat \ {0} /\ 0 \in Shards
    /\ \A i \in Nat : i \in Shards <=> i < MaxShards
<1>1. 1 \in 1 .. MaxCapacity
  BY PublisherAssumption
<1>2. MaxShards \in Nat \ {0}
  BY <1>1, ShardCounts
<1> QED
  BY <1>2 DEF Shards

\* The first listed of some shards is the one whose name comes first.
LEMMA FirstListedIsLeast ==
    ASSUME NEW S \in SUBSET Shards, S # {}
    PROVE  /\ FirstListed(S) \in S
           /\ \A j \in S : NameRank[FirstListed(S)] <= NameRank[j]
<1> DEFINE R == {NameRank[i] : i \in S}
<1>1. R \in SUBSET Nat /\ R # {}
  BY PublisherAssumption
<1>2. PICK r \in R : \A q \in R : r <= q
  BY <1>1, LeastNatural
<1>3. PICK i \in S : NameRank[i] = r
  BY <1>2
<1>4. \A j \in S : NameRank[i] <= NameRank[j]
  BY <1>2, <1>3
<1> QED
  BY <1>4 DEF FirstListed

\* What a pool is rendered to: the slices of the shards below its width.
LEMMA Rendering ==
    ASSUME NEW p \in Pools, NEW d \in Definition, NEW gen \in Nat
    PROVE  LET wanted == buildResourceSlices(p, d, gen)
           IN /\ wanted \in [Shards -> Slice \cup {None}]
              /\ \A i \in Shards :
                    /\ i < ShardCount(d.cap) => /\ wanted[i] = buildSlice(p, d, gen, i)
                                                /\ wanted[i] \in Slice
                    /\ ~(i < ShardCount(d.cap)) => wanted[i] = None
              /\ Published(wanted) = {i \in Shards : i < ShardCount(d.cap)}
<1> DEFINE wanted == buildResourceSlices(p, d, gen)
<1>0. d.cap \in 1 .. MaxCapacity /\ d.nums \in Numbers
  BY DEF Definition
<1>1. ASSUME NEW i \in Shards, i < ShardCount(d.cap)
      PROVE  buildSlice(p, d, gen, i) \in Slice
  <2>1. i \in Nat
    BY ShardsAreNaturals
  <2>2. ShardCount(d.cap) \in 1 .. MaxShards
    BY <1>0, ShardCounts
  <2>3. (IF (i + 1) * PerSlice > d.cap THEN d.cap - i * PerSlice ELSE PerSlice)
           \in 1 .. PerSlice
    BY <1>0, <1>1, <2>1, ShardDevices
  <2> QED
    BY <1>0, <2>2, <2>3 DEF buildSlice, Slice
<1>2. \A i \in Shards : wanted[i] = IF i < ShardCount(d.cap)
                                    THEN buildSlice(p, d, gen, i) ELSE None
  BY DEF buildResourceSlices
<1>3. wanted \in [Shards -> Slice \cup {None}]
  BY <1>1 DEF buildResourceSlices
<1>4. Published(wanted) = {i \in Shards : i < ShardCount(d.cap)}
  BY <1>1, <1>2, PublisherAssumption DEF Published
<1> QED
  BY <1>1, <1>2, <1>3, <1>4

-------------------------------------------------------------------------------
(* The type invariant *)

Listing == [Labels -> [Shards -> Slice \cup {None}]]

\* Everything but the Sync in progress.
WorldOK ==
    /\ stock \in [Pools -> Definition \cup {None}] /\ changes \in 0 .. MaxChanges
    /\ slices \in Listing /\ class \in [Types -> ClassStates]
    /\ cache \in [Keys -> Cached \cup {None}] /\ torn \in [Pools -> BOOLEAN] /\ FaultsTypeOK

PublisherInv == WorldOK /\ SyncFits

LEMMA InvGivesTypes == PublisherInv => PublisherTypeOK
BY DEF PublisherInv, WorldOK, Listing, PublisherTypeOK

LEMMA FaultSteps ==
    ASSUME FaultsTypeOK
    PROVE  /\ UNCHANGED faults => FaultsTypeOK'
           /\ \A kind : Fault(kind) => FaultsTypeOK'
BY FaultAssumption DEF FaultsTypeOK, Fault

LEMMA LabelFacts ==
    /\ \A p \in Pools : DnsLabel[p] \in Labels /\ p \in Keys
    /\ Labels \subseteq Keys /\ Pools \subseteq Keys /\ None \notin Labels /\ None \notin Pools
BY PublisherAssumption DEF Labels, Keys

LEMMA SliceUpdate ==
    ASSUME NEW f \in Listing, NEW l \in Labels, NEW i \in Shards,
           NEW x \in Slice \cup {None}
    PROVE  /\ [f EXCEPT ![l][i] = x] \in Listing
           /\ \A m \in Labels, j \in Shards :
                 [f EXCEPT ![l][i] = x][m][j] = IF m = l /\ j = i THEN x ELSE f[m][j]
BY DEF Listing

LEMMA NoSyncFits == NoSync \in Syncing /\ NoSync.pc = "idle"
<1>1. NoSlices \in [Shards -> Slice \cup {None}]
  BY DEF NoSlices
<1>2. "absent" \in ClassStates /\ "idle" \in SyncPCs
  BY DEF ClassStates, SyncPCs
<1> QED
  BY <1>1, <1>2 DEF NoSync, Syncing

LEMMA SyncEnds == EndSync => SyncFits'
BY NoSyncFits DEF EndSync, SyncFits

\* The generation of the slice that is listed first.
LEMMA FirstGeneration ==
    ASSUME NEW ss \in [Shards -> Slice \cup {None}], Published(ss) # {}
    PROVE  /\ FirstListed(Published(ss)) \in Published(ss)
           /\ ss[FirstListed(Published(ss))] \in Slice
           /\ ss[FirstListed(Published(ss))].gen \in Nat
<1>1. Published(ss) \in SUBSET Shards
  BY DEF Published
<1>2. FirstListed(Published(ss)) \in Published(ss)
  BY <1>1, FirstListedIsLeast
<1>3. ss[FirstListed(Published(ss))] \in Slice
  BY <1>2 DEF Published
<1> QED
  BY <1>2, <1>3 DEF Slice

LEMMA ListSlicesFits == ASSUME PublisherInv, ListSlices PROVE PublisherInv'
<1>0. sync' = [NoSync EXCEPT !.pc = "inventory", !.existing = slices, !.todo = Pools]
  BY DEF ListSlices
<1>1. sync' \in Syncing /\ sync'.pc = "inventory" /\ sync'.todo = Pools /\ sync'.cur = None
  <2>1. "inventory" \in SyncPCs /\ slices \in Listing /\ Pools \subseteq Keys
    BY LabelFacts DEF SyncPCs, PublisherInv, WorldOK
  <2>2. sync' \in Syncing
    BY <1>0, <2>1, NoSyncFits DEF Syncing, Listing
  <2> QED
    BY <1>0, <2>2 DEF NoSync
<1>2. SyncFits'
  BY <1>1 DEF SyncFits
<1>3. cache' \in [Keys -> Cached \cup {None}]
  <2>1. ASSUME NEW k \in Labels, Published(slices[k]) # {}
        PROVE  [def |-> Recovered, gen |-> slices[k][FirstListed(Published(slices[k]))].gen]
                 \in Cached
    <3>1. slices[k] \in [Shards -> Slice \cup {None}]
      BY DEF PublisherInv, WorldOK, Listing
    <3> QED
      BY <3>1, <2>1, FirstGeneration DEF Cached
  <2>2. \A k \in Keys : cache[k] \in Cached \cup {None}
    BY DEF PublisherInv, WorldOK
  <2> QED
    BY <2>1, <2>2 DEF ListSlices
<1> QED
  BY <1>2, <1>3 DEF ListSlices, Outside, PublisherInv, WorldOK, FaultsTypeOK

LEMMA ReadPoolFits == ASSUME PublisherInv, ReadPool PROVE PublisherInv'
<1>1. WorldOK'
  BY FaultSteps DEF ReadPool, Outside, PublisherInv, WorldOK
<1>2. ASSUME NEW p \in sync.todo,
             sync' = [sync EXCEPT !.todo = @ \ {p}, !.desired[p] = stock[p]]
      PROVE  SyncFits'
  <2>0. /\ sync \in Syncing /\ sync.pc = "inventory" /\ sync.todo \subseteq Pools
        /\ sync.cur = None /\ p \in Pools
    BY <1>2 DEF ReadPool, AtSync, PublisherInv, SyncFits
  <2>1. /\ [sync.desired EXCEPT ![p] = stock[p]] \in [Pools -> Definition \cup {None}]
        /\ sync' = [sync EXCEPT !.todo = sync.todo \ {p},
                                !.desired = [sync.desired EXCEPT ![p] = stock[p]]]
    <3>1. stock[p] \in Definition \cup {None}
          /\ sync.desired \in [Pools -> Definition \cup {None}]
      BY <2>0 DEF PublisherInv, WorldOK, Syncing
    <3> QED
      BY <3>1, <1>2, <2>0 DEF Syncing
  <2>2. sync' \in Syncing
    BY <2>0, <2>1 DEF Syncing
  <2>3. sync'.pc = "inventory" /\ sync'.todo \subseteq Pools /\ sync'.cur = None
    BY <2>0, <2>1 DEF Syncing
  <2> QED
    BY <2>2, <2>3 DEF SyncFits
<1> QED
  BY <1>1, <1>2, SyncEnds DEF ReadPool, PublisherInv

LEMMA FindStaleFits == ASSUME PublisherInv, FindStale PROVE PublisherInv'
<1> DEFINE T == {l \in Labels \ Desired : Published(sync.existing[l]) # {}}
<1>0. /\ sync \in Syncing /\ sync.cur = None
      /\ sync' = [sync EXCEPT !.pc = "prune", !.todo = T]
  BY DEF FindStale, AtSync, PublisherInv, SyncFits
<1>1. T \subseteq Keys /\ "prune" \in SyncPCs
  BY LabelFacts DEF SyncPCs
<1>2. /\ sync' \in Syncing /\ sync'.pc = "prune" /\ sync'.todo = T /\ sync'.cur = None
      /\ sync'.existing = sync.existing /\ sync'.desired = sync.desired
  BY <1>0, <1>1 DEF Syncing
<1>3. Desired' = Desired
  BY <1>2 DEF Desired
<1>4. SyncFits'
  BY <1>2, <1>3 DEF SyncFits
<1> QED
  BY <1>4 DEF FindStale, Outside, PublisherInv, WorldOK, FaultsTypeOK

LEMMA PrunePoolFits == ASSUME PublisherInv, PrunePool PROVE PublisherInv'
<1>0. /\ sync \in Syncing /\ sync.pc = "prune" /\ sync.cur = None
      /\ \A k \in sync.todo : k \in Labels \ Desired /\ Published(sync.existing[k]) # {}
  BY DEF PrunePool, AtSync, PublisherInv, SyncFits
<1>1. ASSUME NEW k \in sync.todo,
             sync' = [sync EXCEPT !.cur = k, !.todo = @ \ {k},
                                  !.left = Published(sync.existing[k])]
      PROVE  SyncFits'
  <2>1. k \in Labels \ Desired /\ k \in Keys /\ Published(sync.existing[k]) \subseteq Shards
    BY <1>0, <1>1, LabelFacts DEF Published
  <2>2. /\ sync' \in Syncing /\ sync'.pc = "prune" /\ sync'.cur = k
        /\ sync'.todo = sync.todo \ {k} /\ sync'.left = Published(sync.existing[k])
        /\ sync'.existing = sync.existing /\ sync'.desired = sync.desired
    BY <1>0, <1>1, <2>1 DEF Syncing
  <2>3. Desired' = Desired
    BY <2>2 DEF Desired
  <2> QED
    BY <1>0, <2>1, <2>2, <2>3 DEF SyncFits
<1>2. ASSUME sync' = [sync EXCEPT !.pc = "apply", !.todo = Desired] PROVE SyncFits'
  <2>1. Desired \subseteq Keys /\ "apply" \in SyncPCs
    BY LabelFacts DEF SyncPCs, Desired
  <2>2. /\ sync' \in Syncing /\ sync'.pc = "apply" /\ sync'.todo = Desired
        /\ sync'.desired = sync.desired
    BY <1>0, <1>2, <2>1 DEF Syncing
  <2>3. Desired' = Desired
    BY <2>2 DEF Desired
  <2> QED
    BY <2>2, <2>3 DEF SyncFits
<1> QED
  BY <1>1, <1>2 DEF PrunePool, Outside, PublisherInv, WorldOK, FaultsTypeOK

\* What PruneSlice does to the slices, to the Sync and to the cache.
LEMMA PruneSliceMoves ==
    ASSUME PublisherInv, PruneSlice
    PROVE  \E k \in Labels \ Desired, i \in Shards :
              /\ k = sync.cur /\ sync.pc = "prune"
              /\ slices' = slices \/ slices' = [slices EXCEPT ![k][i] = None]
              /\ \/ /\ sync' = [sync EXCEPT !.left = sync.left \ {i}]
                    /\ sync.left \ {i} # {} /\ UNCHANGED cache
                 \/ /\ sync' = [sync EXCEPT !.cur = None, !.left = {}]
                    /\ cache' = cache \/ cache' = [cache EXCEPT ![k] = None]
<1>0. /\ sync \in Syncing /\ sync.pc = "prune" /\ sync.cur # None
      /\ sync.cur \in Labels \ Desired /\ sync.left # {} /\ sync.left \in SUBSET Shards
  BY DEF PruneSlice, AtSync, PublisherInv, SyncFits, Syncing
<1>1. FirstListed(sync.left) \in Shards
  BY <1>0, FirstListedIsLeast
<1>2. PICK k \in Labels \ Desired, i \in Shards : k = sync.cur /\ i = FirstListed(sync.left)
  BY <1>0, <1>1
<1> QED
  BY <1>0, <1>2 DEF PruneSlice, Remote, DeleteSlice

LEMMA PruneSliceFits == ASSUME PublisherInv, PruneSlice PROVE PublisherInv'
<1>0. PICK k \in Labels \ Desired, i \in Shards :
              /\ k = sync.cur /\ sync.pc = "prune"
              /\ slices' = slices \/ slices' = [slices EXCEPT ![k][i] = None]
              /\ \/ /\ sync' = [sync EXCEPT !.left = sync.left \ {i}]
                    /\ sync.left \ {i} # {} /\ UNCHANGED cache
                 \/ /\ sync' = [sync EXCEPT !.cur = None, !.left = {}]
                    /\ cache' = cache \/ cache' = [cache EXCEPT ![k] = None]
  BY PruneSliceMoves
<1>1. slices' \in Listing
  <2>1. slices \in Listing /\ k \in Labels
    BY DEF PublisherInv, WorldOK
  <2>2. [slices EXCEPT ![k][i] = None] \in Listing
    BY <2>1, SliceUpdate
  <2> QED
    BY <1>0, <2>1, <2>2
<1>2. cache' \in [Keys -> Cached \cup {None}]
  BY <1>0 DEF PublisherInv, WorldOK
<1>3. FaultsTypeOK'
  BY FaultSteps DEF PruneSlice, Remote, PublisherInv, WorldOK
<1>4. /\ sync' \in Syncing /\ sync'.pc = "prune" /\ sync'.todo = sync.todo
      /\ sync'.existing = sync.existing /\ sync'.desired = sync.desired
      /\ sync'.cur # None => sync'.cur = k /\ sync'.left # {}
  BY <1>0 DEF PublisherInv, SyncFits, Syncing
<1>5. Desired' = Desired
  BY <1>4 DEF Desired
<1>6. SyncFits'
  BY <1>0, <1>4, <1>5 DEF PublisherInv, SyncFits
<1> QED
  BY <1>1, <1>2, <1>3, <1>6 DEF PruneSlice, Outside, PublisherInv, WorldOK

LEMMA ExistingType ==
    ASSUME PublisherInv, NEW k
    PROVE  Existing(k) \in [Shards -> Slice \cup {None}]
BY DEF Existing, NoSlices, PublisherInv, SyncFits, Syncing

LEMMA NextGenerationType ==
    ASSUME PublisherInv, NEW p \in Pools, NEW d, NEW ss \in [Shards -> Slice \cup {None}]
    PROVE  nextGeneration(p, d, ss) \in Nat
<1>1. Published(ss) # {} => ss[FirstListed(Published(ss))].gen \in Nat
  BY FirstGeneration
<1>2. cache[p] # None => cache[p].gen \in Nat
  BY LabelFacts DEF PublisherInv, WorldOK, Cached
<1> QED
  BY <1>1, <1>2 DEF nextGeneration

LEMMA StartPoolMoves ==
    ASSUME PublisherInv, StartPool
    PROVE  \E p \in sync.todo :
              /\ p \in Pools /\ sync.desired[p] \in Definition
              /\ nextGeneration(p, sync.desired[p], Existing(p)) \in Nat
              /\ sync' = [sync EXCEPT !.pc = "put", !.cur = p, !.todo = @ \ {p}, !.next = 0,
                             !.gen = nextGeneration(p, sync.desired[p], Existing(p))]
<1>0. /\ sync \in Syncing /\ sync.pc = "apply" /\ sync.todo # {} /\ sync.todo \subseteq Desired
      /\ Desired \subseteq Pools /\ Pools \subseteq Nat
  BY PublisherAssumption DEF StartPool, AtSync, PublisherInv, SyncFits, Desired
<1>1. PICK p \in sync.todo : p = First(sync.todo)
  BY <1>0, FirstIsLeast
<1>2. p \in Pools /\ sync.desired[p] \in Definition
  BY <1>0 DEF Desired, Syncing
<1>3. nextGeneration(p, sync.desired[p], Existing(p)) \in Nat
  BY <1>2, ExistingType, NextGenerationType
<1> QED
  BY <1>1, <1>2, <1>3 DEF StartPool

LEMMA StartPoolFits == ASSUME PublisherInv, StartPool PROVE PublisherInv'
<1>1. PICK p \in sync.todo :
              /\ p \in Pools /\ sync.desired[p] \in Definition
              /\ nextGeneration(p, sync.desired[p], Existing(p)) \in Nat
              /\ sync' = [sync EXCEPT !.pc = "put", !.cur = p, !.todo = @ \ {p}, !.next = 0,
                             !.gen = nextGeneration(p, sync.desired[p], Existing(p))]
  BY StartPoolMoves
<1>2. /\ sync \in Syncing /\ sync.todo \subseteq Desired /\ p \in Keys /\ "put" \in SyncPCs
  BY <1>1, LabelFacts DEF StartPool, AtSync, PublisherInv, SyncFits, SyncPCs
<1>3. PICK gen \in Nat : gen = nextGeneration(p, sync.desired[p], Existing(p))
  BY <1>1
<1>4. /\ sync' \in Syncing /\ sync'.pc = "put" /\ sync'.cur = p /\ sync'.next = 0
      /\ sync'.todo = sync.todo \ {p} /\ sync'.desired = sync.desired
  BY <1>1, <1>2, <1>3 DEF Syncing
<1>5. Desired' = Desired
  BY <1>4 DEF Desired
<1>6. Width' \in Nat
  BY <1>1, <1>4, ShardCounts DEF Width, Definition
<1>7. SyncFits'
  BY <1>1, <1>2, <1>4, <1>5, <1>6 DEF SyncFits
<1> QED
  BY <1>7 DEF StartPool, Outside, PublisherInv, WorldOK, FaultsTypeOK

LEMMA ForgetPoolsFits == ASSUME PublisherInv, ForgetPools PROVE PublisherInv'
<1>0. sync \in Syncing /\ "classes" \in SyncPCs
  BY DEF PublisherInv, SyncFits, SyncPCs
<1>1. sync' \in Syncing /\ sync'.pc = "classes"
  BY <1>0 DEF ForgetPools, Syncing
<1>2. SyncFits'
  BY <1>1 DEF SyncFits
<1>3. cache' \in [Keys -> Cached \cup {None}]
  BY DEF ForgetPools, PublisherInv, WorldOK
<1> QED
  BY <1>2, <1>3 DEF ForgetPools, Outside, PublisherInv, WorldOK, FaultsTypeOK

\* What is known of the pool at hand.
LEMMA AtHand ==
    ASSUME PublisherInv, sync.pc \in {"put", "trim"}
    PROVE  /\ sync \in Syncing /\ sync.cur \in Pools /\ sync.cur \in Desired \ sync.todo
           /\ sync.desired[sync.cur] \in Definition /\ sync.gen \in Nat
           /\ sync.todo \subseteq Desired
           /\ Width \in 1 .. MaxShards /\ DnsLabel[sync.cur] \in Labels
<1>1. /\ sync \in Syncing /\ sync.cur \in Desired \ sync.todo /\ sync.cur \in Pools
      /\ sync.todo \subseteq Desired
  BY DEF PublisherInv, SyncFits, Desired
<1>2. sync.desired[sync.cur] \in Definition /\ sync.gen \in Nat
  BY <1>1 DEF Desired, Syncing
<1> QED
  BY <1>1, <1>2, ShardCounts, LabelFacts DEF Width, Definition

LEMMA SkipFits ==
    ASSUME PublisherInv, sync.pc \in {"put", "trim"}, SkipPool
    PROVE  SyncFits' /\ torn' \in [Pools -> BOOLEAN]
<1>1. sync \in Syncing /\ sync.todo \subseteq Desired /\ "apply" \in SyncPCs
  BY AtHand DEF SyncPCs
<1>2. /\ sync' \in Syncing /\ sync'.pc = "apply" /\ sync'.todo = sync.todo
      /\ sync'.desired = sync.desired
  BY <1>1 DEF SkipPool, Syncing
<1>3. Desired' = Desired
  BY <1>2 DEF Desired
<1>4. torn' \in [Pools -> BOOLEAN]
  BY DEF SkipPool, PublisherInv, WorldOK
<1> QED
  BY <1>1, <1>2, <1>3, <1>4 DEF SyncFits

\* What PutSlice does: it writes the shard that is next or not, and goes on to
\* the next one or gives the pool up.
LEMMA PutSliceMoves ==
    ASSUME PublisherInv, PutSlice
    PROVE  LET p == sync.cur
               i == sync.next
               wanted == buildResourceSlices(p, sync.desired[p], sync.gen)
           IN /\ sync.pc = "put" /\ i \in Shards /\ i < Width
              /\ wanted[i] \in Slice
              /\ \/ slices' = slices
                 \/ /\ slices' = [slices EXCEPT ![DnsLabel[p]][i] = wanted[i]]
                    /\ Existing(p)[i] # wanted[i] /\ p \notin Rejected
              /\ \/ SkipPool
                 \/ /\ sync' = [sync EXCEPT !.next = i + 1] /\ torn' = torn
                    /\ Existing(p)[i] # wanted[i] =>
                          slices' = [slices EXCEPT ![DnsLabel[p]][i] = wanted[i]]
              /\ FaultsTypeOK'
<1> DEFINE p == sync.cur
           i == sync.next
           wanted == buildResourceSlices(p, sync.desired[p], sync.gen)
<1>1. /\ sync.pc = "put" /\ i \in Published(wanted)
      /\ \/ /\ Existing(p)[i] = wanted[i] /\ slices' = slices /\ UNCHANGED faults
            /\ sync' = [sync EXCEPT !.next = i + 1] /\ UNCHANGED torn
         \/ /\ Existing(p)[i] # wanted[i] /\ p \notin Rejected
            /\ Remote(slices' = [slices EXCEPT ![DnsLabel[p]][i] = wanted[i]],
                      UNCHANGED slices,
                      sync' = [sync EXCEPT !.next = i + 1] /\ UNCHANGED torn, SkipPool)
         \/ SkipPool /\ UNCHANGED <<slices, faults>>
  BY DEF PutSlice, samePublishedResourceSlice, AtSync
<1>2. FaultsTypeOK'
  BY <1>1, FaultSteps DEF Remote, PublisherInv, WorldOK
<1>3. i \in Shards /\ i < Width /\ wanted[i] \in Slice
  BY <1>1, AtHand, Rendering DEF Width
<1> QED
  BY <1>1, <1>2, <1>3 DEF Remote

LEMMA PutSliceFits == ASSUME PublisherInv, PutSlice PROVE PublisherInv'
<1> DEFINE p == sync.cur
           i == sync.next
           wanted == buildResourceSlices(p, sync.desired[p], sync.gen)
<1>0. /\ sync.pc = "put" /\ i \in Shards /\ i < Width /\ wanted[i] \in Slice
      /\ slices' = slices \/ slices' = [slices EXCEPT ![DnsLabel[p]][i] = wanted[i]]
      /\ SkipPool \/ (sync' = [sync EXCEPT !.next = i + 1] /\ torn' = torn)
      /\ FaultsTypeOK'
  BY PutSliceMoves
<1>1. slices' \in Listing
  BY <1>0, AtHand, SliceUpdate DEF PublisherInv, WorldOK
<1>2. CASE sync' = [sync EXCEPT !.next = i + 1] /\ torn' = torn
  <2>1. /\ sync \in Syncing /\ p \in Desired \ sync.todo /\ sync.todo \subseteq Desired
        /\ Width \in Nat /\ i \in Nat
    BY <1>0, AtHand, ShardsAreNaturals
  <2>2. /\ sync' \in Syncing /\ sync'.pc = "put" /\ sync'.cur = p /\ sync'.next = i + 1
        /\ sync'.todo = sync.todo /\ sync'.desired = sync.desired
    BY <1>0, <1>2, <2>1 DEF Syncing
  <2>3. Desired' = Desired /\ Width' = Width
    BY <2>2 DEF Desired, Width
  <2>4. i + 1 \in 0 .. Width
    BY <1>0, <2>1
  <2> QED
    BY <1>1, <1>0, <1>2, <2>1, <2>2, <2>3, <2>4
    DEF PutSlice, samePublishedResourceSlice, SyncFits, PublisherInv, WorldOK
<1>3. CASE SkipPool
  BY <1>0, <1>1, <1>3, SkipFits
  DEF PutSlice, samePublishedResourceSlice, PublisherInv, WorldOK
<1> QED
  BY <1>0, <1>2, <1>3

LEMMA FinishPutFits == ASSUME PublisherInv, FinishPut PROVE PublisherInv'
<1> DEFINE L == {i \in Published(Existing(sync.cur)) : i >= Width}
<1>0. /\ sync.pc = "put" /\ sync' = [sync EXCEPT !.pc = "trim", !.left = L]
      /\ "trim" \in SyncPCs /\ L \subseteq Shards
  BY DEF FinishPut, AtSync, Width, Published, SyncPCs
<1>1. sync \in Syncing /\ sync.cur \in Desired \ sync.todo /\ sync.todo \subseteq Desired
  BY <1>0, AtHand
<1>2. /\ sync' \in Syncing /\ sync'.pc = "trim" /\ sync'.cur = sync.cur /\ sync'.left = L
      /\ sync'.todo = sync.todo /\ sync'.desired = sync.desired
  BY <1>0, <1>1 DEF Syncing
<1>3. Desired' = Desired /\ Width' = Width
  BY <1>2 DEF Desired, Width
<1>4. SyncFits'
  BY <1>1, <1>2, <1>3 DEF SyncFits
<1> QED
  BY <1>4 DEF FinishPut, Outside, PublisherInv, WorldOK, FaultsTypeOK

\* What TrimSlice does: it deletes a shard beyond the pool's width or not, and
\* goes on or gives the pool up.
LEMMA TrimSliceMoves ==
    ASSUME PublisherInv, TrimSlice
    PROVE  \E i \in sync.left :
              /\ sync.pc = "trim" /\ i \in Shards /\ i >= Width
              /\ slices' = slices \/ slices' = [slices EXCEPT ![DnsLabel[sync.cur]][i] = None]
              /\ \/ SkipPool
                 \/ /\ sync' = [sync EXCEPT !.left = @ \ {i}] /\ torn' = torn
                    /\ slices' = [slices EXCEPT ![DnsLabel[sync.cur]][i] = None]
              /\ FaultsTypeOK'
<1>1. PICK i \in sync.left :
          Remote(DeleteSlice(DnsLabel[sync.cur], i), UNCHANGED slices,
                 sync' = [sync EXCEPT !.left = @ \ {i}] /\ UNCHANGED torn, SkipPool)
  BY DEF TrimSlice
<1>2. sync.pc = "trim" /\ i \in Shards /\ i >= Width
  BY DEF TrimSlice, AtSync, PublisherInv, SyncFits, Syncing
<1>3. FaultsTypeOK'
  BY <1>1, FaultSteps DEF Remote, PublisherInv, WorldOK
<1> QED
  BY <1>1, <1>2, <1>3 DEF Remote, DeleteSlice

LEMMA TrimSliceFits == ASSUME PublisherInv, TrimSlice PROVE PublisherInv'
<1>0. PICK i \in sync.left :
              /\ sync.pc = "trim" /\ i \in Shards /\ i >= Width
              /\ slices' = slices \/ slices' = [slices EXCEPT ![DnsLabel[sync.cur]][i] = None]
              /\ SkipPool \/ (sync' = [sync EXCEPT !.left = @ \ {i}] /\ torn' = torn)
              /\ FaultsTypeOK'
  BY TrimSliceMoves
<1>1. slices' \in Listing
  BY <1>0, AtHand, SliceUpdate DEF PublisherInv, WorldOK
<1>2. CASE sync' = [sync EXCEPT !.left = @ \ {i}] /\ torn' = torn
  <2>1. /\ sync \in Syncing /\ sync.cur \in Desired \ sync.todo /\ sync.todo \subseteq Desired
        /\ \A j \in sync.left : j >= Width
    BY <1>0, AtHand DEF PublisherInv, SyncFits
  <2>2. /\ sync' \in Syncing /\ sync'.pc = "trim" /\ sync'.cur = sync.cur
        /\ sync'.left = sync.left \ {i}
        /\ sync'.todo = sync.todo /\ sync'.desired = sync.desired
    BY <1>0, <1>2, <2>1 DEF Syncing
  <2>3. Desired' = Desired /\ Width' = Width
    BY <2>2 DEF Desired, Width
  <2> QED
    BY <1>1, <1>0, <1>2, <2>1, <2>2, <2>3 DEF TrimSlice, SyncFits, PublisherInv, WorldOK
<1>3. CASE SkipPool
  BY <1>0, <1>1, <1>3, SkipFits DEF TrimSlice, PublisherInv, WorldOK
<1> QED
  BY <1>0, <1>2, <1>3

LEMMA FinishPoolFits == ASSUME PublisherInv, FinishPool PROVE PublisherInv'
<1>0. sync.pc = "trim" /\ "apply" \in SyncPCs
  BY DEF FinishPool, AtSync, SyncPCs
<1>1. /\ sync \in Syncing /\ sync.cur \in Pools /\ sync.todo \subseteq Desired
      /\ sync.desired[sync.cur] \in Definition /\ sync.gen \in Nat
  BY <1>0, AtHand
<1>2. /\ sync' \in Syncing /\ sync'.pc = "apply" /\ sync'.todo = sync.todo
      /\ sync'.desired = sync.desired
  BY <1>0, <1>1 DEF FinishPool, Syncing
<1>3. Desired' = Desired
  BY <1>2 DEF Desired
<1>4. SyncFits'
  BY <1>1, <1>2, <1>3 DEF SyncFits
<1>5. [def |-> sync.desired[sync.cur], gen |-> sync.gen] \in Cached
  BY <1>1 DEF Cached
<1>6. cache' \in [Keys -> Cached \cup {None}] /\ torn' \in [Pools -> BOOLEAN]
  BY <1>5 DEF FinishPool, PublisherInv, WorldOK
<1> QED
  BY <1>4, <1>6 DEF FinishPool, PublisherInv, WorldOK, FaultsTypeOK

LEMMA TypesOfDesired == WantedTypes \subseteq Types
BY PublisherAssumption DEF WantedTypes, Desired

LEMMA ListClassesFits == ASSUME PublisherInv, ListClasses PROVE PublisherInv'
<1>1. ASSUME sync' = [sync EXCEPT !.pc = "class", !.classes = class,
                                  !.todo = WantedTypes \cup Managed(class)]
      PROVE  SyncFits'
  <2>1. /\ WantedTypes \cup Managed(class) \subseteq Types /\ "class" \in SyncPCs
        /\ sync \in Syncing /\ class \in [Types -> ClassStates]
    BY TypesOfDesired DEF Managed, SyncPCs, PublisherInv, SyncFits, WorldOK
  <2>2. sync' \in Syncing /\ sync'.pc = "class" /\ sync'.todo \subseteq Types
    BY <1>1, <2>1 DEF Syncing
  <2> QED
    BY <2>2 DEF SyncFits
<1> QED
  BY <1>1, SyncEnds, FaultSteps DEF ListClasses, Outside, PublisherInv, WorldOK

\* A step that is done with a class and goes on to the next.
LEMMA ClassDone ==
    ASSUME PublisherInv, sync.pc = "class", NEW t, sync' = [sync EXCEPT !.todo = @ \ {t}]
    PROVE  SyncFits'
<1>1. sync \in Syncing /\ sync.todo \subseteq Types
  BY DEF PublisherInv, SyncFits
<1>2. sync' \in Syncing /\ sync'.pc = "class" /\ sync'.todo \subseteq Types
  BY <1>1 DEF Syncing
<1> QED
  BY <1>2 DEF SyncFits

LEMMA ClassFits ==
    ASSUME PublisherInv, NEW t \in Types, PutClass(t) \/ DeleteClass(t)
    PROVE  PublisherInv'
<1>1. sync.pc = "class"
  BY DEF PutClass, DeleteClass, AtSync
<1>2. EndSync \/ sync' = [sync EXCEPT !.todo = @ \ {t}]
  BY DEF PutClass, DeleteClass, Remote
<1>3. SyncFits'
  BY <1>1, <1>2, ClassDone, SyncEnds
<1>4. class' = class \/ class' = [class EXCEPT ![t] = "current"]
        \/ class' = [class EXCEPT ![t] = "absent"]
  BY DEF PutClass, DeleteClass, Remote, SetClass
<1>5. class' \in [Types -> ClassStates]
  BY <1>4 DEF PublisherInv, WorldOK, ClassStates
<1>6. FaultsTypeOK'
  BY FaultSteps DEF PutClass, DeleteClass, Remote, PublisherInv, WorldOK
<1> QED
  BY <1>3, <1>5, <1>6 DEF PutClass, DeleteClass, Outside, PublisherInv, WorldOK

LEMMA WorldFits ==
    ASSUME PublisherInv, ChangeStock \/ Tamper \/ Overlap \/ Restart
    PROVE  PublisherInv'
<1>1. CASE ChangeStock
  <2>1. changes' \in 0 .. MaxChanges
    BY <1>1, PublisherAssumption DEF ChangeStock, PublisherInv, WorldOK
  <2>2. stock' \in [Pools -> Definition \cup {None}]
    BY <1>1 DEF ChangeStock, PublisherInv, WorldOK
  <2>3. UNCHANGED <<slices, class, cache, sync, torn, faults>>
    BY <1>1 DEF ChangeStock
  <2> QED
    BY <2>1, <2>2, <2>3 DEF PublisherInv, WorldOK, FaultsTypeOK, SyncFits, Width, Desired
<1>2. CASE Tamper
  <2>1. slices' \in Listing
    BY <1>2, SliceUpdate DEF Tamper, DeleteSlice, PublisherInv, WorldOK
  <2>2. class' \in [Types -> ClassStates]
    BY <1>2 DEF Tamper, SetClass, PublisherInv, WorldOK, ClassStates
  <2>3. FaultsTypeOK' /\ UNCHANGED <<Outside, cache, sync>>
    BY <1>2, FaultSteps DEF Tamper, PublisherInv, WorldOK
  <2> QED
    BY <2>1, <2>2, <2>3 DEF Outside, PublisherInv, WorldOK, SyncFits, Width, Desired
<1>3. CASE Overlap
  <2>1. \A g \in Generations : g \in Nat
    BY DEF Generations, Published, PublisherInv, WorldOK, Listing, Slice
  <2>2. PICK p \in Pools \ Rejected, d \in Definition, i \in Shards,
             gen \in {1} \cup Generations \cup {g + 1 : g \in Generations} :
          /\ i < ShardCount(d.cap)
          /\ slices' = [slices EXCEPT ![DnsLabel[p]][i] = buildSlice(p, d, gen, i)]
    BY <1>3 DEF Overlap
  <2>3. gen \in Nat
    BY <2>1
  <2>4. buildSlice(p, d, gen, i) \in Slice
    BY <2>2, <2>3, Rendering
  <2>5. slices' \in Listing
    BY <2>2, <2>4, SliceUpdate, LabelFacts DEF PublisherInv, WorldOK
  <2>6. FaultsTypeOK' /\ UNCHANGED <<Outside, class, cache, sync>>
    BY <1>3, FaultSteps DEF Overlap, PublisherInv, WorldOK
  <2> QED
    BY <2>5, <2>6 DEF Outside, PublisherInv, WorldOK, SyncFits, Width, Desired
<1>4. CASE Restart
  <2>1. cache' \in [Keys -> Cached \cup {None}] /\ FaultsTypeOK' /\ EndSync
    BY <1>4, FaultSteps DEF Restart, PublisherInv, WorldOK
  <2> QED
    BY <1>4, <2>1, SyncEnds DEF Restart, Outside, PublisherInv, WorldOK
<1> QED
  BY <1>1, <1>2, <1>3, <1>4

\* Every step of a Sync finds what it needs (operator.go Sync, resourceslice.go
\* applyPool): the inductive invariant, whatever fails and whoever interferes.
LEMMA PublisherInvariant == PublisherSpec => []PublisherInv
<1>1. PublisherInit => PublisherInv
  <2> SUFFICES ASSUME PublisherInit PROVE PublisherInv
    OBVIOUS
  <2>1. SyncFits
    BY NoSyncFits DEF PublisherInit, SyncFits
  <2>2. slices \in Listing
    BY DEF PublisherInit, Listing, NoSlices
  <2> QED
    BY <2>1, <2>2, FaultAssumption, PublisherAssumption
    DEF PublisherInit, PublisherInv, WorldOK, FaultsTypeOK
<1>2. PublisherInv /\ [PublisherNext]_publisherVars => PublisherInv'
  <2> SUFFICES ASSUME PublisherInv, [PublisherNext]_publisherVars PROVE PublisherInv'
    OBVIOUS
  <2>1. CASE UNCHANGED publisherVars
    BY <2>1 DEF publisherVars, PublisherInv, WorldOK, FaultsTypeOK, SyncFits, Width, Desired
  <2>2. CASE SyncStep
    <3>1. CASE FinishSync
      BY <3>1, SyncEnds DEF FinishSync, Outside, PublisherInv, WorldOK, FaultsTypeOK
    <3> QED
      BY <2>2, <3>1, ListSlicesFits, ReadPoolFits, FindStaleFits, PrunePoolFits,
         PruneSliceFits, StartPoolFits, ForgetPoolsFits, PutSliceFits, FinishPutFits,
         TrimSliceFits, FinishPoolFits, ListClassesFits, ClassFits
      DEF SyncStep
  <2> QED
    BY <2>1, <2>2, WorldFits DEF PublisherNext
<1> QED
  BY <1>1, <1>2, PTL DEF PublisherSpec

\* The operator's state is always well-formed (operator.go Sync, applyPool): what
\* is published has at least one device per slice and no more than fit; only pools
\* that are not desired are pruned, only those that are get written, shards in order
\* up to the pool's width, and only those beyond it are trimmed.
THEOREM PublisherTypes == PublisherSpec => []PublisherTypeOK
BY PublisherInvariant, InvGivesTypes, PTL

-------------------------------------------------------------------------------
(* What is wanted is kept *)

\* A step of the operator takes no slice away but one of a pool that it prunes
\* or one beyond the width of the pool at hand.
LEMMA SlicesStand ==
    ASSUME PublisherInv, OwnLabels, PublisherNext, sync' # sync,
           NEW p \in Pools, NEW i \in Shards, sync.desired[p] # None,
           i < ShardCount(sync.desired[p].cap), slices[p][i] # None
    PROVE  slices'[p][i] # None
<1>0. p \in Labels /\ p \in Desired /\ slices \in Listing
  BY LabelFacts DEF OwnLabels, Desired, PublisherInv, WorldOK
<1>1. CASE UNCHANGED slices
  BY <1>1
<1>2. CASE PruneSlice
  <2>1. PICK k \in Labels \ Desired, j \in Shards :
           slices' = slices \/ slices' = [slices EXCEPT ![k][j] = None]
    BY <1>2, PruneSliceMoves
  <2> QED
    BY <1>0, <2>1 DEF Listing
<1>3. CASE PutSlice
  <2> DEFINE x == buildResourceSlices(sync.cur, sync.desired[sync.cur], sync.gen)[sync.next]
  <2>1. /\ sync.pc = "put" /\ sync.next \in Shards /\ x \in Slice
        /\ slices' = slices \/ slices' = [slices EXCEPT ![DnsLabel[sync.cur]][sync.next] = x]
    BY <1>3, PutSliceMoves
  <2>2. DnsLabel[sync.cur] \in Labels /\ x # None
    BY <2>1, AtHand, PublisherAssumption
  <2> HIDE DEF x
  <2> QED
    BY <1>0, <2>1, <2>2, SliceUpdate
<1>4. CASE TrimSlice
  <2>1. PICK j \in sync.left :
           /\ sync.pc = "trim" /\ j \in Shards /\ j >= Width
           /\ slices' = slices \/ slices' = [slices EXCEPT ![DnsLabel[sync.cur]][j] = None]
    BY <1>4, TrimSliceMoves
  <2>2. sync.cur \in Labels /\ DnsLabel[sync.cur] = sync.cur /\ Width \in Nat /\ j \in Nat
    BY <2>1, AtHand, ShardsAreNaturals DEF OwnLabels
  <2>3. sync.cur = p => j # i
    BY <2>1, <2>2 DEF Width
  <2> QED
    BY <1>0, <2>1, <2>2, <2>3 DEF Listing
<1>5. ~Tamper /\ ~Overlap /\ ~ChangeStock
  BY DEF Tamper, Overlap, ChangeStock
<1> QED
  BY <1>1, <1>2, <1>3, <1>4, <1>5
  DEF PublisherNext, SyncStep, ListSlices, ReadPool, FindStale, PrunePool, StartPool,
      ForgetPools, FinishPut, FinishPool, ListClasses, PutClass, DeleteClass, FinishSync,
      Restart

\* A Sync deletes no slice of a pool that it is about to publish (operator.go
\* Sync, applyPool), whatever fails, as long as a pool's name is read back as the
\* pool it was made from.
THEOREM WantedIsKept ==
    ASSUME OwnLabels
    PROVE  PublisherSpec => KeepsWhatIsWanted
<1> DEFINE A == \A p \in Pools, i \in Shards :
                  /\ sync.desired[p] # None /\ sync' # sync
                  /\ i < ShardCount(sync.desired[p].cap)
                  /\ slices[DnsLabel[p]][i] # None
                  => slices'[DnsLabel[p]][i] # None
<1>1. PublisherInv /\ [PublisherNext]_publisherVars => [A]_publisherVars
  <2> SUFFICES ASSUME PublisherInv, PublisherNext PROVE A
    OBVIOUS
  <2> QED
    BY SlicesStand DEF OwnLabels
<1> QED
  BY <1>1, PublisherInvariant, PTL DEF PublisherSpec, KeepsWhatIsWanted

-------------------------------------------------------------------------------
(* What was listed stands until the pool's turn *)

\* With pool names that are read back as they were made, a pool's slices are
\* published and listed under the pool itself.
LEMMA PoolsAreLabels ==
    ASSUME OwnLabels, PublisherInv, NEW p \in Pools
    PROVE  /\ p \in Labels /\ DnsLabel[p] = p /\ Existing(p) = sync.existing[p]
           /\ slices[p] \in [Shards -> Slice \cup {None}]
           /\ sync.existing[p] \in [Shards -> Slice \cup {None}]
<1>1. p \in Labels /\ DnsLabel[p] = p
  BY LabelFacts DEF OwnLabels
<1> QED
  BY <1>1 DEF Existing, PublisherInv, WorldOK, Listing, SyncFits, Syncing

\* A step of a Sync that leaves it at a pool's turn, or before the first one,
\* and changes no slice of a pool that is still to come.
LEMMA TurnStands ==
    ASSUME ListingStands, sync.pc \in {"apply", "put", "trim"}, sync'.pc = "apply",
           sync'.todo \subseteq sync.todo, sync'.existing = sync.existing,
           \A p \in sync.todo : slices'[p] = slices[p]
    PROVE  ListingStands'
BY DEF ListingStands

LEMMA OtherPoolsStand ==
    ASSUME PublisherInv, sync.pc \in {"put", "trim"}, OwnLabels, NEW i, NEW x,
           slices' = slices \/ slices' = [slices EXCEPT ![DnsLabel[sync.cur]][i] = x]
    PROVE  \A p \in Pools : p # sync.cur => slices'[p] = slices[p]
<1>1. sync.cur \in Pools /\ DnsLabel[sync.cur] = sync.cur
  BY AtHand DEF OwnLabels
<1>2. \A p \in Pools : p \in Labels
  BY LabelFacts DEF OwnLabels
<1> QED
  BY <1>1, <1>2 DEF PublisherInv, WorldOK, Listing

LEMMA SkipStands ==
    ASSUME PublisherInv, ListingStands, sync.pc \in {"put", "trim"}, SkipPool,
           \A p \in Pools : p # sync.cur => slices'[p] = slices[p]
    PROVE  ListingStands'
<1>1. sync \in Syncing /\ sync.cur \notin sync.todo /\ sync.todo \subseteq Pools
  BY AtHand DEF Desired
<1>2. sync'.pc = "apply" /\ sync'.todo = sync.todo /\ sync'.existing = sync.existing
  BY <1>1 DEF SkipPool, Syncing
<1> QED
  BY <1>1, <1>2, TurnStands

LEMMA PutSliceStands ==
    ASSUME PublisherInv, ListingStands, OwnLabels, PutSlice
    PROVE  ListingStands'
<1>0. PICK p \in Pools, i \in Shards : p = sync.cur /\ i = sync.next
  <2>1. sync.pc = "put" /\ sync.next \in Shards
    BY PutSliceMoves
  <2> QED
    BY <2>1, AtHand
<1>1. PICK d \in Definition, gen \in Nat : d = sync.desired[p] /\ gen = sync.gen
  BY <1>0, AtHand, PutSliceMoves
<1> DEFINE wanted == buildResourceSlices(p, d, gen)
<1>2. /\ sync.pc = "put"
      /\ slices' = slices \/ slices' = [slices EXCEPT ![DnsLabel[p]][i] = wanted[i]]
      /\ \/ SkipPool
         \/ /\ sync' = [sync EXCEPT !.next = i + 1] /\ torn' = torn
            /\ Existing(p)[i] # wanted[i] =>
                  slices' = [slices EXCEPT ![DnsLabel[p]][i] = wanted[i]]
  BY <1>0, <1>1, PutSliceMoves
<1>3. /\ sync \in Syncing /\ p \notin sync.todo /\ sync.todo \subseteq Pools
      /\ slices \in Listing
  BY <1>0, <1>2, AtHand DEF Desired, PublisherInv, WorldOK
<1>4. p \in Labels /\ DnsLabel[p] = p /\ Existing(p) = sync.existing[p]
  BY PoolsAreLabels
<1> HIDE DEF wanted
<1>5. \A q \in Pools : q # p => slices'[q] = slices[q]
  BY <1>0, <1>2, OtherPoolsStand
<1>6. CASE SkipPool
  BY <1>0, <1>2, <1>5, <1>6, SkipStands
<1>7. CASE /\ sync' = [sync EXCEPT !.next = i + 1]
           /\ Existing(p)[i] # wanted[i] =>
                 slices' = [slices EXCEPT ![DnsLabel[p]][i] = wanted[i]]
  <2>1. /\ sync'.pc = "put" /\ sync'.cur = p /\ sync'.next = i + 1 /\ sync'.gen = gen
        /\ sync'.existing = sync.existing /\ sync'.desired = sync.desired
        /\ sync'.todo = sync.todo
    BY <1>0, <1>1, <1>2, <1>3, <1>7 DEF Syncing
  <2>2. \A j \in Shards : slices[p][j] = IF j < i THEN wanted[j] ELSE sync.existing[p][j]
    BY <1>0, <1>1, <1>2 DEF ListingStands, wanted
  <2>3. /\ slices'[p][i] = wanted[i]
        /\ \A j \in Shards : j # i => slices'[p][j] = slices[p][j]
    <3>1. i \in Nat
      BY ShardsAreNaturals
    <3>2. slices[p][i] = sync.existing[p][i]
      BY <2>2, <3>1
    <3>3. CASE slices' = [slices EXCEPT ![p][i] = wanted[i]]
      BY <1>3, <1>4, <3>3 DEF Listing
    <3>4. CASE slices' = slices /\ sync.existing[p][i] = wanted[i]
      BY <3>2, <3>4
    <3> QED
      BY <1>2, <1>4, <1>7, <3>3, <3>4
  <2>4. \A j \in Shards : slices'[p][j] = IF j < i + 1 THEN wanted[j] ELSE sync.existing[p][j]
    <3> SUFFICES ASSUME NEW j \in Shards
                 PROVE  slices'[p][j] = IF j < i + 1 THEN wanted[j] ELSE sync.existing[p][j]
      OBVIOUS
    <3>1. i \in Nat /\ j \in Nat
      BY ShardsAreNaturals
    <3>2. CASE j = i
      BY <2>3, <3>1, <3>2
    <3>3. CASE j # i
      <4>1. j < i + 1 <=> j < i
        BY <3>1, <3>3
      <4> QED
        BY <2>2, <2>3, <3>3, <4>1
    <3> QED
      BY <3>2, <3>3
  <2>5. \A q \in sync.todo : slices'[q] = sync.existing[q]
    BY <1>2, <1>3, <1>5 DEF ListingStands
  <2> QED
    BY <2>1, <2>4, <2>5, <1>0, <1>1, <1>2 DEF ListingStands, wanted
<1> QED
  BY <1>2, <1>6, <1>7

LEMMA StartPoolStands ==
    ASSUME PublisherInv, ListingStands, OwnLabels, StartPool
    PROVE  ListingStands'
<1>1. PICK p \in sync.todo :
              /\ p \in Pools /\ sync.desired[p] \in Definition
              /\ sync' = [sync EXCEPT !.pc = "put", !.cur = p, !.todo = @ \ {p}, !.next = 0,
                             !.gen = nextGeneration(p, sync.desired[p], Existing(p))]
  BY StartPoolMoves
<1>2. sync \in Syncing /\ sync.pc = "apply" /\ UNCHANGED slices
  BY DEF StartPool, AtSync, PublisherInv, SyncFits
<1>3. Existing(p) = sync.existing[p]
  BY <1>1, PoolsAreLabels
<1>4. /\ sync'.pc = "put" /\ sync'.cur = p /\ sync'.next = 0
      /\ sync'.todo = sync.todo \ {p} /\ sync'.desired = sync.desired
      /\ sync'.existing = sync.existing
      /\ sync'.gen = nextGeneration(p, sync.desired[p], sync.existing[p])
  BY <1>1, <1>2, <1>3 DEF Syncing
<1>5. \A q \in sync.todo : slices'[q] = sync.existing[q]
  BY <1>2 DEF ListingStands
<1>6. \A i \in Shards : ~(i < 0)
  BY ShardsAreNaturals
<1>7. /\ Published(sync.existing[p]) # {}
      /\ currentDefinitionMatches(p, sync.desired[p], sync.existing[p])
      => sync'.gen = sync.existing[p][FirstListed(Published(sync.existing[p]))].gen
  BY <1>4 DEF nextGeneration
<1> QED
  BY <1>4, <1>5, <1>6, <1>7 DEF ListingStands

\* The steps before the first pool's turn.
LEMMA EarlyStands ==
    ASSUME PublisherInv, ListingStands, OwnLabels,
           ListSlices \/ ReadPool \/ FindStale \/ PrunePool \/ PruneSlice
    PROVE  ListingStands'
<1>0. sync \in Syncing /\ slices \in Listing /\ Desired \subseteq Labels
  BY LabelFacts DEF PublisherInv, SyncFits, WorldOK, Desired, OwnLabels
<1>1. CASE ListSlices
  <2>1. sync'.pc = "inventory" /\ sync'.existing = slices /\ slices' = slices
    BY <1>1, NoSyncFits DEF ListSlices, Syncing
  <2> QED
    BY <2>1 DEF ListingStands
<1>2. CASE ReadPool
  <2>1. CASE EndSync
    BY <2>1, NoSyncFits DEF EndSync, ListingStands
  <2>2. ASSUME NEW p \in sync.todo,
               sync' = [sync EXCEPT !.todo = @ \ {p}, !.desired[p] = stock[p]]
        PROVE  ListingStands'
    <3>1. sync.pc = "inventory" /\ UNCHANGED slices
      BY <1>2 DEF ReadPool, AtSync
    <3>2. sync'.pc = "inventory" /\ sync'.existing = sync.existing
      BY <1>0, <2>2, <3>1 DEF Syncing
    <3> QED
      BY <3>1, <3>2 DEF ListingStands
  <2> QED
    BY <1>2, <2>1, <2>2 DEF ReadPool
<1>3. CASE FindStale
  <2>1. /\ sync.pc = "inventory" /\ UNCHANGED slices
        /\ sync'.pc = "prune" /\ sync'.existing = sync.existing
        /\ sync'.desired = sync.desired
    BY <1>0, <1>3 DEF FindStale, AtSync, Syncing
  <2> QED
    BY <2>1 DEF ListingStands
<1>4. CASE PrunePool
  <2>1. sync.pc = "prune" /\ UNCHANGED slices
    BY <1>4 DEF PrunePool, AtSync
  <2>2. \/ /\ sync'.pc = "prune" /\ sync'.existing = sync.existing
           /\ sync'.desired = sync.desired
        \/ sync'.pc = "apply" /\ sync'.existing = sync.existing /\ sync'.todo = Desired
    BY <1>0, <1>4, <2>1 DEF PrunePool, Syncing
  <2> QED
    BY <2>1, <2>2 DEF ListingStands, Desired
<1>5. CASE PruneSlice
  <2>1. PICK k \in Labels \ Desired, i \in Shards :
              /\ k = sync.cur /\ sync.pc = "prune"
              /\ slices' = slices \/ slices' = [slices EXCEPT ![k][i] = None]
              /\ \/ sync' = [sync EXCEPT !.left = sync.left \ {i}]
                 \/ sync' = [sync EXCEPT !.cur = None, !.left = {}]
    BY <1>5, PruneSliceMoves
  <2>2. /\ sync'.pc = "prune" /\ sync'.existing = sync.existing
        /\ sync'.desired = sync.desired
    BY <1>0, <2>1 DEF Syncing
  <2>3. \A p \in Desired : slices'[p] = slices[p]
    BY <1>0, <2>1 DEF Listing
  <2> QED
    BY <2>1, <2>2, <2>3 DEF ListingStands, Desired
<1> QED
  BY <1>1, <1>2, <1>3, <1>4, <1>5

\* The pool is written: what is left over is as listed.
LEMMA FinishPutStands ==
    ASSUME PublisherInv, ListingStands, OwnLabels, FinishPut
    PROVE  ListingStands'
<1> DEFINE p == sync.cur
           L == {i \in Published(Existing(p)) : i >= Width}
           wanted == buildResourceSlices(p, sync.desired[p], sync.gen)
<1>1. /\ sync.pc = "put" /\ sync.next = Width /\ UNCHANGED slices
      /\ sync' = [sync EXCEPT !.pc = "trim", !.left = L]
  BY DEF FinishPut, AtSync, Width
<1>2. sync \in Syncing /\ p \in Pools /\ Width \in Nat
  BY <1>1, AtHand
<1>3. /\ sync'.pc = "trim" /\ sync'.left = L /\ sync'.cur = p /\ sync'.gen = sync.gen
      /\ sync'.existing = sync.existing /\ sync'.desired = sync.desired
      /\ sync'.todo = sync.todo
  BY <1>1, <1>2 DEF Syncing
<1>4. Width' = Width
  BY <1>3 DEF Width
<1>5. \A i \in Shards : slices[p][i] = IF i < Width THEN wanted[i] ELSE sync.existing[p][i]
  BY <1>1 DEF ListingStands
<1>6. \A i \in Shards : ~(i < Width) =>
          sync.existing[p][i] = IF i \in L THEN sync.existing[p][i] ELSE None
  <2>1. \A i \in Shards : ~(i < Width) => i >= Width
    BY <1>2, ShardsAreNaturals
  <2>2. Existing(p) = sync.existing[p]
    BY <1>2, PoolsAreLabels
  <2> QED
    BY <2>1, <2>2 DEF Published
<1>7. \A i \in Shards : slices[p][i] =
          IF i < Width THEN wanted[i]
          ELSE IF i \in L THEN sync.existing[p][i] ELSE None
  BY <1>5, <1>6
<1>8. \A q \in sync.todo : slices[q] = sync.existing[q]
  BY <1>1 DEF ListingStands
<1> HIDE DEF L
<1> QED
  BY <1>1, <1>3, <1>4, <1>7, <1>8 DEF ListingStands

\* A slice that is left over goes.
LEMMA TrimSliceStands ==
    ASSUME PublisherInv, ListingStands, OwnLabels, TrimSlice
    PROVE  ListingStands'
<1> DEFINE p == sync.cur
           wanted == buildResourceSlices(p, sync.desired[p], sync.gen)
<1>1. PICK i \in sync.left :
          /\ sync.pc = "trim" /\ i \in Shards /\ i >= Width
          /\ slices' = slices \/ slices' = [slices EXCEPT ![DnsLabel[p]][i] = None]
          /\ \/ SkipPool
             \/ /\ sync' = [sync EXCEPT !.left = @ \ {i}] /\ torn' = torn
                /\ slices' = [slices EXCEPT ![DnsLabel[p]][i] = None]
  BY TrimSliceMoves
<1>2. \A q \in Pools : q # p => slices'[q] = slices[q]
  BY <1>1, OtherPoolsStand
<1>3. CASE SkipPool
  BY <1>1, <1>2, <1>3, SkipStands
<1>4. CASE /\ sync' = [sync EXCEPT !.left = @ \ {i}]
           /\ slices' = [slices EXCEPT ![DnsLabel[p]][i] = None]
  <2>1. /\ sync \in Syncing /\ p \in Pools /\ p \notin sync.todo /\ sync.todo \subseteq Pools
        /\ Width \in Nat /\ DnsLabel[p] = p /\ p \in Labels
    BY <1>1, AtHand DEF Desired, OwnLabels
  <2>2. /\ sync'.pc = "trim" /\ sync'.left = sync.left \ {i} /\ sync'.cur = p
        /\ sync'.existing = sync.existing /\ sync'.desired = sync.desired
        /\ sync'.todo = sync.todo /\ sync'.gen = sync.gen
    BY <1>1, <1>4, <2>1 DEF Syncing
  <2>3. Width' = Width
    BY <2>2 DEF Width
  <2>4. \A j \in Shards : slices[p][j] =
            IF j < Width THEN wanted[j]
            ELSE IF j \in sync.left THEN sync.existing[p][j] ELSE None
    BY <1>1 DEF ListingStands
  <2>5. \A j \in Shards : slices'[p][j] = IF j = i THEN None ELSE slices[p][j]
    BY <1>1, <1>4, <2>1 DEF PublisherInv, WorldOK, Listing
  <2>6. ~(i < Width)
    BY <1>1, <2>1, ShardsAreNaturals
  <2>7. \A j \in Shards : slices'[p][j] =
            IF j < Width THEN wanted[j]
            ELSE IF j \in sync.left \ {i} THEN sync.existing[p][j] ELSE None
    BY <2>4, <2>5, <2>6
  <2>8. \A q \in sync.todo : slices'[q] = sync.existing[q]
    BY <1>1, <1>2, <2>1 DEF ListingStands
  <2> QED
    BY <2>2, <2>3, <2>7, <2>8 DEF ListingStands
<1> QED
  BY <1>1, <1>3, <1>4

\* The steps after a pool's last write.
LEMMA LateStands ==
    ASSUME PublisherInv, ListingStands, OwnLabels, FinishPut \/ TrimSlice \/ FinishPool
    PROVE  ListingStands'
<1>1. CASE FinishPool
  <2>1. /\ sync.pc = "trim" /\ UNCHANGED slices
        /\ sync'.pc = "apply" /\ sync'.existing = sync.existing /\ sync'.todo = sync.todo
    BY <1>1 DEF FinishPool, AtSync, Syncing, PublisherInv, SyncFits
  <2> QED
    BY <2>1, TurnStands
<1> QED
  BY <1>1, FinishPutStands, TrimSliceStands

LEMMA ListingStandsStep ==
    ASSUME PublisherInv, ListingStands, OwnLabels, NoMeddling,
           [PublisherNext]_publisherVars
    PROVE  ListingStands'
<1>0. sync \in Syncing
  BY DEF PublisherInv, SyncFits
<1>1. CASE UNCHANGED <<sync, slices>>
  BY <1>1 DEF ListingStands, Desired, Width
<1>2. CASE EndSync
  BY <1>2, NoSyncFits DEF EndSync, ListingStands
<1>3. CASE ForgetPools \/ ListClasses
  <2>1. sync'.pc \in {"idle", "classes", "class"}
    BY <1>0, <1>3, NoSyncFits DEF ForgetPools, ListClasses, EndSync, Syncing
  <2> QED
    BY <2>1 DEF ListingStands
<1>4. ASSUME NEW t \in Types, PutClass(t) \/ DeleteClass(t)
      PROVE  ListingStands'
  <2>1. EndSync \/ (sync.pc = "class" /\ sync' = [sync EXCEPT !.todo = @ \ {t}])
    BY <1>4 DEF PutClass, DeleteClass, AtSync, Remote
  <2>2. sync'.pc \in {"idle", "class"}
    BY <1>0, <2>1, NoSyncFits DEF EndSync, Syncing
  <2> QED
    BY <2>2 DEF ListingStands
<1>5. ~Tamper /\ ~Overlap
  BY DEF NoMeddling, Tamper, Overlap, Fault
<1>6. FinishSync \/ Restart => EndSync
  BY DEF FinishSync, Restart
<1>7. ChangeStock \/ UNCHANGED publisherVars => UNCHANGED <<sync, slices>>
  BY DEF ChangeStock, publisherVars
<1> QED
  BY <1>1, <1>2, <1>3, <1>4, <1>5, <1>6, <1>7, EarlyStands, StartPoolStands,
     PutSliceStands, LateStands
  DEF PublisherNext, SyncStep

\* Until a Sync comes to a pool, what it listed of it is what is published
\* (operator.go Sync, applyPool), whatever fails, as long as the
\* operator alone touches its slices: its updates never conflict.
THEOREM WhatWasListedStands ==
    ASSUME OwnLabels, NoMeddling
    PROVE  PublisherSpec => []ListingStands
<1>1. PublisherInit => ListingStands
  BY NoSyncFits DEF PublisherInit, ListingStands
<1>2. PublisherInv /\ ListingStands /\ [PublisherNext]_publisherVars => ListingStands'
  BY ListingStandsStep
<1> QED
  BY <1>1, <1>2, PublisherInvariant, PTL DEF PublisherSpec

-------------------------------------------------------------------------------
(* What is right is left alone *)

\* When names sort as numbers do, the slice listed first is shard 0, or the
\* lowest that is there, and shard i is the i-th of a complete pool.
LEMMA FirstIsLowest ==
    ASSUME OrderedNames, NEW S \in SUBSET Shards, S # {}
    PROVE  FirstListed(S) \in S /\ \A j \in S : FirstListed(S) <= j
<1>1. /\ FirstListed(S) \in S
      /\ \A j \in S : NameRank[FirstListed(S)] <= NameRank[j]
  BY FirstListedIsLeast
<1>2. ASSUME NEW j \in S PROVE FirstListed(S) <= j
  <2>1. /\ j \in Nat /\ FirstListed(S) \in Nat
        /\ NameRank[j] \in Nat /\ NameRank[FirstListed(S)] \in Nat
    BY <1>1, ShardsAreNaturals, PublisherAssumption
  <2>2. j < FirstListed(S) => NameRank[j] < NameRank[FirstListed(S)]
    BY <1>1 DEF OrderedNames
  <2> QED
    BY <1>1, <2>1, <2>2
<1> QED
  BY <1>1, <1>2

LEMMA PositionIsNumber ==
    ASSUME OrderedNames, NEW n \in Nat, NEW i \in Shards, i < n
    PROVE  Position(i, {j \in Shards : j < n}) = i
<1> DEFINE S == {j \in Shards : j < n}
           B == {j \in S : NameRank[j] < NameRank[i]}
<1>0. i \in Nat /\ MaxShards \in Nat /\ i < MaxShards
  BY ShardsAreNaturals
<1>1. B = 0 .. (i - 1)
  <2>1. ASSUME NEW j \in B PROVE j \in 0 .. (i - 1)
    <3>1. j \in Nat /\ j \in Shards /\ NameRank[j] < NameRank[i]
      BY ShardsAreNaturals
    <3>2. NameRank[j] \in Nat /\ NameRank[i] \in Nat
      BY <3>1, PublisherAssumption
    <3>3. ~(i < j) /\ i # j
      BY <3>1, <3>2 DEF OrderedNames
    <3> QED
      BY <1>0, <3>1, <3>3
  <2>2. ASSUME NEW j \in 0 .. (i - 1) PROVE j \in B
    <3>1. j \in Nat /\ j < i /\ j < n /\ j < MaxShards
      BY <1>0
    <3>2. j \in Shards
      BY <3>1, ShardsAreNaturals
    <3> QED
      BY <3>1, <3>2 DEF OrderedNames
  <2> QED
    BY <2>1, <2>2
<1>2. Cardinality(0 .. (i - 1)) = IF 0 > i - 1 THEN 0 ELSE (i - 1) - 0 + 1
  <2>1. 0 \in Int /\ i - 1 \in Int
    BY <1>0
  <2> QED
    BY <2>1, FS_Interval
<1>3. PICK D : D = 0 .. (i - 1)
  OBVIOUS
<1>4. Cardinality(D) = i
  BY <1>0, <1>2, <1>3
<1>5. Position(i, S) = Cardinality(B)
  BY Zenon DEF Position
<1> HIDE DEF B
<1>6. Cardinality(B) = i
  BY <1>1, <1>3, <1>4
<1> QED
  BY <1>5, <1>6

\* The slices ss are what definition d of pool p renders to at generation g.
Right(p, d, g, ss) ==
    LET right == buildResourceSlices(p, d, g)
    IN /\ Published(ss) = Published(right)
       /\ \A i \in Published(right) : SameSpec(ss[i], right[i])

\* A pool that is published as it should be matches the definition.
LEMMA RightMatches ==
    ASSUME OrderedNames, NEW p \in Pools, NEW d \in Definition,
           NEW ss \in [Shards -> Slice \cup {None}], ss[0] # None,
           NEW g \in Nat, g = ss[0].gen, Right(p, d, g, ss)
    PROVE  /\ Published(ss) # {} /\ FirstListed(Published(ss)) = 0
           /\ currentDefinitionMatches(p, d, ss)
<1> DEFINE n == ShardCount(d.cap)
           right == buildResourceSlices(p, d, g)
<1>0. n \in Nat /\ Published(ss) = {i \in Shards : i < n} /\ Published(ss) = Published(right)
  <2>1. d.cap \in 1 .. MaxCapacity
    BY DEF Definition
  <2> QED
    BY <2>1, ShardCounts, Rendering DEF Right
<1>1. 0 \in Published(ss) /\ Published(ss) \in SUBSET Shards
  BY ShardsAreNaturals DEF Published
<1>2. FirstListed(Published(ss)) = 0
  <2>1. FirstListed(Published(ss)) \in Nat /\ FirstListed(Published(ss)) <= 0
    BY <1>1, FirstIsLowest, ShardsAreNaturals
  <2> QED
    BY <2>1
<1>3. \A i \in Published(ss) : Position(i, Published(ss)) = i
  BY <1>0, PositionIsNumber
<1>4. \A i \in Published(ss) : SameSpec(ss[i], right[i])
  BY <1>0 DEF Right
<1> HIDE DEF right
<1>5. currentDefinitionMatches(p, d, ss) <=>
         /\ Published(ss) = Published(right)
         /\ \A i \in Published(ss) : Position(i, Published(ss)) = i /\ SameSpec(ss[i], right[i])
  BY <1>2 DEF currentDefinitionMatches, right
<1> QED
  BY <1>0, <1>1, <1>2, <1>3, <1>4, <1>5

LEMMA SameAsItself == \A s \in Slice : SameSpec(s, s)
BY DEF SameSpec, Slice

LEMMA StaysRight ==
    ASSUME PublisherInv, ListingStands, OwnLabels, OrderedNames,
           PublisherNext, sync' # sync,
           NEW p \in Pools, NEW d \in Definition, d = sync.desired[p],
           slices[p][0] # None, NEW g \in Nat, g = slices[p][0].gen,
           Right(p, d, g, slices[p])
    PROVE  Right(p, d, g, slices'[p])
<1>0. /\ p \in Labels /\ p \in Desired /\ slices \in Listing
      /\ slices[p] \in [Shards -> Slice \cup {None}]
  BY PoolsAreLabels, PublisherAssumption DEF Desired, PublisherInv, WorldOK
<1>1. CASE slices'[p] = slices[p]
  BY <1>1
<1>2. CASE PruneSlice
  <2>1. PICK k \in Labels \ Desired, j \in Shards :
           slices' = slices \/ slices' = [slices EXCEPT ![k][j] = None]
    BY <1>2, PruneSliceMoves
  <2> QED
    BY <1>0, <1>1, <2>1 DEF Listing
<1>3. CASE TrimSlice
  <2>1. PICK j \in sync.left :
           /\ sync.pc = "trim" /\ j \in Shards /\ j >= Width
           /\ slices' = slices \/ slices' = [slices EXCEPT ![DnsLabel[sync.cur]][j] = None]
    BY <1>3, TrimSliceMoves
  <2>2. CASE p # sync.cur
    BY <1>1, <2>1, <2>2, OtherPoolsStand
  <2>3. CASE p = sync.cur
    <3>1. Width = ShardCount(d.cap) /\ Width \in Nat /\ j \in Nat /\ DnsLabel[p] = p
      BY <2>1, <2>3, AtHand, ShardsAreNaturals, PoolsAreLabels DEF Width
    <3>2. slices[p][j] = None
      BY <2>1, <3>1, Rendering DEF Right, Published
    <3>3. slices'[p] = slices[p]
      BY <1>0, <2>1, <2>3, <3>1, <3>2 DEF Listing
    <3> QED
      BY <1>1, <3>3
  <2> QED
    BY <2>2, <2>3
<1>4. CASE PutSlice
  <2>1. PICK i \in Shards, gen \in Nat : i = sync.next /\ gen = sync.gen
    BY <1>4, PutSliceMoves, AtHand
  <2>2. CASE p # sync.cur
    BY <1>1, <1>4, <2>2, PutSliceMoves, OtherPoolsStand
  <2>3. CASE p = sync.cur
    <3> DEFINE wanted == buildResourceSlices(p, d, gen)
    <3>1. /\ sync.pc = "put" /\ i < ShardCount(d.cap) /\ wanted[i] \in Slice
          /\ slices' = slices \/ slices' = [slices EXCEPT ![p][i] = wanted[i]]
      BY <1>4, <2>1, <2>3, PutSliceMoves, PoolsAreLabels DEF Width
    <3>2. /\ \A j \in Shards :
                slices[p][j] = IF j < i THEN wanted[j] ELSE sync.existing[p][j]
          /\ /\ Published(sync.existing[p]) # {}
             /\ currentDefinitionMatches(p, d, sync.existing[p])
             => gen = sync.existing[p][FirstListed(Published(sync.existing[p]))].gen
      BY <2>1, <2>3, <3>1 DEF ListingStands
    <3>3. gen = g
      <4>1. CASE i = 0
        <5>1. \A j \in Shards : slices[p][j] = sync.existing[p][j]
          BY <3>2, <4>1, ShardsAreNaturals
        <5>2. slices[p] = sync.existing[p]
          BY <1>0, <5>1, PoolsAreLabels
        <5>3. /\ Published(slices[p]) # {} /\ FirstListed(Published(slices[p])) = 0
              /\ currentDefinitionMatches(p, d, slices[p])
          BY <1>0, RightMatches
        <5> QED
          BY <3>2, <5>2, <5>3
      <4>2. CASE i # 0
        <5>1. 0 < i /\ 0 \in Shards
          BY <4>2, ShardsAreNaturals
        <5>2. slices[p][0] = wanted[0] /\ slices[p][0] # None
          BY <3>2, <5>1
        <5>3. wanted[0].gen = gen
          <6>1. wanted[0] = buildSlice(p, d, gen, 0)
            BY <5>1, <5>2, Rendering
          <6> QED
            BY <6>1 DEF buildSlice
        <5> QED
          BY <5>2, <5>3
      <4> QED
        BY <4>1, <4>2
    <3>4. SameSpec(wanted[i], wanted[i]) /\ wanted[i] # None
      BY <3>1, SameAsItself, PublisherAssumption
    <3>5. i \in Published(wanted)
      BY <3>4 DEF Published
    <3>6. Published(slices[p]) = Published(wanted)
          /\ \A j \in Published(wanted) : SameSpec(slices[p][j], wanted[j])
      BY <3>3 DEF Right
    <3> HIDE DEF wanted
    <3>7. \A j \in Shards : /\ slices'[p][j] \in {slices[p][j], wanted[i]}
                            /\ j # i => slices'[p][j] = slices[p][j]
      BY <1>0, <3>1 DEF Listing
    <3>8. Published(slices'[p]) = Published(wanted)
      BY <3>4, <3>5, <3>6, <3>7 DEF Published
    <3>9. ASSUME NEW j \in Published(wanted) PROVE SameSpec(slices'[p][j], wanted[j])
      <4>1. j \in Shards
        BY DEF Published
      <4>2. CASE slices'[p][j] = slices[p][j]
        BY <3>6, <4>2
      <4>3. CASE j = i /\ slices'[p][j] = wanted[i]
        BY <3>4, <4>3
      <4> QED
        BY <3>7, <4>1, <4>2, <4>3
    <3> QED
      BY <3>3, <3>8, <3>9 DEF Right, wanted
  <2> QED
    BY <2>2, <2>3
<1>5. ~Tamper /\ ~Overlap /\ ~ChangeStock
  BY DEF Tamper, Overlap, ChangeStock
<1>6. CASE UNCHANGED slices
  BY <1>1, <1>6
<1> QED
  BY <1>2, <1>3, <1>4, <1>5, <1>6
  DEF PublisherNext, SyncStep, ListSlices, ReadPool, FindStale, PrunePool, StartPool,
      ForgetPools, FinishPut, FinishPool, ListClasses, PutClass, DeleteClass, FinishSync,
      Restart

\* A pool that is published as it should be is left alone, after a restart and
\* whatever fails (operator.go nextGeneration, applyPool), as
\* long as shards' names sort as their numbers do and nobody else writes them.
THEOREM RightIsLeftAlone ==
    ASSUME OwnLabels, OrderedNames, NoMeddling
    PROVE  PublisherSpec => NoChurn
<1> DEFINE A == \A p \in Pools :
                  LET published == slices[DnsLabel[p]]
                      right == buildResourceSlices(p, sync.desired[p], published[0].gen)
                  IN /\ sync' # sync /\ sync.desired[p] # None /\ published[0] # None
                     /\ Published(published) = Published(right)
                     /\ \A i \in Published(right) : SameSpec(published[i], right[i])
                     => /\ Published(slices'[DnsLabel[p]]) = Published(right)
                        /\ \A i \in Published(right) :
                              SameSpec(slices'[DnsLabel[p]][i], right[i])
<1>1. PublisherInv /\ ListingStands /\ [PublisherNext]_publisherVars => [A]_publisherVars
  <2> SUFFICES ASSUME PublisherInv, ListingStands, PublisherNext, sync' # sync,
                      NEW p \in Pools, sync.desired[p] # None, slices[p][0] # None,
                      Right(p, sync.desired[p], slices[p][0].gen, slices[p])
               PROVE  Right(p, sync.desired[p], slices[p][0].gen, slices'[p])
    BY DEF Right, OwnLabels
  <2>1. sync.desired[p] \in Definition
    BY DEF PublisherInv, SyncFits, Syncing
  <2>2. slices[p][0].gen \in Nat
    <3>1. slices[p][0] \in Slice
      BY PoolsAreLabels, ShardsAreNaturals
    <3> QED
      BY <3>1 DEF Slice
  <2> QED
    BY <2>1, <2>2, StaysRight
<1> QED
  BY <1>1, PublisherInvariant, WhatWasListedStands, PTL DEF PublisherSpec, NoChurn

-------------------------------------------------------------------------------
(* Generations only go up *)

Descends(ss) == \A i, j \in Published(ss) : i < j => ss[i].gen >= ss[j].gen
Shared(ss) == \A i, j \in Published(ss) : ss[i].gen = ss[j].gen => ss[i].count = ss[j].count

\* What the cache says of a pool that is not underway.
CacheCovers(c, ss) ==
    c # None =>
       /\ \A i \in Published(ss) : ss[i].gen <= c.gen
       /\ c.def # Recovered => UpTo(ss, c.gen, ShardCount(c.def.cap))

\* Pool by pool, GenerationInv says this.
LEMMA PoolByPool ==
    ASSUME OwnLabels, GenerationInv
    PROVE  /\ \A p \in Pools : ~torn[p] => Shared(slices[p]) /\ Descends(slices[p])
           /\ \A p \in Rejected : slices[p] = NoSlices
           /\ sync.pc \in {"put", "trim"} /\ ~torn[sync.cur] =>
                 UpTo(slices[sync.cur], sync.gen, Width)
           /\ \A p \in Pools : ~torn[p] /\ ~Underway(p) => CacheCovers(cache[p], slices[p])
<1>1. \A p \in Pools : DnsLabel[p] = p
  BY DEF OwnLabels
<1>2. \A p \in Pools : ~torn[p] => Shared(slices[p])
  BY <1>1 DEF GenerationInv, SharedUnlessTorn, OneRendering, Shared
<1>3. \A p \in Pools : ~torn[p] => Descends(slices[p])
  BY DEF GenerationInv, Descends
<1>4. \A p \in Pools : ~torn[p] /\ ~Underway(p) => CacheCovers(cache[p], slices[p])
  BY DEF GenerationInv, CacheCovers
<1> QED
  BY <1>2, <1>3, <1>4 DEF GenerationInv

\* Taking slices away disturbs none of it.
LEMMA FewerSlices ==
    ASSUME NEW ss, NEW tt, \A i \in Shards : tt[i] \in {ss[i], None}
    PROVE  /\ Shared(ss) => Shared(tt)
           /\ Descends(ss) => Descends(tt)
           /\ \A gen, n : UpTo(ss, gen, n) => UpTo(tt, gen, n)
           /\ \A c : CacheCovers(c, ss) => CacheCovers(c, tt)
<1>1. \A i \in Published(tt) : i \in Published(ss) /\ tt[i] = ss[i]
  BY DEF Published
<1>2. \A gen, n : UpTo(ss, gen, n) => UpTo(tt, gen, n)
  BY <1>1 DEF UpTo
<1> QED
  BY <1>1, <1>2 DEF Shared, Descends, CacheCovers

\* The slice that is listed first is of the latest generation.
LEMMA FirstIsLatest ==
    ASSUME OrderedNames, NEW ss \in [Shards -> Slice \cup {None}], Descends(ss),
           Published(ss) # {}
    PROVE  LET gen == ss[FirstListed(Published(ss))].gen
           IN gen \in Nat /\ \A i \in Published(ss) : ss[i].gen \in Nat /\ ss[i].gen <= gen
<1> DEFINE F == FirstListed(Published(ss))
<1>0. Published(ss) \in SUBSET Shards
  BY DEF Published
<1>1. F \in Published(ss) /\ \A j \in Published(ss) : F <= j
  BY <1>0, FirstIsLowest
<1>2. \A i \in Published(ss) : i \in Nat /\ ss[i].gen \in Nat
  BY <1>0, ShardsAreNaturals DEF Published, Slice
<1> HIDE DEF F
<1>3. ASSUME NEW i \in Published(ss) PROVE ss[i].gen <= ss[F].gen
  <2>1. F = i \/ F < i
    BY <1>1, <1>2
  <2>2. F < i => ss[F].gen >= ss[i].gen
    BY <1>1 DEF Descends
  <2> QED
    BY <1>1, <1>2, <2>1, <2>2
<1> QED
  BY <1>1, <1>2, <1>3 DEF F

\* The generation that is computed for a definition is later than every listed
\* one, or that of slices of as many shards as the definition has.
LEMMA NextGenerationCovers ==
    ASSUME PublisherInv, OrderedNames, NEW p \in Pools, NEW d \in Definition,
           NEW ss \in [Shards -> Slice \cup {None}], Descends(ss),
           CacheCovers(cache[p], ss)
    PROVE  UpTo(ss, nextGeneration(p, d, ss), ShardCount(d.cap))
<1> DEFINE F == FirstListed(Published(ss))
           n == ShardCount(d.cap)
<1>0. Published(ss) # {} => /\ ss[F].gen \in Nat
                            /\ \A i \in Published(ss) : ss[i].gen <= ss[F].gen
  BY FirstIsLatest
<1>1. \A i \in Published(ss) : ss[i] \in Slice /\ ss[i].gen \in Nat
  BY DEF Published, Slice
<1>2. CASE Published(ss) # {} /\ currentDefinitionMatches(p, d, ss)
  <2> DEFINE wanted == buildResourceSlices(p, d, ss[F].gen)
  <2>1. /\ Published(ss) = Published(wanted)
        /\ \A i \in Published(ss) : SameSpec(ss[i], wanted[i])
    BY <1>2 DEF currentDefinitionMatches
  <2>2. ASSUME NEW i \in Published(ss) PROVE ss[i].count = n
    <3>1. i \in Shards /\ i \in Published(wanted)
      BY <2>1 DEF Published
    <3>2. wanted[i] = buildSlice(p, d, ss[F].gen, i)
      BY <1>0, <1>2, <3>1, Rendering
    <3>3. wanted[i].count = n
      BY <3>2 DEF buildSlice
    <3>4. [ss[i] EXCEPT !.nums = wanted[i].nums] = wanted[i]
      BY <2>1 DEF SameSpec
    <3>5. [ss[i] EXCEPT !.nums = wanted[i].nums].count = ss[i].count
      BY <1>1 DEF Slice
    <3> QED
      BY <3>3, <3>4, <3>5
  <2>3. nextGeneration(p, d, ss) = ss[F].gen
    BY <1>2 DEF nextGeneration
  <2> QED
    BY <1>0, <1>2, <2>2, <2>3 DEF UpTo
<1>3. CASE ~(Published(ss) # {} /\ currentDefinitionMatches(p, d, ss)) /\ cache[p] # None
  <2>1. /\ cache[p] \in Cached /\ cache[p].gen \in Nat
        /\ nextGeneration(p, d, ss) = IF cache[p].def = d THEN cache[p].gen
                                                          ELSE cache[p].gen + 1
    BY <1>3, LabelFacts DEF nextGeneration, PublisherInv, WorldOK, Cached
  <2>2. d # Recovered
    BY DEF Definition, Recovered
  <2>3. CASE cache[p].def = d
    BY <1>3, <2>1, <2>2, <2>3 DEF CacheCovers
  <2>4. CASE cache[p].def # d
    BY <1>1, <1>3, <2>1, <2>4 DEF CacheCovers, UpTo
  <2> QED
    BY <2>3, <2>4
<1>4. CASE ~(Published(ss) # {} /\ currentDefinitionMatches(p, d, ss)) /\ cache[p] = None
  <2>1. Published(ss) # {} => nextGeneration(p, d, ss) = ss[F].gen + 1
    BY <1>4 DEF nextGeneration
  <2> QED
    BY <1>0, <1>1, <2>1 DEF UpTo
<1> QED
  BY <1>2, <1>3, <1>4

LEMMA NextPoolByPool ==
    ASSUME OwnLabels,
           \A p \in Pools : ~torn'[p] => Shared(slices'[p]) /\ Descends(slices'[p]),
           \A p \in Rejected : slices'[p] = NoSlices,
           sync'.pc \in {"put", "trim"} /\ ~torn'[sync'.cur] =>
              UpTo(slices'[sync'.cur], sync'.gen, Width'),
           \A p \in Pools : ~torn'[p] /\ ~Underway(p)' => CacheCovers(cache'[p], slices'[p])
    PROVE  GenerationInv'
<1>1. \A p \in Pools : DnsLabel[p] = p
  BY DEF OwnLabels
<1>2. SharedUnlessTorn'
  BY <1>1 DEF SharedUnlessTorn, OneRendering, Shared
<1>3. \A p \in Pools : ~torn'[p] =>
         /\ \A i, j \in Published(slices'[p]) :
               i < j => slices'[p][i].gen >= slices'[p][j].gen
         /\ cache'[p] # None /\ ~Underway(p)' =>
               /\ \A i \in Published(slices'[p]) : slices'[p][i].gen <= cache'[p].gen
               /\ cache'[p].def # Recovered =>
                     UpTo(slices'[p], cache'[p].gen, ShardCount(cache'[p].def.cap))
  BY DEF Descends, CacheCovers
<1> QED
  BY <1>2, <1>3 DEF GenerationInv

\* A step at which no pool is underway before or after, that takes slices away
\* at most and forgets cache entries at most.
LEMMA QuietGenerations ==
    ASSUME OwnLabels, GenerationInv, PublisherInv,
           sync.pc \notin {"put", "trim"}, sync'.pc \notin {"put", "trim"},
           \A p \in Pools, i \in Shards : slices'[p][i] \in {slices[p][i], None},
           slices' \in Listing, torn' = torn,
           \A p \in Pools : cache'[p] \in {cache[p], None}
    PROVE  GenerationInv'
<1>1. \A p \in Pools : ~torn[p] => /\ Shared(slices[p]) /\ Descends(slices[p])
                                   /\ CacheCovers(cache[p], slices[p])
  BY PoolByPool DEF Underway
<1>2. ASSUME NEW p \in Pools, ~torn[p]
      PROVE  /\ Shared(slices'[p]) /\ Descends(slices'[p])
             /\ CacheCovers(cache'[p], slices'[p])
  <2>1. /\ Shared(slices'[p]) /\ Descends(slices'[p])
        /\ CacheCovers(cache[p], slices'[p])
    BY <1>1, <1>2, FewerSlices
  <2> QED
    BY <2>1 DEF CacheCovers
<1>3. ASSUME NEW p \in Rejected PROVE slices'[p] = NoSlices
  <2>1. p \in Pools /\ slices[p] = NoSlices /\ p \in Labels
    BY PublisherAssumption, LabelFacts DEF GenerationInv, OwnLabels
  <2>2. \A i \in Shards : slices'[p][i] = None
    BY <2>1 DEF NoSlices
  <2> QED
    BY <2>1, <2>2 DEF NoSlices, Listing
<1> QED
  BY <1>2, <1>3, NextPoolByPool

LEMMA ListSlicesGenerations ==
    ASSUME OwnLabels, OrderedNames, GenerationInv, PublisherInv, ListSlices
    PROVE  GenerationInv'
<1>1. sync.pc = "idle" /\ sync'.pc = "inventory" /\ UNCHANGED <<slices, torn>>
  BY NoSyncFits DEF ListSlices, AtSync, Syncing, Outside
<1>2. \A p \in Pools : ~torn[p] => /\ Shared(slices[p]) /\ Descends(slices[p])
                                   /\ CacheCovers(cache[p], slices[p])
  BY <1>1, PoolByPool DEF Underway
<1>3. ASSUME NEW p \in Pools, ~torn[p] PROVE CacheCovers(cache'[p], slices[p])
  <2>0. p \in Keys /\ slices[p] \in [Shards -> Slice \cup {None}]
    BY LabelFacts, PoolsAreLabels
  <2>1. CASE cache'[p] = cache[p]
    BY <1>2, <1>3, <2>1
  <2>2. CASE /\ Published(slices[p]) # {}
             /\ cache'[p] = [def |-> Recovered,
                             gen |-> slices[p][FirstListed(Published(slices[p]))].gen]
    <3>1. \A i \in Published(slices[p]) :
             slices[p][i].gen <= slices[p][FirstListed(Published(slices[p]))].gen
      BY <1>2, <1>3, <2>0, <2>2, FirstIsLatest
    <3>2. /\ cache'[p].def = Recovered
          /\ cache'[p].gen = slices[p][FirstListed(Published(slices[p]))].gen
      BY <2>2
    <3> QED
      BY <3>1, <3>2 DEF CacheCovers
  <2> QED
    BY <2>0, <2>1, <2>2 DEF ListSlices
<1>4. \A p \in Rejected : slices'[p] = NoSlices
  BY <1>1 DEF GenerationInv
<1> QED
  BY <1>1, <1>2, <1>3, <1>4, NextPoolByPool

LEMMA StartPoolGenerations ==
    ASSUME OwnLabels, OrderedNames, GenerationInv, PublisherInv, ListingStands, StartPool
    PROVE  GenerationInv'
<1>1. PICK p \in sync.todo :
              /\ p \in Pools /\ sync.desired[p] \in Definition
              /\ sync' = [sync EXCEPT !.pc = "put", !.cur = p, !.todo = @ \ {p}, !.next = 0,
                             !.gen = nextGeneration(p, sync.desired[p], Existing(p))]
  BY StartPoolMoves
<1>2. sync \in Syncing /\ sync.pc = "apply" /\ UNCHANGED <<slices, cache, torn>>
  BY DEF StartPool, AtSync, PublisherInv, SyncFits, Outside
<1>3. Existing(p) = slices[p] /\ slices[p] \in [Shards -> Slice \cup {None}]
  BY <1>1, <1>2, PoolsAreLabels DEF ListingStands
<1>4. \A q \in Pools : ~torn[q] => /\ Shared(slices[q]) /\ Descends(slices[q])
                                   /\ CacheCovers(cache[q], slices[q])
  BY <1>2, PoolByPool DEF Underway
<1>5. /\ sync'.pc = "put" /\ sync'.cur = p /\ sync'.next = 0 /\ sync'.desired = sync.desired
      /\ sync'.gen = nextGeneration(p, sync.desired[p], slices[p])
  BY <1>1, <1>2, <1>3 DEF Syncing
<1>6. ~torn[p] => UpTo(slices[p], sync'.gen, Width')
  BY <1>1, <1>3, <1>4, <1>5, NextGenerationCovers DEF Width
<1>7. \A q \in Rejected : slices'[q] = NoSlices
  BY <1>2 DEF GenerationInv
<1> QED
  BY <1>2, <1>4, <1>5, <1>6, <1>7, NextPoolByPool

\* Giving a pool up: it is as it was listed, or torn.
LEMMA SkipGenerations ==
    ASSUME OwnLabels, GenerationInv, PublisherInv, sync.pc \in {"put", "trim"}, SkipPool,
           NEW p \in Pools, p = sync.cur, UNCHANGED cache,
           \A q \in Pools : q # p => slices'[q] = slices[q],
           slices'[p] = slices[p] \/ slices'[p] # sync.existing[p],
           p \in Rejected => slices'[p] = NoSlices
    PROVE  GenerationInv'
<1>1. sync \in Syncing /\ torn \in [Pools -> BOOLEAN]
  BY DEF PublisherInv, SyncFits, WorldOK
<1>2. sync'.pc = "apply"
  BY <1>1 DEF SkipPool, Syncing
<1>3. DnsLabel[p] = p /\ Existing(p) = sync.existing[p]
  BY PoolsAreLabels
<1>4. /\ ~torn'[p] => ~torn[p] /\ slices'[p] = sync.existing[p]
      /\ \A q \in Pools : q # p => torn'[q] = torn[q]
  BY <1>1, <1>3 DEF SkipPool
<1>5. ASSUME NEW q \in Pools, ~torn'[q]
      PROVE  ~torn[q] /\ slices'[q] = slices[q] /\ ~Underway(q)
  BY <1>4, <1>5 DEF Underway
<1>6. \A q \in Rejected : slices'[q] = NoSlices
  BY PoolByPool, PublisherAssumption
<1>7. ASSUME NEW q \in Pools, ~torn'[q]
      PROVE  /\ Shared(slices'[q]) /\ Descends(slices'[q])
             /\ CacheCovers(cache'[q], slices'[q])
  BY <1>5, <1>7, PoolByPool
<1> QED
  BY <1>2, <1>6, <1>7, NextPoolByPool

LEMMA PutSliceGenerations ==
    ASSUME OwnLabels, GenerationInv, PublisherInv, ListingStands, PutSlice,
           ListingStands'
    PROVE  GenerationInv'
<1>0. PICK p \in Pools, i \in Shards : p = sync.cur /\ i = sync.next
  <2>1. sync.pc = "put" /\ sync.next \in Shards
    BY PutSliceMoves
  <2> QED
    BY <2>1, AtHand
<1>1. PICK d \in Definition, gen \in Nat : d = sync.desired[p] /\ gen = sync.gen
  BY <1>0, AtHand, PutSliceMoves
<1> DEFINE wanted == buildResourceSlices(p, d, gen)
           n == ShardCount(d.cap)
<1>2. /\ sync.pc = "put" /\ i < n /\ Width = n /\ wanted[i] \in Slice
      /\ \/ slices' = slices
         \/ /\ slices' = [slices EXCEPT ![p][i] = wanted[i]]
            /\ sync.existing[p][i] # wanted[i] /\ p \notin Rejected
      /\ \/ SkipPool
         \/ sync' = [sync EXCEPT !.next = i + 1] /\ torn' = torn
      /\ UNCHANGED cache /\ sync \in Syncing /\ i \in Nat /\ n \in Nat /\ p \in Labels
  BY <1>0, <1>1, PutSliceMoves, PoolsAreLabels, AtHand, ShardsAreNaturals
  DEF Width, PutSlice, samePublishedResourceSlice
<1>3. /\ \A q \in Pools : ~torn[q] => Shared(slices[q]) /\ Descends(slices[q])
      /\ \A q \in Pools : ~torn[q] /\ ~Underway(q) => CacheCovers(cache[q], slices[q])
      /\ ~torn[p] => UpTo(slices[p], gen, n)
      /\ \A q \in Rejected : slices[q] = NoSlices
  BY <1>0, <1>1, <1>2, PoolByPool
<1>4. \A q \in Pools : q # p => slices'[q] = slices[q]
  BY <1>2, PoolsAreLabels DEF PublisherInv, WorldOK, Listing
<1>5. \A j \in Shards : slices[p][j] = IF j < i THEN wanted[j] ELSE sync.existing[p][j]
  BY <1>0, <1>1, <1>2 DEF ListingStands
<1>6. \A j \in Shards : j < n => wanted[j].gen = gen /\ wanted[j].count = n /\ wanted[j] # None
  <2> SUFFICES ASSUME NEW j \in Shards, j < n
               PROVE  wanted[j].gen = gen /\ wanted[j].count = n /\ wanted[j] # None
    OBVIOUS
  <2>1. wanted[j] = buildSlice(p, d, gen, j) /\ wanted[j] \in Slice
    BY Rendering
  <2>2. buildSlice(p, d, gen, j).gen = gen /\ buildSlice(p, d, gen, j).count = n
    BY DEF buildSlice
  <2> HIDE DEF wanted, n
  <2> QED
    BY <2>1, <2>2, PublisherAssumption
<1> HIDE DEF wanted
<1>7. slices'[p] = slices[p] \/ slices'[p] # sync.existing[p]
  <2>1. CASE slices' = slices
    BY <2>1
  <2>2. CASE slices' = [slices EXCEPT ![p][i] = wanted[i]] /\ sync.existing[p][i] # wanted[i]
    <3>1. slices'[p][i] = wanted[i]
      BY <1>2, <2>2 DEF PublisherInv, WorldOK, Listing
    <3> QED
      BY <2>2, <3>1
  <2> QED
    BY <1>2, <2>1, <2>2
<1>8. \A q \in Rejected : slices'[q] = NoSlices
  BY <1>2, <1>3, <1>4, PublisherAssumption
<1>9. CASE SkipPool
  BY <1>0, <1>2, <1>4, <1>7, <1>8, <1>9, SkipGenerations
<1>10. CASE sync' = [sync EXCEPT !.next = i + 1] /\ torn' = torn
  <2>1. /\ sync'.pc = "put" /\ sync'.cur = p /\ sync'.next = i + 1 /\ sync'.gen = gen
        /\ sync'.desired = sync.desired /\ sync'.existing = sync.existing
    BY <1>0, <1>1, <1>2, <1>10 DEF Syncing
  <2>2. Width' = n
    BY <1>1, <2>1 DEF Width
  <2>3. slices'[p][i] = wanted[i]
    <3>1. i < i + 1
      BY <1>2
    <3> QED
      BY <1>1, <2>1, <3>1 DEF ListingStands, wanted
  <2>4. \A j \in Shards : j # i => slices'[p][j] = slices[p][j]
    BY <1>2 DEF PublisherInv, WorldOK, Listing
  <2>5. \A j \in Published(slices'[p]) :
           /\ j \in Nat /\ j \in Shards
           /\ j = i \/ (j \in Published(slices[p]) /\ slices'[p][j] = slices[p][j])
    BY <2>4, ShardsAreNaturals DEF Published
  <2>6. slices'[p][i].gen = gen /\ slices'[p][i].count = n
    BY <1>2, <1>6, <2>3
  <2>7. ~torn[p] => UpTo(slices'[p], gen, n)
    BY <1>3, <2>5, <2>6 DEF UpTo
  <2>8. ~torn[p] => Shared(slices'[p])
    <3> SUFFICES ASSUME ~torn[p], NEW j \in Published(slices'[p]), NEW k \in Published(slices'[p]),
                        slices'[p][j].gen = slices'[p][k].gen
                 PROVE  slices'[p][j].count = slices'[p][k].count
      BY DEF Shared
    <3>1. CASE j = i \/ k = i
      BY <2>6, <2>7, <3>1 DEF UpTo
    <3>2. CASE j # i /\ k # i
      BY <1>3, <2>5, <3>2 DEF Shared
    <3> QED
      BY <3>1, <3>2
  <2>9. ~torn[p] => Descends(slices'[p])
    <3> SUFFICES ASSUME ~torn[p], NEW j \in Published(slices'[p]),
                        NEW k \in Published(slices'[p]), j < k
                 PROVE  slices'[p][j].gen >= slices'[p][k].gen
      BY DEF Descends
    <3>0. /\ slices'[p][k].gen <= gen /\ slices'[p][k].gen \in Nat
          /\ j \in Nat /\ k \in Nat /\ j \in Shards
      <4>1. slices'[p][k] \in Slice
        <5>1. k = i \/ (k \in Shards /\ slices'[p][k] = slices[p][k])
          BY <2>5
        <5>2. slices'[p][k] # None
          BY DEF Published
        <5> QED
          BY <1>2, <2>3, <5>1, <5>2, PoolsAreLabels
      <4> QED
        BY <2>5, <2>7, <4>1 DEF UpTo, Slice
    <3>1. CASE j = i
      BY <2>6, <3>0, <3>1
    <3>2. CASE j < i
      <4>1. slices'[p][j] = wanted[j] /\ j < n
        <5>1. n \in Nat
          BY <1>0, <1>1, <1>2, AtHand
        <5>2. j < n
          BY <1>2, <3>0, <3>2, <5>1
        <5> QED
          BY <1>5, <2>4, <3>0, <3>2, <5>2
      <4>2. slices'[p][j].gen = gen
        BY <1>6, <3>0, <4>1
      <4> QED
        BY <3>0, <4>2
    <3>3. CASE j > i
      <4>1. j # i /\ k # i
        BY <1>2, <3>0, <3>3
      <4> QED
        BY <1>3, <2>5, <4>1 DEF Descends
    <3> QED
      BY <1>2, <3>0, <3>1, <3>2, <3>3
  <2>10. ASSUME NEW q \in Pools, ~torn[q], ~Underway(q)'
         PROVE  CacheCovers(cache'[q], slices'[q])
    <3>1. slices'[q] = slices[q] /\ ~Underway(q)
      <4>1. CASE q = p
        BY <1>7, <2>1, <2>10, <4>1 DEF Underway
      <4>2. CASE q # p
        BY <1>0, <1>4, <4>2 DEF Underway
      <4> QED
        BY <4>1, <4>2
    <3> QED
      BY <1>2, <1>3, <2>10, <3>1
  <2>11. \A q \in Pools : ~torn[q] => Shared(slices'[q]) /\ Descends(slices'[q])
    BY <1>3, <1>4, <2>8, <2>9
  <2> QED
    BY <1>8, <1>10, <2>1, <2>2, <2>7, <2>10, <2>11, NextPoolByPool
<1> QED
  BY <1>2, <1>9, <1>10

\* A pool that is done is one rendering, whatever was there before.
LEMMA FinishPoolGenerations ==
    ASSUME OwnLabels, GenerationInv, PublisherInv, ListingStands, FinishPool
    PROVE  GenerationInv'
<1>0. sync.pc = "trim" /\ sync.left = {} /\ UNCHANGED slices
  BY DEF FinishPool, AtSync
<1>1. PICK p \in Pools, d \in Definition, gen \in Nat :
         p = sync.cur /\ d = sync.desired[p] /\ gen = sync.gen
  BY <1>0, AtHand
<1> DEFINE wanted == buildResourceSlices(p, d, gen)
           n == ShardCount(d.cap)
<1>2. /\ sync \in Syncing /\ Width = n /\ n \in Nat /\ torn \in [Pools -> BOOLEAN]
  BY <1>0, <1>1, AtHand DEF Width, PublisherInv, WorldOK
<1>3. \A j \in Shards : slices[p][j] = IF j < n THEN wanted[j] ELSE None
  BY <1>0, <1>1, <1>2 DEF ListingStands
<1>4. ASSUME NEW j \in Published(slices[p])
      PROVE  slices[p][j].gen = gen /\ slices[p][j].count = n
  <2>1. j \in Shards /\ j < n
    BY <1>3 DEF Published
  <2>2. wanted[j] = buildSlice(p, d, gen, j)
    BY <2>1, Rendering
  <2>3. buildSlice(p, d, gen, j).gen = gen /\ buildSlice(p, d, gen, j).count = n
    BY DEF buildSlice
  <2> HIDE DEF wanted, n
  <2> QED
    BY <1>3, <2>1, <2>2, <2>3
<1> HIDE DEF wanted
<1>5. Shared(slices[p]) /\ Descends(slices[p]) /\ UpTo(slices[p], gen, n)
  BY <1>4 DEF Shared, Descends, UpTo
<1>6. sync'.pc = "apply"
  BY <1>2 DEF FinishPool, Syncing
<1>7. /\ cache'[p] = [def |-> d, gen |-> gen]
      /\ \A q \in Pools : q # p => cache'[q] = cache[q]
  BY <1>1, LabelFacts DEF FinishPool, PublisherInv, WorldOK
<1>8. CacheCovers(cache'[p], slices[p])
  <2>1. cache'[p].def = d /\ cache'[p].gen = gen
    BY <1>7
  <2> QED
    BY <1>5, <2>1 DEF CacheCovers, UpTo
<1>9. \A q \in Pools : q # p => torn'[q] = torn[q] /\ ~Underway(q)
  BY <1>1, <1>2 DEF FinishPool, Underway
<1>10. ASSUME NEW q \in Pools, ~torn'[q]
       PROVE  /\ Shared(slices[q]) /\ Descends(slices[q])
              /\ CacheCovers(cache'[q], slices[q])
  <2>1. CASE q = p
    BY <1>5, <1>8, <2>1
  <2>2. CASE q # p
    BY <1>7, <1>9, <1>10, <2>2, PoolByPool
  <2> QED
    BY <2>1, <2>2
<1> QED
  BY <1>0, <1>6, <1>10, PoolByPool, NextPoolByPool

\* The steps after a pool's last write.
LEMMA LateGenerations ==
    ASSUME OwnLabels, GenerationInv, PublisherInv, ListingStands, FinishPut \/ TrimSlice
    PROVE  GenerationInv'
<1>0. sync.pc \in {"put", "trim"}
  BY DEF FinishPut, TrimSlice, AtSync
<1>1. PICK p \in Pools, gen \in Nat : p = sync.cur /\ gen = sync.gen
  BY <1>0, AtHand
<1>2. sync \in Syncing /\ Width \in Nat /\ DnsLabel[p] = p /\ p \in Labels
  BY <1>0, <1>1, AtHand, PoolsAreLabels
<1>3. /\ \A q \in Pools : ~torn[q] => Shared(slices[q]) /\ Descends(slices[q])
      /\ \A q \in Pools : ~torn[q] /\ ~Underway(q) => CacheCovers(cache[q], slices[q])
      /\ ~torn[p] => UpTo(slices[p], gen, Width)
      /\ \A q \in Rejected : slices[q] = NoSlices
  BY <1>0, <1>1, PoolByPool
<1>4. CASE FinishPut
  <2>1. /\ sync'.pc = "trim" /\ sync'.cur = p /\ sync'.gen = gen
        /\ sync'.desired = sync.desired /\ sync'.existing = sync.existing
        /\ UNCHANGED <<slices, cache, torn>>
    BY <1>1, <1>2, <1>4 DEF FinishPut, Syncing, Outside
  <2>2. Width' = Width
    BY <1>1, <2>1 DEF Width
  <2>3. \A q \in Pools : ~Underway(q)' => ~Underway(q)
    BY <1>0, <1>1, <2>1 DEF Underway
  <2> QED
    BY <1>3, <2>1, <2>2, <2>3, NextPoolByPool
<1>5. CASE TrimSlice
  <2>1. PICK i \in sync.left :
          /\ sync.pc = "trim" /\ i \in Shards /\ i >= Width
          /\ slices' = slices \/ slices' = [slices EXCEPT ![p][i] = None]
          /\ SkipPool \/ (sync' = [sync EXCEPT !.left = @ \ {i}] /\ torn' = torn)
    BY <1>1, <1>2, <1>5, TrimSliceMoves
  <2>2. /\ \A j \in Shards : slices'[p][j] = slices[p][j] \/ (j = i /\ slices'[p][j] = None)
        /\ \A q \in Pools : q # p => slices'[q] = slices[q]
        /\ slices'[p] \in [Shards -> Slice \cup {None}]
        /\ slices[p] \in [Shards -> Slice \cup {None}]
    BY <1>2, <2>1, PoolsAreLabels DEF PublisherInv, WorldOK, Listing
  <2>3. slices'[p] = slices[p] \/ slices'[p] # sync.existing[p]
    <3>1. ~(i < Width)
      BY <1>2, <2>1, ShardsAreNaturals
    <3>2. slices[p][i] = sync.existing[p][i]
      BY <1>1, <2>1, <3>1 DEF ListingStands
    <3>3. CASE slices'[p][i] = slices[p][i]
      BY <2>2, <3>3
    <3>4. CASE slices'[p][i] # slices[p][i]
      BY <3>2, <3>4
    <3> QED
      BY <3>3, <3>4
  <2>4. slices[p] = NoSlices => slices'[p] = NoSlices
    BY <2>2 DEF NoSlices
  <2>5. UNCHANGED cache /\ \A q \in Rejected : slices'[q] = NoSlices
    BY <1>3, <1>5, <2>2, <2>4, PublisherAssumption DEF TrimSlice
  <2>6. CASE SkipPool
    BY <1>0, <1>1, <2>2, <2>3, <2>5, <2>6, SkipGenerations
  <2>7. CASE sync' = [sync EXCEPT !.left = @ \ {i}] /\ torn' = torn
    <3>1. /\ sync'.pc = "trim" /\ sync'.cur = p /\ sync'.gen = gen
          /\ sync'.desired = sync.desired /\ sync'.existing = sync.existing
      BY <1>1, <1>2, <2>1, <2>7 DEF Syncing
    <3>2. Width' = Width
      BY <1>1, <3>1 DEF Width
    <3>3. \A q \in Pools : ~Underway(q)' => ~Underway(q) /\ slices'[q] = slices[q]
      BY <1>1, <2>2, <2>3, <3>1 DEF Underway
    <3>4. ~torn[p] => /\ Shared(slices'[p]) /\ Descends(slices'[p])
                      /\ UpTo(slices'[p], gen, Width)
      BY <1>3, <2>2, FewerSlices
    <3>5. \A q \in Pools : ~torn[q] => Shared(slices'[q]) /\ Descends(slices'[q])
      BY <1>3, <2>2, <3>4
    <3>6. \A q \in Pools : ~torn[q] /\ ~Underway(q)' => CacheCovers(cache'[q], slices'[q])
      BY <1>3, <2>5, <3>3
    <3> QED
      BY <2>5, <2>7, <3>1, <3>2, <3>4, <3>5, <3>6, NextPoolByPool
  <2> QED
    BY <2>1, <2>6, <2>7
<1> QED
  BY <1>4, <1>5

\* The steps before the first pool and after the last one.
LEMMA OtherGenerations ==
    ASSUME OwnLabels, GenerationInv, PublisherInv, PublisherInv',
           \/ ReadPool \/ FindStale \/ PrunePool \/ PruneSlice \/ ForgetPools \/ ListClasses
           \/ FinishSync \/ \E t \in Types : PutClass(t) \/ DeleteClass(t)
    PROVE  GenerationInv'
<1>0. sync \in Syncing /\ slices \in Listing /\ slices' \in Listing /\ Pools \subseteq Labels
  BY PoolsAreLabels DEF PublisherInv, SyncFits, WorldOK
<1>1. sync.pc \notin {"put", "trim"} /\ sync'.pc \notin {"put", "trim"}
  <2>1. CASE PruneSlice
    <3>1. /\ sync.pc = "prune"
          /\ \E i \in Shards : \/ sync' = [sync EXCEPT !.left = sync.left \ {i}]
                               \/ sync' = [sync EXCEPT !.cur = None, !.left = {}]
      BY <2>1, PruneSliceMoves
    <3> QED
      BY <1>0, <3>1 DEF Syncing
  <2>2. CASE ReadPool
    <3>1. sync.pc = "inventory"
      BY <2>2 DEF ReadPool, AtSync
    <3>2. EndSync \/ sync'.pc = sync.pc
      BY <1>0, <2>2 DEF ReadPool, Syncing
    <3> QED
      BY <3>1, <3>2, NoSyncFits DEF EndSync
  <2>3. CASE FindStale \/ PrunePool \/ ForgetPools
    BY <1>0, <2>3 DEF FindStale, PrunePool, ForgetPools, AtSync, Syncing
  <2>4. ASSUME NEW t \in Types, PutClass(t) \/ DeleteClass(t)
        PROVE  sync.pc \notin {"put", "trim"} /\ sync'.pc \notin {"put", "trim"}
    <3>1. /\ sync.pc = "class"
          /\ EndSync \/ sync' = [sync EXCEPT !.todo = @ \ {t}]
      BY <2>4 DEF PutClass, DeleteClass, AtSync, Remote
    <3> QED
      BY <1>0, <3>1, NoSyncFits DEF EndSync, Syncing
  <2>5. CASE ListClasses \/ FinishSync
    BY <1>0, <2>5, NoSyncFits DEF ListClasses, FinishSync, AtSync, EndSync, Syncing
  <2> QED
    BY <2>1, <2>2, <2>3, <2>4, <2>5
<1>2. \A p \in Pools, i \in Shards : slices'[p][i] \in {slices[p][i], None}
  <2>1. CASE PruneSlice
    <3>1. PICK k \in Labels \ Desired, j \in Shards :
             slices' = slices \/ slices' = [slices EXCEPT ![k][j] = None]
      BY <2>1, PruneSliceMoves
    <3> QED
      BY <1>0, <3>1 DEF Listing
  <2>2. CASE UNCHANGED slices
    BY <2>2
  <2> QED
    BY <2>1, <2>2 DEF ReadPool, FindStale, PrunePool, ForgetPools, ListClasses, FinishSync,
                      PutClass, DeleteClass
<1>3. \A p \in Pools : cache'[p] \in {cache[p], None}
  <2>1. CASE PruneSlice
    <3>1. PICK k \in Labels \ Desired : cache' = cache \/ cache' = [cache EXCEPT ![k] = None]
      BY <2>1, PruneSliceMoves
    <3> QED
      BY <3>1, LabelFacts DEF PublisherInv, WorldOK
  <2>2. CASE ForgetPools
    BY <2>2, LabelFacts DEF ForgetPools
  <2>3. CASE UNCHANGED cache
    BY <2>3
  <2> QED
    BY <2>1, <2>2, <2>3 DEF ReadPool, FindStale, PrunePool, ListClasses, FinishSync,
                            PutClass, DeleteClass
<1>4. torn' = torn
  BY DEF ReadPool, FindStale, PrunePool, PruneSlice, ForgetPools, ListClasses, FinishSync,
         PutClass, DeleteClass, Outside
<1> QED
  BY <1>0, <1>1, <1>2, <1>3, <1>4, QuietGenerations

LEMMA RestartGenerations ==
    ASSUME OwnLabels, GenerationInv, PublisherInv, Restart
    PROVE  GenerationInv'
<1>1. sync'.pc = "idle" /\ UNCHANGED <<slices, torn>>
  BY NoSyncFits DEF Restart, EndSync, Outside
<1>2. \A p \in Pools : cache'[p] = None
  BY LabelFacts DEF Restart
<1>3. \A p \in Pools : CacheCovers(cache'[p], slices'[p])
  BY <1>2 DEF CacheCovers
<1>4. /\ \A p \in Pools : ~torn[p] => Shared(slices[p]) /\ Descends(slices[p])
      /\ \A p \in Rejected : slices[p] = NoSlices
  BY PoolByPool
<1> QED
  BY <1>1, <1>3, <1>4, NextPoolByPool

\* A pool's generation only goes up, and the first of its slices and the cache know
\* the latest (operator.go nextGeneration, applyPool), through failing calls and
\* restarts of the operator in the middle of a pool, unless the pool was given up
\* half-way and no Sync has got to its end since; as long as nobody else writes
\* the slices and shards' names sort as their numbers do.
THEOREM GenerationsGoUp ==
    ASSUME OwnLabels, OrderedNames, NoMeddling
    PROVE  PublisherSpec => []GenerationInv
<1>1. PublisherInit => GenerationInv
  <2> SUFFICES ASSUME PublisherInit PROVE GenerationInv
    OBVIOUS
  <2>1. /\ \A p \in Pools : p \in Labels /\ slices[p] = NoSlices /\ cache[p] = None
        /\ Rejected \subseteq Pools /\ sync.pc = "idle"
    BY LabelFacts, NoSyncFits, PublisherAssumption DEF OwnLabels, PublisherInit
  <2>2. Published(NoSlices) = {}
    BY DEF Published, NoSlices
  <2> QED
    BY <2>1, <2>2 DEF GenerationInv, SharedUnlessTorn, OneRendering, OwnLabels
<1>2. PublisherInv /\ PublisherInv' /\ ListingStands /\ ListingStands' /\ GenerationInv
         /\ [PublisherNext]_publisherVars => GenerationInv'
  <2> SUFFICES ASSUME PublisherInv, PublisherInv', ListingStands, ListingStands',
                      GenerationInv, [PublisherNext]_publisherVars
               PROVE  GenerationInv'
    OBVIOUS
  <2>1. CASE UNCHANGED <<sync, slices, cache, torn>>
    BY <2>1 DEF GenerationInv, SharedUnlessTorn, OneRendering, Width, Underway
  <2>2. ChangeStock \/ UNCHANGED publisherVars => UNCHANGED <<sync, slices, cache, torn>>
    BY DEF ChangeStock, publisherVars
  <2>3. ~Tamper /\ ~Overlap
    BY DEF NoMeddling, Tamper, Overlap, Fault
  <2> QED
    BY <2>1, <2>2, <2>3, ListSlicesGenerations, StartPoolGenerations, PutSliceGenerations,
       LateGenerations, FinishPoolGenerations, OtherGenerations, RestartGenerations
    DEF PublisherNext, SyncStep
<1> QED
  BY <1>1, <1>2, PublisherInvariant, WhatWasListedStands, PTL DEF PublisherSpec

\* Slices that share a pool name and a generation are shards of one rendering of
\* the pool (resourceslice.go 55-56), under the same conditions: giving a pool up
\* half-way is the only way to lose it, and getting to its end restores it.
THEOREM OneRenderingPerGeneration ==
    ASSUME OwnLabels, OrderedNames, NoMeddling
    PROVE  PublisherSpec => []SharedUnlessTorn
<1>1. GenerationInv => SharedUnlessTorn
  BY DEF GenerationInv
<1> QED
  BY <1>1, GenerationsGoUp, PTL

===============================================================================
