--------------------------- MODULE ReconcilerProofs ---------------------------
(***************************************************************************)
(* Type correctness of the reconcile loop, and that the Thunder zone it    *)
(* caches is never a stale one, for every threshold and fault budget.      *)
(***************************************************************************)
EXTENDS Reconciler, WellFoundedInduction, TLAPS

\* A record update that keeps the type, by the fields it sets.
LEMMA Updates ==
    ASSUME NEW r \in Reconciling
    PROVE  /\ \A pc \in PCs : [r EXCEPT !.pc = pc] \in Reconciling
           /\ \A pc \in PCs, n \in 0 .. MaxFailures :
                 [r EXCEPT !.pc = pc, !.failures = n] \in Reconciling
           /\ \A z \in ZoneOrNone, id \in IDOrNone, pc \in PCs :
                 [r EXCEPT !.zone = z, !.zoneID = id, !.pc = pc] \in Reconciling
           /\ \A id \in IDOrNone, pc \in PCs :
                 [r EXCEPT !.zoneID = id, !.pc = pc] \in Reconciling
           /\ \A z \in IDOrNone, pc \in PCs : [r EXCEPT !.tok = z, !.pc = pc] \in Reconciling
           /\ \A z \in IDOrNone : [r EXCEPT !.tok = z] \in Reconciling
           /\ \A z \in IDOrNone : [r EXCEPT !.plugin = z] \in Reconciling
           /\ \A n \in Nat : [r EXCEPT !.unhealthy = n] \in Reconciling
           /\ \A n \in 0 .. TransitionalThreshold, pc \in PCs :
                 [r EXCEPT !.transitional = n, !.pc = pc] \in Reconciling
           /\ \A n \in 0 .. RestartLimit, pc \in PCs :
                 [r EXCEPT !.restarts = n, !.pc = pc] \in Reconciling
           /\ \A n \in 0 .. RestartLimit, z \in IDOrNone :
                 [r EXCEPT !.restarts = n, !.tok = z] \in Reconciling
           /\ \A u \in Nat, t \in 0 .. TransitionalThreshold, pc \in PCs :
                 [r EXCEPT !.unhealthy = u, !.transitional = t, !.pc = pc] \in Reconciling
           /\ \A u \in Nat, t \in 0 .. TransitionalThreshold, n \in 0 .. RestartLimit,
                 h \in BOOLEAN, pc \in PCs :
                 [r EXCEPT !.unhealthy = u, !.transitional = t, !.restarts = n,
                           !.everHealthy = h, !.pc = pc] \in Reconciling
BY DEF Reconciling

LEMMA Constants ==
    /\ 0 \in Nat /\ 0 \in 0 .. TransitionalThreshold /\ 0 \in 0 .. RestartLimit
    /\ 0 \in 0 .. MaxFailures /\ NoZone \in ZoneOrNone /\ NoZone \in IDOrNone
    /\ {"wait", "zone", "create", "relist", "status", "restart", "enroll", "install",
        "plugin"} \subseteq PCs
BY ReconcilerAssumption DEF ZoneOrNone, IDOrNone, PCs

\* What a step may do to the reconciler's record and leave its zones alone.
SameZones(q, r) ==
    /\ q \in Reconciling
    /\ q.zone = r.zone /\ q.zoneID = r.zoneID

LEMMA RepairedFacts ==
    ASSUME NEW r \in Reconciling
    PROVE  /\ SameZones(Repaired(r), r) /\ Repaired(r).pc = "plugin"
           /\ SameZones([Repaired(r) EXCEPT !.restarts = 0, !.tok = NoZone], r)
           /\ [Repaired(r) EXCEPT !.restarts = 0, !.tok = NoZone].pc = "plugin"
<1>1. Repaired(r) \in Reconciling
  BY Updates, Constants DEF Repaired
<1>2. /\ Repaired(r).zone = r.zone /\ Repaired(r).zoneID = r.zoneID
      /\ Repaired(r).pc = "plugin"
  BY DEF Repaired, Reconciling
<1>3. [Repaired(r) EXCEPT !.restarts = 0, !.tok = NoZone] \in Reconciling
  BY <1>1, Updates, Constants
<1>4. ASSUME NEW q \in Reconciling
      PROVE  LET p == [q EXCEPT !.restarts = 0, !.tok = NoZone]
             IN p.zone = q.zone /\ p.zoneID = q.zoneID /\ p.pc = q.pc
  BY DEF Reconciling
<1> QED
  BY <1>1, <1>2, <1>3, <1>4 DEF SameZones

LEMMA FaultSteps ==
    ASSUME FaultsTypeOK
    PROVE  /\ UNCHANGED faults => FaultsTypeOK'
           /\ \A kind : Fault(kind) => FaultsTypeOK'
BY FaultAssumption DEF FaultsTypeOK, Fault

\* What the reconciler judges: the zones stay, and the pass goes on to a
\* repair or to the plugin.
LEMMA JudgeFacts ==
    ASSUME rec \in Reconciling, NEW readable \in BOOLEAN
    PROVE  /\ SameZones(Judge(readable), rec)
           /\ Judge(readable).pc \in {"plugin", "restart", "enroll"}
<1> DEFINE seen == [rec EXCEPT !.unhealthy = rec.unhealthy + 1]
           well == [rec EXCEPT !.unhealthy = 0, !.transitional = 0, !.restarts = 0,
                               !.everHealthy = TRUE, !.pc = "plugin"]
           moving == [rec EXCEPT !.transitional = rec.transitional + 1, !.pc = "plugin"]
<1>0. /\ rec.unhealthy + 1 \in Nat
      /\ rec.transitional < TransitionalThreshold =>
            rec.transitional + 1 \in 0 .. TransitionalThreshold
      /\ rec.restarts < RestartLimit => rec.restarts + 1 \in 0 .. RestartLimit
  BY ReconcilerAssumption DEF Reconciling
<1>1. SameZones(seen, rec) /\ seen.restarts = rec.restarts
  <2>1. seen \in Reconciling
    BY <1>0, Updates
  <2>2. seen.zone = rec.zone /\ seen.zoneID = rec.zoneID /\ seen.restarts = rec.restarts
    BY DEF Reconciling
  <2> QED
    BY <2>1, <2>2 DEF SameZones
<1>2. SameZones(well, rec) /\ well.pc = "plugin"
  <2>1. well \in Reconciling
    BY Updates, Constants
  <2>2. well.zone = rec.zone /\ well.zoneID = rec.zoneID /\ well.pc = "plugin"
    BY DEF Reconciling
  <2> QED
    BY <2>1, <2>2 DEF SameZones
<1>3. rec.transitional < TransitionalThreshold => SameZones(moving, rec) /\ moving.pc = "plugin"
  <2>1. rec.transitional < TransitionalThreshold => moving \in Reconciling
    BY <1>0, Updates, Constants
  <2>2. moving.zone = rec.zone /\ moving.zoneID = rec.zoneID /\ moving.pc = "plugin"
    BY DEF Reconciling
  <2> QED
    BY <2>1, <2>2 DEF SameZones
<1>4. ASSUME NEW q \in Reconciling, NEW pc \in PCs, NEW n
      PROVE  /\ [q EXCEPT !.pc = pc].zone = q.zone /\ [q EXCEPT !.pc = pc].zoneID = q.zoneID
             /\ [q EXCEPT !.pc = pc].pc = pc
             /\ [q EXCEPT !.restarts = n, !.pc = pc].zone = q.zone
             /\ [q EXCEPT !.restarts = n, !.pc = pc].zoneID = q.zoneID
             /\ [q EXCEPT !.restarts = n, !.pc = pc].pc = pc
  BY DEF Reconciling
<1>5. \A pc \in {"plugin", "enroll"} :
         SameZones([seen EXCEPT !.pc = pc], rec) /\ [seen EXCEPT !.pc = pc].pc = pc
  <2> HIDE DEF seen
  <2>1. seen \in Reconciling /\ {"plugin", "enroll"} \subseteq PCs
    BY <1>1, Constants DEF SameZones
  <2>2. \A pc \in {"plugin", "enroll"} : [seen EXCEPT !.pc = pc] \in Reconciling
    BY <2>1, Updates
  <2> QED
    BY <1>1, <1>4, <2>1, <2>2 DEF SameZones
<1>6. rec.restarts < RestartLimit =>
         /\ SameZones([seen EXCEPT !.restarts = seen.restarts + 1, !.pc = "restart"], rec)
         /\ [seen EXCEPT !.restarts = seen.restarts + 1, !.pc = "restart"].pc = "restart"
  <2> HIDE DEF seen
  <2>1. seen \in Reconciling /\ "restart" \in PCs
    BY <1>1, Constants DEF SameZones
  <2>2. rec.restarts < RestartLimit =>
           [seen EXCEPT !.restarts = seen.restarts + 1, !.pc = "restart"] \in Reconciling
    BY <1>0, <1>1, <2>1, Updates
  <2> QED
    BY <1>1, <1>4, <2>1, <2>2 DEF SameZones
<1> QED
  BY <1>2, <1>3, <1>5, <1>6 DEF Judge, MayRestart

-------------------------------------------------------------------------------
(* The inductive invariant *)

\* A pass that is past the node's label has a zone to work for: the step that
\* looks the Thunder zone up is the one that needs it.
ZoneInv ==
    /\ ZoneIDIsForZone
    /\ rec.pc # "wait" => rec.zone # NoZone

ReconcilerInv == ReconcilerTypeOK /\ ZoneInv

\* What the host may be, whoever changed it.
HostOK(h) == h \in Host /\ (h.auth => h.zone # NoZone)

\* What a step may do to the node and to Thunder: a zone keeps its name.
WorldOK ==
    /\ label' \in ZoneOrNone /\ HostOK(host') /\ FaultsTypeOK'
    /\ registry' \in [ZoneIDs -> ZoneOrNone]
    /\ \A i \in ZoneIDs : registry[i] # NoZone => registry'[i] = registry[i]

\* The invariant of the next state from what a step did to the record.
LEMMA RecStep ==
    ASSUME ReconcilerInv, WorldOK, rec' \in Reconciling,
           rec'.zoneID # NoZone =>
               rec'.zone # NoZone /\ registry'[rec'.zoneID] = rec'.zone,
           rec'.pc \notin ZonePCs => rec'.zoneID # NoZone,
           rec'.pc # "wait" => rec'.zone # NoZone,
           rec'.pc = "install" => rec'.tok = rec'.zoneID
    PROVE  ReconcilerInv'
BY DEF ReconcilerInv, ReconcilerTypeOK, ZoneInv, ZoneIDIsForZone, HostOK, WorldOK

\* The zone that is cached stays one of its name.
LEMMA CachedStays ==
    ASSUME ReconcilerInv, WorldOK, rec.zoneID # NoZone
    PROVE  rec.zone # NoZone /\ registry'[rec.zoneID] = rec.zone
<1>1. rec.zoneID \in ZoneIDs /\ rec.zone # NoZone /\ registry[rec.zoneID] = rec.zone
  BY DEF ReconcilerInv, ReconcilerTypeOK, Reconciling, IDOrNone, ZoneInv, ZoneIDIsForZone
<1> QED
  BY <1>1 DEF WorldOK

\* A pass that ends early leaves the zones as they are.
LEMMA FailedStep ==
    ASSUME ReconcilerInv, WorldOK, NEW r, SameZones(r, rec), Failed(r)
    PROVE  ReconcilerInv'
<1> DEFINE n == IF r.failures < MaxFailures THEN r.failures + 1 ELSE MaxFailures
<1>1. r \in Reconciling /\ r.zone = rec.zone /\ r.zoneID = rec.zoneID
  BY DEF SameZones
<1>2. n \in 0 .. MaxFailures
  BY <1>1, ReconcilerAssumption DEF Reconciling
<1>3. rec' = [r EXCEPT !.pc = "wait", !.failures = n]
  BY DEF Failed
<1> HIDE DEF n
<1>4. rec' \in Reconciling
  BY <1>1, <1>2, <1>3, Updates, Constants
<1>5. rec'.zone = rec.zone /\ rec'.zoneID = rec.zoneID /\ rec'.pc = "wait"
  BY <1>1, <1>3 DEF Reconciling
<1> QED
  BY <1>4, <1>5, CachedStays, RecStep DEF ZonePCs

LEMMA Unmoved ==
    ASSUME ReconcilerInv
    PROVE  /\ label \in ZoneOrNone /\ HostOK(host)
           /\ registry \in [ZoneIDs -> ZoneOrNone]
           /\ SameZones(rec, rec)
           /\ rec \in Reconciling
           /\ FaultsTypeOK
BY DEF ReconcilerInv, ReconcilerTypeOK, ZoneInv, ZoneIDIsForZone, HostOK, SameZones

\* Most steps leave the label and Thunder's zones alone.
LEMMA WorldSteps ==
    ASSUME ReconcilerInv, UNCHANGED <<label, registry>>, HostOK(host'), FaultsTypeOK'
    PROVE  WorldOK
BY Unmoved DEF WorldOK

LEMMA SameWorld ==
    ASSUME ReconcilerInv, UNCHANGED <<label, registry, host>>,
           UNCHANGED faults \/ \E kind : Fault(kind)
    PROVE  WorldOK
<1>1. FaultsTypeOK'
  BY Unmoved, FaultSteps
<1>2. HostOK(host')
  BY Unmoved
<1> QED
  BY <1>1, <1>2, WorldSteps

LEMMA CallFailsStep ==
    ASSUME ReconcilerInv, CallFails
    PROVE  ReconcilerInv'
<1>1. WorldOK
  BY SameWorld DEF CallFails
<1> QED
  BY <1>1, Unmoved, FailedStep DEF CallFails

\* Going on within the pass, to a step for which the zone is resolved.
LEMMA OnwardsStep ==
    ASSUME ReconcilerInv, rec.pc \notin ZonePCs, WorldOK,
           NEW r, SameZones(r, rec), r.pc = "install" => r.tok = rec.zoneID,
           rec' = r
    PROVE  ReconcilerInv'
<1>1. rec.zoneID # NoZone
  BY DEF ReconcilerInv, ZoneInv, ZoneIDIsForZone
<1> QED
  BY <1>1, CachedStays, RecStep DEF SameZones

\* Going on towards the zone: only the pc moves.
LEMMA StillLooking ==
    ASSUME ReconcilerInv, rec.pc # "wait", WorldOK, NEW pc \in {"create", "relist"},
           rec' = [rec EXCEPT !.pc = pc]
    PROVE  ReconcilerInv'
<1>1. rec \in Reconciling /\ pc \in PCs /\ rec.zone # NoZone
  BY Unmoved, Constants DEF ReconcilerInv, ZoneInv
<1>2. rec' \in Reconciling
  BY <1>1, Updates
<1>3. rec'.zone = rec.zone /\ rec'.zoneID = rec.zoneID /\ rec'.pc = pc
  BY <1>1 DEF Reconciling
<1> QED
  BY <1>1, <1>2, <1>3, CachedStays, RecStep DEF ZonePCs

-------------------------------------------------------------------------------
(* One step per action *)

LEMMA ResolveNodeStep ==
    ASSUME ReconcilerInv, ResolveNode
    PROVE  ReconcilerInv'
<1>1. CASE /\ label # NoZone
           /\ LET id == IF rec.zone # label THEN NoZone ELSE rec.zoneID
              IN Onwards([rec EXCEPT !.zone = label, !.zoneID = id,
                                     !.pc = IF id = NoZone THEN "zone" ELSE "status"])
           /\ UNCHANGED <<label, registry, host, faults>>
  <2> DEFINE id == IF rec.zone # label THEN NoZone ELSE rec.zoneID
             pc == IF id = NoZone THEN "zone" ELSE "status"
  <2>1. label \in ZoneOrNone /\ rec \in Reconciling
    BY DEF ReconcilerInv, ReconcilerTypeOK
  <2>2. /\ id \in IDOrNone /\ pc \in PCs /\ pc \in {"zone", "status"}
        /\ id # NoZone => registry[id] = label
    BY <2>1, Constants DEF ReconcilerInv, ZoneInv, ZoneIDIsForZone, Reconciling
  <2>3. pc # "zone" => id # NoZone
    OBVIOUS
  <2>4. rec' = [rec EXCEPT !.zone = label, !.zoneID = id, !.pc = pc]
    BY <1>1 DEF Onwards
  <2> HIDE DEF id, pc
  <2>5. rec' \in Reconciling
    BY <2>1, <2>2, <2>4, Updates
  <2>6. rec'.zone = label /\ rec'.zoneID = id /\ rec'.pc = pc
    BY <2>1, <2>4 DEF Reconciling
  <2>7. WorldOK
    BY <1>1, SameWorld
  <2> QED
    BY <1>1, <2>2, <2>3, <2>5, <2>6, <2>7, RecStep DEF ZonePCs
<1>2. CASE label = NoZone /\ Failed(rec) /\ UNCHANGED <<label, registry, host, faults>>
  <2>1. WorldOK
    BY <1>2, SameWorld
  <2> QED
    BY <1>2, <2>1, Unmoved, FailedStep
<1>3. CASE CallFails
  BY <1>3, CallFailsStep
<1> QED
  BY <1>1, <1>2, <1>3 DEF ResolveNode

\* A zone that is found has the name it was looked up by.
LEMMA FoundStep ==
    ASSUME ReconcilerInv, rec.pc # "wait", Found,
           UNCHANGED <<label, registry, host, faults>>
    PROVE  ReconcilerInv'
<1>1. PICK id \in findSmallestZoneID(rec.zone) :
         rec' = [rec EXCEPT !.zoneID = id, !.pc = "status"]
  BY DEF Found, Onwards
<1>3. id \in IDOrNone /\ id # NoZone /\ registry[id] = rec.zone
  BY <1>1, ReconcilerAssumption DEF findSmallestZoneID, Named, IDOrNone
<1>4. rec \in Reconciling /\ rec.zone # NoZone
  BY Unmoved DEF ReconcilerInv, ZoneInv
<1>6. rec' \in Reconciling
  BY <1>1, <1>3, <1>4, Updates, Constants
<1>7. rec'.zone = rec.zone /\ rec'.zoneID = id /\ rec'.pc = "status"
  BY <1>1, <1>4 DEF Reconciling
<1> QED
  BY <1>3, <1>4, <1>6, <1>7, SameWorld, RecStep DEF ZonePCs

LEMMA ListZonesStep ==
    ASSUME ReconcilerInv, ListZones
    PROVE  ReconcilerInv'
<1>0. rec.pc = "zone" /\ UNCHANGED <<label, registry, host>>
  BY DEF ListZones
<1>1. CASE Found /\ UNCHANGED faults
  BY <1>0, <1>1, FoundStep
<1>2. CASE Onwards([rec EXCEPT !.pc = "create"]) /\ UNCHANGED faults
  BY <1>0, <1>2, SameWorld, StillLooking DEF Onwards
<1>3. CASE Fault("error") /\ Failed(rec)
  BY <1>0, <1>3, CallFailsStep DEF CallFails
<1> QED
  BY <1>1, <1>2, <1>3 DEF ListZones

\* A new zone takes an ID that no zone has.
LEMMA CreateFacts ==
    ASSUME ReconcilerInv, NEW z \in Zones, Create(z)
    PROVE  /\ registry' \in [ZoneIDs -> ZoneOrNone]
           /\ \A i \in ZoneIDs : registry[i] # NoZone => registry'[i] = registry[i]
BY Unmoved DEF Create, Named, ZoneOrNone

LEMMA CreateZoneStep ==
    ASSUME ReconcilerInv, CreateZone
    PROVE  ReconcilerInv'
<1>0. rec.pc = "create" /\ UNCHANGED <<label, host>>
  BY DEF CreateZone
<1>1. rec.zone \in Zones
  BY <1>0, Unmoved DEF ReconcilerInv, ZoneInv, Reconciling, ZoneOrNone
<1>2. FaultsTypeOK'
  BY Unmoved, FaultSteps DEF CreateZone, Remote
<1>3. Create(rec.zone) \/ UNCHANGED registry
  BY DEF CreateZone, Remote
<1>4. WorldOK
  BY <1>0, <1>1, <1>2, <1>3, CreateFacts, Unmoved DEF WorldOK
<1>5. Failed(rec) \/ rec' = [rec EXCEPT !.pc = "relist"]
  BY DEF CreateZone, Remote, Onwards
<1> QED
  BY <1>0, <1>4, <1>5, Unmoved, FailedStep, StillLooking

LEMMA RelistZonesStep ==
    ASSUME ReconcilerInv, RelistZones
    PROVE  ReconcilerInv'
<1>0. rec.pc = "relist" /\ UNCHANGED <<label, registry, host>>
  BY DEF RelistZones
<1>1. CASE Found /\ UNCHANGED faults
  BY <1>0, <1>1, FoundStep
<1>2. CASE Fault("error") /\ Failed(rec)
  BY <1>0, <1>2, CallFailsStep DEF CallFails
<1> QED
  BY <1>1, <1>2 DEF RelistZones

LEMMA CheckStatusStep ==
    ASSUME ReconcilerInv, CheckStatus
    PROVE  ReconcilerInv'
<1>1. PICK readable \in BOOLEAN : rec' = Judge(readable)
  <2>1. (host.svc # "absent") \in BOOLEAN /\ FALSE \in BOOLEAN
    OBVIOUS
  <2> QED
    BY <2>1 DEF CheckStatus, Onwards
<1>2. /\ SameZones(Judge(readable), rec)
      /\ Judge(readable).pc # "install"
  BY Unmoved, JudgeFacts
<1>3. WorldOK
  BY SameWorld DEF CheckStatus
<1>4. rec.pc \notin ZonePCs
  BY DEF CheckStatus, ZonePCs
<1> QED
  BY <1>1, <1>2, <1>3, <1>4, OnwardsStep

LEMMA RestartThunderdStep ==
    ASSUME ReconcilerInv, RestartThunderd
    PROVE  ReconcilerInv'
<1>1. HostOK(host')
  <2>1. CASE UNCHANGED host
    BY <2>1, Unmoved
  <2>2. CASE host' \in Restarted
    <3>1. PICK s \in {"moving", "up", "down"} : host' = [host EXCEPT !.svc = s]
      BY <2>2 DEF Restarted
    <3> QED
      BY <3>1 DEF ReconcilerInv, ReconcilerTypeOK, ZoneInv, ZoneIDIsForZone, HostOK, Host
  <2> QED
    BY <2>1, <2>2 DEF RestartThunderd, Remote
<1>2. WorldOK
  <2>1. FaultsTypeOK'
    BY Unmoved, FaultSteps DEF RestartThunderd, Remote
  <2> QED
    BY <1>1, <2>1, WorldSteps DEF RestartThunderd
<1>3. rec' = Repaired(rec) \/ rec' = [rec EXCEPT !.pc = "enroll"]
  BY DEF RestartThunderd, Remote, Onwards
<1>4. SameZones([rec EXCEPT !.pc = "enroll"], rec) /\ [rec EXCEPT !.pc = "enroll"].pc = "enroll"
  <2>1. rec \in Reconciling
    BY Unmoved
  <2>2. [rec EXCEPT !.pc = "enroll"] \in Reconciling
    BY <2>1, Updates, Constants
  <2> QED
    BY <2>1, <2>2 DEF SameZones, Reconciling
<1>5. SameZones(Repaired(rec), rec) /\ Repaired(rec).pc = "plugin"
  BY Unmoved, RepairedFacts
<1>6. rec.pc \notin ZonePCs
  BY DEF RestartThunderd, ZonePCs
<1>7. CASE rec' = Repaired(rec)
  BY <1>2, <1>5, <1>6, <1>7, OnwardsStep
<1>8. CASE rec' = [rec EXCEPT !.pc = "enroll"]
  BY <1>2, <1>4, <1>6, <1>8, OnwardsStep
<1> QED
  BY <1>3, <1>7, <1>8

LEMMA MintServerTokenStep ==
    ASSUME ReconcilerInv, MintServerToken
    PROVE  ReconcilerInv'
<1>1. CASE /\ Onwards([rec EXCEPT !.tok = rec.zoneID, !.pc = "install"])
           /\ UNCHANGED <<label, registry, host, faults>>
  <2> DEFINE r == [rec EXCEPT !.tok = rec.zoneID, !.pc = "install"]
  <2>1. rec \in Reconciling /\ rec.zoneID \in IDOrNone
    BY Unmoved DEF Reconciling
  <2>2. r \in Reconciling
    BY <2>1, Updates, Constants
  <2>3. r.zone = rec.zone /\ r.zoneID = rec.zoneID /\ r.tok = rec.zoneID
    BY <2>1 DEF Reconciling
  <2>4. WorldOK /\ rec' = r
    BY <1>1, SameWorld DEF Onwards
  <2>5. rec.pc \notin ZonePCs
    BY DEF MintServerToken, ZonePCs
  <2> HIDE DEF r
  <2> QED
    BY <2>2, <2>3, <2>4, <2>5, OnwardsStep DEF SameZones
<1>2. CASE CallFails
  BY <1>2, CallFailsStep
<1> QED
  BY <1>1, <1>2 DEF MintServerToken

\* The token carries the zone that the pass resolved, so thunderd is enrolled
\* in a zone whenever it is enrolled.
LEMMA InstallThunderdStep ==
    ASSUME ReconcilerInv, InstallThunderd
    PROVE  ReconcilerInv'
<1>1. rec \in Reconciling /\ rec.tok # NoZone /\ rec.tok \in IDOrNone
  BY DEF ReconcilerInv, ReconcilerTypeOK, ZoneInv, ZoneIDIsForZone, InstallThunderd,
         Reconciling, ZonePCs
<1>2. HostOK(host')
  <2>1. CASE UNCHANGED host
    BY <2>1, Unmoved
  <2>2. CASE host' \in Installed
    <3>1. PICK s \in {"moving", "up"} :
             host' = [svc |-> s, sound |-> TRUE, auth |-> TRUE, zone |-> rec.tok,
                      enabled |-> FALSE]
      BY <2>2 DEF Installed
    <3> QED
      BY <3>1, <1>1 DEF HostOK, Host
  <2> QED
    BY <2>1, <2>2 DEF InstallThunderd, Remote
<1>3. WorldOK
  <2>1. FaultsTypeOK'
    BY Unmoved, FaultSteps DEF InstallThunderd, Remote
  <2> QED
    BY <1>2, <2>1, WorldSteps DEF InstallThunderd
<1>4. CASE Onwards([Repaired(rec) EXCEPT !.restarts = 0, !.tok = NoZone])
  <2> DEFINE r == [Repaired(rec) EXCEPT !.restarts = 0, !.tok = NoZone]
  <2>1. SameZones(r, rec) /\ r.pc = "plugin"
    BY <1>1, RepairedFacts
  <2>2. rec' = r
    BY <1>4 DEF Onwards
  <2>3. rec.pc \notin ZonePCs
    BY DEF InstallThunderd, ZonePCs
  <2> HIDE DEF r
  <2> QED
    BY <1>3, <2>1, <2>2, <2>3, OnwardsStep
<1>5. CASE Failed([rec EXCEPT !.tok = NoZone])
  <2> DEFINE r == [rec EXCEPT !.tok = NoZone]
  <2>1. r \in Reconciling
    BY <1>1, Updates, Constants
  <2>2. r.zone = rec.zone /\ r.zoneID = rec.zoneID
    BY <1>1 DEF Reconciling
  <2>3. Failed(r)
    BY <1>5
  <2> HIDE DEF r
  <2> QED
    BY <1>3, <2>1, <2>2, <2>3, FailedStep DEF SameZones
<1> QED
  BY <1>4, <1>5 DEF InstallThunderd, Remote

LEMMA EnsurePluginStep ==
    ASSUME ReconcilerInv, EnsurePlugin
    PROVE  ReconcilerInv'
<1>1. CASE /\ Passed([rec EXCEPT !.plugin = IF rec.plugin = NoZone THEN rec.zoneID ELSE rec.plugin])
           /\ UNCHANGED <<label, registry, host, faults>>
  <2> DEFINE z == IF rec.plugin = NoZone THEN rec.zoneID ELSE rec.plugin
             r == [rec EXCEPT !.plugin = z]
  <2>1. rec \in Reconciling /\ z \in IDOrNone
    BY Unmoved DEF Reconciling
  <2>2. r \in Reconciling
    <3> HIDE DEF z
    <3> QED
      BY <2>1, Updates
  <2>3. r.zone = rec.zone /\ r.zoneID = rec.zoneID
    BY <2>1 DEF Reconciling
  <2>4. rec' = [r EXCEPT !.pc = "wait", !.failures = 0]
    BY <1>1 DEF Passed
  <2> HIDE DEF r
  <2>5. rec' \in Reconciling
    BY <2>2, <2>4, Updates, Constants
  <2>6. rec'.zone = rec.zone /\ rec'.zoneID = rec.zoneID /\ rec'.pc = "wait"
    BY <2>2, <2>3, <2>4 DEF Reconciling
  <2>7. WorldOK
    BY <1>1, SameWorld
  <2> QED
    BY <2>5, <2>6, <2>7, CachedStays, RecStep DEF ZonePCs
<1>2. CASE CallFails
  BY <1>2, CallFailsStep
<1> QED
  BY <1>1, <1>2 DEF EnsurePlugin

\* What happens to the node around the loop leaves the record alone, or starts
\* it over.
LEMMA NodeStep ==
    ASSUME ReconcilerInv, Settle \/ Disturbance
    PROVE  ReconcilerInv'
<1>1. FaultsTypeOK'
  BY Unmoved, FaultSteps DEF Settle, Disturbance, Outage, Relabel, DaemonRestart, RivalZone
<1>2. ASSUME WorldOK, UNCHANGED rec PROVE ReconcilerInv'
  BY <1>2, CachedStays, RecStep DEF ReconcilerInv, ReconcilerTypeOK, ZoneInv, ZoneIDIsForZone
<1>3. CASE Settle
  <2>1. HostOK(host')
    BY <1>3, Unmoved DEF Settle, HostOK, Host
  <2> QED
    BY <1>1, <1>2, <1>3, <2>1, WorldSteps DEF Settle
<1>4. CASE Outage
  <2>1. PICK s \in {"absent", "down", "moving"}, sound \in BOOLEAN, auth \in BOOLEAN,
               enabled \in BOOLEAN :
           /\ auth => host.auth
           /\ host' = [svc |-> s, sound |-> sound, auth |-> auth,
                       zone |-> IF auth THEN host.zone ELSE NoZone, enabled |-> enabled]
    BY <1>4 DEF Outage
  <2>2. host.zone \in IDOrNone /\ NoZone \in IDOrNone
    BY Constants, Unmoved DEF HostOK, Host
  <2>3. HostOK(host')
    BY <2>1, <2>2, Unmoved DEF HostOK, Host
  <2> QED
    BY <1>1, <1>2, <1>4, <2>3, WorldSteps DEF Outage
<1>5. CASE Relabel
  BY <1>1, <1>2, <1>5, Unmoved DEF Relabel, WorldOK
<1>6. CASE RivalZone
  <2>1. PICK z \in Zones : Create(z)
    BY <1>6 DEF RivalZone
  <2> QED
    BY <1>1, <1>2, <1>6, <2>1, CreateFacts, Unmoved DEF RivalZone, WorldOK
<1>7. CASE DaemonRestart
  <2>1. NewReconciler \in Reconciling
    BY Constants DEF NewReconciler, Reconciling
  <2>2. /\ NewReconciler.pc = "wait" /\ NewReconciler.zoneID = NoZone
    BY DEF NewReconciler
  <2>3. WorldOK /\ rec' = NewReconciler
    BY <1>1, <1>7, Unmoved, WorldSteps DEF DaemonRestart
  <2> QED
    BY <2>1, <2>2, <2>3, RecStep DEF ZonePCs
<1> QED
  BY <1>3, <1>4, <1>5, <1>6, <1>7 DEF Disturbance

-------------------------------------------------------------------------------
(* The theorems *)

LEMMA ReconcilerInvariant == ReconcilerSpec => []ReconcilerInv
<1>1. ReconcilerInit => ReconcilerInv
  <2> SUFFICES ASSUME ReconcilerInit PROVE ReconcilerInv
    OBVIOUS
  <2>1. rec \in Reconciling
    BY Constants DEF ReconcilerInit, NewReconciler, Reconciling
  <2>2. host \in Host /\ ~host.auth
    BY Constants DEF ReconcilerInit, Host
  <2>3. rec.pc = "wait" /\ rec.zoneID = NoZone
    BY DEF ReconcilerInit, NewReconciler
  <2>4. label \in ZoneOrNone /\ FaultsTypeOK /\ registry \in [ZoneIDs -> ZoneOrNone]
    BY FaultAssumption, Constants DEF ReconcilerInit, FaultsTypeOK
  <2> QED
    BY <2>1, <2>2, <2>3, <2>4
    DEF ReconcilerInv, ReconcilerTypeOK, ZoneInv, ZoneIDIsForZone, ZonePCs
<1>2. ReconcilerInv /\ [ReconcilerNext]_reconcilerVars => ReconcilerInv'
  <2> SUFFICES ASSUME ReconcilerInv, [ReconcilerNext]_reconcilerVars PROVE ReconcilerInv'
    OBVIOUS
  <2>1. CASE UNCHANGED reconcilerVars
    BY <2>1 DEF reconcilerVars, ReconcilerInv, ReconcilerTypeOK, FaultsTypeOK, ZoneInv,
                ZoneIDIsForZone
  <2>2. CASE PassStep
    BY <2>2, ResolveNodeStep, ListZonesStep, CreateZoneStep, RelistZonesStep,
       CheckStatusStep, RestartThunderdStep, MintServerTokenStep,
       InstallThunderdStep, EnsurePluginStep
    DEF PassStep
  <2>3. CASE Settle \/ Disturbance
    BY <2>3, NodeStep
  <2> QED
    BY <2>1, <2>2, <2>3 DEF ReconcilerNext
<1> QED
  BY <1>1, <1>2, PTL DEF ReconcilerSpec

\* The reconcile loop keeps its types: the counters of ensureEnrolled stay
\* within their limits (transitionalReconcileThreshold, restartRepairLimit),
\* whatever order of failures, outages and restarts a node goes through.
THEOREM ReconcilerTypeCorrect == ReconcilerSpec => []ReconcilerTypeOK
<1>1. ReconcilerInv => ReconcilerTypeOK
  BY DEF ReconcilerInv
<1> QED
  BY <1>1, ReconcilerInvariant, PTL

\* The Thunder zone that reconcile caches between passes, and with which it
\* mints node enrollment tokens, is the zone of the label it resolved in the
\* same pass, for any set of zones and any number of relabellings and failures.
THEOREM ZoneCacheFresh == ReconcilerSpec => []ZoneIDIsForZone
<1>1. ReconcilerInv => ZoneIDIsForZone
  BY DEF ReconcilerInv, ZoneInv
<1> QED
  BY <1>1, ReconcilerInvariant, PTL

-------------------------------------------------------------------------------
(* The backoff *)

LEMMA Induction ==
    ASSUME NEW S \in SUBSET Nat, 0 \in S, \A n \in S : n + 1 \in S
    PROVE  S = Nat
<1> DEFINE T == Nat \ S
<1> SUFFICES ASSUME T # {} PROVE FALSE
  OBVIOUS
<1>1. PICK n \in T : \A m \in T : <<m, n>> \notin OpToRel(<, Nat)
  BY NatLessThanWellFounded, WFMin
<1>2. n \in Nat /\ n # 0 /\ n - 1 \in Nat
  OBVIOUS
<1>3. n - 1 \notin T
  <2>1. <<n - 1, n>> \in OpToRel(<, Nat)
    BY <1>2 DEF OpToRel
  <2> HIDE DEF T
  <2> QED
    BY <1>1, <2>1
<1>4. (n - 1) + 1 = n
  BY <1>2
<1> QED
  BY <1>2, <1>3, <1>4

\* A function can be defined by its value at 0 and a step.
LEMMA Iteration ==
    ASSUME NEW a \in Nat, NEW step \in [Nat -> Nat]
    PROVE  \E f \in [Nat -> Nat] : f[0] = a /\ \A n \in Nat : f[n + 1] = step[f[n]]
<1> DEFINE Upto(n) == {g \in [Nat -> Nat] :
                         g[0] = a /\ \A i \in Nat : i < n => g[i + 1] = step[g[i]]}
<1>1. \A n \in Nat : Upto(n) # {}
  <2> DEFINE S == {n \in Nat : Upto(n) # {}}
  <2>1. 0 \in S
    <3>1. [i \in Nat |-> a] \in Upto(0)
      OBVIOUS
    <3> QED
      BY <3>1
  <2>2. ASSUME NEW n \in S PROVE n + 1 \in S
    <3>1. PICK g \in Upto(n) : TRUE
      BY <2>2
    <3> DEFINE h == [g EXCEPT ![n + 1] = step[g[n]]]
    <3>2. n \in Nat /\ g \in [Nat -> Nat] /\ h \in [Nat -> Nat]
      OBVIOUS
    <3>3. h[0] = a
      BY <3>2
    <3>4. ASSUME NEW i \in Nat, i < n + 1 PROVE h[i + 1] = step[h[i]]
      <4>1. h[i] = g[i]
        BY <3>2, <3>4
      <4>2. CASE i = n
        BY <3>2, <4>1, <4>2
      <4>3. CASE i < n
        <5>1. i + 1 # n + 1 /\ i + 1 \in Nat
          BY <3>2, <4>3
        <5>2. h[i + 1] = g[i + 1]
          BY <3>2, <5>1
        <5> QED
          BY <3>1, <4>1, <4>3, <5>2
      <4> QED
        BY <3>2, <3>4, <4>2, <4>3
    <3>5. h \in Upto(n + 1)
      BY <3>2, <3>3, <3>4
    <3>6. n + 1 \in Nat
      BY <3>2
    <3> HIDE DEF h, Upto
    <3> QED
      BY <3>5, <3>6
  <2>3. S = Nat
    <3> HIDE DEF S
    <3>1. S \in SUBSET Nat
      BY DEF S
    <3> QED
      BY <2>1, <2>2, <3>1, Induction
  <2> QED
    BY <2>3
<1>2. \A n, m \in Nat : \A g \in Upto(n), h \in Upto(m) :
         \A i \in Nat : i <= n /\ i <= m => g[i] = h[i]
  <2> SUFFICES ASSUME NEW n \in Nat, NEW m \in Nat, NEW g \in Upto(n), NEW h \in Upto(m)
               PROVE  \A i \in Nat : i <= n /\ i <= m => g[i] = h[i]
    OBVIOUS
  <2> DEFINE S == {i \in Nat : i <= n /\ i <= m => g[i] = h[i]}
  <2>1. 0 \in S
    OBVIOUS
  <2>2. ASSUME NEW i \in S PROVE i + 1 \in S
    <3> SUFFICES ASSUME i + 1 <= n, i + 1 <= m PROVE g[i + 1] = h[i + 1]
      OBVIOUS
    <3>1. i \in Nat /\ i < n /\ i < m
      OBVIOUS
    <3>2. g[i] = h[i]
      BY <3>1
    <3> QED
      BY <3>1, <3>2
  <2>3. S = Nat
    <3> HIDE DEF S
    <3>1. S \in SUBSET Nat
      BY DEF S
    <3> QED
      BY <2>1, <2>2, <3>1, Induction
  <2> QED
    BY <2>3
<1> DEFINE G == [n \in Nat |-> CHOOSE g \in Upto(n) : TRUE]
           f == [n \in Nat |-> G[n][n]]
<1>3. \A n \in Nat : G[n] \in Upto(n)
  BY <1>1
<1>4. f \in [Nat -> Nat] /\ f[0] = a
  <2>1. \A n \in Nat : G[n] \in [Nat -> Nat] /\ G[n][0] = a
    BY <1>3
  <2> HIDE DEF G
  <2> QED
    BY <2>1
<1>5. ASSUME NEW n \in Nat PROVE f[n + 1] = step[f[n]]
  <2>1. n + 1 \in Nat /\ n < n + 1 /\ n <= n
    OBVIOUS
  <2>2. f[n + 1] = G[n + 1][n + 1] /\ f[n] = G[n][n]
    BY <2>1
  <2>3. G[n + 1][n + 1] = step[G[n + 1][n]]
    BY <1>3, <2>1
  <2>4. G[n + 1][n] = G[n][n]
    <3> HIDE DEF G, Upto
    <3>1. G[n] \in Upto(n) /\ G[n + 1] \in Upto(n + 1) /\ n <= n + 1
      BY <1>3, <2>1
    <3>2. \A g \in Upto(n + 1), h \in Upto(n) :
             \A i \in Nat : i <= n + 1 /\ i <= n => g[i] = h[i]
      BY <1>2, <2>1
    <3>3. \A i \in Nat : i <= n + 1 /\ i <= n => G[n + 1][i] = G[n][i]
      BY <3>1, <3>2
    <3> QED
      BY <2>1, <3>1, <3>3
  <2> QED
    BY <2>2, <2>3, <2>4
<1> QED
  BY <1>4, <1>5

LEMMA DoubledSteps ==
    /\ Doubled \in [Nat -> Nat] /\ Doubled[0] = Interval
    /\ \A n \in Nat : Doubled[n + 1] = IF Doubled[n] >= MaxBackoff THEN Doubled[n]
                                       ELSE 2 * Doubled[n]
<1> DEFINE step == [x \in Nat |-> IF x >= MaxBackoff THEN x ELSE 2 * x]
           Body(f) == [i \in Nat |-> IF i = 0 THEN Interval
                                     ELSE IF f[i - 1] >= MaxBackoff THEN f[i - 1]
                                     ELSE 2 * f[i - 1]]
<1>0. Interval \in Nat /\ MaxBackoff \in Nat /\ step \in [Nat -> Nat]
  BY ReconcilerAssumption
<1>1. PICK f \in [Nat -> Nat] : f[0] = Interval /\ \A n \in Nat : f[n + 1] = step[f[n]]
  <2> HIDE DEF step
  <2> QED
    BY <1>0, Iteration
<1>2. f = Body(f)
  <2>1. ASSUME NEW i \in Nat, i # 0
        PROVE  f[i] = IF f[i - 1] >= MaxBackoff THEN f[i - 1] ELSE 2 * f[i - 1]
    <3>1. i - 1 \in Nat /\ (i - 1) + 1 = i
      BY <2>1
    <3> QED
      BY <1>1, <3>1
  <2> QED
    BY <1>1, <2>1
<1>3. Doubled = Body(Doubled)
  BY <1>2 DEF Doubled
<1>4. \A n \in Nat : n + 1 \in Nat /\ n + 1 # 0 /\ (n + 1) - 1 = n
  OBVIOUS
<1>5. Doubled[0] = Interval
  BY <1>3
<1>6. ASSUME NEW n \in Nat
      PROVE  Doubled[n + 1] = IF Doubled[n] >= MaxBackoff THEN Doubled[n] ELSE 2 * Doubled[n]
  <2>1. Body(Doubled)[n + 1] = IF Doubled[(n + 1) - 1] >= MaxBackoff THEN Doubled[(n + 1) - 1]
                               ELSE 2 * Doubled[(n + 1) - 1]
    BY <1>4
  <2> HIDE DEF Body
  <2> QED
    BY <1>3, <1>4, <2>1
<1>7. \A n \in Nat : Doubled[n] \in Nat
  <2> DEFINE S == {n \in Nat : Doubled[n] \in Nat}
  <2>1. 0 \in S
    BY <1>0, <1>5
  <2>2. ASSUME NEW n \in S PROVE n + 1 \in S
    BY <1>6
  <2> HIDE DEF S
  <2>3. S \in SUBSET Nat
    BY DEF S
  <2>4. S = Nat
    BY <2>1, <2>2, <2>3, Induction
  <2> QED
    BY <2>4 DEF S
<1> QED
  <2>1. Doubled \in [Nat -> Nat]
    BY <1>3, <1>7
  <2> QED
    BY <1>5, <1>6, <2>1

LEMMA ExactSteps ==
    /\ Exact \in [Nat -> Nat] /\ Exact[0] = Interval
    /\ \A n \in Nat : Exact[n + 1] = 2 * Exact[n]
<1> DEFINE step == [x \in Nat |-> 2 * x]
           Body(f) == [i \in Nat |-> IF i = 0 THEN Interval ELSE 2 * f[i - 1]]
<1>0. Interval \in Nat /\ step \in [Nat -> Nat]
  BY ReconcilerAssumption
<1>1. PICK f \in [Nat -> Nat] : f[0] = Interval /\ \A n \in Nat : f[n + 1] = step[f[n]]
  <2> HIDE DEF step
  <2> QED
    BY <1>0, Iteration
<1>2. f = Body(f)
  <2>1. ASSUME NEW i \in Nat, i # 0 PROVE f[i] = 2 * f[i - 1]
    <3>1. i - 1 \in Nat /\ (i - 1) + 1 = i
      BY <2>1
    <3> QED
      BY <1>1, <3>1
  <2> QED
    BY <1>1, <2>1
<1>3. Exact = Body(Exact)
  BY <1>2 DEF Exact
<1>4. \A n \in Nat : n + 1 \in Nat /\ n + 1 # 0 /\ (n + 1) - 1 = n
  OBVIOUS
<1>5. Exact[0] = Interval
  BY <1>3
<1>6. ASSUME NEW n \in Nat PROVE Exact[n + 1] = 2 * Exact[n]
  <2>1. Body(Exact)[n + 1] = 2 * Exact[(n + 1) - 1]
    BY <1>4
  <2> HIDE DEF Body
  <2> QED
    BY <1>3, <1>4, <2>1
<1>7. \A n \in Nat : Exact[n] \in Nat
  <2> DEFINE S == {n \in Nat : Exact[n] \in Nat}
  <2>1. 0 \in S
    BY <1>0, <1>5
  <2>2. ASSUME NEW n \in S PROVE n + 1 \in S
    BY <1>6
  <2> HIDE DEF S
  <2>3. S \in SUBSET Nat
    BY DEF S
  <2>4. S = Nat
    BY <2>1, <2>2, <2>3, Induction
  <2> QED
    BY <2>4 DEF S
<1> QED
  <2>1. Exact \in [Nat -> Nat]
    BY <1>3, <1>7
  <2> QED
    BY <1>5, <1>6, <2>1

\* Stopping at the cap and cutting off there is as good as doubling on.
LEMMA CappedDoubling ==
    ASSUME NEW n \in Nat
    PROVE  (IF Doubled[n] > MaxBackoff THEN MaxBackoff ELSE Doubled[n])
              = (IF Exact[n] > MaxBackoff THEN MaxBackoff ELSE Exact[n])
<1> DEFINE S == {i \in Nat : IF Doubled[i] < MaxBackoff THEN Exact[i] = Doubled[i]
                             ELSE Exact[i] = Doubled[i]
                                  \/ (Doubled[i] >= MaxBackoff /\ Exact[i] >= Doubled[i])}
<1>0. MaxBackoff \in Nat
  BY ReconcilerAssumption
<1>1. 0 \in S
  BY DoubledSteps, ExactSteps
<1>2. ASSUME NEW i \in S PROVE i + 1 \in S
  <2>1. /\ i \in Nat /\ i + 1 \in Nat /\ Exact[i] \in Nat /\ Doubled[i] \in Nat
        /\ Exact[i + 1] = 2 * Exact[i]
        /\ Doubled[i + 1] = IF Doubled[i] >= MaxBackoff THEN Doubled[i] ELSE 2 * Doubled[i]
    BY DoubledSteps, ExactSteps
  <2> QED
    BY <1>0, <2>1
<1>3. S = Nat
  <2> HIDE DEF S
  <2>1. S \in SUBSET Nat
    BY DEF S
  <2> QED
    BY <1>1, <1>2, <2>1, Induction
<1>4. n \in S /\ Doubled[n] \in Nat /\ Exact[n] \in Nat
  BY <1>3, DoubledSteps, ExactSteps
<1> QED
  BY <1>0, <1>4

\* What a step does to the count of failures and to the delay.
Waits ==
    \/ UNCHANGED delay /\ rec'.failures = rec.failures
    \/ rec'.failures = 0 /\ delay' \in {0, Interval}
    \/ rec'.failures \in 1 .. MaxFailures /\ delay' = reconcileBackoff(rec'.failures)

LEMMA WaitsInStep ==
    ASSUME NEW r \in Reconciling, r.failures = rec.failures
    PROVE  /\ Failed(r) => Waits
           /\ Passed(r) => Waits
           /\ Onwards(r) => Waits
<1>1. r.failures \in 0 .. MaxFailures /\ MaxFailures \in Nat \ {0}
  BY ReconcilerAssumption DEF Reconciling
<1>2. ASSUME Failed(r) PROVE Waits
  <2> DEFINE n == IF r.failures < MaxFailures THEN r.failures + 1 ELSE MaxFailures
  <2>1. rec' = [r EXCEPT !.pc = "wait", !.failures = n] /\ delay' = reconcileBackoff(n)
    BY <1>2 DEF Failed
  <2>2. n \in 1 .. MaxFailures
    BY <1>1
  <2>3. rec'.failures = n
    BY <2>1 DEF Reconciling
  <2> QED
    BY <2>1, <2>2, <2>3 DEF Waits
<1>3. ASSUME Passed(r) PROVE Waits
  BY <1>3 DEF Passed, Waits, Reconciling
<1>4. ASSUME Onwards(r) PROVE Waits
  BY <1>4 DEF Onwards, Waits
<1> QED
  BY <1>2, <1>3, <1>4

LEMMA WaitsInNext ==
    ASSUME ReconcilerTypeOK, ReconcilerNext
    PROVE  Waits
<1>0. rec \in Reconciling
  BY DEF ReconcilerTypeOK
<1>1. ASSUME CallFails PROVE Waits
  BY <1>0, <1>1, WaitsInStep DEF CallFails
<1>2. CASE ResolveNode
  <2>1. ASSUME NEW id, NEW pc, Onwards([rec EXCEPT !.zone = label, !.zoneID = id, !.pc = pc])
        PROVE  Waits
    BY <1>0, <2>1 DEF Onwards, Waits, Reconciling
  <2> QED
    BY <1>0, <1>1, <1>2, <2>1, WaitsInStep DEF ResolveNode
<1>3. ASSUME Found PROVE Waits
  BY <1>0, <1>3 DEF Found, Onwards, Waits, Reconciling
<1>4. ASSUME NEW pc, Onwards([rec EXCEPT !.pc = pc]) PROVE Waits
  BY <1>0, <1>4 DEF Onwards, Waits, Reconciling
<1>5. CASE ListZones \/ CreateZone \/ RelistZones
  BY <1>0, <1>3, <1>4, <1>5, WaitsInStep DEF ListZones, CreateZone, RelistZones, Remote
<1>6. CASE CheckStatus
  <2>1. \A readable \in BOOLEAN : Judge(readable).failures = rec.failures
    BY <1>0 DEF Judge, Reconciling
  <2> QED
    BY <1>6, <2>1 DEF CheckStatus, Onwards, Waits
<1>7. CASE RestartThunderd
  <2>1. Repaired(rec).failures = rec.failures
    BY <1>0 DEF Repaired, Reconciling
  <2>2. ASSUME Onwards(Repaired(rec)) PROVE Waits
    BY <2>1, <2>2 DEF Onwards, Waits
  <2> QED
    BY <1>4, <1>7, <2>2 DEF RestartThunderd, Remote
<1>8. CASE MintServerToken
  <2>1. ASSUME NEW t, Onwards([rec EXCEPT !.tok = t, !.pc = "install"]) PROVE Waits
    BY <1>0, <2>1 DEF Onwards, Waits, Reconciling
  <2> QED
    BY <1>1, <1>8, <2>1 DEF MintServerToken
<1>9. CASE InstallThunderd
  <2>1. ASSUME Onwards([Repaired(rec) EXCEPT !.restarts = 0, !.tok = NoZone]) PROVE Waits
    BY <1>0, <2>1 DEF Onwards, Repaired, Waits, Reconciling
  <2>2. /\ [rec EXCEPT !.tok = NoZone] \in Reconciling
        /\ [rec EXCEPT !.tok = NoZone].failures = rec.failures
    <3>1. [rec EXCEPT !.tok = NoZone].failures = rec.failures
      BY <1>0 DEF Reconciling
    <3> QED
      BY <1>0, <3>1, Updates, Constants
  <2>3. ASSUME Failed([rec EXCEPT !.tok = NoZone]) PROVE Waits
    BY <2>2, <2>3, WaitsInStep
  <2> QED
    BY <1>9, <2>1, <2>3 DEF InstallThunderd, Remote
<1>10. CASE EnsurePlugin
  <2>1. ASSUME NEW z, Passed([rec EXCEPT !.plugin = z]) PROVE Waits
    BY <1>0, <2>1 DEF Passed, Waits, Reconciling
  <2> QED
    BY <1>1, <1>10, <2>1 DEF EnsurePlugin
<1>11. CASE DaemonRestart
  BY <1>11 DEF DaemonRestart, NewReconciler, Waits
<1>12. CASE Settle \/ Outage \/ Relabel \/ RivalZone
  BY <1>12 DEF Settle, Outage, Relabel, RivalZone, Waits
<1> QED
  BY <1>2, <1>5, <1>6, <1>7, <1>8, <1>9, <1>10, <1>11, <1>12
     DEF ReconcilerNext, PassStep, Disturbance

\* The reconcile loop waits for the interval doubled once per further failure, cut
\* off at the cap, for any interval, any cap and any number of failures
\* (reconcileBackoff, loop): that the loop of reconcileBackoff stops doubling as
\* soon as it has reached the cap makes no difference.
THEOREM DelaysAreBackoff == ReconcilerSpec => []DelayIsBackoff
<1>1. ReconcilerInit => DelayIsBackoff
  BY DEF ReconcilerInit, NewReconciler, DelayIsBackoff
<1>2. ReconcilerTypeOK /\ DelayIsBackoff /\ [ReconcilerNext]_reconcilerVars => DelayIsBackoff'
  <2> SUFFICES ASSUME ReconcilerTypeOK, DelayIsBackoff, [ReconcilerNext]_reconcilerVars
               PROVE  DelayIsBackoff'
    OBVIOUS
  <2>1. Waits
    BY WaitsInNext DEF reconcilerVars, Waits
  <2>2. CASE UNCHANGED delay /\ rec'.failures = rec.failures
    BY <2>2 DEF DelayIsBackoff
  <2>3. CASE rec'.failures = 0 /\ delay' \in {0, Interval}
    BY <2>3 DEF DelayIsBackoff
  <2>4. CASE rec'.failures \in 1 .. MaxFailures /\ delay' = reconcileBackoff(rec'.failures)
    <3>1. rec'.failures # 0 /\ rec'.failures - 1 \in Nat
      BY <2>4, ReconcilerAssumption
    <3> QED
      BY <2>4, <3>1, CappedDoubling DEF DelayIsBackoff, reconcileBackoff
  <2> QED
    BY <2>1, <2>2, <2>3, <2>4 DEF Waits
<1> QED
  BY <1>1, <1>2, ReconcilerTypeCorrect, PTL DEF ReconcilerSpec
===============================================================================
