------------------------------ MODULE Reconciler ------------------------------
(***************************************************************************)
(* The node daemon's reconcile loop (internal/daemon/reconcile.go,         *)
(* status.go, runtime.go): every pass reads the node's zone label, finds   *)
(* the Thunder zone, repairs thunderd if it is not healthy, and starts the *)
(* DRA plugin.  thunderd, the label and Thunder's zones change under it    *)
(* between any two steps.                                                  *)
(***************************************************************************)
EXTENDS Naturals, FiniteSets, Faults

CONSTANTS Zones,                  \* display names: what zone labels say
          ZoneIDs,                \* IDs Thunder may give to zones, in their order
          NoZone,                 \* no zone, no ID
          UnhealthyThreshold,     \* unhealthyReconcileThreshold
          TransitionalThreshold,  \* transitionalReconcileThreshold
          RestartLimit,           \* restartRepairLimit
          Interval, MaxBackoff,   \* delays between passes
          MaxFailures             \* bound: consecutive failures counted

ASSUME ReconcilerAssumption ==
    /\ ZoneIDs \subseteq Nat /\ NoZone \notin Zones \cup ZoneIDs
    /\ UnhealthyThreshold \in Nat \ {0}
    /\ TransitionalThreshold \in Nat /\ RestartLimit \in Nat
    /\ Interval \in Nat /\ MaxBackoff \in Nat /\ Interval <= MaxBackoff
    /\ MaxFailures \in Nat \ {0}

VARIABLES label,          \* the node's zone label, or NoZone
          registry,       \* registry[i]: the display name of Thunder zone i, or NoZone
          host,           \* thunderd on the node (external)
          rec,            \* the reconciler's state, carried between passes
          delay           \* how long the loop waits before the next pass

reconcilerVars == <<label, registry, host, rec, delay, faults>>

ZoneOrNone == Zones \cup {NoZone}
IDOrNone == ZoneIDs \cup {NoZone}

(***************************************************************************)
(* External: thunderd.  `sound' is whether starting it makes it work;      *)
(* `auth' whether it holds an auth token, `zone' the Thunder zone of that, *)
(* and `enabled' whether someone made it a unit that systemd starts at     *)
(* boot, which the daemon's own transient unit never is.                   *)
(***************************************************************************)
Host == [svc : {"absent", "down", "moving", "up"}, sound : BOOLEAN,
         auth : BOOLEAN, zone : IDOrNone, enabled : BOOLEAN]

PCs == {"wait", "zone", "create", "relist", "status", "restart", "enroll",
        "install", "plugin"}

\* The steps before the pass has a Thunder zone to work with.
ZonePCs == {"wait", "zone", "create", "relist"}

\* zone, zoneID: the resolved label and the Thunder zone found for it; plugin:
\* the zone the DRA plugin was started with; tok: the zone of the node
\* enrollment token just minted.
Reconciling == [pc : PCs, zone : ZoneOrNone, zoneID : IDOrNone, plugin : IDOrNone,
                tok : IDOrNone, everHealthy : BOOLEAN, unhealthy : Nat,
                transitional : 0 .. TransitionalThreshold, restarts : 0 .. RestartLimit,
                failures : 0 .. MaxFailures]

NewReconciler == [pc |-> "wait", zone |-> NoZone, zoneID |-> NoZone, plugin |-> NoZone,
                  tok |-> NoZone, everHealthy |-> FALSE, unhealthy |-> 0,
                  transitional |-> 0, restarts |-> 0, failures |-> 0]

ReconcilerTypeOK ==
    /\ label \in ZoneOrNone
    /\ registry \in [ZoneIDs -> ZoneOrNone]
    /\ host \in Host
    /\ rec \in Reconciling
    /\ FaultsTypeOK

ReconcilerInit ==
    /\ label \in ZoneOrNone
    /\ registry = [i \in ZoneIDs |-> NoZone]
    /\ host = [svc |-> "absent", sound |-> TRUE, auth |-> FALSE, zone |-> NoZone,
               enabled |-> FALSE]
    /\ rec = NewReconciler
    /\ delay = 0
    /\ faults = 0

\* nodeHealthy: `thunder status' calls an enabled service that runs healthy,
\* whatever token it holds; for another one the daemon asks for the token too.
ReportedHealthy == host.enabled /\ host.svc = "up"
HostHealthy == ReportedHealthy \/ (host.svc = "up" /\ host.auth)

-------------------------------------------------------------------------------
(* One pass *)

\* Mutant: no cap.
DoubledPastCap(n) == Interval * 2 ^ (n - 1)

\* reconcileBackoff: the interval doubled per further failure, up to the cap.
Doubled[i \in Nat] ==
    IF i = 0 THEN Interval
    ELSE IF Doubled[i - 1] >= MaxBackoff THEN Doubled[i - 1] ELSE 2 * Doubled[i - 1]

reconcileBackoff(n) ==
    IF Doubled[n - 1] > MaxBackoff THEN MaxBackoff ELSE Doubled[n - 1]

\* The loop's end of a pass, after an error and without one.
Failed(r) ==
    LET n == IF r.failures < MaxFailures THEN r.failures + 1 ELSE MaxFailures
    IN /\ rec' = [r EXCEPT !.pc = "wait", !.failures = n]
       /\ delay' = reconcileBackoff(n)

Passed(r) ==
    /\ rec' = [r EXCEPT !.pc = "wait", !.failures = 0]
    /\ delay' = Interval

Onwards(r) == rec' = r /\ UNCHANGED delay

\* A call that fails changes nothing but the pass.
CallFails == Fault("error") /\ Failed(rec) /\ UNCHANGED <<label, registry, host>>

\* Mutant: keeps the Thunder zone found for the old label.
ResolveKeepsZoneID ==
    /\ rec.pc = "wait"
    /\ \/ /\ label # NoZone
          /\ Onwards([rec EXCEPT !.zone = label,
                                 !.pc = IF rec.zoneID = NoZone THEN "zone" ELSE "status"])
          /\ UNCHANGED <<label, registry, host, faults>>
       \/ label = NoZone /\ Failed(rec) /\ UNCHANGED <<label, registry, host, faults>>
       \/ CallFails

\* resolveNodeAttributes, and a new zone invalidates the old one's Thunder zone.
ResolveNode ==
    /\ rec.pc = "wait"
    /\ \/ /\ label # NoZone
          /\ LET id == IF rec.zone # label THEN NoZone ELSE rec.zoneID
             IN Onwards([rec EXCEPT !.zone = label, !.zoneID = id,
                                    !.pc = IF id = NoZone THEN "zone" ELSE "status"])
          /\ UNCHANGED <<label, registry, host, faults>>
       \/ /\ label = NoZone
          /\ Failed(rec)
          /\ UNCHANGED <<label, registry, host, faults>>
       \/ CallFails

\* findSmallestZoneID, over what ListZones returns; several zones may have one
\* display name.  The result is the set of what it finds, one ID or none.
Named(z) == {i \in ZoneIDs : registry[i] = z}
findSmallestZoneID(z) == {i \in Named(z) : \A j \in Named(z) : i <= j}

Found ==
    \E id \in findSmallestZoneID(rec.zone) :
        Onwards([rec EXCEPT !.zoneID = id, !.pc = "status"])

\* ensureThunderZone, one call per step: list, create if there is none, list
\* again.
ListZones ==
    /\ rec.pc = "zone"
    /\ \/ Found /\ UNCHANGED faults
       \/ /\ Named(rec.zone) = {}
          /\ Onwards([rec EXCEPT !.pc = "create"]) /\ UNCHANGED faults
       \/ Fault("error") /\ Failed(rec)
    /\ UNCHANGED <<label, registry, host>>

\* Thunder gives the zone a new ID.  Bound: one is left for every other name
\* that has none.
Create(z) ==
    /\ Cardinality(Named(NoZone)) > Cardinality({y \in Zones \ {z} : Named(y) = {}})
    /\ \E i \in Named(NoZone) : registry' = [registry EXCEPT ![i] = z]

\* It may refuse when there is a zone by now, which is taken for a success.
CreateZone ==
    /\ rec.pc = "create"
    /\ LET relist == Onwards([rec EXCEPT !.pc = "relist"])
       IN \/ Remote(Create(rec.zone), UNCHANGED registry, relist, Failed(rec))
          \/ Named(rec.zone) # {} /\ relist /\ UNCHANGED <<registry, faults>>
    /\ UNCHANGED <<label, host>>

RelistZones ==
    /\ rec.pc = "relist"
    /\ \/ Found /\ UNCHANGED faults
       \/ Fault("error") /\ Failed(rec)
    /\ UNCHANGED <<label, registry, host>>

\* Mutant: one restart too many.
MayRestartOnceMore == rec.restarts <= RestartLimit

MayRestart == rec.restarts < RestartLimit

\* Mutant: a transition is waited out for ever.
JudgePatiently(readable) ==
    IF readable /\ HostHealthy
    THEN [rec EXCEPT !.unhealthy = 0, !.transitional = 0, !.restarts = 0,
                     !.everHealthy = TRUE, !.pc = "plugin"]
    ELSE IF readable /\ host.svc = "moving"
    THEN [rec EXCEPT !.pc = "plugin"]
    ELSE [rec EXCEPT !.unhealthy = @ + 1, !.pc = "enroll"]

\* ensureEnrolled up to the repair it decides on.  readable is FALSE when the
\* CLI gave no status: always so when thunderd is not installed.
Judge(readable) ==
    LET enrolled == readable /\ host.auth
        needed == IF rec.everHealthy THEN UnhealthyThreshold ELSE 1
        seen == [rec EXCEPT !.unhealthy = @ + 1]
    IN IF readable /\ HostHealthy
       THEN [rec EXCEPT !.unhealthy = 0, !.transitional = 0, !.restarts = 0,
                        !.everHealthy = TRUE, !.pc = "plugin"]
       ELSE IF readable /\ host.svc = "moving" /\ rec.transitional < TransitionalThreshold
       THEN [rec EXCEPT !.transitional = @ + 1, !.pc = "plugin"]
       ELSE IF seen.unhealthy < needed
       THEN [seen EXCEPT !.pc = "plugin"]
       ELSE IF enrolled /\ MayRestart
       THEN [seen EXCEPT !.restarts = @ + 1, !.pc = "restart"]
       ELSE [seen EXCEPT !.pc = "enroll"]

CheckStatus ==
    /\ rec.pc = "status"
    /\ \/ Onwards(Judge(host.svc # "absent")) /\ UNCHANGED faults
       \/ Fault("error") /\ Onwards(Judge(FALSE))
    /\ UNCHANGED <<label, registry, host>>

\* `thunder up': a sound thunderd comes up, another one does not.
Restarted == {[host EXCEPT !.svc = s] :
                 s \in IF host.sound THEN {"moving", "up"} ELSE {"moving", "down"}}

\* The counters after a repair that ran; the next pass confirms it.
Repaired(r) == [r EXCEPT !.unhealthy = 0, !.transitional = 0, !.pc = "plugin"]

\* A restart that fails is followed by a reinstall in the same pass.
RestartThunderd ==
    /\ rec.pc = "restart"
    /\ LET reinstall == Onwards([rec EXCEPT !.pc = "enroll"])
       IN \/ /\ host.svc # "absent"
             /\ Remote(host' \in Restarted, UNCHANGED host, Onwards(Repaired(rec)), reinstall)
          \/ /\ host.svc = "absent"
             /\ reinstall
             /\ UNCHANGED <<host, faults>>
    /\ UNCHANGED <<label, registry>>

\* nvidiaChecks and CreateServerEnrollment: a fresh token for the zone.
MintServerToken ==
    /\ rec.pc = "enroll"
    /\ \/ /\ Onwards([rec EXCEPT !.tok = rec.zoneID, !.pc = "install"])
          /\ UNCHANGED <<label, registry, host, faults>>
       \/ CallFails

\* The installer: thunderd is installed anew and enrolled with the token.
Installed == {[svc |-> s, sound |-> TRUE, auth |-> TRUE, zone |-> rec.tok,
               enabled |-> FALSE] : s \in {"moving", "up"}}

InstallThunderd ==
    /\ rec.pc = "install"
    /\ Remote(host' \in Installed, UNCHANGED host,
              Onwards([Repaired(rec) EXCEPT !.restarts = 0, !.tok = NoZone]),
              Failed([rec EXCEPT !.tok = NoZone]))
    /\ UNCHANGED <<label, registry>>

\* ensurePlugin: started once, with the zone of the pass that starts it.
EnsurePlugin ==
    /\ rec.pc = "plugin"
    /\ \/ /\ Passed([rec EXCEPT !.plugin = IF @ = NoZone THEN rec.zoneID ELSE @])
          /\ UNCHANGED <<label, registry, host, faults>>
       \/ rec.plugin = NoZone /\ CallFails

PassStep ==
    \/ ResolveNode \/ ListZones \/ CreateZone \/ RelistZones
    \/ CheckStatus \/ RestartThunderd \/ MintServerToken \/ InstallThunderd
    \/ EnsurePlugin

-------------------------------------------------------------------------------
(* The node around it *)

\* A service that systemd is moving settles: a sound one may come up.
Settle ==
    /\ host.svc = "moving"
    /\ host' = [host EXCEPT !.svc = IF host.sound THEN "up" ELSE "down"]
    /\ UNCHANGED <<label, registry, rec, delay, faults>>

\* Someone stops, damages, uninstalls, enables or logs out thunderd.
Outage ==
    /\ Fault("outage")
    /\ \E s \in {"absent", "down", "moving"}, sound, auth, enabled \in BOOLEAN :
          /\ auth => host.auth /\ s # "absent"
          /\ enabled => s # "absent"
          /\ host' = [svc |-> s, sound |-> sound, auth |-> auth,
                      zone |-> IF auth THEN host.zone ELSE NoZone, enabled |-> enabled]
    /\ UNCHANGED <<label, registry, rec, delay>>

Relabel ==
    /\ Fault("relabel")
    /\ label' \in ZoneOrNone \ {label}
    /\ UNCHANGED <<registry, host, rec, delay>>

\* The daemon's pod is restarted: everything carried between passes is lost.
DaemonRestart ==
    /\ Fault("daemonCrash")
    /\ rec' = NewReconciler /\ delay' = 0
    /\ UNCHANGED <<label, registry, host>>

\* Another node, or a user, creates a Thunder zone, of any name.
RivalZone ==
    /\ Fault("rival")
    /\ \E z \in Zones : Create(z)
    /\ UNCHANGED <<label, host, rec, delay>>

Disturbance == Outage \/ Relabel \/ DaemonRestart \/ RivalZone

ReconcilerNext == PassStep \/ Settle \/ Disturbance

ReconcilerSpec == ReconcilerInit /\ [][ReconcilerNext]_reconcilerVars

(***************************************************************************)
(* Fairness.  The loop never ends (loop returns on cancellation only), and *)
(* a service that can start does.  It also starts in time: from some point *)
(* on no check finds it still moving when the transitional window, thirty  *)
(* checks at ten seconds, has run out.                                     *)
(***************************************************************************)
TooSlow ==
    /\ CheckStatus
    /\ host.svc = "moving" /\ host.sound /\ rec.transitional = TransitionalThreshold

ReconcilerFairSpec ==
    /\ ReconcilerSpec
    /\ WF_reconcilerVars(PassStep)
    /\ WF_reconcilerVars(host.sound /\ Settle)
    /\ <>[][~TooSlow]_reconcilerVars

-------------------------------------------------------------------------------
(* Properties *)

\* The cached Thunder zone is never that of an earlier label, whichever step of
\* an earlier pass failed and whoever else creates zones (reconcile 129-147,
\* ensureThunderZone); a token is minted for a zone of the label's name, and
\* thunderd is enrolled in one zone.
ZoneIDIsForZone ==
    /\ rec.zoneID # NoZone => rec.zone # NoZone /\ registry[rec.zoneID] = rec.zone
    /\ rec.pc \notin ZonePCs => rec.zoneID # NoZone
    /\ rec.pc = "install" => rec.tok = rec.zoneID
    /\ host.auth => host.zone # NoZone

\* The reference: 2^i intervals.
Exact[i \in Nat] == IF i = 0 THEN Interval ELSE 2 * Exact[i - 1]

\* The wait between passes is the interval doubled for every consecutive
\* failure but the first, up to the cap, and the plain interval after a success
\* (reconcileBackoff and loop).
DelayIsBackoff ==
    IF rec.failures = 0
    THEN delay \in {0, Interval}
    ELSE delay = IF Exact[rec.failures - 1] > MaxBackoff
                 THEN MaxBackoff ELSE Exact[rec.failures - 1]

\* Whatever happens to thunderd, and whatever fails, the daemon brings the node
\* back once the disturbances end and the label is there: a restart that does
\* not help or a transition that never ends must not keep it from reinstalling
\* (reconcile.go 29-34, 36-41), and the DRA plugin is served.
Converges ==
    <>[](label # NoZone) => <>[](HostHealthy /\ rec.plugin # NoZone)

\* The node ends up enrolled in the zone its label names (reconcile.go 52-54).
EnrolledWhereLabelled ==
    \A z \in Zones : <>[](label = z) => <>[](host.auth /\ registry[host.zone] = z)

\* The nodes of one zone agree on its Thunder zone, since each takes the
\* smallest ID (findSmallestZoneID): the one a node holds is the one that any
\* node would find now.
NodesAgree ==
    rec.zoneID # NoZone => rec.zoneID \in findSmallestZoneID(rec.zone)
===============================================================================
