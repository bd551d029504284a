----------------------------- MODULE DesiredPools -----------------------------
(***************************************************************************)
(* buildDesiredPools (internal/operator/inventory.go): how a Sync turns    *)
(* what Thunder reports into pools.  It lists the zones and then, zone by  *)
(* zone, the servers, the clients and the oversubscription targets; Thunder*)
(* changes between these calls.  PoolPublisher takes the resulting         *)
(* definition of a pool as one value.                                      *)
(***************************************************************************)
EXTENDS Integers, Sequences, FiniteSetsExt, Faults

CONSTANTS Zones,          \* Thunder's zones
          ZoneID,         \* ZoneID[z], DisplayName[z]: as listed, or Blank
          DisplayName,
          Blank,
          Spellings,      \* GPU types as Thunder spells them
          Normal,         \* Normal[x]: lower case and trimmed, or Blank
          Servers, HostOf,    \* HostOf[s]: its zone ID, GPU type and count
          Clients, ClientOf,  \* ClientOf[c]: likewise
          Statuses,       \* what a server reports
          Scale,          \* targets are multiples of 1/Scale
          Policies,       \* oversubscription targets a zone may have
          MaxChanges      \* bound: changes of Thunder's state during one read

Types == {Normal[x] : x \in Spellings} \ {Blank}

\* buildDesiredPools: the name stands in for a missing ID and vice versa.
zoneName(z) == IF DisplayName[z] = Blank THEN ZoneID[z] ELSE DisplayName[z]
zoneID(z) == IF ZoneID[z] = Blank THEN zoneName(z) ELSE ZoneID[z]

Names == {zoneName(z) : z \in Zones} \ {Blank}
Keys == Names \X Types

GPUs == [zone : {zoneID(z) : z \in Zones}, type : Spellings, count : Int]

ASSUME DesiredPoolsAssumption ==
    /\ \A S \in {Zones, Servers, Clients} : IsFiniteSet(S)
    /\ Servers \cap Clients = {} /\ Blank \notin Zones
    /\ HostOf \in [Servers -> GPUs] /\ ClientOf \in [Clients -> GPUs]
    /\ Scale \in Nat \ {0} /\ MaxChanges \in Nat
    /\ \A p \in Policies : p.default \in Int /\ p.byType \in [Types -> Int]

VARIABLES status,         \* status[s]: what server s reports
          client,         \* client[c]: absent, live or decommissioned
          policy,         \* policy[z]: its targets; 0 where there is none
          read,           \* the read in progress
          stood,          \* what has been up since the read began: healthy
                          \* servers and live clients
          ever,           \* what was up at any time since
          policies,       \* policies[z]: the targets z has had since
          changes         \* how often Thunder's state has changed since

thunderVars == <<status, client, policy>>
historyVars == <<stood, ever, policies, changes>>
desiredVars == <<status, client, policy, read, historyVars, faults>>

\* A pool definition; the zero value stands for none.
NoPool == [host |-> 0, client |-> 0, over |-> 0, cap |-> 0]

\* hosts, clients: hostCounts and clientCounts of the zone at hand.
NoRead == [pc |-> "idle", todo |-> {}, zone |-> Blank,
           hosts |-> [t \in Types |-> 0], clients |-> [t \in Types |-> 0],
           desired |-> [k \in Keys |-> NoPool]]

-------------------------------------------------------------------------------
(* Counting *)

nodeHealthy(s) == s \in {"", "active", "online", "ready", "healthy"}

\* The sum of the numbers w[x] over S, unit by unit; a negative one adds nothing.
Units(w, S) == UNION {{x} \X (1 .. w[x]) : x \in S}
Total(w, S) == Cardinality(Units(w, S))

\* addGPUCount over a list of servers or clients: what has no type or no GPUs
\* does not count.
Count(S, of) ==
    [t \in Types |-> Total([s \in S |-> of[s].count],
                          {s \in S : Normal[of[s].type] = t /\ of[s].count > 0})]

InZone(S, of, z) == {s \in S : of[s].zone = zoneID(z)}

oversubscribed(hosts, target) ==
    IF hosts <= 0 \/ target <= 0 THEN 0 ELSE (hosts * target) \div Scale

\* oversubscriptionTargets.For: the type's own target, the zone's default, 1x.
For(targets, t) ==
    IF targets.byType[t] > 0 THEN targets.byType[t]
    ELSE IF targets.default > 0 THEN targets.default
    ELSE Scale

\* Mutant: a zone replaces what another zone of its name has contributed.
AddZoneReplacing(desired, z, hosts, clients, targets) ==
    [k \in Keys |->
       LET t == k[2]
           over == For(targets, t)
           cap == Max({oversubscribed(hosts[t], over), clients[t]})
       IN IF k[1] = zoneName(z) /\ cap > 0
          THEN [host |-> hosts[t], client |-> clients[t], over |-> over, cap |-> cap]
          ELSE desired[k]]

\* What a zone adds to the pools of its name; committed clients are a floor.
AddZone(desired, z, hosts, clients, targets) ==
    [k \in Keys |->
       LET t == k[2]
           over == For(targets, t)
           cap == Max({oversubscribed(hosts[t], over), clients[t]})
       IN IF k[1] = zoneName(z) /\ cap > 0
          THEN [host |-> desired[k].host + hosts[t],
                client |-> desired[k].client + clients[t],
                over |-> over, cap |-> desired[k].cap + cap]
          ELSE desired[k]]

-------------------------------------------------------------------------------
(* buildDesiredPools *)

Up == {s \in Servers : nodeHealthy(status[s])} \cup {c \in Clients : client[c] = "live"}

EndRead == read' = NoRead

\* Zones that have neither a name nor an ID are skipped.
ListZones ==
    /\ read.pc = "idle"
    /\ \/ /\ read' = [NoRead EXCEPT !.pc = "zone",
                                    !.todo = {z \in Zones : zoneName(z) # Blank}]
          /\ UNCHANGED faults
       \/ Fault("error") /\ EndRead
    /\ stood' = Up /\ ever' = Up
    /\ policies' = [z \in Zones |-> {policy[z]}] /\ changes' = 0
    /\ UNCHANGED thunderVars

ListServers(z) ==
    /\ read.pc = "zone" /\ z \in read.todo
    /\ \/ /\ LET listed == InZone(Servers, HostOf, z)
             IN read' = [read EXCEPT !.pc = "clients", !.zone = z, !.todo = @ \ {z},
                           !.hosts = Count({s \in listed : nodeHealthy(status[s])}, HostOf)]
          /\ UNCHANGED faults
       \/ Fault("error") /\ EndRead
    /\ UNCHANGED <<thunderVars, historyVars>>

\* Mutant: a decommissioned client holds its capacity.
ListAllClients ==
    /\ read.pc = "clients"
    /\ LET listed == {c \in InZone(Clients, ClientOf, read.zone) : client[c] # "absent"}
       IN read' = [read EXCEPT !.pc = "targets", !.clients = Count(listed, ClientOf)]
    /\ UNCHANGED <<thunderVars, historyVars, faults>>

ListClients ==
    /\ read.pc = "clients"
    /\ \/ /\ LET listed == {c \in InZone(Clients, ClientOf, read.zone) : client[c] # "absent"}
             IN read' = [read EXCEPT !.pc = "targets",
                           !.clients = Count({c \in listed : client[c] # "decommissioned"},
                                             ClientOf)]
          /\ UNCHANGED faults
       \/ Fault("error") /\ EndRead
    /\ UNCHANGED <<thunderVars, historyVars>>

\* zoneOversubscription: targets that cannot be read are taken for 1x.
Untargeted == [default |-> Scale, byType |-> [t \in Types |-> 0]]

ReadTargets ==
    /\ read.pc = "targets"
    /\ \E targets \in {policy[read.zone], Untargeted} :
          /\ \/ targets = policy[read.zone] /\ UNCHANGED faults
             \/ targets = Untargeted /\ Fault("error")
          /\ read' = [NoRead EXCEPT !.pc = "zone", !.todo = read.todo,
                        !.desired = AddZone(read.desired, read.zone, read.hosts,
                                            read.clients, targets)]
    /\ UNCHANGED <<thunderVars, historyVars>>

\* All zones are read: the Sync goes on with these pools.
Returned == read.pc = "zone" /\ read.todo = {}

Return == Returned /\ EndRead /\ UNCHANGED <<thunderVars, historyVars, faults>>

ReadStep == ListZones \/ (\E z \in Zones : ListServers(z)) \/ ListClients \/ ReadTargets \/ Return

-------------------------------------------------------------------------------
(* Thunder (external) *)

\* Thunder's state changes, while a read is under way (before one it is any).
Change ==
    /\ read.pc # "idle" /\ changes < MaxChanges
    /\ \/ /\ \E s \in Servers, x \in Statuses :
                x # status[s] /\ status' = [status EXCEPT ![s] = x]
          /\ UNCHANGED <<client, policy>>
       \/ /\ \E c \in Clients :
                \/ client[c] = "absent" /\ client' = [client EXCEPT ![c] = "live"]
                \/ client[c] = "live" /\ client' = [client EXCEPT ![c] = "decommissioned"]
          /\ UNCHANGED <<status, policy>>
       \/ /\ \E z \in Zones, p \in Policies :
                p # policy[z] /\ policy' = [policy EXCEPT ![z] = p]
          /\ UNCHANGED <<status, client>>
    /\ stood' = stood \cap Up' /\ ever' = ever \cup Up'
    /\ policies' = [z \in Zones |-> policies[z] \cup {policy'[z]}]
    /\ changes' = changes + 1
    /\ UNCHANGED <<read, faults>>

DesiredPoolsInit ==
    /\ status \in [Servers -> Statuses]
    /\ client \in [Clients -> {"absent", "live", "decommissioned"}]
    /\ policy \in [Zones -> Policies]
    /\ read = NoRead
    /\ stood = {} /\ ever = {} /\ policies = [z \in Zones |-> {}] /\ changes = 0
    /\ faults = 0

DesiredPoolsSpec == DesiredPoolsInit /\ [][ReadStep \/ Change]_desiredVars

-------------------------------------------------------------------------------
(* Properties *)

\* The reference: the first positive of the type's target, the default and 1x.
InForce(p, t) ==
    LET targets == <<p.byType[t], p.default, Scale>>
    IN targets[Min({i \in 1 .. 3 : targets[i] > 0})]

TargetsSeen(z, t) == {InForce(p, t) : p \in policies[z]} \cup {Scale}

HostsIn(up, z) == Count(InZone(up \cap Servers, HostOf, z), HostOf)
ClientsIn(up, z) == Count(InZone(up \cap Clients, ClientOf, z), ClientOf)

\* What a zone's hosts and clients among those of `up' are worth under a target.
Worth(up, z, t, target) == Max({oversubscribed(HostsIn(up, z)[t], target), ClientsIn(up, z)[t]})

\* The least and the most that the read may find of type t in the zones of S.
Least(t, S) == Total([z \in Zones |-> Worth(stood, z, t, Min(TargetsSeen(z, t)))], S)
Most(t, S) == Total([z \in Zones |-> Worth(ever, z, t, Max(TargetsSeen(z, t)))], S)

ZonesOf(n) == {z \in Zones : zoneName(z) = n}

\* Committed clients are never dropped from inventory, and a missing, malformed
\* or unreadable target does not empty a zone (inventory.go 110-111, README 328-331):
\* hosts and clients that are there all through the read are published in full,
\* whatever comes and goes between the calls and in zones that share a name.
StandingIsPublished ==
    Returned => \A k \in Keys : read.desired[k].cap >= Least(k[2], ZonesOf(k[1]))

\* A target is never exceeded, and what is decommissioned or unhealthy holds
\* nothing (inventory.go 84-87, 190-191): no pool is larger than what was there
\* at some time during the read, at the best target of that time.
NothingInvented ==
    Returned => \A k \in Keys : read.desired[k].cap <= Most(k[2], ZonesOf(k[1]))

-------------------------------------------------------------------------------
(* Why they hold *)

Pool == [host : Nat, client : Nat, over : Nat, cap : Nat]

Reading ==
    [pc : {"idle", "zone", "clients", "targets"}, todo : SUBSET Zones,
     zone : Zones \cup {Blank}, hosts : [Types -> Nat], clients : [Types -> Nat],
     desired : [Keys -> Pool]]

\* The zones of a name that are added up.
ReadSoFar(n) == ZonesOf(n) \ (read.todo \cup {read.zone})

\* What each call of buildDesiredPools returned lies between what has stood and what
\* was ever there, in the zone at hand and, added up, in those before it.
ReadInv ==
    /\ read \in Reading
    /\ status \in [Servers -> Statuses]
    /\ client \in [Clients -> {"absent", "live", "decommissioned"}]
    /\ policy \in [Zones -> Policies] /\ policies \in [Zones -> SUBSET Policies]
    /\ \A z \in Zones : IsFiniteSet(policies[z])
    /\ read.pc # "idle" =>
          /\ stood \subseteq Up /\ Up \subseteq ever /\ ever \subseteq Servers \cup Clients
          /\ \A z \in Zones : policy[z] \in policies[z]
          /\ \A k \in Keys : /\ Least(k[2], ReadSoFar(k[1])) <= read.desired[k].cap
                             /\ read.desired[k].cap <= Most(k[2], ReadSoFar(k[1]))
    /\ read.pc = "zone" => read.zone = Blank
    /\ read.pc \in {"clients", "targets"} =>
          /\ read.zone \in Zones \ read.todo
          /\ \A t \in Types : /\ HostsIn(stood, read.zone)[t] <= read.hosts[t]
                              /\ read.hosts[t] <= HostsIn(ever, read.zone)[t]
    /\ read.pc = "targets" =>
          \A t \in Types : /\ ClientsIn(stood, read.zone)[t] <= read.clients[t]
                           /\ read.clients[t] <= ClientsIn(ever, read.zone)[t]
===============================================================================
