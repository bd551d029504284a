---------------------------- MODULE ClaimLifecycle ----------------------------
(***************************************************************************)
(* A claim's life across the whole plugin: the node daemons that prepare   *)
(* and unprepare it, the CDI hooks that stage its client into containers,  *)
(* and the operator that reaps what the daemons left behind, together with *)
(* the kubelets, users and failures they live among.                       *)
(***************************************************************************)
EXTENDS Driver, CDIHook, OrphanReaper

CONSTANTS Homes,          \* Homes[c]: the nodes where pods use claim c
          VMClaims,       \* claims consumed by a VM rather than by containers
          HookOverlap     \* may a hook still run when its claim is unprepared?

ASSUME LifecycleAssumption ==
    /\ Homes \in [Claims -> SUBSET Nodes]
    /\ VMClaims \subseteq Claims
    /\ HookOverlap \in BOOLEAN

vars == <<thunderVars, kubeVars, cdiVars, driverVars, hook, reaperVars, faults>>

Init ==
    /\ ThunderInit /\ KubeInit /\ CDIInit
    /\ DriverInit /\ HookInit /\ ReaperInit
    /\ faults = 0

-------------------------------------------------------------------------------
(* The cluster around the plugin (external) *)

AllExceptClaim == <<thunderVars, record, revision, secret, cdiVars, driverVars,
                    hook, reaperVars, faults>>

\* One claim at a time has a given name.
CreateClaim(c) ==
    /\ claim[c] = "pending"
    /\ \A d \in Claims : NameOf[d] = NameOf[c] => claim[d] # "allocated"
    /\ claim' = [claim EXCEPT ![c] = "allocated"]
    /\ UNCHANGED AllExceptClaim

\* Pods may be force-deleted, so a claim can go at any time.
DeleteClaim(c) ==
    /\ claim[c] = "allocated"
    /\ claim' = [claim EXCEPT ![c] = "gone"]
    /\ UNCHANGED AllExceptClaim

\* A user deletes the ThunderClient resource; the finalizer holds it.
DeleteResource(c) ==
    /\ record[c] # None /\ ~record[c].deleting
    /\ DeleteRecord(c)
    /\ UNCHANGED <<thunderVars, claim, secret, cdiVars, driverVars,
                   hook, reaperVars, faults>>

Kubelet(n, c, from, to) ==
    /\ up[n] /\ kub[n][c] \in from
    /\ kub' = [kub EXCEPT ![n][c] = to]
    /\ UNCHANGED <<thunderVars, kubeVars, cdiVars, op, up, hook, reaperVars, faults>>

\* A pod using the claim lands on the node, and later leaves it.  The kubelet
\* has no call in flight for a claim it turns around.
StartPod(n, c) ==
    /\ n \in Homes[c] /\ claim[c] = "allocated"
    /\ Kubelet(n, c, {"idle"}, "preparing")

StopPod(n, c) ==
    /\ op[n].c # c
    /\ HookOverlap \/ Staging(n, c) = {}
    /\ Kubelet(n, c, {"preparing", "prepared"}, "unpreparing")

\* The runtime creates a container of a prepared pod.  The container may be a
\* VM's virt-launcher (cdihook.go 353-355), if KubeVirt gives it the device.
StartContainer(h, n, c) ==
    /\ up[n] /\ kub[n][c] = "prepared"
    /\ HookStart(h, n, c)
    /\ UNCHANGED <<kubeVars, driverVars, reaperVars>>

\* A VM boots: its guest spends the token in the setup Secret it mounts.
GuestEnrolls(n, c) ==
    /\ up[n] /\ kub[n][c] = "prepared" /\ c \in VMClaims
    /\ secret[NameOf[c]] # None
    /\ ExchangeToken(secret[NameOf[c]])
    /\ UNCHANGED <<kubeVars, cdiVars, driverVars, hook, reaperVars, faults>>

\* The node is lost for good, with its daemon and hooks.
NodeLoss(n) ==
    /\ up[n] /\ Fault("nodeLoss")
    /\ up' = [up EXCEPT ![n] = FALSE]
    /\ UNCHANGED <<thunderVars, kubeVars, cdiVars, op, kub, hook, reaperVars>>

-------------------------------------------------------------------------------
DaemonStep(n) == DriverStep(n) /\ UNCHANGED <<hook, reaperVars>>

StageStep(h) ==
    /\ hook[h].pc # "off" => up[hook[h].node]
    /\ HookStep(h)
    /\ UNCHANGED <<kubeVars, driverVars, reaperVars>>

OperatorStep == ReaperStep /\ UNCHANGED <<cdiVars, driverVars, hook>>

Grace(c) == GraceElapses(c) /\ UNCHANGED <<cdiVars, driverVars, hook>>

Crash ==
    \/ \E n \in Nodes : DaemonCrash(n) /\ UNCHANGED <<hook, reaperVars>>
    \/ \E h \in Hooks : HookCrash(h) /\ UNCHANGED <<kubeVars, driverVars, reaperVars>>
    \/ OperatorCrash /\ UNCHANGED <<cdiVars, driverVars, hook>>
    \/ \E n \in Nodes : NodeLoss(n)

Environment ==
    \/ \E c \in Claims : CreateClaim(c) \/ DeleteClaim(c) \/ DeleteResource(c)
    \/ \E n \in Nodes, c \in Claims :
          StartPod(n, c) \/ StopPod(n, c) \/ GuestEnrolls(n, c)
    \/ \E h \in Hooks, n \in Nodes, c \in Claims : StartContainer(h, n, c)

Next ==
    \/ \E n \in Nodes : DaemonStep(n)
    \/ \E h \in Hooks : StageStep(h)
    \/ OperatorStep
    \/ \E c \in Claims : Grace(c)
    \/ Environment
    \/ Crash

Spec == Init /\ [][Next]_vars

(***************************************************************************)
(* Fairness.  The daemon and the hooks finish what they started; the       *)
(* kubelet tears a pod down once its claim is gone and calls unprepare     *)
(* until it succeeds (SF: the calls of one node queue on a mutex that      *)
(* hands itself to the longest waiter); the operator's ticker runs passes  *)
(* forever and time passes.                                                *)
(***************************************************************************)
Fairness ==
    /\ \A n \in Nodes : WF_vars(op[n].pc # "idle" /\ DaemonStep(n))
    /\ \A n \in Nodes, c \in Claims :
          /\ SF_vars(UnprepareGet(n, c) /\ UNCHANGED <<hook, reaperVars>>)
          /\ SF_vars(claim[c] = "gone" /\ StopPod(n, c))
    /\ \A h \in Hooks : SF_vars(StageStep(h))
    /\ WF_vars(OperatorStep)
    /\ \A c \in Claims : WF_vars(Grace(c))

FairSpec == Spec /\ Fairness
-------------------------------------------------------------------------------
(* Types *)

\* Every variable holds what the code could have put there, and a process that
\* is in the middle of something has what it needs to go on.
TypeOK ==
    /\ ThunderTypeOK /\ KubeTypeOK /\ CDITypeOK
    /\ DriverTypeOK /\ HookTypeOK /\ ReaperTypeOK /\ FaultsTypeOK

-------------------------------------------------------------------------------
(* Safety *)

\* A ThunderClient resource is without its finalizer only when the enrollment
\* token it records has been revoked (store.go Delete, clients.go reap): what
\* can disappear has nothing left to clean up, whoever released it and
\* whatever failed on the way.
ReleasedOnlyRevoked ==
    \A c \in Claims :
        record[c] # None /\ ~record[c].fin => token[record[c].token] = "revoked"

(***************************************************************************)
(* Why ReleasedOnlyRevoked and the ledger hold when a claim has one home:  *)
(* the conjuncts of an inductive invariant.                                *)
(***************************************************************************)
SingleHome == \A c \in Claims : \A m, n \in Homes[c] : m = n

\* Daemons and kubelets only work on claims that live on their node.
WorksAtHome ==
    \A n \in Nodes :
        /\ op[n].pc # "idle" => n \in Homes[op[n].c]
        /\ \A c \in Claims : kub[n][c] # "idle" => n \in Homes[c]

\* Until it writes one, a daemon preparing a claim knows there is no record.
PrepareFromNothing ==
    \A n \in Nodes :
        /\ op[n].pc \in PreparePCs => record[op[n].c] = None
        /\ op[n].pc = "UpsertPut" => op[n].seen = None

\* A daemon holds the token that the record, if any, is about; it has revoked
\* the token before it starts to forget the claim.
HoldsTheToken ==
    \A n \in Nodes :
        /\ op[n].pc \notin {"idle", "Mint"} => token[op[n].tok] # "none"
        /\ op[n].pc \in RevokePCs \cup ForgetPCs /\ record[op[n].c] # None =>
              record[op[n].c].token = op[n].tok
        /\ op[n].pc \in ForgetPCs => token[op[n].tok] = "revoked"
        /\ op[n].pc = "DeleteUpdate" => op[n].seen.token = op[n].tok

\* A resource the operator listed and that has not been written since names
\* the same token; the operator has revoked it before it releases the resource.
ListedIsCurrent ==
    /\ \A c \in Claims :
          /\ record[c] # None => record[c].rv <= revision[c]
          /\ pass.items[c] # None =>
                /\ pass.items[c].rv <= revision[c]
                /\ token[pass.items[c].token] # "none"
                /\ Fresh(c, pass.items[c]) => record[c].token = pass.items[c].token
    /\ pass.pc \in {"Update", "Delete"} =>
          token[pass.items[pass.cur].token] = "revoked"

RecordedIsMinted ==
    \A c \in Claims : record[c] # None => token[record[c].token] # "none"

\* What every step of prepareOne, unprepareOne and reap relies on and keeps,
\* for claims that have one home, whatever fails.
RecordInv ==
    /\ WorksAtHome /\ PrepareFromNothing /\ HoldsTheToken
    /\ ListedIsCurrent /\ RecordedIsMinted /\ ReleasedOnlyRevoked

\* The enrollments, seen as the abstract ledger: an enrollment put on record
\* stays there until it is revoked (prepareOne, unprepareOne, reap).
OnRecord(t) == \E c \in Claims : record[c] # None /\ record[c].token = t

Standing(t) == IF token[t] = "none" THEN "unminted"
               ELSE IF token[t] = "revoked" THEN "revoked"
               ELSE IF OnRecord(t) THEN "recorded" ELSE "pending"

Ledger == INSTANCE EnrollmentLedger WITH
    Enrollments <- Tokens,
    ledger <- [t \in Tokens |-> Standing(t)]

LedgerSpec == Ledger!Spec

\* A token that a daemon minted and then lost, dying or failing before the record
\* was written, is never spent (driver.go 190-213): a client is only enrolled with
\* a token that is on record, by a hook or a guest that got hold of it in any way.
SpentOnRecord ==
    [][\A t \in Tokens : token[t] = "unspent" /\ token'[t] = "spent" => OnRecord(t)]_vars

\* A claim its kubelet believes prepared can be used: the CDI spec is on the
\* node, and the state directory has either the client the record's token was
\* exchanged for, or that token, still to be spent or being spent by a hook.
PreparedIsUsable ==
    \A n \in Nodes, c \in Claims :
        up[n] /\ kub[n][c] = "prepared" /\ claim[c] = "allocated" =>
            /\ record[c] # None
            /\ files[n][c].spec
            /\ LET t == record[c].token
               IN \/ files[n][c].config = t
                  \/ /\ files[n][c].token = t
                     /\ \/ token[t] = "unspent"
                        \/ \E h \in Staging(n, c) : hook[h].pc = "cache" /\ hook[h].tok = t

\* A live Thunder client stays within reach: the hook that enrolled it is about
\* to cache it, or its ID is in the state directory of a claim that still has its
\* record, as long as that claim exists.
LiveClientWithinReach ==
    \A t \in Tokens : client[t] = "live" =>
        \E n \in Nodes, c \in Claims :
            \/ \E h \in Staging(n, c) : hook[h].pc = "cache" /\ hook[h].tok = t
            \/ files[n][c].config = t /\ (record[c] # None \/ claim[c] = "gone")

\* Containers sharing a claim are staged one at a time (cdihook.go 137-139):
\* no two hooks of a claim on a node are past the stage lock together.
StagedOneAtATime ==
    \A g, h \in Hooks :
        /\ hook[g].pc \in {"config", "exchange", "cache"}
        /\ hook[h].pc \in {"config", "exchange", "cache"}
        /\ hook[g].node = hook[h].node /\ hook[g].claim = hook[h].claim
        => g = h

\* The client has to go before the CDI state that records its ID does
\* (driver.go 239): a cached client is revoked when its config is removed.
ClientGoesBeforeItsState ==
    [][\A n \in Nodes, c \in Claims :
          LET t == files[n][c].config
          IN t # None /\ files'[n][c].config # t => client[t] = "revoked"]_vars

\* However many nodes share a claim, and whichever node's token its record names
\* by then, a teardown revokes the client its own node staged (driver.go 239-247)
\* before it removes the config that names it.
UnprepareRevokesItsOwn ==
    [][\A n \in Nodes : op[n].pc = "CDIRemove" =>
          LET t == files[n][op[n].c].config
          IN t # None /\ files'[n][op[n].c].config # t => client[t] = "revoked"]_vars

\* StagedClientID reporting nothing means that no client was created
\* (store.go 527-528), so revoking the token is the whole cleanup.
NothingStagedNothingEnrolled ==
    \A n \in Nodes :
        op[n].pc \in {"Revoke"} \cup ForgetPCs /\ op[n].cid = None
            => client[op[n].tok] = "none"

\* The finalizer keeps a ThunderClient until its enrollment has been revoked
\* (thunderclient.go 16-17): when a record disappears, the client enrolled
\* with its token is not live.
NoLiveClientForgotten ==
    [][\A c \in Claims :
          record[c] # None /\ record'[c] = None
              => client[record[c].token] # "live"]_vars

\* The setup Secret a prepared VM mounts holds the token of its own claim's
\* record (store.go, KubernetesGuestConfigStore).
SecretIsTheClaims ==
    \A n \in Nodes, c \in Claims :
        /\ up[n] /\ kub[n][c] = "prepared" /\ claim[c] = "allocated"
        /\ record[c] # None
        => secret[NameOf[c]] = record[c].token

\* The token in the Secret that a VM mounts is the guest's to spend (store.go
\* 331-332): no hook has spent it on a client for the VM's own launcher.
SetupTokenIsTheGuests ==
    \A n \in Nodes, c \in VMClaims :
        up[n] /\ kub[n][c] = "prepared" /\ secret[NameOf[c]] # None
            => files[n][c].config # secret[NameOf[c]]

(***************************************************************************)
(* Why the properties above hold when a claim has one home and its hooks   *)
(* are through before it is unprepared: the conjuncts of an inductive      *)
(* invariant, in layers that exclude as few faults as each can bear.       *)
(***************************************************************************)
OwnNames == \A c, d \in Claims : NameOf[c] = NameOf[d] => c = d

CallMatches(n) ==
    /\ op[n].pc \in PreparePCs \cup UndoPCs => kub[n][op[n].c] = "preparing"
    /\ op[n].pc \in RevokePCs \cup ForgetPCs => kub[n][op[n].c] = "unpreparing"

\* 0. Every daemon is doing what its kubelet asked for, whatever fails.
CallInv == \A n \in Nodes : CallMatches(n)

\* A running hook has the lock file that is on disk, and waited for its lock.
HasStageLock(h) ==
    LET n == hook[h].node
        c == hook[h].claim
    IN hook[h].pc # "off" =>
          /\ kub[n][c] = "prepared"
          /\ fd[h].node = n /\ fd[h].claim = c
          /\ fd[h].ino = files[n][c].lock /\ files[n][c].dir
          /\ hook[h].pc # "wait" => fd[h].held

SameLock(g, h) == /\ fd[g].node = fd[h].node /\ fd[g].claim = fd[h].claim
                  /\ fd[g].ino = fd[h].ino

LocksExclude ==
    \A g, h \in Hooks : fd[g] # None /\ fd[h] # None /\ SameLock(g, h)
                          /\ fd[g].held /\ fd[h].held => g = h

\* 1. Of stage locks, whatever fails.
StageLockInv ==
    /\ \A h \in Hooks : HasStageLock(h)
    /\ LocksExclude

\* As long as a claim exists, its record outlives its use, and is released
\* only while it is unprepared.
RecordStands(c) ==
    /\ record[c] # None => record[c].fin \/ ~record[c].deleting
    /\ record[c] # None => \A n \in Homes[c] : kub[n][c] # "idle"
    /\ claim[c] # "gone" /\ record[c] # None /\ ~record[c].fin =>
          \A n \in Homes[c] : kub[n][c] = "unpreparing"
    /\ claim[c] # "gone" /\ record[c] = None =>
          \A n \in Nodes : kub[n][c] # "prepared"

\* 2. Of records and claims, whatever fails.
RecordStandsInv ==
    /\ \A c \in Claims : RecordStands(c)
    /\ \A n \in Nodes : op[n].pc = "DeleteDelete" /\ record[op[n].c] # None =>
          ~record[op[n].c].fin
    /\ pass.pc \in {"Unenroll", "Update", "Delete"} => claim[pass.cur] = "gone"

\* A token of claim c that nobody spends without a record.
Vouched(c, t) ==
    t = None \/ token[t] = "revoked" \/ (record[c] # None /\ record[c].token = t)

SecretOfCall(n) ==
    op[n].pc \in {"CDICreate", "UpsertGet", "UpsertPut"} =>
        secret[NameOf[op[n].c]] = op[n].tok

\* 3. Of the tokens within the reach of hooks and guests, whatever fails.
VouchedInv ==
    /\ \A n \in Nodes :
          /\ op[n].pc \in {"UpsertGet", "UpsertPut"} => files[n][op[n].c].token = op[n].tok
          /\ SecretOfCall(n)
    /\ \A c \in Claims : \A n \in Homes[c] :
          record[c] # None \/ kub[n][c] = "prepared" =>
              Vouched(c, files[n][c].token) /\ Vouched(c, secret[NameOf[c]])
    /\ \A h \in Hooks :
          hook[h].pc \in {"exchange", "cache"} => Vouched(hook[h].claim, hook[h].tok)

Used == {"spent", "revoked"}

\* The cached config of the claim that node n's daemon works on.
ConfigOfCall(n) ==
    LET config == files[n][op[n].c].config
    IN /\ op[n].pc \in PreparePCs \cup UndoPCs => config = None
       /\ op[n].pc = "RevokeClient" => config = op[n].cid
       /\ op[n].pc \in {"Revoke"} \cup ForgetPCs => config = None \/ client[config] = "revoked"
       /\ op[n].pc \in {"GuestRemove", "DeleteGet", "DeleteUpdate", "DeleteDelete"} =>
             config = None

\* 4. Of cached configs, when they can be written and read.
ConfigInv ==
    /\ \A n \in Nodes : op[n].pc # "idle" => ConfigOfCall(n)
    /\ \A n \in Nodes, c \in Claims :
          files[n][c].config # None =>
              /\ n \in Homes[c] /\ token[files[n][c].config] \in Used
              /\ claim[c] = "gone" \/ (record[c] # None /\ record[c].fin)
    /\ \A h \in Hooks :
          /\ hook[h].pc \in {"exchange", "cache"} =>
                files[hook[h].node][hook[h].claim].config = None
          /\ hook[h].pc = "cache" => token[hook[h].tok] \in Used

\* 5. Of setup Secrets, when no reply is lost.
SecretInv ==
    /\ \A n \in Nodes :
          /\ op[n].pc \in UndoPCs => record[op[n].c] = None
          /\ SecretOfCall(n)
    /\ \A c \in Claims : \A n \in Homes[c] :
          record[c] # None /\ kub[n][c] \in {"preparing", "prepared"} =>
              secret[NameOf[c]] = record[c].token

\* Tokens that some process knows as claim c's.
TokenOf(c, t) ==
    \/ record[c] # None /\ record[c].token = t
    \/ pass.items[c] # None /\ pass.items[c].token = t
    \/ \E n \in Nodes : op[n].pc \notin {"idle", "Mint"} /\ op[n].c = c /\ op[n].tok = t

\* The state directory has the client that token t was exchanged for, or t,
\* still to be spent or being spent by a hook.
Usable(n, c, t) ==
    \/ files[n][c].config = t
    \/ /\ files[n][c].token = t
       /\ \/ token[t] = "unspent"
          \/ \E h \in Staging(n, c) : hook[h].pc = "cache" /\ hook[h].tok = t

\* 6. Of tokens: none is known as two claims', whatever fails.
TokenInv == \A c, d \in Claims, t \in Tokens : TokenOf(c, t) /\ TokenOf(d, t) => c = d

\* 7. Of what a claim that exists can be used with, when neither replies,
\* configs nor hooks are lost and no guest spends tokens.
UsableInv ==
    /\ \A n \in Nodes :
          /\ op[n].pc \in PreparePCs \ {"Mint"} /\ claim[op[n].c] # "gone" =>
                token[op[n].tok] = "unspent"
          /\ op[n].pc \in {"UpsertGet", "UpsertPut"} => files[n][op[n].c].spec
    /\ \A c \in Claims : \A n \in Homes[c] :
          /\ claim[c] # "gone" /\ record[c] # None
          /\ kub[n][c] \in {"preparing", "prepared"}
          => files[n][c].spec /\ Usable(n, c, record[c].token)
    /\ \A h \in Hooks :
          hook[h].pc \in {"exchange", "cache"} /\ claim[hook[h].claim] # "gone" =>
              record[hook[h].claim].token = hook[h].tok
    /\ \A t \in Tokens : client[t] = "live" =>
          \/ \E h \in Hooks : hook[h].pc = "cache" /\ hook[h].tok = t
          \/ \E n \in Nodes, c \in Claims : files[n][c].config = t

\* All of them together: what the driver (prepareOne, unprepareOne), the hook, the
\* stores and the reaper keep between any two of their steps.
LifeInv ==
    /\ TypeOK /\ RecordInv /\ CallInv /\ StageLockInv /\ RecordStandsInv
    /\ VouchedInv /\ ConfigInv /\ SecretInv /\ TokenInv /\ UsableInv

-------------------------------------------------------------------------------
(* Liveness *)

\* A ThunderClient resource does not outlive its claim for ever, whether its
\* node unprepares it or is lost (reapOrphanedClients).
OrphansAreReaped ==
    \A c \in Claims : claim[c] = "gone" ~> [](record[c] = None)

\* A kubelet tearing a pod down gets there: unprepare is not blocked for ever,
\* by the stage lock or by other claims (unprepareOne, Remove).
UnprepareCompletes ==
    \A n \in Nodes, c \in Claims :
        kub[n][c] = "unpreparing" ~> (kub[n][c] = "idle" \/ ~up[n])
===============================================================================
