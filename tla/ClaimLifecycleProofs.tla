------------------------- MODULE ClaimLifecycleProofs -------------------------
(***************************************************************************)
(* Theorems about ClaimLifecycle, for every deployment and fault budget.   *)
(***************************************************************************)
EXTENDS ClaimLifecycle, TLAPS

-------------------------------------------------------------------------------
(* What the services, the disk and the fault budget do to the types *)

LEMMA FaultType ==
    ASSUME FaultsTypeOK
    PROVE  /\ UNCHANGED faults => FaultsTypeOK'
           /\ \A kind : Fault(kind) => FaultsTypeOK'
BY FaultAssumption DEF FaultsTypeOK, Fault

LEMMA ThunderType ==
    ASSUME ThunderTypeOK
    PROVE  /\ UNCHANGED thunderVars => ThunderTypeOK'
           /\ \A t : CreateClientEnrollment(t) => ThunderTypeOK'
           /\ \A t : UnenrollClient(t) => ThunderTypeOK'
           /\ \A t : RevokeThunderClient(t) => ThunderTypeOK'
           /\ \A t : ExchangeToken(t) => ThunderTypeOK'
BY DEF ThunderTypeOK, thunderVars, TokenStates, ClientStates, CreateClientEnrollment,
       UnenrollClient, RevokeThunderClient, ExchangeToken

LEMMA PutType ==
    ASSUME KubeTypeOK, NEW c \in Claims, NEW r \in Record, PutRecord(c, r)
    PROVE  record' \in [Claims -> Record \cup {None}] /\ revision' \in [Claims -> Nat]
<1>1. [r EXCEPT !.rv = revision[c] + 1] \in Record
  BY DEF KubeTypeOK, Record
<1> QED
  BY <1>1 DEF KubeTypeOK, PutRecord

LEMMA RecordType ==
    ASSUME KubeTypeOK, NEW c \in Claims
    PROVE  /\ \A t \in Tokens : CreateRecord(c, t) =>
                record' \in [Claims -> Record \cup {None}] /\ revision' \in [Claims -> Nat]
           /\ DeleteRecord(c) =>
                record' \in [Claims -> Record \cup {None}] /\ revision' \in [Claims -> Nat]
           /\ \A r \in Record, t \in Tokens : [r EXCEPT !.token = t, !.fin = TRUE] \in Record
           /\ \A r \in Record : [r EXCEPT !.fin = FALSE] \in Record
<1>1. \A t \in Tokens : [token |-> t, fin |-> TRUE, deleting |-> FALSE, rv |-> 0] \in Record
  BY DEF Record
<1>2. \A r \in Record : [r EXCEPT !.deleting = TRUE] \in Record
  BY DEF Record
<1>3. /\ \A r \in Record, t \in Tokens : [r EXCEPT !.token = t, !.fin = TRUE] \in Record
      /\ \A r \in Record : [r EXCEPT !.fin = FALSE] \in Record
  BY DEF Record
<1>4. record[c] # None => record[c] \in Record
  BY DEF KubeTypeOK
<1> QED
  BY <1>1, <1>2, <1>3, <1>4, PutType DEF CreateRecord, DeleteRecord, KubeTypeOK

LEMMA KubeType ==
    ASSUME KubeTypeOK
    PROVE  /\ UNCHANGED kubeVars => KubeTypeOK'
           /\ /\ UNCHANGED <<claim, secret>>
              /\ record' \in [Claims -> Record \cup {None}]
              /\ revision' \in [Claims -> Nat]
              => KubeTypeOK'
           /\ \A c, t : /\ UNCHANGED <<claim, record, revision>>
                        /\ t \in Tokens \cup {None}
                        /\ SetSecret(c, t)
                        => KubeTypeOK'
BY DEF KubeTypeOK, kubeVars, SetSecret

LEMMA FileUpdates ==
    ASSUME NEW f \in Files
    PROVE  /\ NoFiles \in Files /\ RemoveStateDir(f) \in Files
           /\ \A i \in Inodes : [f EXCEPT !.dir = TRUE, !.lock = i] \in Files
           /\ \A t \in Tokens : [f EXCEPT !.dir = TRUE, !.spec = TRUE, !.token = t] \in Files
           /\ \A b \in {f.spec, FALSE} : [f EXCEPT !.spec = b] \in Files
           /\ \A t \in Tokens, u \in Tokens \cup {None} :
                 [f EXCEPT !.config = t, !.token = u] \in Files
BY DEF Files, NoFiles, RemoveStateDir

LEMMA FilesType ==
    ASSUME CDITypeOK, NEW n \in Nodes, NEW c \in Claims
    PROVE  /\ files[n][c] \in Files
           /\ \A f \in Files : [files EXCEPT ![n][c] = f] \in [Nodes -> [Claims -> Files]]
BY DEF CDITypeOK

LEMMA CloseType ==
    ASSUME CDITypeOK, NEW p \in Processes, Close(p)
    PROVE  /\ fd' \in [Processes -> Descriptor \cup {None}]
           /\ \A q \in Processes \ {p} : fd'[q] = fd[q]
BY DEF CDITypeOK, Close

LEMMA OpenLockType ==
    ASSUME CDITypeOK, NEW n \in Nodes, NEW c \in Claims, NEW p \in Processes,
           OpenLock(p, n, c)
    PROVE  CDITypeOK' /\ fd'[p] # None /\ \A q \in Processes \ {p} : fd'[q] = fd[q]
<1>1. PICK i \in Inodes :
          /\ files' = [files EXCEPT ![n][c] = [@ EXCEPT !.dir = TRUE, !.lock = i]]
          /\ fd' = [fd EXCEPT ![p] = [node |-> n, claim |-> c, ino |-> i, held |-> FALSE]]
  BY DEF OpenLock
<1>2. files' \in [Nodes -> [Claims -> Files]]
  BY <1>1, FilesType, FileUpdates
<1>3. [node |-> n, claim |-> c, ino |-> i, held |-> FALSE] \in Descriptor
  BY DEF Descriptor
<1> QED
  BY <1>1, <1>2, <1>3, DescriptorAssumption DEF CDITypeOK

-------------------------------------------------------------------------------
(* Type correctness of the daemon *)

OperationPCs == {"idle"} \cup PreparePCs \cup UndoPCs \cup RevokePCs \cup ForgetPCs

\* An operation of node n well-formed enough for the rest of DriverTypeOK.
WellFormed(o) ==
    /\ o \in Operation
    /\ o.pc # "idle" => o.c # None
    /\ o.pc \notin {"idle", "Mint"} => o.tok # None
    /\ o.pc = "DeleteUpdate" => o.seen # None

LEMMA OpUpdates ==
    ASSUME NEW o \in Operation, o.c # None
    PROVE  /\ \A t \in Tokens : WellFormed([o EXCEPT !.pc = "GuestCreate", !.tok = t])
           /\ \A r \in Record \cup {None} : o.tok # None =>
                 WellFormed([o EXCEPT !.pc = "UpsertPut", !.seen = r])
           /\ \A id \in Tokens \cup {None}, pc \in {"RevokeClient", "Revoke"} :
                 o.tok # None => WellFormed([o EXCEPT !.cid = id, !.pc = pc])
           /\ \A r \in Record, pc \in {"DeleteUpdate", "DeleteDelete"} :
                 o.tok # None => WellFormed([o EXCEPT !.seen = r, !.pc = pc])
<1> USE DeploymentAssumption DEF WellFormed, Operation
<1>1. \A t \in Tokens : WellFormed([o EXCEPT !.pc = "GuestCreate", !.tok = t])
  BY DEF PreparePCs
<1>2. \A r \in Record \cup {None} : o.tok # None =>
         WellFormed([o EXCEPT !.pc = "UpsertPut", !.seen = r])
  BY DEF PreparePCs
<1>3. \A id \in Tokens \cup {None}, pc \in {"RevokeClient", "Revoke"} :
         o.tok # None => WellFormed([o EXCEPT !.cid = id, !.pc = pc])
  BY DEF RevokePCs
<1>4. \A r \in Record, pc \in {"DeleteUpdate", "DeleteDelete"} :
         o.tok # None => WellFormed([o EXCEPT !.seen = r, !.pc = pc])
  BY RecordAssumption DEF ForgetPCs
<1> QED
  BY <1>1, <1>2, <1>3, <1>4

LEMMA OpType ==
    ASSUME DriverTypeOK, NEW n \in Nodes, UNCHANGED up
    PROVE  /\ op[n] \in Operation /\ WellFormed(op[n])
           /\ UNCHANGED <<op, kub>> => DriverTypeOK'
           /\ \A o : WellFormed(o) /\ op' = [op EXCEPT ![n] = o] /\ UNCHANGED kub
                     => DriverTypeOK'
           /\ Fail(n) => DriverTypeOK'
           /\ \A c \in Claims, s \in KubeletStates : Succeed(n, c, s) => DriverTypeOK'
<1> USE DEF DriverTypeOK
<1>1. WellFormed(Idle)
  BY DEF WellFormed, Idle, Operation
<1>2. ASSUME NEW o, WellFormed(o), op' = [op EXCEPT ![n] = o],
             kub' \in [Nodes -> [Claims -> KubeletStates]]
      PROVE  DriverTypeOK'
  BY <1>2 DEF WellFormed
<1>3. \A c \in Claims, s \in KubeletStates :
         [kub EXCEPT ![n][c] = s] \in [Nodes -> [Claims -> KubeletStates]]
  OBVIOUS
<1>4. op[n] \in Operation /\ WellFormed(op[n])
  BY DEF WellFormed
<1>5. ASSUME NEW c \in Claims, NEW s \in KubeletStates, Succeed(n, c, s)
      PROVE  DriverTypeOK'
  BY <1>1, <1>2, <1>3, <1>5 DEF Succeed
<1>6. UNCHANGED <<op, kub>> => DriverTypeOK'
  OBVIOUS
<1>7. ASSUME Fail(n) PROVE DriverTypeOK'
  BY <1>1, <1>2, <1>7 DEF Fail
<1>8. ASSUME NEW o, WellFormed(o), op' = [op EXCEPT ![n] = o], UNCHANGED kub
      PROVE  DriverTypeOK'
  BY <1>2, <1>8
<1> QED
  BY <1>4, <1>5, <1>6, <1>7, <1>8

\* Moving on to a step that needs nothing the operation does not have.
LEMMA GotoType ==
    ASSUME DriverTypeOK, NEW n \in Nodes, UNCHANGED up,
           op[n].pc # "idle", NEW pc \in OperationPCs \ {"idle", "DeleteUpdate"},
           op[n].tok # None, Goto(n, pc)
    PROVE  DriverTypeOK'
<1>1. WellFormed([op[n] EXCEPT !.pc = pc])
  BY OpType DEF WellFormed, Operation, OperationPCs
<1> QED
  BY <1>1, OpType DEF Goto
\* A daemon's step leaves the hooks' locks alone.
DaemonTypeOK ==
    /\ ThunderTypeOK /\ KubeTypeOK /\ CDITypeOK /\ DriverTypeOK /\ FaultsTypeOK

HookLocksKept == \A h \in Hooks : fd'[h] = fd[h]

LEMMA OpFacts ==
    ASSUME TypeOK, NEW n \in Nodes
    PROVE  /\ op[n] \in Operation
           /\ op[n].pc # "idle" => op[n].c \in Claims
           /\ op[n].pc \notin {"idle", "Mint"} => op[n].tok \in Tokens
           /\ op[n].cid \in Tokens \cup {None}
           /\ op[n].seen \in Record \cup {None}
           /\ op[n].pc = "DeleteUpdate" => op[n].seen \in Record
           /\ n \in Processes /\ Hooks \subseteq Processes \ {n}
<1>1. op[n] \in Operation
  BY DEF TypeOK, DriverTypeOK
<1>2. /\ op[n].c \in Claims \cup {None} /\ op[n].tok \in Tokens \cup {None}
      /\ op[n].cid \in Tokens \cup {None} /\ op[n].seen \in Record \cup {None}
  BY <1>1 DEF Operation
<1> QED
  BY <1>1, <1>2, DeploymentAssumption DEF TypeOK, DriverTypeOK, Processes

LEMMA CDIRemoveLockType ==
    ASSUME TypeOK, NEW n \in Nodes, NEW c \in Claims, CDIRemoveLock(n, c)
    PROVE  CDITypeOK' /\ HookLocksKept /\ FaultsTypeOK'
<1>1. CASE OpenLock(n, n, c) /\ UNCHANGED faults
  BY <1>1, OpenLockType, OpFacts, FaultType DEF TypeOK, HookLocksKept
<1>2. CASE Fault("error") /\ UNCHANGED cdiVars
  BY <1>2, FaultType DEF TypeOK, HookLocksKept, cdiVars, CDITypeOK
<1> QED
  BY <1>1, <1>2 DEF CDIRemoveLock

LEMMA CDIRemoveType ==
    ASSUME TypeOK, NEW n \in Nodes, NEW c \in Claims,
           NEW ACTION ok, NEW ACTION fail, CDIRemove(n, c, ok, fail)
    PROVE  CDITypeOK' /\ HookLocksKept /\ FaultsTypeOK' /\ (ok \/ fail)
<1>1. fd' \in [Processes -> Descriptor \cup {None}] /\ HookLocksKept
  BY CloseType, OpFacts DEF CDIRemove, TypeOK, HookLocksKept
<1>2. files' \in [Nodes -> [Claims -> Files]]
  <2>1. PICK f \in Files : files' = [files EXCEPT ![n][c] = f]
    BY FilesType, FileUpdates DEF CDIRemove, TypeOK
  <2> QED
    BY <2>1, FilesType DEF TypeOK
<1> QED
  BY <1>1, <1>2, FaultType DEF CDIRemove, CDITypeOK, TypeOK
LEMMA PrepareType ==
    ASSUME TypeOK, NEW n \in Nodes, PrepareStep(n)
    PROVE  DaemonTypeOK' /\ HookLocksKept
<1> USE OpFacts, OpType, GotoType, FaultType, ThunderType, KubeType DEF TypeOK, DaemonTypeOK
<1>a. UNCHANGED cdiVars => CDITypeOK' /\ HookLocksKept
  BY DEF cdiVars, CDITypeOK, HookLocksKept
<1>b. /\ {"GuestCreate", "CDICreate", "UpsertGet", "UpsertPut"} \cup UndoPCs
            \subseteq OperationPCs \ {"idle", "DeleteUpdate"}
      /\ {"UndoLock", "UndoCDI", "UndoGuest", "UndoRevoke"} = UndoPCs
      /\ "prepared" \in KubeletStates
  BY DEF OperationPCs, PreparePCs, UndoPCs, KubeletStates
<1>1. ASSUME NEW c \in Claims, PrepareGet(n, c) PROVE DaemonTypeOK' /\ HookLocksKept
  <2>1. WellFormed([Idle EXCEPT !.pc = "Mint", !.c = c])
    BY DeploymentAssumption DEF WellFormed, Idle, Operation, PreparePCs
  <2> QED
    BY <1>1, <1>a, <1>b, <2>1 DEF PrepareGet
<1>2. CASE Mint(n)
  <2>1. \A t \in Tokens : WellFormed([op[n] EXCEPT !.pc = "GuestCreate", !.tok = t])
    BY <1>2, OpUpdates, DeploymentAssumption DEF Mint, At
  <2>2. DriverTypeOK'
    BY <1>2, <2>1 DEF Mint, Remote
  <2>3. ThunderTypeOK' /\ FaultsTypeOK'
    BY <1>2 DEF Mint, Remote
  <2> QED
    BY <1>2, <1>a, <2>2, <2>3 DEF Mint
<1>3. CASE GuestCreate(n)
  <2>1. DriverTypeOK' /\ FaultsTypeOK'
    BY <1>3, <1>b, DeploymentAssumption DEF GuestCreate, Remote, At
  <2>2. KubeTypeOK'
    BY <1>3 DEF GuestCreate, Remote, At, kubeVars
  <2> QED
    BY <1>3, <1>a, <2>1, <2>2 DEF GuestCreate
<1>4. CASE CreateDevice(n)
  <2>1. DriverTypeOK' /\ FaultsTypeOK'
    BY <1>4, <1>b, DeploymentAssumption DEF CreateDevice, CDICreate, At
  <2>2. PICK f \in Files : files' = [files EXCEPT ![n][op[n].c] = f]
    BY <1>4, FilesType, FileUpdates DEF CreateDevice, CDICreate, At
  <2>3. CDITypeOK' /\ HookLocksKept
    BY <1>4, <2>2, FilesType DEF CreateDevice, CDICreate, At, CDITypeOK, HookLocksKept
  <2> QED
    BY <1>4, <2>1, <2>3 DEF CreateDevice
<1>5. CASE UpsertGet(n)
  <2>1. op[n].c \in Claims /\ op[n].tok # None /\ record[op[n].c] \in Record \cup {None}
    BY <1>5, DeploymentAssumption DEF UpsertGet, At, KubeTypeOK
  <2>2. WellFormed([op[n] EXCEPT !.pc = "UpsertPut", !.seen = record[op[n].c]])
    BY <2>1, OpUpdates, DeploymentAssumption
  <2>3. DriverTypeOK' /\ FaultsTypeOK'
    BY <1>5, <1>b, <2>1, <2>2 DEF UpsertGet, At
  <2> QED
    BY <1>5, <1>a, <2>3 DEF UpsertGet
<1>6. CASE UpsertPut(n)
  <2>1. op[n].pc # "idle" /\ op[n].c \in Claims /\ op[n].tok \in Tokens /\ op[n].tok # None
    BY <1>6, DeploymentAssumption DEF UpsertPut, At
  <2>2. DriverTypeOK' /\ FaultsTypeOK'
    BY <1>6, <1>b, <2>1 DEF UpsertPut, Remote, DiesUnheard
  <2>3. ASSUME NEW r \in Record, PutRecord(op[n].c, r), UNCHANGED <<claim, secret>>
        PROVE  KubeTypeOK'
    BY <2>1, <2>3, PutType
  <2>4. op[n].seen # None => [op[n].seen EXCEPT !.token = op[n].tok, !.fin = TRUE] \in Record
    BY <2>1, RecordType
  <2>5. ASSUME CreateRecord(op[n].c, op[n].tok), UNCHANGED <<claim, secret>>
        PROVE  KubeTypeOK'
    BY <2>1, <2>5, RecordType
  <2>6. KubeTypeOK'
    BY <1>6, <2>3, <2>4, <2>5 DEF UpsertPut, Remote, DiesUnheard, kubeVars
  <2> QED
    BY <1>6, <1>a, <2>2, <2>6 DEF UpsertPut
<1>7. CASE UndoLock(n)
  BY <1>7, <1>b, CDIRemoveLockType, DeploymentAssumption DEF UndoLock, At
<1>8. CASE UndoCDI(n)
  BY <1>8, <1>b, CDIRemoveType, DeploymentAssumption DEF UndoCDI, At
<1>9. CASE UndoGuest(n)
  <2>1. DriverTypeOK' /\ FaultsTypeOK'
    BY <1>9, <1>b, DeploymentAssumption DEF UndoGuest, Remote, At
  <2>2. KubeTypeOK'
    BY <1>9 DEF UndoGuest, Remote, At, kubeVars
  <2> QED
    BY <1>9, <1>a, <2>1, <2>2 DEF UndoGuest
<1>10. CASE UndoRevoke(n)
  BY <1>10, <1>a DEF UndoRevoke, Remote, At
<1> QED
  BY <1>1, <1>2, <1>3, <1>4, <1>5, <1>6, <1>7, <1>8, <1>9, <1>10 DEF PrepareStep
LEMMA UnprepareType ==
    ASSUME TypeOK, NEW n \in Nodes, UnprepareStep(n)
    PROVE  DaemonTypeOK' /\ HookLocksKept
<1> USE OpFacts, OpType, GotoType, FaultType, ThunderType, KubeType DEF TypeOK, DaemonTypeOK
<1>a. UNCHANGED cdiVars => CDITypeOK' /\ HookLocksKept
  BY DEF cdiVars, CDITypeOK, HookLocksKept
<1>b. /\ {"Revoke", "CDILock", "CDIRemove", "GuestRemove", "DeleteGet", "DeleteDelete"}
            \subseteq OperationPCs \ {"idle", "DeleteUpdate"}
      /\ "idle" \in KubeletStates
  BY DEF OperationPCs, RevokePCs, ForgetPCs, KubeletStates
<1>1. ASSUME NEW c \in Claims, UnprepareGet(n, c) PROVE DaemonTypeOK' /\ HookLocksKept
  <2>1. record[c] # None => record[c].token \in Tokens
    BY DEF KubeTypeOK, Record
  <2>2. \A t \in Tokens :
           WellFormed([Idle EXCEPT !.pc = "StagedClientID", !.c = c, !.tok = t])
    BY DeploymentAssumption DEF WellFormed, Idle, Operation, RevokePCs
  <2>3. DriverTypeOK' /\ FaultsTypeOK'
    BY <1>1, <1>b, <2>1, <2>2 DEF UnprepareGet
  <2> QED
    BY <1>1, <1>a, <2>3 DEF UnprepareGet
<1>2. CASE ReadStagedClient(n)
  <2>1. PICK id \in Tokens \cup {None} :
            /\ StagedClientID(n, op[n].c, id)
            /\ op' = [op EXCEPT ![n] =
                         [@ EXCEPT !.cid = id,
                                   !.pc = IF id # None THEN "RevokeClient" ELSE "Revoke"]]
    BY <1>2 DEF ReadStagedClient
  <2>2. \A pc \in {"RevokeClient", "Revoke"} : WellFormed([op[n] EXCEPT !.cid = id, !.pc = pc])
    <3>1. op[n] \in Operation /\ op[n].c # None /\ op[n].tok # None
      BY <1>2, DeploymentAssumption DEF ReadStagedClient, At
    <3> QED
      BY <3>1, OpUpdates
  <2>3. DriverTypeOK'
    BY <1>2, <2>1, <2>2 DEF ReadStagedClient
  <2> QED
    BY <1>2, <1>a, <2>1, <2>3 DEF ReadStagedClient, StagedClientID
<1>3. CASE RevokeClient(n)
  BY <1>3, <1>a, <1>b, DeploymentAssumption DEF RevokeClient, Remote, At
<1>4. CASE Revoke(n)
  BY <1>4, <1>a, <1>b, DeploymentAssumption DEF Revoke, Remote, At
<1>5. CASE LockDevice(n)
  BY <1>5, <1>b, CDIRemoveLockType, DeploymentAssumption DEF LockDevice, At
<1>6. CASE RemoveDevice(n)
  BY <1>6, <1>b, CDIRemoveType, DeploymentAssumption DEF RemoveDevice, At
<1>7. CASE GuestRemove(n)
  <2>1. DriverTypeOK' /\ FaultsTypeOK'
    BY <1>7, <1>b, DeploymentAssumption DEF GuestRemove, Remote, At
  <2>2. KubeTypeOK'
    BY <1>7 DEF GuestRemove, Remote, At, kubeVars
  <2> QED
    BY <1>7, <1>a, <2>1, <2>2 DEF GuestRemove
<1>8. CASE DeleteGet(n)
  <2>1. /\ op[n].pc # "idle" /\ op[n].c \in Claims /\ op[n].tok # None
        /\ op[n].c # None /\ record[op[n].c] \in Record \cup {None}
    BY <1>8, DeploymentAssumption DEF DeleteGet, At, KubeTypeOK
  <2>2. \A pc \in {"DeleteUpdate", "DeleteDelete"} : record[op[n].c] # None =>
           WellFormed([op[n] EXCEPT !.seen = record[op[n].c], !.pc = pc])
    BY <2>1, OpUpdates
  <2>3. DriverTypeOK' /\ FaultsTypeOK'
    BY <1>8, <1>b, <2>1, <2>2 DEF DeleteGet
  <2> QED
    BY <1>8, <1>a, <2>3 DEF DeleteGet
<1>9. CASE DeleteUpdate(n)
  <2>1. /\ op[n].pc # "idle" /\ op[n].c \in Claims /\ op[n].tok # None
        /\ op[n].seen \in Record
    BY <1>9, DeploymentAssumption DEF DeleteUpdate, At
  <2>2. DriverTypeOK' /\ FaultsTypeOK'
    BY <1>9, <1>b, <2>1 DEF DeleteUpdate, Remote
  <2>3. [op[n].seen EXCEPT !.fin = FALSE] \in Record
    BY <2>1, RecordType
  <2>4. KubeTypeOK'
    BY <1>9, <2>1, <2>3, PutType DEF DeleteUpdate, Remote, kubeVars
  <2> QED
    BY <1>9, <1>a, <2>2, <2>4 DEF DeleteUpdate
<1>10. CASE DeleteDelete(n)
  <2>1. DriverTypeOK' /\ FaultsTypeOK'
    BY <1>10, <1>b DEF DeleteDelete, Remote, DiesUnheard, At
  <2>2. KubeTypeOK'
    BY <1>10, RecordType DEF DeleteDelete, Remote, DiesUnheard, At, kubeVars
  <2> QED
    BY <1>10, <1>a, <2>1, <2>2 DEF DeleteDelete
<1> QED
  BY <1>1, <1>2, <1>3, <1>4, <1>5, <1>6, <1>7, <1>8, <1>9, <1>10 DEF UnprepareStep

LEMMA DaemonCrashType ==
    ASSUME TypeOK, NEW n \in Nodes, DaemonCrash(n)
    PROVE  DaemonTypeOK' /\ HookLocksKept
<1>1. CDITypeOK' /\ HookLocksKept
  BY OpFacts, CloseType DEF TypeOK, DaemonCrash, CDITypeOK, HookLocksKept
<1> QED
  BY <1>1, OpType, FaultType, ThunderType, KubeType DEF TypeOK, DaemonTypeOK, DaemonCrash

\* A daemon's step leaves hooks and operator as they are.
LEMMA DaemonFrame ==
    ASSUME TypeOK, DaemonTypeOK', HookLocksKept, UNCHANGED <<hook, reaperVars>>
    PROVE  TypeOK'
BY DEF TypeOK, DaemonTypeOK, HookLocksKept, HookTypeOK, ReaperTypeOK, reaperVars
-------------------------------------------------------------------------------
(* Type correctness of the hooks and of the operator *)

LEMMA HookFacts ==
    ASSUME TypeOK, NEW h \in Hooks
    PROVE  /\ hook[h] \in HookProcess /\ h \in Processes
           /\ hook[h].pc # "off" => /\ hook[h].node \in Nodes /\ hook[h].claim \in Claims
                                    /\ fd[h] \in Descriptor
           /\ hook[h].pc \in {"exchange", "cache"} => hook[h].tok \in Tokens
<1>1. hook[h] \in HookProcess
  BY DEF TypeOK, HookTypeOK
<1>2. /\ hook[h].node \in Nodes \cup {None} /\ hook[h].claim \in Claims \cup {None}
      /\ hook[h].tok \in Tokens \cup {None}
  BY <1>1 DEF HookProcess
<1> QED
  BY <1>1, <1>2 DEF TypeOK, HookTypeOK, CDITypeOK, Processes

WellFormedHook(k) ==
    /\ k \in HookProcess
    /\ k.pc # "off" => k.node # None /\ k.claim # None
    /\ k.pc \in {"exchange", "cache"} => k.tok # None

LEMMA HookUpdates ==
    ASSUME NEW k \in HookProcess
    PROVE  /\ WellFormedHook(Off)
           /\ \A n \in Nodes, c \in Claims :
                 WellFormedHook([pc |-> "wait", node |-> n, claim |-> c,
                                 tok |-> None, tries |-> 0])
           /\ k.node # None /\ k.claim # None =>
                 /\ WellFormedHook([k EXCEPT !.pc = "config"])
                 /\ \A t \in Tokens : WellFormedHook([k EXCEPT !.pc = "exchange", !.tok = t])
                 /\ k.tok # None => WellFormedHook([k EXCEPT !.pc = "cache"])
                 /\ k.tok # None /\ k.tries + 1 < ExchangeAttempts =>
                       WellFormedHook([k EXCEPT !.tries = k.tries + 1])
<1> USE DeploymentAssumption, HookAssumption DEF WellFormedHook, HookProcess, HookPCs
<1>1. WellFormedHook(Off)
  BY DEF Off
<1>2. ASSUME NEW n \in Nodes, NEW c \in Claims
      PROVE  WellFormedHook([pc |-> "wait", node |-> n, claim |-> c,
                             tok |-> None, tries |-> 0])
  OBVIOUS
<1>3. ASSUME k.node # None, k.claim # None
      PROVE  /\ WellFormedHook([k EXCEPT !.pc = "config"])
             /\ \A t \in Tokens : WellFormedHook([k EXCEPT !.pc = "exchange", !.tok = t])
             /\ k.tok # None => WellFormedHook([k EXCEPT !.pc = "cache"])
  BY <1>3
<1>4. ASSUME k.node # None, k.claim # None, k.tok # None, k.tries + 1 < ExchangeAttempts
      PROVE  WellFormedHook([k EXCEPT !.tries = k.tries + 1])
  BY <1>4
<1> QED
  BY <1>1, <1>2, <1>3, <1>4
\* Updating one hook and its descriptor.
LEMMA HookType ==
    ASSUME TypeOK, NEW h \in Hooks, NEW k, WellFormedHook(k),
           hook' = [hook EXCEPT ![h] = k],
           k.pc # "off" => fd'[h] # None,
           \A g \in Hooks \ {h} : fd'[g] = fd[g]
    PROVE  HookTypeOK'
<1> USE DEF TypeOK, HookTypeOK
<1>1. hook' \in [Hooks -> HookProcess]
  BY DEF WellFormedHook
<1>2. ASSUME NEW g \in Hooks
      PROVE  /\ hook'[g].pc # "off" =>
                   hook'[g].node # None /\ hook'[g].claim # None /\ fd'[g] # None
             /\ hook'[g].pc \in {"exchange", "cache"} => hook'[g].tok # None
  BY DEF WellFormedHook
<1> QED
  BY <1>1, <1>2

LEMMA ExitType ==
    ASSUME TypeOK, NEW h \in Hooks, Exit(h)
    PROVE  HookTypeOK' /\ fd' \in [Processes -> Descriptor \cup {None}]
<1>1. /\ fd' \in [Processes -> Descriptor \cup {None}]
      /\ \A q \in Processes \ {h} : fd'[q] = fd[q]
  BY CloseType, HookFacts DEF TypeOK, Exit
<1>2. WellFormedHook(Off) /\ Off.pc = "off"
  BY HookFacts, HookUpdates DEF Off
<1> QED
  BY <1>1, <1>2, HookType DEF Exit, Processes

LEMMA StageType ==
    ASSUME TypeOK, NEW h \in Hooks, HookStep(h)
    PROVE  ThunderTypeOK' /\ CDITypeOK' /\ HookTypeOK' /\ FaultsTypeOK'
<1> USE HookFacts, FaultType, ThunderType DEF TypeOK
<1>1. CASE HookLock(h)
  <2>1. [fd[h] EXCEPT !.held = TRUE] \in Descriptor
    BY <1>1 DEF HookLock, Descriptor
  <2>2. CDITypeOK' /\ fd'[h] # None /\ \A g \in Hooks \ {h} : fd'[g] = fd[g]
    BY <1>1, <2>1, DescriptorAssumption DEF HookLock, Flock, CDITypeOK, Processes
  <2>3. WellFormedHook([hook[h] EXCEPT !.pc = "config"])
    BY <1>1, HookUpdates, DeploymentAssumption DEF HookLock
  <2>4. HookTypeOK'
    BY <1>1, <2>2, <2>3, HookType DEF HookLock
  <2> QED
    BY <1>1, <2>2, <2>4 DEF HookLock
<1>2. CASE HookConfig(h)
  <2> DEFINE f == files[hook[h].node][hook[h].claim]
  <2>1. /\ hook[h].pc # "off" /\ hook[h].node # None /\ hook[h].claim # None
        /\ f \in Files /\ fd[h] # None
    BY <1>2, FilesType, DeploymentAssumption, DescriptorAssumption DEF HookConfig
  <2>2. f.token # None => f.token \in Tokens
    BY <2>1 DEF Files
  <2>3. \A t \in Tokens : WellFormedHook([hook[h] EXCEPT !.pc = "exchange", !.tok = t])
    BY <2>1, HookUpdates
  <2>4. CASE Exit(h)
    BY <1>2, <2>4, ExitType DEF HookConfig, CDITypeOK
  <2>5. CASE /\ f.token # None /\ UNCHANGED fd
             /\ hook' = [hook EXCEPT ![h] = [@ EXCEPT !.pc = "exchange", !.tok = f.token]]
    BY <1>2, <2>1, <2>2, <2>3, <2>5, HookType DEF HookConfig, CDITypeOK
  <2> QED
    BY <1>2, <2>4, <2>5 DEF HookConfig
<1>3. CASE HookExchange(h)
  <2>1. /\ hook[h].pc # "off" /\ hook[h].node # None /\ hook[h].claim # None
        /\ hook[h].tok # None /\ fd[h] # None
    BY <1>3, DeploymentAssumption, DescriptorAssumption DEF HookExchange
  <2>2. ThunderTypeOK' /\ FaultsTypeOK'
    BY <1>3 DEF HookExchange, Remote
  <2>3. CASE Exit(h)
    BY <1>3, <2>2, <2>3, ExitType DEF HookExchange, CDITypeOK
  <2>4. CASE UNCHANGED fd /\ hook' = [hook EXCEPT ![h] = [@ EXCEPT !.pc = "cache"]]
    BY <1>3, <2>1, <2>2, <2>4, HookUpdates, HookType DEF HookExchange, CDITypeOK
  <2>5. CASE /\ UNCHANGED fd /\ hook[h].tries + 1 < ExchangeAttempts
             /\ hook' = [hook EXCEPT ![h] = [@ EXCEPT !.tries = hook[h].tries + 1]]
    <3>1. WellFormedHook([hook[h] EXCEPT !.tries = hook[h].tries + 1])
      BY <2>1, <2>5, HookUpdates
    <3>2. HookTypeOK'
      BY <2>1, <2>5, <3>1, HookType
    <3> QED
      BY <1>3, <2>2, <2>5, <3>2 DEF HookExchange, CDITypeOK
  <2> QED
    BY <1>3, <2>3, <2>4, <2>5 DEF HookExchange, Remote, Retry
<1>4. CASE HookCache(h)
  <2>1. hook[h].node \in Nodes /\ hook[h].claim \in Claims /\ hook[h].tok \in Tokens
    BY <1>4 DEF HookCache
  <2>2. files[hook[h].node][hook[h].claim].token \in Tokens \cup {None}
    BY <2>1, FilesType DEF Files
  <2>3. files' \in [Nodes -> [Claims -> Files]]
    <3>1. UNCHANGED files \/ \E f \in Files :
              files' = [files EXCEPT ![hook[h].node][hook[h].claim] = f]
      BY <1>4, <2>1, <2>2, FilesType, FileUpdates DEF HookCache
    <3>2. CASE UNCHANGED files
      BY <3>2 DEF CDITypeOK
    <3>3. ASSUME NEW f \in Files,
                 files' = [files EXCEPT ![hook[h].node][hook[h].claim] = f]
          PROVE  files' \in [Nodes -> [Claims -> Files]]
      BY <2>1, <3>3, FilesType
    <3> QED
      BY <3>1, <3>2, <3>3
  <2> QED
    BY <1>4, <2>3, ExitType DEF HookCache, CDITypeOK
<1> QED
  BY <1>1, <1>2, <1>3, <1>4 DEF HookStep

LEMMA StartContainerType ==
    ASSUME TypeOK, NEW h \in Hooks, NEW n \in Nodes, NEW c \in Claims, HookStart(h, n, c)
    PROVE  ThunderTypeOK' /\ CDITypeOK' /\ HookTypeOK' /\ FaultsTypeOK'
<1>1. CDITypeOK' /\ fd'[h] # None /\ \A g \in Hooks \ {h} : fd'[g] = fd[g]
  BY OpenLockType, HookFacts DEF HookStart, TypeOK, Processes
<1>2. WellFormedHook([pc |-> "wait", node |-> n, claim |-> c, tok |-> None, tries |-> 0])
  BY HookFacts, HookUpdates
<1>3. HookTypeOK'
  BY <1>1, <1>2, HookType DEF HookStart
<1> QED
  BY <1>1, <1>3, ThunderType, FaultType DEF HookStart, TypeOK

LEMMA HookCrashType ==
    ASSUME TypeOK, NEW h \in Hooks, HookCrash(h)
    PROVE  ThunderTypeOK' /\ CDITypeOK' /\ HookTypeOK' /\ FaultsTypeOK'
BY ExitType, ThunderType, FaultType DEF HookCrash, TypeOK, CDITypeOK

\* A pass well-formed enough for the rest of ReaperTypeOK.
WellFormedPass(p) ==
    /\ p \in Pass
    /\ \A c \in p.todo : p.items[c] # None
    /\ p.pc \in {"Unenroll", "Update", "Delete"} => p.cur # None /\ p.items[p.cur] # None

LEMMA PassUpdates ==
    ASSUME NEW p \in Pass, WellFormedPass(p), NEW c \in p.todo
    PROVE  /\ p.pc = "scan" => WellFormedPass([p EXCEPT !.todo = @ \ {c}])
           /\ WellFormedPass([p EXCEPT !.pc = "Unenroll", !.todo = @ \ {c}, !.cur = c])
BY DeploymentAssumption DEF WellFormedPass, Pass, PassPCs

LEMMA ReapUpdates ==
    ASSUME NEW p \in Pass, WellFormedPass(p), p.pc \in {"Unenroll", "Update", "Delete"}
    PROVE  /\ \A pc \in {"Update", "Delete"} : WellFormedPass([p EXCEPT !.pc = pc])
           /\ WellFormedPass([p EXCEPT !.pc = "scan", !.cur = None])
           /\ p.cur \in Claims /\ p.items[p.cur] \in Record
BY DEF WellFormedPass, Pass, PassPCs

LEMMA PassInit == WellFormedPass(NoPass)
BY DEF WellFormedPass, NoPass, Pass, PassPCs

LEMMA ReaperType ==
    ASSUME TypeOK, ReaperStep
    PROVE  ThunderTypeOK' /\ KubeTypeOK' /\ ReaperTypeOK' /\ FaultsTypeOK'
<1> USE FaultType, ThunderType, KubeType DEF TypeOK
<1>a. pass \in Pass /\ WellFormedPass(pass)
  BY DEF ReaperTypeOK, WellFormedPass
<1>b. ASSUME WellFormedPass(pass'), orphans' \in [Claims -> OrphanAges]
      PROVE  ReaperTypeOK'
  BY <1>b DEF ReaperTypeOK, WellFormedPass
<1>c. UNCHANGED orphans => orphans' \in [Claims -> OrphanAges]
  BY DEF ReaperTypeOK
<1>d. ASSUME NEW c, NEW a \in OrphanAges, orphans' = [orphans EXCEPT ![c] = a]
      PROVE  orphans' \in [Claims -> OrphanAges]
  BY <1>d DEF ReaperTypeOK
<1>e. EndPass => WellFormedPass(pass')
  BY PassInit DEF EndPass
<1>f. {"unseen", "young", "old"} = OrphanAges
  BY DEF OrphanAges
<1>1. CASE ListClients
  <2>1. WellFormedPass(pass')
    BY <1>1 DEF ListClients, KubeTypeOK, WellFormedPass, Pass, PassPCs
  <2> QED
    BY <1>1, <1>b, <1>c, <2>1 DEF ListClients
<1>2. CASE FinishPass
  <2>1. orphans' \in [Claims -> OrphanAges]
    BY <1>2, <1>f DEF FinishPass, ReaperTypeOK
  <2> QED
    BY <1>2, <1>b, <1>e, <2>1 DEF FinishPass
<1>3. ASSUME NEW c \in Claims, Examine(c)
      PROVE  ThunderTypeOK' /\ KubeTypeOK' /\ ReaperTypeOK' /\ FaultsTypeOK'
  <2>1. /\ WellFormedPass([pass EXCEPT !.todo = @ \ {c}])
        /\ WellFormedPass([pass EXCEPT !.pc = "Unenroll", !.todo = @ \ {c}, !.cur = c])
    BY <1>3, <1>a, PassUpdates DEF Examine
  <2>2. WellFormedPass(pass') /\ orphans' \in [Claims -> OrphanAges] /\ FaultsTypeOK'
    BY <1>3, <1>c, <1>d, <1>e, <1>f, <2>1 DEF Examine
  <2> QED
    BY <1>3, <1>b, <2>2 DEF Examine
<1>4. CASE ReapUnenroll
  <2>1. \A pc \in {"Update", "Delete"} : WellFormedPass([pass EXCEPT !.pc = pc])
    BY <1>4, <1>a, ReapUpdates DEF ReapUnenroll
  <2>2. WellFormedPass(pass') /\ ThunderTypeOK' /\ FaultsTypeOK'
    BY <1>4, <1>e, <2>1 DEF ReapUnenroll, Remote
  <2> QED
    BY <1>4, <1>b, <1>c, <2>2 DEF ReapUnenroll
<1>5. CASE ReapUpdate
  <2>1. /\ WellFormedPass([pass EXCEPT !.pc = "Delete"])
        /\ pass.cur \in Claims /\ pass.items[pass.cur] \in Record
    BY <1>5, <1>a, ReapUpdates DEF ReapUpdate
  <2>2. WellFormedPass(pass') /\ FaultsTypeOK'
    BY <1>5, <1>e, <2>1 DEF ReapUpdate, Remote
  <2>3. [pass.items[pass.cur] EXCEPT !.fin = FALSE] \in Record
    BY <2>1, RecordType
  <2>4. KubeTypeOK'
    BY <1>5, <2>1, <2>3, PutType DEF ReapUpdate, Remote, kubeVars
  <2> QED
    BY <1>5, <1>b, <1>c, <2>2, <2>4 DEF ReapUpdate
<1>6. CASE ReapDelete
  <2>1. WellFormedPass([pass EXCEPT !.pc = "scan", !.cur = None]) /\ pass.cur \in Claims
    BY <1>6, <1>a, ReapUpdates DEF ReapDelete
  <2>2. WellFormedPass(pass') /\ FaultsTypeOK'
    BY <1>6, <1>e, <2>1 DEF ReapDelete, Remote
  <2>3. orphans' \in [Claims -> OrphanAges]
    BY <1>6, <1>c, <1>d, <1>f DEF ReapDelete, Remote
  <2>4. KubeTypeOK'
    BY <1>6, <2>1, RecordType DEF ReapDelete, Remote, kubeVars
  <2> QED
    BY <1>6, <1>b, <2>2, <2>3, <2>4 DEF ReapDelete
<1> QED
  BY <1>1, <1>2, <1>3, <1>4, <1>5, <1>6 DEF ReaperStep

-------------------------------------------------------------------------------
(* Type correctness of the composition *)

LEMMA TypeInit == Init => TypeOK
<1> SUFFICES ASSUME Init PROVE TypeOK
  OBVIOUS
<1>1. ThunderTypeOK /\ FaultsTypeOK
  BY FaultAssumption DEF Init, ThunderInit, ThunderTypeOK, TokenStates, ClientStates, FaultsTypeOK
<1>2. KubeTypeOK
  BY DEF Init, KubeInit, KubeTypeOK
<1>3. CDITypeOK
  <2>1. NoFiles \in Files
    BY DEF NoFiles, Files
  <2> QED
    BY <2>1 DEF Init, CDIInit, CDITypeOK
<1>4. DriverTypeOK
  <2>1. Idle \in Operation /\ Idle.pc = "idle"
    BY DEF Idle, Operation
  <2> QED
    BY <2>1 DEF Init, DriverInit, DriverTypeOK, KubeletStates
<1>5. HookTypeOK
  <2>1. Off \in HookProcess /\ Off.pc = "off"
    BY HookAssumption DEF Off, HookProcess, HookPCs
  <2> QED
    BY <2>1 DEF Init, HookInit, HookTypeOK
<1>6. ReaperTypeOK
  BY PassInit DEF Init, ReaperInit, ReaperTypeOK, WellFormedPass, OrphanAges
<1> QED
  BY <1>1, <1>2, <1>3, <1>4, <1>5, <1>6 DEF TypeOK

\* The parts of TypeOK depend only on their own variables, except that the
\* hooks' also speaks of the lock files.
LEMMA TypeFrame ==
    ASSUME TypeOK
    PROVE  /\ UNCHANGED thunderVars => ThunderTypeOK'
           /\ UNCHANGED kubeVars => KubeTypeOK'
           /\ UNCHANGED cdiVars => CDITypeOK'
           /\ UNCHANGED driverVars => DriverTypeOK'
           /\ UNCHANGED <<cdiVars, hook>> => HookTypeOK'
           /\ UNCHANGED reaperVars => ReaperTypeOK'
           /\ UNCHANGED faults => FaultsTypeOK'
BY DEF TypeOK, ThunderTypeOK, thunderVars, KubeTypeOK, kubeVars, CDITypeOK, cdiVars,
       DriverTypeOK, driverVars, HookTypeOK, ReaperTypeOK, reaperVars, FaultsTypeOK

LEMMA EnvironmentType ==
    ASSUME TypeOK, Environment
    PROVE  TypeOK'
<1> USE TypeFrame
<1>1. ASSUME NEW c \in Claims, CreateClaim(c) \/ DeleteClaim(c) PROVE TypeOK'
  <2>1. KubeTypeOK'
    BY <1>1 DEF CreateClaim, DeleteClaim, AllExceptClaim, KubeTypeOK, TypeOK
  <2> QED
    BY <1>1, <2>1 DEF CreateClaim, DeleteClaim, AllExceptClaim, TypeOK
<1>2. ASSUME NEW c \in Claims, DeleteResource(c) PROVE TypeOK'
  <2>1. KubeTypeOK'
    BY <1>2, RecordType, KubeType DEF DeleteResource, TypeOK
  <2> QED
    BY <1>2, <2>1 DEF DeleteResource, TypeOK
<1>3. ASSUME NEW n \in Nodes, NEW c \in Claims, StartPod(n, c) \/ StopPod(n, c)
      PROVE  TypeOK'
  <2>1. PICK s \in KubeletStates : kub' = [kub EXCEPT ![n][c] = s] /\ UNCHANGED <<op, up>>
    BY <1>3 DEF StartPod, StopPod, Kubelet, KubeletStates
  <2>2. DriverTypeOK'
    BY <2>1 DEF DriverTypeOK, TypeOK
  <2> QED
    BY <1>3, <2>2 DEF StartPod, StopPod, Kubelet, TypeOK
<1>4. ASSUME NEW n \in Nodes, NEW c \in Claims, GuestEnrolls(n, c) PROVE TypeOK'
  BY <1>4, ThunderType DEF GuestEnrolls, TypeOK
<1>5. ASSUME NEW h \in Hooks, NEW n \in Nodes, NEW c \in Claims, StartContainer(h, n, c)
      PROVE  TypeOK'
  BY <1>5, StartContainerType DEF StartContainer, TypeOK
<1> QED
  BY <1>1, <1>2, <1>3, <1>4, <1>5 DEF Environment

LEMMA CrashType ==
    ASSUME TypeOK, Crash
    PROVE  TypeOK'
<1> USE TypeFrame
<1>1. ASSUME NEW n \in Nodes, DaemonCrash(n), UNCHANGED <<hook, reaperVars>> PROVE TypeOK'
  BY <1>1, DaemonCrashType, DaemonFrame
<1>2. ASSUME NEW h \in Hooks, HookCrash(h), UNCHANGED <<kubeVars, driverVars, reaperVars>>
      PROVE  TypeOK'
  BY <1>2, HookCrashType DEF TypeOK
<1>3. ASSUME OperatorCrash, UNCHANGED <<cdiVars, driverVars, hook>> PROVE TypeOK'
  <2>1. ReaperTypeOK'
    BY <1>3, PassInit DEF OperatorCrash, EndPass, ReaperTypeOK, WellFormedPass, OrphanAges
  <2> QED
    BY <1>3, <2>1, FaultType DEF OperatorCrash, TypeOK
<1>4. ASSUME NEW n \in Nodes, NodeLoss(n) PROVE TypeOK'
  <2>1. DriverTypeOK'
    BY <1>4 DEF NodeLoss, DriverTypeOK, TypeOK
  <2> QED
    BY <1>4, <2>1, FaultType DEF NodeLoss, TypeOK
<1> QED
  BY <1>1, <1>2, <1>3, <1>4 DEF Crash

LEMMA TypeNext ==
    ASSUME TypeOK, [Next]_vars
    PROVE  TypeOK'
<1>1. ASSUME NEW n \in Nodes, DaemonStep(n) PROVE TypeOK'
  BY <1>1, PrepareType, UnprepareType, DaemonFrame DEF DaemonStep, DriverStep
<1>2. ASSUME NEW h \in Hooks, StageStep(h) PROVE TypeOK'
  BY <1>2, StageType, TypeFrame DEF StageStep, TypeOK
<1>3. CASE OperatorStep
  BY <1>3, ReaperType, TypeFrame DEF OperatorStep, TypeOK
<1>4. ASSUME NEW c \in Claims, Grace(c) PROVE TypeOK'
  <2>1. ReaperTypeOK'
    BY <1>4 DEF Grace, GraceElapses, ReaperTypeOK, OrphanAges, TypeOK
  <2> QED
    BY <1>4, <2>1, TypeFrame DEF Grace, GraceElapses, TypeOK
<1>5. CASE UNCHANGED vars
  BY <1>5, TypeFrame DEF vars, TypeOK
<1> QED
  BY <1>1, <1>2, <1>3, <1>4, <1>5, EnvironmentType, CrashType DEF Next

\* Type correctness: however prepares, unprepares, container starts, reaps,
\* faults and crashes interleave, every component keeps what its next step
\* needs, for every deployment and every number of faults.
THEOREM TypeCorrect == Spec => []TypeOK
<1>1. Init => TypeOK
  BY TypeInit
<1>2. TypeOK /\ [Next]_vars => TypeOK'
  BY TypeNext
<1> QED
  BY <1>1, <1>2, PTL DEF Spec
===============================================================================
