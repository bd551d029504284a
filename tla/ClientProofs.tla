----------------------------- MODULE ClientProofs -----------------------------
(***************************************************************************)
(* What becomes of a claim's token and of the client it is exchanged for,  *)
(* for claims that have one home: the layers of the inductive invariant    *)
(* above the stage lock, each with the property it is there for.  Every    *)
(* layer looks at the same nine kinds of step.                             *)
(***************************************************************************)
EXTENDS StagingProofs

-------------------------------------------------------------------------------
(* The steps of everyone but daemons and hooks, in rows *)

SameOps == \A n \in Nodes : op'[n] = op[n]
SameFds == \A h \in Hooks : fd'[h] = fd[h]
AllKept == \A c \in Claims : Kept(c)
OthersKept(c) == \A d \in Claims \ {c} : Kept(d)

Reaping == {"Unenroll", "Update", "Delete"}

\* The operator goes through its list.
PassRow ==
    \/ pass' = NoPass
    \/ pass'.items = record /\ pass'.pc = "scan" /\ AllKept /\ SameThunder
    \/ /\ pass'.items = pass.items
       /\ \/ pass'.pc = "scan"
          \/ pass.pc = "scan" /\ pass'.pc = "Unenroll" /\ claim[pass'.cur] = "gone"
          \/ pass.pc \in Reaping /\ pass'.pc \in Reaping /\ pass'.cur = pass.cur

ReapRow ==
    /\ UNCHANGED <<op, kub, claim, secret, files, hook>> /\ SameFds
    /\ PassRow
    /\ \/ SameThunder /\ AllKept
       \/ /\ pass.pc = "Unenroll" /\ AllKept
          /\ pass.items[pass.cur].token \in Tokens /\ Revokes(pass.items[pass.cur].token)
       \/ /\ pass.pc \in {"Update", "Delete"} /\ pass.cur \in Claims /\ SameThunder
          /\ Released(pass.cur) \/ Deleted(pass.cur)
          /\ OthersKept(pass.cur)

\* A user deletes the resource of claim c.
UserRow(c) ==
    /\ UNCHANGED <<op, kub, claim, secret, files, hook, pass>> /\ SameFds /\ SameThunder
    /\ Deleted(c) /\ OthersKept(c)

\* A claim comes or goes.
ClaimRow(c) ==
    /\ UNCHANGED <<op, kub, secret, files, hook, pass>> /\ SameFds /\ SameThunder /\ AllKept
    /\ \A d \in Claims \ {c} : claim'[d] = claim[d]
    /\ claim'[c] = "gone" \/ (claim[c] = "pending" /\ claim'[c] = "allocated")

\* A pod comes or goes.
PodRow(n, c) ==
    /\ UNCHANGED <<op, claim, secret, files, hook, pass>> /\ SameFds /\ SameThunder /\ AllKept
    /\ \A m \in Nodes, d \in Claims : m # n \/ d # c => SameKub(m, d)
    /\ \/ /\ n \in Homes[c] /\ claim[c] = "allocated"
          /\ kub[n][c] = "idle" /\ kub'[n][c] = "preparing"
       \/ /\ kub[n][c] \in {"preparing", "prepared"} /\ kub'[n][c] = "unpreparing"
          /\ op[n].c # c /\ (HookOverlap \/ Staging(n, c) = {})

\* A guest spends the token it finds.
GuestRow(n, c) ==
    /\ UNCHANGED <<op, kub, claim, secret, files, hook, pass>> /\ SameFds /\ AllKept
    /\ kub[n][c] = "prepared" /\ c \in VMClaims
    /\ secret[NameOf[c]] \in Tokens /\ Spends(secret[NameOf[c]])

\* Nothing happens but that operations or a pass are given up.
QuietRow ==
    /\ UNCHANGED <<kub, claim, secret, files, hook>> /\ SameFds /\ SameThunder /\ AllKept
    /\ \A n \in Nodes : op'[n] = op[n] \/ op'[n] = Idle
    /\ pass' = pass \/ pass' = NoPass

DaemonCase(n, c) == DaemonRow(n, c) /\ UNCHANGED <<hook, pass>>

HookCase(h) ==
    /\ UNCHANGED <<op, kub, claim, secret, pass>> /\ AllKept
    /\ StageRow(h)

StartCase(h, n, c) ==
    /\ UNCHANGED <<op, kub, claim, secret, pass>> /\ AllKept
    /\ StartRow(h, n, c)

LifeStep ==
    \/ \E n \in Nodes, c \in Claims : DaemonCase(n, c) \/ PodRow(n, c) \/ GuestRow(n, c)
    \/ \E h \in Hooks : HookCase(h)
    \/ \E h \in Hooks, n \in Nodes, c \in Claims : StartCase(h, n, c)
    \/ \E c \in Claims : UserRow(c) \/ ClaimRow(c)
    \/ ReapRow \/ QuietRow

LEMMA Frames ==
    /\ UNCHANGED <<record, revision>> => AllKept
    /\ UNCHANGED thunderVars => SameThunder
    /\ UNCHANGED cdiVars => SameFds /\ UNCHANGED files
    /\ UNCHANGED driverVars => UNCHANGED <<op, kub>> /\ SameOps
    /\ UNCHANGED kubeVars => UNCHANGED <<claim, secret>> /\ AllKept
    /\ UNCHANGED reaperVars => UNCHANGED pass
BY DEF AllKept, Kept, SameThunder, thunderVars, cdiVars, SameFds, driverVars, SameOps, kubeVars,
       reaperVars

LEMMA ReapRows ==
    ASSUME TypeOK, RecordInv, OperatorStep
    PROVE  ReapRow
<1> USE Frames, PassFacts DEF Reaping
<1>a. /\ UNCHANGED <<op, kub, files, hook>> /\ SameFds /\ ReaperStep
      /\ pass \in Pass /\ ReleasedOnlyRevoked /\ ReapOK
      /\ \A c \in Claims : ItemOK(c)
  BY RecordInvParts DEF OperatorStep, TypeOK, ReaperTypeOK, RecordInv
<1>1. CASE ListClients
  <2>1. pass'.items = record /\ pass'.pc = "scan"
    BY <1>1 DEF ListClients
  <2>2. UNCHANGED <<claim, secret>> /\ SameThunder /\ AllKept
    BY <1>1 DEF ListClients
  <2> QED
    BY <1>a, <2>1, <2>2 DEF ReapRow, PassRow
<1>2. CASE FinishPass
  BY <1>2, <1>a DEF FinishPass, EndPass, ReapRow, PassRow
<1>3. ASSUME NEW c \in Claims, Examine(c) PROVE ReapRow
  <2>1. UNCHANGED <<claim, secret>> /\ SameThunder /\ AllKept /\ pass.pc = "scan"
    BY <1>3 DEF Examine
  <2>2. \/ pass' = NoPass
        \/ pass' = [pass EXCEPT !.todo = @ \ {c}]
        \/ /\ claim[c] = "gone"
           /\ pass' = [pass EXCEPT !.pc = "Unenroll", !.todo = @ \ {c}, !.cur = c]
    BY <1>3 DEF Examine, EndPass, claimIsAlive
  <2>3. PassRow
    <3>1. CASE pass' = [pass EXCEPT !.todo = @ \ {c}]
      BY ONLY <1>a, <2>1, <3>1 DEF Pass, PassRow
    <3>2. CASE /\ claim[c] = "gone"
               /\ pass' = [pass EXCEPT !.pc = "Unenroll", !.todo = @ \ {c}, !.cur = c]
      <4>1. pass'.items = pass.items /\ pass'.pc = "Unenroll" /\ pass'.cur = c
        BY ONLY <1>a, <3>2 DEF Pass
      <4> QED
        BY ONLY <2>1, <3>2, <4>1 DEF PassRow
    <3> QED
      BY <2>2, <3>1, <3>2 DEF PassRow
  <2> QED
    BY <1>a, <2>1, <2>3 DEF ReapRow
<1>b. ASSUME NEW pc \in {"Update", "Delete"}, pass.pc \in Reaping,
             pass' = [pass EXCEPT !.pc = pc]
      PROVE  PassRow
  <2>1. pass'.pc = pc /\ pass'.items = pass.items /\ pass'.cur = pass.cur
    BY <1>b DEF PassPCs
  <2> QED
    BY <1>b, <2>1 DEF PassRow
<1>c. pass' = NoPass => PassRow
  BY DEF PassRow
<1>4. CASE ReapUnenroll
  <2> DEFINE item == pass.items[pass.cur]
  <2>1. pass.pc = "Unenroll" /\ item.token \in Tokens /\ UNCHANGED <<claim, secret>> /\ AllKept
    BY <1>4 DEF ReapUnenroll
  <2>2. SameThunder \/ Revokes(item.token)
    BY <1>4, <2>1 DEF ReapUnenroll, Remote, UnenrollClient, Revokes, TypeOK, ThunderTypeOK
  <2>3. PassRow
    <3>1. \/ pass' = NoPass
          \/ pass' = [pass EXCEPT !.pc = IF item.fin THEN "Update" ELSE "Delete"]
      BY <1>4 DEF ReapUnenroll, Remote, EndPass
    <3>2. (IF item.fin THEN "Update" ELSE "Delete") \in {"Update", "Delete"}
      OBVIOUS
    <3> QED
      BY <1>b, <1>c, <2>1, <3>1, <3>2
  <2> QED
    BY <1>a, <2>1, <2>2, <2>3 DEF ReapRow
<1>5. CASE ReapUpdate
  <2> DEFINE c == pass.cur
             item == pass.items[c]
  <2>1. /\ pass.pc = "Update" /\ c \in Claims /\ item \in Record /\ UNCHANGED <<claim, secret>>
        /\ SameThunder
    BY <1>5 DEF ReapUpdate
  <2>2. AllKept \/ (Released(c) /\ OthersKept(c))
    <3>1. ASSUME Fresh(c, item), PutRecord(c, [item EXCEPT !.fin = FALSE])
          PROVE  Released(c) /\ OthersKept(c)
      <4>1. item.token = record[c].token /\ token[item.token] = "revoked"
        BY <1>a, <2>1, <3>1, RecordAssumption DEF ItemOK, ReapOK
      <4> HIDE DEF item
      <4> QED
        BY <2>1, <3>1, <4>1, ReleaseStores DEF OthersKept
    <3> QED
      BY <1>5, <3>1 DEF ReapUpdate, Remote
  <2>3. PassRow
    BY <1>5, <1>b, <1>c, <2>1 DEF ReapUpdate, Remote, EndPass
  <2> QED
    BY <1>a, <2>1, <2>2, <2>3 DEF ReapRow
<1>6. CASE ReapDelete
  <2>1. pass.pc = "Delete" /\ pass.cur \in Claims /\ UNCHANGED <<claim, secret>> /\ SameThunder
    BY <1>6 DEF ReapDelete
  <2>2. AllKept \/ (Deleted(pass.cur) /\ OthersKept(pass.cur))
    BY <1>6, <1>a, <2>1, DeleteStores, DeleteKeeps DEF ReapDelete, Remote, OthersKept
  <2>3. PassRow
    <3>1. CASE pass' = [pass EXCEPT !.pc = "scan", !.cur = None]
      BY ONLY <1>a, <3>1 DEF Pass, PassRow
    <3> QED
      BY <1>6, <1>c, <3>1 DEF ReapDelete, Remote, EndPass
  <2> QED
    BY <1>a, <2>1, <2>2, <2>3 DEF ReapRow
<1> QED
  BY <1>a, <1>1, <1>2, <1>3, <1>4, <1>5, <1>6 DEF ReaperStep

LEMMA EnvironmentRows ==
    ASSUME TypeOK, RecordInv, Environment
    PROVE  LifeStep
<1> USE Frames DEF LifeStep
<1>1. ASSUME NEW c \in Claims, CreateClaim(c) \/ DeleteClaim(c) PROVE ClaimRow(c)
  BY <1>1 DEF CreateClaim, DeleteClaim, AllExceptClaim, ClaimRow, TypeOK, KubeTypeOK
<1>2. ASSUME NEW c \in Claims, DeleteResource(c) PROVE UserRow(c)
  <2>1. ReleasedOnlyRevoked /\ DeleteRecord(c)
    BY <1>2 DEF RecordInv, DeleteResource
  <2> QED
    BY <1>2, <2>1, DeleteStores, DeleteKeeps DEF DeleteResource, UserRow, OthersKept
<1>3. ASSUME NEW n \in Nodes, NEW c \in Claims, StartPod(n, c) \/ StopPod(n, c)
      PROVE  PodRow(n, c)
  <2>1. /\ UNCHANGED <<op, claim, secret, files, hook, pass>> /\ SameFds /\ SameThunder /\ AllKept
    BY <1>3 DEF StartPod, StopPod, Kubelet
  <2>2. /\ \A m \in Nodes, d \in Claims : m # n \/ d # c => SameKub(m, d)
        /\ \/ /\ n \in Homes[c] /\ claim[c] = "allocated"
              /\ kub[n][c] = "idle" /\ kub'[n][c] = "preparing"
           \/ /\ kub[n][c] \in {"preparing", "prepared"} /\ kub'[n][c] = "unpreparing"
              /\ op[n].c # c /\ (HookOverlap \/ Staging(n, c) = {})
    BY <1>3 DEF StartPod, StopPod, Kubelet, SameKub, TypeOK, DriverTypeOK
  <2> QED
    BY <2>1, <2>2 DEF PodRow
<1>4. ASSUME NEW n \in Nodes, NEW c \in Claims, GuestEnrolls(n, c) PROVE GuestRow(n, c)
  <2>1. secret[NameOf[c]] \in Tokens
    BY <1>4 DEF GuestEnrolls, TypeOK, KubeTypeOK, Names
  <2>2. Spends(secret[NameOf[c]])
    BY <1>4, <2>1 DEF GuestEnrolls, ExchangeToken, Spends, TypeOK, ThunderTypeOK
  <2> QED
    BY <1>4, <2>1, <2>2 DEF GuestEnrolls, GuestRow
<1>5. ASSUME NEW h \in Hooks, NEW n \in Nodes, NEW c \in Claims, StartContainer(h, n, c)
      PROVE  StartCase(h, n, c)
  BY <1>5, StartRows DEF StartContainer, StartCase
<1> QED
  BY <1>1, <1>2, <1>3, <1>4, <1>5 DEF Environment

LEMMA LifeSteps ==
    ASSUME TypeOK, RecordInv, [Next]_vars
    PROVE  LifeStep
<1> USE Frames DEF LifeStep
<1>1. ASSUME NEW n \in Nodes, DaemonStep(n) PROVE \E c \in Claims : DaemonCase(n, c)
  BY <1>1, DaemonRows DEF DaemonStep, DaemonCase
<1>2. ASSUME NEW h \in Hooks, StageStep(h) PROVE HookCase(h)
  BY <1>2, StageRows DEF StageStep, HookCase
<1>3. CASE OperatorStep
  BY <1>3, ReapRows
<1>4. ASSUME NEW c \in Claims, Grace(c) PROVE QuietRow
  BY <1>4 DEF Grace, GraceElapses, QuietRow
<1>5. CASE UNCHANGED vars
  BY <1>5 DEF vars, QuietRow
<1>6. CASE Crash
  <2>1. ASSUME NEW n \in Nodes, DaemonCrash(n), UNCHANGED <<hook, reaperVars>> PROVE QuietRow
    <3>1. \A m \in Nodes : op'[m] = op[m] \/ op'[m] = Idle
      BY <2>1, OpEffects DEF DaemonCrash, OthersStay
    <3>2. SameFds
      BY <2>1, DaemonCrashType DEF HookLocksKept, SameFds
    <3> QED
      BY <2>1, <3>1, <3>2 DEF DaemonCrash, Fail, QuietRow
  <2>2. ASSUME NEW h \in Hooks, HookCrash(h), UNCHANGED <<kubeVars, driverVars, reaperVars>>
        PROVE  HookCase(h)
    BY <2>2, CrashRow DEF HookCase
  <2>3. ASSUME OperatorCrash, UNCHANGED <<cdiVars, driverVars, hook>> PROVE QuietRow
    BY <2>3 DEF OperatorCrash, EndPass, QuietRow, SameOps
  <2>4. ASSUME NEW n \in Nodes, NodeLoss(n) PROVE QuietRow
    BY <2>4 DEF NodeLoss, QuietRow
  <2> QED
    BY <1>6, <2>1, <2>2, <2>3, <2>4 DEF Crash
<1> QED
  BY <1>1, <1>2, <1>3, <1>4, <1>5, <1>6, EnvironmentRows DEF Next

-------------------------------------------------------------------------------
(* 2. Records and claims *)

\* Whoever works on a claim, or wants something of it, is its only home.
LEMMA Home ==
    ASSUME TypeOK, SingleHome, RecordInv, NEW n \in Nodes, NEW c \in Claims,
           (op[n].pc # "idle" /\ op[n].c = c) \/ kub[n][c] # "idle"
    PROVE  /\ Homes[c] = {n}
           /\ \A m \in Nodes \ {n} : /\ kub[m][c] = "idle"
                                     /\ op[m].pc # "idle" => op[m].c # c
<1>1. \A m \in Nodes : NodeOK(m)
  BY RecordInvParts
<1>2. n \in Homes[c] /\ Homes[c] \subseteq Nodes
  BY <1>1, LifecycleAssumption DEF NodeOK
<1> QED
  BY <1>1, <1>2 DEF NodeOK, SingleHome

\* What a step of the daemon does to the record of its claim.
RecordView(n, c) ==
    \/ Kept(c) /\ kub' = kub
    \/ /\ Kept(c) /\ record[c] # None
       /\ kub[n][c] = "preparing" /\ kub'[n][c] = "prepared"
    \/ /\ Kept(c) /\ record[c] = None
       /\ kub[n][c] # "idle" /\ kub'[n][c] = "idle"
    \/ /\ op[n].pc = "UpsertPut" /\ Created(c, op[n].tok)
       /\ kub' = kub \/ kub'[n][c] = "prepared"
    \/ op[n].pc = "DeleteUpdate" /\ Released(c) /\ kub' = kub
    \/ /\ op[n].pc = "DeleteDelete" /\ Deleted(c)
       /\ kub' = kub \/ kub'[n][c] = "idle"

LEMMA RecordViews ==
    ASSUME TypeOK, CallInv, NEW n \in Nodes, NEW c \in Claims, DaemonRow(n, c)
    PROVE  /\ RecordView(n, c)
           /\ op'[n].pc = "DeleteDelete" =>
                 /\ op'[n].c = c
                 /\ \/ Kept(c) /\ (record[c] # None => ~record[c].fin)
                    \/ Released(c)
<1> USE DEF Idle, GivesUp, Moves, Ends
<1>1. op[n].pc \in Unpreparing => kub[n][op[n].c] = "unpreparing"
  BY DEF CallInv, CallMatches, Unpreparing
<1>2. CASE GetRow(n, c)
  BY <1>2 DEF GetRow, RecordView
<1>a. op[n].pc # "idle" => c = op[n].c
  BY DEF DaemonRow
<1>3. CASE ThunderRow(n, c)
  BY <1>3, <1>a DEF ThunderRow, RecordView
<1>4. CASE SecretRow(n, c)
  BY <1>4, <1>a DEF SecretRow, RecordView
<1>5. CASE DiskRow(n, c)
  BY <1>5, <1>a DEF DiskRow, RecordView
<1>6. CASE ReadRow(n, c)
  BY <1>6, <1>1, <1>a, PCs DEF ReadRow, RecordView
<1>7. CASE WriteRow(n, c)
  BY <1>7, <1>a DEF WriteRow, RecordView
<1> QED
  BY <1>2, <1>3, <1>4, <1>5, <1>6, <1>7 DEF DaemonRow

LEMMA SameStands ==
    ASSUME NEW c \in Claims, RecordStands(c), Kept(c), \A n \in Nodes : SameKub(n, c),
           claim'[c] # "gone" => claim[c] # "gone"
    PROVE  RecordStands(c)'
<1>1. Homes[c] \subseteq Nodes
  BY LifecycleAssumption
<1> QED
  BY <1>1 DEF RecordStands, Kept, SameKub

LEMMA DaemonStands ==
    ASSUME SingleHome, TypeOK, RecordInv, CallInv, RecordStandsInv,
           NEW n \in Nodes, NEW c \in Claims, DaemonCase(n, c)
    PROVE  RecordStandsInv'
<1>1. /\ Touches(n, c) /\ DaemonRow(n, c) /\ UNCHANGED <<hook, pass, claim>>
      /\ op[n].pc # "idle" => c = op[n].c
  BY DEF DaemonCase, DaemonRow, Touches
<1>2. ASSUME NEW d \in Claims \ {c} PROVE RecordStands(d)'
  BY <1>1, <1>2, SameStands DEF Touches, SameKub, RecordStandsInv
<1>3. ASSUME ~(Kept(c) /\ kub' = kub)
      PROVE  Homes[c] = {n} /\ \A m \in Nodes \ {n} : kub[m][c] = "idle"
  BY <1>1, <1>3, RecordViews, Home DEF RecordView
<1>4. RecordStands(c)'
  <2>1. CASE Kept(c) /\ kub' = kub
    BY <1>1, <2>1, SameStands DEF RecordStandsInv, SameKub
  <2>2. CASE ~(Kept(c) /\ kub' = kub)
    <3>1. /\ Homes[c] = {n} /\ RecordStands(c) /\ claim'[c] = claim[c]
          /\ \A m \in Nodes \ {n} : kub'[m][c] = "idle"
      BY <1>1, <1>3, <2>2 DEF RecordStandsInv, Touches
    <3>2. /\ op[n].pc = "UpsertPut" => kub[n][c] = "preparing"
          /\ op[n].pc \in {"DeleteUpdate", "DeleteDelete"} => kub[n][c] = "unpreparing"
          /\ op[n].pc = "DeleteDelete" /\ record[c] # None => ~record[c].fin
      BY <1>1 DEF CallInv, CallMatches, RecordStandsInv, PreparePCs, ForgetPCs
    <3>3. op[n].pc = "DeleteDelete" /\ Deleted(c) => record'[c] = None
      BY <3>1, <3>2 DEF Deleted, RecordStands, Kept, Rewritten
    <3> HIDE DEF RecordStandsInv
    <3> QED
      BY <2>2, <3>1, <3>2, <3>3, <1>1, RecordViews
         DEF RecordView, RecordStands, Kept, Created, Released
  <2> QED
    BY <2>1, <2>2
<1>5. ASSUME NEW m \in Nodes, op'[m].pc = "DeleteDelete", record'[op'[m].c] # None
      PROVE  ~record'[op'[m].c].fin
  <2>1. CASE m = n
    BY <1>1, <1>5, <2>1, RecordViews DEF Kept, Released
  <2>2. CASE m # n
    <3>1. op'[m] = op[m] /\ op[m].c \in Claims
      BY <1>1, <1>5, <2>2, OpFacts DEF Touches
    <3>2. Kept(op[m].c)
      <4>1. CASE op[m].c # c
        BY <1>1, <3>1, <4>1 DEF Touches
      <4>2. CASE op[m].c = c
        <5>1. op[n].pc = "idle" => Kept(c)
          BY <1>1, RecordViews DEF RecordView
        <5>2. op[n].pc = "idle"
          BY <1>1, <1>5, <2>2, <3>1, <4>2, Home
        <5> QED
          BY <4>2, <5>1, <5>2
      <4> QED
        BY <4>1, <4>2
    <3> QED
      BY <1>5, <3>1, <3>2 DEF Kept, RecordStandsInv
  <2> QED
    BY <2>1, <2>2
<1> QED
  BY <1>1, <1>2, <1>4, <1>5 DEF RecordStandsInv

LEMMA StandsNext ==
    ASSUME SingleHome, TypeOK, RecordInv, CallInv, RecordStandsInv, [Next]_vars
    PROVE  RecordStandsInv'
<1> USE DEF AllKept, SameFds
<1>a. /\ \A c \in Claims : RecordStands(c) /\ Homes[c] \subseteq Nodes
      /\ \A n \in Nodes : op[n].pc = "DeleteDelete" => op[n].c \in Claims
      /\ pass.pc \in Reaping => pass.cur \in Claims
      /\ NoPass.pc = "idle" /\ Idle.pc = "idle"
  BY OpFacts, PassFacts, LifecycleAssumption DEF RecordStandsInv, Reaping, NoPass, Idle
<1>b. ASSUME AllKept, \A n \in Nodes, c \in Claims : SameKub(n, c),
             \A c \in Claims : claim'[c] # "gone" => claim[c] # "gone",
             \A n \in Nodes : op'[n] = op[n] \/ op'[n] = Idle,
             pass'.pc \in Reaping => claim'[pass'.cur] = "gone"
      PROVE  RecordStandsInv'
  <2>1. \A c \in Claims : RecordStands(c)'
    BY <1>a, <1>b, SameStands
  <2> QED
    BY <1>a, <1>b, <2>1 DEF RecordStandsInv, Reaping, Kept
<1>c. UNCHANGED kub => \A n \in Nodes, c \in Claims : SameKub(n, c)
  BY DEF SameKub
<1>d. /\ UNCHANGED <<pass, claim>> => (pass'.pc \in Reaping => claim'[pass'.cur] = "gone")
      /\ UNCHANGED op => \A n \in Nodes : op'[n] = op[n]
  BY DEF RecordStandsInv, Reaping
<1>1. ASSUME NEW n \in Nodes, NEW c \in Claims, DaemonCase(n, c) PROVE RecordStandsInv'
  BY <1>1, DaemonStands
<1>2. ASSUME NEW n \in Nodes, NEW c \in Claims, GuestRow(n, c) PROVE RecordStandsInv'
  BY <1>2, <1>b, <1>c, <1>d DEF GuestRow
<1>3. ASSUME NEW h \in Hooks, HookCase(h) PROVE RecordStandsInv'
  BY <1>3, <1>b, <1>c, <1>d DEF HookCase
<1>4. ASSUME NEW h \in Hooks, NEW n \in Nodes, NEW c \in Claims, StartCase(h, n, c)
      PROVE  RecordStandsInv'
  BY <1>4, <1>b, <1>c, <1>d DEF StartCase
<1>5. CASE QuietRow
  <2>1. pass'.pc \in Reaping => claim'[pass'.cur] = "gone"
    BY <1>5, <1>a DEF QuietRow, RecordStandsInv, Reaping
  <2> QED
    BY <1>5, <1>b, <1>c, <2>1 DEF QuietRow
<1>6. ASSUME NEW c \in Claims, ClaimRow(c) PROVE RecordStandsInv'
  <2>1. \A d \in Claims : claim'[d] # "gone" => claim[d] # "gone"
    BY <1>6 DEF ClaimRow
  <2>2. pass'.pc \in Reaping => claim'[pass'.cur] = "gone"
    BY <1>6, <1>a DEF ClaimRow, RecordStandsInv, Reaping
  <2> QED
    BY <1>6, <1>b, <1>c, <1>d, <2>1, <2>2 DEF ClaimRow
<1>7. ASSUME NEW n \in Nodes, NEW c \in Claims, PodRow(n, c) PROVE RecordStandsInv'
  <2>1. /\ UNCHANGED <<op, pass, claim>> /\ AllKept
        /\ \A m \in Nodes, d \in Claims : m # n \/ d # c => SameKub(m, d)
    BY <1>7 DEF PodRow
  <2>2. \A d \in Claims \ {c} : RecordStands(d)'
    BY <1>a, <2>1, SameStands
  <2>3. RecordStands(c)'
    <3>1. RecordStands(c) /\ Homes[c] \subseteq Nodes /\ Kept(c) /\ claim'[c] = claim[c]
      BY <1>a, <2>1
    <3> QED
      BY <1>7, <3>1 DEF PodRow, SameKub, RecordStands, Kept
  <2> QED
    BY <1>a, <1>d, <2>1, <2>2, <2>3 DEF RecordStandsInv, Kept, Reaping
<1>8. ASSUME NEW c \in Claims, UserRow(c) PROVE RecordStandsInv'
  <2>1. /\ UNCHANGED <<op, pass, claim, kub>> /\ Deleted(c) /\ OthersKept(c)
    BY <1>8 DEF UserRow
  <2>2. \A d \in Claims \ {c} : RecordStands(d)'
    BY <1>a, <1>c, <2>1, SameStands DEF OthersKept
  <2>3. RecordStands(c)'
    <3>1. ASSUME NEW n \in Nodes, kub[n][c] = "prepared" PROVE Homes[c] = {n}
      BY <3>1, Home
    <3>2. RecordStands(c)
      BY <1>a
    <3>3. record'[c] = None /\ claim[c] # "gone" => \A n \in Nodes : kub[n][c] # "prepared"
      BY <2>1, <3>1, <3>2 DEF RecordStands, Deleted
    <3> QED
      BY <2>1, <3>2, <3>3 DEF RecordStands, Deleted
  <2>4. ASSUME NEW n \in Nodes, op'[n].pc = "DeleteDelete", record'[op'[n].c] # None
        PROVE  ~record'[op'[n].c].fin
    <3>1. op'[n] = op[n] /\ op[n].c \in Claims
      BY <1>a, <2>1, <2>4
    <3> QED
      BY <2>1, <2>4, <3>1 DEF RecordStandsInv, OthersKept, Kept, Deleted
  <2> QED
    BY <1>d, <2>1, <2>2, <2>3, <2>4 DEF RecordStandsInv, Reaping
<1>9. CASE ReapRow
  <2>1. UNCHANGED <<op, kub, claim>>
    BY <1>9 DEF ReapRow
  <2>2. pass'.pc \in Reaping => claim'[pass'.cur] = "gone"
    BY <1>9, <1>a DEF ReapRow, PassRow, RecordStandsInv, Reaping
  <2>3. CASE AllKept
    BY <1>b, <1>c, <1>d, <2>1, <2>2, <2>3
  <2>4. CASE ~AllKept
    <3>1. PICK c \in Claims : /\ c = pass.cur /\ pass.pc \in Reaping
                              /\ Released(c) \/ Deleted(c)
                              /\ OthersKept(c)
      BY <1>9, <2>4 DEF ReapRow, Reaping
    <3>2. claim[c] = "gone" /\ c \in Claims /\ OthersKept(c)
      BY <3>1 DEF RecordStandsInv, Reaping
    <3>3. \A d \in Claims \ {c} : RecordStands(d)'
      BY <1>a, <1>c, <2>1, <3>2, SameStands DEF OthersKept
    <3>4. RecordStands(c)'
      <4>1. RecordStands(c)
        BY <1>a, <3>2
      <4> QED
        BY <2>1, <3>1, <3>2, <4>1 DEF RecordStands, Deleted, Released, Kept, Rewritten
    <3>5. ASSUME NEW n \in Nodes, op'[n].pc = "DeleteDelete", record'[op'[n].c] # None
          PROVE  ~record'[op'[n].c].fin
      <4>1. op'[n] = op[n] /\ op[n].c \in Claims
        BY <1>a, <2>1, <3>5
      <4> QED
        BY <3>1, <3>2, <3>5, <4>1 DEF RecordStandsInv, OthersKept, Kept, Deleted, Released, Rewritten
    <3> QED
      BY <2>1, <2>2, <3>3, <3>4, <3>5 DEF RecordStandsInv, Reaping
  <2> QED
    BY <2>3, <2>4
<1> QED
  BY <1>1, <1>2, <1>3, <1>4, <1>5, <1>6, <1>7, <1>8, <1>9, LifeSteps DEF LifeStep

\* A claim that exists and is prepared has its ThunderClient resource, held by
\* its finalizer (driver.go prepareOne, store.go Delete, clients.go reap), when
\* every claim is used on one node only, whatever fails and whoever deletes the
\* resource.
THEOREM RecordStandsInvariant ==
    ASSUME SingleHome
    PROVE  Spec => []RecordStandsInv
<1>1. Init => RecordStandsInv
  <2> SUFFICES ASSUME Init PROVE RecordStandsInv
    OBVIOUS
  <2>1. /\ \A c \in Claims : record[c] = None
        /\ \A n \in Nodes : op[n].pc = "idle" /\ \A c \in Claims : kub[n][c] = "idle"
        /\ pass.pc = "idle"
    BY DEF Init, KubeInit, DriverInit, Idle, ReaperInit, NoPass
  <2> QED
    BY <2>1 DEF RecordStandsInv, RecordStands
<1>2. TypeOK /\ RecordInv /\ CallInv /\ RecordStandsInv /\ [Next]_vars => RecordStandsInv'
  BY StandsNext
<1> QED
  BY <1>1, <1>2, TypeCorrect, RecordInvariant, CallInvariant, PTL DEF Spec

-------------------------------------------------------------------------------
(* 3. Tokens within the reach of hooks and guests *)

LEMMA ThunderForward ==
    /\ SameThunder => Forward
    /\ \A t \in Tokens : Revokes(t) \/ Spends(t) => Forward
BY DEF SameThunder, Revokes, Spends, Forward

LEMMA DaemonForward ==
    ASSUME TypeOK, NEW n \in Nodes, NEW c \in Claims, DaemonRow(n, c)
    PROVE  Forward
<1>1. CASE ThunderRow(n, c)
  BY <1>1, ThunderForward, OpFacts DEF ThunderRow, Forward
<1> QED
  BY <1>1, ThunderForward
     DEF DaemonRow, GetRow, SecretRow, DiskRow, ReadRow, WriteRow

\* A token that is vouched for stays so.
LEMMA VouchedStays ==
    ASSUME Forward, NEW c \in Claims, NEW t \in Tokens \cup {None}, Vouched(c, t),
           Kept(c) \/ Rewritten(c) \/ record[c] = None
    PROVE  Vouched(c, t)'
BY DEF Vouched, Forward, Kept, Rewritten

LEMMA PlaceFacts ==
    ASSUME TypeOK, NEW c \in Claims
    PROVE  /\ \A n \in Nodes : /\ files[n][c] \in Files
                               /\ files[n][c].token \in Tokens \cup {None}
                               /\ files[n][c].config \in Tokens \cup {None}
           /\ NameOf[c] \in Names /\ secret[NameOf[c]] \in Tokens \cup {None}
<1>1. \A n \in Nodes : files[n][c] \in Files
  BY FilesType DEF TypeOK
<1>2. \A f \in Files : f.token \in Tokens \cup {None} /\ f.config \in Tokens \cup {None}
  BY DEF Files
<1> QED
  BY <1>1, <1>2 DEF TypeOK, KubeTypeOK, Names

\* A daemon leaves the places of other claims alone.
LEMMA OtherPlaces ==
    ASSUME TypeOK, NEW n \in Nodes, NEW c \in Claims, Touches(n, c), NEW d \in Claims \ {c}
    PROVE  /\ \A m \in Nodes : SameDisk(m, d) /\ SameKub(m, d)
           /\ Kept(d) /\ (OwnNames => secret'[NameOf[d]] = secret[NameOf[d]])
<1>1. NameOf[d] \in Names
  BY DEF Names
<1> QED
  BY <1>1 DEF Touches, SameDisk, SameKub, OwnNames

\* The token a daemon has put into the Secret, and on disk, as it writes the record.
LEMMA PlaceOfCall ==
    ASSUME TypeOK, NEW n \in Nodes, NEW c \in Claims, DaemonRow(n, c)
    PROVE  /\ SecretOfCall(n) => SecretOfCall(n)'
           /\ op'[n].pc \in {"UpsertGet", "UpsertPut"} =>
                 /\ op'[n].c = c
                 /\ \/ files'[n][c].token = op'[n].tok
                    \/ op[n].pc = "UpsertGet" /\ op'[n].tok = op[n].tok /\ SameDisk(n, c)
<1> USE DEF Idle, GivesUp, Moves, Ends, SecretOfCall
<1>a. op[n].pc # "idle" => c = op[n].c
  BY DEF DaemonRow
<1>1. CASE GetRow(n, c)
  BY <1>1 DEF GetRow
<1>2. CASE ThunderRow(n, c)
  BY <1>2, <1>a DEF ThunderRow
<1>3. CASE SecretRow(n, c)
  BY <1>3, <1>a DEF SecretRow
<1>4. CASE DiskRow(n, c)
  BY <1>4, <1>a DEF DiskRow
<1>5. CASE ReadRow(n, c)
  BY <1>5, <1>a DEF ReadRow
<1>6. CASE WriteRow(n, c)
  BY <1>6, <1>a DEF WriteRow
<1> QED
  BY <1>1, <1>2, <1>3, <1>4, <1>5, <1>6 DEF DaemonRow

\* Other daemons' calls are about other places.
LEMMA OtherCalls ==
    ASSUME SingleHome, TypeOK, RecordInv, NEW n \in Nodes, NEW c \in Claims, DaemonRow(n, c),
           NEW m \in Nodes \ {n}, op[m].pc # "idle"
    PROVE  /\ op'[m] = op[m] /\ op[m].c \in Claims /\ SameDisk(m, op[m].c)
           /\ SameKub(m, op[m].c) /\ Kept(op[m].c)
           /\ OwnNames => secret'[NameOf[op[m].c]] = secret[NameOf[op[m].c]]
<1>1. Touches(n, c) /\ op[m].c \in Claims
  BY OpFacts DEF DaemonRow
<1>2. op'[m] = op[m] /\ SameDisk(m, op[m].c) /\ SameKub(m, op[m].c)
  BY <1>1 DEF Touches, SameDisk, SameKub
<1>3. CASE op[m].c # c
  BY <1>1, <1>2, <1>3, OtherPlaces
<1>4. CASE op[m].c = c
  <2>1. op[n].pc = "idle"
    BY <1>1, <1>4, Home DEF DaemonRow
  <2>2. Kept(c) /\ secret' = secret
    BY <2>1 DEF DaemonRow, GetRow, ThunderRow, SecretRow, DiskRow, ReadRow, WriteRow
  <2> QED
    BY <1>1, <1>2, <1>4, <2>2
<1> QED
  BY <1>3, <1>4

LEMMA SecretOfCallNext ==
    ASSUME SingleHome, OwnNames, TypeOK, RecordInv, LifeStep, \A n \in Nodes : SecretOfCall(n)
    PROVE  \A n \in Nodes : SecretOfCall(n)'
<1>1. ASSUME NEW n \in Nodes, NEW c \in Claims, DaemonCase(n, c), NEW m \in Nodes
      PROVE  SecretOfCall(m)'
  <2>1. DaemonRow(n, c) /\ (m # n => op'[m] = op[m])
    BY <1>1 DEF DaemonCase, DaemonRow, Touches
  <2>2. CASE m = n
    BY <1>1, <2>1, <2>2, PlaceOfCall
  <2>3. CASE m # n
    BY <1>1, <2>1, <2>3, OtherCalls DEF SecretOfCall
  <2> QED
    BY <2>2, <2>3
<1>2. ASSUME UNCHANGED secret, NEW m \in Nodes, op'[m] = op[m] \/ op'[m] = Idle
      PROVE  SecretOfCall(m)'
  BY <1>2 DEF SecretOfCall, Idle
<1> QED
  BY <1>1, <1>2 DEF LifeStep, PodRow, GuestRow, HookCase, StartCase, UserRow, ClaimRow, ReapRow,
                    QuietRow

\* What a step of an operation in progress does to the places of its claim.
PlaceView(n, c) ==
    \/ op[n].pc \in PreparePCs /\ Kept(c) /\ kub' = kub
    \/ /\ op[n].pc = "UpsertPut" /\ Created(c, op[n].tok)
       /\ SameDisk(n, c) /\ secret' = secret
    \/ /\ files'[n][c].token \in {None, files[n][c].token}
       /\ secret'[NameOf[c]] \in {None, secret[NameOf[c]]}
       /\ Kept(c) \/ Rewritten(c)
       /\ kub' = kub \/ kub'[n][c] # "prepared"

LEMMA PlaceViews ==
    ASSUME TypeOK, NEW n \in Nodes, NEW c \in Claims, DaemonRow(n, c), op[n].pc # "idle"
    PROVE  PlaceView(n, c) /\ c = op[n].c
<1> USE DEF PreparePCs, PlaceView, GivesUp, Moves, Ends, SameDisk
<1>a. c = op[n].c
  BY DEF DaemonRow
<1>2. CASE ThunderRow(n, c)
  BY <1>2, <1>a DEF ThunderRow
<1>3. CASE SecretRow(n, c)
  BY <1>3, <1>a DEF SecretRow
<1>4. CASE DiskRow(n, c)
  BY <1>4, <1>a DEF DiskRow, NoFiles
<1>5. CASE ReadRow(n, c)
  BY <1>5, <1>a DEF ReadRow
<1>6. CASE WriteRow(n, c)
  BY <1>6, <1>a DEF WriteRow, Released, Deleted
<1> QED
  BY <1>a, <1>2, <1>3, <1>4, <1>5, <1>6 DEF DaemonRow, GetRow

\* The tokens on node n and in the Secret of claim c, where the claim may be used.
PlaceVouched(n, c) ==
    record[c] # None \/ kub[n][c] = "prepared" =>
        Vouched(c, files[n][c].token) /\ Vouched(c, secret[NameOf[c]])

LEMMA PlaceStays ==
    ASSUME TypeOK, Forward, NEW n \in Nodes, NEW c \in Claims, PlaceVouched(n, c),
           files'[n][c].token \in {None, files[n][c].token},
           secret'[NameOf[c]] \in {None, secret[NameOf[c]]},
           Kept(c) \/ Rewritten(c),
           kub'[n][c] = "prepared" => kub[n][c] = "prepared" \/ record[c] # None
    PROVE  PlaceVouched(n, c)'
<1>1. ASSUME record'[c] # None \/ kub'[n][c] = "prepared"
      PROVE  Vouched(c, files[n][c].token)' /\ Vouched(c, secret[NameOf[c]])'
  <2>1. record[c] # None \/ kub[n][c] = "prepared"
    BY <1>1 DEF Kept, Rewritten
  <2>2. /\ files[n][c].token \in Tokens \cup {None} /\ secret[NameOf[c]] \in Tokens \cup {None}
        /\ Vouched(c, files[n][c].token) /\ Vouched(c, secret[NameOf[c]])
    BY <2>1, PlaceFacts DEF PlaceVouched
  <2>3. ASSUME NEW t \in Tokens \cup {None}, Vouched(c, t) PROVE Vouched(c, t)'
    BY <2>3, VouchedStays
  <2>4. ASSUME NEW t, NEW u \in {None, t}, t \in Tokens \cup {None}, Vouched(c, t)
        PROVE  u = None \/ token'[u] = "revoked" \/ (record'[c] # None /\ record'[c].token = u)
    BY <2>3, <2>4 DEF Vouched
  <2> QED
    BY <2>2, <2>4 DEF Vouched
<1> QED
  BY <1>1 DEF PlaceVouched

LEMMA DaemonVouched ==
    ASSUME SingleHome, TypeOK, RecordInv, CallInv, OwnNames, VouchedInv,
           \A m \in Nodes : SecretOfCall(m)',
           NEW n \in Nodes, NEW c \in Claims, DaemonCase(n, c)
    PROVE  VouchedInv'
<1>1. DaemonRow(n, c) /\ Touches(n, c) /\ Forward /\ UNCHANGED hook
  BY DaemonForward DEF DaemonCase, DaemonRow
<1>2. ASSUME NEW m \in Nodes, op'[m].pc \in {"UpsertGet", "UpsertPut"}
      PROVE  files'[m][op'[m].c].token = op'[m].tok
  <2>1. CASE m = n
    BY <1>1, <1>2, <2>1, PlaceOfCall DEF VouchedInv, SameDisk, DaemonRow
  <2>2. CASE m # n
    <3>1. op'[m] = op[m]
      BY <1>1, <2>2 DEF Touches
    <3> QED
      BY <1>1, <1>2, <2>2, <3>1, OtherCalls DEF VouchedInv, SameDisk
  <2> QED
    BY <2>1, <2>2
<1>3. ASSUME NEW d \in Claims, NEW m \in Homes[d] PROVE PlaceVouched(m, d)'
  <2>1. m \in Nodes /\ PlaceVouched(m, d)
    BY LifecycleAssumption DEF VouchedInv, PlaceVouched
  <2>2. CASE d # c
    BY <1>1, <2>1, <2>2, OtherPlaces, PlaceStays DEF SameDisk, SameKub
  <2>3. CASE d = c /\ op[n].pc = "idle"
    <3>1. GetRow(n, c)
      BY <1>1, <2>3 DEF DaemonRow, ThunderRow, SecretRow, DiskRow, ReadRow, WriteRow
    <3>2. files'[m][c] = files[m][c] /\ secret' = secret /\ Kept(c)
      BY <1>1, <2>1, <3>1 DEF GetRow, Touches, SameDisk
    <3>3. kub'[m][c] = "prepared" => kub[m][c] = "prepared" \/ record[c] # None
      BY <1>1, <2>1, <3>1 DEF GetRow, Touches, GivesUp, Ends
    <3> QED
      BY <1>1, <2>1, <2>3, <3>2, <3>3, PlaceStays
  <2>4. CASE d = c /\ op[n].pc # "idle"
    <3>1. m = n /\ c = op[n].c /\ PlaceView(n, c)
      BY <1>1, <2>4, PlaceViews, Home
    <3>2. CASE op[n].pc \in PreparePCs /\ Kept(c) /\ kub' = kub
      BY <2>4, <3>1, <3>2, RecordInvParts DEF PlaceVouched, NodeOK, Kept, CallInv, CallMatches
    <3>3. CASE /\ op[n].pc = "UpsertPut" /\ Created(c, op[n].tok)
               /\ SameDisk(n, c) /\ secret' = secret
      <4>1. files[n][c].token = op[n].tok /\ secret[NameOf[c]] = op[n].tok
        BY <3>1, <3>3 DEF VouchedInv, SecretOfCall
      <4> QED
        BY <2>4, <3>1, <3>3, <4>1 DEF PlaceVouched, Vouched, Created, SameDisk
    <3>4. CASE /\ files'[n][c].token \in {None, files[n][c].token}
               /\ secret'[NameOf[c]] \in {None, secret[NameOf[c]]}
               /\ Kept(c) \/ Rewritten(c)
               /\ kub' = kub \/ kub'[n][c] # "prepared"
      BY <1>1, <2>1, <2>4, <3>1, <3>4, PlaceStays
    <3> QED
      BY <3>1, <3>2, <3>3, <3>4 DEF PlaceView
  <2> QED
    BY <2>2, <2>3, <2>4
<1>4. ASSUME NEW h \in Hooks, hook[h].pc \in {"exchange", "cache"}
      PROVE  Vouched(hook[h].claim, hook[h].tok)'
  <2>1. /\ hook[h].claim \in Claims /\ hook[h].tok \in Tokens
        /\ Vouched(hook[h].claim, hook[h].tok)
    BY <1>4, HookFacts DEF VouchedInv
  <2>2. \A d \in Claims : Kept(d) \/ Rewritten(d) \/ record[d] = None
    BY <1>1, RecordViews DEF Touches, RecordView, Released, Deleted, Created
  <2>3. PICK d \in Claims, t \in Tokens : d = hook[h].claim /\ t = hook[h].tok
    BY <2>1
  <2>4. Vouched(d, t)'
    BY <1>1, <2>1, <2>2, <2>3, VouchedStays
  <2> QED
    BY <1>1, <2>3, <2>4 DEF Vouched
<1> QED
  BY <1>1, <1>2, <1>3, <1>4 DEF VouchedInv, PlaceVouched

\* Every other step: no resource is created, nothing new is put anywhere, and a
\* hook that gets hold of a token has it from the disk of a prepared claim.
LEMMA QuietVouched ==
    ASSUME TypeOK, VouchedInv, Forward,
           \A m \in Nodes : SecretOfCall(m)' /\ (op'[m] = op[m] \/ op'[m] = Idle),
           \A c \in Claims : Kept(c) \/ Rewritten(c),
           UNCHANGED secret,
           \A n \in Nodes, c \in Claims :
               /\ files'[n][c].token \in {None, files[n][c].token}
               /\ op[n].pc \in {"UpsertGet", "UpsertPut"} /\ op[n].c = c =>
                     files'[n][c].token = files[n][c].token
               /\ kub'[n][c] = "prepared" => kub[n][c] = "prepared",
           \A h \in Hooks : hook'[h].pc \in {"exchange", "cache"} =>
               /\ hook'[h].claim \in Claims /\ hook'[h].tok \in Tokens \cup {None}
               /\ Vouched(hook'[h].claim, hook'[h].tok)
    PROVE  VouchedInv'
<1>1. ASSUME NEW m \in Nodes, op'[m].pc \in {"UpsertGet", "UpsertPut"}
      PROVE  files'[m][op'[m].c].token = op'[m].tok
  <2>1. op'[m] = op[m] /\ op[m].c \in Claims
    BY <1>1, OpFacts DEF Idle
  <2> QED
    BY <1>1, <2>1 DEF VouchedInv
<1>2. ASSUME NEW d \in Claims, NEW m \in Homes[d] PROVE PlaceVouched(m, d)'
  <2>1. m \in Nodes /\ PlaceVouched(m, d)
    BY LifecycleAssumption DEF VouchedInv, PlaceVouched
  <2> QED
    BY <2>1, PlaceStays
<1>3. ASSUME NEW h \in Hooks, hook'[h].pc \in {"exchange", "cache"}
      PROVE  Vouched(hook[h].claim, hook[h].tok)'
  <2>1. PICK d \in Claims, t \in Tokens \cup {None} :
            d = hook'[h].claim /\ t = hook'[h].tok /\ Vouched(d, t)
    BY <1>3
  <2>2. Vouched(d, t)'
    BY <2>1, VouchedStays
  <2> QED
    BY <2>1, <2>2 DEF Vouched
<1> QED
  BY <1>1, <1>2, <1>3 DEF VouchedInv, PlaceVouched

\* A running hook works where the claim is prepared: at its home, and not where
\* a daemon is at work on it.
LEMMA HookPlace ==
    ASSUME SingleHome, TypeOK, RecordInv, CallInv, StageLockInv, NEW h \in Hooks,
           hook[h].pc # "off"
    PROVE  /\ hook[h].node \in Nodes /\ hook[h].claim \in Claims
           /\ kub[hook[h].node][hook[h].claim] = "prepared"
           /\ Homes[hook[h].claim] = {hook[h].node}
           /\ \A n \in Nodes : op[n].pc # "idle" => op[n].c # hook[h].claim
<1>1. /\ hook[h].node \in Nodes /\ hook[h].claim \in Claims
      /\ kub[hook[h].node][hook[h].claim] = "prepared"
  BY HookFacts DEF StageLockInv, HasStageLock
<1>2. /\ Homes[hook[h].claim] = {hook[h].node}
      /\ \A m \in Nodes \ {hook[h].node} : op[m].pc # "idle" => op[m].c # hook[h].claim
  BY <1>1, Home
<1>3. ASSUME NEW n \in Nodes, op[n].pc # "idle" PROVE kub[n][op[n].c] # "prepared"
  <2>1. op[n].pc \in PreparePCs \cup UndoPCs \/ op[n].pc \in RevokePCs \cup ForgetPCs
    BY <1>3, OpFacts DEF Operation
  <2> QED
    BY <2>1 DEF CallInv, CallMatches
<1> QED
  BY <1>1, <1>2, <1>3

LEMMA HookVouched ==
    ASSUME SingleHome, TypeOK, RecordInv, CallInv, StageLockInv, VouchedInv,
           \A m \in Nodes : SecretOfCall(m)', NEW h \in Hooks, HookCase(h)
    PROVE  VouchedInv'
<1> DEFINE n == hook[h].node
           c == hook[h].claim
<1>1. /\ UNCHANGED <<op, kub, claim, secret, pass>> /\ AllKept
      /\ StageRow(h) /\ hook[h].pc # "off" /\ HookFrame(h)
  BY DEF HookCase, StageRow
<1>2. /\ n \in Nodes /\ c \in Claims /\ kub[n][c] = "prepared" /\ Homes[c] = {n}
      /\ \A m \in Nodes : op[m].pc # "idle" => op[m].c # c
  BY <1>1, HookPlace
<1>3. Forward
  BY <1>1, HookFacts, ThunderForward
     DEF StageRow, LockRow, ExitRow, ExchangeRow, CacheRow
<1>4. \A m \in Nodes, d \in Claims :
         /\ files'[m][d].token \in {None, files[m][d].token}
         /\ m # n \/ d # c => files'[m][d] = files[m][d]
  BY <1>1, <1>2 DEF StageRow, LockRow, ExitRow, ExchangeRow, CacheRow, DiskFrame, SameDisk
<1>5. ASSUME NEW g \in Hooks, hook'[g].pc \in {"exchange", "cache"}
      PROVE  /\ hook'[g].claim \in Claims /\ hook'[g].tok \in Tokens \cup {None}
             /\ Vouched(hook'[g].claim, hook'[g].tok)
  <2>1. CASE g # h
    <3>1. hook'[g] = hook[g]
      BY <1>1, <2>1 DEF HookFrame
    <3> QED
      BY <1>5, <3>1, HookFacts DEF VouchedInv
  <2>2. CASE g = h
    <3>1. ~Exits(h) /\ ~LockRow(h)
      BY <1>5, <2>2 DEF Exits, Off, LockRow, GoesOn
    <3>2. ExchangeRow(h)
      BY <1>1, <3>1 DEF StageRow, ExitRow, CacheRow
    <3>3. CASE hook[h].pc = "config"
      <4>1. hook'[h].claim = c /\ hook'[h].tok = files[n][c].token
        BY <3>2, <3>3 DEF ExchangeRow, GoesOn
      <4>2. files[n][c].token \in Tokens \cup {None}
        BY <1>2, PlaceFacts
      <4>3. Vouched(c, files[n][c].token)
        BY <1>2 DEF VouchedInv
      <4> QED
        BY <1>2, <2>2, <4>1, <4>2, <4>3
    <3>4. CASE hook[h].pc = "exchange"
      <4>1. hook'[h].claim = c /\ hook'[h].tok = hook[h].tok
        BY <3>1, <3>2, <3>4 DEF ExchangeRow, GoesOn
      <4> QED
        BY <1>2, <2>2, <3>4, <4>1, HookFacts DEF VouchedInv
    <3> QED
      BY <3>2, <3>3, <3>4 DEF ExchangeRow
  <2> QED
    BY <2>1, <2>2
<1>6. /\ \A m \in Nodes : op'[m] = op[m]
      /\ \A d \in Claims : Kept(d)
      /\ \A m \in Nodes, d \in Claims :
            op[m].pc \in {"UpsertGet", "UpsertPut"} /\ op[m].c = d =>
               files'[m][d].token = files[m][d].token
  BY <1>1, <1>2, <1>4 DEF AllKept
<1> QED
  BY <1>1, <1>3, <1>4, <1>5, <1>6, QuietVouched

LEMMA VouchedNext ==
    ASSUME SingleHome, OwnNames, TypeOK, RecordInv, CallInv, StageLockInv, VouchedInv,
           [Next]_vars
    PROVE  VouchedInv'
<1>a. LifeStep /\ \A m \in Nodes : SecretOfCall(m)'
  BY LifeSteps, SecretOfCallNext DEF VouchedInv
<1>b. ASSUME Forward, UNCHANGED <<hook, secret, files>>,
             \A m \in Nodes : op'[m] = op[m] \/ op'[m] = Idle,
             \A c \in Claims : Kept(c) \/ Rewritten(c),
             \A n \in Nodes, c \in Claims : kub'[n][c] = "prepared" => kub[n][c] = "prepared"
      PROVE  VouchedInv'
  <2>1. \A h \in Hooks : hook'[h].pc \in {"exchange", "cache"} =>
           /\ hook'[h].claim \in Claims /\ hook'[h].tok \in Tokens \cup {None}
           /\ Vouched(hook'[h].claim, hook'[h].tok)
    BY <1>b, HookFacts DEF VouchedInv
  <2> QED
    BY <1>a, <1>b, <2>1, QuietVouched
<1>c. /\ AllKept => \A c \in Claims : Kept(c)
      /\ UNCHANGED kub =>
            \A n \in Nodes, c \in Claims : kub'[n][c] = "prepared" => kub[n][c] = "prepared"
      /\ UNCHANGED op => \A m \in Nodes : op'[m] = op[m]
  BY DEF AllKept
<1> USE ThunderForward
<1>1. ASSUME NEW n \in Nodes, NEW c \in Claims, DaemonCase(n, c) PROVE VouchedInv'
  BY <1>1, <1>a, DaemonVouched
<1>2. ASSUME NEW n \in Nodes, NEW c \in Claims, PodRow(n, c) PROVE VouchedInv'
  <2>1. \A m \in Nodes, d \in Claims : kub'[m][d] = "prepared" => kub[m][d] = "prepared"
    BY <1>2 DEF PodRow, SameKub
  <2> QED
    BY <1>2, <1>b, <1>c, <2>1 DEF PodRow
<1>3. ASSUME NEW n \in Nodes, NEW c \in Claims, GuestRow(n, c) PROVE VouchedInv'
  BY <1>3, <1>b, <1>c DEF GuestRow
<1>4. ASSUME NEW h \in Hooks, HookCase(h) PROVE VouchedInv'
  BY <1>4, <1>a, HookVouched
<1>5. ASSUME NEW h \in Hooks, NEW n \in Nodes, NEW c \in Claims, StartCase(h, n, c)
      PROVE  VouchedInv'
  <2>1. /\ UNCHANGED <<op, kub, secret>> /\ AllKept /\ Forward /\ StartRow(h, n, c)
    BY <1>5 DEF StartCase, StartRow
  <2>2. \A m \in Nodes, d \in Claims : files'[m][d].token = files[m][d].token
    BY <2>1 DEF StartRow, DiskFrame, SameDisk
  <2>3. \A g \in Hooks : hook'[g].pc \in {"exchange", "cache"} =>
           /\ hook'[g].claim \in Claims /\ hook'[g].tok \in Tokens \cup {None}
           /\ Vouched(hook'[g].claim, hook'[g].tok)
    BY <2>1, HookFacts DEF StartRow, HookFrame, VouchedInv
  <2> QED
    BY <1>a, <1>c, <2>1, <2>2, <2>3, QuietVouched
<1>6. ASSUME NEW c \in Claims, UserRow(c) PROVE VouchedInv'
  BY <1>6, <1>b, <1>c DEF UserRow, OthersKept, Deleted
<1>7. ASSUME NEW c \in Claims, ClaimRow(c) PROVE VouchedInv'
  BY <1>7, <1>b, <1>c DEF ClaimRow
<1>8. CASE ReapRow
  <2>1. Forward /\ \A c \in Claims : Kept(c) \/ Rewritten(c)
    BY <1>8, <1>c DEF ReapRow, OthersKept, Released, Deleted
  <2> QED
    BY <1>8, <1>b, <1>c, <2>1 DEF ReapRow
<1>9. CASE QuietRow
  BY <1>9, <1>b, <1>c DEF QuietRow
<1> QED
  BY <1>a, <1>1, <1>2, <1>3, <1>4, <1>5, <1>6, <1>7, <1>8, <1>9 DEF LifeStep

LEMMA VouchedInit == Init => VouchedInv
<1> SUFFICES ASSUME Init PROVE VouchedInv
  OBVIOUS
<1>1. /\ \A n \in Nodes : op[n].pc = "idle" /\ \A c \in Claims : kub[n][c] = "idle"
      /\ \A c \in Claims : record[c] = None
      /\ \A h \in Hooks : hook[h].pc = "off"
  BY DEF Init, DriverInit, Idle, KubeInit, HookInit, Off
<1>2. \A c \in Claims : Homes[c] \subseteq Nodes
  BY LifecycleAssumption
<1> QED
  BY <1>1, <1>2 DEF VouchedInv, SecretOfCall

\* Every token that a hook or a guest can get hold of is on record for its
\* claim, or has been revoked, when claims have names and homes of their own.
THEOREM VouchedInvariant ==
    ASSUME SingleHome, OwnNames, ~HookOverlap
    PROVE  Spec => []VouchedInv
<1>1. Init => VouchedInv
  BY VouchedInit
<1>2. TypeOK /\ RecordInv /\ CallInv /\ StageLockInv /\ VouchedInv /\ [Next]_vars => VouchedInv'
  BY VouchedNext
<1> QED
  BY <1>1, <1>2, TypeCorrect, RecordInvariant, CallInvariant, StageLockInvariant, PTL DEF Spec

LEMMA SpentNext ==
    ASSUME SingleHome, TypeOK, RecordInv, CallInv, StageLockInv, VouchedInv, [Next]_vars,
           NEW t \in Tokens, token[t] = "unspent", token'[t] = "spent"
    PROVE  OnRecord(t)
<1>a. ASSUME NEW c \in Claims, Vouched(c, t) PROVE OnRecord(t)
  BY <1>a, DeploymentAssumption DEF Vouched, OnRecord
<1>b. /\ ~SameThunder
      /\ \A u \in Tokens : ~Revokes(u)
      /\ \A u \in Tokens : Spends(u) => u = t
  BY DEF SameThunder, Revokes, Spends
<1>1. ASSUME NEW n \in Nodes, NEW c \in Claims, DaemonCase(n, c) PROVE FALSE
  <2>1. DaemonRow(n, c)
    BY <1>1 DEF DaemonCase
  <2>2. ThunderRow(n, c)
    BY <2>1, <1>b DEF DaemonRow, GetRow, SecretRow, DiskRow, ReadRow, WriteRow
  <2> QED
    BY <2>2, <1>b, OpFacts DEF ThunderRow
<1>2. ASSUME NEW n \in Nodes, NEW c \in Claims, GuestRow(n, c) PROVE OnRecord(t)
  <2>1. n \in Homes[c] /\ kub[n][c] = "prepared" /\ secret[NameOf[c]] = t
    BY <1>2, <1>b, Home DEF GuestRow
  <2> QED
    BY <1>a, <2>1 DEF VouchedInv
<1>3. ASSUME NEW h \in Hooks, HookCase(h) PROVE OnRecord(t)
  <2>1. hook[h].pc = "exchange" /\ hook[h].tok = t /\ hook[h].claim \in Claims
    BY <1>3, <1>b, HookFacts
       DEF HookCase, StageRow, LockRow, ExitRow, ExchangeRow, CacheRow
  <2> QED
    BY <1>a, <2>1 DEF VouchedInv
<1>4. ASSUME NEW h \in Hooks, NEW n \in Nodes, NEW c \in Claims, StartCase(h, n, c)
      PROVE  FALSE
  BY <1>4, <1>b DEF StartCase, StartRow
<1>5. CASE ReapRow
  BY <1>5, <1>b DEF ReapRow
<1> QED
  BY <1>1, <1>2, <1>3, <1>4, <1>5, <1>b, LifeSteps DEF LifeStep, PodRow, UserRow, ClaimRow, QuietRow

\* A token is only spent, by a hook (clientconfig.go) or by a guest, while the
\* ThunderClient resource that records it exists (driver.go 190-213): a token
\* that a failing or dying daemon left behind enrolls nobody.
THEOREM SpendingIsOnRecord ==
    ASSUME SingleHome, OwnNames, ~HookOverlap
    PROVE  Spec => SpentOnRecord
<1>1. /\ TypeOK /\ RecordInv /\ CallInv /\ StageLockInv /\ VouchedInv /\ [Next]_vars
      => [\A t \in Tokens : token[t] = "unspent" /\ token'[t] = "spent" => OnRecord(t)]_vars
  BY SpentNext
<1> QED
  BY <1>1, TypeCorrect, RecordInvariant, CallInvariant, StageLockInvariant, VouchedInvariant, PTL
     DEF Spec, SpentOnRecord

-------------------------------------------------------------------------------
(* 4. Cached configs *)

\* A token that was spent stays so, or is revoked, and its client stays revoked.
UsedStays ==
    \A t \in Tokens : token[t] \in Used =>
        /\ token'[t] \in Used
        /\ client[t] = "revoked" => client'[t] = "revoked"

LEMMA ThunderUsed ==
    /\ SameThunder => UsedStays
    /\ \A t \in Tokens : Revokes(t) \/ Spends(t) => UsedStays
BY DEF SameThunder, Revokes, Spends, UsedStays, Used

LEMMA DaemonUsed ==
    ASSUME TypeOK, NEW n \in Nodes, NEW c \in Claims, DaemonRow(n, c)
    PROVE  UsedStays
<1>1. CASE ThunderRow(n, c)
  BY <1>1, ThunderUsed, OpFacts DEF ThunderRow, UsedStays, Used
<1> QED
  BY <1>1, ThunderUsed DEF DaemonRow, GetRow, SecretRow, DiskRow, ReadRow, WriteRow

\* What a cached config needs: its claim is gone, or has a held record.
Backed(c) == claim[c] = "gone" \/ (record[c] # None /\ record[c].fin)

LEMMA ConfigParts ==
    /\ ConfigInv <=>
          /\ \A n \in Nodes : op[n].pc # "idle" => ConfigOfCall(n)
          /\ \A n \in Nodes, c \in Claims :
                files[n][c].config # None =>
                    n \in Homes[c] /\ token[files[n][c].config] \in Used /\ Backed(c)
          /\ \A h \in Hooks :
                /\ hook[h].pc \in {"exchange", "cache"} =>
                      files[hook[h].node][hook[h].claim].config = None
                /\ hook[h].pc = "cache" => token[hook[h].tok] \in Used
    /\ ConfigInv' <=>
          /\ \A n \in Nodes : op'[n].pc # "idle" => ConfigOfCall(n)'
          /\ \A n \in Nodes, c \in Claims :
                files'[n][c].config # None =>
                    n \in Homes[c] /\ token'[files'[n][c].config] \in Used /\ Backed(c)'
          /\ \A h \in Hooks :
                /\ hook'[h].pc \in {"exchange", "cache"} =>
                      files'[hook'[h].node][hook'[h].claim].config = None
                /\ hook'[h].pc = "cache" => token'[hook'[h].tok] \in Used
BY DEF ConfigInv, Backed

\* A call that goes on, with its disk as it was.
LEMMA CallStays ==
    ASSUME TypeOK, ConfigInv, UsedStays, NEW m \in Nodes, op[m].pc # "idle",
           op'[m] = op[m], files'[m][op[m].c].config = files[m][op[m].c].config
    PROVE  ConfigOfCall(m)'
<1>1. op[m].c \in Claims /\ ConfigOfCall(m)
  BY ConfigParts, OpFacts
<1>2. files[m][op[m].c].config \in Tokens \cup {None}
  BY <1>1, PlaceFacts
<1>3. files[m][op[m].c].config # None => token[files[m][op[m].c].config] \in Used
  BY <1>1, ConfigParts
<1> QED
  BY <1>1, <1>2, <1>3 DEF ConfigOfCall, UsedStays

LEMMA DaemonDisk ==
    ASSUME TypeOK, NEW n \in Nodes, NEW c \in Claims, DaemonRow(n, c)
    PROVE  \A m \in Nodes, d \in Claims :
              /\ files'[m][d].config \in {None, files[m][d].config}
              /\ op[n].pc = "idle" \/ m # n \/ d # c => files'[m][d] = files[m][d]
<1>1. \A m \in Nodes, d \in Claims : m # n \/ d # c => files'[m][d] = files[m][d]
  BY DEF DaemonRow, Touches, SameDisk
<1>2. /\ files'[n][c].config \in {None, files[n][c].config}
      /\ op[n].pc = "idle" => files'[n][c] = files[n][c]
  BY DEF DaemonRow, GetRow, ThunderRow, SecretRow, DiskRow, ReadRow, WriteRow, SameDisk, NoFiles
<1> QED
  BY <1>1, <1>2

\* How the config of its claim fares as a daemon's call goes on.
LEMMA CallConfig ==
    ASSUME "configError" \notin FaultKinds, TypeOK, RecordStandsInv, ConfigInv,
           NEW n \in Nodes, NEW c \in Claims, DaemonRow(n, c), op'[n].pc # "idle"
    PROVE  ConfigOfCall(n)'
<1> USE DEF GivesUp, Moves, Ends, SameDisk
<1>a. /\ op[n].pc # "idle" => c = op[n].c /\ ConfigOfCall(n)
      /\ Idle.pc = "idle"
  BY ConfigParts DEF DaemonRow, Idle
<1>b. /\ files[n][c].config \in Tokens \cup {None}
      /\ files[n][c].config # None => token[files[n][c].config] \in Used /\ Backed(c)
  BY PlaceFacts, ConfigParts
<1>c. UsedStays
  BY DaemonUsed
<1>p. /\ PreparePCs \cup UndoPCs = {"Mint", "GuestCreate", "CDICreate", "UpsertGet", "UpsertPut",
                                    "UndoLock", "UndoCDI", "UndoGuest", "UndoRevoke"}
      /\ {"Revoke"} \cup ForgetPCs = {"Revoke", "CDILock", "CDIRemove", "GuestRemove",
                                      "DeleteGet", "DeleteUpdate", "DeleteDelete"}
  BY DEF PreparePCs, UndoPCs, ForgetPCs
<1>1. CASE GetRow(n, c)
  BY <1>1, <1>a, <1>b, <1>p DEF GetRow, ConfigOfCall, Backed
<1>2. CASE ThunderRow(n, c)
  <2>1. op'[n].c = c /\ c = op[n].c /\ files'[n][c] = files[n][c] /\ ConfigOfCall(n)
    BY <1>2, <1>a DEF ThunderRow
  <2>2. CASE op[n].pc = "Mint"
    BY <1>2, <1>a, <1>p, <2>1, <2>2 DEF ThunderRow, ConfigOfCall
  <2>3. CASE op[n].pc = "RevokeClient"
    <3>1. op'[n].pc = "Revoke" /\ \A u \in Tokens : u = op[n].cid => client'[u] = "revoked"
      BY <1>2, <1>a, <2>3 DEF ThunderRow
    <3>2. files[n][c].config = op[n].cid
      BY <2>1, <2>3 DEF ConfigOfCall
    <3> QED
      BY <1>b, <1>p, <2>1, <3>1, <3>2 DEF ConfigOfCall
  <2>4. CASE op[n].pc = "Revoke"
    <3>1. op'[n].pc = "CDILock" /\ client' = client
      BY <1>2, <1>a, <2>4 DEF ThunderRow, Revokes
    <3> QED
      BY <1>p, <2>1, <2>4, <3>1 DEF ConfigOfCall
  <2> QED
    BY <1>2, <1>a, <2>2, <2>3, <2>4 DEF ThunderRow
<1>3. CASE SecretRow(n, c)
  BY <1>3, <1>a, <1>p DEF SecretRow, ConfigOfCall, SameThunder
<1>4. CASE DiskRow(n, c)
  BY <1>4, <1>a, <1>p DEF DiskRow, ConfigOfCall, SameThunder, NoFiles
<1>5. CASE ReadRow(n, c)
  BY <1>5, <1>a, <1>p DEF ReadRow, ConfigOfCall, SameThunder
<1>6. CASE WriteRow(n, c)
  BY <1>6, <1>a, <1>p DEF WriteRow, ConfigOfCall, SameThunder
<1> QED
  BY <1>1, <1>2, <1>3, <1>4, <1>5, <1>6 DEF DaemonRow

LEMMA DaemonConfig ==
    ASSUME SingleHome, "configError" \notin FaultKinds, TypeOK, RecordInv, CallInv,
           StageLockInv, RecordStandsInv, ConfigInv,
           NEW n \in Nodes, NEW c \in Claims, DaemonCase(n, c)
    PROVE  ConfigInv'
<1>1. DaemonRow(n, c) /\ Touches(n, c) /\ UNCHANGED <<hook, claim>> /\ UsedStays
  BY DaemonUsed DEF DaemonCase, DaemonRow, Touches
<1>2. ASSUME NEW m \in Nodes, op'[m].pc # "idle" PROVE ConfigOfCall(m)'
  <2>1. CASE m = n
    BY <1>1, <1>2, <2>1, CallConfig
  <2>2. CASE m # n
    <3>1. op'[m] = op[m]
      BY <1>1, <2>2 DEF Touches
    <3> QED
      BY <1>1, <1>2, <2>2, <3>1, OtherCalls, CallStays DEF SameDisk
  <2> QED
    BY <2>1, <2>2
<1>3. ASSUME NEW m \in Nodes, NEW d \in Claims, files'[m][d].config # None
      PROVE  m \in Homes[d] /\ token'[files'[m][d].config] \in Used /\ Backed(d)'
  <2> DEFINE t == files[m][d].config
  <2>1. /\ files'[m][d].config = t /\ t \in Tokens
        /\ m \in Homes[d] /\ token[t] \in Used /\ Backed(d)
    BY <1>1, <1>3, DaemonDisk, PlaceFacts, ConfigParts
  <2>2. token'[t] \in Used
    BY <1>1, <2>1 DEF UsedStays
  <2>3. Backed(d)'
    <3>1. CASE d # c
      BY <1>1, <2>1, <3>1, OtherPlaces DEF Backed, Kept
    <3>2. CASE d = c /\ op[n].pc \in {"DeleteUpdate", "DeleteDelete"}
      <4>1. c = op[n].c /\ Homes[c] = {n}
        BY <1>1, <3>2, Home DEF DaemonRow
      <4>2. files[n][c].config = None
        BY <3>2, <4>1, ConfigParts DEF ConfigOfCall
      <4> QED
        BY <2>1, <3>2, <4>1, <4>2, DeploymentAssumption
    <3>3. CASE d = c /\ op[n].pc \notin {"DeleteUpdate", "DeleteDelete"}
      BY <1>1, <2>1, <3>3, RecordViews DEF RecordView, Backed, Kept, Created
    <3> QED
      BY <3>1, <3>2, <3>3
  <2> QED
    BY <2>1, <2>2, <2>3
<1>4. ASSUME NEW h \in Hooks, hook[h].pc \in {"exchange", "cache"}
      PROVE  /\ files'[hook[h].node][hook[h].claim].config = None
             /\ hook[h].pc = "cache" => token'[hook[h].tok] \in Used
  <2>1. /\ files[hook[h].node][hook[h].claim].config = None
        /\ hook[h].pc = "cache" => token[hook[h].tok] \in Used
        /\ hook[h].tok \in Tokens /\ hook[h].node \in Nodes /\ hook[h].claim \in Claims
    BY <1>4, ConfigParts, HookFacts
  <2> QED
    BY <1>1, <2>1, DaemonDisk DEF UsedStays
<1> QED
  BY <1>1, <1>2, <1>3, <1>4, ConfigParts

LEMMA HookConfigs ==
    ASSUME SingleHome, "configError" \notin FaultKinds, TypeOK, RecordInv, CallInv,
           StageLockInv, RecordStandsInv, ConfigInv, NEW h \in Hooks, HookCase(h)
    PROVE  ConfigInv'
<1> DEFINE n == hook[h].node
           c == hook[h].claim
<1>1. /\ UNCHANGED <<op, kub, claim, secret, pass>> /\ AllKept
      /\ StageRow(h) /\ hook[h].pc # "off" /\ HookFrame(h)
  BY DEF HookCase, StageRow
<1>2. /\ n \in Nodes /\ c \in Claims /\ kub[n][c] = "prepared" /\ Homes[c] = {n}
      /\ \A m \in Nodes : op[m].pc # "idle" => op[m].c # c
  BY <1>1, HookPlace
<1>3. UsedStays
  BY <1>1, HookFacts, ThunderUsed DEF StageRow, LockRow, ExitRow, ExchangeRow, CacheRow
<1>4. /\ CacheRow(h) \/ files' = files
      /\ \A m \in Nodes, d \in Claims : m # n \/ d # c => files'[m][d] = files[m][d]
  BY <1>1, <1>2 DEF StageRow, LockRow, ExitRow, ExchangeRow, CacheRow, DiskFrame, SameDisk
<1>5. \A d \in Claims : Backed(d) => Backed(d)'
  BY <1>1 DEF AllKept, Kept, Backed
<1>6. ASSUME NEW m \in Nodes, op'[m].pc # "idle" PROVE ConfigOfCall(m)'
  BY <1>1, <1>2, <1>3, <1>4, <1>6, CallStays, OpFacts
<1>7. ASSUME NEW m \in Nodes, NEW d \in Claims, files'[m][d].config # None
      PROVE  m \in Homes[d] /\ token'[files'[m][d].config] \in Used /\ Backed(d)'
  <2>1. CASE files'[m][d] = files[m][d]
    BY <1>3, <1>5, <1>7, <2>1, ConfigParts, PlaceFacts DEF UsedStays
  <2>2. CASE files'[m][d] # files[m][d]
    <3>1. m = n /\ d = c /\ CacheRow(h)
      BY <1>4, <2>2
    <3>2. /\ files'[n][c].config = hook[h].tok /\ hook[h].tok \in Tokens
          /\ token[hook[h].tok] \in Used
      BY <3>1, HookFacts, ConfigParts DEF CacheRow
    <3>3. Backed(c)
      BY <1>2 DEF RecordStandsInv, RecordStands, Backed
    <3> QED
      BY <1>2, <1>3, <1>5, <3>1, <3>2, <3>3 DEF UsedStays
  <2> QED
    BY <2>1, <2>2
<1>8. ASSUME NEW g \in Hooks, hook'[g].pc \in {"exchange", "cache"}
      PROVE  /\ files'[hook'[g].node][hook'[g].claim].config = None
             /\ hook'[g].pc = "cache" => token'[hook'[g].tok] \in Used
  <2>1. CASE g # h
    <3>1. hook'[g] = hook[g]
      BY <1>1, <2>1 DEF HookFrame
    <3>2. /\ files[hook[g].node][hook[g].claim].config = None
          /\ hook[g].pc = "cache" => token[hook[g].tok] \in Used
          /\ hook[g].tok \in Tokens /\ hook[g].node \in Nodes /\ hook[g].claim \in Claims
      BY <1>8, <3>1, ConfigParts, HookFacts
    <3>3. ~(CacheRow(h) /\ hook[g].node = n /\ hook[g].claim = c)
      BY <1>8, <2>1, <3>1, OneStager DEF CacheRow, StagedOneAtATime
    <3> QED
      BY <1>3, <1>4, <3>1, <3>2, <3>3 DEF UsedStays
  <2>2. CASE g = h
    <3>1. ~Exits(h) /\ ~LockRow(h)
      BY <1>8, <2>2 DEF Exits, Off, LockRow, GoesOn
    <3>2. ExchangeRow(h)
      BY <1>1, <3>1 DEF StageRow, ExitRow, CacheRow
    <3>3. files' = files /\ hook'[h].node = n /\ hook'[h].claim = c
      BY <3>1, <3>2 DEF ExchangeRow, GoesOn
    <3>4. files[n][c].config = None
      BY <3>2, ConfigParts DEF ExchangeRow
    <3>5. hook'[h].pc = "cache" => token'[hook'[h].tok] \in Used
      BY <3>1, <3>2 DEF ExchangeRow, GoesOn, Spends, Used
    <3> QED
      BY <2>2, <3>3, <3>4, <3>5
  <2> QED
    BY <2>1, <2>2
<1> QED
  BY <1>6, <1>7, <1>8, ConfigParts

LEMMA ConfigNext ==
    ASSUME SingleHome, "configError" \notin FaultKinds, TypeOK, RecordInv, CallInv,
           StageLockInv, RecordStandsInv, ConfigInv, [Next]_vars
    PROVE  ConfigInv'
<1>a. LifeStep
  BY LifeSteps
<1> USE ThunderUsed
<1>b. ASSUME UsedStays, \A m \in Nodes : op'[m] = op[m] \/ op'[m] = Idle,
             \A m \in Nodes, d \in Claims : files'[m][d].config = files[m][d].config,
             \A d \in Claims : Backed(d) => Backed(d)',
             \A g \in Hooks : hook'[g] = hook[g] \/ hook'[g].pc \notin {"exchange", "cache"}
      PROVE  ConfigInv'
  <2>1. ASSUME NEW m \in Nodes, op'[m].pc # "idle" PROVE ConfigOfCall(m)'
    BY <1>b, <2>1, CallStays, OpFacts DEF Idle
  <2>2. ASSUME NEW m \in Nodes, NEW d \in Claims, files'[m][d].config # None
        PROVE  m \in Homes[d] /\ token'[files'[m][d].config] \in Used /\ Backed(d)'
    BY <1>b, <2>2, ConfigParts, PlaceFacts DEF UsedStays
  <2>3. ASSUME NEW g \in Hooks, hook'[g].pc \in {"exchange", "cache"}
        PROVE  /\ files'[hook'[g].node][hook'[g].claim].config = None
               /\ hook'[g].pc = "cache" => token'[hook'[g].tok] \in Used
    BY <1>b, <2>3, ConfigParts, HookFacts DEF UsedStays
  <2> QED
    BY <2>1, <2>2, <2>3, ConfigParts
<1>c. /\ AllKept /\ UNCHANGED claim => \A d \in Claims : Backed(d) => Backed(d)'
      /\ UNCHANGED op => \A m \in Nodes : op'[m] = op[m]
      /\ UNCHANGED files => \A m \in Nodes, d \in Claims : files'[m][d].config = files[m][d].config
      /\ UNCHANGED hook => \A g \in Hooks : hook'[g] = hook[g]
  BY DEF AllKept, Kept, Backed
<1>1. ASSUME NEW n \in Nodes, NEW c \in Claims, DaemonCase(n, c) PROVE ConfigInv'
  BY <1>1, DaemonConfig
<1>2. ASSUME NEW n \in Nodes, NEW c \in Claims, PodRow(n, c) PROVE ConfigInv'
  BY <1>2, <1>b, <1>c DEF PodRow
<1>3. ASSUME NEW n \in Nodes, NEW c \in Claims, GuestRow(n, c) PROVE ConfigInv'
  BY <1>3, <1>b, <1>c DEF GuestRow
<1>4. ASSUME NEW h \in Hooks, HookCase(h) PROVE ConfigInv'
  BY <1>4, HookConfigs
<1>5. ASSUME NEW h \in Hooks, NEW n \in Nodes, NEW c \in Claims, StartCase(h, n, c)
      PROVE  ConfigInv'
  <2>1. UNCHANGED <<op, claim>> /\ AllKept /\ UsedStays /\ StartRow(h, n, c)
    BY <1>5 DEF StartCase, StartRow
  <2>2. /\ \A m \in Nodes, d \in Claims : files'[m][d].config = files[m][d].config
        /\ \A g \in Hooks : hook'[g] = hook[g] \/ hook'[g].pc \notin {"exchange", "cache"}
    BY <2>1 DEF StartRow, DiskFrame, SameDisk, HookFrame
  <2> QED
    BY <1>b, <1>c, <2>1, <2>2
<1>6. ASSUME NEW c \in Claims, UserRow(c) PROVE ConfigInv'
  <2>1. \A d \in Claims : Backed(d) => Backed(d)'
    BY <1>6 DEF UserRow, OthersKept, Kept, Deleted, Backed
  <2> QED
    BY <1>6, <1>b, <1>c, <2>1 DEF UserRow
<1>7. ASSUME NEW c \in Claims, ClaimRow(c) PROVE ConfigInv'
  <2>1. \A d \in Claims : Backed(d) => Backed(d)'
    BY <1>7 DEF ClaimRow, AllKept, Kept, Backed
  <2> QED
    BY <1>7, <1>b, <1>c, <2>1 DEF ClaimRow
<1>8. CASE ReapRow
  <2>1. UsedStays /\ \A d \in Claims : Backed(d) => Backed(d)'
    BY <1>8 DEF ReapRow, AllKept, OthersKept, Kept, Backed, RecordStandsInv
  <2> QED
    BY <1>8, <1>b, <1>c, <2>1 DEF ReapRow
<1>9. CASE QuietRow
  BY <1>9, <1>b, <1>c DEF QuietRow
<1> QED
  BY <1>a, <1>1, <1>2, <1>3, <1>4, <1>5, <1>6, <1>7, <1>8, <1>9 DEF LifeStep

LEMMA ConfigInit == Init => ConfigInv
<1> SUFFICES ASSUME Init PROVE ConfigInv
  OBVIOUS
<1>1. /\ \A n \in Nodes : op[n].pc = "idle" /\ \A c \in Claims : files[n][c].config = None
      /\ \A h \in Hooks : hook[h].pc = "off"
  BY DEF Init, DriverInit, Idle, CDIInit, NoFiles, HookInit, Off
<1> QED
  BY <1>1 DEF ConfigInv

\* Cached client configs, as long as none of them fails to be read or written:
\* each names a client whose token was spent, on the one node its claim is used
\* on, under a record that is held while the claim exists.
THEOREM ConfigInvariant ==
    ASSUME SingleHome, ~HookOverlap, "configError" \notin FaultKinds
    PROVE  Spec => []ConfigInv
<1>1. Init => ConfigInv
  BY ConfigInit
<1>2. /\ TypeOK /\ RecordInv /\ CallInv /\ StageLockInv /\ RecordStandsInv /\ ConfigInv
      /\ [Next]_vars
      => ConfigInv'
  BY ConfigNext
<1> QED
  BY <1>1, <1>2, TypeCorrect, RecordInvariant, CallInvariant, StageLockInvariant,
     RecordStandsInvariant, PTL DEF Spec

LEMMA StateGoesNext ==
    ASSUME TypeOK, RecordInv, ConfigInv, [Next]_vars,
           NEW m \in Nodes, NEW d \in Claims, files[m][d].config # None,
           files'[m][d].config # files[m][d].config
    PROVE  client[files[m][d].config] = "revoked"
<1>1. ASSUME NEW n \in Nodes, NEW c \in Claims, DaemonCase(n, c)
      PROVE  client[files[m][d].config] = "revoked"
  <2>1. DaemonRow(n, c)
    BY <1>1 DEF DaemonCase
  <2>2. m = n /\ d = c /\ op[n].pc # "idle" /\ c = op[n].c /\ ConfigOfCall(n)
    BY <2>1, DaemonDisk, ConfigParts DEF DaemonRow
  <2>3. DiskRow(n, c)
    BY <2>1, <2>2
       DEF DaemonRow, GetRow, ThunderRow, SecretRow, ReadRow, WriteRow, SameDisk
  <2>4. op[n].pc \in {"CDICreate", "UndoCDI", "CDIRemove"}
    BY <2>2, <2>3 DEF DiskRow
  <2> QED
    BY <2>2, <2>4 DEF ConfigOfCall, PreparePCs, UndoPCs, ForgetPCs
<1>2. ASSUME NEW h \in Hooks, HookCase(h) PROVE FALSE
  <2>1. hook[h].pc # "off" /\ StageRow(h) /\ hook[h].node \in Nodes /\ hook[h].claim \in Claims
    BY <1>2, HookFacts DEF HookCase, StageRow
  <2>2. CacheRow(h)
    BY <2>1 DEF StageRow, LockRow, ExitRow, ExchangeRow
  <2>3. m = hook[h].node /\ d = hook[h].claim
    BY <2>1, <2>2 DEF CacheRow, DiskFrame, SameDisk
  <2> QED
    BY <2>2, <2>3, ConfigParts DEF CacheRow
<1>3. ASSUME NEW h \in Hooks, NEW n \in Nodes, NEW c \in Claims, StartCase(h, n, c)
      PROVE  FALSE
  BY <1>3 DEF StartCase, StartRow, DiskFrame, SameDisk
<1> QED
  BY <1>1, <1>2, <1>3, LifeSteps
     DEF LifeStep, PodRow, GuestRow, UserRow, ClaimRow, ReapRow, QuietRow

\* The client goes before the CDI state that records its ID (driver.go 239): a
\* cached config is only removed, by Remove or by a rollback (store.go), when
\* its client has been revoked, as long as configs can be read and written.
THEOREM StateGoesLast ==
    ASSUME SingleHome, ~HookOverlap, "configError" \notin FaultKinds
    PROVE  Spec => ClientGoesBeforeItsState
<1>1. TypeOK /\ RecordInv /\ ConfigInv /\ [Next]_vars
      => [\A n \in Nodes, c \in Claims :
            LET t == files[n][c].config
            IN t # None /\ files'[n][c].config # t => client[t] = "revoked"]_vars
  BY StateGoesNext
<1> QED
  BY <1>1, TypeCorrect, RecordInvariant, ConfigInvariant, PTL DEF Spec, ClientGoesBeforeItsState

-------------------------------------------------------------------------------
(* 4b. A teardown and the client of its own node, however many nodes use a claim *)

\* Which client the teardown on node n will revoke, or has revoked.
OwnClient(n) ==
    LET config == files[n][op[n].c].config
    IN /\ op[n].pc = "RevokeClient" => config = op[n].cid
       /\ op[n].pc \in {"Revoke", "CDILock", "CDIRemove"} =>
             config = None \/ client[config] = "revoked"

OwnClientInv ==
    /\ \A n \in Nodes : OwnClient(n)
    /\ \A n \in Nodes, c \in Claims :
          files[n][c].config # None => token[files[n][c].config] \in Used
    /\ \A h \in Hooks : hook[h].pc = "cache" => token[hook[h].tok] \in Used

\* What a step of the daemon does to a teardown and to configs.
TeardownView(n, c) ==
    /\ \A m \in Nodes \ {n} : op'[m] = op[m] /\ files'[m] = files[m]
    /\ \A d \in Claims \ {c} : SameDisk(n, d)
    /\ files'[n][c].config \in {None, files[n][c].config}
    /\ op[n].pc # "idle" => c = op[n].c
    /\ UsedStays
    /\ \/ op'[n].pc \notin {"RevokeClient", "Revoke", "CDILock", "CDIRemove"}
       \/ /\ op'[n].c = c /\ files'[n][c].config = files[n][c].config
          /\ \/ /\ op[n].pc = "StagedClientID" /\ op'[n].cid = files[n][c].config
                /\ op'[n].pc = IF op'[n].cid # None THEN "RevokeClient" ELSE "Revoke"
             \/ /\ op[n].pc = "RevokeClient" /\ op'[n].pc = "Revoke"
                /\ \A u \in Tokens : u = op[n].cid => client'[u] = "revoked"
             \/ /\ op[n].pc \in {"Revoke", "CDILock"} /\ client' = client
                /\ op'[n].pc \in {"CDILock", "CDIRemove"}

LEMMA TeardownRows ==
    ASSUME "configError" \notin FaultKinds, TypeOK, NEW n \in Nodes, NEW c \in Claims,
           DaemonRow(n, c)
    PROVE  TeardownView(n, c)
<1>1. /\ \A m \in Nodes \ {n} : op'[m] = op[m] /\ files'[m] = files[m]
      /\ \A d \in Claims \ {c} : SameDisk(n, d)
      /\ op[n].pc # "idle" => c = op[n].c
  BY DEF DaemonRow, Touches
<1>2. UsedStays /\ files'[n][c].config \in {None, files[n][c].config}
  BY DaemonUsed, DaemonDisk
<1> USE DEF GivesUp, Moves, Ends, SameDisk, Idle
<1>3. CASE GetRow(n, c)
  BY <1>1, <1>2, <1>3 DEF GetRow, TeardownView
<1>4. CASE ThunderRow(n, c)
  BY <1>1, <1>2, <1>4 DEF ThunderRow, Revokes, TeardownView
<1>5. CASE SecretRow(n, c)
  BY <1>1, <1>2, <1>5 DEF SecretRow, TeardownView
<1>6. CASE DiskRow(n, c)
  BY <1>1, <1>2, <1>6 DEF DiskRow, SameThunder, TeardownView
<1>7. CASE ReadRow(n, c)
  BY <1>1, <1>2, <1>7 DEF ReadRow, TeardownView
<1>8. CASE WriteRow(n, c)
  BY <1>1, <1>2, <1>8 DEF WriteRow, TeardownView
<1> QED
  BY <1>3, <1>4, <1>5, <1>6, <1>7, <1>8 DEF DaemonRow

LEMMA TeardownViews ==
    ASSUME "configError" \notin FaultKinds, TypeOK, NEW n \in Nodes, DriverStep(n)
    PROVE  \E c \in Claims : TeardownView(n, c)
<1>1. op[n].pc # "idle" => op[n].c \in Claims
  BY OpFacts
<1>2. CASE UpsertPut(n) \/ DeleteUpdate(n) \/ DeleteDelete(n)
  <2>1. TeardownView(n, op[n].c)
    BY <1>2, WriteFrame, ThunderUsed
       DEF TeardownView, Touches, SameDisk, GivesUp, Moves, Ends, Idle
  <2> QED
    BY <1>2, <2>1, WriteFrame
<1>3. CASE Mint(n) \/ UndoRevoke(n) \/ RevokeClient(n) \/ Revoke(n)
  <2>1. op[n].pc # "idle"
    BY <1>3 DEF Mint, UndoRevoke, RevokeClient, Revoke, At
  <2> QED
    BY <1>1, <1>3, <2>1, ThunderRows, TeardownRows
<1>4. CASE GuestCreate(n) \/ UndoGuest(n) \/ GuestRemove(n)
  BY <1>1, <1>4, SecretRows, TeardownRows DEF GuestCreate, UndoGuest, GuestRemove, At
<1>5. CASE CreateDevice(n) \/ UndoLock(n) \/ UndoCDI(n) \/ LockDevice(n) \/ RemoveDevice(n)
  BY <1>1, <1>5, DiskRows, TeardownRows
     DEF CreateDevice, UndoLock, UndoCDI, LockDevice, RemoveDevice, At
<1>6. CASE UpsertGet(n) \/ ReadStagedClient(n) \/ DeleteGet(n)
  <2>1. op[n].pc # "idle"
    BY <1>6 DEF UpsertGet, ReadStagedClient, DeleteGet, At
  <2> QED
    BY <1>1, <1>6, <2>1, ReadRows, TeardownRows
<1>7. ASSUME NEW c \in Claims, PrepareGet(n, c) \/ UnprepareGet(n, c)
      PROVE  TeardownView(n, c)
  BY <1>7, GetRows, TeardownRows
<1> QED
  BY <1>2, <1>3, <1>4, <1>5, <1>6, <1>7 DEF DriverStep, PrepareStep, UnprepareStep

\* Steps of anyone else, as far as a teardown can tell them apart.
LEMMA OwnStays ==
    ASSUME TypeOK, OwnClientInv, UsedStays,
           \A m \in Nodes : op'[m] = op[m] \/ op'[m] = Idle,
           \A m \in Nodes, d \in Claims : files'[m][d].config = files[m][d].config,
           \A g \in Hooks : hook'[g] = hook[g] \/ hook'[g].pc # "cache"
    PROVE  OwnClientInv'
<1>1. ASSUME NEW m \in Nodes PROVE OwnClient(m)'
  <2>1. CASE op'[m] = Idle \/ op[m].pc = "idle"
    BY <2>1 DEF OwnClient, Idle
  <2>2. CASE op'[m] = op[m] /\ op[m].pc # "idle"
    <3>1. op[m].c \in Claims /\ OwnClient(m)
      BY <2>2, OpFacts DEF OwnClientInv
    <3>2. /\ files[m][op[m].c].config \in Tokens \cup {None}
          /\ files[m][op[m].c].config # None => token[files[m][op[m].c].config] \in Used
      BY <3>1, PlaceFacts DEF OwnClientInv
    <3> QED
      BY <2>2, <3>1, <3>2 DEF OwnClient, UsedStays
  <2> QED
    BY <2>1, <2>2
<1>2. ASSUME NEW m \in Nodes, NEW d \in Claims, files'[m][d].config # None
      PROVE  token'[files'[m][d].config] \in Used
  BY <1>2, PlaceFacts DEF OwnClientInv, UsedStays
<1>3. ASSUME NEW g \in Hooks, hook'[g].pc = "cache" PROVE token'[hook'[g].tok] \in Used
  BY <1>3, HookFacts DEF OwnClientInv, UsedStays
<1> QED
  BY <1>1, <1>2, <1>3 DEF OwnClientInv

LEMMA OwnDaemon ==
    ASSUME "configError" \notin FaultKinds, TypeOK, OwnClientInv, NEW n \in Nodes,
           DriverStep(n), UNCHANGED hook
    PROVE  OwnClientInv'
<1>1. PICK c \in Claims : TeardownView(n, c)
  BY TeardownViews
<1>2. /\ files[n][c].config \in Tokens \cup {None}
      /\ files[n][c].config # None => token[files[n][c].config] \in Used
      /\ op[n].pc # "idle" => c = op[n].c
      /\ UsedStays
  BY <1>1, PlaceFacts DEF OwnClientInv, TeardownView
<1>3. OwnClient(n)'
  <2>1. CASE op'[n].pc \notin {"RevokeClient", "Revoke", "CDILock", "CDIRemove"}
    BY <2>1 DEF OwnClient
  <2>2. CASE op'[n].pc \in {"RevokeClient", "Revoke", "CDILock", "CDIRemove"}
    <3>1. OwnClient(n)
      BY DEF OwnClientInv
    <3>2. op'[n].c = c /\ files'[n][c].config = files[n][c].config /\ c = op[n].c
      BY <1>1, <2>2 DEF TeardownView
    <3> QED
      BY <1>1, <1>2, <2>2, <3>1, <3>2 DEF TeardownView, OwnClient
  <2> QED
    BY <2>1, <2>2
<1>4. ASSUME NEW m \in Nodes \ {n} PROVE OwnClient(m)'
  <2>1. op'[m] = op[m] /\ files'[m] = files[m] /\ OwnClient(m)
    BY <1>1 DEF TeardownView, OwnClientInv
  <2>2. CASE op[m].pc = "idle"
    BY <2>1, <2>2 DEF OwnClient
  <2>3. CASE op[m].pc # "idle"
    <3>1. /\ files[m][op[m].c].config \in Tokens \cup {None}
          /\ files[m][op[m].c].config # None => token[files[m][op[m].c].config] \in Used
      BY <2>3, OpFacts, PlaceFacts DEF OwnClientInv
    <3> QED
      BY <1>2, <2>1, <3>1 DEF OwnClient, UsedStays
  <2> QED
    BY <2>2, <2>3
<1>5. ASSUME NEW m \in Nodes, NEW d \in Claims, files'[m][d].config # None
      PROVE  token'[files'[m][d].config] \in Used
  <2>1. files'[m][d].config = files[m][d].config
    BY <1>1, <1>5 DEF TeardownView, SameDisk
  <2> QED
    BY <1>2, <1>5, <2>1, PlaceFacts DEF OwnClientInv, UsedStays
<1>6. ASSUME NEW g \in Hooks, hook'[g].pc = "cache" PROVE token'[hook'[g].tok] \in Used
  BY <1>2, <1>6, HookFacts DEF OwnClientInv, UsedStays
<1> QED
  BY <1>3, <1>4, <1>5, <1>6 DEF OwnClientInv

LEMMA OwnHook ==
    ASSUME TypeOK, CallInv, StageLockInv, OwnClientInv, NEW h \in Hooks, StageRow(h),
           UNCHANGED op
    PROVE  OwnClientInv'
<1> DEFINE n == hook[h].node
           c == hook[h].claim
<1>1. hook[h].pc # "off" /\ HookFrame(h) /\ n \in Nodes /\ c \in Claims
  BY HookFacts DEF StageRow
<1>2. UsedStays
  BY <1>1, HookFacts, ThunderUsed DEF StageRow, LockRow, ExitRow, ExchangeRow, CacheRow
<1>3. CASE CacheRow(h)
  <2>1. /\ files'[n][c].config = hook[h].tok /\ hook[h].pc = "cache" /\ hook'[h] = Off
        /\ \A m \in Nodes, d \in Claims : m # n \/ d # c => files'[m][d] = files[m][d]
    BY <1>1, <1>3 DEF CacheRow, DiskFrame, SameDisk, Exits
  <2>2. ASSUME NEW m \in Nodes PROVE OwnClient(m)'
    <3>1. CASE op[m].pc \notin {"RevokeClient", "Revoke", "CDILock", "CDIRemove"}
      BY <3>1 DEF OwnClient
    <3>2. CASE op[m].pc \in {"RevokeClient", "Revoke", "CDILock", "CDIRemove"}
      <4>1. op[m].c \in Claims /\ OwnClient(m) /\ kub[m][op[m].c] = "unpreparing"
        BY <3>2, OpFacts DEF OwnClientInv, CallInv, CallMatches, RevokePCs, ForgetPCs
      <4>2. kub[n][c] = "prepared"
        BY <1>1 DEF StageLockInv, HasStageLock
      <4>3. files'[m][op[m].c] = files[m][op[m].c]
        BY <2>1, <4>1, <4>2
      <4>4. /\ files[m][op[m].c].config \in Tokens \cup {None}
            /\ files[m][op[m].c].config # None => token[files[m][op[m].c].config] \in Used
        BY <4>1, PlaceFacts DEF OwnClientInv
      <4> QED
        BY <1>2, <4>1, <4>3, <4>4 DEF OwnClient, UsedStays
    <3> QED
      BY <3>1, <3>2
  <2>3. ASSUME NEW m \in Nodes, NEW d \in Claims, files'[m][d].config # None
        PROVE  token'[files'[m][d].config] \in Used
    <3>1. CASE m = n /\ d = c
      BY <1>2, <2>1, <3>1, HookFacts DEF OwnClientInv, UsedStays
    <3>2. CASE m # n \/ d # c
      BY <1>2, <2>1, <2>3, <3>2, PlaceFacts DEF OwnClientInv, UsedStays
    <3> QED
      BY <3>1, <3>2
  <2>4. ASSUME NEW g \in Hooks, hook'[g].pc = "cache" PROVE token'[hook'[g].tok] \in Used
    BY <1>1, <1>2, <2>1, <2>4, HookFacts DEF HookFrame, Off, OwnClientInv, UsedStays
  <2> QED
    BY <2>2, <2>3, <2>4 DEF OwnClientInv
<1>4. CASE ~CacheRow(h)
  <2>1. files' = files
    BY <1>4 DEF StageRow, LockRow, ExitRow, ExchangeRow
  <2>2. CASE hook'[h].pc = "cache"
    <3>1. ExchangeRow(h) /\ hook[h].pc = "exchange" /\ Spends(hook[h].tok) /\ hook'[h].tok = hook[h].tok
      BY <1>4, <2>2 DEF StageRow, LockRow, ExitRow, ExchangeRow, Exits, GoesOn, Off
    <3>2. ASSUME NEW g \in Hooks, hook'[g].pc = "cache" PROVE token'[hook'[g].tok] \in Used
      <4>1. CASE g = h
        BY <3>1, <4>1 DEF Spends, Used
      <4>2. CASE g # h
        BY <1>1, <1>2, <3>2, <4>2, HookFacts DEF HookFrame, OwnClientInv, UsedStays
      <4> QED
        BY <4>1, <4>2
    <3>3. ASSUME NEW m \in Nodes PROVE OwnClient(m)'
      <4>1. CASE op[m].pc = "idle"
        BY <4>1 DEF OwnClient
      <4>2. CASE op[m].pc # "idle"
        <5>1. /\ op[m].c \in Claims /\ OwnClient(m)
              /\ files[m][op[m].c].config \in Tokens \cup {None}
              /\ files[m][op[m].c].config # None => token[files[m][op[m].c].config] \in Used
          BY <4>2, OpFacts, PlaceFacts DEF OwnClientInv
        <5> QED
          BY <1>2, <2>1, <5>1 DEF OwnClient, UsedStays
      <4> QED
        BY <4>1, <4>2
    <3>4. ASSUME NEW m \in Nodes, NEW d \in Claims, files'[m][d].config # None
          PROVE  token'[files'[m][d].config] \in Used
      BY <1>2, <2>1, <3>4, PlaceFacts DEF OwnClientInv, UsedStays
    <3> QED
      BY <3>2, <3>3, <3>4 DEF OwnClientInv
  <2>3. CASE hook'[h].pc # "cache"
    BY <1>1, <1>2, <2>1, <2>3, OwnStays DEF HookFrame
  <2> QED
    BY <2>2, <2>3
<1> QED
  BY <1>3, <1>4

LEMMA OwnNext ==
    ASSUME "configError" \notin FaultKinds, TypeOK, CallInv, StageLockInv, OwnClientInv,
           [Next]_vars
    PROVE  OwnClientInv'
<1>a. UsedStays /\ UNCHANGED <<op, files, hook>> => OwnClientInv'
  BY OwnStays
<1>b. UNCHANGED thunderVars => UsedStays
  BY ThunderUsed DEF SameThunder, thunderVars
<1>1. ASSUME NEW n \in Nodes, DaemonStep(n) PROVE OwnClientInv'
  BY <1>1, OwnDaemon DEF DaemonStep
<1>2. ASSUME NEW h \in Hooks, StageStep(h) PROVE OwnClientInv'
  BY <1>2, StageRows, OwnHook DEF StageStep, driverVars
<1>3. CASE OperatorStep
  <2>1. UNCHANGED <<op, files, hook>>
    BY <1>3 DEF OperatorStep, cdiVars, driverVars
  <2>2. UsedStays
    <3>1. CASE ReapUnenroll
      BY <3>1, <1>b DEF ReapUnenroll, Remote, UnenrollClient, UsedStays, Used, TypeOK, ThunderTypeOK
    <3>2. CASE \/ ListClients \/ FinishPass \/ ReapUpdate \/ ReapDelete
               \/ \E c \in Claims : Examine(c)
      <4>1. UNCHANGED thunderVars
        BY ONLY <3>2 DEF ListClients, FinishPass, Examine, ReapUpdate, ReapDelete
      <4> QED
        BY <1>b, <4>1
    <3> QED
      BY <1>3, <3>1, <3>2 DEF OperatorStep, ReaperStep
  <2> QED
    BY <1>a, <2>1, <2>2
<1>4. CASE UNCHANGED vars \/ \E c \in Claims : Grace(c)
  BY <1>4, <1>a, <1>b DEF vars, Grace, GraceElapses, cdiVars, driverVars
<1>5. CASE Environment
  <2>1. ASSUME NEW c \in Claims, CreateClaim(c) \/ DeleteClaim(c) \/ DeleteResource(c)
        PROVE  OwnClientInv'
    BY <2>1, <1>a, <1>b
       DEF CreateClaim, DeleteClaim, DeleteResource, AllExceptClaim, cdiVars, driverVars
  <2>2. ASSUME NEW n \in Nodes, NEW c \in Claims, StartPod(n, c) \/ StopPod(n, c)
        PROVE  OwnClientInv'
    BY <2>2, <1>a, <1>b DEF StartPod, StopPod, Kubelet, cdiVars
  <2>3. ASSUME NEW n \in Nodes, NEW c \in Claims, GuestEnrolls(n, c) PROVE OwnClientInv'
    <3>1. UNCHANGED <<op, files, hook>> /\ ExchangeToken(secret[NameOf[c]])
      BY <2>3 DEF GuestEnrolls, cdiVars, driverVars
    <3>2. UsedStays
      BY <3>1 DEF ExchangeToken, UsedStays, Used, TypeOK, ThunderTypeOK
    <3> QED
      BY <1>a, <3>1, <3>2
  <2>4. ASSUME NEW h \in Hooks, NEW n \in Nodes, NEW c \in Claims, StartContainer(h, n, c)
        PROVE  OwnClientInv'
    <3>1. StartRow(h, n, c) /\ UNCHANGED op
      BY <2>4, StartRows DEF StartContainer, driverVars
    <3>2. /\ UsedStays
          /\ \A m \in Nodes, d \in Claims : files'[m][d].config = files[m][d].config
          /\ \A g \in Hooks : hook'[g] = hook[g] \/ hook'[g].pc # "cache"
      BY <3>1, ThunderUsed DEF StartRow, DiskFrame, SameDisk, HookFrame
    <3> QED
      BY <3>1, <3>2, OwnStays
  <2> QED
    BY <1>5, <2>1, <2>2, <2>3, <2>4 DEF Environment
<1>6. CASE Crash
  <2>1. ASSUME NEW n \in Nodes, DaemonCrash(n), UNCHANGED hook PROVE OwnClientInv'
    <3>1. UNCHANGED <<files, thunderVars>> /\ \A m \in Nodes : op'[m] = op[m] \/ op'[m] = Idle
      BY <2>1, OpEffects DEF DaemonCrash, OthersStay
    <3> QED
      BY <1>b, <2>1, <3>1, OwnStays
  <2>2. ASSUME NEW h \in Hooks, HookCrash(h), UNCHANGED driverVars PROVE OwnClientInv'
    BY <2>2, CrashRow, OwnHook DEF driverVars
  <2>3. CASE OperatorCrash /\ UNCHANGED <<cdiVars, driverVars, hook>>
    BY <2>3, <1>a, <1>b DEF OperatorCrash, cdiVars, driverVars
  <2>4. ASSUME NEW n \in Nodes, NodeLoss(n) PROVE OwnClientInv'
    BY <2>4, <1>a, <1>b DEF NodeLoss, cdiVars
  <2> QED
    BY <1>6, <2>1, <2>2, <2>3, <2>4 DEF Crash
<1> QED
  BY <1>1, <1>2, <1>3, <1>4, <1>5, <1>6 DEF Next

\* Whatever nodes share a claim (no SingleHome here), and whatever else fails, a
\* teardown removes its node's cached config only after revoking the client it
\* names (driver.go 239-247): the client it read before it started to revoke is
\* still the cached one, because no hook runs on the node meanwhile.
THEOREM TeardownRevokesItsOwn ==
    ASSUME ~HookOverlap, "configError" \notin FaultKinds
    PROVE  Spec => UnprepareRevokesItsOwn
<1>1. Init => OwnClientInv
  <2> SUFFICES ASSUME Init PROVE OwnClientInv
    OBVIOUS
  <2>1. /\ \A n \in Nodes : op[n].pc = "idle" /\ \A c \in Claims : files[n][c].config = None
        /\ \A h \in Hooks : hook[h].pc = "off"
    BY DEF Init, DriverInit, Idle, CDIInit, NoFiles, HookInit, Off
  <2> QED
    BY <2>1 DEF OwnClientInv, OwnClient
<1>2. TypeOK /\ CallInv /\ StageLockInv /\ OwnClientInv /\ [Next]_vars => OwnClientInv'
  BY OwnNext
<1>3. OwnClientInv =>
        [\A n \in Nodes : op[n].pc = "CDIRemove" =>
            LET t == files[n][op[n].c].config
            IN t # None /\ files'[n][op[n].c].config # t => client[t] = "revoked"]_vars
  BY DEF OwnClientInv, OwnClient
<1> QED
  BY <1>1, <1>2, <1>3, TypeCorrect, CallInvariant, StageLockInvariant, PTL
     DEF Spec, UnprepareRevokesItsOwn

-------------------------------------------------------------------------------
(* 5. Setup Secrets *)

InUse == {"preparing", "prepared"}

LEMMA SecretParts ==
    /\ SecretInv <=>
          /\ \A n \in Nodes : (op[n].pc \in UndoPCs => record[op[n].c] = None) /\ SecretOfCall(n)
          /\ \A c \in Claims : \A n \in Homes[c] :
                record[c] # None /\ kub[n][c] \in InUse => secret[NameOf[c]] = record[c].token
    /\ SecretInv' <=>
          /\ \A n \in Nodes : /\ op'[n].pc \in UndoPCs => record'[op'[n].c] = None
                              /\ SecretOfCall(n)'
          /\ \A c \in Claims : \A n \in Homes[c] :
                record'[c] # None /\ kub'[n][c] \in InUse => secret'[NameOf[c]] = record'[c].token
BY DEF SecretInv, InUse

\* A rollback starts, and stays, without a record.
LEMMA UndoCall ==
    ASSUME "lostReply" \notin FaultKinds, TypeOK, RecordInv, SecretInv,
           NEW n \in Nodes, NEW c \in Claims, DaemonRow(n, c), op'[n].pc \in UndoPCs
    PROVE  op'[n].c = c /\ record'[c] = None
<1> USE DEF GivesUp, Moves, Ends, UndoPCs
<1>a. /\ op[n].pc # "idle" => c = op[n].c
      /\ op[n].pc \in PreparePCs \cup UndoPCs => record[op[n].c] = None
      /\ Idle.pc = "idle"
  BY SecretParts, RecordInvParts DEF DaemonRow, NodeOK, Idle
<1>b. PreparePCs = {"Mint", "GuestCreate", "CDICreate", "UpsertGet", "UpsertPut"}
  BY DEF PreparePCs
<1>1. CASE GetRow(n, c)
  BY <1>1, <1>a DEF GetRow
<1>2. CASE ThunderRow(n, c)
  BY <1>2, <1>a DEF ThunderRow
<1>3. CASE SecretRow(n, c)
  BY <1>3, <1>a, <1>b DEF SecretRow, Kept
<1>4. CASE DiskRow(n, c)
  BY <1>4, <1>a, <1>b DEF DiskRow, Kept
<1>5. CASE ReadRow(n, c)
  BY <1>5, <1>a, <1>b DEF ReadRow, Kept
<1>6. CASE WriteRow(n, c)
  BY <1>6, <1>a, <1>b DEF WriteRow, Kept
<1> QED
  BY <1>1, <1>2, <1>3, <1>4, <1>5, <1>6 DEF DaemonRow

LEMMA DaemonSecrets ==
    ASSUME SingleHome, OwnNames, "lostReply" \notin FaultKinds, TypeOK, RecordInv, CallInv,
           SecretInv, \A m \in Nodes : SecretOfCall(m)',
           NEW n \in Nodes, NEW c \in Claims, DaemonCase(n, c)
    PROVE  SecretInv'
<1>1. DaemonRow(n, c) /\ Touches(n, c)
  BY DEF DaemonCase, DaemonRow
<1>2. ASSUME NEW m \in Nodes, op'[m].pc \in UndoPCs PROVE record'[op'[m].c] = None
  <2>1. CASE m = n
    BY <1>1, <1>2, <2>1, UndoCall
  <2>2. CASE m # n
    <3>1. op'[m] = op[m] /\ op[m].pc # "idle"
      BY <1>1, <1>2, <2>2 DEF Touches, UndoPCs
    <3> QED
      BY <1>1, <1>2, <2>2, <3>1, OtherCalls, SecretParts DEF Kept
  <2> QED
    BY <2>1, <2>2
<1>3. ASSUME NEW d \in Claims, NEW m \in Homes[d], record'[d] # None, kub'[m][d] \in InUse
      PROVE  secret'[NameOf[d]] = record'[d].token
  <2>1. m \in Nodes
    BY LifecycleAssumption
  <2>2. CASE d # c
    BY <1>1, <1>3, <2>1, <2>2, OtherPlaces, SecretParts DEF SameKub, Kept
  <2>3. CASE d = c /\ op[n].pc = "idle"
    <3>1. GetRow(n, c)
      BY <1>1, <2>3 DEF DaemonRow, ThunderRow, SecretRow, DiskRow, ReadRow, WriteRow
    <3>2. secret' = secret /\ Kept(c) /\ kub[m][c] \in InUse
      BY <1>1, <1>3, <2>1, <2>3, <3>1 DEF GetRow, Touches, GivesUp, Ends, InUse, Kept
    <3> QED
      BY <1>3, <2>3, <3>2, SecretParts DEF Kept
  <2>4. CASE d = c /\ op[n].pc # "idle"
    <3>1. m = n /\ c = op[n].c /\ PlaceView(n, c) /\ RecordView(n, c)
      BY <1>1, <2>4, PlaceViews, RecordViews, Home
    <3>2. CASE op[n].pc = "UpsertPut" /\ Created(c, op[n].tok) /\ secret' = secret
      BY <2>4, <3>1, <3>2, SecretParts DEF SecretOfCall, Created
    <3>3. CASE Kept(c) \/ Rewritten(c)
      <4>1. record[c] # None
        BY <1>3, <2>4, <3>3 DEF Kept, Rewritten
      <4>2. op[n].pc \notin PreparePCs \cup UndoPCs
        BY <3>1, <4>1, SecretParts, RecordInvParts DEF NodeOK
      <4>3. kub[n][c] = "unpreparing"
        BY <2>4, <3>1, <4>2, OpFacts DEF CallInv, CallMatches, Operation
      <4> QED
        BY <1>3, <2>4, <3>1, <4>1, <4>2, <4>3
           DEF RecordView, InUse, Released, Deleted, PreparePCs
    <3> QED
      BY <3>1, <3>2, <3>3, RecordInvParts, <1>3, <2>4 DEF PlaceView, NodeOK, Kept
  <2> QED
    BY <2>2, <2>3, <2>4
<1> QED
  BY <1>2, <1>3, SecretParts

LEMMA SecretNext ==
    ASSUME SingleHome, OwnNames, "lostReply" \notin FaultKinds, TypeOK, RecordInv, CallInv,
           RecordStandsInv, SecretInv, [Next]_vars
    PROVE  SecretInv'
<1>a. LifeStep /\ \A m \in Nodes : SecretOfCall(m)'
  BY LifeSteps, SecretOfCallNext, SecretParts
<1>b. ASSUME UNCHANGED secret, \A m \in Nodes : op'[m] = op[m] \/ op'[m] = Idle,
             \A c \in Claims : Kept(c) \/ Rewritten(c),
             \A n \in Nodes, c \in Claims :
                 kub'[n][c] \in InUse => kub[n][c] \in InUse \/ record[c] = None
      PROVE  SecretInv'
  <2>1. \A c \in Claims : record[c] = None => record'[c] = None
    BY <1>b DEF Kept, Rewritten
  <2>2. ASSUME NEW m \in Nodes, op'[m].pc \in UndoPCs PROVE record'[op'[m].c] = None
    <3>1. op'[m] = op[m] /\ op[m].c \in Claims
      BY <1>b, <2>2, OpFacts DEF Idle, UndoPCs
    <3> QED
      BY <2>1, <2>2, <3>1, SecretParts
  <2>3. ASSUME NEW c \in Claims, NEW n \in Homes[c], record'[c] # None, kub'[n][c] \in InUse
        PROVE  secret'[NameOf[c]] = record'[c].token
    <3>1. n \in Nodes
      BY LifecycleAssumption
    <3>2. record[c] # None /\ record'[c].token = record[c].token /\ kub[n][c] \in InUse
      BY <1>b, <2>1, <2>3, <3>1 DEF Kept, Rewritten
    <3> QED
      BY <1>b, <3>2, SecretParts
  <2> QED
    BY <1>a, <2>2, <2>3, SecretParts
<1>c. /\ AllKept => \A c \in Claims : Kept(c)
      /\ UNCHANGED kub =>
            \A n \in Nodes, c \in Claims : kub'[n][c] \in InUse => kub[n][c] \in InUse
      /\ UNCHANGED op => \A m \in Nodes : op'[m] = op[m]
  BY DEF AllKept
<1>1. ASSUME NEW n \in Nodes, NEW c \in Claims, DaemonCase(n, c) PROVE SecretInv'
  BY <1>1, <1>a, DaemonSecrets
<1>2. ASSUME NEW n \in Nodes, NEW c \in Claims, PodRow(n, c) PROVE SecretInv'
  <2>1. \A m \in Nodes, d \in Claims :
           kub'[m][d] \in InUse => kub[m][d] \in InUse \/ record[d] = None
    BY <1>2 DEF PodRow, SameKub, InUse, RecordStandsInv, RecordStands
  <2> QED
    BY <1>2, <1>b, <1>c, <2>1 DEF PodRow
<1>3. ASSUME NEW n \in Nodes, NEW c \in Claims, GuestRow(n, c) PROVE SecretInv'
  BY <1>3, <1>b, <1>c DEF GuestRow
<1>4. ASSUME NEW h \in Hooks, HookCase(h) PROVE SecretInv'
  BY <1>4, <1>b, <1>c DEF HookCase
<1>5. ASSUME NEW h \in Hooks, NEW n \in Nodes, NEW c \in Claims, StartCase(h, n, c)
      PROVE  SecretInv'
  BY <1>5, <1>b, <1>c DEF StartCase
<1>6. ASSUME NEW c \in Claims, UserRow(c) PROVE SecretInv'
  BY <1>6, <1>b, <1>c DEF UserRow, OthersKept, Deleted
<1>7. ASSUME NEW c \in Claims, ClaimRow(c) PROVE SecretInv'
  BY <1>7, <1>b, <1>c DEF ClaimRow
<1>8. CASE ReapRow
  <2>1. \A c \in Claims : Kept(c) \/ Rewritten(c)
    BY <1>8, <1>c DEF ReapRow, OthersKept, Released, Deleted
  <2> QED
    BY <1>8, <1>b, <1>c, <2>1 DEF ReapRow
<1>9. CASE QuietRow
  BY <1>9, <1>b, <1>c DEF QuietRow
<1> QED
  BY <1>a, <1>1, <1>2, <1>3, <1>4, <1>5, <1>6, <1>7, <1>8, <1>9 DEF LifeStep

\* The setup Secret of a claim that is being prepared, or is, holds the token
\* on record, when claims have names of their own and no reply is lost.
THEOREM SecretInvariant ==
    ASSUME SingleHome, OwnNames, "lostReply" \notin FaultKinds
    PROVE  Spec => []SecretInv
<1>1. Init => SecretInv
  <2> SUFFICES ASSUME Init PROVE SecretInv
    OBVIOUS
  <2>1. /\ \A n \in Nodes : op[n].pc = "idle"
        /\ \A c \in Claims : record[c] = None
    BY DEF Init, DriverInit, Idle, KubeInit
  <2> QED
    BY <2>1 DEF SecretInv, SecretOfCall, UndoPCs
<1>2. TypeOK /\ RecordInv /\ CallInv /\ RecordStandsInv /\ SecretInv /\ [Next]_vars => SecretInv'
  BY SecretNext
<1> QED
  BY <1>1, <1>2, TypeCorrect, RecordInvariant, CallInvariant, RecordStandsInvariant, PTL DEF Spec

\* A prepared VM mounts the token of its own claim's record (store.go,
\* KubernetesGuestConfigStore), whichever hooks, crashes and rollbacks came
\* before, unless a reply is lost or another claim has its name.
THEOREM SecretsAreTheClaims ==
    ASSUME SingleHome, OwnNames, "lostReply" \notin FaultKinds
    PROVE  Spec => []SecretIsTheClaims
<1>1. TypeOK /\ RecordInv /\ SecretInv => SecretIsTheClaims
  BY Home, SecretParts DEF SecretIsTheClaims, InUse
<1> QED
  BY <1>1, TypeCorrect, RecordInvariant, SecretInvariant, PTL

-------------------------------------------------------------------------------
(* 6. Tokens *)

LEMMA TokenTypes ==
    ASSUME TypeOK, RecordInv, NEW c \in Claims, NEW t, TokenOf(c, t)
    PROVE  t \in Tokens /\ token[t] # "none"
<1>1. \A n \in Nodes : NodeOK(n) /\ ClaimOK(c) /\ ItemOK(c)
  BY RecordInvParts
<1>2. /\ record[c] # None => record[c].token \in Tokens /\ token[record[c].token] # "none"
      /\ pass.items[c] # None =>
            pass.items[c].token \in Tokens /\ token[pass.items[c].token] # "none"
  BY RecordFacts DEF RecordInv, RecordedIsMinted, ListedIsCurrent
<1> QED
  BY <1>1, <1>2, OpFacts DEF TokenOf, NodeOK

\* The operations of the daemons name no token that their claims had not.
SameTokens ==
    \A n \in Nodes : op'[n].pc \notin {"idle", "Mint"} =>
        op'[n].c \in Claims /\ TokenOf(op'[n].c, op'[n].tok)

LEMMA TokensStay ==
    ASSUME TypeOK, RecordInv, SameTokens,
           \A c \in Claims : record'[c] # None => TokenOf(c, record'[c].token),
           \A c \in Claims : pass'.items[c] # None => TokenOf(c, pass'.items[c].token),
           TokenInv
    PROVE  TokenInv'
<1>1. ASSUME NEW c \in Claims, NEW t \in Tokens, TokenOf(c, t)' PROVE TokenOf(c, t)
  BY <1>1 DEF TokenOf, SameTokens
<1> QED
  BY <1>1 DEF TokenInv

\* The token a daemon works with is its claim's, or has just been minted.
LEMMA CallTokens ==
    ASSUME TypeOK, NEW n \in Nodes, NEW c \in Claims, DaemonRow(n, c),
           op'[n].pc \notin {"idle", "Mint"}
    PROVE  /\ op'[n].c = c
           /\ TokenOf(c, op'[n].tok) \/ (op'[n].tok \in Tokens /\ token[op'[n].tok] = "none")
<1> USE DEF GivesUp, Moves, Ends, TokenOf
<1>a. (op[n].pc # "idle" => c = op[n].c) /\ Idle.pc = "idle"
  BY DEF DaemonRow, Idle
<1>1. CASE GetRow(n, c)
  BY <1>1, <1>a DEF GetRow
<1>2. CASE ThunderRow(n, c)
  BY <1>2, <1>a DEF ThunderRow
<1>3. CASE SecretRow(n, c)
  BY <1>3, <1>a DEF SecretRow
<1>4. CASE DiskRow(n, c)
  BY <1>4, <1>a DEF DiskRow
<1>5. CASE ReadRow(n, c)
  BY <1>5, <1>a DEF ReadRow
<1>6. CASE WriteRow(n, c)
  BY <1>6, <1>a DEF WriteRow
<1> QED
  BY <1>1, <1>2, <1>3, <1>4, <1>5, <1>6 DEF DaemonRow

LEMMA DaemonTokens ==
    ASSUME TypeOK, RecordInv, CallInv, TokenInv,
           NEW n \in Nodes, NEW c \in Claims, DaemonCase(n, c)
    PROVE  TokenInv'
<1>1. DaemonRow(n, c) /\ Touches(n, c) /\ UNCHANGED pass
  BY DEF DaemonCase, DaemonRow
<1>2. ASSUME NEW d \in Claims, record'[d] # None PROVE TokenOf(d, record'[d].token)
  <2>1. CASE record[d] # None /\ record'[d].token = record[d].token
    BY <2>1 DEF TokenOf
  <2>2. CASE d = c /\ op[n].pc = "UpsertPut" /\ record'[d].token = op[n].tok
    BY <1>1, <2>2 DEF TokenOf, DaemonRow
  <2> QED
    BY <1>1, <1>2, <2>1, <2>2, RecordViews
       DEF Touches, RecordView, Kept, Created, Released, Deleted, Rewritten
<1>3. ASSUME NEW d \in Claims, pass'.items[d] # None PROVE TokenOf(d, pass'.items[d].token)
  BY <1>1, <1>3 DEF TokenOf
<1>4. ASSUME NEW m \in Nodes, m # n, op'[m].pc \notin {"idle", "Mint"}
      PROVE  op'[m].c \in Claims /\ TokenOf(op'[m].c, op'[m].tok)
  BY <1>1, <1>4, OpFacts DEF Touches, TokenOf
<1>5. ASSUME NEW d \in Claims, NEW t \in Tokens, TokenOf(d, t)'
      PROVE  TokenOf(d, t) \/ (d = c /\ token[t] = "none")
  BY <1>1, <1>2, <1>3, <1>4, <1>5, CallTokens DEF TokenOf
<1>6. \A d \in Claims, t \in Tokens : TokenOf(d, t) => token[t] # "none"
  BY TokenTypes
<1> QED
  BY <1>5, <1>6 DEF TokenInv

LEMMA TokenNext ==
    ASSUME TypeOK, RecordInv, CallInv, TokenInv, [Next]_vars
    PROVE  TokenInv'
<1>1. LifeStep
  BY LifeSteps
<1>2. ASSUME NEW n \in Nodes, NEW c \in Claims, DaemonCase(n, c) PROVE TokenInv'
  BY <1>2, DaemonTokens
<1>3. ASSUME \A m \in Nodes : op'[m] = op[m] \/ op'[m] = Idle,
             \A c \in Claims : Kept(c) \/ Rewritten(c),
             \A c \in Claims : pass'.items[c] \in {None, record[c], pass.items[c]}
      PROVE  TokenInv'
  <2>1. SameTokens
    BY <1>3, OpFacts DEF SameTokens, TokenOf, Idle
  <2>2. /\ \A c \in Claims : record'[c] # None => TokenOf(c, record'[c].token)
        /\ \A c \in Claims : pass'.items[c] # None => TokenOf(c, pass'.items[c].token)
    BY <1>3 DEF Kept, Rewritten, TokenOf
  <2> QED
    BY <2>1, <2>2, TokensStay
<1>4. /\ UNCHANGED op => \A m \in Nodes : op'[m] = op[m]
      /\ AllKept => \A c \in Claims : Kept(c)
      /\ UNCHANGED pass \/ pass' = NoPass \/ PassRow =>
            \A c \in Claims : pass'.items[c] \in {None, record[c], pass.items[c]}
  BY DEF AllKept, NoPass, PassRow
<1>5. CASE ReapRow
  <2>1. \A c \in Claims : Kept(c) \/ Rewritten(c)
    BY <1>5, <1>4 DEF ReapRow, OthersKept, Released, Deleted
  <2> QED
    BY <1>3, <1>4, <1>5, <2>1 DEF ReapRow
<1>6. ASSUME NEW c \in Claims, UserRow(c) PROVE TokenInv'
  BY <1>3, <1>4, <1>6 DEF UserRow, OthersKept, Deleted
<1>7. ASSUME UNCHANGED <<op, pass>>, AllKept PROVE TokenInv'
  BY <1>3, <1>4, <1>7
<1>8. CASE QuietRow
  BY <1>3, <1>4, <1>8 DEF QuietRow
<1> QED
  BY <1>1, <1>2, <1>5, <1>6, <1>7, <1>8
     DEF LifeStep, PodRow, GuestRow, HookCase, StartCase, ClaimRow

\* No enrollment token is ever two claims': not in a resource, in the operator's
\* list or in a daemon's hands (driver.go prepareOne, clients.go reap), so what
\* is revoked for one claim is never another's.
THEOREM TokenInvariant ==
    ASSUME SingleHome
    PROVE  Spec => []TokenInv
<1>1. Init => TokenInv
  <2> SUFFICES ASSUME Init PROVE TokenInv
    OBVIOUS
  <2>1. /\ \A n \in Nodes : op[n].pc = "idle"
        /\ \A c \in Claims : record[c] = None /\ pass.items[c] = None
    BY DEF Init, DriverInit, Idle, KubeInit, ReaperInit, NoPass
  <2> QED
    BY <2>1 DEF TokenInv, TokenOf
<1>2. TypeOK /\ RecordInv /\ CallInv /\ TokenInv /\ [Next]_vars => TokenInv'
  BY TokenNext
<1> QED
  BY <1>1, <1>2, TypeCorrect, RecordInvariant, CallInvariant, PTL DEF Spec

-------------------------------------------------------------------------------
(* 7. Claims that can be used *)

\* Nothing that a client depends on is lost, and containers only use claims.
NoneLost ==
    /\ {"lostReply", "configError", "hookCrash"} \cap FaultKinds = {}
    /\ VMClaims = {}

LEMMA UsableParts ==
    /\ UsableInv <=>
          /\ \A n \in Nodes :
                /\ op[n].pc \in PreparePCs \ {"Mint"} /\ claim[op[n].c] # "gone" =>
                      token[op[n].tok] = "unspent"
                /\ op[n].pc \in {"UpsertGet", "UpsertPut"} => files[n][op[n].c].spec
          /\ \A c \in Claims : \A n \in Homes[c] :
                claim[c] # "gone" /\ record[c] # None /\ kub[n][c] \in InUse =>
                    files[n][c].spec /\ Usable(n, c, record[c].token)
          /\ \A h \in Hooks :
                hook[h].pc \in {"exchange", "cache"} /\ claim[hook[h].claim] # "gone" =>
                    record[hook[h].claim].token = hook[h].tok
          /\ \A t \in Tokens : client[t] = "live" =>
                \/ \E h \in Hooks : hook[h].pc = "cache" /\ hook[h].tok = t
                \/ \E n \in Nodes, c \in Claims : files[n][c].config = t
    /\ UsableInv' <=>
          /\ \A n \in Nodes :
                /\ op'[n].pc \in PreparePCs \ {"Mint"} /\ claim'[op'[n].c] # "gone" =>
                      token'[op'[n].tok] = "unspent"
                /\ op'[n].pc \in {"UpsertGet", "UpsertPut"} => files'[n][op'[n].c].spec
          /\ \A c \in Claims : \A n \in Homes[c] :
                claim'[c] # "gone" /\ record'[c] # None /\ kub'[n][c] \in InUse =>
                    files'[n][c].spec /\ Usable(n, c, record[c].token)'
          /\ \A h \in Hooks :
                hook'[h].pc \in {"exchange", "cache"} /\ claim'[hook'[h].claim] # "gone" =>
                    record'[hook'[h].claim].token = hook'[h].tok
          /\ \A t \in Tokens : client'[t] = "live" =>
                \/ \E h \in Hooks : hook'[h].pc = "cache" /\ hook'[h].tok = t
                \/ \E n \in Nodes, c \in Claims : files'[n][c].config = t
BY DEF UsableInv, InUse

\* A hook that spends a token goes on to cache the client it got.
Caches(h, t) ==
    /\ HookCase(h) /\ ExchangeRow(h) /\ hook[h].pc = "exchange" /\ hook[h].tok = t
    /\ Spends(t) /\ GoesOn(h, "cache") /\ hook'[h].tok = t

LEMMA SpendingCaches ==
    ASSUME NoneLost, TypeOK, NEW h \in Hooks, HookCase(h), ~SameThunder
    PROVE  \E t \in Tokens : Caches(h, t)
<1>1. ExchangeRow(h)
  BY DEF HookCase, StageRow, LockRow, ExitRow, CacheRow
<1>2. hook[h].pc = "exchange" /\ hook[h].tok \in Tokens /\ Spends(hook[h].tok)
  BY <1>1, HookFacts DEF ExchangeRow
<1>3. GoesOn(h, "cache") /\ hook'[h].tok = hook[h].tok
  BY <1>1, <1>2 DEF ExchangeRow, NoneLost, Spends, SameThunder
<1> QED
  BY <1>1, <1>2, <1>3 DEF Caches

\* An unspent token of a claim that exists stays so, until its own daemon
\* revokes it or its own hook spends it.
LEMMA UnspentStays ==
    ASSUME SingleHome, NoneLost, LifeInv, LifeStep, NEW c \in Claims, claim[c] # "gone",
           NEW t \in Tokens, TokenOf(c, t), token[t] = "unspent"
    PROVE  \/ token'[t] = "unspent"
           \/ \E n \in Nodes : op[n].pc \in {"UndoRevoke", "Revoke"} /\ op[n].c = c
           \/ \E h \in Hooks : Caches(h, t) /\ hook[h].claim = c
<1> USE DEF LifeInv
<1>1. \A d \in Claims : TokenOf(d, t) => d = c
  BY DEF TokenInv
<1>2. ASSUME NEW n \in Nodes, NEW d \in Claims, DaemonCase(n, d), token'[t] # "unspent"
      PROVE  op[n].pc \in {"UndoRevoke", "Revoke"} /\ op[n].c = c
  <2>1. ThunderRow(n, d)
    BY <1>2 DEF DaemonCase, DaemonRow, GetRow, SecretRow, DiskRow, ReadRow, WriteRow, SameThunder
  <2>2. op[n].pc \in {"UndoRevoke", "Revoke"} /\ op[n].tok = t
    BY <1>2, <2>1, OpFacts DEF ThunderRow, SameThunder, Revokes
  <2>3. op[n].c \in Claims /\ TokenOf(op[n].c, t)
    BY <2>2, OpFacts DEF TokenOf
  <2> QED
    BY <1>1, <2>2, <2>3
<1>3. ASSUME NEW h \in Hooks, HookCase(h), token'[t] # "unspent"
      PROVE  Caches(h, t) /\ hook[h].claim = c
  <2>1. PICK u \in Tokens : Caches(h, u)
    BY <1>3, SpendingCaches DEF SameThunder
  <2>2. u = t
    BY <1>3, <2>1 DEF Caches, Spends
  <2>3. hook[h].claim \in Claims /\ Vouched(hook[h].claim, t)
    BY <2>1, <2>2, HookFacts DEF Caches, VouchedInv
  <2>4. TokenOf(hook[h].claim, t)
    BY <2>3, DeploymentAssumption DEF Vouched, TokenOf
  <2> QED
    BY <1>1, <2>1, <2>2, <2>3, <2>4
<1>4. CASE ReapRow
  <2>1. CASE pass.pc = "Unenroll" /\ Revokes(pass.items[pass.cur].token)
    <3>1. claim[pass.cur] = "gone" /\ pass.cur \in Claims
      BY <2>1, PassFacts DEF RecordStandsInv
    <3>2. TokenOf(pass.cur, pass.items[pass.cur].token)
      BY <2>1, PassFacts, RecordAssumption DEF TokenOf
    <3> QED
      BY <1>1, <2>1, <3>1, <3>2 DEF Revokes
  <2> QED
    BY <1>4, <2>1 DEF ReapRow, SameThunder
<1>5. \A n \in Nodes, d \in Claims : ~GuestRow(n, d)
  BY DEF GuestRow, NoneLost
<1> QED
  BY <1>2, <1>3, <1>4, <1>5
     DEF LifeStep, PodRow, StartCase, StartRow, UserRow, ClaimRow, QuietRow, SameThunder

\* A hook that is about to cache a client does, or waits.
LEMMA CachingStays ==
    ASSUME NoneLost, TypeOK, StageLockInv, LifeStep, NEW h \in Hooks, hook[h].pc = "cache"
    PROVE  hook'[h] = hook[h] \/ (CacheRow(h) /\ HookCase(h))
<1>1. ASSUME HookCase(h) PROVE CacheRow(h)
  <2>1. files[hook[h].node][hook[h].claim].dir
    BY DEF StageLockInv, HasStageLock
  <2> QED
    BY <1>1, <2>1 DEF HookCase, StageRow, LockRow, ExitRow, ExchangeRow, NoneLost
<1>2. ASSUME NEW g \in Hooks, g # h, HookCase(g) PROVE hook'[h] = hook[h]
  BY <1>2 DEF HookCase, StageRow, HookFrame
<1>3. ASSUME NEW g \in Hooks, NEW n \in Nodes, NEW c \in Claims, StartCase(g, n, c)
      PROVE  hook'[h] = hook[h]
  BY <1>3 DEF StartCase, StartRow, HookFrame
<1> QED
  BY <1>1, <1>2, <1>3
     DEF LifeStep, DaemonCase, PodRow, GuestRow, UserRow, ClaimRow, ReapRow, QuietRow

\* A resource stays about its token; one that is new is a daemon's that
\* prepares the claim.
LEMMA RecordTokens ==
    ASSUME TypeOK, RecordInv, CallInv, LifeStep, NEW c \in Claims, record'[c] # None
    PROVE  \/ record[c] # None /\ record'[c].token = record[c].token
           \/ /\ record[c] = None
              /\ \E n \in Nodes : /\ DaemonCase(n, c) /\ op[n].pc = "UpsertPut" /\ op[n].c = c
                                  /\ record'[c].token = op[n].tok
<1>1. ASSUME NEW n \in Nodes, NEW d \in Claims, DaemonCase(n, d)
      PROVE  \/ record[c] # None /\ record'[c].token = record[c].token
             \/ /\ record[c] = None /\ d = c
                /\ op[n].pc = "UpsertPut" /\ op[n].c = c /\ record'[c].token = op[n].tok
  <2>1. DaemonRow(n, d) /\ Touches(n, d)
    BY <1>1 DEF DaemonCase, DaemonRow
  <2> QED
    BY <2>1, RecordViews
       DEF DaemonRow, Touches, RecordView, Kept, Created, Released, Deleted, Rewritten
<1>2. ASSUME AllKept \/ \E d \in Claims : (Released(d) \/ Deleted(d)) /\ OthersKept(d)
      PROVE  record[c] # None /\ record'[c].token = record[c].token
  BY <1>2 DEF AllKept, OthersKept, Kept, Released, Deleted, Rewritten
<1> QED
  BY <1>1, <1>2
     DEF LifeStep, PodRow, GuestRow, HookCase, StartCase, UserRow, ClaimRow, ReapRow, QuietRow

\* While a claim with a resource is in use no daemon works on it, and only its
\* own hook touches its disk.
LEMMA InUseAlone ==
    ASSUME SingleHome, LifeInv, NEW c \in Claims, record[c] # None,
           NEW n \in Homes[c], kub[n][c] \in InUse
    PROVE  /\ n \in Nodes /\ Homes[c] = {n}
           /\ \A m \in Nodes : op[m].pc # "idle" => op[m].c # c
<1> USE DEF LifeInv
<1>1. n \in Nodes
  BY LifecycleAssumption
<1>2. /\ Homes[c] = {n}
      /\ \A m \in Nodes \ {n} : op[m].pc # "idle" => op[m].c # c
  BY <1>1, Home DEF InUse
<1>3. ASSUME op[n].pc # "idle", op[n].c = c PROVE FALSE
  <2>1. \/ op[n].pc \in PreparePCs \/ op[n].pc \in UndoPCs
        \/ op[n].pc \in RevokePCs \cup ForgetPCs
    BY <1>1, <1>3, OpFacts DEF Operation
  <2>2. op[n].pc \notin PreparePCs
    BY <1>1, <1>3, RecordInvParts DEF NodeOK
  <2>3. op[n].pc \notin UndoPCs
    BY <1>1, <1>3, SecretParts
  <2>4. op[n].pc \notin RevokePCs \cup ForgetPCs
    BY <1>1, <1>3 DEF CallInv, CallMatches, InUse
  <2> QED
    BY <2>1, <2>2, <2>3, <2>4
<1> QED
  BY <1>1, <1>2, <1>3

LEMMA InUseDisk ==
    ASSUME SingleHome, LifeInv, LifeStep, NEW c \in Claims, record[c] # None,
           NEW n \in Homes[c], kub[n][c] \in InUse
    PROVE  \/ /\ files'[n][c].spec = files[n][c].spec
              /\ files'[n][c].token = files[n][c].token
              /\ files'[n][c].config = files[n][c].config
           \/ \E h \in Hooks : CacheRow(h) /\ hook[h].node = n /\ hook[h].claim = c
<1> USE DEF LifeInv
<1>1. n \in Nodes /\ \A m \in Nodes : op[m].pc # "idle" => op[m].c # c
  BY InUseAlone
<1>2. ASSUME NEW m \in Nodes, NEW d \in Claims, DaemonCase(m, d)
      PROVE  files'[n][c] = files[n][c]
  <2>1. DaemonRow(m, d) /\ (op[m].pc # "idle" => d # c)
    BY <1>1, <1>2 DEF DaemonCase, DaemonRow
  <2> QED
    BY <1>1, <2>1, DaemonDisk
<1>3. ASSUME NEW h \in Hooks, HookCase(h),
             ~(CacheRow(h) /\ hook[h].node = n /\ hook[h].claim = c)
      PROVE  files'[n][c] = files[n][c]
  <2>1. hook[h].node \in Nodes /\ hook[h].claim \in Claims
    BY <1>3, HookFacts DEF HookCase, StageRow
  <2> QED
    BY <1>1, <1>3, <2>1
       DEF HookCase, StageRow, LockRow, ExitRow, ExchangeRow, CacheRow, DiskFrame, SameDisk
<1>4. ASSUME NEW h \in Hooks, NEW m \in Nodes, NEW d \in Claims, StartCase(h, m, d)
      PROVE  /\ files'[n][c].spec = files[n][c].spec
             /\ files'[n][c].token = files[n][c].token
             /\ files'[n][c].config = files[n][c].config
  BY <1>1, <1>4 DEF StartCase, StartRow, DiskFrame, SameDisk
<1> QED
  BY <1>2, <1>3, <1>4 DEF LifeStep, PodRow, GuestRow, UserRow, ClaimRow, ReapRow, QuietRow

LEMMA UsableStays ==
    ASSUME SingleHome, NoneLost, LifeInv, LifeStep, NEW c \in Claims, claim[c] # "gone",
           record[c] # None, NEW n \in Homes[c], kub[n][c] \in InUse,
           record'[c] # None, record'[c].token = record[c].token
    PROVE  files'[n][c].spec /\ Usable(n, c, record[c].token)'
<1> USE DEF LifeInv
<1>1. PICK t \in Tokens : t = record[c].token
  BY RecordFacts
<1>2. n \in Nodes /\ Homes[c] = {n} /\ \A m \in Nodes : op[m].pc # "idle" => op[m].c # c
  BY InUseAlone
<1>3. files[n][c].spec /\ Usable(n, c, t)
  BY <1>1, UsableParts
<1>4. ASSUME NEW h \in Hooks, CacheRow(h), hook[h].node = n, hook[h].claim = c
      PROVE  files'[n][c].spec /\ files'[n][c].config = t
  <2>1. hook[h].tok = t
    BY <1>1, <1>4, UsableParts DEF CacheRow
  <2> QED
    BY <1>3, <1>4, <2>1 DEF CacheRow
<1>5. ASSUME files'[n][c].spec = files[n][c].spec, files'[n][c].token = files[n][c].token,
             files'[n][c].config = files[n][c].config,
             ~ \E h \in Hooks : CacheRow(h) /\ hook[h].node = n /\ hook[h].claim = c
      PROVE  files'[n][c].spec /\ Usable(n, c, t)'
  <2>1. CASE files[n][c].config = t
    BY <1>3, <1>5, <2>1 DEF Usable
  <2>2. CASE files[n][c].token = t /\ token[t] = "unspent"
    <3>1. TokenOf(c, t)
      BY <1>1 DEF TokenOf
    <3>2. CASE token'[t] = "unspent"
      BY <1>3, <1>5, <2>2, <3>2 DEF Usable
    <3>3. ASSUME NEW h \in Hooks, Caches(h, t), hook[h].claim = c PROVE Usable(n, c, t)'
      <4>1. hook[h].node = n
        BY <1>2, <3>3, HookPlace DEF Caches
      <4>2. hook'[h].pc = "cache" /\ hook'[h].tok = t /\ hook'[h].node = n /\ hook'[h].claim = c
        BY <3>3, <4>1 DEF Caches, GoesOn
      <4> QED
        BY <1>5, <2>2, <4>2 DEF Usable, Staging
    <3> QED
      BY <1>2, <1>3, <1>5, <2>2, <3>1, <3>2, <3>3, UnspentStays
  <2>3. ASSUME NEW h \in Staging(n, c), hook[h].pc = "cache", hook[h].tok = t,
               files[n][c].token = t
        PROVE  Usable(n, c, t)'
    <3>1. h \in Hooks /\ hook[h].node = n /\ hook[h].claim = c
      BY DEF Staging
    <3>2. hook'[h] = hook[h]
      BY <1>5, <2>3, <3>1, CachingStays
    <3> QED
      BY <1>5, <2>3, <3>1, <3>2 DEF Usable, Staging
  <2> QED
    BY <1>3, <1>5, <2>1, <2>2, <2>3 DEF Usable
<1>6. files'[n][c].spec /\ Usable(n, c, t)'
  <2>1. CASE \E h \in Hooks : CacheRow(h) /\ hook[h].node = n /\ hook[h].claim = c
    BY <1>4, <2>1 DEF Usable
  <2> QED
    BY <1>5, <2>1, InUseDisk
<1> QED
  BY <1>1, <1>6 DEF Usable

\* How the token and the spec of its claim fare as a daemon prepares it.
LEMMA PrepareCall ==
    ASSUME TypeOK, NEW n \in Nodes, NEW c \in Claims, DaemonRow(n, c)
    PROVE  /\ op'[n].pc \in PreparePCs \ {"Mint"} =>
                 /\ op'[n].c = c
                 /\ \/ token'[op'[n].tok] = "unspent"
                    \/ /\ op[n].pc \in PreparePCs \ {"Mint"} /\ c = op[n].c
                       /\ op'[n].tok = op[n].tok /\ token' = token
           /\ op'[n].pc \in {"UpsertGet", "UpsertPut"} =>
                 files'[n][c].spec \/ (op[n].pc = "UpsertGet" /\ SameDisk(n, c))
<1> USE DEF GivesUp, Moves, Ends, PreparePCs, SameThunder
<1>a. (op[n].pc # "idle" => c = op[n].c) /\ Idle.pc = "idle"
  BY DEF DaemonRow, Idle
<1>1. CASE GetRow(n, c)
  BY <1>1, <1>a DEF GetRow
<1>2. CASE ThunderRow(n, c)
  BY <1>2, <1>a DEF ThunderRow
<1>3. CASE SecretRow(n, c)
  BY <1>3, <1>a DEF SecretRow
<1>4. CASE DiskRow(n, c)
  BY <1>4, <1>a DEF DiskRow
<1>5. CASE ReadRow(n, c)
  BY <1>5, <1>a DEF ReadRow
<1>6. CASE WriteRow(n, c)
  BY <1>6, <1>a DEF WriteRow
<1> QED
  BY <1>1, <1>2, <1>3, <1>4, <1>5, <1>6 DEF DaemonRow

LEMMA UsableNext ==
    ASSUME SingleHome, NoneLost, LifeInv, [Next]_vars, RecordStandsInv', StageLockInv'
    PROVE  UsableInv'
<1> USE DEF LifeInv
<1>a. LifeStep /\ TypeOK'
  BY LifeSteps, TypeNext
<1>b. \A c \in Claims : claim'[c] # "gone" => claim[c] # "gone"
  BY <1>a DEF LifeStep, DaemonCase, DaemonRow, Touches, PodRow, GuestRow, HookCase, StartCase,
              UserRow, ClaimRow, ReapRow, QuietRow
<1>c. \A m \in Nodes : \/ op'[m] = op[m] \/ op'[m].pc = "idle"
                       \/ \E c \in Claims : DaemonCase(m, c)
  BY <1>a DEF LifeStep, DaemonCase, DaemonRow, Touches, PodRow, GuestRow, HookCase, StartCase,
              UserRow, ClaimRow, ReapRow, QuietRow, Idle
<1>d. ASSUME NEW m \in Nodes, op[m].pc \in PreparePCs \ {"Mint"}, claim[op[m].c] # "gone"
      PROVE  token'[op[m].tok] = "unspent"
  <2>1. op[m].c \in Claims /\ op[m].tok \in Tokens /\ op[m].pc \notin {"idle", "UndoRevoke", "Revoke"}
    BY <1>d, OpFacts DEF PreparePCs
  <2>2. PICK c \in Claims, t \in Tokens : c = op[m].c /\ t = op[m].tok
    BY <2>1
  <2>3. TokenOf(c, t) /\ token[t] = "unspent" /\ claim[c] # "gone"
    BY <1>d, <2>1, <2>2, UsableParts DEF TokenOf
  <2>4. ASSUME NEW n \in Nodes, op[n].pc \in {"UndoRevoke", "Revoke"}, op[n].c = c PROVE FALSE
    BY <2>1, <2>2, <2>4, Home
  <2>5. ASSUME NEW h \in Hooks, Caches(h, t), hook[h].claim = c PROVE FALSE
    BY <2>1, <2>2, <2>5, HookPlace DEF Caches
  <2> QED
    BY <1>a, <2>2, <2>3, <2>4, <2>5, UnspentStays
<1>1. ASSUME NEW m \in Nodes
      PROVE  /\ op'[m].pc \in PreparePCs \ {"Mint"} /\ claim'[op'[m].c] # "gone" =>
                   token'[op'[m].tok] = "unspent"
             /\ op'[m].pc \in {"UpsertGet", "UpsertPut"} => files'[m][op'[m].c].spec
  <2>1. ASSUME NEW c \in Claims, DaemonCase(m, c)
        PROVE  /\ op'[m].pc \in PreparePCs \ {"Mint"} /\ claim'[op'[m].c] # "gone" =>
                     token'[op'[m].tok] = "unspent"
               /\ op'[m].pc \in {"UpsertGet", "UpsertPut"} => files'[m][op'[m].c].spec
    <3>1. DaemonRow(m, c) /\ (op[m].pc # "idle" => c = op[m].c)
      BY <2>1 DEF DaemonCase, DaemonRow
    <3>2. op'[m].pc \in {"UpsertGet", "UpsertPut"} => op'[m].c = c
      BY <3>1, PrepareCall DEF PreparePCs
    <3>3. op[m].pc = "UpsertGet" => files[m][c].spec
      BY <3>1, UsableParts
    <3> QED
      BY <1>b, <1>d, <3>1, <3>2, <3>3, PrepareCall DEF SameDisk
  <2>2. ASSUME op'[m] = op[m], ~ \E c \in Claims : DaemonCase(m, c),
               op[m].pc \in PreparePCs
        PROVE  files'[m][op[m].c] = files[m][op[m].c] /\ op[m].c \in Claims
    <3>1. op[m].pc # "idle" /\ op[m].c \in Claims
      BY <2>2, OpFacts DEF PreparePCs
    <3>2. ASSUME NEW n \in Nodes, NEW c \in Claims, DaemonCase(n, c)
          PROVE  files'[m] = files[m]
      BY <2>2, <3>2 DEF DaemonCase, DaemonRow, Touches
    <3>3. ASSUME NEW h \in Hooks, HookCase(h) PROVE files'[m][op[m].c] = files[m][op[m].c]
      <4>1. hook[h].claim # op[m].c /\ hook[h].node \in Nodes
        BY <3>1, <3>3, HookPlace DEF HookCase, StageRow
      <4> QED
        BY <3>1, <3>3, <4>1
           DEF HookCase, StageRow, LockRow, ExitRow, ExchangeRow, CacheRow, DiskFrame, SameDisk
    <3>4. ASSUME NEW h \in Hooks, NEW n \in Nodes, NEW c \in Claims, StartCase(h, n, c)
          PROVE  files'[m][op[m].c] = files[m][op[m].c]
      <4>1. kub[n][c] = "prepared"
        BY <3>4 DEF StartCase, StartRow
      <4>2. n # m \/ c # op[m].c
        BY <2>2, <4>1 DEF CallInv, CallMatches
      <4> QED
        BY <3>1, <3>4, <4>2 DEF StartCase, StartRow, DiskFrame, SameDisk
    <3> QED
      BY <1>a, <3>1, <3>2, <3>3, <3>4
         DEF LifeStep, PodRow, GuestRow, UserRow, ClaimRow, ReapRow, QuietRow
  <2>3. CASE op'[m] = op[m] /\ ~ \E c \in Claims : DaemonCase(m, c)
    <3>1. op[m].pc \in {"UpsertGet", "UpsertPut"} => files'[m][op[m].c].spec
      BY <2>2, <2>3, UsableParts DEF PreparePCs
    <3>2. op[m].pc \in PreparePCs \ {"Mint"} => op[m].c \in Claims
      BY OpFacts DEF PreparePCs
    <3> QED
      BY <1>b, <1>d, <2>3, <3>1, <3>2
  <2> QED
    BY <1>c, <2>1, <2>3 DEF PreparePCs
<1>2. ASSUME NEW c \in Claims, NEW n \in Homes[c],
             claim'[c] # "gone", record'[c] # None, kub'[n][c] \in InUse
      PROVE  files'[n][c].spec /\ Usable(n, c, record[c].token)'
  <2>1. CASE record[c] # None /\ record'[c].token = record[c].token
    <3>1. n \in Nodes /\ kub[n][c] # "idle"
      BY <2>1, LifecycleAssumption DEF RecordStandsInv, RecordStands
    <3>a. ASSUME NEW m \in Nodes, NEW d \in Claims, DaemonCase(m, d) PROVE kub[n][c] \in InUse
      <4>1. DaemonRow(m, d) /\ Touches(m, d)
        BY <3>a DEF DaemonCase, DaemonRow
      <4>2. CASE m # n \/ d # c
        BY <1>2, <3>1, <4>1, <4>2 DEF Touches, SameKub
      <4>3. CASE m = n /\ d = c
        BY <1>2, <2>1, <4>1, <4>3, RecordViews DEF RecordView, InUse, Created
      <4> QED
        BY <4>2, <4>3
    <3>b. ASSUME NEW m \in Nodes, NEW d \in Claims, PodRow(m, d) PROVE kub[n][c] \in InUse
      BY <1>2, <3>1, <3>b DEF PodRow, SameKub, InUse
    <3>2. kub[n][c] \in InUse
      BY <1>2, <1>a, <3>1, <3>a, <3>b
         DEF LifeStep, GuestRow, UserRow, ClaimRow, ReapRow, QuietRow, HookCase, StartCase
    <3> QED
      BY <1>a, <1>b, <1>2, <2>1, <3>2, UsableStays
  <2>2. ASSUME NEW m \in Nodes, record[c] = None, DaemonCase(m, c), op[m].pc = "UpsertPut",
               op[m].c = c, record'[c].token = op[m].tok
        PROVE  files'[n][c].spec /\ Usable(n, c, record[c].token)'
    <3>1. n = m
      BY <2>2, Home
    <3>2. files'[n][c] = files[n][c]
      BY <2>2, <3>1 DEF DaemonCase, DaemonRow, GetRow, ThunderRow, SecretRow, DiskRow, ReadRow,
                        WriteRow, SameDisk
    <3>3. files[n][c].spec /\ files[n][c].token = op[m].tok
      BY <2>2, <3>1, UsableParts DEF VouchedInv
    <3>4. token'[op[m].tok] = "unspent"
      BY <1>b, <1>d, <1>2, <2>2 DEF PreparePCs
    <3> QED
      BY <2>2, <3>2, <3>3, <3>4 DEF Usable
  <2> QED
    BY <1>a, <1>2, <2>1, <2>2, RecordTokens
<1>3. ASSUME NEW g \in Hooks, hook'[g].pc \in {"exchange", "cache"},
             claim'[hook'[g].claim] # "gone"
      PROVE  record'[hook'[g].claim].token = hook'[g].tok
  <2>1. PICK c \in Claims, n \in Nodes : c = hook'[g].claim /\ n = hook'[g].node
    BY <1>3, <1>a DEF TypeOK, HookTypeOK, HookProcess
  <2>2. kub'[n][c] = "prepared" /\ claim'[c] # "gone" /\ claim[c] # "gone"
    BY <1>3, <1>b, <2>1 DEF StageLockInv, HasStageLock
  <2>3. record'[c] # None
    BY <2>2 DEF RecordStandsInv, RecordStands
  <2>4. CASE hook'[g] = hook[g]
    <3>1. record[c].token = hook[g].tok /\ kub[n][c] = "prepared"
      BY <1>3, <2>1, <2>2, <2>4, UsableParts DEF StageLockInv, HasStageLock
    <3>2. record[c] # None
      BY <2>2, <3>1 DEF RecordStandsInv, RecordStands
    <3> QED
      BY <1>a, <2>1, <2>3, <2>4, <3>1, <3>2, RecordTokens
  <2>5. CASE HookCase(g) /\ hook'[g] # hook[g]
    <3>1. AllKept /\ ExchangeRow(g) /\ hook'[g].claim = hook[g].claim
          /\ hook'[g].node = hook[g].node
      BY <1>3, <2>5
         DEF HookCase, StageRow, LockRow, ExitRow, ExchangeRow, CacheRow, Exits, Off, GoesOn
    <3>2. record'[c] = record[c]
      BY <3>1 DEF AllKept, Kept
    <3>3. CASE hook[g].pc = "exchange"
      <4>1. hook'[g].tok = hook[g].tok
        BY <3>1, <3>3, <1>3 DEF ExchangeRow, Exits, Off
      <4> QED
        BY <2>1, <2>2, <3>1, <3>2, <3>3, <4>1, UsableParts
    <3>4. CASE hook[g].pc = "config"
      <4>1. /\ files[n][c].config = None /\ hook'[g].tok = files[n][c].token
            /\ kub[n][c] = "prepared" /\ Homes[c] = {n}
        BY <2>1, <3>1, <3>4, HookPlace DEF ExchangeRow, NoneLost
      <4>2. Usable(n, c, record[c].token) /\ record[c].token \in Tokens
        BY <2>2, <2>3, <3>2, <4>1, UsableParts, RecordFacts DEF InUse
      <4>3. files[n][c].token = record[c].token
        BY <4>1, <4>2, DeploymentAssumption DEF Usable
      <4> QED
        BY <2>1, <3>2, <4>1, <4>3
    <3> QED
      BY <3>1, <3>3, <3>4 DEF ExchangeRow
  <2>6. hook'[g] = hook[g] \/ HookCase(g)
    BY <1>a, <1>3
       DEF LifeStep, DaemonCase, PodRow, GuestRow, HookCase, StageRow, StartCase, StartRow,
           HookFrame, UserRow, ClaimRow, ReapRow, QuietRow
  <2> QED
    BY <2>4, <2>5, <2>6
<1>4. ASSUME NEW t \in Tokens, client'[t] = "live"
      PROVE  \/ \E h \in Hooks : hook'[h].pc = "cache" /\ hook'[h].tok = t
             \/ \E n \in Nodes, c \in Claims : files'[n][c].config = t
  <2>1. client[t] = "live" \/ \E h \in Hooks : Caches(h, t)
    <3>1. ASSUME NEW n \in Nodes, NEW c \in Claims, DaemonCase(n, c) PROVE client[t] = "live"
      BY <1>4, <3>1 DEF DaemonCase, DaemonRow, GetRow, ThunderRow, SecretRow, DiskRow, ReadRow,
                        WriteRow, SameThunder, Revokes
    <3>2. ASSUME NEW h \in Hooks, HookCase(h) PROVE client[t] = "live" \/ Caches(h, t)
      BY <1>4, <3>2, SpendingCaches DEF SameThunder, Caches, Spends
    <3>3. ASSUME NEW n \in Nodes, NEW c \in Claims, GuestRow(n, c) PROVE FALSE
      BY <3>3 DEF GuestRow, NoneLost
    <3> QED
      BY <1>4, <1>a, <3>1, <3>2, <3>3
         DEF LifeStep, PodRow, StartCase, StartRow, UserRow, ClaimRow, ReapRow, QuietRow,
             SameThunder, Revokes
  <2>2. ASSUME NEW h \in Hooks, Caches(h, t)
        PROVE  hook'[h].pc = "cache" /\ hook'[h].tok = t
    BY <2>2 DEF Caches, GoesOn
  <2>3. ASSUME NEW h \in Hooks, hook[h].pc = "cache", hook[h].tok = t
        PROVE  \/ hook'[h].pc = "cache" /\ hook'[h].tok = t
               \/ \E n \in Nodes, c \in Claims : files'[n][c].config = t
    BY <1>a, <2>3, CachingStays, HookFacts DEF CacheRow
  <2>4. ASSUME NEW n \in Nodes, NEW c \in Claims, files[n][c].config = t, client[t] = "live"
        PROVE  files'[n][c].config = t
    BY <2>4, StateGoesNext, DeploymentAssumption
  <2> QED
    BY <2>1, <2>2, <2>3, <2>4, UsableParts
<1> QED
  BY <1>1, <1>2, <1>3, <1>4, UsableParts

\* A claim that exists and has a resource can be used where it is prepared or
\* being prepared, when no reply, config or hook is lost on the way.
THEOREM UsableInvariant ==
    ASSUME SingleHome, OwnNames, ~HookOverlap, NoneLost
    PROVE  Spec => []UsableInv
<1>1. Init => UsableInv
  <2> SUFFICES ASSUME Init PROVE UsableInv
    OBVIOUS
  <2>1. /\ \A n \in Nodes : op[n].pc = "idle"
        /\ \A c \in Claims : record[c] = None
        /\ \A h \in Hooks : hook[h].pc = "off"
        /\ \A t \in Tokens : client[t] = "none"
    BY DEF Init, DriverInit, Idle, KubeInit, HookInit, Off, ThunderInit
  <2> QED
    BY <2>1, UsableParts DEF PreparePCs
<1>2. LifeInv /\ [Next]_vars /\ RecordStandsInv' /\ StageLockInv' => UsableInv'
  BY UsableNext
<1>3. "configError" \notin FaultKinds /\ "lostReply" \notin FaultKinds
  BY DEF NoneLost
<1>4. Spec => [](TypeOK /\ RecordInv /\ CallInv /\ StageLockInv /\ RecordStandsInv)
  BY TypeCorrect, RecordInvariant, CallInvariant, StageLockInvariant, RecordStandsInvariant, PTL
<1>5. Spec => [](VouchedInv /\ ConfigInv /\ SecretInv /\ TokenInv)
  BY <1>3, VouchedInvariant, ConfigInvariant, SecretInvariant, TokenInvariant, PTL
<1> QED
  BY <1>1, <1>2, <1>4, <1>5, PTL DEF Spec, LifeInv

\* A claim that its kubelet believes prepared can be used (driver.go prepareOne,
\* cdihook.go, clientconfig.go): its CDI spec is on the node, with the client its
\* token was exchanged for, or with the token, for the next hook to spend or in
\* the hands of one that has; errors, crashes of the daemon and the operator and
\* lost nodes notwithstanding.
THEOREM PreparedStaysUsable ==
    ASSUME SingleHome, OwnNames, ~HookOverlap, NoneLost
    PROVE  Spec => []PreparedIsUsable
<1>1. TypeOK /\ RecordInv /\ RecordStandsInv /\ UsableInv => PreparedIsUsable
  <2> SUFFICES ASSUME TypeOK, RecordInv, RecordStandsInv, UsableInv,
                      NEW n \in Nodes, NEW c \in Claims,
                      kub[n][c] = "prepared", claim[c] = "allocated"
               PROVE  record[c] # None /\ files[n][c].spec /\ Usable(n, c, record[c].token)
    BY DEF PreparedIsUsable, Usable
  <2>1. record[c] # None /\ n \in Homes[c]
    BY Home DEF RecordStandsInv, RecordStands
  <2> QED
    BY <2>1, UsableParts DEF InUse
<1> QED
  BY <1>1, TypeCorrect, RecordInvariant, RecordStandsInvariant, UsableInvariant, PTL

\* A live Thunder client is never out of reach of unprepareOne (driver.go): it
\* is being cached, or its ID is in the state directory of a claim that has its
\* record as long as it exists.
THEOREM ClientsStayWithinReach ==
    ASSUME SingleHome, OwnNames, ~HookOverlap, NoneLost
    PROVE  Spec => []LiveClientWithinReach
<1>1. TypeOK /\ ConfigInv /\ UsableInv => LiveClientWithinReach
  <2> SUFFICES ASSUME TypeOK, ConfigInv, UsableInv, NEW t \in Tokens, client[t] = "live"
               PROVE  \E n \in Nodes, c \in Claims :
                         \/ \E h \in Staging(n, c) : hook[h].pc = "cache" /\ hook[h].tok = t
                         \/ files[n][c].config = t /\ (record[c] # None \/ claim[c] = "gone")
    BY DEF LiveClientWithinReach
  <2>1. CASE \E h \in Hooks : hook[h].pc = "cache" /\ hook[h].tok = t
    BY <2>1, HookFacts DEF Staging
  <2>2. CASE \E n \in Nodes, c \in Claims : files[n][c].config = t
    BY <2>2, ConfigParts, DeploymentAssumption DEF Backed
  <2> QED
    BY <2>1, <2>2, UsableParts
<1>2. "configError" \notin FaultKinds
  BY DEF NoneLost
<1> QED
  BY <1>1, <1>2, TypeCorrect, ConfigInvariant, UsableInvariant, PTL

\* What daemons, hooks, kubelets and the operator keep of claims, records, tokens,
\* locks, configs and Secrets between any two of their steps (driver.go, store.go,
\* cdihook.go, clients.go), all at once.
THEOREM LifeInvariant ==
    ASSUME SingleHome, OwnNames, ~HookOverlap, NoneLost
    PROVE  Spec => []LifeInv
<1>1. "configError" \notin FaultKinds /\ "lostReply" \notin FaultKinds
  BY DEF NoneLost
<1>2. Spec => [](TypeOK /\ RecordInv /\ CallInv /\ StageLockInv /\ RecordStandsInv)
  BY TypeCorrect, RecordInvariant, CallInvariant, StageLockInvariant, RecordStandsInvariant, PTL
<1>3. Spec => [](VouchedInv /\ ConfigInv /\ SecretInv /\ TokenInv)
  BY <1>1, VouchedInvariant, ConfigInvariant, SecretInvariant, TokenInvariant, PTL
<1> QED
  BY <1>2, <1>3, UsableInvariant, PTL DEF LifeInv

===============================================================================
