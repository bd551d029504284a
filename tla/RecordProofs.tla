----------------------------- MODULE RecordProofs -----------------------------
(***************************************************************************)
(* The ThunderClient resource and the enrollment it records, for claims    *)
(* that have one home: RecordInv is inductive, so a released resource has  *)
(* been revoked, and the plugin implements EnrollmentLedger, whatever      *)
(* fails and however daemons and operator interleave.                      *)
(***************************************************************************)
EXTENDS ClaimLifecycleProofs

-------------------------------------------------------------------------------
(* What one step does to tokens and records *)

Forward ==
    \A t \in Tokens : /\ token[t] # "none" => token'[t] # "none"
                      /\ token[t] = "revoked" => token'[t] = "revoked"

Kept(c) == record'[c] = record[c] /\ revision'[c] = revision[c]

\* The resource stays about the same token, and loses its finalizer or
\* disappears only when that token is revoked.
Rewritten(c) ==
    /\ record[c] # None /\ revision'[c] = revision[c] + 1
    /\ \/ record'[c] = None /\ token[record[c].token] = "revoked"
       \/ /\ record'[c] # None
          /\ record'[c].token = record[c].token /\ record'[c].rv = revision'[c]
          /\ record'[c].fin \/ token[record[c].token] = "revoked"

Created(c, t) ==
    /\ record[c] = None /\ revision'[c] = revision[c] + 1
    /\ record'[c] # None /\ record'[c].token = t /\ record'[c].rv = revision'[c]
    /\ record'[c].fin /\ token[t] # "none"

LEMMA RecordFacts ==
    ASSUME TypeOK, NEW c \in Claims
    PROVE  /\ revision[c] \in Nat
           /\ record[c] # None => /\ record[c] \in Record /\ record[c].token \in Tokens
                                  /\ record[c].rv \in Nat /\ record[c].fin \in BOOLEAN
           /\ pass.items[c] # None => /\ pass.items[c] \in Record
                                      /\ pass.items[c].token \in Tokens
                                      /\ pass.items[c].rv \in Nat
<1>1. pass.items \in [Claims -> Record \cup {None}]
  BY DEF TypeOK, ReaperTypeOK, Pass
<1>2. \A r \in Record : r.token \in Tokens /\ r.rv \in Nat /\ r.fin \in BOOLEAN
  BY DEF Record
<1> QED
  BY <1>1, <1>2 DEF TypeOK, KubeTypeOK

LEMMA TokenSteps ==
    ASSUME TypeOK
    PROVE  /\ UNCHANGED thunderVars => Forward
           /\ \A t : CreateClientEnrollment(t) => Forward
           /\ \A t : UnenrollClient(t) => Forward
           /\ \A t : RevokeThunderClient(t) => Forward
           /\ \A t : ExchangeToken(t) => Forward
BY DEF TypeOK, ThunderTypeOK, thunderVars, CreateClientEnrollment, UnenrollClient,
       RevokeThunderClient, ExchangeToken, Forward

\* Storing a resource about the same token, held or revoked.
LEMMA PutKeeps ==
    ASSUME TypeOK, NEW c \in Claims, NEW r \in Record, PutRecord(c, r),
           record[c] # None, r.token = record[c].token,
           r.fin \/ token[r.token] = "revoked"
    PROVE  Rewritten(c) /\ \A d \in Claims \ {c} : Kept(d)
<1> DEFINE s == [r EXCEPT !.rv = revision[c] + 1]
<1>1. /\ s \in Record /\ s # None
      /\ s.token = r.token /\ s.fin = r.fin /\ s.rv = revision[c] + 1
  BY RecordFacts, RecordAssumption DEF Record
<1>2. record'[c] = IF r.deleting /\ ~r.fin THEN None ELSE s
  BY DEF PutRecord, TypeOK, KubeTypeOK
<1>3. revision'[c] = revision[c] + 1
  BY DEF PutRecord, TypeOK, KubeTypeOK
<1>4. \A d \in Claims \ {c} : Kept(d)
  BY DEF PutRecord, TypeOK, KubeTypeOK, Kept
<1> HIDE DEF s
<1> QED
  BY <1>1, <1>2, <1>3, <1>4 DEF Rewritten

LEMMA ReleaseKeeps ==
    ASSUME TypeOK, NEW c \in Claims, NEW seen \in Record, Fresh(c, seen),
           seen.token = record[c].token, token[seen.token] = "revoked",
           PutRecord(c, [seen EXCEPT !.fin = FALSE])
    PROVE  Rewritten(c) /\ \A d \in Claims \ {c} : Kept(d)
<1>1. [seen EXCEPT !.fin = FALSE] \in Record /\ [seen EXCEPT !.fin = FALSE].token = seen.token
  BY DEF Record
<1> QED
  BY <1>1, PutKeeps DEF Fresh

LEMMA DeleteKeeps ==
    ASSUME TypeOK, ReleasedOnlyRevoked, NEW c \in Claims, DeleteRecord(c)
    PROVE  /\ Kept(c) \/ Rewritten(c)
           /\ \A d \in Claims \ {c} : Kept(d)
<1>1. CASE record[c] = None \/ record[c].deleting
  BY <1>1 DEF DeleteRecord, Kept
<1>2. CASE record[c] # None /\ ~record[c].deleting
  <2> DEFINE r == [record[c] EXCEPT !.deleting = TRUE]
  <2>1. r \in Record /\ r.token = record[c].token /\ r.fin = record[c].fin
    BY <1>2, RecordFacts DEF Record
  <2>2. PutRecord(c, r)
    BY <1>2 DEF DeleteRecord
  <2>3. r.fin \/ token[r.token] = "revoked"
    BY <1>2, <2>1 DEF ReleasedOnlyRevoked
  <2> HIDE DEF r
  <2> QED
    BY <1>2, <2>1, <2>2, <2>3, PutKeeps
<1> QED
  BY <1>1, <1>2

LEMMA CreateKeeps ==
    ASSUME TypeOK, NEW c \in Claims, NEW t \in Tokens, token[t] # "none",
           CreateRecord(c, t)
    PROVE  Created(c, t) /\ \A d \in Claims \ {c} : Kept(d)
<1> DEFINE r == [token |-> t, fin |-> TRUE, deleting |-> FALSE, rv |-> 0]
           s == [r EXCEPT !.rv = revision[c] + 1]
<1>0. r \in Record /\ r.token = t /\ r.fin /\ revision[c] + 1 \in Nat
  BY RecordFacts DEF Record
<1>1. s \in Record /\ s # None /\ s.token = t /\ s.fin /\ s.rv = revision[c] + 1
  <2> HIDE DEF r
  <2> QED
    BY <1>0, RecordAssumption DEF Record
<1>2. record'[c] = s /\ revision'[c] = revision[c] + 1
  BY <1>0 DEF CreateRecord, PutRecord, TypeOK, KubeTypeOK
<1>3. \A d \in Claims \ {c} : Kept(d)
  BY DEF CreateRecord, PutRecord, TypeOK, KubeTypeOK, Kept
<1> HIDE DEF s, r
<1> QED
  BY <1>1, <1>2, <1>3 DEF Created, CreateRecord

-------------------------------------------------------------------------------
(* How the parts of RecordInv survive a step *)

\* The part of RecordInv about one claim's resource, and about one that the
\* operator listed.
ClaimOK(c) ==
    record[c] # None => /\ token[record[c].token] # "none"
                        /\ record[c].rv <= revision[c]
                        /\ ~record[c].fin => token[record[c].token] = "revoked"

ItemOK(c) ==
    pass.items[c] # None =>
        /\ pass.items[c].rv <= revision[c]
        /\ token[pass.items[c].token] # "none"
        /\ Fresh(c, pass.items[c]) => record[c].token = pass.items[c].token

ReapOK ==
    pass.pc \in {"Update", "Delete"} => token[pass.items[pass.cur].token] = "revoked"

\* The part about the operation and the kubelet of one node.
NodeOK(n) ==
    /\ op[n].pc # "idle" => n \in Homes[op[n].c]
    /\ \A c \in Claims : kub[n][c] # "idle" => n \in Homes[c]
    /\ op[n].pc \in PreparePCs => record[op[n].c] = None
    /\ op[n].pc = "UpsertPut" => op[n].seen = None
    /\ op[n].pc \notin {"idle", "Mint"} => token[op[n].tok] # "none"
    /\ op[n].pc \in RevokePCs \cup ForgetPCs /\ record[op[n].c] # None =>
          record[op[n].c].token = op[n].tok
    /\ op[n].pc \in ForgetPCs => token[op[n].tok] = "revoked"
    /\ op[n].pc = "DeleteUpdate" => op[n].seen.token = op[n].tok

LEMMA RecordInvParts ==
    /\ RecordInv <=> /\ \A c \in Claims : ClaimOK(c) /\ ItemOK(c)
                     /\ ReapOK
                     /\ \A n \in Nodes : NodeOK(n)
    /\ RecordInv' <=> /\ \A c \in Claims : ClaimOK(c)' /\ ItemOK(c)'
                      /\ ReapOK'
                      /\ \A n \in Nodes : NodeOK(n)'
BY DEF RecordInv, WorksAtHome, PrepareFromNothing, HoldsTheToken, ListedIsCurrent,
       RecordedIsMinted, ReleasedOnlyRevoked, ClaimOK, ItemOK, ReapOK, NodeOK

LEMMA ClaimKept ==
    ASSUME TypeOK, Forward, NEW c \in Claims, ClaimOK(c),
           Kept(c) \/ Rewritten(c) \/ \E t \in Tokens : Created(c, t)
    PROVE  ClaimOK(c)'
<1>1. CASE Kept(c)
  BY <1>1, RecordFacts DEF Kept, ClaimOK, Forward
<1>2. CASE Rewritten(c)
  BY <1>2, RecordFacts DEF Rewritten, ClaimOK, Forward
<1>3. ASSUME NEW t \in Tokens, Created(c, t) PROVE ClaimOK(c)'
  BY <1>3, RecordFacts DEF Created, ClaimOK, Forward
<1> QED
  BY <1>1, <1>2, <1>3

LEMMA ItemKept ==
    ASSUME TypeOK, Forward, NEW c \in Claims, ItemOK(c), pass'.items[c] = pass.items[c],
           Kept(c) \/ Rewritten(c) \/ \E t \in Tokens : Created(c, t)
    PROVE  ItemOK(c)'
<1>1. CASE Kept(c)
  BY <1>1, RecordFacts DEF Kept, ItemOK, Forward, Fresh
<1>2. CASE Rewritten(c)
  BY <1>2, RecordFacts DEF Rewritten, ItemOK, Forward, Fresh
<1>3. ASSUME NEW t \in Tokens, Created(c, t) PROVE ItemOK(c)'
  BY <1>3, RecordFacts DEF Created, ItemOK, Forward, Fresh
<1> QED
  BY <1>1, <1>2, <1>3

LEMMA ReapKept ==
    ASSUME TypeOK, Forward, ReapOK, UNCHANGED pass
    PROVE  ReapOK'
<1>1. pass.pc \in {"Update", "Delete"} => pass.items[pass.cur].token \in Tokens
  BY RecordFacts DEF TypeOK, ReaperTypeOK, Pass
<1> QED
  BY <1>1 DEF ReapOK, Forward

\* A node whose operation goes on or is abandoned, and whose claim's resource
\* nobody created.
LEMMA NodeKept ==
    ASSUME TypeOK, Forward, NEW n \in Nodes, NodeOK(n),
           op'[n] = op[n] \/ op'[n] = Idle,
           \A c \in Claims : kub'[n][c] # "idle" => n \in Homes[c],
           op[n].pc # "idle" => Kept(op[n].c) \/ Rewritten(op[n].c)
    PROVE  NodeOK(n)'
<1>1. CASE op'[n] = Idle
  BY <1>1 DEF NodeOK, Idle, PreparePCs, RevokePCs, ForgetPCs
<1>2. CASE op'[n] = op[n]
  <2>1. op[n].pc \notin {"idle", "Mint"} => op[n].tok \in Tokens
    BY OpFacts
  <2>2. /\ op[n].pc \in RevokePCs \cup ForgetPCs => op[n].pc \notin {"idle", "Mint"}
        /\ op[n].pc \in PreparePCs => op[n].pc # "idle"
    BY DEF PreparePCs, RevokePCs, ForgetPCs
  <2> QED
    BY <1>2, <2>1, <2>2 DEF NodeOK, Kept, Rewritten, Forward
<1> QED
  BY <1>1, <1>2

\* A step of node n's daemon: other nodes work on other claims.
LEMMA DaemonKeeps ==
    ASSUME TypeOK, SingleHome, RecordInv, Forward, UNCHANGED pass, NEW n \in Nodes,
           \A m \in Nodes \ {n} : op'[m] = op[m] /\ kub'[m] = kub[m],
           \A c \in Claims :
               \/ Kept(c)
               \/ /\ op[n].pc \notin {"idle", "Mint"} /\ c = op[n].c
                  /\ Rewritten(c) \/ Created(c, op[n].tok),
           NodeOK(n)'
    PROVE  RecordInv'
<1> USE RecordInvParts
<1>1. ASSUME NEW c \in Claims PROVE ClaimOK(c)' /\ ItemOK(c)'
  <2>1. Kept(c) \/ Rewritten(c) \/ \E t \in Tokens : Created(c, t)
    BY OpFacts
  <2> QED
    BY <2>1, ClaimKept, ItemKept
<1>2. ASSUME NEW m \in Nodes \ {n} PROVE NodeOK(m)'
  <2>1. NodeOK(m) /\ NodeOK(n)
    OBVIOUS
  <2>2. op[m].pc # "idle" => op[m].c \in Claims /\ Kept(op[m].c)
    BY <2>1, OpFacts DEF SingleHome, NodeOK
  <2>3. \A c \in Claims : kub'[m][c] # "idle" => m \in Homes[c]
    BY <2>1 DEF NodeOK
  <2> QED
    BY <2>1, <2>2, <2>3, NodeKept
<1>3. ReapOK'
  BY ReapKept
<1>4. \A c \in Claims : ClaimOK(c)' /\ ItemOK(c)'
  BY <1>1
<1>5. \A m \in Nodes : NodeOK(m)'
  BY <1>2
<1> QED
  BY <1>3, <1>4, <1>5

\* A step of anyone else: no operation makes progress and no resource is created.
LEMMA OthersKeep ==
    ASSUME TypeOK, RecordInv, Forward,
           \A c \in Claims : Kept(c) \/ Rewritten(c),
           \A n \in Nodes : op'[n] = op[n] \/ op'[n] = Idle,
           \A n \in Nodes, c \in Claims : kub'[n][c] # "idle" => n \in Homes[c],
           \/ UNCHANGED pass
           \/ ReapOK' /\ \A c \in Claims : pass'.items[c] = pass.items[c] \/ ItemOK(c)'
    PROVE  RecordInv'
<1> USE RecordInvParts
<1>1. \A c \in Claims : ClaimOK(c)'
  BY ClaimKept
<1>2. \A c \in Claims : ItemOK(c)'
  BY ItemKept
<1>3. \A n \in Nodes : NodeOK(n)'
  BY NodeKept, OpFacts
<1>4. ReapOK'
  BY ReapKept
<1> QED
  BY <1>1, <1>2, <1>3, <1>4

-------------------------------------------------------------------------------
(* The daemon's steps *)

OthersStay(n) == \A m \in Nodes \ {n} : op'[m] = op[m] /\ kub'[m] = kub[m]

LEMMA OpEffects ==
    ASSUME TypeOK, NEW n \in Nodes
    PROVE  /\ \A pc : Goto(n, pc) =>
                 /\ op'[n].pc = pc /\ op'[n].c = op[n].c /\ op'[n].tok = op[n].tok
                 /\ op'[n].seen = op[n].seen /\ kub' = kub /\ OthersStay(n)
           /\ \A o : op' = [op EXCEPT ![n] = o] /\ UNCHANGED kub =>
                 op'[n] = o /\ kub' = kub /\ OthersStay(n)
           /\ Fail(n) => op'[n] = Idle /\ kub' = kub /\ OthersStay(n)
           /\ \A c \in Claims : \A s : Succeed(n, c, s) =>
                 /\ op'[n] = Idle /\ OthersStay(n)
                 /\ \A d \in Claims : kub'[n][d] = IF d = c THEN s ELSE kub[n][d]
<1>1. op[n] \in Operation /\ DOMAIN op = Nodes
  BY DEF TypeOK, DriverTypeOK
<1>2. ASSUME NEW pc, Goto(n, pc)
      PROVE  /\ op'[n].pc = pc /\ op'[n].c = op[n].c /\ op'[n].tok = op[n].tok
             /\ op'[n].seen = op[n].seen /\ kub' = kub /\ OthersStay(n)
  BY <1>1, <1>2 DEF Goto, Operation, OthersStay, TypeOK, DriverTypeOK
<1>3. /\ \A o : op' = [op EXCEPT ![n] = o] /\ UNCHANGED kub =>
             op'[n] = o /\ kub' = kub /\ OthersStay(n)
      /\ Fail(n) => op'[n] = Idle /\ kub' = kub /\ OthersStay(n)
  BY <1>1 DEF Fail, OthersStay, TypeOK, DriverTypeOK
<1>4. ASSUME NEW c \in Claims, NEW s, Succeed(n, c, s)
      PROVE  /\ op'[n] = Idle /\ OthersStay(n)
             /\ \A d \in Claims : kub'[n][d] = IF d = c THEN s ELSE kub[n][d]
  BY <1>1, <1>4 DEF Succeed, OthersStay, TypeOK, DriverTypeOK
<1> QED
  BY <1>2, <1>3, <1>4

LEMMA IdleKeeps ==
    ASSUME TypeOK, NEW n \in Nodes, NodeOK(n)
    PROVE  /\ Fail(n) => NodeOK(n)'
           /\ \A c \in Claims : \A s : Succeed(n, c, s) /\ n \in Homes[c] => NodeOK(n)'
<1>1. ASSUME op'[n] = Idle, \A c \in Claims : kub'[n][c] # "idle" => n \in Homes[c]
      PROVE  NodeOK(n)'
  BY <1>1 DEF NodeOK, Idle, PreparePCs, RevokePCs, ForgetPCs
<1> QED
  BY <1>1, OpEffects DEF NodeOK

\* The operation moves on with what it has.
LEMMA GotoKeeps ==
    ASSUME TypeOK, Forward, NEW n \in Nodes, NodeOK(n), op[n].pc \notin {"idle", "Mint"},
           NEW pc \in OperationPCs \ {"idle", "Mint", "UpsertPut", "DeleteUpdate"},
           Goto(n, pc),
           pc \in UndoPCs \/ Kept(op[n].c) \/ Rewritten(op[n].c),
           pc \in PreparePCs => op[n].pc \in PreparePCs,
           pc \in RevokePCs \cup ForgetPCs => op[n].pc \in RevokePCs \cup ForgetPCs,
           pc \in ForgetPCs => token'[op[n].tok] = "revoked"
    PROVE  NodeOK(n)'
<1>1. /\ op'[n].pc = pc /\ op'[n].c = op[n].c /\ op'[n].tok = op[n].tok /\ kub' = kub
      /\ op[n].tok \in Tokens /\ op[n].c \in Claims
  BY OpEffects, OpFacts
<1>2. UndoPCs \cap (PreparePCs \cup RevokePCs \cup ForgetPCs) = {}
  BY DEF PreparePCs, UndoPCs, RevokePCs, ForgetPCs
<1>3. CASE pc \in UndoPCs
  BY <1>1, <1>2, <1>3 DEF NodeOK, Forward
<1>4. CASE Kept(op[n].c) \/ Rewritten(op[n].c)
  BY <1>1, <1>4 DEF NodeOK, Forward, Kept, Rewritten
<1> QED
  BY <1>3, <1>4

LEMMA PrepareKeeps ==
    ASSUME TypeOK, SingleHome, RecordInv, NEW n \in Nodes, PrepareStep(n),
           UNCHANGED reaperVars
    PROVE  RecordInv'
<1> USE OpFacts, OpEffects, IdleKeeps, TokenSteps
<1>a. NodeOK(n) /\ UNCHANGED pass
  BY RecordInvParts DEF reaperVars
<1>b. UNCHANGED <<record, revision>> => \A c \in Claims : Kept(c)
  BY DEF Kept
<1>c. ASSUME OthersStay(n), Forward, NodeOK(n)', UNCHANGED <<record, revision>>
      PROVE  RecordInv'
  BY <1>a, <1>b, <1>c, DaemonKeeps DEF OthersStay
<1>d. /\ UndoPCs \cup {"CDICreate", "UpsertGet"}
            \subseteq OperationPCs \ {"idle", "Mint", "UpsertPut", "DeleteUpdate"}
      /\ {"GuestCreate", "CDICreate", "UpsertGet", "UpsertPut"} \subseteq PreparePCs
      /\ UndoPCs = {"UndoLock", "UndoCDI", "UndoGuest", "UndoRevoke"}
      /\ (UndoPCs \cup PreparePCs) \cap (RevokePCs \cup ForgetPCs) = {}
      /\ UndoPCs \cap PreparePCs = {}
  BY DEF OperationPCs, PreparePCs, UndoPCs, RevokePCs, ForgetPCs
\* A step that leaves the resources and moves on, or gives up.
<1>e. ASSUME Forward, UNCHANGED <<record, revision>>, op[n].pc \notin {"idle", "Mint"},
             \/ Fail(n)
             \/ \E pc \in UndoPCs : Goto(n, pc)
             \/ op[n].pc \in PreparePCs /\ \E pc \in {"CDICreate", "UpsertGet"} : Goto(n, pc)
      PROVE  RecordInv'
  <2>1. CASE Fail(n)
    BY <1>a, <1>c, <1>e, <2>1
  <2>2. ASSUME NEW pc \in UndoPCs \cup {"CDICreate", "UpsertGet"}, Goto(n, pc),
               pc \notin UndoPCs => op[n].pc \in PreparePCs
        PROVE  RecordInv'
    <3>1. NodeOK(n)'
      BY <1>a, <1>b, <1>d, <1>e, <2>2, GotoKeeps
    <3> QED
      BY <1>c, <1>e, <2>2, <3>1
  <2> QED
    BY <1>e, <2>1, <2>2
<1>1. ASSUME NEW c \in Claims, PrepareGet(n, c) PROVE RecordInv'
  <2>1. n \in Homes[c] /\ Forward /\ UNCHANGED <<record, revision>>
    BY <1>1, <1>a DEF PrepareGet, NodeOK, kubeVars
  <2>2. CASE Succeed(n, c, "prepared") \/ Fail(n)
    BY <1>a, <1>c, <2>1, <2>2
  <2>3. CASE /\ record[c] = None /\ UNCHANGED kub
             /\ op' = [op EXCEPT ![n] = [Idle EXCEPT !.pc = "Mint", !.c = c]]
    <3>0. op'[n] = [Idle EXCEPT !.pc = "Mint", !.c = c] /\ kub' = kub /\ OthersStay(n)
      BY <2>3
    <3>1. op'[n].pc = "Mint" /\ op'[n].c = c
      BY ONLY <3>0 DEF Idle
    <3>2. NodeOK(n)'
      BY <1>a, <2>1, <2>3, <3>0, <3>1 DEF NodeOK, RevokePCs, ForgetPCs
    <3> QED
      BY <1>c, <2>1, <3>0, <3>2
  <2> QED
    BY <1>1, <2>2, <2>3 DEF PrepareGet
<1>2. CASE Mint(n)
  <2>1. Forward /\ UNCHANGED <<record, revision>> /\ op[n].pc = "Mint" /\ op[n] \in Operation
    BY <1>2 DEF Mint, Remote, At, kubeVars
  <2>2. CASE Fail(n)
    BY <1>a, <1>c, <2>1, <2>2
  <2>3. ASSUME NEW t \in Tokens, CreateClientEnrollment(t), UNCHANGED kub,
               op' = [op EXCEPT ![n] = [@ EXCEPT !.pc = "GuestCreate", !.tok = t]]
        PROVE  RecordInv'
    <3>0. /\ op'[n] = [op[n] EXCEPT !.pc = "GuestCreate", !.tok = t]
          /\ kub' = kub /\ OthersStay(n)
      BY ONLY <2>3, TypeOK DEF TypeOK, DriverTypeOK, OthersStay
    <3>1. op'[n].pc = "GuestCreate" /\ op'[n].c = op[n].c /\ op'[n].tok = t
      BY ONLY <2>1, <3>0 DEF Operation
    <3>2. token'[t] # "none"
      BY <2>3 DEF CreateClientEnrollment, TypeOK, ThunderTypeOK
    <3>3. NodeOK(n)'
      BY <1>a, <2>1, <3>0, <3>1, <3>2 DEF NodeOK, PreparePCs, RevokePCs, ForgetPCs
    <3> QED
      BY <1>c, <2>1, <3>0, <3>3
  <2> QED
    BY <1>2, <2>2, <2>3 DEF Mint, Remote
<1>3. CASE GuestCreate(n)
  BY <1>3, <1>d, <1>e DEF GuestCreate, Remote, At
<1>4. CASE CreateDevice(n)
  BY <1>4, <1>d, <1>e DEF CreateDevice, CDICreate, At, kubeVars
<1>5. CASE UpsertGet(n)
  <2>1. Forward /\ UNCHANGED <<record, revision>> /\ op[n].pc = "UpsertGet" /\ op[n] \in Operation
    BY <1>5 DEF UpsertGet, At, kubeVars
  <2>2. CASE Goto(n, "UndoLock")
    BY <1>d, <1>e, <2>1, <2>2
  <2>3. CASE /\ UNCHANGED kub
             /\ op' = [op EXCEPT ![n] = [@ EXCEPT !.pc = "UpsertPut",
                                                   !.seen = record[op[n].c]]]
    <3>0. /\ op'[n] = [op[n] EXCEPT !.pc = "UpsertPut", !.seen = record[op[n].c]]
          /\ kub' = kub /\ OthersStay(n)
      BY ONLY <2>3, TypeOK DEF TypeOK, DriverTypeOK, OthersStay
    <3>1. /\ op'[n].pc = "UpsertPut" /\ op'[n].c = op[n].c /\ op'[n].tok = op[n].tok
          /\ op'[n].seen = record[op[n].c]
      BY ONLY <2>1, <3>0 DEF Operation
    <3>2. NodeOK(n)'
      BY <1>a, <2>1, <3>0, <3>1 DEF NodeOK, PreparePCs, RevokePCs, ForgetPCs, Forward
    <3> QED
      BY <1>c, <2>1, <3>0, <3>2
  <2> QED
    BY <1>5, <2>2, <2>3 DEF UpsertGet
<1>6. CASE UpsertPut(n)
  <2>1. /\ op[n].pc = "UpsertPut" /\ op[n].c \in Claims /\ op[n].tok \in Tokens
        /\ op[n].seen = None /\ token[op[n].tok] # "none" /\ n \in Homes[op[n].c] /\ Forward
    BY <1>6, <1>a DEF UpsertPut, At, NodeOK
  <2>2. CASE Goto(n, "UndoLock") /\ UNCHANGED <<record, revision>>
    BY <1>d, <1>e, <2>1, <2>2
  <2>3. CASE /\ CreateRecord(op[n].c, op[n].tok)
             /\ Succeed(n, op[n].c, "prepared") \/ Goto(n, "UndoLock") \/ Fail(n)
    <3>1. Created(op[n].c, op[n].tok) /\ \A d \in Claims \ {op[n].c} : Kept(d)
      BY <2>1, <2>3, CreateKeeps
    <3>2. NodeOK(n)' /\ OthersStay(n)
      BY <1>a, <1>d, <2>1, <2>3, GotoKeeps
    <3> QED
      BY <1>a, <2>1, <3>1, <3>2, DaemonKeeps DEF OthersStay
  <2> QED
    BY <1>6, <2>1, <2>2, <2>3 DEF UpsertPut, Remote, DiesUnheard
<1>7. CASE UndoLock(n)
  BY <1>7, <1>d, <1>e DEF UndoLock, At, kubeVars
<1>8. CASE UndoCDI(n)
  BY <1>8, <1>d, <1>e DEF UndoCDI, CDIRemove, At, kubeVars
<1>9. CASE UndoGuest(n)
  BY <1>9, <1>d, <1>e DEF UndoGuest, Remote, At
<1>10. CASE UndoRevoke(n)
  BY <1>10, <1>d, <1>e DEF UndoRevoke, Remote, At, kubeVars
<1> QED
  BY <1>1, <1>2, <1>3, <1>4, <1>5, <1>6, <1>7, <1>8, <1>9, <1>10 DEF PrepareStep

LEMMA UnprepareKeeps ==
    ASSUME TypeOK, SingleHome, RecordInv, NEW n \in Nodes, UnprepareStep(n),
           UNCHANGED reaperVars
    PROVE  RecordInv'
<1> USE OpFacts, OpEffects, IdleKeeps, TokenSteps
<1>a. NodeOK(n) /\ UNCHANGED pass /\ ReleasedOnlyRevoked
  BY RecordInvParts DEF reaperVars, RecordInv
<1>b. UNCHANGED <<record, revision>> => \A c \in Claims : Kept(c)
  BY DEF Kept
<1>c. ASSUME OthersStay(n), Forward, NodeOK(n)', UNCHANGED <<record, revision>>
      PROVE  RecordInv'
  BY <1>a, <1>b, <1>c, DaemonKeeps DEF OthersStay
<1>d. /\ {"Revoke", "CDILock", "CDIRemove", "GuestRemove", "DeleteGet", "DeleteDelete"}
            \subseteq OperationPCs \ {"idle", "Mint", "UpsertPut", "DeleteUpdate"}
      /\ {"CDILock", "CDIRemove", "GuestRemove", "DeleteGet", "DeleteUpdate", "DeleteDelete"}
            = ForgetPCs
      /\ {"StagedClientID", "RevokeClient", "Revoke"} = RevokePCs
      /\ (RevokePCs \cup ForgetPCs) \cap (PreparePCs \cup {"idle", "Mint"}) = {}
  BY DEF OperationPCs, PreparePCs, RevokePCs, ForgetPCs
\* A step that leaves the resources and moves on, or gives up.
<1>e. ASSUME Forward, UNCHANGED <<record, revision>>, op[n].pc \in RevokePCs \cup ForgetPCs,
             \/ Fail(n)
             \/ \E pc \in {"Revoke"} \cup (ForgetPCs \ {"DeleteUpdate"}) :
                   Goto(n, pc) /\ (pc \in ForgetPCs => token'[op[n].tok] = "revoked")
      PROVE  RecordInv'
  <2>1. CASE Fail(n)
    BY <1>a, <1>c, <1>e, <2>1
  <2>2. ASSUME NEW pc \in {"Revoke"} \cup (ForgetPCs \ {"DeleteUpdate"}), Goto(n, pc),
               pc \in ForgetPCs => token'[op[n].tok] = "revoked"
        PROVE  RecordInv'
    <3>1. NodeOK(n)'
      BY <1>a, <1>b, <1>d, <1>e, <2>2, GotoKeeps
    <3> QED
      BY <1>c, <1>e, <2>2, <3>1
  <2> QED
    BY <1>e, <2>1, <2>2
<1>f. op[n].pc \in ForgetPCs =>
          token[op[n].tok] = "revoked" /\ (Forward => token'[op[n].tok] = "revoked")
  BY <1>a, <1>d DEF NodeOK, Forward
<1>1. ASSUME NEW c \in Claims, UnprepareGet(n, c) PROVE RecordInv'
  <2>1. n \in Homes[c] /\ Forward /\ UNCHANGED <<record, revision>>
    BY <1>1, <1>a DEF UnprepareGet, NodeOK, kubeVars
  <2>2. CASE Succeed(n, c, "idle") \/ Fail(n)
    BY <1>a, <1>c, <2>1, <2>2
  <2>3. CASE /\ record[c] # None /\ UNCHANGED kub
             /\ op' = [op EXCEPT ![n] = [Idle EXCEPT !.pc = "StagedClientID", !.c = c,
                                                     !.tok = record[c].token]]
    <3>0. /\ op'[n] = [Idle EXCEPT !.pc = "StagedClientID", !.c = c, !.tok = record[c].token]
          /\ kub' = kub /\ OthersStay(n)
      BY ONLY <2>3, TypeOK DEF TypeOK, DriverTypeOK, OthersStay
    <3>1. op'[n].pc = "StagedClientID" /\ op'[n].c = c /\ op'[n].tok = record[c].token
      BY ONLY <3>0 DEF Idle
    <3>2. token'[record[c].token] # "none"
      BY <2>1, <2>3, RecordFacts, RecordInvParts DEF ClaimOK, Forward
    <3>3. NodeOK(n)'
      BY <1>a, <2>1, <2>3, <3>0, <3>1, <3>2 DEF NodeOK, PreparePCs, ForgetPCs
    <3> QED
      BY <1>c, <2>1, <3>0, <3>3
  <2> QED
    BY <1>1, <2>2, <2>3 DEF UnprepareGet
<1>2. CASE ReadStagedClient(n)
  <2>1. PICK id \in Tokens \cup {None} :
            op' = [op EXCEPT ![n] =
                      [@ EXCEPT !.cid = id,
                                !.pc = IF id # None THEN "RevokeClient" ELSE "Revoke"]]
    BY <1>2 DEF ReadStagedClient
  <2>2. /\ op[n].pc = "StagedClientID" /\ op[n] \in Operation /\ UNCHANGED kub
        /\ UNCHANGED <<record, revision>> /\ Forward
    BY <1>2 DEF ReadStagedClient, At, kubeVars
  <2>3. /\ op'[n] = [op[n] EXCEPT !.cid = id,
                                  !.pc = IF id # None THEN "RevokeClient" ELSE "Revoke"]
        /\ kub' = kub /\ OthersStay(n)
    BY ONLY <2>1, <2>2, TypeOK DEF TypeOK, DriverTypeOK, OthersStay
  <2>4. /\ op'[n].pc \in {"RevokeClient", "Revoke"} /\ op'[n].c = op[n].c
        /\ op'[n].tok = op[n].tok
    BY ONLY <2>2, <2>3 DEF Operation
  <2>5. NodeOK(n)'
    BY <1>a, <1>d, <2>2, <2>3, <2>4 DEF NodeOK, Forward
  <2> QED
    BY <1>c, <2>2, <2>3, <2>5
<1>3. CASE RevokeClient(n)
  BY <1>3, <1>d, <1>e DEF RevokeClient, Remote, At, kubeVars
<1>4. CASE Revoke(n)
  <2>1. UnenrollClient(op[n].tok) => token'[op[n].tok] = "revoked"
    BY <1>4 DEF Revoke, At, UnenrollClient, TypeOK, ThunderTypeOK
  <2> QED
    BY <1>4, <1>d, <1>e, <2>1 DEF Revoke, Remote, At, kubeVars
<1>5. CASE LockDevice(n)
  BY <1>5, <1>d, <1>e, <1>f DEF LockDevice, At, kubeVars
<1>6. CASE RemoveDevice(n)
  BY <1>6, <1>d, <1>e, <1>f DEF RemoveDevice, CDIRemove, At, kubeVars
<1>7. CASE GuestRemove(n)
  BY <1>7, <1>d, <1>e, <1>f DEF GuestRemove, Remote, At
<1>8. CASE DeleteGet(n)
  <2>1. /\ op[n].pc = "DeleteGet" /\ op[n] \in Operation /\ op[n].c \in Claims
        /\ UNCHANGED <<record, revision>> /\ Forward /\ n \in Homes[op[n].c]
    BY <1>8, <1>a DEF DeleteGet, At, kubeVars, NodeOK
  <2>2. CASE Succeed(n, op[n].c, "idle") \/ Fail(n)
    BY <1>a, <1>c, <2>1, <2>2
  <2>3. ASSUME NEW pc \in {"DeleteUpdate", "DeleteDelete"}, record[op[n].c] # None,
               op' = [op EXCEPT ![n] = [@ EXCEPT !.seen = record[op[n].c], !.pc = pc]],
               UNCHANGED kub
        PROVE  RecordInv'
    <3>0. /\ op'[n] = [op[n] EXCEPT !.seen = record[op[n].c], !.pc = pc]
          /\ kub' = kub /\ OthersStay(n)
      BY ONLY <2>3, TypeOK DEF TypeOK, DriverTypeOK, OthersStay
    <3>1. /\ op'[n].pc = pc /\ op'[n].c = op[n].c /\ op'[n].tok = op[n].tok
          /\ op'[n].seen = record[op[n].c]
      BY ONLY <2>1, <3>0 DEF Operation
    <3>2. NodeOK(n)'
      BY <1>a, <1>d, <1>f, <2>1, <2>3, <3>0, <3>1 DEF NodeOK, Forward
    <3> QED
      BY <1>c, <2>1, <3>0, <3>2
  <2> QED
    BY <1>8, <2>2, <2>3 DEF DeleteGet
<1>9. CASE DeleteUpdate(n)
  <2>1. /\ op[n].pc = "DeleteUpdate" /\ op[n].c \in Claims /\ op[n].seen \in Record
        /\ op[n].seen.token = op[n].tok /\ token[op[n].tok] = "revoked" /\ Forward
        /\ record[op[n].c] # None => record[op[n].c].token = op[n].tok
    BY <1>9, <1>a, <1>d DEF DeleteUpdate, At, NodeOK
  <2>2. CASE UNCHANGED <<record, revision>> /\ (Goto(n, "DeleteDelete") \/ Fail(n))
    BY <1>d, <1>e, <1>f, <2>1, <2>2
  <2>3. CASE /\ Fresh(op[n].c, op[n].seen)
             /\ PutRecord(op[n].c, [op[n].seen EXCEPT !.fin = FALSE])
             /\ Goto(n, "DeleteDelete") \/ Fail(n)
    <3>1. Rewritten(op[n].c) /\ \A d \in Claims \ {op[n].c} : Kept(d)
      BY <2>1, <2>3, ReleaseKeeps DEF Fresh
    <3>2. NodeOK(n)' /\ OthersStay(n)
      BY <1>a, <1>d, <1>f, <2>1, <2>3, <3>1, GotoKeeps
    <3> QED
      BY <1>a, <2>1, <3>1, <3>2, DaemonKeeps DEF OthersStay
  <2> QED
    BY <1>9, <2>2, <2>3 DEF DeleteUpdate, Remote
<1>10. CASE DeleteDelete(n)
  <2>1. /\ op[n].pc = "DeleteDelete" /\ op[n].c \in Claims /\ Forward
        /\ n \in Homes[op[n].c]
    BY <1>10, <1>a DEF DeleteDelete, At, NodeOK
  <2>2. NodeOK(n)' /\ OthersStay(n)
    BY <1>10, <1>a, <2>1 DEF DeleteDelete, Remote, DiesUnheard
  <2>3. \A c \in Claims : Kept(c) \/ (c = op[n].c /\ Rewritten(c))
    BY <1>10, <1>a, <1>b, <2>1, DeleteKeeps DEF DeleteDelete, Remote, DiesUnheard
  <2> QED
    BY <1>a, <2>1, <2>2, <2>3, DaemonKeeps DEF OthersStay
<1> QED
  BY <1>1, <1>2, <1>3, <1>4, <1>5, <1>6, <1>7, <1>8, <1>9, <1>10 DEF UnprepareStep

-------------------------------------------------------------------------------
(* Everyone else's steps *)

LEMMA PassFacts ==
    ASSUME TypeOK
    PROVE  /\ EndPass => ReapOK' /\ \A c \in Claims : ItemOK(c)'
           /\ \A pc \in PassPCs : pass' = [pass EXCEPT !.pc = pc] =>
                 pass'.pc = pc /\ pass'.items = pass.items /\ pass'.cur = pass.cur
           /\ pass.pc \in {"Unenroll", "Update", "Delete"} =>
                 /\ pass.cur \in Claims /\ pass.items[pass.cur] \in Record
                 /\ pass.items[pass.cur].token \in Tokens
<1>1. EndPass => pass'.pc = "idle" /\ \A c \in Claims : pass'.items[c] = None
  BY DEF EndPass, NoPass
<1>2. pass \in Pass
  BY DEF TypeOK, ReaperTypeOK
<1>3. \A pc \in PassPCs : pass' = [pass EXCEPT !.pc = pc] =>
         pass'.pc = pc /\ pass'.items = pass.items /\ pass'.cur = pass.cur
  BY <1>2 DEF Pass
<1>4. pass.pc \in {"Unenroll", "Update", "Delete"} =>
         pass.cur \in Claims /\ pass.items[pass.cur] # None
  BY <1>2 DEF TypeOK, ReaperTypeOK, Pass
<1> QED
  BY <1>1, <1>3, <1>4, RecordFacts DEF ReapOK, ItemOK

LEMMA OperatorKeeps ==
    ASSUME TypeOK, RecordInv, ReaperStep, UNCHANGED driverVars
    PROVE  RecordInv'
<1> USE TokenSteps, PassFacts
<1>a. /\ \A c \in Claims : ClaimOK(c) /\ ItemOK(c)
      /\ ReapOK /\ ReleasedOnlyRevoked
      /\ \A n \in Nodes : op'[n] = op[n]
      /\ \A n \in Nodes, c \in Claims : kub'[n][c] # "idle" => n \in Homes[c]
      /\ pass \in Pass
  BY RecordInvParts DEF driverVars, RecordInv, NodeOK, TypeOK, ReaperTypeOK
<1>b. UNCHANGED <<record, revision>> => \A c \in Claims : Kept(c)
  BY DEF Kept
<1>c. ASSUME Forward, \A c \in Claims : Kept(c) \/ Rewritten(c), ReapOK',
             \/ pass'.items = pass.items
             \/ \A c \in Claims : ItemOK(c)'
      PROVE  RecordInv'
  BY <1>a, <1>c, OthersKeep
<1>1. CASE ListClients
  <2>1. /\ pass'.items = record /\ pass'.pc = "scan" /\ Forward
        /\ UNCHANGED <<record, revision, token>>
    BY <1>1 DEF ListClients, kubeVars, thunderVars
  <2>2. \A c \in Claims : ItemOK(c)'
    BY <1>a, <2>1 DEF ItemOK, ClaimOK, Fresh
  <2>3. ReapOK'
    BY <2>1 DEF ReapOK
  <2> QED
    BY <1>b, <1>c, <2>1, <2>2, <2>3
<1>2. CASE FinishPass
  BY <1>2, <1>b, <1>c DEF FinishPass, kubeVars
<1>3. ASSUME NEW c \in Claims, Examine(c) PROVE RecordInv'
  <2>1. Forward /\ UNCHANGED <<record, revision>> /\ pass.pc = "scan"
    BY <1>3 DEF Examine, kubeVars
  <2>2. CASE EndPass
    BY <1>b, <1>c, <2>1, <2>2
  <2>3. CASE \/ pass' = [pass EXCEPT !.todo = @ \ {c}]
             \/ pass' = [pass EXCEPT !.pc = "Unenroll", !.todo = @ \ {c}, !.cur = c]
    <3>1. pass'.items = pass.items /\ pass'.pc \in {"scan", "Unenroll"}
      BY ONLY <1>a, <2>1, <2>3 DEF Pass
    <3>2. ReapOK'
      BY <3>1 DEF ReapOK
    <3> QED
      BY <1>b, <1>c, <2>1, <3>1, <3>2
  <2> QED
    BY <1>3, <2>2, <2>3 DEF Examine
<1>4. CASE ReapUnenroll
  <2>1. Forward /\ UNCHANGED <<record, revision>> /\ pass.pc = "Unenroll"
    BY <1>4 DEF ReapUnenroll, Remote, kubeVars
  <2>2. CASE EndPass
    BY <1>b, <1>c, <2>1, <2>2
  <2>3. ASSUME NEW pc \in {"Update", "Delete"}, pass' = [pass EXCEPT !.pc = pc],
               UnenrollClient(pass.items[pass.cur].token)
        PROVE  RecordInv'
    <3>1. pass'.items = pass.items /\ pass'.cur = pass.cur
      BY <2>3 DEF PassPCs
    <3>2. token'[pass.items[pass.cur].token] = "revoked"
      BY <2>1, <2>3 DEF UnenrollClient, TypeOK, ThunderTypeOK
    <3>3. ReapOK'
      BY <3>1, <3>2 DEF ReapOK
    <3> QED
      BY <1>b, <1>c, <2>1, <3>1, <3>3
  <2> QED
    BY <1>4, <2>2, <2>3 DEF ReapUnenroll, Remote
<1>5. CASE ReapUpdate
  <2> DEFINE c == pass.cur
             item == pass.items[c]
  <2>1. /\ Forward /\ pass.pc = "Update" /\ c \in Claims /\ item \in Record
        /\ item # None /\ token[item.token] = "revoked"
    BY <1>5, <1>a, RecordAssumption DEF ReapUpdate, ReapOK
  <2>2. \A d \in Claims : Kept(d) \/ Rewritten(d)
    <3>1. ASSUME Fresh(c, item), PutRecord(c, [item EXCEPT !.fin = FALSE])
          PROVE  \A d \in Claims : Kept(d) \/ Rewritten(d)
      <4>1. item.token = record[c].token
        BY <1>a, <2>1, <3>1 DEF ItemOK
      <4> HIDE DEF item, c
      <4> QED
        BY <2>1, <3>1, <4>1, ReleaseKeeps
    <3> QED
      BY <1>5, <1>b, <3>1 DEF ReapUpdate, Remote
  <2>3. CASE EndPass
    BY <1>c, <2>1, <2>2, <2>3
  <2>4. CASE pass' = [pass EXCEPT !.pc = "Delete"]
    <3>1. pass'.items = pass.items /\ pass'.cur = pass.cur
      BY <2>4 DEF PassPCs
    <3>2. ReapOK'
      BY <2>1, <3>1, RecordFacts DEF ReapOK, Forward
    <3> QED
      BY <1>c, <2>1, <2>2, <3>1, <3>2
  <2> QED
    BY <1>5, <2>3, <2>4 DEF ReapUpdate, Remote
<1>6. CASE ReapDelete
  <2>1. Forward /\ pass.cur \in Claims
    BY <1>6 DEF ReapDelete
  <2>2. \A d \in Claims : Kept(d) \/ Rewritten(d)
    BY <1>6, <1>a, <1>b, <2>1, DeleteKeeps DEF ReapDelete, Remote
  <2>3. CASE EndPass
    BY <1>c, <2>1, <2>2, <2>3
  <2>4. CASE pass' = [pass EXCEPT !.pc = "scan", !.cur = None]
    <3>1. pass'.items = pass.items /\ pass'.pc = "scan"
      BY ONLY <1>a, <2>4 DEF Pass
    <3>2. ReapOK'
      BY <3>1 DEF ReapOK
    <3> QED
      BY <1>c, <2>1, <2>2, <3>1, <3>2
  <2> QED
    BY <1>6, <2>3, <2>4 DEF ReapDelete, Remote
<1> QED
  BY <1>1, <1>2, <1>3, <1>4, <1>5, <1>6 DEF ReaperStep

\* Hooks, guests, pods and crashes: no resource and no listed item changes,
\* except that a user may delete a resource.
LEMMA QuietKeeps ==
    ASSUME TypeOK, RecordInv, Forward,
           \A c \in Claims : Kept(c) \/ Rewritten(c),
           UNCHANGED pass \/ EndPass,
           \A n \in Nodes : op'[n] = op[n] \/ op'[n] = Idle,
           \/ UNCHANGED kub
           \/ \E n \in Nodes, c \in Claims : \E s :
                 n \in Homes[c] /\ kub' = [kub EXCEPT ![n][c] = s]
    PROVE  RecordInv'
<1>1. \A n \in Nodes, c \in Claims : kub[n][c] # "idle" => n \in Homes[c]
  BY RecordInvParts DEF NodeOK
<1>2. \A n \in Nodes, c \in Claims : kub'[n][c] # "idle" => n \in Homes[c]
  BY <1>1 DEF TypeOK, DriverTypeOK
<1> QED
  BY <1>2, OthersKeep, PassFacts

LEMMA RecordNext ==
    ASSUME SingleHome, TypeOK, RecordInv, [Next]_vars
    PROVE  RecordInv'
<1> USE TokenSteps
<1>a. UNCHANGED <<record, revision>> => \A c \in Claims : Kept(c) \/ Rewritten(c)
  BY DEF Kept
<1>b. /\ \A n \in Nodes : NodeOK(n)
      /\ ReleasedOnlyRevoked
  BY RecordInvParts DEF RecordInv
<1>1. ASSUME NEW n \in Nodes, DaemonStep(n) PROVE RecordInv'
  BY <1>1, PrepareKeeps, UnprepareKeeps DEF DaemonStep, DriverStep
<1>2. ASSUME NEW h \in Hooks, StageStep(h) PROVE RecordInv'
  <2>1. Forward
    BY <1>2 DEF StageStep, HookStep, HookLock, HookConfig, HookExchange, HookCache, Remote
  <2> QED
    BY <1>2, <1>a, <2>1, QuietKeeps DEF StageStep, kubeVars, driverVars, reaperVars
<1>3. CASE OperatorStep
  BY <1>3, OperatorKeeps DEF OperatorStep
<1>4. ASSUME NEW c \in Claims, Grace(c) PROVE RecordInv'
  BY <1>4, <1>a, QuietKeeps DEF Grace, GraceElapses, kubeVars, driverVars
<1>5. CASE UNCHANGED vars
  BY <1>5, <1>a, QuietKeeps DEF vars, kubeVars, driverVars, reaperVars
<1>6. CASE Environment
  <2>1. ASSUME NEW c \in Claims, CreateClaim(c) \/ DeleteClaim(c) PROVE RecordInv'
    BY <2>1, <1>a, QuietKeeps DEF CreateClaim, DeleteClaim, AllExceptClaim, driverVars, reaperVars
  <2>2. ASSUME NEW c \in Claims, DeleteResource(c) PROVE RecordInv'
    <3>1. \A d \in Claims : Kept(d) \/ Rewritten(d)
      BY <2>2, <1>b, DeleteKeeps DEF DeleteResource
    <3> QED
      BY <2>2, <3>1, QuietKeeps DEF DeleteResource, driverVars, reaperVars
  <2>3. ASSUME NEW n \in Nodes, NEW c \in Claims, StartPod(n, c) \/ StopPod(n, c)
        PROVE  RecordInv'
    <3>1. n \in Homes[c]
      BY <2>3, <1>b DEF StartPod, StopPod, Kubelet, NodeOK
    <3>2. \E s : kub' = [kub EXCEPT ![n][c] = s]
      BY <2>3 DEF StartPod, StopPod, Kubelet
    <3>3. UNCHANGED <<thunderVars, record, revision, op, pass>>
      BY <2>3 DEF StartPod, StopPod, Kubelet, kubeVars, reaperVars
    <3> QED
      BY <1>a, <3>1, <3>2, <3>3, QuietKeeps
  <2>4. ASSUME NEW n \in Nodes, NEW c \in Claims, GuestEnrolls(n, c) PROVE RecordInv'
    BY <2>4, <1>a, QuietKeeps DEF GuestEnrolls, kubeVars, driverVars, reaperVars
  <2>5. ASSUME NEW h \in Hooks, NEW n \in Nodes, NEW c \in Claims, StartContainer(h, n, c)
        PROVE  RecordInv'
    BY <2>5, <1>a, QuietKeeps DEF StartContainer, HookStart, kubeVars, driverVars, reaperVars
  <2> QED
    BY <1>6, <2>1, <2>2, <2>3, <2>4, <2>5 DEF Environment
<1>7. CASE Crash
  <2>1. ASSUME NEW n \in Nodes, DaemonCrash(n), UNCHANGED reaperVars PROVE RecordInv'
    <3>1. \A m \in Nodes : op'[m] = op[m] \/ op'[m] = Idle
      BY <2>1, OpEffects DEF DaemonCrash, OthersStay
    <3> QED
      BY <2>1, <1>a, <3>1, QuietKeeps DEF DaemonCrash, Fail, kubeVars, reaperVars
  <2>2. ASSUME NEW h \in Hooks, HookCrash(h), UNCHANGED <<kubeVars, driverVars, reaperVars>>
        PROVE  RecordInv'
    BY <2>2, <1>a, QuietKeeps DEF HookCrash, kubeVars, driverVars, reaperVars
  <2>3. ASSUME OperatorCrash, UNCHANGED <<cdiVars, driverVars, hook>> PROVE RecordInv'
    BY <2>3, <1>a, QuietKeeps DEF OperatorCrash, kubeVars, driverVars
  <2>4. ASSUME NEW n \in Nodes, NodeLoss(n) PROVE RecordInv'
    BY <2>4, <1>a, QuietKeeps DEF NodeLoss, kubeVars, reaperVars
  <2> QED
    BY <1>7, <2>1, <2>2, <2>3, <2>4 DEF Crash
<1> QED
  BY <1>1, <1>2, <1>3, <1>4, <1>5, <1>6, <1>7 DEF Next

LEMMA RecordInit == Init => RecordInv
<1> SUFFICES ASSUME Init PROVE RecordInv
  OBVIOUS
<1>1. /\ \A c \in Claims : record[c] = None /\ pass.items[c] = None
      /\ pass.pc = "idle"
      /\ \A n \in Nodes : op[n].pc = "idle" /\ \A c \in Claims : kub[n][c] = "idle"
  BY DEF Init, KubeInit, ReaperInit, NoPass, DriverInit, Idle
<1> QED
  BY <1>1, RecordInvParts DEF ClaimOK, ItemOK, ReapOK, NodeOK, PreparePCs, RevokePCs, ForgetPCs

\* The inductive invariant: when every claim is used on one node only, what
\* prepareOne, unprepareOne and reap rely on holds, for every number of nodes,
\* claims and faults.
THEOREM RecordInvariant ==
    ASSUME SingleHome
    PROVE  Spec => []RecordInv
<1>1. Init => RecordInv
  BY RecordInit
<1>2. TypeOK /\ RecordInv /\ [Next]_vars => RecordInv'
  BY RecordNext
<1> QED
  BY <1>1, <1>2, TypeCorrect, PTL DEF Spec

\* The finalizer of a ThunderClient resource is released, by Delete (store.go)
\* or by reap (clients.go), only when its enrollment token has been revoked.
THEOREM ReleaseFollowsRevoke ==
    ASSUME SingleHome
    PROVE  Spec => []ReleasedOnlyRevoked
<1>1. RecordInv => ReleasedOnlyRevoked
  BY DEF RecordInv
<1> QED
  BY <1>1, RecordInvariant, PTL

-------------------------------------------------------------------------------
(* The ledger: a step changes one enrollment token, or creates one resource, *)
(* or rewrites resources without leaving an enrollment unrecorded            *)

\* One token changes, in one of the ways the service knows.
TokenMoves(t) ==
    /\ \A u \in Tokens \ {t} : token'[u] = token[u]
    /\ \/ token[t] = "none" /\ token'[t] = "unspent"
       \/ token[t] # "none" /\ token'[t] = "revoked"
       \/ token[t] = "unspent" /\ token'[t] = "spent"

LedgerMove ==
    \/ UNCHANGED token /\ \A c \in Claims : Kept(c) \/ Rewritten(c)
    \/ /\ UNCHANGED token
       /\ \E c \in Claims, t \in Tokens :
             Created(c, t) /\ \A d \in Claims \ {c} : Kept(d)
    \/ UNCHANGED record /\ \E t \in Tokens : TokenMoves(t)

LEMMA TokenEffects ==
    ASSUME TypeOK, NEW t \in Tokens
    PROVE  /\ CreateClientEnrollment(t) => TokenMoves(t)
           /\ UnenrollClient(t) /\ token[t] # "none" => TokenMoves(t)
           /\ ExchangeToken(t) => TokenMoves(t)
BY DEF TypeOK, ThunderTypeOK, CreateClientEnrollment, UnenrollClient, ExchangeToken, TokenMoves

LEMMA SameRecords ==
    ASSUME UNCHANGED <<token, record, revision>> PROVE LedgerMove
BY DEF LedgerMove, Kept

-------------------------------------------------------------------------------
(* A move is a step of the ledger, or none *)

\* Rewriting a resource leaves it on record, or its token is revoked.
LEMMA RewriteStands ==
    ASSUME TypeOK, UNCHANGED token, \A c \in Claims : Kept(c) \/ Rewritten(c),
           NEW t \in Tokens
    PROVE  Standing(t)' = Standing(t)
<1>1. ASSUME token[t] # "revoked", NEW c \in Claims
      PROVE  (record[c] # None /\ record[c].token = t)
                <=> (record'[c] # None /\ record'[c].token = t)
  BY <1>1 DEF Kept, Rewritten
<1>2. token[t] # "revoked" => (OnRecord(t)' <=> OnRecord(t))
  BY <1>1 DEF OnRecord
<1> QED
  BY <1>2 DEF Standing

LEMMA CreateStands ==
    ASSUME TypeOK, UNCHANGED token, NEW c \in Claims, NEW t \in Tokens,
           Created(c, t), \A d \in Claims \ {c} : Kept(d)
    PROVE  /\ \A u \in Tokens \ {t} : Standing(u)' = Standing(u)
           /\ \/ Standing(t)' = Standing(t)
              \/ Standing(t) = "pending" /\ Standing(t)' = "recorded"
<1>1. \A u \in Tokens \ {t} : OnRecord(u)' <=> OnRecord(u)
  BY DEF OnRecord, Created, Kept
<1>2. OnRecord(t)' /\ token[t] # "none"
  BY DEF OnRecord, Created
<1> QED
  BY <1>1, <1>2 DEF Standing

LEMMA TokenStands ==
    ASSUME TypeOK, RecordInv, UNCHANGED record, NEW t \in Tokens, TokenMoves(t)
    PROVE  /\ \A u \in Tokens \ {t} : Standing(u)' = Standing(u)
           /\ \/ Standing(t)' = Standing(t)
              \/ Standing(t) = "unminted" /\ Standing(t)' = "pending"
              \/ Standing(t) \in {"pending", "recorded"} /\ Standing(t)' = "revoked"
<1>1. \A u \in Tokens : OnRecord(u)' <=> OnRecord(u)
  BY DEF OnRecord
<1>2. token[t] = "none" => ~OnRecord(t)
  BY DEF RecordInv, RecordedIsMinted, OnRecord
<1> QED
  BY <1>1, <1>2 DEF Standing, TokenMoves

LEMMA MoveIsLedgerStep ==
    ASSUME TypeOK, RecordInv, LedgerMove
    PROVE  [Ledger!Next]_([t \in Tokens |-> Standing(t)])
<1> DEFINE ledger == [t \in Tokens |-> Standing(t)]
<1>1. ASSUME \A t \in Tokens : Standing(t)' = Standing(t)
      PROVE  ledger' = ledger
  BY <1>1
<1>2. ASSUME NEW t \in Tokens, \A u \in Tokens \ {t} : Standing(u)' = Standing(u)
      PROVE  ledger' = [ledger EXCEPT ![t] = Standing(t)']
  BY <1>2
<1>3. ASSUME NEW t \in Tokens, \A u \in Tokens \ {t} : Standing(u)' = Standing(u),
             \/ Standing(t) = "unminted" /\ Standing(t)' = "pending"
             \/ Standing(t) = "pending" /\ Standing(t)' = "recorded"
             \/ Standing(t) \in {"pending", "recorded"} /\ Standing(t)' = "revoked"
      PROVE  Ledger!Next
  <2>1. ledger[t] = Standing(t)
    OBVIOUS
  <2>2. ledger' = [ledger EXCEPT ![t] = Standing(t)']
    BY <1>2, <1>3
  <2> QED
    BY <1>3, <2>1, <2>2 DEF Ledger!Next, Ledger!Mint, Ledger!RecordIt, Ledger!Revoke, Ledger!Move
<1>4. CASE UNCHANGED token /\ \A c \in Claims : Kept(c) \/ Rewritten(c)
  BY <1>1, <1>4, RewriteStands
<1>5. ASSUME UNCHANGED token, NEW c \in Claims, NEW t \in Tokens, Created(c, t),
             \A d \in Claims \ {c} : Kept(d)
      PROVE  Ledger!Next \/ ledger' = ledger
  BY <1>1, <1>3, <1>5, CreateStands
<1>6. ASSUME UNCHANGED record, NEW t \in Tokens, TokenMoves(t)
      PROVE  Ledger!Next \/ ledger' = ledger
  BY <1>1, <1>3, <1>6, TokenStands
<1> QED
  BY <1>4, <1>5, <1>6 DEF LedgerMove

-------------------------------------------------------------------------------
(* Every step is such a move *)

LEMMA DaemonMoves ==
    ASSUME TypeOK, RecordInv, NEW n \in Nodes, DriverStep(n)
    PROVE  LedgerMove
<1> USE OpFacts, TokenEffects, SameRecords
<1>a. NodeOK(n) /\ ReleasedOnlyRevoked
  BY RecordInvParts DEF RecordInv
<1>b. ASSUME UNCHANGED record, NEW t \in Tokens, TokenMoves(t) PROVE LedgerMove
  BY <1>b DEF LedgerMove
<1>1. ASSUME NEW c \in Claims, PrepareGet(n, c) \/ UnprepareGet(n, c) PROVE LedgerMove
  BY <1>1 DEF PrepareGet, UnprepareGet, thunderVars, kubeVars
<1>2. CASE Mint(n)
  BY <1>2, <1>b DEF Mint, Remote, thunderVars, kubeVars
<1>3. CASE GuestCreate(n) \/ UndoGuest(n) \/ GuestRemove(n)
  BY <1>3 DEF GuestCreate, UndoGuest, GuestRemove, thunderVars
<1>4. CASE \/ CreateDevice(n) \/ UpsertGet(n) \/ UndoLock(n) \/ UndoCDI(n)
           \/ ReadStagedClient(n) \/ LockDevice(n) \/ RemoveDevice(n) \/ DeleteGet(n)
  BY <1>4 DEF CreateDevice, UpsertGet, UndoLock, UndoCDI, ReadStagedClient, LockDevice,
              RemoveDevice, DeleteGet, thunderVars, kubeVars
<1>5. CASE UpsertPut(n)
  <2>1. /\ op[n].c \in Claims /\ op[n].tok \in Tokens /\ UNCHANGED token
        /\ op[n].seen = None /\ token[op[n].tok] # "none"
    BY <1>5, <1>a DEF UpsertPut, At, NodeOK, thunderVars
  <2>2. UNCHANGED <<record, revision>> \/ CreateRecord(op[n].c, op[n].tok)
    BY <1>5, <2>1 DEF UpsertPut, Remote, DiesUnheard
  <2> QED
    BY <2>1, <2>2, CreateKeeps DEF LedgerMove
<1>6. CASE UndoRevoke(n) \/ Revoke(n)
  <2>1. op[n].tok \in Tokens /\ token[op[n].tok] # "none" /\ UNCHANGED <<record, revision>>
    BY <1>6, <1>a DEF UndoRevoke, Revoke, At, NodeOK, kubeVars
  <2>2. UNCHANGED token \/ UnenrollClient(op[n].tok)
    BY <1>6 DEF UndoRevoke, Revoke, Remote, thunderVars
  <2> QED
    BY <1>b, <2>1, <2>2
<1>7. CASE RevokeClient(n)
  BY <1>7 DEF RevokeClient, Remote, RevokeThunderClient, thunderVars, kubeVars
<1>8. CASE DeleteUpdate(n)
  <2>1. /\ op[n].c \in Claims /\ op[n].seen \in Record /\ UNCHANGED token
        /\ op[n].seen.token = op[n].tok /\ token[op[n].tok] = "revoked"
        /\ record[op[n].c] # None => record[op[n].c].token = op[n].tok
    BY <1>8, <1>a DEF DeleteUpdate, At, NodeOK, thunderVars, ForgetPCs
  <2>2. \/ UNCHANGED <<record, revision>>
        \/ /\ Fresh(op[n].c, op[n].seen)
           /\ PutRecord(op[n].c, [op[n].seen EXCEPT !.fin = FALSE])
    BY <1>8 DEF DeleteUpdate, Remote
  <2> QED
    BY <2>1, <2>2, ReleaseKeeps DEF LedgerMove, Fresh
<1>9. CASE DeleteDelete(n)
  <2>1. op[n].c \in Claims /\ UNCHANGED token
    BY <1>9 DEF DeleteDelete, At, thunderVars
  <2>2. UNCHANGED <<record, revision>> \/ DeleteRecord(op[n].c)
    BY <1>9 DEF DeleteDelete, Remote, DiesUnheard
  <2> QED
    BY <1>a, <2>1, <2>2, DeleteKeeps DEF LedgerMove
<1> QED
  BY <1>1, <1>2, <1>3, <1>4, <1>5, <1>6, <1>7, <1>8, <1>9
     DEF DriverStep, PrepareStep, UnprepareStep

LEMMA OperatorMoves ==
    ASSUME TypeOK, RecordInv, ReaperStep
    PROVE  LedgerMove
<1> USE PassFacts, TokenEffects, SameRecords
<1>a. ReapOK /\ ReleasedOnlyRevoked /\ \A c \in Claims : ItemOK(c)
  BY RecordInvParts DEF RecordInv
<1>1. CASE ListClients \/ FinishPass \/ \E c \in Claims : Examine(c)
  BY <1>1 DEF ListClients, FinishPass, Examine, thunderVars, kubeVars
<1>2. CASE ReapUnenroll
  <2> DEFINE t == pass.items[pass.cur].token
  <2>1. t \in Tokens /\ token[t] # "none" /\ UNCHANGED <<record, revision>>
    BY <1>2, <1>a, RecordAssumption DEF ReapUnenroll, ItemOK, kubeVars
  <2>2. UNCHANGED token \/ UnenrollClient(t)
    BY <1>2 DEF ReapUnenroll, Remote, thunderVars
  <2> QED
    BY <2>1, <2>2 DEF LedgerMove
<1>3. CASE ReapUpdate
  <2> DEFINE c == pass.cur
             item == pass.items[c]
  <2>1. /\ c \in Claims /\ item \in Record /\ token[item.token] = "revoked"
        /\ UNCHANGED token /\ (Fresh(c, item) => item.token = record[c].token)
    BY <1>3, <1>a, RecordAssumption DEF ReapUpdate, ReapOK, ItemOK, thunderVars
  <2>2. \/ UNCHANGED <<record, revision>>
        \/ Fresh(c, item) /\ PutRecord(c, [item EXCEPT !.fin = FALSE])
    BY <1>3 DEF ReapUpdate, Remote
  <2> HIDE DEF c, item
  <2> QED
    BY <2>1, <2>2, ReleaseKeeps DEF LedgerMove
<1>4. CASE ReapDelete
  <2>1. pass.cur \in Claims /\ UNCHANGED token
    BY <1>4 DEF ReapDelete, thunderVars
  <2>2. UNCHANGED <<record, revision>> \/ DeleteRecord(pass.cur)
    BY <1>4 DEF ReapDelete, Remote
  <2> QED
    BY <1>a, <2>1, <2>2, DeleteKeeps DEF LedgerMove
<1> QED
  BY <1>1, <1>2, <1>3, <1>4 DEF ReaperStep

LEMMA HookMoves ==
    ASSUME TypeOK, NEW h \in Hooks, HookStep(h), UNCHANGED kubeVars
    PROVE  LedgerMove
<1> USE SameRecords DEF kubeVars
<1>1. CASE HookExchange(h)
  <2>1. hook[h].tok \in Tokens
    BY <1>1, HookFacts DEF HookExchange
  <2>2. UNCHANGED token \/ ExchangeToken(hook[h].tok)
    BY <1>1 DEF HookExchange, Remote, thunderVars
  <2> QED
    BY <2>1, <2>2, TokenEffects DEF LedgerMove
<1> QED
  BY <1>1 DEF HookStep, HookLock, HookConfig, HookCache, thunderVars

LEMMA EnvironmentMoves ==
    ASSUME TypeOK, RecordInv, Environment
    PROVE  LedgerMove
<1> USE SameRecords
<1>1. ASSUME NEW c \in Claims, CreateClaim(c) \/ DeleteClaim(c) PROVE LedgerMove
  BY <1>1 DEF CreateClaim, DeleteClaim, AllExceptClaim, thunderVars
<1>2. ASSUME NEW c \in Claims, DeleteResource(c) PROVE LedgerMove
  BY <1>2, DeleteKeeps DEF DeleteResource, thunderVars, LedgerMove, RecordInv
<1>3. ASSUME NEW n \in Nodes, NEW c \in Claims, StartPod(n, c) \/ StopPod(n, c)
      PROVE  LedgerMove
  BY <1>3 DEF StartPod, StopPod, Kubelet, thunderVars, kubeVars
<1>4. ASSUME NEW n \in Nodes, NEW c \in Claims, GuestEnrolls(n, c) PROVE LedgerMove
  <2>1. secret[NameOf[c]] \in Tokens
    BY <1>4 DEF GuestEnrolls, TypeOK, KubeTypeOK, Names
  <2> QED
    BY <1>4, <2>1, TokenEffects DEF GuestEnrolls, kubeVars, LedgerMove
<1>5. ASSUME NEW h \in Hooks, NEW n \in Nodes, NEW c \in Claims, StartContainer(h, n, c)
      PROVE  LedgerMove
  BY <1>5 DEF StartContainer, HookStart, thunderVars, kubeVars
<1> QED
  BY <1>1, <1>2, <1>3, <1>4, <1>5 DEF Environment

LEMMA NextMoves ==
    ASSUME TypeOK, RecordInv, [Next]_vars
    PROVE  LedgerMove
<1> USE SameRecords
<1>1. CASE Crash
  BY <1>1 DEF Crash, DaemonCrash, HookCrash, OperatorCrash, NodeLoss, thunderVars, kubeVars
<1>2. CASE UNCHANGED vars \/ \E c \in Claims : Grace(c)
  BY <1>2 DEF vars, Grace, GraceElapses, thunderVars, kubeVars
<1> QED
  BY <1>1, <1>2, DaemonMoves, HookMoves, OperatorMoves, EnvironmentMoves
     DEF Next, DaemonStep, StageStep, OperatorStep

LEMMA LedgerInit == Init => Ledger!Init
BY DEF Init, ThunderInit, Ledger!Init, Standing

\* The plugin implements the abstract ledger: an enrollment put on record
\* (Upsert) stays there until it is revoked, however daemons, hooks, operator,
\* users and faults interleave, as long as every claim is used on one node.
THEOREM LedgerRefined ==
    ASSUME SingleHome
    PROVE  Spec => LedgerSpec
<1>1. Init => Ledger!Init
  BY LedgerInit
<1>2. TypeOK /\ RecordInv /\ [Next]_vars
         => [Ledger!Next]_([t \in Tokens |-> Standing(t)])
  BY NextMoves, MoveIsLedgerStep
<1> QED
  BY <1>1, <1>2, TypeCorrect, RecordInvariant, PTL DEF Spec, LedgerSpec, Ledger!Spec
===============================================================================
