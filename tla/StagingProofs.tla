---------------------------- MODULE StagingProofs -----------------------------
(***************************************************************************)
(* Staging a client into containers and guests, and taking it back, for    *)
(* claims that have one home and whose hooks are through before they are   *)
(* unprepared.  First, what every step does to one claim on one node, in   *)
(* rows; then the layers of the inductive invariant, each from these rows. *)
(***************************************************************************)
EXTENDS RecordProofs

-------------------------------------------------------------------------------
(* Frames *)

SameDisk(n, c) == files'[n][c] = files[n][c]
SameKub(n, c) == kub'[n][c] = kub[n][c]
SameThunder == token' = token /\ client' = client

\* Only claim c and its name change, on node n only.
Touches(n, c) ==
    /\ \A m \in Nodes \ {n} : op'[m] = op[m] /\ kub'[m] = kub[m] /\ files'[m] = files[m]
    /\ \A d \in Claims \ {c} : SameKub(n, d) /\ SameDisk(n, d) /\ Kept(d)
    /\ \A x \in Names \ {NameOf[c]} : secret'[x] = secret[x]
    /\ \A h \in Hooks : fd'[h] = fd[h]
    /\ claim' = claim /\ up' = up

\* The operation goes on at pc, gives up, or ends with the kubelet's call.
Moves(n, pc) ==
    /\ op'[n].pc = pc /\ op'[n].c = op[n].c /\ op'[n].tok = op[n].tok
    /\ op'[n].cid = op[n].cid /\ kub' = kub

GivesUp(n) == op'[n] = Idle /\ kub' = kub

Ends(n, c, s) == op'[n] = Idle /\ kub'[n][c] = s

LEMMA OpMoves ==
    ASSUME TypeOK, NEW n \in Nodes
    PROVE  /\ \A pc : Goto(n, pc) => Moves(n, pc) /\ OthersStay(n)
           /\ Fail(n) => GivesUp(n) /\ OthersStay(n)
           /\ \A c \in Claims : \A s : Succeed(n, c, s) =>
                 /\ Ends(n, c, s) /\ OthersStay(n)
                 /\ \A d \in Claims \ {c} : SameKub(n, d)
<1>1. op[n] \in Operation /\ DOMAIN op = Nodes
  BY DEF TypeOK, DriverTypeOK
<1>2. ASSUME NEW pc, Goto(n, pc) PROVE Moves(n, pc) /\ OthersStay(n)
  <2>1. op'[n] = [op[n] EXCEPT !.pc = pc] /\ kub' = kub
    BY <1>2 DEF Goto, TypeOK, DriverTypeOK
  <2> QED
    BY <1>1, <1>2, <2>1, OpEffects DEF Operation, Moves
<1> QED
  BY <1>2, OpEffects DEF GivesUp, Ends, SameKub

-------------------------------------------------------------------------------
(* The daemon's steps, in rows *)

\* What no operation does before it has a claim.
GetRow(n, c) ==
    /\ op[n].pc = "idle"
    /\ SameDisk(n, c) /\ SameThunder /\ Kept(c) /\ secret' = secret
    /\ \/ GivesUp(n)
       \/ /\ kub[n][c] = "preparing" /\ claim[c] = "allocated"
          /\ \/ record[c] # None /\ Ends(n, c, "prepared")
             \/ /\ record[c] = None /\ kub' = kub
                /\ op'[n].pc = "Mint" /\ op'[n].c = c
       \/ /\ kub[n][c] = "unpreparing"
          /\ \/ record[c] = None /\ Ends(n, c, "idle")
             \/ /\ record[c] # None /\ kub' = kub
                /\ op'[n].pc = "StagedClientID" /\ op'[n].c = c
                /\ op'[n].tok = record[c].token

Revokes(t) == /\ token'[t] = "revoked" /\ client' = client
              /\ \A u \in Tokens \ {t} : token'[u] = token[u]

\* Calls on the Thunder service.
ThunderRow(n, c) ==
    /\ SameDisk(n, c) /\ Kept(c) /\ secret' = secret
    /\ \/ op[n].pc = "Mint" /\ SameThunder /\ GivesUp(n)
       \/ /\ op[n].pc = "Mint" /\ client' = client /\ kub' = kub
          /\ \E t \in Tokens :
                /\ token[t] = "none" /\ token'[t] = "unspent"
                /\ \A u \in Tokens \ {t} : token'[u] = token[u]
                /\ \/ GivesUp(n)
                   \/ op'[n].pc = "GuestCreate" /\ op'[n].c = c /\ op'[n].tok = t
       \/ op[n].pc = "UndoRevoke" /\ (SameThunder \/ Revokes(op[n].tok)) /\ GivesUp(n)
       \/ /\ op[n].pc = "RevokeClient" /\ token' = token
          /\ \/ /\ \A u \in Tokens : client'[u] = IF u = op[n].cid THEN "revoked" ELSE client[u]
                /\ Moves(n, "Revoke") \/ GivesUp(n)
             \/ client' = client /\ GivesUp(n)
       \/ /\ op[n].pc = "Revoke"
          /\ \/ Revokes(op[n].tok) /\ (Moves(n, "CDILock") \/ GivesUp(n))
             \/ SameThunder /\ GivesUp(n)

\* Calls on the setup Secret.
SecretRow(n, c) ==
    /\ SameDisk(n, c) /\ SameThunder /\ Kept(c)
    /\ \/ /\ op[n].pc = "GuestCreate"
          /\ \/ secret'[NameOf[c]] = op[n].tok /\ Moves(n, "CDICreate")
             \/ Moves(n, "UndoRevoke")
       \/ /\ op[n].pc \in {"UndoGuest", "GuestRemove"}
          /\ secret'[NameOf[c]] \in {None, secret[NameOf[c]]}
          /\ \/ op[n].pc = "UndoGuest" /\ Moves(n, "UndoRevoke")
             \/ op[n].pc = "GuestRemove" /\ (Moves(n, "DeleteGet") \/ GivesUp(n))

\* Calls on the state directory and the CDI spec.
DiskRow(n, c) ==
    LET f == files[n][c]
        g == files'[n][c]
        kept == g.spec = f.spec /\ g.token = f.token /\ g.config = f.config
    IN /\ SameThunder /\ Kept(c) /\ secret' = secret
       /\ \/ /\ op[n].pc = "CDICreate"
             /\ \/ /\ g.spec /\ g.token = op[n].tok /\ g.config = f.config
                   /\ Moves(n, "UpsertGet")
                \/ /\ g.token \in {None, f.token} /\ g.config \in {None, f.config}
                   /\ Moves(n, "UndoGuest")
          \/ op[n].pc = "UndoLock" /\ kept /\ Moves(n, "UndoCDI")
          \/ op[n].pc = "CDILock" /\ kept /\ Moves(n, "CDIRemove")
          \/ /\ op[n].pc = "UndoCDI"
             /\ g.token \in {None, f.token} /\ g.config \in {None, f.config}
             /\ Moves(n, "UndoGuest")
          \/ /\ op[n].pc = "CDIRemove"
             /\ \/ g = NoFiles /\ Moves(n, "GuestRemove")
                \/ g.token = f.token /\ g.config = f.config /\ GivesUp(n)

ReadRow(n, c) ==
    /\ SameDisk(n, c) /\ SameThunder /\ Kept(c) /\ secret' = secret
    /\ \/ /\ op[n].pc = "UpsertGet"
          /\ op'[n].pc \in {"UpsertPut", "UndoLock"} /\ op'[n].c = c
          /\ op'[n].tok = op[n].tok /\ kub' = kub
       \/ /\ op[n].pc = "StagedClientID" /\ op'[n].c = c /\ op'[n].tok = op[n].tok
          /\ kub' = kub
          /\ \/ op'[n].cid = files[n][c].config
             \/ op'[n].cid = None /\ "configError" \in FaultKinds
          /\ op'[n].pc = IF op'[n].cid # None THEN "RevokeClient" ELSE "Revoke"
       \/ /\ op[n].pc = "DeleteGet"
          /\ \/ GivesUp(n)
             \/ record[c] = None /\ Ends(n, c, "idle")
             \/ /\ record[c] # None /\ kub' = kub
                /\ op'[n].c = c /\ op'[n].tok = op[n].tok
                /\ op'[n].pc = IF record[c].fin THEN "DeleteUpdate" ELSE "DeleteDelete"

\* A resource that was deleted is held by its finalizer, or gone.
Deleted(c) ==
    /\ Kept(c) \/ Rewritten(c)
    /\ record[c] = None => record'[c] = None
    /\ record[c] # None /\ record'[c] # None => record'[c].fin = record[c].fin
    /\ record[c] # None /\ record'[c] = None => ~record[c].fin
    /\ record'[c] # None => \/ record'[c].fin
                            \/ record'[c] = record[c] /\ record[c].deleting

\* A resource that was released is without its finalizer, or gone.
Released(c) ==
    Rewritten(c) /\ (record'[c] = None \/ (~record'[c].fin /\ ~record'[c].deleting))

\* Calls that write the ThunderClient resource.
WriteRow(n, c) ==
    /\ SameDisk(n, c) /\ SameThunder /\ secret' = secret
    /\ \/ /\ op[n].pc = "UpsertPut"
          /\ \/ Kept(c) /\ Moves(n, "UndoLock")
             \/ /\ Created(c, op[n].tok)
                /\ \/ Ends(n, c, "prepared") \/ GivesUp(n)
                   \/ "lostReply" \in FaultKinds /\ Moves(n, "UndoLock")
       \/ /\ op[n].pc = "DeleteUpdate"
          /\ \/ Kept(c) /\ GivesUp(n)
             \/ record[c] = None /\ Kept(c) /\ Moves(n, "DeleteDelete")
             \/ /\ Released(c)
                /\ Moves(n, "DeleteDelete") \/ GivesUp(n)
       \/ /\ op[n].pc = "DeleteDelete"
          /\ \/ Kept(c) /\ GivesUp(n)
             \/ Deleted(c) /\ (Ends(n, c, "idle") \/ GivesUp(n))

DaemonRow(n, c) ==
    /\ Touches(n, c)
    /\ op[n].pc # "idle" => c = op[n].c
    /\ \/ GetRow(n, c) \/ ThunderRow(n, c) \/ SecretRow(n, c)
       \/ DiskRow(n, c) \/ ReadRow(n, c) \/ WriteRow(n, c)

\* The claim a daemon's call is about.
LEMMA TouchesAll ==
    ASSUME TypeOK, NEW n \in Nodes, NEW c \in Claims, OthersStay(n),
           UNCHANGED <<claim, up>>,
           \A d \in Claims \ {c} : SameKub(n, d) /\ Kept(d),
           UNCHANGED files \/ \E f : files' = [files EXCEPT ![n][c] = f],
           HookLocksKept,
           UNCHANGED secret \/ \E t : SetSecret(c, t)
    PROVE  Touches(n, c)
<1>1. /\ \A m \in Nodes \ {n} : files'[m] = files[m]
      /\ \A d \in Claims \ {c} : SameDisk(n, d)
  BY DEF TypeOK, CDITypeOK, SameDisk
<1>2. \A x \in Names \ {NameOf[c]} : secret'[x] = secret[x]
  BY DEF TypeOK, KubeTypeOK, SetSecret
<1> QED
  BY <1>1, <1>2 DEF Touches, OthersStay, HookLocksKept

LEMMA GetRows ==
    ASSUME TypeOK, NEW n \in Nodes, NEW c \in Claims, PrepareGet(n, c) \/ UnprepareGet(n, c)
    PROVE  DaemonRow(n, c)
<1> USE OpMoves, OpEffects
<1>1. /\ op[n].pc = "idle" /\ UNCHANGED <<claim, up, files, fd, secret, token, client>>
      /\ \A d \in Claims : Kept(d)
  BY DEF PrepareGet, UnprepareGet, At, thunderVars, kubeVars, cdiVars, Kept
<1>2. /\ OthersStay(n) /\ \A d \in Claims \ {c} : SameKub(n, d)
      /\ \/ GivesUp(n)
         \/ /\ kub[n][c] = "preparing" /\ claim[c] = "allocated"
            /\ \/ record[c] # None /\ Ends(n, c, "prepared")
               \/ /\ record[c] = None /\ kub' = kub
                  /\ op'[n] = [Idle EXCEPT !.pc = "Mint", !.c = c]
         \/ /\ kub[n][c] = "unpreparing"
            /\ \/ record[c] = None /\ Ends(n, c, "idle")
               \/ /\ record[c] # None /\ kub' = kub
                  /\ op'[n] = [Idle EXCEPT !.pc = "StagedClientID", !.c = c,
                                           !.tok = record[c].token]
  <2>1. CASE PrepareGet(n, c)
    BY <2>1 DEF PrepareGet, GivesUp, SameKub
  <2>2. CASE UnprepareGet(n, c)
    BY <2>2 DEF UnprepareGet, GivesUp, SameKub
  <2> QED
    BY <2>1, <2>2
<1>3. Touches(n, c)
  BY <1>1, <1>2, TouchesAll DEF HookLocksKept
<1>4. GetRow(n, c)
  BY <1>1, <1>2 DEF GetRow, SameDisk, SameThunder, Idle
<1> QED
  BY <1>1, <1>3, <1>4 DEF DaemonRow

\* Every step of an operation in progress, where its frame is concerned.
LEMMA CallFrame ==
    ASSUME TypeOK, NEW n \in Nodes, op[n].pc # "idle", OthersStay(n),
           UNCHANGED <<claim, up>>,
           kub' = kub \/ \A d \in Claims \ {op[n].c} : SameKub(n, d)
    PROVE  /\ op[n].c \in Claims
           /\ /\ UNCHANGED <<cdiVars, record, revision>>
              /\ UNCHANGED secret \/ \E t : SetSecret(op[n].c, t)
              => Touches(n, op[n].c) /\ SameDisk(n, op[n].c) /\ Kept(op[n].c)
           /\ /\ UNCHANGED <<secret, record, revision>> /\ HookLocksKept
              /\ UNCHANGED files \/ \E f : files' = [files EXCEPT ![n][op[n].c] = f]
              => Touches(n, op[n].c) /\ Kept(op[n].c)
           /\ /\ UNCHANGED <<secret, cdiVars>>
              /\ \A d \in Claims \ {op[n].c} : Kept(d)
              => Touches(n, op[n].c) /\ SameDisk(n, op[n].c)
<1>1. op[n].c \in Claims
  BY OpFacts
<1>2. \A d \in Claims \ {op[n].c} : SameKub(n, d)
  BY DEF SameKub
<1>3. /\ UNCHANGED <<record, revision>> => \A d \in Claims : Kept(d)
      /\ UNCHANGED cdiVars => /\ UNCHANGED files /\ HookLocksKept
                              /\ SameDisk(n, op[n].c)
  BY DEF Kept, cdiVars, HookLocksKept, SameDisk
<1> QED
  BY <1>1, <1>2, <1>3, TouchesAll

LEMMA ThunderRows ==
    ASSUME TypeOK, NEW n \in Nodes,
           Mint(n) \/ UndoRevoke(n) \/ RevokeClient(n) \/ Revoke(n)
    PROVE  DaemonRow(n, op[n].c)
<1> USE OpMoves, OpEffects, OpFacts
<1> DEFINE c == op[n].c
<1>a. /\ op[n].pc \in {"Mint", "UndoRevoke", "RevokeClient", "Revoke"}
      /\ UNCHANGED <<claim, up, cdiVars, secret, record, revision>>
  BY DEF Mint, UndoRevoke, RevokeClient, Revoke, At, kubeVars
<1>b. ASSUME OthersStay(n), kub' = kub PROVE Touches(n, c) /\ SameDisk(n, c) /\ Kept(c)
  BY <1>a, <1>b, CallFrame
<1>c. /\ UNCHANGED thunderVars => SameThunder
      /\ op[n].pc # "Mint" => (UnenrollClient(op[n].tok) => Revokes(op[n].tok))
  BY <1>a DEF thunderVars, SameThunder, UnenrollClient, Revokes, TypeOK, ThunderTypeOK
<1>1. CASE Mint(n)
  <2>1. op[n].pc = "Mint" /\ op[n] \in Operation
    BY <1>1 DEF Mint, At
  <2>2. CASE Fail(n) /\ UNCHANGED thunderVars
    BY <2>1, <2>2, <1>a, <1>b, <1>c DEF DaemonRow, ThunderRow, GivesUp
  <2>4. ASSUME NEW t \in Tokens, CreateClientEnrollment(t), UNCHANGED kub,
               \/ Fail(n)
               \/ op' = [op EXCEPT ![n] = [@ EXCEPT !.pc = "GuestCreate", !.tok = t]]
        PROVE  DaemonRow(n, c)
    <3>1. /\ token[t] = "none" /\ token'[t] = "unspent" /\ client' = client
          /\ \A u \in Tokens \ {t} : token'[u] = token[u]
      BY <2>4 DEF CreateClientEnrollment, TypeOK, ThunderTypeOK
    <3>2. /\ OthersStay(n) /\ kub' = kub
          /\ GivesUp(n) \/ op'[n] = [op[n] EXCEPT !.pc = "GuestCreate", !.tok = t]
      BY <2>4 DEF TypeOK, DriverTypeOK, OthersStay
    <3>3. GivesUp(n) \/ (op'[n].pc = "GuestCreate" /\ op'[n].c = c /\ op'[n].tok = t)
      BY ONLY <2>1, <3>2 DEF Operation
    <3> QED
      BY <2>1, <3>1, <3>2, <3>3, <1>a, <1>b DEF DaemonRow, ThunderRow
  <2> QED
    BY <1>1, <2>2, <2>4 DEF Mint, Remote
<1>2. CASE UndoRevoke(n)
  <2>1. op[n].pc = "UndoRevoke" /\ GivesUp(n) /\ (SameThunder \/ Revokes(op[n].tok)) /\ OthersStay(n)
    BY <1>2, <1>c DEF UndoRevoke, Remote, At
  <2> QED
    BY <2>1, <1>a, <1>b DEF DaemonRow, ThunderRow, GivesUp
<1>3. CASE RevokeClient(n)
  <2>1. RevokeThunderClient(op[n].cid) =>
           \A u \in Tokens : client'[u] = IF u = op[n].cid THEN "revoked" ELSE client[u]
    BY DEF RevokeThunderClient, TypeOK, ThunderTypeOK
  <2>2. /\ op[n].pc = "RevokeClient" /\ token' = token /\ OthersStay(n) /\ kub' = kub
        /\ \/ RevokeThunderClient(op[n].cid) /\ (Moves(n, "Revoke") \/ GivesUp(n))
           \/ client' = client /\ GivesUp(n)
    BY <1>3 DEF RevokeClient, Remote, At, RevokeThunderClient, thunderVars
  <2> QED
    BY <2>1, <2>2, <1>a, <1>b DEF DaemonRow, ThunderRow
<1>4. CASE Revoke(n)
  <2>1. /\ op[n].pc = "Revoke" /\ OthersStay(n) /\ kub' = kub
        /\ \/ Revokes(op[n].tok) /\ (Moves(n, "CDILock") \/ GivesUp(n))
           \/ SameThunder /\ GivesUp(n)
    BY <1>4, <1>c DEF Revoke, Remote, At
  <2> QED
    BY <2>1, <1>a, <1>b DEF DaemonRow, ThunderRow
<1> QED
  BY <1>1, <1>2, <1>3, <1>4

LEMMA SecretRows ==
    ASSUME TypeOK, NEW n \in Nodes, GuestCreate(n) \/ UndoGuest(n) \/ GuestRemove(n)
    PROVE  DaemonRow(n, op[n].c)
<1> USE OpMoves, OpEffects, OpFacts
<1> DEFINE c == op[n].c
<1>1. /\ op[n].pc \in {"GuestCreate", "UndoGuest", "GuestRemove"}
      /\ UNCHANGED <<claim, up, cdiVars, record, revision>> /\ SameThunder
      /\ UNCHANGED secret \/ \E t : SetSecret(c, t)
      /\ OthersStay(n) /\ kub' = kub
  BY DEF GuestCreate, UndoGuest, GuestRemove, At, Remote, thunderVars, SameThunder
<1>2. Touches(n, c) /\ SameDisk(n, c) /\ Kept(c) /\ c \in Claims
  BY <1>1, CallFrame
<1>3. \A t : SetSecret(c, t) => secret'[NameOf[c]] = t
  BY <1>2 DEF SetSecret, TypeOK, KubeTypeOK, Names
<1>4. SecretRow(n, c)
  BY <1>1, <1>2, <1>3
     DEF SecretRow, GuestCreate, UndoGuest, GuestRemove, At, Remote, GivesUp
<1> QED
  BY <1>1, <1>2, <1>4 DEF DaemonRow

LEMMA DiskRows ==
    ASSUME TypeOK, NEW n \in Nodes,
           \/ CreateDevice(n) \/ UndoLock(n) \/ UndoCDI(n)
           \/ LockDevice(n) \/ RemoveDevice(n)
    PROVE  DaemonRow(n, op[n].c)
<1> USE OpMoves, OpEffects, OpFacts
<1> DEFINE c == op[n].c
           f == files[n][c]
           g == files'[n][c]
<1>1. /\ op[n].pc \in {"CDICreate", "UndoLock", "UndoCDI", "CDILock", "CDIRemove"}
      /\ UNCHANGED <<claim, up, secret, record, revision>> /\ SameThunder
      /\ OthersStay(n) /\ kub' = kub
  BY DEF CreateDevice, CDICreate, UndoLock, UndoCDI, LockDevice, RemoveDevice, CDIRemove, At,
         thunderVars, kubeVars, SameThunder
<1>2. HookLocksKept
  <2>1. CASE CreateDevice(n)
    BY <2>1 DEF CreateDevice, CDICreate, HookLocksKept
  <2>2. CASE UndoLock(n) \/ LockDevice(n)
    BY <1>1, <2>2, CDIRemoveLockType DEF UndoLock, LockDevice
  <2>3. CASE UndoCDI(n)
    BY <1>1, <2>3, CDIRemoveType DEF UndoCDI
  <2>4. CASE RemoveDevice(n)
    BY <1>1, <2>4, CDIRemoveType DEF RemoveDevice
  <2> QED
    BY <2>1, <2>2, <2>3, <2>4
<1>c. c \in Claims /\ files \in [Nodes -> [Claims -> Files]]
  BY <1>1 DEF TypeOK, CDITypeOK
<1>3. f \in Files
  BY <1>c
<1>4. \A e : files' = [files EXCEPT ![n][c] = e] => g = e
  BY <1>1 DEF TypeOK, CDITypeOK
<1>a. ASSUME NEW e, files' = [files EXCEPT ![n][c] = e], DiskRow(n, c)
      PROVE  DaemonRow(n, c)
  BY <1>1, <1>2, <1>a, CallFrame DEF DaemonRow
<1>b. SameThunder /\ Kept(c) /\ secret' = secret
  BY <1>1 DEF Kept
<1>5. CASE CreateDevice(n)
  <2>1. op[n].pc = "CDICreate"
    BY <1>5 DEF CreateDevice, At
  <2>2. CASE /\ files' = [files EXCEPT ![n][c] =
                             [@ EXCEPT !.dir = TRUE, !.spec = TRUE, !.token = op[n].tok]]
             /\ Goto(n, "UpsertGet")
    <3>1. g = [f EXCEPT !.dir = TRUE, !.spec = TRUE, !.token = op[n].tok]
      BY ONLY <1>c, <2>2
    <3>2. g.spec /\ g.token = op[n].tok /\ g.config = f.config
      BY ONLY <1>3, <3>1 DEF Files
    <3> QED
      BY <1>a, <1>b, <2>1, <2>2, <3>2 DEF DiskRow
  <2>3. ASSUME NEW e \in {f, RemoveStateDir(f)}, files' = [files EXCEPT ![n][c] = e],
               Goto(n, "UndoGuest")
        PROVE  DaemonRow(n, c)
    <3>1. g.token \in {None, f.token} /\ g.config \in {None, f.config}
      BY <1>3, <1>4, <2>3 DEF RemoveStateDir, NoFiles
    <3> QED
      BY <1>a, <1>b, <2>1, <2>3, <3>1 DEF DiskRow
  <2> QED
    BY <1>5, <2>2, <2>3 DEF CreateDevice, CDICreate
<1>6. CASE UndoLock(n) \/ LockDevice(n)
  <2>1. /\ CDIRemoveLock(n, c)
        /\ \/ op[n].pc = "UndoLock" /\ Moves(n, "UndoCDI")
           \/ op[n].pc = "CDILock" /\ Moves(n, "CDIRemove")
    BY <1>6 DEF UndoLock, LockDevice, At
  <2>2. CASE UNCHANGED cdiVars
    <3>1. DiskRow(n, c)
      BY <1>b, <2>1, <2>2 DEF DiskRow, cdiVars
    <3> QED
      BY <1>1, <2>2, <3>1, CallFrame DEF DaemonRow
  <2>3. ASSUME NEW i \in Inodes,
               files' = [files EXCEPT ![n][c] = [@ EXCEPT !.dir = TRUE, !.lock = i]]
        PROVE  DaemonRow(n, c)
    <3>1. g = [f EXCEPT !.dir = TRUE, !.lock = i]
      BY ONLY <1>c, <2>3
    <3>2. g.spec = f.spec /\ g.token = f.token /\ g.config = f.config
      BY ONLY <1>3, <3>1 DEF Files
    <3> QED
      BY <1>a, <1>b, <2>1, <2>3, <3>2 DEF DiskRow
  <2> QED
    BY <2>1, <2>2, <2>3 DEF CDIRemoveLock, OpenLock
<1>7. CASE UndoCDI(n) \/ RemoveDevice(n)
  <2>1. \/ /\ files' = [files EXCEPT ![n][c] = NoFiles]
           /\ \/ op[n].pc = "UndoCDI" /\ Moves(n, "UndoGuest")
              \/ op[n].pc = "CDIRemove" /\ Moves(n, "GuestRemove")
        \/ /\ \E b \in BOOLEAN : files' = [files EXCEPT ![n][c] = [@ EXCEPT !.spec = b]]
           /\ \/ op[n].pc = "UndoCDI" /\ Moves(n, "UndoGuest")
              \/ op[n].pc = "CDIRemove" /\ GivesUp(n)
    <3>1. f.spec \in BOOLEAN
      BY <1>3 DEF Files
    <3> QED
      BY <1>7, <3>1 DEF UndoCDI, RemoveDevice, CDIRemove, At
  <2>2. CASE /\ files' = [files EXCEPT ![n][c] = NoFiles]
             /\ \/ op[n].pc = "UndoCDI" /\ Moves(n, "UndoGuest")
                \/ op[n].pc = "CDIRemove" /\ Moves(n, "GuestRemove")
    <3>1. g = NoFiles
      BY <1>4, <2>2
    <3>2. g.token = None /\ g.config = None
      BY <3>1 DEF NoFiles
    <3> QED
      BY <1>a, <1>b, <2>2, <3>1, <3>2 DEF DiskRow
  <2>3. ASSUME NEW b \in BOOLEAN, files' = [files EXCEPT ![n][c] = [@ EXCEPT !.spec = b]],
               \/ op[n].pc = "UndoCDI" /\ Moves(n, "UndoGuest")
               \/ op[n].pc = "CDIRemove" /\ GivesUp(n)
        PROVE  DaemonRow(n, c)
    <3>1. g = [f EXCEPT !.spec = b]
      BY ONLY <1>c, <2>3
    <3>2. g.token = f.token /\ g.config = f.config
      BY ONLY <1>3, <3>1 DEF Files
    <3> QED
      BY <1>a, <1>b, <2>3, <3>2 DEF DiskRow
  <2> QED
    BY <2>1, <2>2, <2>3
<1> QED
  BY <1>5, <1>6, <1>7

LEMMA ReadRows ==
    ASSUME TypeOK, NEW n \in Nodes, UpsertGet(n) \/ ReadStagedClient(n) \/ DeleteGet(n)
    PROVE  DaemonRow(n, op[n].c)
<1> USE OpMoves, OpEffects, OpFacts
<1> DEFINE c == op[n].c
<1>1. /\ op[n].pc \in {"UpsertGet", "StagedClientID", "DeleteGet"} /\ op[n] \in Operation
      /\ UNCHANGED <<claim, up, cdiVars, secret, record, revision>> /\ SameThunder
      /\ c \in Claims
  BY DEF UpsertGet, ReadStagedClient, DeleteGet, At, thunderVars, kubeVars, SameThunder
<1>a. ASSUME OthersStay(n), kub' = kub \/ \A d \in Claims \ {c} : SameKub(n, d)
      PROVE  Touches(n, c) /\ SameDisk(n, c) /\ Kept(c)
  BY <1>1, <1>a, CallFrame
<1>b. ASSUME NEW o, op' = [op EXCEPT ![n] = o] PROVE op'[n] = o
  BY <1>b DEF TypeOK, DriverTypeOK
<1>2. CASE UpsertGet(n)
  <2>1. op[n].pc = "UpsertGet" /\ kub' = kub /\ OthersStay(n)
    BY <1>2 DEF UpsertGet, At
  <2>2. \/ op'[n] = [op[n] EXCEPT !.pc = "UpsertPut", !.seen = record[c]]
        \/ Moves(n, "UndoLock")
    BY <1>2, <1>b DEF UpsertGet
  <2>3. op'[n].pc \in {"UpsertPut", "UndoLock"} /\ op'[n].c = c /\ op'[n].tok = op[n].tok
    BY ONLY <1>1, <2>2 DEF Operation, Moves
  <2> QED
    BY <1>1, <1>a, <2>1, <2>3 DEF DaemonRow, ReadRow
<1>3. CASE ReadStagedClient(n)
  <2>1. PICK id \in Tokens \cup {None} :
            /\ StagedClientID(n, c, id)
            /\ op' = [op EXCEPT ![n] =
                         [@ EXCEPT !.cid = id,
                                   !.pc = IF id # None THEN "RevokeClient" ELSE "Revoke"]]
    BY <1>3 DEF ReadStagedClient
  <2>2. op[n].pc = "StagedClientID" /\ kub' = kub /\ OthersStay(n)
    BY <1>3, <2>1 DEF ReadStagedClient, At
  <2>3. op'[n] = [op[n] EXCEPT !.cid = id,
                               !.pc = IF id # None THEN "RevokeClient" ELSE "Revoke"]
    BY ONLY <2>1, TypeOK, n \in Nodes DEF TypeOK, DriverTypeOK
  <2>4. /\ op'[n].cid = id /\ op'[n].c = c /\ op'[n].tok = op[n].tok
        /\ op'[n].pc = IF id # None THEN "RevokeClient" ELSE "Revoke"
    BY ONLY <1>1, <2>3 DEF Operation
  <2>5. id = files[n][c].config \/ (id = None /\ "configError" \in FaultKinds)
    BY <2>1 DEF StagedClientID, Fault
  <2> QED
    BY <1>1, <1>a, <2>2, <2>4, <2>5 DEF DaemonRow, ReadRow
<1>4. CASE DeleteGet(n)
  <2>1. op[n].pc = "DeleteGet"
    BY <1>4 DEF DeleteGet, At
  <2>2. CASE record[c] = None /\ Succeed(n, c, "idle")
    BY <1>1, <1>a, <2>1, <2>2 DEF DaemonRow, ReadRow
  <2>3. CASE Fail(n)
    BY <1>1, <1>a, <2>1, <2>3 DEF DaemonRow, ReadRow, GivesUp
  <2>4. CASE /\ record[c] # None /\ UNCHANGED kub
             /\ op' = [op EXCEPT ![n] =
                          [@ EXCEPT !.seen = record[c],
                                    !.pc = IF record[c].fin THEN "DeleteUpdate"
                                           ELSE "DeleteDelete"]]
    <3>1. OthersStay(n) /\ kub' = kub
      BY <2>4
    <3>2. op'[n] = [op[n] EXCEPT !.seen = record[c],
                                 !.pc = IF record[c].fin THEN "DeleteUpdate"
                                        ELSE "DeleteDelete"]
      BY ONLY <2>4, TypeOK, n \in Nodes DEF TypeOK, DriverTypeOK
    <3>3. /\ op'[n].c = c /\ op'[n].tok = op[n].tok
          /\ op'[n].pc = IF record[c].fin THEN "DeleteUpdate" ELSE "DeleteDelete"
      BY ONLY <1>1, <3>2 DEF Operation
    <3> QED
      BY <1>1, <1>a, <2>1, <2>4, <3>1, <3>3 DEF DaemonRow, ReadRow
  <2> QED
    BY <1>4, <2>2, <2>3, <2>4 DEF DeleteGet
<1> QED
  BY <1>2, <1>3, <1>4

LEMMA PutStores ==
    ASSUME TypeOK, NEW c \in Claims, NEW r \in Record, PutRecord(c, r)
    PROVE  record'[c] # None =>
              /\ record'[c].fin = r.fin /\ record'[c].deleting = r.deleting
              /\ record'[c].token = r.token /\ (r.fin \/ ~r.deleting)
<1>1. record'[c] = IF r.deleting /\ ~r.fin THEN None ELSE [r EXCEPT !.rv = revision[c] + 1]
  BY DEF PutRecord, TypeOK, KubeTypeOK
<1> QED
  BY <1>1 DEF Record

LEMMA DeleteStores ==
    ASSUME TypeOK, ReleasedOnlyRevoked, NEW c \in Claims, DeleteRecord(c)
    PROVE  Deleted(c)
<1>1. Kept(c) \/ Rewritten(c)
  BY DeleteKeeps
<1>2. CASE record[c] = None \/ record[c].deleting
  BY <1>1, <1>2 DEF DeleteRecord, Deleted
<1>3. CASE record[c] # None /\ ~record[c].deleting
  <2> DEFINE r == [record[c] EXCEPT !.deleting = TRUE]
  <2>1. r \in Record /\ r.token = record[c].token /\ r.fin = record[c].fin /\ r.deleting
    BY <1>3, RecordFacts DEF Record
  <2>2. PutRecord(c, r)
    BY <1>3 DEF DeleteRecord
  <2>3. record'[c] = None => ~r.fin
    <3>1. record'[c] = IF r.deleting /\ ~r.fin THEN None ELSE [r EXCEPT !.rv = revision[c] + 1]
      BY <2>2 DEF PutRecord, TypeOK, KubeTypeOK
    <3> HIDE DEF r
    <3>2. [r EXCEPT !.rv = revision[c] + 1] \in Record
      BY <2>1, RecordFacts DEF Record
    <3> QED
      BY <3>1, <3>2, RecordAssumption
  <2> HIDE DEF r
  <2> QED
    BY <1>1, <1>3, <2>1, <2>2, <2>3, PutStores DEF Deleted
<1> QED
  BY <1>2, <1>3

LEMMA ReleaseStores ==
    ASSUME TypeOK, NEW c \in Claims, NEW seen \in Record, Fresh(c, seen),
           seen.token = record[c].token, token[seen.token] = "revoked",
           PutRecord(c, [seen EXCEPT !.fin = FALSE])
    PROVE  Released(c) /\ \A d \in Claims \ {c} : Kept(d)
<1> DEFINE r == [seen EXCEPT !.fin = FALSE]
<1>1. r \in Record /\ ~r.fin
  BY DEF Record
<1>2. PutRecord(c, r)
  OBVIOUS
<1>3. record'[c] = None \/ (~record'[c].fin /\ ~record'[c].deleting)
  <2> HIDE DEF r
  <2> QED
    BY <1>1, <1>2, PutStores
<1> QED
  BY <1>3, ReleaseKeeps DEF Released

LEMMA WriteFrame ==
    ASSUME TypeOK, NEW n \in Nodes, UpsertPut(n) \/ DeleteUpdate(n) \/ DeleteDelete(n)
    PROVE  /\ Touches(n, op[n].c) /\ SameDisk(n, op[n].c) /\ SameThunder /\ secret' = secret
           /\ op[n].c \in Claims
           /\ \/ /\ op[n].pc = "UpsertPut"
                 /\ Moves(n, "UndoLock") \/ GivesUp(n) \/ Ends(n, op[n].c, "prepared")
              \/ /\ op[n].pc \in {"DeleteUpdate", "DeleteDelete"}
                 /\ Moves(n, "DeleteDelete") \/ GivesUp(n) \/ Ends(n, op[n].c, "idle")
<1> USE OpMoves, OpEffects, OpFacts
<1> DEFINE c == op[n].c
<1>1. /\ op[n].pc \in {"UpsertPut", "DeleteUpdate", "DeleteDelete"}
      /\ UNCHANGED <<claim, up, cdiVars, secret>> /\ SameThunder /\ c \in Claims
  BY DEF UpsertPut, DeleteUpdate, DeleteDelete, At, thunderVars, SameThunder
<1>2. UNCHANGED <<record, revision>> \/ (\E r : PutRecord(c, r))
  <2>1. DeleteRecord(c) => UNCHANGED <<record, revision>> \/ (\E r : PutRecord(c, r))
    BY DEF DeleteRecord
  <2>2. CASE UpsertPut(n)
    BY ONLY <2>2 DEF UpsertPut, Remote, DiesUnheard, CreateRecord
  <2>3. CASE DeleteUpdate(n)
    BY ONLY <2>3 DEF DeleteUpdate, Remote
  <2>4. CASE DeleteDelete(n)
    BY ONLY <2>1, <2>4 DEF DeleteDelete, Remote, DiesUnheard
  <2> QED
    BY <2>2, <2>3, <2>4
<1>3. \A d \in Claims \ {c} : Kept(d)
  <2>1. ASSUME NEW r, PutRecord(c, r), NEW d \in Claims \ {c} PROVE Kept(d)
    BY ONLY <2>1, TypeOK DEF Kept, PutRecord, TypeOK, KubeTypeOK
  <2> QED
    BY <1>2, <2>1 DEF Kept
<1>4. /\ OthersStay(n) /\ \A d \in Claims \ {c} : SameKub(n, d)
      /\ \/ /\ op[n].pc = "UpsertPut"
            /\ Moves(n, "UndoLock") \/ GivesUp(n) \/ Ends(n, c, "prepared")
         \/ /\ op[n].pc \in {"DeleteUpdate", "DeleteDelete"}
            /\ Moves(n, "DeleteDelete") \/ GivesUp(n) \/ Ends(n, c, "idle")
  <2>1. CASE UpsertPut(n)
    BY <1>1, <2>1 DEF UpsertPut, At, Remote, DiesUnheard, Moves, GivesUp, SameKub
  <2>2. CASE DeleteUpdate(n) \/ DeleteDelete(n)
    BY <1>1, <2>2 DEF DeleteUpdate, DeleteDelete, At, Remote, DiesUnheard, Moves, GivesUp, SameKub
  <2> QED
    BY <2>1, <2>2
<1> QED
  BY <1>1, <1>3, <1>4, CallFrame

LEMMA WriteRows ==
    ASSUME TypeOK, RecordInv, NEW n \in Nodes, UpsertPut(n) \/ DeleteUpdate(n) \/ DeleteDelete(n)
    PROVE  DaemonRow(n, op[n].c)
<1> USE OpMoves, OpEffects, OpFacts
<1> DEFINE c == op[n].c
<1>1. /\ op[n].pc \in {"UpsertPut", "DeleteUpdate", "DeleteDelete"}
      /\ UNCHANGED <<claim, up, cdiVars, secret>> /\ SameThunder /\ c \in Claims
      /\ NodeOK(n) /\ ReleasedOnlyRevoked
  BY RecordInvParts
     DEF UpsertPut, DeleteUpdate, DeleteDelete, At, thunderVars, SameThunder, RecordInv
<1>a. Touches(n, c) /\ SameDisk(n, c) /\ secret' = secret
  BY WriteFrame
<1>b. UNCHANGED <<record, revision>> => \A d \in Claims : Kept(d)
  BY DEF Kept
<1>2. CASE UpsertPut(n)
  <2>1. /\ op[n].pc = "UpsertPut" /\ op[n].tok \in Tokens
        /\ op[n].seen = None /\ token[op[n].tok] # "none"
    BY <1>1, <1>2 DEF UpsertPut, At, NodeOK
  <2>2. CASE Goto(n, "UndoLock") /\ UNCHANGED <<record, revision>>
    BY <1>1, <1>a, <1>b, <2>1, <2>2 DEF DaemonRow, WriteRow, Moves
  <2>3. CASE /\ CreateRecord(c, op[n].tok)
             /\ \/ Succeed(n, c, "prepared") \/ Fail(n)
                \/ "lostReply" \in FaultKinds /\ Goto(n, "UndoLock")
    <3>1. Created(c, op[n].tok) /\ \A d \in Claims \ {c} : Kept(d)
      BY <1>1, <2>1, <2>3, CreateKeeps
    <3> QED
      BY <1>1, <1>a, <2>1, <2>3, <3>1 DEF DaemonRow, WriteRow, Moves, GivesUp
  <2> QED
    BY <1>2, <2>1, <2>2, <2>3 DEF UpsertPut, Remote, DiesUnheard, Fault
<1>3. CASE DeleteUpdate(n)
  <2>1. /\ op[n].pc = "DeleteUpdate" /\ op[n].seen \in Record
        /\ op[n].seen.token = op[n].tok /\ token[op[n].tok] = "revoked"
        /\ record[c] # None => record[c].token = op[n].tok
    BY <1>1, <1>3 DEF DeleteUpdate, At, NodeOK, ForgetPCs
  <2>2. CASE /\ UNCHANGED <<record, revision>>
             /\ (record[c] = None /\ Goto(n, "DeleteDelete")) \/ Fail(n)
    BY <1>1, <1>a, <1>b, <2>1, <2>2 DEF DaemonRow, WriteRow, Moves, GivesUp
  <2>3. CASE /\ Fresh(c, op[n].seen) /\ PutRecord(c, [op[n].seen EXCEPT !.fin = FALSE])
             /\ Goto(n, "DeleteDelete") \/ Fail(n)
    <3>1. Released(c)
      BY <1>1, <2>1, <2>3, ReleaseStores DEF Fresh
    <3> QED
      BY <1>1, <1>a, <2>1, <2>3, <3>1 DEF DaemonRow, WriteRow, Moves, GivesUp
  <2> QED
    BY <1>3, <2>2, <2>3 DEF DeleteUpdate, Remote
<1>4. CASE DeleteDelete(n)
  <2>1. op[n].pc = "DeleteDelete"
    BY <1>4 DEF DeleteDelete, At
  <2>2. CASE UNCHANGED <<record, revision>> /\ Fail(n)
    BY <1>1, <1>a, <1>b, <2>1, <2>2 DEF DaemonRow, WriteRow, GivesUp
  <2>3. CASE DeleteRecord(c) /\ (Succeed(n, c, "idle") \/ Fail(n))
    <3>1. Deleted(c)
      BY <1>1, <2>3, DeleteStores
    <3> QED
      BY <1>1, <1>a, <2>1, <2>3, <3>1 DEF DaemonRow, WriteRow, GivesUp
  <2> QED
    BY <1>4, <2>2, <2>3 DEF DeleteDelete, Remote, DiesUnheard
<1> QED
  BY <1>2, <1>3, <1>4

LEMMA DaemonRows ==
    ASSUME TypeOK, RecordInv, NEW n \in Nodes, DriverStep(n)
    PROVE  \E c \in Claims : DaemonRow(n, c)
<1>1. op[n].pc # "idle" => op[n].c \in Claims
  BY OpFacts
<1>2. ASSUME DaemonRow(n, op[n].c), op[n].pc # "idle" PROVE \E c \in Claims : DaemonRow(n, c)
  BY <1>1, <1>2
<1>3. CASE Mint(n) \/ UndoRevoke(n) \/ RevokeClient(n) \/ Revoke(n)
  BY <1>2, <1>3, ThunderRows DEF Mint, UndoRevoke, RevokeClient, Revoke, At
<1>4. CASE GuestCreate(n) \/ UndoGuest(n) \/ GuestRemove(n)
  BY <1>2, <1>4, SecretRows DEF GuestCreate, UndoGuest, GuestRemove, At
<1>5. CASE CreateDevice(n) \/ UndoLock(n) \/ UndoCDI(n) \/ LockDevice(n) \/ RemoveDevice(n)
  BY <1>2, <1>5, DiskRows DEF CreateDevice, UndoLock, UndoCDI, LockDevice, RemoveDevice, At
<1>6. CASE UpsertGet(n) \/ ReadStagedClient(n) \/ DeleteGet(n)
  BY <1>2, <1>6, ReadRows DEF UpsertGet, ReadStagedClient, DeleteGet, At
<1>7. CASE UpsertPut(n) \/ DeleteUpdate(n) \/ DeleteDelete(n)
  BY <1>2, <1>7, WriteRows DEF UpsertPut, DeleteUpdate, DeleteDelete, At
<1> QED
  BY <1>3, <1>4, <1>5, <1>6, <1>7, GetRows DEF DriverStep, PrepareStep, UnprepareStep

-------------------------------------------------------------------------------
(* The hooks' steps, in rows *)

DiskFrame(n, c) ==
    /\ \A m \in Nodes \ {n} : files'[m] = files[m]
    /\ \A d \in Claims \ {c} : SameDisk(n, d)

HookFrame(h) == \A g \in Hooks \ {h} : hook'[g] = hook[g] /\ fd'[g] = fd[g]

Exits(h) == hook'[h] = Off /\ fd'[h] = None

\* The hook goes on with the same claim at pc.
GoesOn(h, pc) ==
    /\ hook'[h].pc = pc /\ hook'[h].node = hook[h].node /\ hook'[h].claim = hook[h].claim

Spends(t) == /\ token[t] = "unspent" /\ token'[t] = "spent" /\ client'[t] = "live"
             /\ \A u \in Tokens \ {t} : token'[u] = token[u] /\ client'[u] = client[u]

LockRow(h) ==
    /\ hook[h].pc = "wait" /\ GoesOn(h, "config") /\ LockFree(h)
    /\ fd'[h] # None /\ fd'[h].held
    /\ fd'[h].node = fd[h].node /\ fd'[h].claim = fd[h].claim /\ fd'[h].ino = fd[h].ino
    /\ files' = files /\ SameThunder

ExitRow(h) ==
    /\ Exits(h) /\ files' = files /\ SameThunder
    /\ hook[h].pc = "cache" => \/ ~files[hook[h].node][hook[h].claim].dir
                               \/ {"configError", "hookCrash"} \cap FaultKinds # {}

ExchangeRow(h) ==
    /\ files' = files
    /\ \/ /\ hook[h].pc = "config" /\ GoesOn(h, "exchange") /\ fd'[h] = fd[h] /\ SameThunder
          /\ \/ files[hook[h].node][hook[h].claim].config = None
             \/ "configError" \in FaultKinds
          /\ hook'[h].tok = files[hook[h].node][hook[h].claim].token
       \/ /\ hook[h].pc = "exchange" /\ Spends(hook[h].tok)
          /\ \/ GoesOn(h, "cache") /\ hook'[h].tok = hook[h].tok /\ fd'[h] = fd[h]
             \/ /\ "lostReply" \in FaultKinds
                /\ \/ Exits(h)
                   \/ GoesOn(h, "exchange") /\ hook'[h].tok = hook[h].tok /\ fd'[h] = fd[h]
       \/ /\ hook[h].pc = "exchange" /\ SameThunder
          /\ GoesOn(h, "exchange") /\ hook'[h].tok = hook[h].tok /\ fd'[h] = fd[h]

CacheRow(h) ==
    LET n == hook[h].node
        c == hook[h].claim
        f == files[n][c]
        g == files'[n][c]
    IN /\ hook[h].pc = "cache" /\ Exits(h) /\ SameThunder /\ DiskFrame(n, c)
       /\ g.config = hook[h].tok /\ g.token \in {None, f.token}
       /\ g.dir = f.dir /\ g.spec = f.spec /\ g.lock = f.lock

StageRow(h) ==
    /\ hook[h].pc # "off" /\ HookFrame(h)
    /\ LockRow(h) \/ ExitRow(h) \/ ExchangeRow(h) \/ CacheRow(h)

StartRow(h, n, c) ==
    LET f == files[n][c]
        g == files'[n][c]
    IN /\ hook[h].pc = "off" /\ HookFrame(h) /\ SameThunder /\ DiskFrame(n, c)
       /\ up[n] /\ kub[n][c] = "prepared" /\ f.spec
       /\ hook'[h].pc = "wait" /\ hook'[h].node = n /\ hook'[h].claim = c
       /\ g.dir /\ g.token = f.token /\ g.config = f.config /\ g.spec = f.spec
       /\ f.lock # None => g.lock = f.lock
       /\ fd'[h] # None /\ fd'[h].node = n /\ fd'[h].claim = c
       /\ fd'[h].ino = g.lock /\ ~fd'[h].held

LEMMA ExitEffect ==
    ASSUME TypeOK, NEW h \in Hooks, Exit(h)
    PROVE  Exits(h) /\ HookFrame(h)
BY HookFacts DEF Exit, Close, Exits, HookFrame, TypeOK, HookTypeOK, CDITypeOK, Processes

LEMMA HookMove ==
    ASSUME TypeOK, NEW h \in Hooks, NEW k, hook' = [hook EXCEPT ![h] = k]
    PROVE  /\ hook'[h] = k
           /\ \A g \in Hooks \ {h} : hook'[g] = hook[g]
BY DEF TypeOK, HookTypeOK

LEMMA StageRows ==
    ASSUME TypeOK, NEW h \in Hooks, HookStep(h)
    PROVE  StageRow(h)
<1> USE HookFacts
<1> DEFINE n == hook[h].node
           c == hook[h].claim
           f == files[n][c]
<1>a. hook[h].pc # "off" /\ hook[h] \in HookProcess /\ n \in Nodes /\ c \in Claims
      /\ fd[h] \in Descriptor
  BY DEF HookStep, HookLock, HookConfig, HookExchange, HookCache
<1>b. f \in Files
  BY <1>a, FilesType DEF TypeOK
<1>c. UNCHANGED thunderVars => SameThunder
  BY DEF thunderVars, SameThunder
<1>1. CASE HookLock(h)
  <2>1. hook'[h] = [hook[h] EXCEPT !.pc = "config"] /\ \A g \in Hooks \ {h} : hook'[g] = hook[g]
    BY <1>1 DEF HookLock, TypeOK, HookTypeOK
  <2>2. GoesOn(h, "config")
    BY ONLY <1>a, <2>1 DEF HookProcess, GoesOn
  <2>3. fd'[h] = [fd[h] EXCEPT !.held = TRUE] /\ \A g \in Hooks \ {h} : fd'[g] = fd[g]
    BY <1>1 DEF HookLock, Flock, TypeOK, CDITypeOK, Processes
  <2>4. /\ fd'[h] \in Descriptor /\ fd'[h].held /\ fd'[h].node = fd[h].node
        /\ fd'[h].claim = fd[h].claim /\ fd'[h].ino = fd[h].ino
    BY ONLY <1>a, <2>3 DEF Descriptor
  <2> QED
    BY <1>1, <1>a, <1>c, <2>1, <2>2, <2>3, <2>4, DescriptorAssumption
       DEF HookLock, Flock, StageRow, LockRow, HookFrame
<1>2. CASE HookConfig(h)
  <2>1. CASE Exit(h)
    BY <1>2, <1>a, <1>c, <2>1, ExitEffect DEF HookConfig, StageRow, ExitRow
  <2>2. CASE /\ f.config = None \/ "configError" \in FaultKinds
             /\ UNCHANGED fd
             /\ hook' = [hook EXCEPT ![h] = [@ EXCEPT !.pc = "exchange", !.tok = f.token]]
    <3>1. /\ hook'[h] = [hook[h] EXCEPT !.pc = "exchange", !.tok = f.token]
          /\ \A g \in Hooks \ {h} : hook'[g] = hook[g]
      BY ONLY <2>2, TypeOK, h \in Hooks DEF TypeOK, HookTypeOK
    <3>2. GoesOn(h, "exchange") /\ hook'[h].tok = f.token
      BY ONLY <1>a, <3>1 DEF HookProcess, GoesOn
    <3> QED
      BY <1>2, <1>a, <1>c, <2>2, <3>1, <3>2 DEF HookConfig, StageRow, ExchangeRow, HookFrame
  <2> QED
    BY <1>2, <2>1, <2>2 DEF HookConfig, Fault
<1>3. CASE HookExchange(h)
  <2>1. hook[h].pc = "exchange" /\ hook[h].tok \in Tokens /\ files' = files
    BY <1>3 DEF HookExchange
  <2>2. ExchangeToken(hook[h].tok) => Spends(hook[h].tok)
    BY <2>1 DEF ExchangeToken, Spends, TypeOK, ThunderTypeOK
  <2>3. ASSUME UNCHANGED fd, hook' = [hook EXCEPT ![h] = [@ EXCEPT !.pc = "cache"]]
        PROVE  GoesOn(h, "cache") /\ hook'[h].tok = hook[h].tok /\ HookFrame(h)
    <3>1. hook'[h] = [hook[h] EXCEPT !.pc = "cache"] /\ HookFrame(h)
      BY ONLY <2>3, TypeOK, h \in Hooks DEF TypeOK, HookTypeOK, HookFrame
    <3> QED
      BY ONLY <1>a, <3>1 DEF HookProcess, GoesOn
  <2>4. ASSUME UNCHANGED fd,
               hook' = [hook EXCEPT ![h] = [@ EXCEPT !.tries = hook[h].tries + 1]]
        PROVE  GoesOn(h, "exchange") /\ hook'[h].tok = hook[h].tok /\ HookFrame(h)
    <3>1. hook'[h] = [hook[h] EXCEPT !.tries = hook[h].tries + 1] /\ HookFrame(h)
      BY ONLY <2>4, TypeOK, h \in Hooks DEF TypeOK, HookTypeOK, HookFrame
    <3> QED
      BY ONLY <1>a, <2>1, <3>1 DEF HookProcess, GoesOn
  <2>5. \/ Exit(h) /\ SameThunder
        \/ Exit(h) /\ Spends(hook[h].tok) /\ "lostReply" \in FaultKinds
        \/ /\ SameThunder /\ UNCHANGED fd
           /\ hook' = [hook EXCEPT ![h] = [@ EXCEPT !.tries = hook[h].tries + 1]]
        \/ /\ Spends(hook[h].tok) /\ "lostReply" \in FaultKinds /\ UNCHANGED fd
           /\ hook' = [hook EXCEPT ![h] = [@ EXCEPT !.tries = hook[h].tries + 1]]
        \/ /\ Spends(hook[h].tok) /\ UNCHANGED fd
           /\ hook' = [hook EXCEPT ![h] = [@ EXCEPT !.pc = "cache"]]
    BY <1>3, <1>c, <2>2 DEF HookExchange, Remote, Retry, Fault
  <2> QED
    BY <1>a, <2>1, <2>3, <2>4, <2>5, ExitEffect DEF StageRow, ExitRow, ExchangeRow
<1>4. CASE HookCache(h)
  <2>1. hook[h].pc = "cache" /\ Exits(h) /\ HookFrame(h) /\ SameThunder
    BY <1>4, <1>c, ExitEffect DEF HookCache
  <2>2. CASE UNCHANGED files /\ (~f.dir \/ "configError" \in FaultKinds)
    BY <1>a, <2>1, <2>2 DEF StageRow, ExitRow
  <2>3. ASSUME NEW left \in {None, f.token},
               files' = [files EXCEPT ![n][c] = [@ EXCEPT !.config = hook[h].tok, !.token = left]]
        PROVE  StageRow(h)
    <3>1. /\ files'[n][c] = [f EXCEPT !.config = hook[h].tok, !.token = left]
          /\ DiskFrame(n, c)
      BY ONLY <1>a, <2>3, TypeOK DEF TypeOK, CDITypeOK, DiskFrame, SameDisk
    <3>2. /\ files'[n][c].config = hook[h].tok /\ files'[n][c].token = left
          /\ files'[n][c].dir = f.dir /\ files'[n][c].spec = f.spec
          /\ files'[n][c].lock = f.lock
      BY ONLY <1>b, <3>1 DEF Files
    <3> QED
      BY <1>a, <2>1, <2>3, <3>1, <3>2 DEF StageRow, CacheRow
  <2> QED
    BY <1>4, <2>2, <2>3 DEF HookCache, Fault
<1> QED
  BY <1>1, <1>2, <1>3, <1>4 DEF HookStep

LEMMA CrashRow ==
    ASSUME TypeOK, NEW h \in Hooks, HookCrash(h)
    PROVE  StageRow(h)
BY ExitEffect DEF HookCrash, Fault, StageRow, ExitRow, thunderVars, SameThunder

LEMMA StartRows ==
    ASSUME TypeOK, NEW h \in Hooks, NEW n \in Nodes, NEW c \in Claims, StartContainer(h, n, c)
    PROVE  StartRow(h, n, c)
<1> DEFINE f == files[n][c]
<1>0. OpenLock(h, n, c)
  BY DEF StartContainer, HookStart
<1>1. PICK i \in Inodes :
          /\ IF files[n][c].lock # None
             THEN i = files[n][c].lock
             ELSE /\ i \notin Opened(n, c)
                  /\ \A j \in Inodes \ Opened(n, c) : i <= j
          /\ files' = [files EXCEPT ![n][c] = [@ EXCEPT !.dir = TRUE, !.lock = i]]
          /\ fd' = [fd EXCEPT ![h] = [node |-> n, claim |-> c, ino |-> i, held |-> FALSE]]
  BY ONLY <1>0 DEF OpenLock
<1>2. f \in Files
  BY FilesType DEF TypeOK
<1>3. files'[n][c] = [f EXCEPT !.dir = TRUE, !.lock = i] /\ DiskFrame(n, c)
  BY ONLY <1>1, TypeOK, n \in Nodes, c \in Claims DEF TypeOK, CDITypeOK, DiskFrame, SameDisk
<1>4. /\ files'[n][c].dir /\ files'[n][c].token = f.token /\ files'[n][c].config = f.config
      /\ files'[n][c].spec = f.spec /\ files'[n][c].lock = i
  BY ONLY <1>2, <1>3 DEF Files
<1>5. /\ fd'[h] = [node |-> n, claim |-> c, ino |-> i, held |-> FALSE]
      /\ \A g \in Hooks \ {h} : fd'[g] = fd[g]
  BY <1>1 DEF TypeOK, CDITypeOK, Processes
<1>6. /\ fd'[h] \in Descriptor /\ fd'[h].node = n /\ fd'[h].claim = c
      /\ fd'[h].ino = i /\ ~fd'[h].held
  BY ONLY <1>5, n \in Nodes, c \in Claims, i \in Inodes DEF Descriptor
<1>9. f.lock # None => i = f.lock
  BY ONLY <1>1
<1>7. /\ hook'[h] = [pc |-> "wait", node |-> n, claim |-> c, tok |-> None, tries |-> 0]
      /\ \A g \in Hooks \ {h} : hook'[g] = hook[g]
  BY HookMove DEF StartContainer, HookStart
<1>10. hook'[h].pc = "wait" /\ hook'[h].node = n /\ hook'[h].claim = c
  BY ONLY <1>7
<1>11. DiskFrame(n, c) /\ fd'[h] # None
  BY <1>3, <1>6, DescriptorAssumption
<1>12. HookFrame(h)
  BY <1>5, <1>7 DEF HookFrame
<1>8. SameThunder /\ up[n] /\ kub[n][c] = "prepared" /\ f.spec /\ hook[h].pc = "off"
  BY DEF StartContainer, HookStart, SameThunder, thunderVars
<1> QED
  BY ONLY <1>4, <1>6, <1>8, <1>9, <1>10, <1>11, <1>12 DEF StartRow

-------------------------------------------------------------------------------
(* 0. Calls, and 1. stage locks *)

Preparing == PreparePCs \cup UndoPCs
Unpreparing == RevokePCs \cup ForgetPCs

LEMMA PCs ==
    /\ Preparing = {"Mint", "GuestCreate", "CDICreate", "UpsertGet", "UpsertPut",
                    "UndoLock", "UndoCDI", "UndoGuest", "UndoRevoke"}
    /\ Unpreparing = {"StagedClientID", "RevokeClient", "Revoke", "CDILock", "CDIRemove",
                      "GuestRemove", "DeleteGet", "DeleteUpdate", "DeleteDelete"}
BY DEF Preparing, Unpreparing, PreparePCs, UndoPCs, RevokePCs, ForgetPCs

\* What a step of the daemon does to calls, disk and locks.
CallView(n, c) ==
    /\ \A m \in Nodes \ {n} : op'[m] = op[m] /\ kub'[m] = kub[m] /\ files'[m] = files[m]
    /\ \A d \in Claims \ {c} : SameKub(n, d) /\ SameDisk(n, d)
    /\ \A h \in Hooks : fd'[h] = fd[h]
    /\ op[n].pc # "idle" => c = op[n].c
    /\ op[n].pc = "idle" => SameDisk(n, c) /\ (kub' = kub \/ kub[n][c] # "prepared")
    /\ \/ op'[n] = Idle
       \/ /\ kub' = kub /\ op'[n].c = c
          /\ \/ /\ op'[n].pc \in Preparing
                /\ op[n].pc \in Preparing \/ (op[n].pc = "idle" /\ kub[n][c] = "preparing")
             \/ /\ op'[n].pc \in Unpreparing
                /\ op[n].pc \in Unpreparing \/ (op[n].pc = "idle" /\ kub[n][c] = "unpreparing")

LEMMA CallViews ==
    ASSUME TypeOK, NEW n \in Nodes, DriverStep(n)
    PROVE  \E c \in Claims : CallView(n, c)
<1> USE PCs
<1>1. ASSUME NEW c \in Claims, Touches(n, c), GetRow(n, c) PROVE CallView(n, c)
  BY <1>1 DEF CallView, Touches, GetRow, GivesUp, Ends
<1>2. ASSUME NEW c \in Claims, Touches(n, c), op[n].pc # "idle", c = op[n].c,
             \/ ThunderRow(n, c) \/ SecretRow(n, c) \/ DiskRow(n, c) \/ ReadRow(n, c)
      PROVE  CallView(n, c)
  <2>1. CASE ThunderRow(n, c)
    BY <1>2, <2>1 DEF CallView, Touches, ThunderRow, GivesUp, Moves
  <2>2. CASE SecretRow(n, c)
    BY <1>2, <2>2 DEF CallView, Touches, SecretRow, GivesUp, Moves
  <2>3. CASE DiskRow(n, c)
    BY <1>2, <2>3 DEF CallView, Touches, DiskRow, GivesUp, Moves
  <2>4. CASE ReadRow(n, c)
    BY <1>2, <2>4 DEF CallView, Touches, ReadRow, GivesUp, Ends
  <2> QED
    BY <1>2, <2>1, <2>2, <2>3, <2>4
<1>3. ASSUME NEW c \in Claims, DaemonRow(n, c), ~WriteRow(n, c)
      PROVE  CallView(n, c)
  BY <1>1, <1>2, <1>3 DEF DaemonRow, ThunderRow, SecretRow, DiskRow, ReadRow
<1>4. CASE UpsertPut(n) \/ DeleteUpdate(n) \/ DeleteDelete(n)
  <2>1. CallView(n, op[n].c)
    BY <1>4, WriteFrame DEF CallView, Touches, GivesUp, Moves, Ends
  <2> QED
    BY <1>4, <2>1, WriteFrame
<1>5. ASSUME NEW c \in Claims, DaemonRow(n, c),
             op[n].pc \notin {"UpsertPut", "DeleteUpdate", "DeleteDelete"}
      PROVE  CallView(n, c)
  BY <1>3, <1>5 DEF WriteRow
<1>6. op[n].pc # "idle" => op[n].c \in Claims
  BY OpFacts
<1>7. CASE Mint(n) \/ UndoRevoke(n) \/ RevokeClient(n) \/ Revoke(n)
  BY <1>5, <1>6, <1>7, ThunderRows DEF Mint, UndoRevoke, RevokeClient, Revoke, At
<1>8. CASE GuestCreate(n) \/ UndoGuest(n) \/ GuestRemove(n)
  BY <1>5, <1>6, <1>8, SecretRows DEF GuestCreate, UndoGuest, GuestRemove, At
<1>9. CASE CreateDevice(n) \/ UndoLock(n) \/ UndoCDI(n) \/ LockDevice(n) \/ RemoveDevice(n)
  BY <1>5, <1>6, <1>9, DiskRows DEF CreateDevice, UndoLock, UndoCDI, LockDevice, RemoveDevice, At
<1>10. CASE UpsertGet(n) \/ ReadStagedClient(n) \/ DeleteGet(n)
  BY <1>5, <1>6, <1>10, ReadRows DEF UpsertGet, ReadStagedClient, DeleteGet, At
<1>11. ASSUME NEW c \in Claims, PrepareGet(n, c) \/ UnprepareGet(n, c)
       PROVE  CallView(n, c)
  BY <1>5, <1>11, GetRows DEF PrepareGet, UnprepareGet, At
<1> QED
  BY <1>4, <1>7, <1>8, <1>9, <1>10, <1>11 DEF DriverStep, PrepareStep, UnprepareStep

LEMMA CallNext ==
    ASSUME TypeOK, CallInv, [Next]_vars
    PROVE  CallInv'
<1>a. ASSUME NEW m \in Nodes, op'[m] = Idle \/ (op'[m] = op[m] /\ kub'[m] = kub[m])
      PROVE  CallMatches(m)'
  BY <1>a DEF CallInv, CallMatches, Idle, PreparePCs, UndoPCs, RevokePCs, ForgetPCs
<1>b. UNCHANGED <<op, kub>> => CallInv'
  BY <1>a DEF CallInv
<1>1. ASSUME NEW n \in Nodes, DaemonStep(n) PROVE CallInv'
  <2>1. PICK c \in Claims : CallView(n, c)
    BY <1>1, CallViews DEF DaemonStep
  <2>2. op'[n] # Idle => CallMatches(n)'
    BY <2>1, PCs DEF CallView, CallInv, CallMatches, Preparing, Unpreparing
  <2> QED
    BY <1>a, <2>1, <2>2 DEF CallView, CallInv
<1>2. ASSUME NEW n \in Nodes, NEW c \in Claims, StartPod(n, c) \/ StopPod(n, c)
      PROVE  CallInv'
  <2>1. /\ UNCHANGED op
        /\ \A m \in Nodes, d \in Claims : m # n \/ d # c => kub'[m][d] = kub[m][d]
        /\ kub[n][c] = "idle" \/ op[n].c # c
    BY <1>2 DEF StartPod, StopPod, Kubelet, TypeOK, DriverTypeOK
  <2>2. ASSUME NEW m \in Nodes PROVE CallMatches(m)'
    <3>1. op[m].pc # "idle" => op[m].c \in Claims /\ op[m].pc \in Preparing \cup Unpreparing
      BY OpFacts DEF Operation, Preparing, Unpreparing
    <3>2. op[m].pc \in Preparing \cup Unpreparing => op[m].pc # "idle"
      BY PCs
    <3> QED
      BY <2>1, <3>1, <3>2 DEF CallInv, CallMatches, Preparing, Unpreparing
  <2> QED
    BY <2>2 DEF CallInv
<1>3. CASE Environment
  <2>1. ASSUME NEW c \in Claims, CreateClaim(c) \/ DeleteClaim(c) \/ DeleteResource(c)
        PROVE  CallInv'
    BY <2>1, <1>b DEF CreateClaim, DeleteClaim, DeleteResource, AllExceptClaim, driverVars
  <2>2. ASSUME NEW n \in Nodes, NEW c \in Claims, GuestEnrolls(n, c) PROVE CallInv'
    BY <2>2, <1>b DEF GuestEnrolls, driverVars
  <2>3. ASSUME NEW h \in Hooks, NEW n \in Nodes, NEW c \in Claims, StartContainer(h, n, c)
        PROVE  CallInv'
    BY <2>3, <1>b DEF StartContainer, driverVars
  <2> QED
    BY <1>2, <1>3, <2>1, <2>2, <2>3 DEF Environment
<1>4. CASE Crash
  <2>1. ASSUME NEW n \in Nodes, DaemonCrash(n) PROVE CallInv'
    BY <1>a, <2>1, OpEffects DEF DaemonCrash, OthersStay, CallInv
  <2> QED
    BY <1>4, <1>b, <2>1 DEF Crash, NodeLoss, driverVars
<1>5. CASE \/ OperatorStep \/ UNCHANGED vars
           \/ \E h \in Hooks : StageStep(h)
           \/ \E c \in Claims : Grace(c)
  BY <1>5, <1>b DEF OperatorStep, StageStep, Grace, vars, driverVars
<1> QED
  BY <1>1, <1>3, <1>4, <1>5 DEF Next

\* A daemon only ever does what its kubelet last asked for (driver.go, called
\* back by kubeletplugin): a claim it prepares is not yet prepared, and one it
\* unprepares is no longer in use, on its node, whatever fails.
THEOREM CallInvariant == Spec => []CallInv
<1>1. Init => CallInv
  <2> SUFFICES ASSUME Init PROVE CallInv
    OBVIOUS
  <2>1. \A n \in Nodes : op[n].pc = "idle"
    BY DEF Init, DriverInit, Idle
  <2> QED
    BY <2>1 DEF CallInv, CallMatches, PreparePCs, UndoPCs, RevokePCs, ForgetPCs
<1>2. TypeOK /\ CallInv /\ [Next]_vars => CallInv'
  BY CallNext
<1> QED
  BY <1>1, <1>2, TypeCorrect, PTL DEF Spec

LEMMA DaemonLocks ==
    ASSUME TypeOK, CallInv, StageLockInv, NEW n \in Nodes, NEW c \in Claims,
           CallView(n, c), UNCHANGED hook
    PROVE  StageLockInv'
<1> USE PCs DEF CallView
<1>2. ASSUME NEW h \in Hooks PROVE HasStageLock(h)'
  <2> DEFINE m == hook[h].node
             d == hook[h].claim
  <2>1. hook[h].pc # "off" => m \in Nodes /\ d \in Claims /\ HasStageLock(h)
    BY HookFacts DEF StageLockInv
  <2>2. hook[h].pc # "off" => SameDisk(m, d) /\ SameKub(m, d)
    <3>1. CASE op[n].pc = "idle"
      BY <2>1, <3>1 DEF HasStageLock, SameDisk, SameKub
    <3>2. CASE op[n].pc # "idle"
      <4>1. op[n].pc \in Preparing \cup Unpreparing
        BY <3>2, OpFacts DEF Operation, Preparing, Unpreparing
      <4>2. kub[n][c] # "prepared"
        BY <3>2, <4>1 DEF CallInv, CallMatches, Preparing, Unpreparing
      <4> QED
        BY <2>1, <4>2 DEF HasStageLock, SameDisk, SameKub
    <3> QED
      BY <3>1, <3>2
  <2> QED
    BY <2>1, <2>2 DEF HasStageLock, SameDisk, SameKub
<1>3. LocksExclude'
  BY DEF StageLockInv, LocksExclude, SameLock
<1> QED
  BY <1>2, <1>3 DEF StageLockInv

LEMMA HookLocks ==
    ASSUME TypeOK, StageLockInv, NEW h \in Hooks, StageRow(h), UNCHANGED <<op, kub>>
    PROVE  StageLockInv'
<1> USE HookFacts DEF StageRow, HookFrame
<1> DEFINE n == hook[h].node
           c == hook[h].claim
<1>a. n \in Nodes /\ c \in Claims /\ HasStageLock(h)
  BY DEF StageLockInv
<1>b. \A m \in Nodes, d \in Claims : /\ files'[m][d].lock = files[m][d].lock
                                     /\ files'[m][d].dir = files[m][d].dir
  BY <1>a DEF LockRow, ExitRow, ExchangeRow, CacheRow, DiskFrame, SameDisk
<1>2. ASSUME NEW g \in Hooks PROVE HasStageLock(g)'
  <2>1. CASE g # h
    <3>1. /\ HasStageLock(g) /\ hook'[g] = hook[g] /\ fd'[g] = fd[g] /\ kub' = kub
          /\ hook[g].pc # "off" => hook[g].node \in Nodes /\ hook[g].claim \in Claims
      BY <2>1 DEF StageLockInv
    <3> QED
      BY ONLY <1>b, <3>1 DEF HasStageLock
  <2>2. CASE g = h /\ Exits(h)
    BY <2>2 DEF HasStageLock, Exits, Off
  <2>3. CASE g = h /\ LockRow(h)
    BY <1>a, <1>b, <2>3 DEF HasStageLock, LockRow, GoesOn
  <2>4. CASE g = h /\ ExchangeRow(h) /\ ~Exits(h)
    BY <1>a, <1>b, <2>4 DEF HasStageLock, ExchangeRow, GoesOn
  <2> QED
    BY <2>1, <2>2, <2>3, <2>4 DEF ExitRow, CacheRow
<1>3. LocksExclude'
  <2>1. CASE Exits(h) \/ fd'[h] = fd[h]
    BY <2>1 DEF StageLockInv, LocksExclude, SameLock, Exits
  <2>2. CASE LockRow(h)
    BY <2>2 DEF StageLockInv, LocksExclude, SameLock, LockRow, LockFree, Processes
  <2> QED
    BY <2>1, <2>2 DEF ExitRow, ExchangeRow, CacheRow
<1> QED
  BY <1>2, <1>3 DEF StageLockInv

LEMMA StartLocks ==
    ASSUME TypeOK, StageLockInv, NEW h \in Hooks, NEW n \in Nodes, NEW c \in Claims,
           StartRow(h, n, c), UNCHANGED <<op, kub>>
    PROVE  StageLockInv'
<1> USE HookFacts DEF StartRow, HookFrame
<1>2. ASSUME NEW g \in Hooks PROVE HasStageLock(g)'
  <2>1. CASE g = h
    BY <2>1 DEF HasStageLock
  <2>2. CASE g # h /\ hook[g].pc # "off"
    <3>1. /\ HasStageLock(g) /\ hook[g].node \in Nodes /\ hook[g].claim \in Claims
          /\ fd[g].ino \in Inodes /\ None \notin Inodes
      BY <2>2, DeploymentAssumption DEF StageLockInv, Descriptor
    <3>2. CASE hook[g].node = n /\ hook[g].claim = c
      BY <2>2, <3>1, <3>2 DEF HasStageLock
    <3>3. CASE ~(hook[g].node = n /\ hook[g].claim = c)
      <4>1. SameDisk(hook[g].node, hook[g].claim)
        BY <3>1, <3>3 DEF DiskFrame, SameDisk
      <4> QED
        BY <2>2, <3>1, <4>1 DEF HasStageLock, SameDisk
    <3> QED
      BY <3>2, <3>3
  <2>3. CASE g # h /\ hook[g].pc = "off"
    BY <2>3 DEF HasStageLock
  <2> QED
    BY <2>1, <2>2, <2>3
<1>3. LocksExclude'
  BY DEF StageLockInv, LocksExclude, SameLock
<1> QED
  BY <1>2, <1>3 DEF StageLockInv

\* A pod comes or goes: no daemon is at work on the claim, and no hook.
LEMMA PodLocks ==
    ASSUME TypeOK, StageLockInv, ~HookOverlap, NEW n \in Nodes, NEW c \in Claims,
           StartPod(n, c) \/ StopPod(n, c)
    PROVE  StageLockInv'
<1>1. /\ UNCHANGED <<op, hook, files, fd>>
      /\ \A m \in Nodes, d \in Claims : m # n \/ d # c => kub'[m][d] = kub[m][d]
      /\ kub[n][c] = "idle" \/ (op[n].c # c /\ Staging(n, c) = {})
  BY DEF StartPod, StopPod, Kubelet, cdiVars, TypeOK, DriverTypeOK
<1>3. ASSUME NEW h \in Hooks PROVE HasStageLock(h)'
  BY <1>1, HookFacts DEF StageLockInv, HasStageLock, Staging
<1>4. LocksExclude'
  BY <1>1 DEF StageLockInv, LocksExclude, SameLock
<1> QED
  BY <1>3, <1>4 DEF StageLockInv

LEMMA StageLockNext ==
    ASSUME ~HookOverlap, TypeOK, CallInv, StageLockInv, [Next]_vars
    PROVE  StageLockInv'
<1>a. ASSUME UNCHANGED <<kub, hook, files>>, \A h \in Hooks : fd'[h] = fd[h]
      PROVE  StageLockInv'
  BY <1>a DEF StageLockInv, HasStageLock, LocksExclude, SameLock
<1>b. UNCHANGED <<kub, hook, files, fd>> => StageLockInv'
  BY <1>a
<1>1. ASSUME NEW n \in Nodes, DaemonStep(n) PROVE StageLockInv'
  BY <1>1, CallViews, DaemonLocks DEF DaemonStep
<1>2. ASSUME NEW h \in Hooks, StageStep(h) PROVE StageLockInv'
  BY <1>2, StageRows, HookLocks DEF StageStep, driverVars
<1>3. CASE OperatorStep \/ \E c \in Claims : Grace(c)
  BY <1>3, <1>b DEF OperatorStep, Grace, cdiVars, driverVars
<1>4. CASE UNCHANGED vars
  BY <1>4, <1>b DEF vars, cdiVars, driverVars
<1>5. CASE Environment
  <2>1. ASSUME NEW c \in Claims, CreateClaim(c) \/ DeleteClaim(c) \/ DeleteResource(c)
        PROVE  StageLockInv'
    BY <2>1, <1>b DEF CreateClaim, DeleteClaim, DeleteResource, AllExceptClaim, cdiVars, driverVars
  <2>2. ASSUME NEW n \in Nodes, NEW c \in Claims, GuestEnrolls(n, c) PROVE StageLockInv'
    BY <2>2, <1>b DEF GuestEnrolls, cdiVars, driverVars
  <2>3. ASSUME NEW h \in Hooks, NEW n \in Nodes, NEW c \in Claims, StartContainer(h, n, c)
        PROVE  StageLockInv'
    BY <2>3, StartRows, StartLocks DEF StartContainer, driverVars
  <2> QED
    BY <1>5, <2>1, <2>2, <2>3, PodLocks DEF Environment
<1>6. CASE Crash
  <2>1. ASSUME NEW n \in Nodes, DaemonCrash(n), UNCHANGED hook PROVE StageLockInv'
    <3>1. UNCHANGED <<kub, files>> /\ \A h \in Hooks : fd'[h] = fd[h]
      BY <2>1, DaemonCrashType DEF DaemonCrash, Fail, HookLocksKept
    <3> QED
      BY <1>a, <2>1, <3>1
  <2>2. ASSUME NEW h \in Hooks, HookCrash(h), UNCHANGED driverVars PROVE StageLockInv'
    BY <2>2, CrashRow, HookLocks DEF driverVars
  <2>3. CASE OperatorCrash /\ UNCHANGED <<cdiVars, driverVars, hook>>
    BY <2>3, <1>b DEF cdiVars, driverVars
  <2>4. ASSUME NEW n \in Nodes, NodeLoss(n) PROVE StageLockInv'
    BY <2>4, <1>b DEF NodeLoss, cdiVars
  <2> QED
    BY <1>6, <2>1, <2>2, <2>3, <2>4 DEF Crash
<1> QED
  BY <1>1, <1>2, <1>3, <1>4, <1>5, <1>6 DEF Next

LEMMA StageLockInit == Init => StageLockInv
<1> SUFFICES ASSUME Init PROVE StageLockInv
  OBVIOUS
<1>1. \A h \in Hooks : hook[h].pc = "off" /\ fd[h] = None
  BY DEF Init, HookInit, Off, CDIInit, Processes
<1> QED
  BY <1>1 DEF StageLockInv, HasStageLock, LocksExclude

\* Hooks and the stage lock (cdihook.go lockStateDir): a running hook has the
\* lock file that is on disk, and at most one has its lock, as long as no hook
\* outlives its pod.
THEOREM StageLockInvariant ==
    ASSUME ~HookOverlap
    PROVE  Spec => []StageLockInv
<1>1. Init => StageLockInv
  BY StageLockInit
<1>2. TypeOK /\ CallInv /\ StageLockInv /\ [Next]_vars => StageLockInv'
  BY StageLockNext
<1> QED
  BY <1>1, <1>2, TypeCorrect, CallInvariant, PTL DEF Spec

LEMMA OneStager ==
    ASSUME TypeOK, StageLockInv
    PROVE  StagedOneAtATime
<1> SUFFICES ASSUME NEW g \in Hooks, NEW h \in Hooks,
                    hook[g].pc \in {"config", "exchange", "cache"},
                    hook[h].pc \in {"config", "exchange", "cache"},
                    hook[g].node = hook[h].node, hook[g].claim = hook[h].claim
             PROVE  g = h
  BY DEF StagedOneAtATime
<1>1. HasStageLock(g) /\ HasStageLock(h) /\ fd[g] # None /\ fd[h] # None
  BY HookFacts, DescriptorAssumption DEF StageLockInv
<1> QED
  BY <1>1 DEF HasStageLock, StageLockInv, LocksExclude, SameLock

\* The stage lock does its work (cdihook.go 137-139): on every node, containers
\* that share a claim are staged one at a time, whatever fails, as long as no
\* hook outlives its pod.
THEOREM StagedAlone ==
    ASSUME ~HookOverlap
    PROVE  Spec => []StagedOneAtATime
<1>1. TypeOK /\ StageLockInv => StagedOneAtATime
  BY OneStager
<1> QED
  BY <1>1, TypeCorrect, StageLockInvariant, PTL

===============================================================================
