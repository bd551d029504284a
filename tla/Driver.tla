-------------------------------- MODULE Driver --------------------------------
(***************************************************************************)
(* The node daemon's DRA driver (internal/daemon/driver.go): prepareOne    *)
(* and unprepareOne, one step per call they make, with every error return  *)
(* and rollback.  kubeletplugin.Serialize(true) (start.go) lets a daemon   *)
(* work on one claim at a time, so each node has one operation in flight.  *)
(***************************************************************************)
EXTENDS ThunderAPI, KubeAPI, CDIDeviceStore

VARIABLES op,             \* op[n]: the operation node n's daemon is working on
          kub,            \* kub[n][c]: what n's kubelet wants of claim c
          up              \* up[n]: node n has not been lost

driverVars == <<op, kub, up>>

KubeletStates == {"idle", "preparing", "prepared", "unpreparing"}

PreparePCs == {"Mint", "GuestCreate", "CDICreate", "UpsertGet", "UpsertPut"}
UndoPCs == {"UndoLock", "UndoCDI", "UndoGuest", "UndoRevoke"}
RevokePCs == {"StagedClientID", "RevokeClient", "Revoke"}
ForgetPCs == {"CDILock", "CDIRemove", "GuestRemove",
              "DeleteGet", "DeleteUpdate", "DeleteDelete"}

\* tok: the token minted or read from the record; cid: the staged client;
\* seen: the ThunderClient resource as last read before writing it.
Idle == [pc |-> "idle", c |-> None, tok |-> None, cid |-> None, seen |-> None]

Operation ==
    [pc : {"idle"} \cup PreparePCs \cup UndoPCs \cup RevokePCs \cup ForgetPCs,
     c : Claims \cup {None}, tok : Tokens \cup {None},
     cid : Tokens \cup {None}, seen : Record \cup {None}]

\* An operation in progress is about a claim, and about a token once it has one.
DriverTypeOK ==
    /\ op \in [Nodes -> Operation]
    /\ kub \in [Nodes -> [Claims -> KubeletStates]]
    /\ up \in [Nodes -> BOOLEAN]
    /\ \A n \in Nodes :
          /\ op[n].pc # "idle" => op[n].c # None
          /\ op[n].pc \notin {"idle", "Mint"} => op[n].tok # None
          /\ op[n].pc = "DeleteUpdate" => op[n].seen # None

DriverInit ==
    /\ op = [n \in Nodes |-> Idle]
    /\ kub = [n \in Nodes |-> [c \in Claims |-> "idle"]]
    /\ up = [n \in Nodes |-> TRUE]

At(n, pc) == up[n] /\ op[n].pc = pc
Goto(n, pc) == op' = [op EXCEPT ![n].pc = pc] /\ UNCHANGED kub

\* Returning an error: the kubelet keeps wanting the same and calls again.
Fail(n) == op' = [op EXCEPT ![n] = Idle] /\ UNCHANGED kub

Succeed(n, c, result) ==
    /\ op' = [op EXCEPT ![n] = Idle]
    /\ kub' = [kub EXCEPT ![n][c] = result]

-------------------------------------------------------------------------------
(* prepareOne *)

\* The plugin helper reads the claim, then the driver decodes its allocation
\* and loads the record.  A record it finds is taken to mean: already prepared.
PrepareGet(n, c) ==
    /\ At(n, "idle") /\ kub[n][c] = "preparing" /\ claim[c] = "allocated"
    /\ \/ /\ record[c] # None
          /\ Succeed(n, c, "prepared") /\ UNCHANGED faults
       \/ /\ record[c] = None
          /\ op' = [op EXCEPT ![n] = [Idle EXCEPT !.pc = "Mint", !.c = c]]
          /\ UNCHANGED <<kub, faults>>
       \/ Fault("error") /\ Fail(n)
    /\ UNCHANGED <<thunderVars, kubeVars, cdiVars, up>>

Mint(n) ==
    /\ At(n, "Mint")
    /\ \/ \E t \in Tokens :
            Remote(CreateClientEnrollment(t), UNCHANGED thunderVars,
                   /\ op' = [op EXCEPT ![n] = [@ EXCEPT !.pc = "GuestCreate", !.tok = t]]
                   /\ UNCHANGED kub,
                   Fail(n))
       \/ NoCapacity /\ Fail(n) /\ UNCHANGED <<thunderVars, faults>>
    /\ UNCHANGED <<kubeVars, cdiVars, up>>

SetSecret(c, t) == secret' = [secret EXCEPT ![NameOf[c]] = t]

\* Mutant: keeps a Secret that is already there.
GuestCreateIfAbsent(n) ==
    /\ At(n, "GuestCreate")
    /\ Remote(IF secret[NameOf[op[n].c]] = None THEN SetSecret(op[n].c, op[n].tok)
                                                ELSE UNCHANGED secret,
              UNCHANGED secret, Goto(n, "CDICreate"), Goto(n, "UndoRevoke"))
    /\ UNCHANGED <<thunderVars, claim, record, revision, cdiVars, up>>

GuestCreate(n) ==
    /\ At(n, "GuestCreate")
    /\ Remote(SetSecret(op[n].c, op[n].tok), UNCHANGED secret,
              Goto(n, "CDICreate"), Goto(n, "UndoRevoke"))
    /\ UNCHANGED <<thunderVars, claim, record, revision, cdiVars, up>>

CreateDevice(n) ==
    /\ At(n, "CDICreate")
    /\ CDICreate(n, op[n].c, op[n].tok, Goto(n, "UpsertGet"), Goto(n, "UndoGuest"))
    /\ UNCHANGED <<thunderVars, kubeVars, up>>

\* Mutant: a claim whose record cannot be written is prepared all the same.
UpsertGetLenient(n) ==
    /\ At(n, "UpsertGet")
    /\ \/ /\ op' = [op EXCEPT ![n] = [@ EXCEPT !.pc = "UpsertPut",
                                                 !.seen = record[op[n].c]]]
          /\ UNCHANGED <<kub, faults>>
       \/ Fault("error") /\ Succeed(n, op[n].c, "prepared")
    /\ UNCHANGED <<thunderVars, kubeVars, cdiVars, up>>

UpsertGet(n) ==
    /\ At(n, "UpsertGet")
    /\ \/ /\ op' = [op EXCEPT ![n] = [@ EXCEPT !.pc = "UpsertPut",
                                                 !.seen = record[op[n].c]]]
          /\ UNCHANGED <<kub, faults>>
       \/ Fault("error") /\ Goto(n, "UndoLock")
    /\ UNCHANGED <<thunderVars, kubeVars, cdiVars, up>>

\* The daemon dies when the API server has done what it was asked last, before
\* the kubelet hears of it.
DiesUnheard(n, effect) == Fault("daemonCrash") /\ effect /\ Fail(n)

\* Create if the Get found nothing, else Update over what it found, keeping
\* the finalizers there and adding ours (which a terminating resource refuses).
UpsertPut(n) ==
    /\ At(n, "UpsertPut")
    /\ LET c == op[n].c
           seen == op[n].seen
           accepted == \/ seen = None /\ record[c] = None
                       \/ seen # None /\ Fresh(c, seen) /\ (seen.deleting => seen.fin)
           write == IF seen = None
                    THEN CreateRecord(c, op[n].tok)
                    ELSE PutRecord(c, [seen EXCEPT !.token = op[n].tok, !.fin = TRUE])
       IN \/ /\ accepted
             /\ Remote(write, UNCHANGED <<record, revision>>,
                       Succeed(n, c, "prepared"), Goto(n, "UndoLock"))
          \/ accepted /\ DiesUnheard(n, write)
          \/ /\ ~accepted
             /\ Goto(n, "UndoLock")
             /\ UNCHANGED <<record, revision, faults>>
    /\ UNCHANGED <<thunderVars, claim, secret, cdiVars, up>>

\* The rollback.  Errors are discarded: each step goes on to the next.
UndoLock(n) ==
    /\ At(n, "UndoLock")
    /\ CDIRemoveLock(n, op[n].c)
    /\ Goto(n, "UndoCDI")
    /\ UNCHANGED <<thunderVars, kubeVars, up>>

UndoCDI(n) ==
    /\ At(n, "UndoCDI")
    /\ CDIRemove(n, op[n].c, Goto(n, "UndoGuest"), Goto(n, "UndoGuest"))
    /\ UNCHANGED <<thunderVars, kubeVars, up>>

UndoGuest(n) ==
    /\ At(n, "UndoGuest")
    /\ Remote(SetSecret(op[n].c, None), UNCHANGED secret,
              Goto(n, "UndoRevoke"), Goto(n, "UndoRevoke"))
    /\ UNCHANGED <<thunderVars, claim, record, revision, cdiVars, up>>

UndoRevoke(n) ==
    /\ At(n, "UndoRevoke")
    /\ Remote(UnenrollClient(op[n].tok), UNCHANGED thunderVars, Fail(n), Fail(n))
    /\ UNCHANGED <<kubeVars, cdiVars, up>>

-------------------------------------------------------------------------------
(* unprepareOne *)

\* Mutant: a missing record is an error.
UnprepareGetStrict(n, c) ==
    /\ At(n, "idle") /\ kub[n][c] = "unpreparing"
    /\ \/ record[c] = None /\ Fail(n) /\ UNCHANGED faults
       \/ /\ record[c] # None
          /\ op' = [op EXCEPT ![n] = [Idle EXCEPT !.pc = "StagedClientID", !.c = c,
                                                  !.tok = record[c].token]]
          /\ UNCHANGED <<kub, faults>>
       \/ Fault("error") /\ Fail(n)
    /\ UNCHANGED <<thunderVars, kubeVars, cdiVars, up>>

\* A missing record is taken to mean: nothing to do.
UnprepareGet(n, c) ==
    /\ At(n, "idle") /\ kub[n][c] = "unpreparing"
    /\ \/ /\ record[c] = None
          /\ Succeed(n, c, "idle") /\ UNCHANGED faults
       \/ /\ record[c] # None
          /\ op' = [op EXCEPT ![n] = [Idle EXCEPT !.pc = "StagedClientID", !.c = c,
                                                  !.tok = record[c].token]]
          /\ UNCHANGED <<kub, faults>>
       \/ Fault("error") /\ Fail(n)
    /\ UNCHANGED <<thunderVars, kubeVars, cdiVars, up>>

\* Mutants: never looks for a staged client; takes the recorded token's.
ReadNoStagedClient(n) ==
    /\ At(n, "StagedClientID")
    /\ Goto(n, "Revoke")
    /\ UNCHANGED <<thunderVars, kubeVars, cdiVars, up, faults>>

ReadRecordedClient(n) ==
    /\ At(n, "StagedClientID")
    /\ op' = [op EXCEPT ![n] = [@ EXCEPT !.cid = op[n].tok, !.pc = "RevokeClient"]]
    /\ UNCHANGED <<thunderVars, kubeVars, cdiVars, kub, up, faults>>

ReadStagedClient(n) ==
    /\ At(n, "StagedClientID")
    /\ \E id \in Tokens \cup {None} :
          /\ StagedClientID(n, op[n].c, id)
          /\ op' = [op EXCEPT ![n] =
                       [@ EXCEPT !.cid = id,
                                 !.pc = IF id # None THEN "RevokeClient" ELSE "Revoke"]]
    /\ UNCHANGED <<thunderVars, kubeVars, cdiVars, kub, up>>

\* Mutants: goes on when revoking the client failed; takes the token to be
\* revoked with the client.
RevokeClientAnyway(n) ==
    /\ At(n, "RevokeClient")
    /\ Remote(RevokeThunderClient(op[n].cid), UNCHANGED thunderVars,
              Goto(n, "Revoke"), Goto(n, "Revoke"))
    /\ UNCHANGED <<kubeVars, cdiVars, up>>

RevokeClientOnly(n) ==
    /\ At(n, "RevokeClient")
    /\ Remote(RevokeThunderClient(op[n].cid), UNCHANGED thunderVars,
              Goto(n, "CDILock"), Fail(n))
    /\ UNCHANGED <<kubeVars, cdiVars, up>>

RevokeClient(n) ==
    /\ At(n, "RevokeClient")
    /\ Remote(RevokeThunderClient(op[n].cid), UNCHANGED thunderVars,
              Goto(n, "Revoke"), Fail(n))
    /\ UNCHANGED <<kubeVars, cdiVars, up>>

\* Mutant: goes on when revoking the token failed.
RevokeAnyway(n) ==
    /\ At(n, "Revoke")
    /\ Remote(UnenrollClient(op[n].tok), UNCHANGED thunderVars,
              Goto(n, "CDILock"), Goto(n, "CDILock"))
    /\ UNCHANGED <<kubeVars, cdiVars, up>>

Revoke(n) ==
    /\ At(n, "Revoke")
    /\ Remote(UnenrollClient(op[n].tok), UNCHANGED thunderVars,
              Goto(n, "CDILock"), Fail(n))
    /\ UNCHANGED <<kubeVars, cdiVars, up>>

LockDevice(n) ==
    /\ At(n, "CDILock")
    /\ CDIRemoveLock(n, op[n].c)
    /\ Goto(n, "CDIRemove")
    /\ UNCHANGED <<thunderVars, kubeVars, up>>

RemoveDevice(n) ==
    /\ At(n, "CDIRemove")
    /\ CDIRemove(n, op[n].c, Goto(n, "GuestRemove"), Fail(n))
    /\ UNCHANGED <<thunderVars, kubeVars, up>>

GuestRemove(n) ==
    /\ At(n, "GuestRemove")
    /\ Remote(SetSecret(op[n].c, None), UNCHANGED secret,
              Goto(n, "DeleteGet"), Fail(n))
    /\ UNCHANGED <<thunderVars, claim, record, revision, cdiVars, up>>

\* Clients.Delete: read the resource, release its finalizer, delete it.
DeleteGet(n) ==
    /\ At(n, "DeleteGet")
    /\ LET current == record[op[n].c]
       IN \/ /\ current = None
             /\ Succeed(n, op[n].c, "idle") /\ UNCHANGED faults
          \/ /\ current # None
             /\ op' = [op EXCEPT ![n] =
                          [@ EXCEPT !.seen = current,
                                    !.pc = IF current.fin THEN "DeleteUpdate"
                                           ELSE "DeleteDelete"]]
             /\ UNCHANGED <<kub, faults>>
          \/ Fault("error") /\ Fail(n)
    /\ UNCHANGED <<thunderVars, kubeVars, cdiVars, up>>

\* Not found is tolerated; any other refusal is an error.
DeleteUpdate(n) ==
    /\ At(n, "DeleteUpdate")
    /\ LET c == op[n].c
       IN \/ /\ Fresh(c, op[n].seen)
             /\ Remote(PutRecord(c, [op[n].seen EXCEPT !.fin = FALSE]),
                       UNCHANGED <<record, revision>>,
                       Goto(n, "DeleteDelete"), Fail(n))
          \/ /\ ~Fresh(c, op[n].seen)
             /\ IF record[c] = None THEN Goto(n, "DeleteDelete") ELSE Fail(n)
             /\ UNCHANGED <<record, revision, faults>>
    /\ UNCHANGED <<thunderVars, claim, secret, cdiVars, up>>

DeleteDelete(n) ==
    /\ At(n, "DeleteDelete")
    /\ \/ Remote(DeleteRecord(op[n].c), UNCHANGED <<record, revision>>,
                 Succeed(n, op[n].c, "idle"), Fail(n))
       \/ DiesUnheard(n, DeleteRecord(op[n].c))
    /\ UNCHANGED <<thunderVars, claim, secret, cdiVars, up>>

-------------------------------------------------------------------------------
\* The daemon's process dies and is restarted: it keeps nothing in memory
\* between calls, and its lock goes with its descriptors.
DaemonCrash(n) ==
    /\ up[n] /\ op[n].pc # "idle"
    /\ Fault("daemonCrash")
    /\ Fail(n) /\ Close(n)
    /\ UNCHANGED <<thunderVars, kubeVars, files, up>>

PrepareStep(n) ==
    \/ \E c \in Claims : PrepareGet(n, c)
    \/ Mint(n) \/ GuestCreate(n) \/ CreateDevice(n) \/ UpsertGet(n) \/ UpsertPut(n)
    \/ UndoLock(n) \/ UndoCDI(n) \/ UndoGuest(n) \/ UndoRevoke(n)

UnprepareStep(n) ==
    \/ \E c \in Claims : UnprepareGet(n, c)
    \/ ReadStagedClient(n) \/ RevokeClient(n) \/ Revoke(n)
    \/ LockDevice(n) \/ RemoveDevice(n) \/ GuestRemove(n)
    \/ DeleteGet(n) \/ DeleteUpdate(n) \/ DeleteDelete(n)

DriverStep(n) == PrepareStep(n) \/ UnprepareStep(n)
===============================================================================
