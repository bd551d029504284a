----------------------------- MODULE OrphanReaper -----------------------------
(***************************************************************************)
(* The operator's backstop (internal/operator/clients.go): a pass lists    *)
(* the ThunderClient resources, waits out a grace period for those whose   *)
(* ResourceClaim is gone, and then revokes the enrollment and releases the *)
(* resource.  A pass works from the list it read; the first error ends it. *)
(***************************************************************************)
EXTENDS ThunderAPI, KubeAPI, Faults

VARIABLES pass,           \* the pass in progress
          orphans         \* orphans[c]: how long c's claim is known to be gone

reaperVars == <<pass, orphans>>

\* "unseen": not in the map; "young": within the grace period; "old": past it.
OrphanAges == {"unseen", "young", "old"}

PassPCs == {"idle", "scan", "Unenroll", "Update", "Delete"}

\* todo: listed resources still to look at; items: the resources as listed;
\* cur: the one being reaped.
NoPass == [pc |-> "idle", todo |-> {}, items |-> [c \in Claims |-> None], cur |-> None]

Pass == [pc : PassPCs, todo : SUBSET Claims, items : [Claims -> Record \cup {None}],
         cur : Claims \cup {None}]

\* A pass has on its list only what it found.
ReaperTypeOK ==
    /\ pass \in Pass
    /\ orphans \in [Claims -> OrphanAges]
    /\ \A c \in pass.todo : pass.items[c] # None
    /\ pass.pc \in {"Unenroll", "Update", "Delete"} =>
          pass.cur # None /\ pass.items[pass.cur] # None

ReaperInit ==
    /\ pass = NoPass
    /\ orphans = [c \in Claims |-> "unseen"]

EndPass == pass' = NoPass

ListClients ==
    /\ pass.pc = "idle"
    /\ pass' = [pc |-> "scan", todo |-> {c \in Claims : record[c] # None},
                items |-> record, cur |-> None]
    /\ UNCHANGED <<orphans, thunderVars, kubeVars, faults>>

\* claimIsAlive compares the UID: a new claim of the same name is another claim.
claimIsAlive(c) == claim[c] # "gone"

Examine(c) ==
    /\ pass.pc = "scan" /\ c \in pass.todo
    /\ LET skip == pass' = [pass EXCEPT !.todo = @ \ {c}]
       IN \/ /\ claimIsAlive(c)
             /\ orphans' = [orphans EXCEPT ![c] = "unseen"]
             /\ skip /\ UNCHANGED faults
          \/ /\ ~claimIsAlive(c) /\ orphans[c] = "unseen"
             /\ orphans' = [orphans EXCEPT ![c] = "young"]
             /\ skip /\ UNCHANGED faults
          \/ /\ ~claimIsAlive(c) /\ orphans[c] = "young"
             /\ skip /\ UNCHANGED <<orphans, faults>>
          \/ /\ ~claimIsAlive(c) /\ orphans[c] = "old"
             /\ pass' = [pass EXCEPT !.pc = "Unenroll", !.todo = @ \ {c}, !.cur = c]
             /\ UNCHANGED <<orphans, faults>>
          \/ Fault("error") /\ EndPass /\ UNCHANGED orphans
    /\ UNCHANGED <<thunderVars, kubeVars>>

\* Mutant: a failed revocation is not an error.
ReapUnenrollAnyway ==
    /\ pass.pc = "Unenroll"
    /\ LET item == pass.items[pass.cur]
           next == pass' = [pass EXCEPT !.pc = IF item.fin THEN "Update" ELSE "Delete"]
       IN Remote(UnenrollClient(item.token), UNCHANGED thunderVars, next, next)
    /\ UNCHANGED <<orphans, kubeVars>>

\* reap: revoke the enrollment token, then release the finalizer of the
\* resource as listed, then delete the resource by name.
ReapUnenroll ==
    /\ pass.pc = "Unenroll"
    /\ LET item == pass.items[pass.cur]
       IN Remote(UnenrollClient(item.token), UNCHANGED thunderVars,
                 pass' = [pass EXCEPT !.pc = IF item.fin THEN "Update" ELSE "Delete"],
                 EndPass)
    /\ UNCHANGED <<orphans, kubeVars>>

ReapUpdate ==
    /\ pass.pc = "Update"
    /\ LET c == pass.cur
           item == pass.items[c]
           next == pass' = [pass EXCEPT !.pc = "Delete"]
       IN \/ /\ Fresh(c, item)
             /\ Remote(PutRecord(c, [item EXCEPT !.fin = FALSE]),
                       UNCHANGED <<record, revision>>, next, EndPass)
          \/ /\ ~Fresh(c, item)
             /\ IF record[c] = None THEN next ELSE EndPass
             /\ UNCHANGED <<record, revision, faults>>
    /\ UNCHANGED <<orphans, thunderVars, claim, secret>>

ReapDelete ==
    /\ pass.pc = "Delete"
    /\ Remote(DeleteRecord(pass.cur), UNCHANGED <<record, revision>>,
              /\ pass' = [pass EXCEPT !.pc = "scan", !.cur = None]
              /\ orphans' = [orphans EXCEPT ![pass.cur] = "unseen"],
              EndPass /\ UNCHANGED orphans)
    /\ UNCHANGED <<thunderVars, claim, secret>>

\* Mutant: forgets every orphan.
FinishPassForgets ==
    /\ pass.pc = "scan" /\ pass.todo = {}
    /\ orphans' = [c \in Claims |-> "unseen"]
    /\ EndPass
    /\ UNCHANGED <<thunderVars, kubeVars, faults>>

\* The pass is through the list: forget orphans that were not in it.
FinishPass ==
    /\ pass.pc = "scan" /\ pass.todo = {}
    /\ orphans' = [c \in Claims |-> IF pass.items[c] = None THEN "unseen" ELSE orphans[c]]
    /\ EndPass
    /\ UNCHANGED <<thunderVars, kubeVars, faults>>

\* Time passes: the grace period of an orphan runs out.
GraceElapses(c) ==
    /\ orphans[c] = "young"
    /\ orphans' = [orphans EXCEPT ![c] = "old"]
    /\ UNCHANGED <<pass, thunderVars, kubeVars, faults>>

\* The map lives in memory: a restarted operator starts counting again.
OperatorCrash ==
    /\ Fault("operatorCrash")
    /\ EndPass
    /\ orphans' = [c \in Claims |-> "unseen"]
    /\ UNCHANGED <<thunderVars, kubeVars>>

ReaperStep ==
    \/ ListClients \/ FinishPass
    \/ \E c \in Claims : Examine(c)
    \/ ReapUnenroll \/ ReapUpdate \/ ReapDelete
===============================================================================
