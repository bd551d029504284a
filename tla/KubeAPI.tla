------------------------------- MODULE KubeAPI --------------------------------
(***************************************************************************)
(* External: the Kubernetes objects the daemon and the operator share.  A  *)
(* ThunderClient resource is one per ResourceClaim UID; updates carry the  *)
(* resourceVersion they were read at, and a deleted resource stays until   *)
(* its finalizer is released.  The VM setup Secret is named after the      *)
(* claim's name, which a later claim may reuse.                            *)
(***************************************************************************)
EXTENDS Deployment

VARIABLES claim,          \* claim[c]: "pending", "allocated" or "gone"
          record,         \* record[c]: the ThunderClient resource of c, or None
          revision,       \* revision[c]: the last resourceVersion given out
          secret          \* secret[name]: the token in the setup Secret, or None

kubeVars == <<claim, record, revision, secret>>

Names == {NameOf[c] : c \in Claims}

Record == [token : Tokens, fin : BOOLEAN, deleting : BOOLEAN, rv : Nat]

ASSUME RecordAssumption == None \notin Record

KubeTypeOK ==
    /\ claim \in [Claims -> {"pending", "allocated", "gone"}]
    /\ record \in [Claims -> Record \cup {None}]
    /\ revision \in [Claims -> Nat]
    /\ secret \in [Names -> Tokens \cup {None}]

KubeInit ==
    /\ claim = [c \in Claims |-> "pending"]
    /\ record = [c \in Claims |-> None]
    /\ revision = [c \in Claims |-> 0]
    /\ secret = [name \in Names |-> None]

\* Storing r: a terminating resource without a finalizer disappears.
PutRecord(c, r) ==
    /\ revision' = [revision EXCEPT ![c] = @ + 1]
    /\ record' = [record EXCEPT ![c] =
                    IF r.deleting /\ ~r.fin
                    THEN None
                    ELSE [r EXCEPT !.rv = revision[c] + 1]]

CreateRecord(c, t) ==
    /\ record[c] = None
    /\ PutRecord(c, [token |-> t, fin |-> TRUE, deleting |-> FALSE, rv |-> 0])

\* An update is accepted only at the resourceVersion it was read at.
Fresh(c, seen) == record[c] # None /\ record[c].rv = seen.rv

\* Delete marks the resource, and removes it if no finalizer holds it.
DeleteRecord(c) ==
    IF record[c] = None \/ record[c].deleting
    THEN UNCHANGED <<record, revision>>
    ELSE PutRecord(c, [record[c] EXCEPT !.deleting = TRUE])
===============================================================================
