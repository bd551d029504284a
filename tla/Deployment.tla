------------------------------ MODULE Deployment ------------------------------
(***************************************************************************)
(* The constants of a deployment that the components share.                *)
(***************************************************************************)
EXTENDS Naturals

CONSTANTS Nodes,          \* each runs one daemon
          Hooks,          \* CDI hook processes the container runtimes may run
          Claims,         \* ResourceClaim UIDs
          NameOf,         \* NameOf[c]: the name claim c is created under
          Tokens,         \* every enrollment Thunder has capacity to grant
          Inodes,         \* numbers of lock file inodes
          None            \* the absent value

ASSUME DeploymentAssumption ==
    /\ Nodes \cap Hooks = {}
    /\ DOMAIN NameOf = Claims
    /\ Inodes \subseteq Nat
    /\ None \notin Nodes \cup Claims \cup Tokens \cup Inodes
===============================================================================
