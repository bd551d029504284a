--------------------------- MODULE MCClaimLifecycle ---------------------------
(***************************************************************************)
(* Small deployments for TLC.                                              *)
(***************************************************************************)
EXTENDS ClaimLifecycle, TLC

CONSTANTS c1, c2, n1, n2

\* One node, or two sharing every claim.
OneHome == [c \in Claims |-> {n1}]
EveryHome == [c \in Claims |-> Nodes]
HomeEach == c1 :> {n1} @@ c2 :> {n2}

\* Distinct names, or one name used by one claim after the other.
OwnName == [c \in Claims |-> c]
SameName == [c \in Claims |-> "claim"]

\* Tokens and hooks are interchangeable; so are nodes that share every claim.
Symmetry == Permutations(Tokens) \cup Permutations(Hooks)
SharedSymmetry == Symmetry \cup Permutations(Nodes)
===============================================================================
