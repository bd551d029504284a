-------------------------- MODULE MCLibthunderCache ---------------------------
(***************************************************************************)
(* A small node for TLC: hook h2 was configured with an explicit pin.      *)
(***************************************************************************)
EXTENDS LibthunderCache, TLC

CONSTANTS h2, b1

NoPin == [u \in Users |-> None]
OnePin == [u \in Users |-> IF u = h2 THEN b1 ELSE None]
===============================================================================
