----------------------------- MODULE MCReconciler -----------------------------
(***************************************************************************)
(* Small nodes for TLC.                                                    *)
(***************************************************************************)
EXTENDS Reconciler, TLC

ASSUME ExactIsPower == \A i \in 0 .. MaxFailures : Exact[i] = Interval * 2 ^ i
===============================================================================
