--------------------------- MODULE EnrollmentLedger ---------------------------
(***************************************************************************)
(* What the plugin promises about the enrollments it creates, without      *)
(* saying who does what: an enrollment is created, then recorded in the    *)
(* cluster, and once recorded it stays on record until it is revoked.  An  *)
(* enrollment that is not yet recorded may also be revoked.                *)
(***************************************************************************)
CONSTANT Enrollments

VARIABLE ledger           \* ledger[e]: where enrollment e stands

States == {"unminted", "pending", "recorded", "revoked"}

Init == ledger = [e \in Enrollments |-> "unminted"]

Move(e, from, to) ==
    /\ ledger[e] = from
    /\ ledger' = [ledger EXCEPT ![e] = to]

Mint(e) == Move(e, "unminted", "pending")
RecordIt(e) == Move(e, "pending", "recorded")
Revoke(e) == Move(e, "pending", "revoked") \/ Move(e, "recorded", "revoked")

Next == \E e \in Enrollments : Mint(e) \/ RecordIt(e) \/ Revoke(e)

Spec == Init /\ [][Next]_ledger
===============================================================================
