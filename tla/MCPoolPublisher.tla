--------------------------- MODULE MCPoolPublisher ----------------------------
(***************************************************************************)
(* Small inventories for TLC.                                              *)
(***************************************************************************)
EXTENDS PoolPublisher, TLC

\* Pool names that are DNS labels already, and a pool 1 whose is not.
OwnLabel == [p \in Pools |-> p]
OtherLabel == [p \in Pools |-> p + 10]

\* Up to ten shards sort by number; from then on 10 comes between 1 and 2.
AsNumbers == [i \in Shards |-> i]
AsText == [i \in Shards |-> IF i >= 10 THEN 10 + i ELSE IF i > 1 THEN 100 * i ELSE i]

\* Every pool of its own GPU type.
OwnType == [p \in Pools |-> p]
===============================================================================
