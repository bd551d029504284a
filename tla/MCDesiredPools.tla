---------------------------- MODULE MCDesiredPools ----------------------------
(***************************************************************************)
(* Two zones that share a name, one of them without an ID of its own, and  *)
(* one that has neither.  A server of each, clients of two GPU types, and  *)
(* one type spelt in two ways.                                             *)
(***************************************************************************)
EXTENDS DesiredPools, TLC

MCZoneID == "z1" :> "z1" @@ "z2" :> Blank @@ "z3" :> Blank
MCDisplayName == "z1" :> "east" @@ "z2" :> "east" @@ "z3" :> Blank
MCNormal == "A100" :> "a100" @@ "a100" :> "a100" @@ "H100" :> "h100" @@ "" :> Blank

At(z, t, n) == [zone |-> z, type |-> t, count |-> n]

MCHostOf == "s1" :> At("z1", "A100", 3) @@ "s2" :> At("east", "a100", 1)
MCClientOf == "c1" :> At("z1", "a100", 4) @@ "c2" :> At("east", "H100", 1)

\* Half a GPU, one and a half, a malformed target, and none at all.
MCPolicies ==
    {[default |-> 0, byType |-> [t \in Types |-> 0]],
     [default |-> 3, byType |-> [t \in Types |-> 0]],
     [default |-> 3, byType |-> [t \in Types |-> IF t = "a100" THEN 1 ELSE -2]]}
===============================================================================
