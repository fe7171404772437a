-------------------------- MODULE MCPiHoleChanges --------------------------
(* Instance of PiHoleChanges: three registered instances, two of them with *)
(* the same base url, so that the registry does not always name one.       *)
EXTENDS PiHoleChanges, TLC

CONSTANTS t1, t2, i1, i2, i3, u1, u2

MCUrlOf == (i1 :> u1) @@ (i2 :> u2) @@ (i3 :> u2)
MCGroupSets == {{1}}
MCNoGroups == {0}
ThreadSymmetry == Permutations({t1, t2})
=============================================================================
