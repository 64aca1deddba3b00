------------------------------ MODULE MCDucklake ------------------------------
(* The instance of Ducklake that TLC checks: two servers and one alias that   *)
(* two sessions share; one table's name is not an identifier.                *)
EXTENDS Ducklake, TLC

CONSTANTS s1, s2, r1, r2, lake

MCSessions == {s1, s2}
MCRemotes == {r1, r2}
MCAliases == {lake}
MCTables == 1 .. 3
MCOddNames == {3}
MCSymmetry == Permutations(MCSessions) \cup Permutations(MCRemotes)
=============================================================================
