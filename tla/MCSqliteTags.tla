----------------------------- MODULE MCSqliteTags -----------------------------
(* Instances of SqliteTags for TLC: the name of y has an apostrophe.       *)
EXTENDS SqliteTags, TLC

CONSTANTS f1, f2, gone, x, y

MCDb == {<<f1, x>>, <<f2, x>>, <<gone, x>>}
MCNoDb == {}
MCSql == [t \in Tags |-> IF t = y THEN NoTag ELSE t]
MCDirs == {{}, {x}, {y}, {x, y}}
MCSymmetry == Permutations(Files)
==============================================================================
