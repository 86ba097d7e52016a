------------------------------ MODULE MCLowlevel ------------------------------
(* Instances of Lowlevel for TLC.                                          *)
EXTENDS Lowlevel, TLC

CONSTANTS f1, f2, x, y

MCFileNum == (f1 :> 2) @@ (f2 :> 3)
MCDb == {<<f1, x>>, <<f1, y>>}
MCDb2 == {<<f1, x>>, <<f1, y>>, <<f2, y>>}

(* Nothing distinguishes the two tags of MCDb.                             *)
MCSymmetry == Permutations(Tags)

(* What a slot that nobody knows holds has no influence: it is overwritten. *)
(* A daemon that has stopped can only be started again, which depends on    *)
(* the files alone.                                                         *)
MCView == IF status # "up" THEN <<status, {f \in Later : ino[FileNum[f]].kind = "none"}>>
          ELSE LET unused == Unused
               IN  <<[n \in Nums |-> IF n \in unused THEN Bare(ino[n].kind) ELSE ino[n]],
                     tags, fileTags, tagFiles, kernel, uncounted>>
==============================================================================
