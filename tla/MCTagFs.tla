------------------------------- MODULE MCTagFs -------------------------------
(* Instances of TagFs for TLC.                                             *)
EXTENDS TagFs, TLC

CONSTANTS f1, f2, x, y

Bag(i, j) == (x :> i) @@ (y :> j)
MCDirs == {Bag(0, 0), Bag(1, 0), Bag(0, 1), Bag(1, 1), Bag(2, 0)}
MCDirsNested == {Bag(0, 0), Bag(1, 0), Bag(1, 1)}
MCDb == {<<f1, x>>}

(* A struct nothing points to any more has no influence on what follows    *)
(* (its memory is leaked): states that differ only in such structs count   *)
(* as one.                                                                 *)
Reachable(t, n) == {t.cur} \cup Held(n) \cup {t.at[f] : f \in Names}
MCView == <<[n \in Tags |-> LET used == Reachable(tags[n], n)
                           IN  [tags[n] EXCEPT !.obj = [g \in Structs |->
                                   IF g \in used THEN @[g] ELSE Freed]]],
            fds, dentry>>
==============================================================================
