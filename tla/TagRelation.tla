----------------------------- MODULE TagRelation -----------------------------
(***************************************************************************)
(* What a tag file system promises, whatever tables it keeps: a relation   *)
(* between files and tags.  Requests on paths change it and nothing else   *)
(* does; lookups, opens, closes and listings never do.                     *)
(*                                                                         *)
(* The implementations under src/ (fuse, fuse_lowlevel, fuse_sqlite3) keep *)
(* the relation in two indexes, one per file and one per tag.              *)
(***************************************************************************)
CONSTANTS Files,   \* the regular files of the target directory
          Tags,    \* the tag names
          Db       \* the pairs <<file, tag>> written in the .tags file

VARIABLE rel       \* the pairs <<file, tag>> such that the file has the tag

Init == rel = Db

(* ln d/f e/g: f gets every tag of the path e.                             *)
Link(f, S) == rel' = rel \cup ({f} \X S)

(* rm d/f: f loses every tag of the path d, and no other file loses one.   *)
Unlink(f, S) == rel' = rel \ ({f} \X S)

(* mv x/f y/g: f loses the tag x of the old path and gets the tag y of the *)
(* new one.  Within one directory the removal wins: the file loses x.      *)
Rename(f, x, y) == /\ <<f, x>> \in rel
                   /\ rel' = (rel \cup {<<f, y>>}) \ {<<f, x>>}

(* rmdir of a tag (fuse_lowlevel and fuse_sqlite3 only): every file loses  *)
(* it.                                                                     *)
RemoveTag(x) == rel' = rel \ (Files \X {x})

(* The daemon stops, normally or not, and is started again: the dump goes  *)
(* to .tags.new, which nothing reads back, so .tags is what it starts from.*)
Reload == rel' = Db

Next == \/ \E f \in Files, S \in SUBSET Tags : Link(f, S) \/ Unlink(f, S)
        \/ \E f \in Files, x, y \in Tags : Rename(f, x, y)
        \/ \E x \in Tags : RemoveTag(x)
        \/ Reload

Spec == Init /\ [][Next]_rel
==============================================================================
