------------------------------- MODULE MCTagsDb -------------------------------
(* Instances of TagsDb for TLC.  The name of f2 holds a `]' and is read as *)
(* f1; the tag y begins with blanks and is read as x, h with `#', and b is *)
(* `[f1]'.  The .tags has a tag before any file, the same file twice, a    *)
(* file without tags and a comment.                                        *)
EXTENDS TagsDb

CONSTANTS f1, f2, x, y, h, b

MCReadFile == [f \in Files |-> f1]
MCReadTag == [t \in Tags |-> CASE t \in {x, y} -> Line("tag", x)
                               [] t = h        -> Empty
                               [] t = b        -> Line("file", f1)]

MCText == <<Line("tag", x), Line("file", f1), Empty, Line("tag", h), Line("tag", x),
            Line("file", f2), Line("file", f1), Line("tag", x)>>
==============================================================================
