------------------------------ MODULE SqliteTags ------------------------------
(***************************************************************************)
(* fuse_sqlite3/: the same tags, with the relation in a database.          *)
(*                                                                         *)
(* A hash table maps a tag name to its struct, which is only an id here;   *)
(* the rows of `tag' name the ids, and those of `tag_file' say which file  *)
(* has which tag.  A path keeps the structs its tags had when it was made, *)
(* INVALID_TAG for a name that had none.  rmdir takes the struct and       *)
(* leaves all the rows.                                                    *)
(*                                                                         *)
(* One request at a time, each handler atomic.  The kernel may resolve a   *)
(* path from its cache, and directories stay open meanwhile.  A file keeps *)
(* the id of its first lookup for good, so a file stands for its id.  The  *)
(* requests passed through to the real file (read, write, mknod, chmod,    *)
(* ...) change no tag, and .tags is not written: tag_db_dump is empty.     *)
(***************************************************************************)
EXTENDS Integers, FiniteSets

CONSTANTS
    Files,       \* regular files of the target directory
    Tags,        \* tag names
    Sql,         \* what is asked for when a tag name is put in quotes: see tag_list_string
    Db,          \* pairs <<name, tag>> of .tags; a name may be no file any more
    MaxIds,      \* bound: tag structs ever made
    MovedDirs,   \* bound: tags whose directory clients rename
    Dirs,        \* directory paths: sets of tags (bound: those that are used)
    Handles,     \* slots for struct file_descriptor
    NoTag        \* INVALID_TAG; no struct

Ids == 0..(MaxIds - 1)
DbTags == {fx[2] : fx \in Db}

ASSUME NamesAssumption == IsFiniteSet(Tags) /\ Files \cap Tags = {} /\ NoTag \notin Ids
ASSUME SqlAssumption == Sql \in [Tags -> Tags \cup {NoTag}] /\ NoTag \notin Tags
ASSUME DbAssumption == DbTags \subseteq Tags /\ \A fx \in Db : fx = <<fx[1], fx[2]>>
ASSUME BoundsAssumption == MaxIds \in Nat /\ Cardinality(DbTags) <= MaxIds
ASSUME DirsAssumption == Dirs \subseteq SUBSET Tags /\ {} \in Dirs /\ MovedDirs \subseteq Tags

VARIABLES
    tags,     \* the table of tag.c: the id of the struct under a name
    next_id,  \* the static id of next_tag_id
    tag,      \* rows <<t_id, t_name>>
    tag_file, \* rows <<t_id, file>>
    fds,      \* the open directories, each with the path it keeps
    dentries, \* directory paths the kernel may resolve from its cache
    status    \* "up", or "crashed" by a struct that is none any more

vars == <<tags, next_id, tag, tag_file, fds, dentries, status>>

------------------------------------------------------------------------------
(* A file that rename has found below a tag may be a directory of that     *)
(* name: what can be in a row.                                             *)
Names == Files \cup MovedDirs

tag_exist(x) == tags[x] # NoTag
StructsOf(d) == [x \in d |-> tags[x]]     \* compute_selected_tags
Touches(sel) == \E x \in DOMAIN sel : sel[x] \notin {tags[y] : y \in Tags} \ {NoTag}

(* Mutation: the rows of files with any of the ids are enough.             *)
file_matches_any_tag(f, sel) ==
    DOMAIN sel = {} \/ \E x \in DOMAIN sel : <<sel[x], f>> \in tag_file

(* db_file_match_tags: COUNT of the rows over the ids of the path.         *)
file_matches_tags(f, sel) ==
    Cardinality({r \in tag_file : r[2] = f /\ \E x \in DOMAIN sel : sel[x] = r[1]})
        = Cardinality(DOMAIN sel)

(* Mutation: the ids of removed tags are given again.                      *)
next_tag_id_reused == Cardinality({y \in Tags : tags[y] # NoTag})

(* Mutation: ++id instead of id++.                                         *)
next_tag_id_incremented == next_id + 1

next_tag_id == next_id

(* db_add_tag: the insert fails, and nobody looks, when a row has the id   *)
(* or, since names are unique, the name.                                   *)
db_add_tag(x, i) == IF \E r \in tag : r[1] = i \/ r[2] = x THEN tag ELSE tag \cup {<<i, x>>}

db_tag_file(rows, d, f) == rows \cup {<<tags[x], f>> : x \in d}
db_untag_file(rows, d, f) == rows \ {<<tags[x], f>> : x \in d}

Serves == status = "up"
Crash == /\ status' = "crashed"
         /\ UNCHANGED <<tags, next_id, tag, tag_file, fds, dentries>>

(* Mutation: any name is found, as in fuse/.                               *)
Looks_up_anything(d) == TRUE

(* getattr of a directory path, one component after the other; a component *)
(* that does not exist, or occurs twice, is not found.                     *)
Looks_up(d) == \A x \in d : tag_exist(x)

Resolves(d) == d \in dentries

(* Names are put between quotes as they are: one with apostrophes in pairs *)
(* asks for another name, and with any other apostrophe, as in l'eau, the  *)
(* text is no query, it is not prepared, and each step of it a misuse.     *)
Prepares(d) == \A x \in d : Sql[x] # NoTag
tag_list_string(d) == {Sql[x] : x \in d}

(* Mutation: the tags of the ids, not those of the files that have them.   *)
db_list_remaining_tags_of_ids(d) ==
    LET ids == {r[1] : r \in {q \in tag : q[2] \in tag_list_string(d)}}
    IN  {x \in {r[2] : r \in {q \in tag : q[1] \in ids}} \ tag_list_string(d) : Prepares(d)}

(* What a directory lists besides files: the rows of tag at the root;      *)
(* below, the tags of the files that have any of its tags, all by rows.    *)
db_list_all_tags == {r[2] : r \in tag}
db_list_remaining_tags(d) ==
    LET ids == {r[1] : r \in {q \in tag : q[2] \in tag_list_string(d)}}
        fs  == {r[2] : r \in {q \in tag_file : q[1] \in ids}}
        all == {r[1] : r \in {q \in tag_file : q[2] \in fs}}
    IN  {x \in {r[2] : r \in {q \in tag : q[1] \in all}} \ tag_list_string(d) : Prepares(d)}

------------------------------------------------------------------------------
tag_getattr(d) ==
    /\ Serves /\ Looks_up(d)
    /\ dentries' = dentries \cup {d}
    /\ UNCHANGED <<tags, next_id, tag, tag_file, fds, status>>

KernelForgets(d) ==
    /\ Serves /\ d # {}
    /\ dentries' = dentries \ {d}
    /\ UNCHANGED <<tags, next_id, tag, tag_file, fds, status>>

(* getattr of a file below a path the kernel has cached.                   *)
tag_getattr_file(d) == Serves /\ Resolves(d) /\ Touches(StructsOf(d)) /\ Crash

tag_mkdir(x) ==
    /\ Serves /\ ~tag_exist(x) /\ next_id < MaxIds
    /\ tags' = [tags EXCEPT ![x] = next_tag_id]
    /\ next_id' = next_id + 1
    /\ tag' = db_add_tag(x, next_tag_id)
    /\ dentries' = dentries \cup ({{x}} \cap Dirs)
    /\ UNCHANGED <<tag_file, fds, status>>

(* The struct goes, the rows stay.                                         *)
tag_remove(x) == [tags EXCEPT ![x] = NoTag]

(* At the root alone.  The struct is freed; the kernel drops the entry it  *)
(* had for the name at the root and keeps those it has below other tags.   *)
tag_rmdir(x) ==
    /\ Serves /\ tag_exist(x)
    /\ tags' = tag_remove(x)
    /\ \E kept \in SUBSET {d \in dentries : x \in d /\ d # {x}} :
           dentries' = {d \in dentries : x \notin d} \cup kept
    /\ UNCHANGED <<next_id, tag, tag_file, fds, status>>

(* ln d/f e/g, where g is any name that is no file: it is not looked at.   *)
tag_link(d, f, e) ==
    /\ Serves /\ Resolves(d) /\ Resolves(e)
    /\ IF Touches(StructsOf(d)) THEN Crash
       ELSE /\ file_matches_tags(f, StructsOf(d))
            /\ IF Touches(StructsOf(e)) THEN Crash
               ELSE /\ tag_file' = db_tag_file(tag_file, e, f)
                    /\ UNCHANGED <<tags, next_id, tag, fds, dentries, status>>

(* Every tag of the path is taken, whether the file has it or not: the     *)
(* kernel may still hold the entry of a file that was below the path once. *)
tag_unlink(d, f) ==
    /\ Serves /\ Resolves(d) /\ d # {}
    /\ IF Touches(StructsOf(d)) THEN Crash
       ELSE /\ tag_file' = db_untag_file(tag_file, d, f)
            /\ UNCHANGED <<tags, next_id, tag, fds, dentries, status>>

(* path_unlink, then path_link, which looks for f below the old path: what *)
(* was just taken from there is not found any more, unless it is no file   *)
(* but the directory of a tag.  rename returns 0 either way.               *)
Renamed(d, f, e) ==
    IF f \in Files THEN db_untag_file(tag_file, d, f)
    ELSE db_tag_file(db_untag_file(tag_file, d, f), e, f)

(* The kernel moves a directory along to the new name g, as if there were  *)
(* such a tag.                                                             *)
tag_rename(d, f, e) ==
    /\ Serves /\ Resolves(d) /\ Resolves(e)
    /\ Cardinality(d) = 1 /\ Cardinality(e) = 1
    /\ IF Touches(StructsOf(d)) \/ Touches(StructsOf(e)) THEN Crash
       ELSE /\ IF f \in Files THEN file_matches_tags(f, StructsOf(d))
                              ELSE tag_exist(f) /\ f \notin d
            /\ tag_file' = Renamed(d, f, e)
            /\ dentries' \in IF f \in Files THEN {dentries}
                  ELSE {dentries \cup ({e \cup {g}} \cap Dirs) : g \in Tags}
            /\ UNCHANGED <<tags, next_id, tag, fds, status>>

tag_open_dir(h, d) ==
    /\ Serves /\ Resolves(d) /\ ~fds[h].open
    /\ fds' = [fds EXCEPT ![h] = [open |-> TRUE, sel |-> StructsOf(d)]]
    /\ UNCHANGED <<tags, next_id, tag, tag_file, dentries, status>>

Closed == [open |-> FALSE, sel |-> <<>>]

tag_release_generic(h) ==
    /\ Serves /\ fds[h].open
    /\ fds' = [fds EXCEPT ![h] = Closed]
    /\ UNCHANGED <<tags, next_id, tag, tag_file, dentries, status>>

(* The files are compared by the structs the handle has kept; reading one  *)
(* that was freed may also give its old id, and nothing changes.           *)
tag_readdir(h) == Serves /\ fds[h].open /\ Touches(fds[h].sel) /\ Crash

------------------------------------------------------------------------------
(* parse_tags_db: ids in the order of .tags; the tags of a name that is no *)
(* file any more are made, without files.                                  *)
BootIds == CHOOSE s \in [DbTags -> 0..(Cardinality(DbTags) - 1)] :
               \A x, y \in DbTags : s[x] = s[y] => x = y
Boot(t, n, rows, tf) ==
    /\ t = [x \in Tags |-> IF x \in DbTags THEN BootIds[x] ELSE NoTag]
    /\ n = Cardinality(DbTags)
    /\ rows = {<<BootIds[x], x>> : x \in DbTags}
    /\ tf = {<<BootIds[fx[2]], fx[1]>> : fx \in {gx \in Db : gx[1] \in Files}}

Init == /\ Boot(tags, next_id, tag, tag_file)
        /\ fds = [h \in Handles |-> Closed] /\ dentries = {{}} /\ status = "up"

Restart == /\ Boot(tags', next_id', tag', tag_file')
           /\ fds' = [h \in Handles |-> Closed] /\ dentries' = {{}} /\ status' = "up"

Next == \/ \E d \in Dirs : tag_getattr(d) \/ KernelForgets(d) \/ tag_getattr_file(d)
        \/ \E x \in Tags : tag_mkdir(x) \/ tag_rmdir(x)
        \/ \E d \in Dirs, f \in Files : tag_unlink(d, f)
        \/ \E d, e \in Dirs, f \in Files : tag_link(d, f, e)
        \/ \E d, e \in Dirs, f \in Names : tag_rename(d, f, e)
        \/ \E h \in Handles, d \in Dirs : tag_open_dir(h, d)
        \/ \E h \in Handles : tag_release_generic(h) \/ tag_readdir(h)
        \/ Restart

Spec == Init /\ [][Next]_vars

------------------------------------------------------------------------------
(* Properties.                                                             *)

(* Types.                                                                  *)
Selections == UNION {[d -> Ids \cup {NoTag}] : d \in SUBSET Tags}
TypeOK == /\ tags \in [Tags -> Ids \cup {NoTag}]
          /\ next_id \in 0..MaxIds
          /\ tag \subseteq Ids \X Tags
          /\ tag_file \subseteq Ids \X Names
          /\ fds \in [Handles -> [open : BOOLEAN, sel : Selections]]
          /\ dentries \subseteq Dirs /\ status \in {"up", "crashed"}

(* Ids outlive the structs, in rows nobody deletes (tag.c:61-65): none is  *)
(* given twice, so a row never speaks of another tag than it was made for. *)
IdsSound ==
    /\ \A x \in Tags : tag_exist(x) => tags[x] < next_id
    /\ \A x, y \in Tags : tag_exist(x) /\ tags[x] = tags[y] => x = y
    /\ \A r \in tag : r[1] < next_id /\ \A x \in Tags : tags[x] = r[1] => x = r[2]
    /\ \A r \in tag_file : r[1] < next_id

(* The relation that the rows stand for through the structs of now.        *)
rel == {fx \in Files \X Tags : tag_exist(fx[2]) /\ <<tags[fx[2]], fx[1]>> \in tag_file}

(* Counting rows (db.c:190-219) finds the files that have all the tags.    *)
CountIsConjunction ==
    \A d \in Dirs, f \in Files : Looks_up(d) =>
        (file_matches_tags(f, StructsOf(d)) <=> {f} \X d \subseteq rel)

(* Every request changes the relation as the abstract file system allows;  *)
(* a tag that is made again starts without the files it once had.          *)
Relation == INSTANCE TagRelation WITH Db <- Db \cap (Files \X Tags)
ImplementsRelation == Relation!Spec

(* The row of a tag made again is refused (schema.sql:6, db.c:92-95), yet  *)
(* the root lists every tag there is: under the row of its first life.  As *)
(* long as no tag was made again, a directory lists at least the tags that *)
(* its files have (tagfs.c:206-209); also some that they do not have.  But *)
(* not below a tag whose name is misread between quotes (db.c:131): below  *)
(* l'eau no tag is listed at all (db.c:234-241).                           *)
FirstLife == \A x \in Tags : tag_exist(x) => <<tags[x], x>> \in tag
Quotable(d) == \A x \in d : Sql[x] = x
ListingsCover ==
    /\ \A x \in Tags : tag_exist(x) => x \in db_list_all_tags
    /\ FirstLife => \A d \in Dirs, f \in Files :
          d # {} /\ Quotable(d) /\ {f} \X d \subseteq rel =>
              {x \in Tags \ d : <<f, x>> \in rel} \subseteq db_list_remaining_tags(d)

(* Path components are dereferenced unchecked (db.c:140-155): the daemon   *)
(* survives all requests until a tag is removed, or a directory renamed,   *)
(* while the kernel or a handle remembers it.                              *)
ATagWasRemoved == \E i \in Ids : i < next_id /\ \A x \in Tags : tags[x] # i
ADirectoryWasMoved == \E r \in tag_file : r[2] \notin Files
SurvivesUntilRmdir == status = "crashed" => ATagWasRemoved \/ ADirectoryWasMoved

(* tests/check_modifs.sh:12,33-34: after `mv mnt/ecole2/ipb.jpeg           *)
(* mnt/ecole/' the file has the tag ecole.                                 *)
RenameMoves ==
    \A x, y \in Tags, f \in Files : x # y /\ tag_exist(y) /\ <<f, x>> \in rel
        => <<tags[y], f>> \in Renamed({x}, f, {y})
==============================================================================
