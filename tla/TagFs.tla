-------------------------------- MODULE TagFs --------------------------------
(***************************************************************************)
(* The tag tables of fuse/ ("tags on the fly"): tag.c, file.c, path.c,     *)
(* file_descriptor.c and the request handlers of tagfs.c.                  *)
(*                                                                         *)
(* A directory path names a set of tags, a file below it is a real file of *)
(* the target directory that has them all.  Every request builds a struct  *)
(* path, which looks up, or creates, one struct tag per path component and *)
(* counts a reference; deleting the path gives back the tags nobody uses.  *)
(* An open handle keeps its path until it is released.                     *)
(*                                                                         *)
(* Handlers are atomic here, as under the -s option the Makefile runs the  *)
(* daemon with.  What interleaves is the order of requests of different    *)
(* clients, the handles they keep open meanwhile, and the lookups the      *)
(* kernel answers from its cache.                                          *)
(*                                                                         *)
(* Left out: the bytes of files (passed through to the real file), the     *)
(* poll events (file.c:16-27) and the table of struct file, which every    *)
(* lookup fills and nothing empties.                                       *)
(***************************************************************************)
EXTENDS Integers, FiniteSets

CONSTANTS
    Files,         \* regular files of the target directory
    Tags,          \* tag names
    Dirs,          \* directory paths: bags of tags, d[x] is how often x occurs
    Handles,       \* slots for struct file_descriptor
    MaxStructs,    \* bound: distinct struct tag of one name still pointed to
    MaxRef,        \* bound: ref_count of a struct tag
    OtherNames,    \* names below a directory path that are no such file
    Db,            \* pairs <<name, tag>> of the .tags file
    Closed, Dir,   \* a free handle slot; a handle on a directory
    NoDentry,      \* nothing cached
    CacheEntries,  \* may the kernel answer a lookup from its cache?
    StrayHandles,  \* may directories be opened through tags that do not exist?
    MovesDirs      \* may clients rename what is not a file?

NoTag == 0
Structs == 1..MaxStructs
Root == [x \in Tags |-> 0]
Names == Files \cup OtherNames   \* what may have a struct file

ASSUME DirsAssumption == Root \in Dirs /\ Dirs \subseteq [Tags -> Nat]
ASSUME DbAssumption == Db \subseteq Names \X Tags
ASSUME FilesAssumption == IsFiniteSet(Names) /\ Files \cap OtherNames = {}
ASSUME BoundsAssumption == MaxStructs \in Nat \ {0} /\ MaxRef \in Nat \ {0}
                           /\ Cardinality(Names) <= MaxRef
ASSUME NamesAssumption == /\ Closed \notin Files /\ Dir \notin Files
                          /\ Closed # Dir
                          /\ NoDentry \notin Dirs \X Files
ASSUME ModeAssumption == {CacheEntries, StrayHandles, MovesDirs} \subseteq BOOLEAN

VARIABLES
    tags,    \* per tag name: the table entry, the structs, the files' entries
    fds,     \* the open handles, each with the struct path it keeps
    dentry   \* a positive lookup the kernel may still have in its cache

vars == <<tags, fds, dentry>>

------------------------------------------------------------------------------
(* The state of one tag name x.                                            *)
(*   cur    the struct the table `tags' holds under x, NoTag if none       *)
(*   obj    the structs that carry the name x, the freed ones included     *)
(*   at[f]  the struct that f->tags holds under x, NoTag if none           *)
(*   bad    a freed struct was read or written: from here on the daemon    *)
(*          may do anything, and the model only lets it be restarted       *)
TagStruct == [alloc : BOOLEAN, in_use : BOOLEAN, ref : 0..MaxRef,
              files : SUBSET Names]
TagEntry == [cur : Structs \cup {NoTag}, obj : [Structs -> TagStruct],
             at : [Names -> Structs \cup {NoTag}], bad : BOOLEAN]

Freed == [alloc |-> FALSE, in_use |-> FALSE, ref |-> 0, files |-> {}]

(* A struct slot nothing points to: not the table, no file, no handle (in  *)
(* held).  It may still be allocated: the code leaks what it forgets.      *)
Unused(t, held) == {g \in Structs : /\ g # t.cur /\ g \notin held
                                    /\ \A f \in Names : t.at[f] # g}

(* Mutation: a path does not count its reference to an existing tag.       *)
compute_selected_tags_uncounted(t, n, held) ==
    IF n = 0 \/ t.cur # NoTag THEN t
    ELSE LET g == CHOOSE g \in Unused(t, held) : TRUE
         IN  [t EXCEPT !.cur = g,
                       !.obj[g] = [alloc |-> TRUE, in_use |-> FALSE,
                                   ref |-> n, files |-> {}]]

(* One component x of a path, occurring n times, is looked up, or created, *)
(* and counted n times.                                                    *)
compute_selected_tags(t, n, held) ==
    IF n = 0 THEN t
    ELSE IF t.cur # NoTag
         THEN [t EXCEPT !.obj[t.cur].ref = @ + n]
         ELSE LET g == CHOOSE g \in Unused(t, held) : TRUE
              IN  [t EXCEPT !.cur = g,
                            !.obj[g] = [alloc |-> TRUE, in_use |-> FALSE,
                                        ref |-> n, files |-> {}]]

(* Mutation: the reference is dropped by tag_remove and again by its caller.*)
tag_remove_counting_twice(t, g, n) ==
    LET o == t.obj[g]
    IN  [t EXCEPT !.cur = NoTag,
                  !.at = [f \in Names |-> IF f \in o.files THEN NoTag ELSE @[f]],
                  !.obj[g] = IF o.ref > n THEN [o EXCEPT !.ref = @ - 2 * n]
                                          ELSE Freed]

(* Mutation: the tag stays in the table.                                   *)
tag_remove_from_files_only(t, g, n) ==
    LET o == t.obj[g]
    IN  [t EXCEPT !.at = [f \in Names |-> IF f \in o.files THEN NoTag ELSE @[f]],
                  !.obj[g] = IF o.ref > n THEN [o EXCEPT !.ref = @ - n]
                                          ELSE Freed]

(* n calls in a row, one per occurrence of the tag in a path.  The entry   *)
(* of the table goes by name, whichever struct it holds.                   *)
tag_remove(t, g, n) ==
    LET o == t.obj[g]
    IN  [t EXCEPT !.cur = NoTag,
                  !.at = [f \in Names |-> IF f \in o.files THEN NoTag ELSE @[f]],
                  !.obj[g] = IF o.ref > n THEN [o EXCEPT !.ref = @ - n]
                                          ELSE Freed,
                  !.bad = @ \/ o.ref < n]

(* Mutation: plain reference counting, in use or not.                      *)
free_selected_tags_counting(t, g, n) ==
    IF n = 0 THEN t
    ELSE IF ~t.obj[g].alloc THEN [t EXCEPT !.bad = TRUE]
    ELSE IF t.obj[g].ref > n THEN [t EXCEPT !.obj[g].ref = @ - n]
    ELSE [t EXCEPT !.cur = NoTag, !.obj[g] = Freed]

(* The path gives its tags back: only those not in use are removed, and    *)
(* only for those does the reference count go down.                        *)
free_selected_tags(t, g, n) ==
    IF n = 0 THEN t
    ELSE IF ~t.obj[g].alloc THEN [t EXCEPT !.bad = TRUE]
    ELSE IF t.obj[g].in_use THEN t
    ELSE tag_remove(t, g, n)

(* Mutation: only the file's index is updated.                             *)
tag_file_one_sided(t, g, f) == [t EXCEPT !.at[f] = IF @ = NoTag THEN g ELSE @,
                                         !.obj[g].in_use = TRUE]

tag_file(t, g, f) == [t EXCEPT !.at[f] = IF @ = NoTag THEN g ELSE @,
                               !.obj[g].files = @ \cup {f},
                               !.obj[g].in_use = TRUE]

(* Mutations: only one of the two indexes is updated.                      *)
untag_file_not_tag(t, g, f) == [t EXCEPT !.at[f] = NoTag]
untag_file_not_file(t, g, f) == [t EXCEPT !.obj[g].files = @ \ {f}]

untag_file(t, g, f) == [t EXCEPT !.at[f] = NoTag,
                                 !.obj[g].files = @ \ {f}]

(* Mutations: the tag is never removed, or removed with files left.        *)
path_unlink_no_cleanup(t, g, n, f) == IF n = 0 THEN t ELSE untag_file(t, g, f)
path_unlink_any_count(t, g, n, f) ==
    IF n = 0 THEN t ELSE tag_remove(untag_file(t, g, f), g, n)

(* One component of the path that f is removed from.                       *)
path_unlink(t, g, n, f) ==
    IF n = 0 THEN t
    ELSE LET u == untag_file(t, g, f)
         IN  IF u.obj[g].files = {} THEN tag_remove(u, g, n) ELSE u

(* tag_mkdir on the directory part of a link's target, whose path has just *)
(* been created: the tag is in the table, EEXIST or not it ends up in use. *)
tag_mkdir(t, g) == [t EXCEPT !.obj[g].in_use = TRUE]

------------------------------------------------------------------------------
(* Paths.                                                                  *)
Sel(d) == {x \in Tags : d[x] > 0}
OneTag(d) == \E x \in Tags : d[x] = 1 /\ Sel(d) = {x}
Both(d, e) == [x \in Tags |-> d[x] + e[x]]

(* The structs of the name x that open handles keep.                       *)
Held(x) == {fds[h].sel[x] : h \in Handles}

PathCreate(d) == [x \in Tags |-> compute_selected_tags(tags[x], d[x], Held(x))]
PathSel(ts, d) == [x \in Tags |-> IF d[x] > 0 THEN ts[x].cur ELSE NoTag]

(* A request that only creates the path d and deletes it again.            *)
PathVisit(d) == [x \in Tags |->
                   LET t == PathCreate(d)[x]
                   IN  free_selected_tags(t, t.cur, d[x])]

(* file_matches_tags: by name, in the file's own table.                    *)
Matches(d, f) == \A x \in Sel(d) : tags[x].at[f] # NoTag

(* getattr_intra: a name that is no file of the target directory, an       *)
(* absent tag included, is answered with the attributes of a directory.    *)
LookupResult(d, nm) == IF nm \in Files
                       THEN IF Matches(d, nm) THEN "file" ELSE "ENOENT"
                       ELSE "directory"

Found(d, nm) == LookupResult(d, nm) # "ENOENT"

Listed(x) == tags[x].cur # NoTag /\ tags[x].obj[tags[x].cur].in_use

(* What the daemon can serve: it is intact, and the bounds leave room.     *)
Alive == \A x \in Tags : ~tags[x].bad
Room(d) == \A x \in Sel(d) :
              IF tags[x].cur # NoTag
              THEN tags[x].obj[tags[x].cur].ref + d[x] <= MaxRef
              ELSE d[x] <= MaxRef /\ Unused(tags[x], Held(x)) # {}
Serves(d) == d \in Dirs /\ Alive /\ Room(d)
ServesTwo(d, e) == d \in Dirs /\ e \in Dirs /\ Alive /\ Room(Both(d, e))

(* The kernel resolves a path before it sends the request: by a lookup     *)
(* just before it, or from its cache.                                      *)
Resolves(d, f) == Matches(d, f) \/ dentry = <<d, f>>
Caches(S) == IF CacheEntries THEN S ELSE {NoDentry}

------------------------------------------------------------------------------
(* The requests.                                                           *)
tag_getattr(d, nm) ==
    /\ Serves(d)
    /\ tags' = PathVisit(d)
    /\ dentry' \in CASE LookupResult(d, nm) = "file" -> Caches({<<d, nm>>})
                     [] dentry = <<d, nm>>           -> {NoDentry}
                     [] OTHER                        -> {dentry}
    /\ UNCHANGED fds

(* open: the path is kept in the handle.                                   *)
tag_open_file(h, d, f) ==
    /\ Serves(d) /\ Resolves(d, f) /\ fds[h].on = Closed
    /\ tags' = PathCreate(d)
    /\ fds' = [fds EXCEPT ![h] = [on |-> f, dir |-> d, sel |-> PathSel(tags', d)]]
    /\ UNCHANGED dentry

(* opendir, where l is the last component of the path.                     *)
tag_open_dir(h, d) ==
    /\ Serves(d) /\ fds[h].on = Closed
    /\ d = Root \/ \E l \in Sel(d) : Listed(l)
    /\ StrayHandles \/ \A x \in Sel(d) : Listed(x)
    /\ tags' = PathCreate(d)
    /\ fds' = [fds EXCEPT ![h] = [on |-> Dir, dir |-> d, sel |-> PathSel(tags', d)]]
    /\ UNCHANGED dentry

(* open that fails (EACCES, ...) or opendir of a tag not in use (ENOENT):  *)
(* the error return of tag_open forgets the path.                          *)
tag_open_fails(d) ==
    /\ Serves(d)
    /\ \/ \E f \in Files : Resolves(d, f)
       \/ \E l \in Sel(d) : ~Listed(l)
    /\ tags' = PathCreate(d)
    /\ UNCHANGED <<fds, dentry>>

NoHandle == [on |-> Closed, dir |-> Root, sel |-> [x \in Tags |-> NoTag]]

Released(h) ==
    [x \in Tags |-> free_selected_tags(tags[x], fds[h].sel[x], fds[h].dir[x])]

tag_release_generic(h) ==
    /\ Alive /\ fds[h].on # Closed
    /\ tags' = Released(h)
    /\ fds' = [fds EXCEPT ![h] = NoHandle]
    /\ UNCHANGED dentry

(* readdir and fgetattr read the structs the handle has kept.              *)
UseHandle(h) ==
    /\ Alive
    /\ tags' = [x \in Tags |->
                  [tags[x] EXCEPT !.bad = /\ fds[h].dir[x] > 0
                                          /\ ~tags[x].obj[fds[h].sel[x]].alloc]]
    /\ UNCHANGED <<fds, dentry>>
tag_readdir(h) == fds[h].on = Dir /\ UseHandle(h)
tag_fgetattr(h) == fds[h].on \in Files /\ UseHandle(h)

(* Mutation: the result of getattr_intra is not looked at.                 *)
Linked_unchecked(d, f, e) ==
    [x \in Tags |->
       LET n == d[x] + e[x]
           t == compute_selected_tags(tags[x], n, Held(x))
           l == IF e[x] > 0 THEN tag_file(t, t.cur, f) ELSE t
       IN  free_selected_tags(l, t.cur, n)]

(* link d/f to e: the kernel found the target name absent below e, which   *)
(* takes a real file without the tags of e.                                *)
Linked(d, f, e) ==
    [x \in Tags |->
       LET n == d[x] + e[x]
           t == compute_selected_tags(tags[x], n, Held(x))
           m == IF OneTag(e) /\ e[x] > 0 THEN tag_mkdir(t, t.cur) ELSE t
           l == IF Found(d, f) /\ e[x] > 0 THEN tag_file(m, t.cur, f) ELSE m
       IN  free_selected_tags(l, t.cur, n)]

tag_link(d, f, e) ==
    /\ ServesTwo(d, e) /\ Resolves(d, f)
    /\ e # Root /\ (CacheEntries \/ \E g \in Files : ~Matches(e, g))
    /\ tags' = Linked(d, f, e)
    /\ UNCHANGED <<fds, dentry>>

Unlinked(d, f) ==
    [x \in Tags |->
       LET t == compute_selected_tags(tags[x], d[x], Held(x))
           u == path_unlink(t, t.cur, d[x], f)
       IN  free_selected_tags(u, t.cur, d[x])]

tag_unlink(d, f) ==
    /\ Serves(d) /\ Resolves(d, f) /\ d # Root
    /\ tags' = Unlinked(d, f)
    /\ dentry' = IF dentry = <<d, f>> THEN NoDentry ELSE dentry
    /\ UNCHANGED fds

(* rename d/f to e: link, then unlink, for paths of exactly one tag.  The  *)
(* name below e is not used; the kernel moves its dentry there.  What is   *)
(* no file is found as a directory, and tagged as if it were a file.       *)
Renames(d, f) == IF f \in Files THEN Resolves(d, f) ELSE MovesDirs

(* Mutation: unlink before link, which then finds no such file below d.    *)
Renamed_unlink_first(d, f, e) ==
    [x \in Tags |->
       LET n == d[x] + e[x]
           t == compute_selected_tags(tags[x], n, Held(x))
           u == path_unlink(t, t.cur, d[x], f)
       IN  free_selected_tags(u, t.cur, n)]

Renamed(d, f, e) ==
    [x \in Tags |->
       LET n == d[x] + e[x]
           t == compute_selected_tags(tags[x], n, Held(x))
           l == IF Found(d, f) /\ e[x] > 0 THEN tag_file(t, t.cur, f) ELSE t
           u == path_unlink(l, t.cur, d[x], f)
       IN  free_selected_tags(u, t.cur, n)]

tag_rename(d, f, e) ==
    /\ ServesTwo(d, e) /\ Renames(d, f) /\ OneTag(d) /\ OneTag(e)
    /\ tags' = Renamed(d, f, e)
    /\ dentry' \in IF f \in Files THEN Caches({NoDentry} \cup ({e} \X Files))
                                 ELSE {dentry}
    /\ UNCHANGED fds

(* EPERM, after both paths were created and deleted.                       *)
tag_rename_refused(d, f, e) ==
    /\ ServesTwo(d, e) /\ Renames(d, f) /\ ~(OneTag(d) /\ OneTag(e))
    /\ tags' = PathVisit(Both(d, e))
    /\ UNCHANGED <<fds, dentry>>

------------------------------------------------------------------------------
(* Start: parse_tags_db creates one struct per tag of .tags, in use, with  *)
(* one reference per line.                                                 *)
DbFiles(x) == {f \in Names : <<f, x>> \in Db}
BootTag(x) ==
    LET fs == DbFiles(x)
        g  == IF fs = {} THEN NoTag ELSE 1
    IN  [cur |-> g,
         obj |-> [s \in Structs |->
                    IF s = g THEN [alloc |-> TRUE, in_use |-> TRUE,
                                   ref |-> Cardinality(fs), files |-> fs]
                             ELSE Freed],
         at  |-> [f \in Names |-> IF f \in fs THEN g ELSE NoTag],
         bad |-> FALSE]

Init == /\ tags = [x \in Tags |-> BootTag(x)]
        /\ fds = [h \in Handles |-> NoHandle]
        /\ dentry = NoDentry

(* The daemon stops (crash, or umount and a dump to .tags.new) and starts. *)
Restart == /\ tags' = [x \in Tags |-> BootTag(x)]
           /\ fds' = [h \in Handles |-> NoHandle]
           /\ dentry' = NoDentry

Next == \/ \E d \in Dirs, nm \in Names : tag_getattr(d, nm)
        \/ \E h \in Handles, d \in Dirs, f \in Files : tag_open_file(h, d, f)
        \/ \E h \in Handles, d \in Dirs : tag_open_dir(h, d)
        \/ \E d \in Dirs : tag_open_fails(d)
        \/ \E h \in Handles : tag_release_generic(h)
        \/ \E h \in Handles : tag_readdir(h)
        \/ \E h \in Handles : tag_fgetattr(h)
        \/ \E d, e \in Dirs, f \in Files : tag_link(d, f, e)
        \/ \E d \in Dirs, f \in Files : tag_unlink(d, f)
        \/ \E d, e \in Dirs, f \in Names : tag_rename(d, f, e)
        \/ \E d, e \in Dirs, f \in Names : tag_rename_refused(d, f, e)
        \/ Restart

Spec == Init /\ [][Next]_vars

------------------------------------------------------------------------------
(* Properties.                                                             *)

Handle == [on : Files \cup {Closed, Dir}, dir : Dirs,
           sel : [Tags -> Structs \cup {NoTag}]]

(* Types, and that no reference count leaves the bound; a handle that kept *)
(* a path has a struct for each of its components.                         *)
TypeOK == /\ tags \in [Tags -> TagEntry]
          /\ fds \in [Handles -> Handle]
          /\ \A h \in Handles, x \in Tags :
                fds[h].dir[x] > 0 => fds[h].sel[x] \in Structs
          /\ dentry \in (Dirs \X Files) \cup {NoDentry}

(* However requests, stale lookups and stale handles interleave: what a    *)
(* file's own tag table holds (file.c:29-33) is a live struct that holds   *)
(* the file in turn, and is in use, so that no free_selected_tags takes it *)
(* away (tag.c:141).                                                       *)
FileTagsAllocated ==
    \A x \in Tags : \A f \in Names :
        LET g == tags[x].at[f] IN
        g # NoTag => /\ tags[x].obj[g].alloc /\ tags[x].obj[g].in_use
                     /\ f \in tags[x].obj[g].files

(* The inductive invariant behind it, for one tag name.                    *)
EntrySound(t) ==
    /\ t.cur # NoTag => t.obj[t.cur].alloc
    /\ \A f \in Names : t.at[f] # NoTag => f \in t.obj[t.at[f]].files
    /\ \A g \in Structs :
         /\ t.obj[g].files # {} => t.obj[g].alloc /\ t.obj[g].in_use
         /\ t.obj[g].alloc => t.obj[g].ref > 0
         /\ ~t.obj[g].alloc => t.obj[g] = Freed
EntriesSound == \A x \in Tags : EntrySound(tags[x])

(* The relation the two indexes stand for, read where getattr, the dump    *)
(* and the tag ioctl read it: in the files' own tables.                    *)
RelOf(ts) == {fx \in Files \X Tags : ts[fx[2]].at[fx[1]] # NoTag}
rel == RelOf(tags)

(* Whatever stale lookups and handles there are, each request changes the  *)
(* relation as its name says and no further: link gives the file the tags  *)
(* of the target path, or nothing if the file is not found any more        *)
(* (tagfs.c:554-556); unlink takes those of the path from this file only,  *)
(* though it removes the tags it empties (tagfs.c:179-180); rename links   *)
(* before it unlinks (tagfs.c:607-608); a lookup, a refused rename and the *)
(* release of a handle, which create and remove tags too, change nothing.  *)
Gives(f, d) == {f} \X Sel(d)
UnlinkKeepsWord == \A d \in Dirs, f \in Files :
    Serves(d) /\ Resolves(d, f) => RelOf(Unlinked(d, f)) = rel \ Gives(f, d)
LinkKeepsWord == \A d, e \in Dirs, f \in Files :
    ServesTwo(d, e) /\ Resolves(d, f) =>
        RelOf(Linked(d, f, e)) = IF Matches(d, f) THEN rel \cup Gives(f, e) ELSE rel
RenameKeepsWord == \A d, e \in Dirs, f \in Files :
    ServesTwo(d, e) /\ Resolves(d, f) /\ OneTag(d) /\ OneTag(e) =>
        RelOf(Renamed(d, f, e)) =
            IF Matches(d, f) THEN (rel \cup Gives(f, e)) \ Gives(f, d) ELSE rel
OthersKeepWord ==
    /\ \A d, e \in Dirs : ServesTwo(d, e) => RelOf(PathVisit(Both(d, e))) = rel
    /\ \A h \in Handles : Alive => RelOf(Released(h)) = rel
RequestsKeepWord == /\ UnlinkKeepsWord /\ LinkKeepsWord
                    /\ RenameKeepsWord /\ OthersKeepWord

(* Every request changes the relation as promised, or not at all, whatever *)
(* stale lookups and handles there are (refinement mapping: rel above).    *)
Relation == INSTANCE TagRelation WITH Db <- Db \cap (Files \X Tags)
ImplementsRelation == Relation!Spec

------------------------------------------------------------------------------
(* What further holds while nobody uses a stale lookup, opens a directory  *)
(* through a tag that does not exist, or renames what is no file.          *)

(* The two indexes agree: a file's table holds the struct that the tag     *)
(* table holds, and that struct holds exactly the files that hold it.      *)
TagIndexConsistent ==
    \A x \in Tags : \A f \in Names, g \in Structs :
        (tags[x].at[f] = g) <=> (tags[x].cur = g /\ f \in tags[x].obj[g].files)

(* A tag some file carries is in the tag table and in use: it can be       *)
(* listed at the root, opened and looked up.                               *)
EveryTagIsListed == \A fx \in rel : Listed(fx[2])

(* unlink and rename clean up after the last file (tagfs.c:179-180): the   *)
(* root lists no tag that no file carries.                                 *)
ListedTagHasFiles == \A x \in Tags : Listed(x) => \E f \in Files : <<f, x>> \in rel

(* No handle holds a freed struct, and none was ever touched.              *)
NoUseAfterFree ==
    /\ Alive
    /\ \A h \in Handles, x \in Tags :
          fds[h].sel[x] # NoTag => tags[x].obj[fds[h].sel[x]].alloc

(* readdir of an open directory (mode 2): the files listed, by the names   *)
(* of the path, and the tags listed, by the structs the handle kept.       *)
ListedFiles(h) == {f \in Files : Matches(fds[h].dir, f)}
SelectedFiles(h) ==
    LET S == Sel(fds[h].dir)
    IN  {f \in UNION {tags[x].obj[fds[h].sel[x]].files : x \in S} :
           \A x \in S : tags[x].at[f] # NoTag}
RemainingTags(h) == {y \in Tags \ Sel(fds[h].dir) :
                       \E f \in SelectedFiles(h) : tags[y].at[f] # NoTag}
TagsOfListedFiles(h) == {y \in Tags \ Sel(fds[h].dir) :
                           \E f \in ListedFiles(h) : <<f, y>> \in rel}
OnTagDir(h) == fds[h].on = Dir /\ fds[h].dir # Root

(* While the tags of an open directory have not been removed meanwhile,    *)
(* the tags it lists are those that its files still have (tagfs.c:370).    *)
FreshHandleListing ==
    \A h \in Handles :
        OnTagDir(h) /\ (\A x \in Sel(fds[h].dir) : fds[h].sel[x] = tags[x].cur)
            => RemainingTags(h) = TagsOfListedFiles(h)

------------------------------------------------------------------------------
(* What the repository says elsewhere, and the code does not do.           *)

(* tests/check_modifs.sh:15,40-42: `rm' through two tags leaves both.      *)
UnlinkThroughSeveralTagsKeepsThem ==
    \A d \in Dirs, f \in Files :
        Serves(d) /\ Matches(d, f) /\ Cardinality(Sel(d)) > 1
            => RelOf(Unlinked(d, f)) = rel
==============================================================================
