------------------------------- MODULE Lowlevel -------------------------------
(***************************************************************************)
(* fuse_lowlevel/: the same tags, served through inode numbers.            *)
(*                                                                         *)
(* Every lookup of a tag makes a directory inode of its own, which keeps   *)
(* its path and the structs of its tags; a file has one inode, made when   *)
(* the daemon first sees it.  An inode is freed when the kernel has given  *)
(* back all the lookups that were counted for it.  The kernel counts the   *)
(* entries it was replied; replies and forgets travel while other requests *)
(* are served.                                                             *)
(*                                                                         *)
(* One request at a time (-s), each handler atomic.  An open file or       *)
(* directory pins its inode in the kernel, so a handle is a known inode.   *)
(* The data and attribute requests (read, write, getattr, setattr) change  *)
(* no state here and are left out.                                         *)
(***************************************************************************)
EXTENDS Integers, FiniteSets, Sequences

CONSTANTS
    Files,      \* regular files of the target directory, .tags among them
    TagFile,    \* .tags
    Later,      \* the files that only mknod makes
    Tags,       \* tag names
    Db,         \* pairs <<file, tag>> written in .tags
    Nums,       \* inode numbers (bound: inodes alive at once)
    FileNum,    \* the inode number of each file
    W,          \* nlookup is a uint64_t: it counts modulo W
    MaxKnown,   \* bound: entries the kernel has not given back, the root's aside
                \* (link, which needs two, may add one more)
    MaxDepth,   \* bound: tags of a directory path
    Requests    \* which requests clients make, besides lookups

Root == 1

ASSUME FilesAssumption == Later \subseteq Files /\ TagFile \in Files \ Later
ASSUME DbAssumption == Db \subseteq (Files \ Later) \X Tags
ASSUME NumsAssumption == /\ Nums \subseteq Nat \ {0} /\ Root \in Nums
                         /\ IsFiniteSet(Nums)
                         /\ FileNum \in [Files -> Nums \ {Root}]
                         /\ \A f, g \in Files : FileNum[f] = FileNum[g] => f = g
ASSUME BoundsAssumption == {W, MaxKnown, MaxDepth} \subseteq Nat \ {0}
(* The kernel never holds half as many entries of an inode as its counter  *)
(* of 64 bits can count: TooMany leaves the other half to the opens.       *)
ASSUME WidthAssumption == W > 1 /\ MaxKnown <= W - W \div 2

VARIABLES
    ino,       \* the inode table
    tags,      \* the tag table: names
    fileTags,  \* the index f->tags, as pairs <<file, tag>>
    tagFiles,  \* the index t->files, as pairs <<file, tag>>
    kernel,    \* per inode: entries known, replies coming, forgets going
    status,    \* "up", "hung" in a handler, or "crashed"
    uncounted  \* history: inodes made or replied without counting a lookup

vars == <<ino, tags, fileTags, tagFiles, kernel, status, uncounted>>

(* What a directory inode selects: nothing under a name, the struct of the *)
(* tag table, a freed one, or INVALID_TAG.                                 *)
Selection == {"none", "live", "freed", "invalid"}
Paths == UNION {[1..n -> Tags] : n \in 0..MaxDepth}
Inode == [kind : {"none", "freed", "file", "dir"}, path : Paths,
          sel : [Tags -> Selection], nlookup : 0..(W - 1)]
Bare(k) == [kind |-> k, path |-> <<>>, sel |-> [x \in Tags |-> "none"], nlookup |-> 0]

------------------------------------------------------------------------------
SelTags(n) == {x \in Tags : ino[n].sel[x] # "none"}
LastTag(n) == ino[n].path[Len(ino[n].path)]
Reads(n) == {ino[n].sel[x] : x \in SelTags(n)}
file_matches_tags(f, n) == \A x \in SelTags(n) : /\ ino[n].sel[x] = "live"
                                                 /\ <<f, x>> \in fileTags

Known(n) == kernel[n].known > 0
KnownDir(n) == Known(n) /\ ino[n].kind = "dir"
Stop(how) == /\ status' = how
             /\ UNCHANGED <<ino, tags, fileTags, tagFiles, kernel, uncounted>>
Crash == Stop("crashed")

(* Numbers are never used twice; the model reuses those of the inodes that *)
(* were freed or that the code has lost: nobody knows them.                *)
Unused == {n \in Nums \ ({Root} \cup {FileNum[f] : f \in Files}) :
             kernel[n] = [known |-> 0, coming |-> 0, going |-> 0]}
Fresh == CHOOSE n \in Unused : TRUE
Injective(s) == \A x, y \in DOMAIN s : s[x] = s[y] => x = y

(* Mutation: the path of the parent is not taken over, its tags are.       *)
create_directory_inode_at_root(p, x) ==
    [kind |-> "dir", path |-> <<x>>, nlookup |-> 0,
     sel |-> [y \in Tags |-> IF y \notin SelTags(p) \cup {x} THEN "none"
                             ELSE IF y \in tags' THEN "live" ELSE "invalid"]]

create_directory_inode(p, x) ==
    [kind |-> "dir", path |-> Append(ino[p].path, x), nlookup |-> 0,
     sel |-> [y \in Tags |-> IF y \notin SelTags(p) \cup {x} THEN "none"
                             ELSE IF y \in tags' THEN "live" ELSE "invalid"]]

(* ++ ino->nlookup                                                         *)
counted(i) == [i EXCEPT !.nlookup = (@ + 1) % W]

Entries(n) == kernel[n].known + kernel[n].coming + kernel[n].going

(* fuse_reply_entry: the kernel will count one more.                       *)
Replies(n) == kernel' = [kernel EXCEPT ![n].coming = @ + 1]
Outstanding == {e \in (Nums \ {Root}) \X (1..MaxKnown + 1) : e[2] <= Entries(e[1])}
Room(most) == Cardinality(Outstanding) <= most

(* Bound: files are not opened so often that counts above zero and counts  *)
(* that wrapped below it meet.                                             *)
TooMany == (W \div 2)..(W - 1)

Serving == status = "up"
Serves(r) == Serving /\ r \in Requests

------------------------------------------------------------------------------
(* The kernel gets a reply, evicts an inode, or gives part of it back.     *)
KernelEntry(n) ==
    /\ Serving /\ kernel[n].coming > 0
    /\ kernel' = [kernel EXCEPT ![n].coming = @ - 1, ![n].known = @ + 1]
    /\ UNCHANGED <<ino, tags, fileTags, tagFiles, status, uncounted>>

KernelForget(n, c) ==
    /\ Serving /\ n # Root /\ c \in 1..kernel[n].known
    /\ kernel' = [kernel EXCEPT ![n].known = @ - c, ![n].going = @ + c]
    /\ UNCHANGED <<ino, tags, fileTags, tagFiles, status, uncounted>>

(* Mutation: the inode goes at the first forget.                           *)
forgotten_at_once(n, i) == IF n = Root THEN i ELSE Bare("freed")
(* Mutation: a count that comes down to zero is left to a later forget.    *)
forgotten_late(n, i) == [i EXCEPT !.nlookup = (@ - kernel[n].going) % W]

(* inode_delete_if_noref                                                   *)
forgotten(n, i) ==
    LET left == (i.nlookup - kernel[n].going) % W
    IN  IF n # Root /\ left = 0 THEN Bare("freed") ELSE [i EXCEPT !.nlookup = left]

tag_forget(n) ==
    /\ Serving /\ kernel[n].going > 0
    /\ ino' = [ino EXCEPT ![n] = IF @.kind \in {"file", "dir"}
                                 THEN forgotten(n, @) ELSE @]
    /\ kernel' = [kernel EXCEPT ![n].going = 0]
    /\ UNCHANGED <<tags, fileTags, tagFiles, status, uncounted>>

tag_lookup_tag(p, x) ==
    /\ Serving /\ KnownDir(p) /\ x \in tags \ SelTags(p)
    /\ Len(ino[p].path) < MaxDepth
    /\ Unused # {} /\ Room(MaxKnown - 1)
    /\ UNCHANGED <<tags, fileTags, tagFiles, status>>
    /\ uncounted' = uncounted \ {Fresh}
    /\ ino' = [ino EXCEPT ![Fresh] = counted(create_directory_inode(p, x))]
    /\ Replies(Fresh)

(* f->ino is written before the tags are compared; the root compares none. *)
tag_lookup_file(p, f) ==
    LET n == FileNum[f] IN
    /\ Serving /\ KnownDir(p) /\ ino[n].kind # "none" /\ Room(MaxKnown - 1)
    /\ IF ino[n].kind = "freed" \/ (p # Root /\ "freed" \in Reads(p)) THEN Crash
       ELSE /\ p = Root \/ file_matches_tags(f, p)
            /\ ino' = [ino EXCEPT ![n] = counted(@)]
            /\ Replies(n)
            /\ UNCHANGED <<tags, fileTags, tagFiles, status, uncounted>>

tag_open(f) ==
    LET n == FileNum[f] IN
    /\ Serves("open") /\ Known(n) /\ ino[n].kind = "file"
    /\ ino[n].nlookup \notin TooMany
    /\ ino' = [ino EXCEPT ![n] = counted(@)]
    /\ UNCHANGED <<tags, fileTags, tagFiles, kernel, status, uncounted>>

tag_get_or_create(x) == tags \cup {x}
tag_file(x, f) == /\ tagFiles' = tagFiles \cup {<<f, x>>}
                  /\ fileTags' = fileTags \cup {<<f, x>>}
untag_file(x, f) == /\ fileTags' = fileTags \ {<<f, x>>}
                    /\ tagFiles' = tagFiles \ {<<f, x>>}

tag_mkdir(x) ==
    /\ Serves("mkdir") /\ x \notin tags
    /\ tags' = tag_get_or_create(x)
    /\ UNCHANGED <<fileTags, tagFiles, status>>
    /\ Unused # {} /\ Room(MaxKnown - 1)
    /\ uncounted' = uncounted \cup {Fresh}
    /\ ino' = [ino EXCEPT ![Fresh] = create_directory_inode(Root, x)]
    /\ Replies(Fresh)

(* Mutation: the struct goes, the files keep the tag.                      *)
without_tag_in_table(x) == fileTags

(* Mutation: the files of the tag lose all their tags.                     *)
without_tag_clearing_files(x) == {fx \in fileTags : <<fx[1], x>> \notin tagFiles}

(* tag_remove, on the index of the files: those that t->files holds.       *)
without_tag(x) == fileTags \ {fx \in tagFiles : fx[2] = x}

tag_rmdir(x) ==
    /\ Serves("rmdir") /\ x \in tags
    /\ fileTags' = without_tag(x)
    /\ tagFiles' = {fx \in tagFiles : fx[2] # x}
    /\ tags' = tags \ {x}
    /\ ino' = [n \in Nums |-> IF ino[n].sel[x] = "live"
                              THEN [ino[n] EXCEPT !.sel[x] = "freed"] ELSE ino[n]]
    /\ UNCHANGED <<kernel, status, uncounted>>

tag_mknod(f) ==
    LET n == FileNum[f] IN
    /\ Serves("mknod") /\ ino[n].kind = "none" /\ Room(MaxKnown - 1)
    /\ ino' = [ino EXCEPT ![n] = Bare("file")]
    /\ Replies(n)
    /\ UNCHANGED <<tags, fileTags, tagFiles, status>>
    /\ uncounted' = uncounted \cup {n}

(* Only the last tag of the path; the others are not looked at.            *)
tag_link(f, p) ==
    LET n == FileNum[f] IN
    /\ Serves("link") /\ Known(n) /\ KnownDir(p) /\ p # Root /\ Room(MaxKnown)
    /\ IF ino[n].kind = "freed" \/ LastTag(p) \notin tags THEN Crash
       ELSE /\ tag_file(LastTag(p), f)
            /\ Replies(n)
            /\ UNCHANGED <<ino, tags, status>>
            /\ uncounted' = uncounted \cup {n}

(* EPERM below several tags, EIO when the tag is gone.                     *)
tag_unlink(p, f) ==
    /\ Serves("unlink") /\ KnownDir(p) /\ p # Root /\ ino[FileNum[f]].kind # "none"
    /\ Cardinality(SelTags(p)) = 1 /\ LastTag(p) \in tags
    /\ untag_file(LastTag(p), f)
    /\ UNCHANGED <<ino, tags, kernel, status, uncounted>>

moved(R, f, p, q) == (R \ {<<f, LastTag(p)>>}) \cup {<<f, LastTag(q)>>}

(* The old path is not asked whether it has the file.                      *)
tag_rename(p, f, q) ==
    /\ Serves("rename") /\ KnownDir(p) /\ KnownDir(q) /\ p # q
    /\ ino[FileNum[f]].kind # "none"
    /\ Len(ino[p].path) = 1 /\ Len(ino[q].path) = 1
    /\ IF {LastTag(p), LastTag(q)} \subseteq tags
       THEN /\ fileTags' = moved(fileTags, f, p, q)
            /\ tagFiles' = moved(tagFiles, f, p, q)
            /\ UNCHANGED <<ino, tags, kernel, status, uncounted>>
       ELSE Crash

(* The files of the selected tags, and those among them that lack one: the *)
(* entry of such a file is removed from the very table that is iterated,   *)
(* whose lock the thread holds for reading and now wants for writing.      *)
Candidates(n) == {f \in Files : \E x \in SelTags(n) : <<f, x>> \in tagFiles}
Unmatched(n) == {f \in Candidates(n) : ~file_matches_tags(f, n)}
RemainingTags(n) == {x \in Tags \ SelTags(n) :
                       \E f \in Candidates(n) : <<f, x>> \in fileTags}

(* Which numbers the inodes that the listing makes may get.                *)
Numberings(n) == {s \in [RemainingTags(n) -> Unused] : Injective(s)}

tag_readdir(n) ==
    /\ Serves("readdir") /\ KnownDir(n) /\ n # Root
    /\ IF Reads(n) # {"live"} THEN Crash
       ELSE IF Unmatched(n) # {}
       THEN Stop("hung")
       ELSE /\ UNCHANGED <<tags, fileTags, tagFiles, kernel, status>>
            /\ Len(ino[n].path) < MaxDepth \/ RemainingTags(n) = {}
            /\ Numberings(n) # {}
            /\ LET at == CHOOSE s \in Numberings(n) : TRUE
                   made == {at[x] : x \in RemainingTags(n)}
               IN  /\ ino' = [m \in Nums |-> IF m \notin made THEN ino[m] ELSE
                         create_directory_inode(n, CHOOSE x \in RemainingTags(n) : at[x] = m)]
                   /\ uncounted' = uncounted \cup made

(* On .tags: EINVAL is replied and the handler goes on to reply again,     *)
(* with a request that the first reply has freed.                          *)
tag_ioctl == Serves("ioctl") /\ Known(FileNum[TagFile]) /\ Crash

------------------------------------------------------------------------------
(* inode_init, realdir_add_files, parse_tags.                              *)
BootKind(n) == IF n = Root THEN "dir"
               ELSE IF \E f \in Files \ Later : FileNum[f] = n THEN "file"
               ELSE IF \E f \in Later : FileNum[f] = n THEN "none" ELSE "freed"
BootIno == [n \in Nums |-> [Bare(BootKind(n)) EXCEPT !.nlookup = IF n = Root THEN 1 ELSE 0]]
BootTags == {fx[2] : fx \in Db}
BootKernel == [n \in Nums |-> [known |-> IF n = Root THEN 1 ELSE 0,
                               coming |-> 0, going |-> 0]]

Init == /\ ino = BootIno /\ tags = BootTags /\ kernel = BootKernel
        /\ fileTags = Db /\ tagFiles = Db /\ status = "up" /\ uncounted = {}

(* Killed or stopped, and mounted again; mknod has changed the directory.  *)
Restart == /\ ino' = [n \in Nums |->
                        IF \E f \in Later : FileNum[f] = n /\ ino[n].kind # "none"
                        THEN Bare("file") ELSE BootIno[n]]
           /\ tags' = BootTags /\ kernel' = BootKernel
           /\ fileTags' = Db /\ tagFiles' = Db /\ status' = "up" /\ uncounted' = {}

Next == \/ \E n \in Nums : KernelEntry(n) \/ tag_forget(n)
        \/ \E n \in Nums, c \in 1..MaxKnown + 1 : KernelForget(n, c)
        \/ \E p \in Nums, x \in Tags : tag_lookup_tag(p, x)
        \/ \E p \in Nums, f \in Files : tag_lookup_file(p, f)
        \/ \E f \in Files : tag_open(f) \/ tag_mknod(f)
        \/ \E x \in Tags : tag_mkdir(x) \/ tag_rmdir(x)
        \/ \E f \in Files, p \in Nums : tag_link(f, p) \/ tag_unlink(p, f)
        \/ \E f \in Files, p, q \in Nums : tag_rename(p, f, q)
        \/ \E n \in Nums : tag_readdir(n)
        \/ tag_ioctl
        \/ Restart

Spec == Init /\ [][Next]_vars

------------------------------------------------------------------------------
(* Properties.                                                             *)

(* Types; a directory inode selects exactly the tags of its path.          *)
TypeOK == /\ ino \in [Nums -> Inode]
          /\ \A n \in Nums : SelTags(n) = {ino[n].path[i] : i \in 1..Len(ino[n].path)}
          /\ tags \subseteq Tags
          /\ fileTags \subseteq Files \X Tags /\ tagFiles \subseteq Files \X Tags
          /\ kernel \in [Nums -> [known : 0..MaxKnown + 1, coming : 0..MaxKnown + 1,
                                  going : 0..MaxKnown + 1]]
          /\ status \in {"up", "hung", "crashed"} /\ uncounted \subseteq Nums

(* The count of tag_lookup and tag_forget (fuse_callback.c:72,158) covers  *)
(* what the kernel holds or is about to hold, with forgets overtaken by    *)
(* replies and given back in parts: no inode the kernel can name is freed. *)
(* Except those that link, mkdir and mknod replied without counting.       *)
KernelInodesExist == \A n \in Nums \ uncounted :
    kernel[n].known + kernel[n].coming > 0 => ino[n].kind \in {"file", "dir"}

(* And nothing is kept for longer (inode.c:40): a directory inode made by  *)
(* a lookup is freed when the kernel has given back every entry of it.     *)
NoInodeLeaks == \A n \in Nums \ (uncounted \cup {Root}) :
    ino[n].kind = "dir" => kernel[n].known + kernel[n].coming + kernel[n].going > 0

(* f->tags and t->files are the same relation, over tags of the table,     *)
(* whatever is linked, moved and removed through whichever inodes.         *)
IndexesAgree == fileTags = tagFiles /\ \A fx \in fileTags : fx[2] \in tags

(* Every request changes the relation as the abstract file system allows:  *)
(* link by one tag, unlink of one, rename, rmdir of a whole tag.           *)
Relation == INSTANCE TagRelation WITH rel <- fileTags
ImplementsRelation == Relation!Spec

(* tests/check_ls.sh:11,45: listing mnt/animal/mechant answers.            *)
ListingAnswers == status # "hung"
==============================================================================
