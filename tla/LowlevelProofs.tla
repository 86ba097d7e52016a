---------------------------- MODULE LowlevelProofs ----------------------------
(***************************************************************************)
(* Theorems about Lowlevel, for any files, tags, inode numbers, width of   *)
(* the counts and bounds: the relation and its two indexes first, then the *)
(* inodes and their counts.                                                *)
(***************************************************************************)
EXTENDS Lowlevel, FiniteSetTheorems, TLAPS

(* What the handlers keep whatever the inodes look like: the struct a      *)
(* request works on is taken from the tag table, not from an inode.        *)
IInv == /\ tags \subseteq Tags
        /\ fileTags \subseteq Files \X Tags
        /\ IndexesAgree

tables == <<tags, fileTags, tagFiles>>

LEMMA InitIInv == Init => IInv
BY DbAssumption DEF Init, IInv, IndexesAgree, BootTags

(* The requests that only look up, count, list or end the daemon.          *)
Looks == \/ \E n \in Nums : KernelEntry(n) \/ tag_forget(n)
         \/ \E n \in Nums, c \in 1..MaxKnown + 1 : KernelForget(n, c)
         \/ \E p \in Nums, x \in Tags : tag_lookup_tag(p, x)
         \/ \E p \in Nums, f \in Files : tag_lookup_file(p, f)
         \/ \E f \in Files : tag_open(f) \/ tag_mknod(f)
         \/ \E n \in Nums : tag_readdir(n)
         \/ tag_ioctl

LEMMA LooksLeaveTables ==
  ASSUME Looks
  PROVE  UNCHANGED tables
<1>1. CASE \E n \in Nums : KernelEntry(n) \/ tag_forget(n)
  BY <1>1 DEF KernelEntry, tag_forget, tables
<1>2. CASE \E n \in Nums, c \in 1..MaxKnown + 1 : KernelForget(n, c)
  BY <1>2 DEF KernelForget, tables
<1>3. CASE \E p \in Nums, x \in Tags : tag_lookup_tag(p, x)
  BY <1>3 DEF tag_lookup_tag, tables
<1>4. CASE \E p \in Nums, f \in Files : tag_lookup_file(p, f)
  BY <1>4 DEF tag_lookup_file, Crash, Stop, tables
<1>5. CASE \E f \in Files : tag_open(f) \/ tag_mknod(f)
  BY <1>5 DEF tag_open, tag_mknod, tables
<1>6. CASE \E n \in Nums : tag_readdir(n)
  BY <1>6 DEF tag_readdir, Crash, Stop, tables
<1>7. CASE tag_ioctl
  BY <1>7 DEF tag_ioctl, Crash, Stop, tables
<1> QED BY <1>1, <1>2, <1>3, <1>4, <1>5, <1>6, <1>7 DEF Looks

(* What each request that changes the tables does to the three of them.    *)
LEMMA LinkEffect ==
  ASSUME IInv, NEW f \in Files, NEW p \in Nums, tag_link(f, p)
  PROVE  \/ UNCHANGED tables
         \/ \E x \in tags : /\ fileTags' = fileTags \cup {<<f, x>>}
                            /\ tagFiles' = tagFiles \cup {<<f, x>>}
                            /\ tags' = tags
BY DEF tag_link, tag_file, Crash, Stop, tables

LEMMA UnlinkEffect ==
  ASSUME IInv, NEW f \in Files, NEW p \in Nums, tag_unlink(p, f)
  PROVE  \E x \in tags : /\ fileTags' = fileTags \ {<<f, x>>}
                         /\ tagFiles' = tagFiles \ {<<f, x>>}
                         /\ tags' = tags
BY DEF tag_unlink, untag_file

LEMMA RenameEffect ==
  ASSUME IInv, NEW f \in Files, NEW p \in Nums, NEW q \in Nums, tag_rename(p, f, q)
  PROVE  \/ UNCHANGED tables
         \/ \E x, y \in tags : /\ fileTags' = (fileTags \ {<<f, x>>}) \cup {<<f, y>>}
                               /\ tagFiles' = (tagFiles \ {<<f, x>>}) \cup {<<f, y>>}
                               /\ tags' = tags
BY DEF tag_rename, moved, Crash, Stop, tables

LEMMA RmdirEffect ==
  ASSUME IInv, NEW x \in Tags, tag_rmdir(x)
  PROVE  /\ fileTags' = fileTags \ (Files \X {x})
         /\ tagFiles' = tagFiles \ (Files \X {x})
         /\ tags' = tags \ {x}
BY DEF tag_rmdir, without_tag, IInv, IndexesAgree

LEMMA NextIInv == IInv /\ [Next]_vars => IInv'
<1> SUFFICES ASSUME IInv, [Next]_vars PROVE IInv'
  OBVIOUS
<1>1. ASSUME UNCHANGED tables PROVE IInv'
  BY <1>1 DEF tables, IInv, IndexesAgree
<1>2. CASE Looks
  BY <1>1, <1>2, LooksLeaveTables
<1>3. CASE \E x \in Tags : tag_mkdir(x)
  BY <1>3 DEF tag_mkdir, tag_get_or_create, IInv, IndexesAgree
<1>4. ASSUME NEW x \in Tags, tag_rmdir(x) PROVE IInv'
  BY <1>4, RmdirEffect DEF IInv, IndexesAgree
<1>5. ASSUME NEW f \in Files, NEW p \in Nums, tag_link(f, p) PROVE IInv'
  <2>1. ASSUME NEW x \in tags, tags' = tags,
               fileTags' = fileTags \cup {<<f, x>>}, tagFiles' = tagFiles \cup {<<f, x>>}
        PROVE  IInv'
    BY <2>1 DEF IInv, IndexesAgree
  <2> QED BY <1>1, <1>5, <2>1, LinkEffect
<1>6. ASSUME NEW f \in Files, NEW p \in Nums, tag_unlink(p, f) PROVE IInv'
  <2>1. ASSUME NEW x \in tags, tags' = tags,
               fileTags' = fileTags \ {<<f, x>>}, tagFiles' = tagFiles \ {<<f, x>>}
        PROVE  IInv'
    BY <2>1 DEF IInv, IndexesAgree
  <2> QED BY <1>6, <2>1, UnlinkEffect
<1>7. ASSUME NEW f \in Files, NEW p \in Nums, NEW q \in Nums, tag_rename(p, f, q)
      PROVE  IInv'
  BY <1>1, <1>7, RenameEffect DEF IInv, IndexesAgree
<1>8. CASE Restart
  BY <1>8, DbAssumption DEF Restart, IInv, IndexesAgree, BootTags
<1>9. CASE UNCHANGED vars
  BY <1>1, <1>9 DEF vars, tables
<1> QED BY <1>2, <1>3, <1>4, <1>5, <1>6, <1>7, <1>8, <1>9 DEF Next, Looks

LEMMA SpecIInv == Spec => []IInv
BY InitIInv, NextIInv, PTL DEF Spec

(* f->tags and t->files stay one relation over the tags of the table,      *)
(* through any sequence of links, unlinks, renames and removals of tags by *)
(* whatever inodes, stale ones included (fuse_lowlevel/tag.c).             *)
THEOREM LowlevelIndexesAgree == Spec => []IndexesAgree
BY SpecIInv, PTL DEF IInv

(* rename does not ask whether the file has the old tag: where it has not, *)
(* the abstract step is a link.                                            *)
LEMMA StepMaps == IInv /\ [Next]_vars => [Relation!Next]_fileTags
<1> SUFFICES ASSUME IInv, [Next]_vars PROVE [Relation!Next]_fileTags
  OBVIOUS
<1>1. ASSUME UNCHANGED tables PROVE UNCHANGED fileTags
  BY <1>1 DEF tables
<1>2. CASE Looks
  BY <1>1, <1>2, LooksLeaveTables
<1>3. CASE \E x \in Tags : tag_mkdir(x)
  BY <1>3 DEF tag_mkdir
<1>4. ASSUME NEW x \in Tags, tag_rmdir(x) PROVE Relation!Next
  BY <1>4, RmdirEffect DEF Relation!Next, Relation!RemoveTag
<1>5. ASSUME NEW f \in Files, NEW p \in Nums, tag_link(f, p)
      PROVE  Relation!Next \/ UNCHANGED fileTags
  <2>1. ASSUME NEW x \in tags, fileTags' = fileTags \cup {<<f, x>>}
        PROVE  Relation!Link(f, {x})
    BY <2>1 DEF Relation!Link
  <2>2. \A x \in tags : {x} \in SUBSET Tags
    BY DEF IInv
  <2> QED BY <1>1, <1>5, <2>1, <2>2, LinkEffect DEF Relation!Next
<1>6. ASSUME NEW f \in Files, NEW p \in Nums, tag_unlink(p, f)
      PROVE  Relation!Next
  <2>1. ASSUME NEW x \in tags, fileTags' = fileTags \ {<<f, x>>}
        PROVE  Relation!Unlink(f, {x})
    BY <2>1 DEF Relation!Unlink
  <2>2. \A x \in tags : {x} \in SUBSET Tags
    BY DEF IInv
  <2> QED BY <1>6, <2>1, <2>2, UnlinkEffect DEF Relation!Next
<1>7. ASSUME NEW f \in Files, NEW p \in Nums, NEW q \in Nums, tag_rename(p, f, q)
      PROVE  Relation!Next \/ UNCHANGED fileTags
  <2>1. ASSUME NEW x \in tags, NEW y \in tags,
               fileTags' = (fileTags \ {<<f, x>>}) \cup {<<f, y>>}
        PROVE  Relation!Next \/ UNCHANGED fileTags
    <3>0. x \in Tags /\ y \in Tags
      BY DEF IInv
    <3>1. CASE <<f, x>> \notin fileTags
      <4>1. Relation!Link(f, {y})
        BY <2>1, <3>1 DEF Relation!Link
      <4> QED BY <3>0, <4>1 DEF Relation!Next
    <3>2. CASE <<f, x>> \in fileTags /\ x # y
      <4>1. Relation!Rename(f, x, y)
        BY <2>1, <3>2 DEF Relation!Rename
      <4> QED BY <3>0, <4>1 DEF Relation!Next
    <3>3. CASE <<f, x>> \in fileTags /\ x = y
      BY <2>1, <3>3
    <3> QED BY <3>1, <3>2, <3>3
  <2> QED BY <1>1, <1>7, <2>1, RenameEffect
<1>8. CASE Restart
  BY <1>8 DEF Restart, Relation!Next, Relation!Reload
<1>9. CASE UNCHANGED vars
  BY <1>9 DEF vars
<1> QED BY <1>2, <1>3, <1>4, <1>5, <1>6, <1>7, <1>8, <1>9 DEF Next, Looks

(* Through inodes that keep the structs of removed tags, and with          *)
(* handlers that hang or crash half way, the relation changes only as the  *)
(* requests of the abstract file system change it (fuse_callback.c).       *)
THEOREM LowlevelImplementsRelation == Spec => ImplementsRelation
<1>1. Init => Relation!Init
  BY DEF Init, Relation!Init
<1> QED BY <1>1, StepMaps, SpecIInv, PTL DEF Spec, ImplementsRelation, Relation!Spec

------------------------------------------------------------------------------
(* The inodes and their counts.                                            *)

Kinds == {"none", "freed", "file", "dir"}
SelectsPath(i) == {x \in Tags : i.sel[x] # "none"} = {i.path[j] : j \in 1..Len(i.path)}
InodeSound(i) == i \in Inode /\ SelectsPath(i)

Counts == [known : Nat, coming : Nat, going : Nat]
Total(k) == k.known + k.coming + k.going
AtBoot == [known |-> 1, coming |-> 0, going |-> 0]

(* The count of an inode whose every entry was counted: that of a directory*)
(* is the number of entries the kernel has or will have, that of a file    *)
(* may be higher by the opens, and what no entry names has none.           *)
CountsEntries(i, total) ==
    /\ i.kind \in {"none", "freed"} => total = 0
    /\ i.kind = "dir" => i.nlookup = total /\ total > 0
    /\ i.kind = "file" => total <= i.nlookup /\ i.nlookup <= total + W \div 2 - 1

(* One inode n: i in the table, k in the kernel, not counted if u.         *)
Accounted(n, i, k, u) ==
    /\ InodeSound(i) /\ k \in Counts
    /\ n = Root => i.kind = "dir" /\ i.path = <<>> /\ k = AtBoot
    /\ n # Root => /\ Total(k) <= MaxKnown + 1
                   /\ u \/ CountsEntries(i, Total(k))

(* The inductive invariant.                                                *)
CInv == /\ IInv
        /\ ino \in [Nums -> Inode] /\ kernel \in [Nums -> Counts]
        /\ status \in {"up", "hung", "crashed"} /\ uncounted \subseteq Nums
        /\ \A n \in Nums : Accounted(n, ino[n], kernel[n], n \in uncounted)

LEMMA Bounds ==
    /\ W \in Nat /\ W > 1 /\ MaxKnown \in Nat /\ MaxKnown > 0 /\ MaxDepth \in Nat
    /\ MaxDepth > 0 /\ W \div 2 \in Nat /\ MaxKnown + (W \div 2) <= W /\ W \div 2 > 0
<1>1. W \in Nat /\ W > 1 /\ MaxKnown \in Nat /\ MaxKnown > 0 /\ MaxDepth \in Nat
      /\ MaxDepth > 0
  BY BoundsAssumption, WidthAssumption
<1> QED BY <1>1, WidthAssumption

LEMMA ModSmall == ASSUME NEW a \in Nat, a < W PROVE a % W = a
BY Bounds

LEMMA ModRange == ASSUME NEW a \in Int PROVE a % W \in 0..(W - 1)
BY Bounds

LEMMA PathFacts ==
    ASSUME NEW s \in Paths
    PROVE  s \in Seq(Tags) /\ Len(s) \in 0..MaxDepth
<1>1. PICK n \in 0..MaxDepth : s \in [1..n -> Tags]
  BY DEF Paths
<1>2. n \in Nat
  BY Bounds
<1> QED BY <1>1, <1>2

LEMMA AppendPath ==
    ASSUME NEW s \in Paths, Len(s) < MaxDepth, NEW x \in Tags
    PROVE  /\ Append(s, x) \in Paths
           /\ {Append(s, x)[j] : j \in 1..Len(Append(s, x))}
                = {s[j] : j \in 1..Len(s)} \cup {x}
<1>1. s \in Seq(Tags) /\ Len(s) \in 0..MaxDepth
  BY PathFacts
<1>2. /\ Append(s, x) \in Seq(Tags) /\ Len(Append(s, x)) = Len(s) + 1
      /\ \A j \in 1..Len(s) : Append(s, x)[j] = s[j]
      /\ Append(s, x)[Len(s) + 1] = x
  BY <1>1
<1>3. Append(s, x) \in [1..(Len(s) + 1) -> Tags]
  <2>1. \A a \in Seq(Tags) : a \in [1..Len(a) -> Tags]
    OBVIOUS
  <2> QED BY <1>2, <2>1
<1>4. Len(s) + 1 \in 0..MaxDepth
  BY <1>1, Bounds
<1>5. Append(s, x) \in Paths
  BY <1>3, <1>4 DEF Paths
<1>6. 1..Len(Append(s, x)) = (1..Len(s)) \cup {Len(s) + 1}
  BY <1>1, <1>2
<1>7. {Append(s, x)[j] : j \in 1..Len(Append(s, x))} = {s[j] : j \in 1..Len(s)} \cup {x}
  BY <1>2, <1>6
<1> QED BY <1>5, <1>7

LEMMA BareSound ==
    ASSUME NEW k \in Kinds
    PROVE  InodeSound(Bare(k)) /\ Bare(k).kind = k /\ Bare(k).nlookup = 0
<1>1. Bare(k).path = <<>> /\ Bare(k).sel = [x \in Tags |-> "none"]
      /\ Bare(k).kind = k /\ Bare(k).nlookup = 0
  BY DEF Bare
<1>2. <<>> \in Paths
  <2>1. 0 \in 0..MaxDepth /\ <<>> \in [1..0 -> Tags]
    BY Bounds
  <2> QED BY <2>1 DEF Paths
<1>3. 0 \in 0..(W - 1)
  BY Bounds
<1>4. Bare(k) \in Inode
  BY <1>2, <1>3 DEF Bare, Inode, Selection, Kinds
<1>5. SelectsPath(Bare(k))
  <2>1. {x \in Tags : Bare(k).sel[x] # "none"} = {}
    BY <1>1
  <2>2. Len(<<>>) = 0 /\ 1..0 = {}
    OBVIOUS
  <2> QED BY <1>1, <2>1, <2>2 DEF SelectsPath
<1> QED BY <1>1, <1>4, <1>5 DEF InodeSound

(* Writing the count leaves the rest of an inode as it is.                 *)
LEMMA Recount ==
    ASSUME NEW i, InodeSound(i), NEW c \in 0..(W - 1)
    PROVE  LET r == [i EXCEPT !.nlookup = c]
           IN  InodeSound(r) /\ r.kind = i.kind /\ r.nlookup = c
<1> DEFINE r == [i EXCEPT !.nlookup = c]
<1>1. i \in Inode
  BY DEF InodeSound
<1>2. r \in Inode /\ r.kind = i.kind /\ r.path = i.path /\ r.sel = i.sel /\ r.nlookup = c
  BY <1>1 DEF Inode
<1> HIDE DEF r
<1>3. SelectsPath(r)
  BY <1>2 DEF InodeSound, SelectsPath
<1> QED BY <1>2, <1>3 DEF InodeSound, r

LEMMA CountedSound ==
    ASSUME NEW i, InodeSound(i)
    PROVE  /\ InodeSound(counted(i)) /\ counted(i).kind = i.kind
           /\ counted(i).nlookup \in Nat
           /\ i.nlookup \in Nat
           /\ i.nlookup + 1 < W => counted(i).nlookup = i.nlookup + 1
<1>1. i.nlookup \in 0..(W - 1) /\ i.nlookup + 1 \in Nat
  BY Bounds DEF InodeSound, Inode
<1>2. (i.nlookup + 1) % W \in 0..(W - 1)
  BY <1>1, ModRange
<1>3. counted(i) = [i EXCEPT !.nlookup = (i.nlookup + 1) % W]
  BY DEF counted
<1>4. /\ InodeSound(counted(i)) /\ counted(i).kind = i.kind
      /\ counted(i).nlookup = (i.nlookup + 1) % W
  BY <1>2, <1>3, Recount
<1> QED BY <1>1, <1>2, <1>4, ModSmall

(* The inode made for a tag below a directory: its path is one longer.     *)
LEMMA DirectorySound ==
    ASSUME NEW p \in Nums, InodeSound(ino[p]), NEW x \in Tags, Len(ino[p].path) < MaxDepth
    PROVE  LET r == create_directory_inode(p, x)
           IN  InodeSound(r) /\ r.kind = "dir" /\ r.nlookup = 0
<1> DEFINE r == create_directory_inode(p, x)
<1>1. ino[p] \in Inode /\ ino[p].path \in Paths
      /\ SelTags(p) = {ino[p].path[j] : j \in 1..Len(ino[p].path)}
  BY DEF InodeSound, Inode, SelectsPath, SelTags
<1>2. /\ r.kind = "dir" /\ r.path = Append(ino[p].path, x) /\ r.nlookup = 0
      /\ r.sel = [y \in Tags |-> IF y \notin SelTags(p) \cup {x} THEN "none"
                                  ELSE IF y \in tags' THEN "live" ELSE "invalid"]
      /\ r = [kind |-> r.kind, path |-> r.path, nlookup |-> r.nlookup, sel |-> r.sel]
  BY DEF create_directory_inode
<1> HIDE DEF r
<1>3. /\ r.path \in Paths
      /\ {r.path[j] : j \in 1..Len(r.path)} = SelTags(p) \cup {x}
  BY <1>1, <1>2, AppendPath
<1>4. r.sel \in [Tags -> Selection]
  BY <1>2 DEF Selection
<1>5. 0 \in 0..(W - 1)
  BY Bounds
<1>6. r \in Inode
  BY <1>2, <1>3, <1>4, <1>5 DEF Inode
<1>7. SelTags(p) \subseteq Tags
  BY DEF SelTags
<1>8. {y \in Tags : r.sel[y] # "none"} = SelTags(p) \cup {x}
  BY <1>2, <1>7
<1>9. SelectsPath(r)
  BY <1>3, <1>8 DEF SelectsPath
<1> QED BY <1>2, <1>6, <1>9 DEF InodeSound, r

(* The bound on the entries the kernel holds is one on those of each inode.*)
LEMMA RoomBounds ==
    ASSUME NEW most \in Nat, most <= MaxKnown, Room(most), NEW n \in Nums \ {Root},
           kernel[n] \in Counts
    PROVE  Entries(n) \in Nat /\ Entries(n) <= most /\ Entries(n) = Total(kernel[n])
<1>1. Entries(n) \in Nat /\ Entries(n) = Total(kernel[n])
  BY DEF Entries, Counts, Total
<1>2. SUFFICES ASSUME Entries(n) >= most + 1 PROVE FALSE
  BY <1>1
<1>3. IsFiniteSet(Outstanding) /\ Cardinality(Outstanding) \in Nat
  <2>1. IsFiniteSet(Nums \ {Root})
    BY NumsAssumption, FS_RemoveElement
  <2>2. IsFiniteSet(1..MaxKnown + 1)
    BY Bounds, FS_Interval
  <2>3. IsFiniteSet((Nums \ {Root}) \X (1..MaxKnown + 1))
    BY <2>1, <2>2, FS_Product
  <2>4. Outstanding \in SUBSET ((Nums \ {Root}) \X (1..MaxKnown + 1))
    BY DEF Outstanding
  <2> QED BY <2>3, <2>4, FS_Subset, FS_CardinalityType
<1> DEFINE f == [j \in 1..(most + 1) |-> <<n, j>>]
<1>4. f \in Injection(1..(most + 1), Outstanding)
  <2>1. \A j \in 1..(most + 1) : <<n, j>> \in Outstanding
    BY <1>1, <1>2, Bounds DEF Outstanding
  <2>2. f \in [1..(most + 1) -> Outstanding]
    BY <2>1
  <2>3. \A j, k \in 1..(most + 1) : f[j] = f[k] => j = k
    OBVIOUS
  <2> QED BY <2>2, <2>3 DEF Injection, IsInjective
<1> HIDE DEF f
<1>5. Cardinality(1..(most + 1)) <= Cardinality(Outstanding)
  BY <1>3, <1>4, FS_Injection
<1>6. Cardinality(1..(most + 1)) = most + 1
  BY FS_Interval
<1> QED BY <1>3, <1>5, <1>6 DEF Room

(* A step that concerns one inode, m.                                      *)
LEMMA OneInode ==
    ASSUME CInv, IInv', NEW m \in Nums, NEW i, NEW k,
           ino' = [ino EXCEPT ![m] = i], kernel' = [kernel EXCEPT ![m] = k],
           uncounted' \subseteq Nums, uncounted' \ {m} = uncounted \ {m},
           Accounted(m, i, k, m \in uncounted'), UNCHANGED status
    PROVE  CInv'
<1>1. i \in Inode /\ k \in Counts
  BY DEF Accounted, InodeSound
<1>2. ino' \in [Nums -> Inode] /\ kernel' \in [Nums -> Counts]
  BY <1>1 DEF CInv
<1>3. ASSUME NEW n \in Nums
      PROVE  Accounted(n, ino'[n], kernel'[n], n \in uncounted')
  <2>1. CASE n = m
    <3>1. ino'[n] = i /\ kernel'[n] = k
      BY <2>1 DEF CInv
    <3> QED BY <2>1, <3>1
  <2>2. CASE n # m
    <3>1. ino'[n] = ino[n] /\ kernel'[n] = kernel[n]
      BY <2>2 DEF CInv
    <3>2. n \in uncounted' <=> n \in uncounted
      BY <2>2
    <3>3. Accounted(n, ino[n], kernel[n], n \in uncounted)
      BY DEF CInv
    <3> QED BY <3>1, <3>2, <3>3 DEF Accounted
  <2> QED BY <2>1, <2>2
<1>4. status' \in {"up", "hung", "crashed"}
  BY DEF CInv
<1> QED BY <1>2, <1>3, <1>4 DEF CInv

(* The kernel's own steps move entries, and lose none.                     *)
LEMMA MovedEntries ==
    ASSUME CInv, IInv', NEW n \in Nums, NEW k \in Counts,
           Total(k) = Total(kernel[n]), n # Root,
           kernel' = [kernel EXCEPT ![n] = k],
           UNCHANGED <<ino, status, uncounted>>
    PROVE  CInv'
<1>1. Accounted(n, ino[n], kernel[n], n \in uncounted) /\ ino \in [Nums -> Inode]
      /\ uncounted \subseteq Nums
  BY DEF CInv
<1>2. Accounted(n, ino[n], k, n \in uncounted')
  BY <1>1 DEF Accounted
<1>3. ino' = [ino EXCEPT ![n] = ino[n]]
  BY <1>1
<1> QED BY <1>1, <1>2, <1>3, OneInode

LEMMA EntryKeeps ==
    ASSUME CInv, IInv', NEW n \in Nums, KernelEntry(n) PROVE CInv'
<1> DEFINE k == [kernel[n] EXCEPT !.coming = @ - 1, !.known = @ + 1]
<1>1. kernel \in [Nums -> Counts] /\ kernel[n] \in Counts /\ kernel[n].coming > 0
      /\ Accounted(n, ino[n], kernel[n], n \in uncounted)
  BY DEF CInv, KernelEntry
<1>2. kernel' = [kernel EXCEPT ![n] = k] /\ UNCHANGED <<ino, status, uncounted>>
  BY <1>1 DEF KernelEntry
<1>4. n # Root
  BY <1>1 DEF Accounted, AtBoot
<1>7. kernel[n].known \in Nat /\ kernel[n].coming \in Nat /\ kernel[n].going \in Nat
      /\ kernel[n].coming - 1 \in Nat /\ kernel[n].known + 1 \in Nat
  BY <1>1 DEF Counts
<1>8. k \in Counts
  BY <1>1, <1>7 DEF Counts
<1>5. k.known = kernel[n].known + 1 /\ k.coming = kernel[n].coming - 1 /\ k.going = kernel[n].going
  BY <1>1 DEF Counts
<1> HIDE DEF k
<1>3. k \in Counts /\ Total(k) = Total(kernel[n])
  BY <1>1, <1>5, <1>7, <1>8 DEF Total
<1> QED BY <1>2, <1>3, <1>4, MovedEntries

LEMMA ForgetSent ==
    ASSUME CInv, IInv', NEW n \in Nums, NEW c \in 1..MaxKnown + 1, KernelForget(n, c)
    PROVE  CInv'
<1> DEFINE k == [kernel[n] EXCEPT !.known = @ - c, !.going = @ + c]
<1>1. kernel \in [Nums -> Counts] /\ kernel[n] \in Counts /\ n # Root
      /\ c \in 1..kernel[n].known
  BY DEF CInv, KernelForget
<1>2. kernel' = [kernel EXCEPT ![n] = k] /\ UNCHANGED <<ino, status, uncounted>>
  BY <1>1 DEF KernelForget
<1>7. kernel[n].known \in Nat /\ kernel[n].coming \in Nat /\ kernel[n].going \in Nat
      /\ kernel[n].known - c \in Nat /\ kernel[n].going + c \in Nat
  BY <1>1 DEF Counts
<1>8. k \in Counts
  BY <1>1, <1>7 DEF Counts
<1>5. k.known = kernel[n].known - c /\ k.coming = kernel[n].coming /\ k.going = kernel[n].going + c
  BY <1>1 DEF Counts
<1> HIDE DEF k
<1>3. k \in Counts /\ Total(k) = Total(kernel[n])
  BY <1>1, <1>5, <1>7, <1>8 DEF Total
<1> QED BY <1>1, <1>2, <1>3, MovedEntries

(* What a forget leaves of the count: nothing below zero, nothing wrapped. *)
LEMMA ForgetKeeps ==
    ASSUME CInv, IInv', NEW n \in Nums, tag_forget(n) PROVE CInv'
<1> DEFINE k == [kernel[n] EXCEPT !.going = 0]
           g == kernel[n].going
           i == IF ino[n].kind \in {"file", "dir"} THEN forgotten(n, ino[n]) ELSE ino[n]
           left == (ino[n].nlookup - g) % W
<1>1. /\ kernel \in [Nums -> Counts] /\ kernel[n] \in Counts /\ g > 0
      /\ Accounted(n, ino[n], kernel[n], n \in uncounted) /\ uncounted \subseteq Nums
      /\ ino[n] \in Inode /\ ino \in [Nums -> Inode]
  BY DEF CInv, tag_forget
<1>2. /\ kernel' = [kernel EXCEPT ![n] = k] /\ ino' = [ino EXCEPT ![n] = i]
      /\ UNCHANGED <<status, uncounted>>
  BY <1>1 DEF tag_forget
<1>3. /\ k \in Counts /\ Total(k) \in Nat /\ Total(k) = Total(kernel[n]) - g
      /\ g \in Nat /\ g <= Total(kernel[n]) /\ Total(kernel[n]) \in Nat
  BY <1>1 DEF Counts, Total
<1>4. n # Root
  BY <1>1 DEF Accounted, AtBoot
<1>5. ino[n].nlookup \in 0..(W - 1) /\ ino[n].nlookup - g \in Int
  BY <1>1, <1>3, Bounds DEF Inode
<1>6. left \in 0..(W - 1)
  BY <1>5, ModRange
<1>7. InodeSound(ino[n])
  BY <1>1 DEF Accounted
<1>8. forgotten(n, ino[n]) = IF left = 0 THEN Bare("freed")
                                        ELSE [ino[n] EXCEPT !.nlookup = left]
  BY <1>4 DEF forgotten
<1> HIDE DEF k, left
<1>9. CASE ~(ino[n].kind \in {"file", "dir"})
  <2>1. i = ino[n]
    BY <1>9
  <2>2. ino[n].kind \in {"none", "freed"}
    BY <1>1, <1>9 DEF Inode
  <2>3. n \in uncounted
    BY <1>1, <1>3, <1>4, <2>2 DEF Accounted, CountsEntries
  <2>4. Accounted(n, i, k, n \in uncounted')
    BY <1>1, <1>2, <1>3, <1>4, <2>1, <2>3, Bounds DEF Accounted
  <2> HIDE DEF i
  <2> QED BY <1>1, <1>2, <2>4, OneInode
<1>10. CASE ino[n].kind \in {"file", "dir"}
  <2>1. i = IF left = 0 THEN Bare("freed") ELSE [ino[n] EXCEPT !.nlookup = left]
    BY <1>8, <1>10
  <2> HIDE DEF i
  <2>2. InodeSound(i)
    BY <1>6, <1>7, <2>1, BareSound, Recount DEF Kinds
  <2>3. IF left = 0 THEN i.kind = "freed" ELSE i.kind = ino[n].kind /\ i.nlookup = left
    BY <1>6, <1>7, <2>1, BareSound, Recount DEF Kinds
  <2>4. ASSUME n \notin uncounted PROVE CountsEntries(i, Total(k))
    <3>1. CountsEntries(ino[n], Total(kernel[n]))
      BY <1>1, <1>4, <2>4 DEF Accounted
    <3>2. /\ Total(kernel[n]) <= ino[n].nlookup
          /\ ino[n].kind = "dir" => ino[n].nlookup = Total(kernel[n])
          /\ ino[n].kind = "file" => ino[n].nlookup <= Total(kernel[n]) + W \div 2 - 1
      BY <1>3, <1>5, <1>10, <3>1 DEF CountsEntries
    <3>3. ino[n].nlookup - g \in Nat /\ ino[n].nlookup - g < W
      BY <1>3, <1>5, <3>2, Bounds
    <3>4. left = ino[n].nlookup - g
      BY <3>3, ModSmall DEF left
    <3>5. CASE left = 0
      BY <1>3, <1>5, <2>3, <3>2, <3>4, <3>5 DEF CountsEntries
    <3>6. CASE left # 0
      BY <1>3, <1>5, <1>10, <2>3, <3>2, <3>4, <3>6, Bounds DEF CountsEntries
    <3> QED BY <3>5, <3>6
  <2>5. Total(k) <= MaxKnown + 1
    BY <1>1, <1>3, <1>4, Bounds DEF Accounted
  <2>6. Accounted(n, i, k, n \in uncounted')
    BY <1>2, <1>3, <1>4, <2>2, <2>4, <2>5 DEF Accounted
  <2> QED BY <1>1, <1>2, <2>6, OneInode
<1> QED BY <1>9, <1>10

LEMMA ReplyFacts ==
    ASSUME NEW k \in Counts
    PROVE  LET r == [k EXCEPT !.coming = @ + 1]
           IN  r \in Counts /\ Total(r) = Total(k) + 1 /\ Total(k) \in Nat
<1>1. k.known \in Nat /\ k.coming \in Nat /\ k.going \in Nat /\ k.coming + 1 \in Nat
  BY DEF Counts
<1> DEFINE r == [k EXCEPT !.coming = @ + 1]
<1>2. r \in Counts
  BY <1>1 DEF Counts
<1>3. r.known = k.known /\ r.coming = k.coming + 1 /\ r.going = k.going
  BY DEF Counts
<1> HIDE DEF r
<1>4. Total(r) = Total(k) + 1 /\ Total(k) \in Nat
  BY <1>1, <1>3 DEF Total
<1> QED BY <1>2, <1>4 DEF r

LEMMA FreshFacts ==
    ASSUME CInv, NEW n \in Unused
    PROVE  n \in Nums /\ n # Root /\ Total(kernel[n]) = 0
BY DEF Unused, Total

(* A reply that gives out inode n as i.                                    *)
LEMMA ReplyKeeps ==
    ASSUME CInv, IInv', NEW n \in Nums \ {Root}, NEW i, InodeSound(i),
           ino' = [ino EXCEPT ![n] = i], Replies(n), UNCHANGED status,
           uncounted' \subseteq Nums, uncounted' \ {n} = uncounted \ {n},
           Total(kernel[n]) <= MaxKnown,
           n \in uncounted' \/ CountsEntries(i, Total(kernel[n]) + 1)
    PROVE  CInv'
<1> DEFINE k == [kernel[n] EXCEPT !.coming = @ + 1]
<1>1. kernel \in [Nums -> Counts] /\ kernel[n] \in Counts
  BY DEF CInv
<1>2. kernel' = [kernel EXCEPT ![n] = k]
  BY <1>1 DEF Replies
<1>3. k \in Counts /\ Total(k) = Total(kernel[n]) + 1 /\ Total(kernel[n]) \in Nat
  BY <1>1, ReplyFacts
<1> HIDE DEF k
<1>4. Accounted(n, i, k, n \in uncounted')
  BY <1>3, Bounds DEF Accounted
<1> QED BY <1>2, <1>4, OneInode

LEMMA LookupTagKeeps ==
    ASSUME CInv, IInv', NEW p \in Nums, NEW x \in Tags, tag_lookup_tag(p, x)
    PROVE  CInv'
<1> DEFINE n == Fresh
           i == counted(create_directory_inode(p, x))
<1>1. n \in Unused
  BY DEF tag_lookup_tag, Fresh
<1>2. n \in Nums \ {Root} /\ Total(kernel[n]) = 0
  BY <1>1, FreshFacts
<1>3. InodeSound(ino[p]) /\ Len(ino[p].path) < MaxDepth
  BY DEF tag_lookup_tag, CInv, Accounted
<1>4. LET r == create_directory_inode(p, x)
      IN  InodeSound(r) /\ r.kind = "dir" /\ r.nlookup = 0
  BY <1>3, DirectorySound
<1>5. InodeSound(i) /\ i.kind = "dir" /\ i.nlookup = 1
  BY <1>4, CountedSound, Bounds
<1>6. /\ ino' = [ino EXCEPT ![n] = i] /\ Replies(n) /\ UNCHANGED status
      /\ uncounted' = uncounted \ {n}
  BY DEF tag_lookup_tag
<1>7. uncounted \subseteq Nums
  BY DEF CInv
<1> HIDE DEF n, i
<1>8. CountsEntries(i, Total(kernel[n]) + 1)
  BY <1>2, <1>5 DEF CountsEntries
<1>9. uncounted' \subseteq Nums /\ uncounted' \ {n} = uncounted \ {n}
  BY <1>6, <1>7
<1>10. Total(kernel[n]) <= MaxKnown
  BY <1>2, Bounds
<1> QED BY <1>2, <1>5, <1>6, <1>8, <1>9, <1>10, ReplyKeeps

LEMMA MkdirKeeps ==
    ASSUME CInv, IInv', NEW x \in Tags, tag_mkdir(x) PROVE CInv'
<1> DEFINE n == Fresh
           i == create_directory_inode(Root, x)
<1>1. n \in Unused
  BY DEF tag_mkdir, Fresh
<1>2. n \in Nums \ {Root} /\ Total(kernel[n]) = 0
  BY <1>1, FreshFacts
<1>3. Root \in Nums /\ InodeSound(ino[Root]) /\ Len(ino[Root].path) < MaxDepth
  BY NumsAssumption, Bounds DEF CInv, Accounted
<1>4. InodeSound(i)
  BY <1>3, DirectorySound
<1>6. /\ ino' = [ino EXCEPT ![n] = i] /\ Replies(n) /\ UNCHANGED status
      /\ uncounted' = uncounted \cup {n} /\ uncounted \subseteq Nums
  BY DEF tag_mkdir, CInv
<1> HIDE DEF n, i
<1>9. uncounted' \subseteq Nums /\ uncounted' \ {n} = uncounted \ {n} /\ n \in uncounted'
  BY <1>2, <1>6
<1>10. Total(kernel[n]) <= MaxKnown
  BY <1>2, Bounds
<1> QED BY <1>2, <1>4, <1>6, <1>9, <1>10, ReplyKeeps

(* A handler that stops leaves everything else as it was.                  *)
LEMMA StopKeeps ==
    ASSUME CInv, IInv', NEW how \in {"hung", "crashed"}, Stop(how) PROVE CInv'
BY DEF Stop, CInv, Accounted, InodeSound, SelectsPath, CountsEntries, Total, AtBoot

LEMMA LookupFileKeeps ==
    ASSUME CInv, IInv', NEW p \in Nums, NEW f \in Files, tag_lookup_file(p, f)
    PROVE  CInv'
<1> DEFINE n == FileNum[f]
<1>1. CASE Crash
  BY <1>1, StopKeeps DEF Crash
<1>2. CASE ~Crash
  <2> DEFINE i == counted(ino[n])
             t == Total(kernel[n])
  <2>1. /\ ino' = [ino EXCEPT ![n] = i] /\ Replies(n)
        /\ ino[n].kind \notin {"none", "freed"} /\ Room(MaxKnown - 1)
        /\ UNCHANGED <<status, uncounted>>
    BY <1>2 DEF tag_lookup_file
  <2>2. n \in Nums \ {Root} /\ uncounted \subseteq Nums /\ ino[n] \in Inode
        /\ kernel[n] \in Counts /\ Accounted(n, ino[n], kernel[n], n \in uncounted)
    BY NumsAssumption DEF CInv
  <2>3. t \in Nat /\ t <= MaxKnown - 1
    BY <2>1, <2>2, RoomBounds, Bounds
  <2>4. InodeSound(ino[n]) /\ ino[n].kind \in {"file", "dir"}
    BY <2>1, <2>2 DEF Accounted, Inode
  <2>5. /\ InodeSound(i) /\ i.kind = ino[n].kind /\ i.nlookup \in Nat
        /\ ino[n].nlookup \in Nat
        /\ ino[n].nlookup + 1 < W => i.nlookup = ino[n].nlookup + 1
    BY <2>4, CountedSound
  <2> HIDE DEF n, i, t
  <2>6. n \in uncounted \/ CountsEntries(i, t + 1)
    <3>1. SUFFICES ASSUME n \notin uncounted PROVE CountsEntries(i, t + 1)
      OBVIOUS
    <3>2. CountsEntries(ino[n], t)
      BY <2>2, <3>1 DEF Accounted, t
    <3>3. /\ t <= ino[n].nlookup
          /\ ino[n].kind = "dir" => ino[n].nlookup = t
          /\ ino[n].nlookup <= t + W \div 2 - 1
      BY <2>3, <2>4, <2>5, <3>2, Bounds DEF CountsEntries
    <3>4. ino[n].nlookup + 1 < W
      BY <2>3, <2>5, <3>3, Bounds
    <3> QED BY <2>3, <2>4, <2>5, <3>3, <3>4, Bounds DEF CountsEntries
  <2>7. t <= MaxKnown
    BY <2>3, Bounds
  <2> QED BY <2>1, <2>2, <2>5, <2>6, <2>7, ReplyKeeps DEF t
<1> QED BY <1>1, <1>2

LEMMA MknodKeeps ==
    ASSUME CInv, IInv', NEW f \in Files, tag_mknod(f) PROVE CInv'
<1> DEFINE n == FileNum[f]
<1>1. /\ ino' = [ino EXCEPT ![n] = Bare("file")] /\ Replies(n) /\ Room(MaxKnown - 1)
      /\ uncounted' = uncounted \cup {n} /\ UNCHANGED status
  BY DEF tag_mknod
<1>2. n \in Nums \ {Root} /\ uncounted \subseteq Nums /\ kernel[n] \in Counts
  BY NumsAssumption DEF CInv
<1>3. Total(kernel[n]) <= MaxKnown
  BY <1>1, <1>2, RoomBounds, Bounds
<1>4. InodeSound(Bare("file"))
  BY BareSound DEF Kinds
<1> HIDE DEF n
<1>5. uncounted' \subseteq Nums /\ uncounted' \ {n} = uncounted \ {n} /\ n \in uncounted'
  BY <1>1, <1>2
<1> QED BY <1>1, <1>2, <1>3, <1>4, <1>5, ReplyKeeps

LEMMA LinkKeeps ==
    ASSUME CInv, IInv', NEW f \in Files, NEW p \in Nums, tag_link(f, p) PROVE CInv'
<1> DEFINE n == FileNum[f]
<1>1. CASE Crash
  BY <1>1, StopKeeps DEF Crash
<1>2. CASE ~Crash
  <2>1. /\ UNCHANGED <<ino, status>> /\ Replies(n) /\ Room(MaxKnown)
        /\ uncounted' = uncounted \cup {n}
    BY <1>2 DEF tag_link
  <2>2. n \in Nums \ {Root} /\ uncounted \subseteq Nums /\ kernel[n] \in Counts
        /\ ino \in [Nums -> Inode] /\ InodeSound(ino[n])
    BY NumsAssumption DEF CInv, Accounted
  <2>3. Total(kernel[n]) <= MaxKnown
    BY <2>1, <2>2, RoomBounds, Bounds
  <2> HIDE DEF n
  <2>4. ino' = [ino EXCEPT ![n] = ino[n]]
    BY <2>1, <2>2
  <2>5. uncounted' \subseteq Nums /\ uncounted' \ {n} = uncounted \ {n} /\ n \in uncounted'
    BY <2>1, <2>2
  <2> QED BY <2>1, <2>2, <2>3, <2>4, <2>5, ReplyKeeps
<1> QED BY <1>1, <1>2

(* An open is counted and gives nothing out.                               *)
LEMMA OpenKeeps ==
    ASSUME CInv, IInv', NEW f \in Files, tag_open(f) PROVE CInv'
<1> DEFINE n == FileNum[f]
           i == counted(ino[n])
           t == Total(kernel[n])
<1>1. /\ ino' = [ino EXCEPT ![n] = i] /\ UNCHANGED <<kernel, status, uncounted>>
      /\ kernel[n].known > 0 /\ ino[n].kind = "file" /\ ino[n].nlookup \notin TooMany
  BY DEF tag_open, Known
<1>2. n \in Nums \ {Root} /\ uncounted \subseteq Nums /\ ino[n] \in Inode
      /\ kernel \in [Nums -> Counts] /\ kernel[n] \in Counts
      /\ Accounted(n, ino[n], kernel[n], n \in uncounted)
  BY NumsAssumption DEF CInv
<1>3. t \in Nat /\ t > 0
  BY <1>1, <1>2 DEF Counts, Total
<1>4. InodeSound(ino[n]) /\ ino[n].nlookup \in 0..(W - 1)
  BY <1>2 DEF Accounted, Inode
<1>5. ino[n].nlookup < W \div 2
  BY <1>1, <1>4, Bounds DEF TooMany
<1>6. /\ InodeSound(i) /\ i.kind = "file" /\ i.nlookup = ino[n].nlookup + 1
      /\ ino[n].nlookup \in Nat
  BY <1>1, <1>4, <1>5, CountedSound, Bounds
<1>7. kernel' = [kernel EXCEPT ![n] = kernel[n]]
  BY <1>1, <1>2
<1> HIDE DEF n, i, t
<1>8. n \in uncounted \/ CountsEntries(i, t)
  <2>1. n \in uncounted \/ CountsEntries(ino[n], t)
    BY <1>2 DEF Accounted, t
  <2>2. CountsEntries(ino[n], t) => t <= ino[n].nlookup
    BY <1>1 DEF CountsEntries
  <2> QED BY <1>3, <1>5, <1>6, <2>1, <2>2, Bounds DEF CountsEntries
<1>9. Accounted(n, i, kernel[n], n \in uncounted')
  BY <1>1, <1>2, <1>6, <1>8 DEF Accounted, t
<1> QED BY <1>1, <1>2, <1>7, <1>9, OneInode

(* A step that leaves the kernel's counts alone.                           *)
LEMMA KernelAlone ==
    ASSUME CInv, IInv', UNCHANGED <<kernel, status>>, uncounted' \subseteq Nums,
           NEW is, ino' = is, is = [n \in Nums |-> is[n]],
           \A n \in Nums : Accounted(n, is[n], kernel[n], n \in uncounted')
    PROVE  CInv'
<1>1. \A n \in Nums : is[n] \in Inode
  BY DEF Accounted, InodeSound
<1>2. is \in [Nums -> Inode]
  BY <1>1
<1> QED BY <1>2 DEF CInv

(* rmdir frees the struct that the inodes of the tag keep: they still      *)
(* select it.                                                              *)
LEMMA RmdirKeeps ==
    ASSUME CInv, IInv', NEW x \in Tags, tag_rmdir(x) PROVE CInv'
<1> DEFINE i(n) == IF ino[n].sel[x] = "live" THEN [ino[n] EXCEPT !.sel[x] = "freed"]
                                             ELSE ino[n]
           is == [n \in Nums |-> i(n)]
<1>1. ino' = is /\ UNCHANGED <<kernel, status, uncounted>>
  BY DEF tag_rmdir
<1>2. ASSUME NEW n \in Nums
      PROVE  Accounted(n, i(n), kernel[n], n \in uncounted)
  <2>1. /\ Accounted(n, ino[n], kernel[n], n \in uncounted)
        /\ ino[n] \in Inode /\ SelectsPath(ino[n])
    BY DEF CInv, Accounted, InodeSound
  <2>2. CASE ino[n].sel[x] = "live"
    <3> DEFINE r == [ino[n] EXCEPT !.sel[x] = "freed"]
    <3>1. i(n) = r
      BY <2>2
    <3>2. ino[n].sel \in [Tags -> Selection]
      BY <2>1 DEF Inode
    <3>3. [ino[n].sel EXCEPT ![x] = "freed"] \in [Tags -> Selection]
      BY <3>2 DEF Selection
    <3>4. /\ r.kind = ino[n].kind /\ r.path = ino[n].path /\ r.nlookup = ino[n].nlookup
          /\ r.sel = [ino[n].sel EXCEPT ![x] = "freed"] /\ r \in Inode
      BY <2>1, <3>3 DEF Inode
    <3> HIDE DEF r
    <3>5. \A y \in Tags : r.sel[y] # "none" <=> ino[n].sel[y] # "none"
      BY <2>2, <3>2, <3>4
    <3>6. SelectsPath(r)
      BY <2>1, <3>4, <3>5 DEF SelectsPath
    <3>7. Accounted(n, r, kernel[n], n \in uncounted)
      BY <2>1, <3>4, <3>6 DEF Accounted, CountsEntries, InodeSound
    <3> QED BY <3>1, <3>7
  <2>3. CASE ino[n].sel[x] # "live"
    BY <2>1, <2>3
  <2> QED BY <2>2, <2>3
<1>3. is = [n \in Nums |-> is[n]] /\ \A n \in Nums : is[n] = i(n)
  OBVIOUS
<1>4. uncounted' \subseteq Nums
  BY <1>1 DEF CInv
<1> HIDE DEF i, is
<1>5. \A n \in Nums : Accounted(n, is[n], kernel[n], n \in uncounted')
  BY <1>1, <1>2, <1>3
<1> QED BY <1>1, <1>3, <1>4, <1>5, KernelAlone

(* readdir makes an inode for each tag it lists, and counts none of them.  *)
LEMMA ReaddirKeeps ==
    ASSUME CInv, IInv', NEW n \in Nums, tag_readdir(n) PROVE CInv'
<1>1. CASE Crash \/ Stop("hung")
  BY <1>1, StopKeeps DEF Crash
<1>2. CASE ~(Crash \/ Stop("hung"))
  <2> DEFINE R == RemainingTags(n)
             at == CHOOSE s \in Numberings(n) : TRUE
             made == {at[x] : x \in R}
             i(m) == IF m \notin made THEN ino[m]
                     ELSE create_directory_inode(n, CHOOSE x \in R : at[x] = m)
             is == [m \in Nums |-> i(m)]
  <2>1. /\ UNCHANGED <<kernel, status>> /\ Numberings(n) # {}
        /\ Len(ino[n].path) < MaxDepth \/ R = {}
        /\ ino' = is /\ uncounted' = uncounted \cup made
    BY <1>2 DEF tag_readdir
  <2>2. at \in [R -> Unused]
    BY <2>1 DEF Numberings
  <2>3. InodeSound(ino[n]) /\ R \subseteq Tags /\ uncounted \subseteq Nums
    BY DEF CInv, Accounted, RemainingTags
  <2> HIDE DEF R, at
  <2>4. ASSUME NEW m \in made
        PROVE  /\ m \in Nums /\ InodeSound(i(m))
               /\ Accounted(m, i(m), kernel[m], TRUE)
    <3>1. m \in Unused /\ \E x \in R : at[x] = m
      BY <2>2
    <3>2. (CHOOSE x \in R : at[x] = m) \in R
      BY <3>1
    <3>3. Len(ino[n].path) < MaxDepth /\ (CHOOSE x \in R : at[x] = m) \in Tags
      BY <2>1, <2>3, <3>2
    <3>4. i(m) = create_directory_inode(n, CHOOSE x \in R : at[x] = m)
      OBVIOUS
    <3>5. InodeSound(i(m))
      BY <2>3, <3>3, <3>4, DirectorySound
    <3>6. m \in Nums /\ m # Root /\ Total(kernel[m]) = 0 /\ kernel[m] \in Counts
      BY <3>1, FreshFacts DEF CInv
    <3> QED BY <3>5, <3>6, Bounds DEF Accounted
  <2>5. ASSUME NEW m \in Nums PROVE Accounted(m, i(m), kernel[m], m \in uncounted')
    <3>1. CASE m \in made
      BY <2>1, <2>4, <3>1 DEF Accounted
    <3>2. CASE m \notin made
      <4>1. i(m) = ino[m] /\ (m \in uncounted' <=> m \in uncounted)
        BY <2>1, <3>2
      <4>2. Accounted(m, ino[m], kernel[m], m \in uncounted)
        BY DEF CInv
      <4> QED BY <4>1, <4>2 DEF Accounted
    <3> QED BY <3>1, <3>2
  <2>6. uncounted' \subseteq Nums
    BY <2>1, <2>3, <2>4
  <2>7. is = [m \in Nums |-> is[m]] /\ \A m \in Nums : is[m] = i(m)
    OBVIOUS
  <2> HIDE DEF i, is, made
  <2>8. \A m \in Nums : Accounted(m, is[m], kernel[m], m \in uncounted')
    BY <2>5, <2>7
  <2> QED BY <2>1, <2>6, <2>7, <2>8, KernelAlone
<1> QED BY <1>1, <1>2

(* A daemon just started: nobody but the kernel, for the root, knows any.  *)
LEMMA BootAccounted ==
    ASSUME NEW n \in Nums, NEW i,
           i = BootIno[n] \/ (i = Bare("file") /\ n # Root)
    PROVE  Accounted(n, i, BootKernel[n], n \in {})
<1>1. /\ BootKernel[n] = [known |-> IF n = Root THEN 1 ELSE 0, coming |-> 0, going |-> 0]
      /\ BootIno[n] = [Bare(BootKind(n)) EXCEPT !.nlookup = IF n = Root THEN 1 ELSE 0]
  BY DEF BootKernel, BootIno
<1>2. BootKind(n) \in Kinds /\ (n = Root => BootKind(n) = "dir")
  BY DEF BootKind, Kinds
<1>3. n # Root => BootKind(n) # "dir"
  BY DEF BootKind
<1>4. BootKernel[n] \in Counts
  BY <1>1 DEF Counts
<1>5. n # Root => Total(BootKernel[n]) = 0
  BY <1>1 DEF Total
<1>6. n = Root => BootKernel[n] = AtBoot
  BY <1>1 DEF AtBoot
<1>7. /\ 1 \in 0..(W - 1) /\ 0 \in 0..(W - 1)
      /\ InodeSound(Bare(BootKind(n))) /\ Bare(BootKind(n)).kind = BootKind(n)
      /\ InodeSound(Bare("file")) /\ Bare("file").kind = "file" /\ Bare("file").nlookup = 0
  BY <1>2, BareSound, Bounds DEF Kinds
<1>8. /\ InodeSound(BootIno[n]) /\ BootIno[n].kind = BootKind(n)
      /\ n # Root => BootIno[n].nlookup = 0
  <2>1. CASE n = Root
    BY <1>1, <1>7, <2>1, Recount
  <2>2. CASE n # Root
    BY <1>1, <1>7, <2>2, Recount
  <2> QED BY <2>1, <2>2
<1>9. BootIno[n].path = <<>>
  BY <1>1 DEF Bare
<1>10. n # Root => CountsEntries(i, 0)
  BY <1>3, <1>7, <1>8, Bounds DEF CountsEntries
<1>11. InodeSound(i) /\ (n = Root => i.kind = "dir" /\ i.path = <<>>)
  BY <1>2, <1>7, <1>8, <1>9
<1> QED BY <1>4, <1>5, <1>6, <1>10, <1>11, Bounds DEF Accounted

LEMMA BootCInv ==
    ASSUME NEW is, is = [n \in Nums |-> is[n]],
           \A n \in Nums : is[n] = BootIno[n] \/ (is[n] = Bare("file") /\ n # Root)
    PROVE  /\ is \in [Nums -> Inode] /\ BootKernel \in [Nums -> Counts]
           /\ \A n \in Nums : Accounted(n, is[n], BootKernel[n], n \in {})
<1>1. \A n \in Nums : Accounted(n, is[n], BootKernel[n], n \in {})
  BY BootAccounted
<1>2. \A n \in Nums : is[n] \in Inode /\ BootKernel[n] \in Counts
  BY <1>1 DEF Accounted, InodeSound
<1>3. BootKernel = [n \in Nums |-> BootKernel[n]]
  BY DEF BootKernel
<1> QED BY <1>1, <1>2, <1>3

LEMMA InitCInv == Init => CInv
<1> SUFFICES ASSUME Init PROVE CInv
  OBVIOUS
<1>1. BootIno = [n \in Nums |-> BootIno[n]]
  BY DEF BootIno
<1>2. /\ BootIno \in [Nums -> Inode] /\ BootKernel \in [Nums -> Counts]
      /\ \A n \in Nums : Accounted(n, BootIno[n], BootKernel[n], n \in {})
  BY <1>1, BootCInv
<1> QED BY <1>2, InitIInv DEF Init, CInv

LEMMA RestartKeeps == ASSUME Restart, IInv' PROVE CInv'
<1> DEFINE is == [n \in Nums |->
                   IF \E f \in Later : FileNum[f] = n /\ ino[n].kind # "none"
                   THEN Bare("file") ELSE BootIno[n]]
<1>1. /\ ino' = is /\ kernel' = BootKernel /\ status' = "up" /\ uncounted' = {}
  BY DEF Restart
<1>2. is = [n \in Nums |-> is[n]]
  OBVIOUS
<1>3. \A n \in Nums : is[n] = BootIno[n] \/ (is[n] = Bare("file") /\ n # Root)
  BY NumsAssumption, FilesAssumption
<1> HIDE DEF is
<1>4. /\ is \in [Nums -> Inode] /\ BootKernel \in [Nums -> Counts]
      /\ \A n \in Nums : Accounted(n, is[n], BootKernel[n], n \in {})
  BY <1>2, <1>3, BootCInv
<1> QED BY <1>1, <1>4 DEF CInv

LEMMA TablesOnly ==
    ASSUME CInv, IInv', UNCHANGED <<ino, kernel, status, uncounted>> PROVE CInv'
BY DEF CInv, Accounted, InodeSound, SelectsPath, CountsEntries, Total, AtBoot

LEMMA NextCInv == CInv /\ [Next]_vars => CInv'
<1> SUFFICES ASSUME CInv, [Next]_vars PROVE CInv'
  OBVIOUS
<1>0. IInv'
  BY NextIInv DEF CInv
<1>1. ASSUME NEW f \in Files, NEW p \in Nums, tag_unlink(p, f) PROVE CInv'
  BY <1>0, <1>1, TablesOnly DEF tag_unlink
<1>2. ASSUME NEW f \in Files, NEW p \in Nums, NEW q \in Nums, tag_rename(p, f, q)
      PROVE  CInv'
  <2>1. CASE Crash
    BY <1>0, <2>1, StopKeeps DEF Crash
  <2>2. CASE UNCHANGED <<ino, kernel, status, uncounted>>
    BY <1>0, <2>2, TablesOnly
  <2> QED BY <1>2, <2>1, <2>2 DEF tag_rename
<1>3. CASE tag_ioctl
  BY <1>0, <1>3, StopKeeps DEF tag_ioctl, Crash
<1>4. CASE UNCHANGED vars
  BY <1>0, <1>4, TablesOnly DEF vars
<1> QED BY <1>0, <1>1, <1>2, <1>3, <1>4, EntryKeeps, ForgetSent, ForgetKeeps,
           LookupTagKeeps, LookupFileKeeps, OpenKeeps, MknodKeeps, MkdirKeeps,
           RmdirKeeps, LinkKeeps, ReaddirKeeps, RestartKeeps DEF Next

LEMMA SpecCInv == Spec => []CInv
BY InitCInv, NextCInv, PTL DEF Spec

(* Types: the kernel's counts stay in their bounds, and whatever lookups,  *)
(* listings and removals there are, a directory inode selects exactly the  *)
(* tags of the path it was looked up by (inode.c, fuse_callback.c:72).     *)
THEOREM LowlevelTypes == Spec => []TypeOK
<1>1. CInv => TypeOK
  <2> SUFFICES ASSUME CInv PROVE TypeOK
    OBVIOUS
  <2>1. ASSUME NEW n \in Nums
        PROVE  SelTags(n) = {ino[n].path[j] : j \in 1..Len(ino[n].path)}
    BY DEF CInv, Accounted, InodeSound, SelectsPath, SelTags
  <2> DEFINE B == 0..MaxKnown + 1
  <2>2. ASSUME NEW n \in Nums
        PROVE  kernel[n] \in [known : B, coming : B, going : B]
    <3>1. kernel[n] \in Counts /\ Accounted(n, ino[n], kernel[n], n \in uncounted)
      BY DEF CInv
    <3>2. /\ kernel[n].known \in Nat /\ kernel[n].coming \in Nat /\ kernel[n].going \in Nat
      BY <3>1 DEF Counts
    <3>3. Total(kernel[n]) <= MaxKnown + 1
      BY <3>1, Bounds DEF Accounted, AtBoot, Total
    <3>4. kernel[n].known \in B /\ kernel[n].coming \in B /\ kernel[n].going \in B
      BY <3>2, <3>3, Bounds DEF Total
    <3> HIDE DEF B
    <3> QED BY <3>1, <3>4 DEF Counts
  <2>3. kernel \in [Nums -> [known : B, coming : B, going : B]]
    BY <2>2 DEF CInv
  <2>4. ino \in [Nums -> Inode] /\ tags \subseteq Tags
        /\ fileTags \subseteq Files \X Tags /\ tagFiles \subseteq Files \X Tags
        /\ status \in {"up", "hung", "crashed"} /\ uncounted \subseteq Nums
    BY DEF CInv, IInv, IndexesAgree
  <2> QED BY <2>1, <2>3, <2>4 DEF TypeOK
<1> QED BY <1>1, SpecCInv, PTL

(* No inode that the kernel can name, or will once a reply has arrived, is *)
(* freed, with replies and forgets under way in any order                  *)
(* (fuse_callback.c:72,158, inode.c:40).                                   *)
THEOREM InodesOutliveEntries == Spec => []KernelInodesExist
<1>1. CInv => KernelInodesExist
  <2> SUFFICES ASSUME CInv, NEW n \in Nums \ uncounted,
                      kernel[n].known + kernel[n].coming > 0
               PROVE  ino[n].kind \in {"file", "dir"}
    BY DEF KernelInodesExist
  <2>1. /\ Accounted(n, ino[n], kernel[n], n \in uncounted) /\ ino[n] \in Inode
        /\ kernel[n] \in Counts
    BY DEF CInv
  <2>2. CASE n = Root
    BY <2>1, <2>2 DEF Accounted
  <2>3. CASE n # Root
    <3>1. CountsEntries(ino[n], Total(kernel[n]))
      BY <2>1, <2>3 DEF Accounted
    <3>2. Total(kernel[n]) # 0
      BY <2>1 DEF Counts, Total
    <3>3. ino[n].kind \notin {"none", "freed"}
      BY <3>1, <3>2 DEF CountsEntries
    <3> QED BY <2>1, <3>3 DEF Inode
  <2> QED BY <2>2, <2>3
<1> QED BY <1>1, SpecCInv, PTL

(* And no directory inode outlives the last entry: the count comes down to *)
(* zero exactly when the kernel has given all back (inode.c:40).           *)
THEOREM DirectoriesAreFreed == Spec => []NoInodeLeaks
<1>1. CInv => NoInodeLeaks
  <2> SUFFICES ASSUME CInv, NEW n \in Nums \ (uncounted \cup {Root}), ino[n].kind = "dir"
               PROVE  kernel[n].known + kernel[n].coming + kernel[n].going > 0
    BY DEF NoInodeLeaks
  <2>1. CountsEntries(ino[n], Total(kernel[n]))
    BY DEF CInv, Accounted
  <2> QED BY <2>1 DEF CountsEntries, Total
<1> QED BY <1>1, SpecCInv, PTL
==============================================================================
