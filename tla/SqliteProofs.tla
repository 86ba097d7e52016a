----------------------------- MODULE SqliteProofs -----------------------------
(***************************************************************************)
(* Theorems about SqliteTags, for any files, tags, .tags, paths and        *)
(* handles: the ids of the structs, of the rows and of the handles.        *)
(***************************************************************************)
EXTENDS SqliteTags, FiniteSetTheorems, FunctionTheorems, TLAPS

IInv == TypeOK /\ IdsSound

LEMMA IdsType == Ids \subseteq Nat /\ \A i \in 0..MaxIds : i < MaxIds => i \in Ids
BY BoundsAssumption DEF Ids

LEMMA DbTagsFinite ==
  /\ IsFiniteSet(DbTags) /\ Cardinality(DbTags) \in 0..MaxIds
  /\ DbTags \subseteq Tags
<1>1. IsFiniteSet(DbTags)
  BY NamesAssumption, DbAssumption, FS_Subset
<1>2. Cardinality(DbTags) \in Nat
  BY <1>1, FS_CardinalityType
<1> QED BY <1>1, <1>2, DbAssumption, BoundsAssumption

(* There are numbers below the number of tags for each of them.            *)
LEMMA BootIdsType ==
  /\ BootIds \in [DbTags -> 0..(Cardinality(DbTags) - 1)]
  /\ \A x, y \in DbTags : BootIds[x] = BootIds[y] => x = y
<1> DEFINE n == Cardinality(DbTags)
           Good(s) == \A x, y \in DbTags : s[x] = s[y] => x = y
<1>1. n \in Nat /\ ExistsBijection(1..n, DbTags)
  BY DbTagsFinite, FS_CardinalityType
<1>2. PICK g \in Bijection(DbTags, 1..n) : TRUE
  BY <1>1, Fun_ExistsBijSymmetric DEF ExistsBijection
<1>3. g \in [DbTags -> 1..n] /\ \A x, y \in DbTags : g[x] = g[y] => x = y
  BY <1>2 DEF Bijection, Injection, IsInjective
<1> DEFINE s == [x \in DbTags |-> g[x] - 1]
<1>4. s \in [DbTags -> 0..(n - 1)]
  BY <1>1, <1>3
<1>5. Good(s)
  BY <1>1, <1>3
<1> HIDE DEF s
<1>6. \E t \in [DbTags -> 0..(n - 1)] : Good(t)
  BY <1>4, <1>5
<1> QED BY <1>6 DEF BootIds

LEMMA BootSound ==
  ASSUME NEW t, NEW n, NEW rows, NEW tf, Boot(t, n, rows, tf)
  PROVE  /\ t \in [Tags -> Ids \cup {NoTag}] /\ n \in 0..MaxIds
         /\ rows \subseteq Ids \X Tags /\ tf \subseteq Ids \X Names
         /\ \A x \in Tags : t[x] # NoTag => t[x] < n
         /\ \A x, y \in Tags : t[x] # NoTag /\ t[x] = t[y] => x = y
         /\ \A r \in rows : r[1] < n /\ \A x \in Tags : t[x] = r[1] => x = r[2]
         /\ \A r \in tf : r[1] < n
<1> DEFINE k == Cardinality(DbTags)
<1>1. k \in 0..MaxIds /\ DbTags \subseteq Tags
  BY DbTagsFinite
<1>2. \A x \in DbTags : BootIds[x] \in 0..(k - 1)
  BY BootIdsType
<1>3. \A x \in DbTags : BootIds[x] \in Ids /\ BootIds[x] < k /\ BootIds[x] # NoTag
  BY <1>1, <1>2, BoundsAssumption, NamesAssumption DEF Ids
<1>4. \A x, y \in DbTags : BootIds[x] = BootIds[y] => x = y
  BY BootIdsType
<1> HIDE DEF k
<1>5. \A fx \in Db : fx[2] \in DbTags
  BY DEF DbTags
<1>6. n = k
  BY DEF Boot, k
<1>7. t = [x \in Tags |-> IF x \in DbTags THEN BootIds[x] ELSE NoTag]
  BY DEF Boot
<1>8. rows = {<<BootIds[x], x>> : x \in DbTags}
  BY DEF Boot
<1>9. tf = {<<BootIds[fx[2]], fx[1]>> : fx \in {gx \in Db : gx[1] \in Files}}
  BY DEF Boot
<1>10. t \in [Tags -> Ids \cup {NoTag}] /\ n \in 0..MaxIds
  BY <1>1, <1>3, <1>6, <1>7
<1>11. rows \subseteq Ids \X Tags
  BY <1>1, <1>3, <1>8
<1>12. tf \subseteq Ids \X Names /\ \A r \in tf : r[1] < n
  BY <1>3, <1>5, <1>6, <1>9 DEF Names
<1>13. \A x \in Tags : t[x] # NoTag => x \in DbTags /\ t[x] = BootIds[x]
  BY <1>7
<1>14. \A r \in rows : r[1] < n /\ \A x \in Tags : t[x] = r[1] => x = r[2]
  BY <1>1, <1>3, <1>4, <1>6, <1>8, <1>13
<1> QED BY <1>3, <1>4, <1>6, <1>10, <1>11, <1>12, <1>13, <1>14

LEMMA ClosedFds ==
  [h \in Handles |-> Closed] \in [Handles -> [open : BOOLEAN, sel : Selections]]
<1>1. <<>> \in [{} -> Ids \cup {NoTag}]
  OBVIOUS
<1>2. <<>> \in Selections
  BY <1>1 DEF Selections
<1> QED BY <1>2 DEF Closed

LEMMA InitIInv == Init => IInv
BY BootSound, ClosedFds, DirsAssumption DEF Init, IInv, TypeOK, IdsSound, tag_exist

(* A path whose structs are all in the table has an id of the table for    *)
(* each of its tags.                                                       *)
LEMMA UntouchedIds ==
  ASSUME IInv, NEW d \in Dirs, ~Touches(StructsOf(d))
  PROVE  \A x \in d : /\ x \in Tags /\ tags[x] \in Ids
                      /\ tag_exist(x) /\ tags[x] < next_id
<1>1. d \subseteq Tags
  BY DirsAssumption
<1>2. \A x \in d : tags[x] # NoTag
  BY DEF Touches, StructsOf
<1> QED BY <1>1, <1>2 DEF IInv, TypeOK, IdsSound, tag_exist

(* Rows of such ids may be added, any rows may be taken.                   *)
LEMMA RowsAdded ==
  ASSUME IInv, NEW d \in Dirs, ~Touches(StructsOf(d)), NEW f \in Names,
         NEW R \in SUBSET tag_file
  PROVE  /\ db_tag_file(R, d, f) \subseteq Ids \X Names
         /\ \A r \in db_tag_file(R, d, f) : r[1] < next_id
<1>1. \A x \in d : tags[x] \in Ids /\ tags[x] < next_id
  BY UntouchedIds
<1>2. tag_file \subseteq Ids \X Names /\ \A r \in tag_file : r[1] < next_id
  BY DEF IInv, TypeOK, IdsSound
<1> QED BY <1>1, <1>2 DEF db_tag_file

LEMMA RowsTaken ==
  ASSUME NEW d, NEW f
  PROVE  db_untag_file(tag_file, d, f) \in SUBSET tag_file
BY DEF db_untag_file

LEMMA OnlyRowsChange ==
  ASSUME IInv, UNCHANGED <<tags, next_id, tag, fds, status>>,
         dentries' \subseteq Dirs,
         tag_file' \subseteq Ids \X Names, \A r \in tag_file' : r[1] < next_id
  PROVE  IInv'
BY DEF IInv, TypeOK, IdsSound, tag_exist

LEMMA CrashIInv == IInv /\ Crash => IInv'
BY DEF Crash, IInv, TypeOK, IdsSound, tag_exist

LEMMA NextIInv == IInv /\ [Next]_vars => IInv'
<1> SUFFICES ASSUME IInv, [Next]_vars PROVE IInv'
  OBVIOUS
<1>0. /\ tag_file \subseteq Ids \X Names /\ \A r \in tag_file : r[1] < next_id
      /\ dentries \subseteq Dirs
  BY DEF IInv, TypeOK, IdsSound
<1>1. ASSUME NEW d \in Dirs, tag_getattr(d) PROVE IInv'
  BY <1>0, <1>1, OnlyRowsChange DEF tag_getattr
<1>2. ASSUME NEW d \in Dirs, KernelForgets(d) PROVE IInv'
  BY <1>0, <1>2, OnlyRowsChange DEF KernelForgets
<1>3. ASSUME NEW d \in Dirs, tag_getattr_file(d) PROVE IInv'
  BY <1>3, CrashIInv DEF tag_getattr_file
<1>4. ASSUME NEW x \in Tags, tag_mkdir(x) PROVE IInv'
  <2>1. /\ next_id \in Ids /\ next_id \in Nat /\ next_id # NoTag
        /\ next_id' = next_id + 1 /\ next_id' \in 0..MaxIds
        /\ tags' = [tags EXCEPT ![x] = next_id]
        /\ tag' \subseteq tag \cup {<<next_id, x>>}
        /\ dentries' \subseteq Dirs
        /\ UNCHANGED <<tag_file, fds, status>>
    BY <1>0, <1>4, IdsType, BoundsAssumption, NamesAssumption
       DEF tag_mkdir, next_tag_id, db_add_tag, IInv, TypeOK
  <2>2. TypeOK'
    BY <2>1 DEF IInv, TypeOK
  <2>3. \A y \in Tags : tags'[y] = IF y = x THEN next_id ELSE tags[y]
    BY <2>1 DEF IInv, TypeOK
  <2>4. /\ \A y \in Tags : tags[y] # NoTag => tags[y] \in Nat /\ tags[y] < next_id
        /\ \A r \in tag \cup tag_file : r[1] \in Nat /\ r[1] < next_id
    BY IdsType DEF IInv, TypeOK, IdsSound, tag_exist
  <2>5. \A y \in Tags : tags'[y] # NoTag => tags'[y] < next_id'
    BY <2>1, <2>3, <2>4
  <2>6. \A y, z \in Tags : tags'[y] # NoTag /\ tags'[y] = tags'[z] => y = z
    BY <2>1, <2>3, <2>4 DEF IInv, IdsSound, tag_exist
  <2>7. \A r \in tag' : r[1] < next_id' /\ \A y \in Tags : tags'[y] = r[1] => y = r[2]
    <3>1. ASSUME NEW r \in tag
          PROVE  r[1] < next_id' /\ \A y \in Tags : tags'[y] = r[1] => y = r[2]
      BY <2>1, <2>3, <2>4 DEF IInv, IdsSound
    <3>2. \A y \in Tags : tags'[y] = next_id => y = x
      BY <2>1, <2>3, <2>4
    <3> QED BY <2>1, <3>1, <3>2
  <2>8. \A r \in tag_file' : r[1] < next_id'
    BY <2>1, <2>4
  <2> QED BY <2>2, <2>5, <2>6, <2>7, <2>8 DEF IInv, IdsSound, tag_exist
<1>5. ASSUME NEW x \in Tags, tag_rmdir(x) PROVE IInv'
  <2>1. /\ tags' = [tags EXCEPT ![x] = NoTag] /\ dentries' \subseteq dentries
        /\ UNCHANGED <<next_id, tag, tag_file, fds, status>>
    BY <1>5 DEF tag_rmdir, tag_remove
  <2>2. TypeOK'
    BY <2>1 DEF IInv, TypeOK
  <2>3. \A y \in Tags : tags'[y] = IF y = x THEN NoTag ELSE tags[y]
    BY <2>1 DEF IInv, TypeOK
  <2>4. \A r \in tag : r[1] # NoTag
    BY NamesAssumption DEF IInv, TypeOK
  <2>5. \A r \in tag : \A y \in Tags : tags'[y] = r[1] => y = r[2]
    BY <2>3, <2>4 DEF IInv, IdsSound
  <2> QED BY <2>1, <2>2, <2>3, <2>5 DEF IInv, IdsSound, tag_exist
<1>6. ASSUME NEW d \in Dirs, NEW f \in Files, tag_unlink(d, f) PROVE IInv'
  <2>1. CASE Touches(StructsOf(d))
    BY <1>6, <2>1, CrashIInv DEF tag_unlink
  <2>2. CASE ~Touches(StructsOf(d))
    BY <1>0, <1>6, <2>2, RowsTaken, OnlyRowsChange DEF tag_unlink
  <2> QED BY <2>1, <2>2
<1>7. ASSUME NEW d \in Dirs, NEW e \in Dirs, NEW f \in Files, tag_link(d, f, e)
      PROVE  IInv'
  <2>1. CASE Touches(StructsOf(d)) \/ Touches(StructsOf(e))
    BY <1>7, <2>1, CrashIInv DEF tag_link
  <2>2. CASE ~Touches(StructsOf(d)) /\ ~Touches(StructsOf(e))
    <3>1. /\ tag_file' = db_tag_file(tag_file, e, f)
          /\ UNCHANGED <<tags, next_id, tag, fds, dentries, status>>
      BY <1>7, <2>2 DEF tag_link
    <3>2. /\ db_tag_file(tag_file, e, f) \subseteq Ids \X Names
          /\ \A r \in db_tag_file(tag_file, e, f) : r[1] < next_id
      BY <2>2, RowsAdded DEF Names
    <3> QED BY <1>0, <3>1, <3>2, OnlyRowsChange
  <2> QED BY <2>1, <2>2
<1>8. ASSUME NEW d \in Dirs, NEW e \in Dirs, NEW f \in Names, tag_rename(d, f, e)
      PROVE  IInv'
  <2>1. CASE Touches(StructsOf(d)) \/ Touches(StructsOf(e))
    BY <1>8, <2>1, CrashIInv DEF tag_rename
  <2>2. CASE ~(Touches(StructsOf(d)) \/ Touches(StructsOf(e)))
    <3>1. /\ tag_file' = Renamed(d, f, e)
          /\ dentries' \subseteq Dirs
          /\ UNCHANGED <<tags, next_id, tag, fds, status>>
      BY <1>0, <1>8, <2>2 DEF tag_rename
    <3>2. /\ Renamed(d, f, e) \subseteq Ids \X Names
          /\ \A r \in Renamed(d, f, e) : r[1] < next_id
      BY <1>0, <2>2, RowsTaken, RowsAdded DEF Renamed
    <3> QED BY <3>1, <3>2, OnlyRowsChange
  <2> QED BY <2>1, <2>2
<1>9. ASSUME NEW h \in Handles, NEW d \in Dirs, tag_open_dir(h, d) PROVE IInv'
  <2>1. StructsOf(d) \in [d -> Ids \cup {NoTag}] /\ d \in SUBSET Tags
    BY DirsAssumption DEF StructsOf, IInv, TypeOK
  <2>2. StructsOf(d) \in Selections
    BY <2>1 DEF Selections
  <2>3. fds' \in [Handles -> [open : BOOLEAN, sel : Selections]]
    BY <1>9, <2>2 DEF tag_open_dir, IInv, TypeOK
  <2> QED BY <1>9, <2>3 DEF tag_open_dir, IInv, TypeOK, IdsSound, tag_exist
<1>10. ASSUME NEW h \in Handles, tag_release_generic(h) PROVE IInv'
  <2>1. fds' \in [Handles -> [open : BOOLEAN, sel : Selections]]
    BY <1>10, ClosedFds DEF tag_release_generic, IInv, TypeOK
  <2> QED BY <1>10, <2>1 DEF tag_release_generic, IInv, TypeOK, IdsSound, tag_exist
<1>11. ASSUME NEW h \in Handles, tag_readdir(h) PROVE IInv'
  BY <1>11, CrashIInv DEF tag_readdir
<1>12. CASE Restart
  BY <1>12, BootSound, ClosedFds, DirsAssumption
     DEF Restart, IInv, TypeOK, IdsSound, tag_exist
<1>13. CASE UNCHANGED vars
  BY <1>13 DEF vars, IInv, TypeOK, IdsSound, tag_exist
<1> QED BY <1>1, <1>2, <1>3, <1>4, <1>5, <1>6, <1>7, <1>8, <1>9, <1>10, <1>11,
           <1>12, <1>13 DEF Next

LEMMA SpecIInv == Spec => []IInv
BY InitIInv, NextIInv, PTL DEF Spec

(* No id is given twice, and no row speaks of another tag than the one it  *)
(* was made for, whatever tags are removed and made again while their rows *)
(* stay (fuse_sqlite3/tag.c:15-19,61-65).                                  *)
THEOREM IdsNeverReused == Spec => []IdsSound
BY SpecIInv, PTL DEF IInv

(* The rows that db_file_match_tags counts for a file correspond one to    *)
(* one to the tags of the path that the file has.                          *)
LEMMA RowsCountTags ==
  ASSUME IInv, NEW d \in Dirs, NEW f \in Files, Looks_up(d)
  PROVE  LET S == {r \in tag_file : r[2] = f /\ \E x \in d : tags[x] = r[1]}
             T == {x \in d : <<tags[x], f>> \in tag_file}
         IN  IsFiniteSet(d) /\ Cardinality(S) = Cardinality(T)
<1> DEFINE S == {r \in tag_file : r[2] = f /\ \E x \in d : tags[x] = r[1]}
           T == {x \in d : <<tags[x], f>> \in tag_file}
           g == [x \in T |-> <<tags[x], f>>]
<1>1. d \subseteq Tags /\ IsFiniteSet(d)
  BY DirsAssumption, NamesAssumption, FS_Subset
<1>2. IsFiniteSet(T)
  BY <1>1, FS_Subset
<1>3. tag_file \subseteq Ids \X Names
  BY DEF IInv, TypeOK
<1>4. g \in [T -> S]
  OBVIOUS
<1>5. \A x, y \in T : g[x] = g[y] => x = y
  <2>1. \A x \in d : tags[x] # NoTag
    BY DEF Looks_up, tag_exist
  <2>2. \A x, y \in Tags : tags[x] # NoTag /\ tags[x] = tags[y] => x = y
    BY DEF IInv, IdsSound, tag_exist
  <2> QED BY <1>1, <2>1, <2>2
<1>6. \A r \in S : \E x \in T : g[x] = r
  <2> SUFFICES ASSUME NEW r \in S PROVE \E x \in T : g[x] = r
    OBVIOUS
  <2>1. PICK x \in d : tags[x] = r[1]
    OBVIOUS
  <2>2. r = <<tags[x], f>>
    BY <1>3, <2>1
  <2>3. x \in T
    BY <2>1, <2>2
  <2> QED BY <2>2, <2>3
<1> HIDE DEF S, T, g
<1>7. g \in Bijection(T, S)
  BY <1>4, <1>5, <1>6 DEF Bijection, Injection, Surjection, IsInjective
<1>8. Cardinality(S) = Cardinality(T)
  BY <1>2, <1>7, FS_Bijection DEF ExistsBijection
<1> QED BY <1>1, <1>8 DEF S, T

LEMMA CountSound == IInv => CountIsConjunction
<1> SUFFICES ASSUME IInv, NEW d \in Dirs, NEW f \in Files, Looks_up(d)
             PROVE  file_matches_tags(f, StructsOf(d)) <=> {f} \X d \subseteq rel
  BY DEF CountIsConjunction
<1> DEFINE S == {r \in tag_file : r[2] = f /\ \E x \in d : tags[x] = r[1]}
           T == {x \in d : <<tags[x], f>> \in tag_file}
<1>1. IsFiniteSet(d) /\ Cardinality(S) = Cardinality(T)
  BY RowsCountTags
<1>2. DOMAIN StructsOf(d) = d /\ \A x \in d : StructsOf(d)[x] = tags[x]
  BY DEF StructsOf
<1>3. {r \in tag_file : r[2] = f /\ \E x \in DOMAIN StructsOf(d) : StructsOf(d)[x] = r[1]} = S
  BY <1>2
<1>4. file_matches_tags(f, StructsOf(d)) <=> Cardinality(S) = Cardinality(d)
  BY <1>2, <1>3 DEF file_matches_tags
<1>5. T \in SUBSET d
  OBVIOUS
<1>6. Cardinality(T) = Cardinality(d) <=> T = d
  BY <1>1, <1>5, FS_Subset
<1>7. T = d <=> {f} \X d \subseteq rel
  <2>1. d \subseteq Tags /\ \A x \in d : tag_exist(x)
    BY DirsAssumption DEF Looks_up
  <2>2. \A x \in d : <<f, x>> \in rel <=> <<tags[x], f>> \in tag_file
    BY <2>1 DEF rel
  <2>3. {f} \X d \subseteq rel <=> \A x \in d : <<f, x>> \in rel
    OBVIOUS
  <2>4. T = d <=> \A x \in d : <<tags[x], f>> \in tag_file
    OBVIOUS
  <2> QED BY <2>2, <2>3, <2>4
<1> QED BY <1>1, <1>4, <1>6, <1>7

(* Counting rows over a list of ids (fuse_sqlite3/db.c:190-219) tells for  *)
(* any number of tags and files whether a file has them all: no row of a   *)
(* removed tag is counted, none is counted twice.                          *)
THEOREM CountDecidesMembership == Spec => []CountIsConjunction
BY SpecIInv, CountSound, PTL

------------------------------------------------------------------------------
(* The rows, through the structs of now, implement the relation.           *)
RelOf(t, rows) == {fx \in Files \X Tags : t[fx[2]] # NoTag /\ <<t[fx[2]], fx[1]>> \in rows}

LEMMA RelHas ==
  ASSUME NEW t, NEW rows
  PROVE  \A f \in Files, x \in Tags :
            <<f, x>> \in RelOf(t, rows) <=> t[x] # NoTag /\ <<t[x], f>> \in rows
BY DEF RelOf

LEMMA RelIs == rel = RelOf(tags, tag_file) /\ rel' = RelOf(tags', tag_file')
BY DEF rel, RelOf, tag_exist

(* Two relations are the same when they have the same pairs.               *)
LEMMA SameRel ==
  ASSUME NEW t, NEW rows, NEW R \in SUBSET (Files \X Tags),
         \A f \in Files, x \in Tags :
            <<f, x>> \in R <=> t[x] # NoTag /\ <<t[x], f>> \in rows
  PROVE  RelOf(t, rows) = R
BY DEF RelOf

LEMMA BootRel ==
  ASSUME NEW t, NEW n, NEW rows, NEW tf, Boot(t, n, rows, tf)
  PROVE  RelOf(t, tf) = Db \cap (Files \X Tags)
<1>1. \A x \in DbTags : BootIds[x] # NoTag
  BY BootIdsType, DbTagsFinite, BoundsAssumption, NamesAssumption DEF Ids
<1>2. \A x, y \in DbTags : BootIds[x] = BootIds[y] => x = y
  BY BootIdsType
<1>3. t = [x \in Tags |-> IF x \in DbTags THEN BootIds[x] ELSE NoTag]
  BY DEF Boot
<1>4. tf = {<<BootIds[fx[2]], fx[1]>> : fx \in {gx \in Db : gx[1] \in Files}}
  BY DEF Boot
<1>5. \A fx \in Db : fx[2] \in DbTags
  BY DEF DbTags
<1> DEFINE R == Db \cap (Files \X Tags)
<1>6. ASSUME NEW f \in Files, NEW x \in Tags, <<f, x>> \in Db
      PROVE  t[x] # NoTag /\ <<t[x], f>> \in tf
  <2>1. x \in DbTags
    BY <1>5, <1>6
  <2> QED BY <1>1, <1>3, <1>4, <1>6, <2>1
<1>7. ASSUME NEW f \in Files, NEW x \in Tags, t[x] # NoTag, <<t[x], f>> \in tf
      PROVE  <<f, x>> \in Db
  <2>1. x \in DbTags /\ t[x] = BootIds[x]
    BY <1>3, <1>7
  <2>2. \A r \in tf : \E fx \in Db : r = <<BootIds[fx[2]], fx[1]>>
    BY <1>4
  <2>3. PICK fx \in Db : <<t[x], f>> = <<BootIds[fx[2]], fx[1]>>
    BY <1>7, <2>2
  <2>4. fx[1] = f /\ fx[2] = x
    BY <1>2, <1>5, <2>1, <2>3
  <2>5. fx = <<fx[1], fx[2]>>
    BY DbAssumption
  <2> QED BY <2>4, <2>5
<1>8. \A f \in Files, x \in Tags : <<f, x>> \in R <=> <<f, x>> \in Db
  OBVIOUS
<1>9. R \in SUBSET (Files \X Tags)
  OBVIOUS
<1> HIDE DEF R
<1>10. RelOf(t, tf) = R
  BY <1>6, <1>7, <1>8, <1>9, SameRel
<1> QED BY <1>10 DEF R

(* What adding and taking rows of a path does to the relation.             *)
LEMMA TaggedRel ==
  ASSUME IInv, NEW d \in Dirs, ~Touches(StructsOf(d)), NEW f \in Files
  PROVE  RelOf(tags, db_tag_file(tag_file, d, f)) = rel \cup ({f} \X d)
<1>1. d \subseteq Tags /\ \A x \in d : tags[x] # NoTag
  BY UntouchedIds, DirsAssumption DEF tag_exist
<1>2. \A x, y \in Tags : tags[x] # NoTag /\ tags[x] = tags[y] => x = y
  BY DEF IInv, IdsSound, tag_exist
<1> DEFINE R == rel \cup ({f} \X d)
<1>3. R \in SUBSET (Files \X Tags)
  BY <1>1 DEF rel
<1>4. ASSUME NEW g \in Files, NEW x \in Tags
      PROVE  <<g, x>> \in R
                <=> tags[x] # NoTag /\ <<tags[x], g>> \in db_tag_file(tag_file, d, f)
  <2>1. <<g, x>> \in rel <=> tags[x] # NoTag /\ <<tags[x], g>> \in tag_file
    BY RelIs, RelHas
  <2>2. <<g, x>> \in {f} \X d <=> g = f /\ x \in d
    OBVIOUS
  <2>3. <<tags[x], g>> \in db_tag_file(tag_file, d, f)
           <=> <<tags[x], g>> \in tag_file \/ (g = f /\ \E y \in d : tags[x] = tags[y])
    BY DEF db_tag_file
  <2>4. tags[x] # NoTag => ((\E y \in d : tags[x] = tags[y]) <=> x \in d)
    BY <1>1, <1>2
  <2> QED BY <1>1, <2>1, <2>2, <2>3, <2>4
<1> HIDE DEF R
<1>5. RelOf(tags, db_tag_file(tag_file, d, f)) = R
  BY <1>3, <1>4, SameRel
<1> QED BY <1>5 DEF R

LEMMA UntaggedRel ==
  ASSUME IInv, NEW d \in Dirs, NEW f \in Files
  PROVE  RelOf(tags, db_untag_file(tag_file, d, f)) = rel \ ({f} \X d)
<1>1. d \subseteq Tags
  BY DirsAssumption
<1>2. \A x, y \in Tags : tags[x] # NoTag /\ tags[x] = tags[y] => x = y
  BY DEF IInv, IdsSound, tag_exist
<1> DEFINE R == rel \ ({f} \X d)
<1>3. R \in SUBSET (Files \X Tags)
  BY DEF rel
<1>4. ASSUME NEW g \in Files, NEW x \in Tags
      PROVE  <<g, x>> \in R
                <=> tags[x] # NoTag /\ <<tags[x], g>> \in db_untag_file(tag_file, d, f)
  <2>1. <<g, x>> \in rel <=> tags[x] # NoTag /\ <<tags[x], g>> \in tag_file
    BY RelIs, RelHas
  <2>2. <<g, x>> \in {f} \X d <=> g = f /\ x \in d
    OBVIOUS
  <2>3. <<tags[x], g>> \in db_untag_file(tag_file, d, f)
           <=> <<tags[x], g>> \in tag_file /\ ~(g = f /\ \E y \in d : tags[x] = tags[y])
    BY DEF db_untag_file
  <2>4. tags[x] # NoTag => ((\E y \in d : tags[x] = tags[y]) <=> x \in d)
    BY <1>1, <1>2
  <2> QED BY <2>1, <2>2, <2>3, <2>4
<1> HIDE DEF R
<1>5. RelOf(tags, db_untag_file(tag_file, d, f)) = R
  BY <1>3, <1>4, SameRel
<1> QED BY <1>5 DEF R

(* Names of directories have rows too, which are not in the relation.      *)
LEMMA OtherNamesRel ==
  ASSUME NEW d, NEW e, NEW f \in Names \ Files
  PROVE  RelOf(tags, Renamed(d, f, e)) = rel
<1>1. rel \in SUBSET (Files \X Tags)
  BY DEF rel
<1> SUFFICES ASSUME NEW g \in Files, NEW x \in Tags
             PROVE  <<g, x>> \in rel
                      <=> tags[x] # NoTag /\ <<tags[x], g>> \in Renamed(d, f, e)
  BY <1>1, SameRel
<1>2. <<g, x>> \in rel <=> tags[x] # NoTag /\ <<tags[x], g>> \in tag_file
  BY RelIs, RelHas
<1>3. g # f
  OBVIOUS
<1>4. <<tags[x], g>> \in Renamed(d, f, e) <=> <<tags[x], g>> \in tag_file
  BY <1>3 DEF Renamed, db_tag_file, db_untag_file
<1> QED BY <1>2, <1>4

LEMMA InitMaps == Init => Relation!Init
BY BootRel, RelIs DEF Init, Relation!Init

LEMMA StepMaps == IInv /\ [Next]_vars => [Relation!Next]_rel
<1> SUFFICES ASSUME IInv, [Next]_vars PROVE Relation!Next \/ UNCHANGED rel
  OBVIOUS
<1>0. ASSUME UNCHANGED <<tags, tag_file>> PROVE UNCHANGED rel
  BY <1>0, RelIs
<1>1. ASSUME NEW d \in Dirs, tag_getattr(d) \/ KernelForgets(d) \/ tag_getattr_file(d)
      PROVE  UNCHANGED rel
  BY <1>0, <1>1 DEF tag_getattr, KernelForgets, tag_getattr_file, Crash
<1>2. ASSUME NEW x \in Tags, tag_mkdir(x) PROVE UNCHANGED rel
  <2>1. /\ \A y \in Tags : tags'[y] = IF y = x THEN next_id ELSE tags[y]
        /\ tags[x] = NoTag /\ tag_file' = tag_file
    BY <1>2 DEF tag_mkdir, next_tag_id, tag_exist, IInv, TypeOK
  <2>2. \A f \in Files : <<next_id, f>> \notin tag_file
    BY IdsType DEF IInv, TypeOK, IdsSound
  <2>3. rel \in SUBSET (Files \X Tags)
    BY DEF rel
  <2>4. \A f \in Files, y \in Tags :
            <<f, y>> \in rel <=> tags'[y] # NoTag /\ <<tags'[y], f>> \in tag_file'
    BY <2>1, <2>2, RelIs, RelHas
  <2> DEFINE R == rel
  <2> HIDE DEF R
  <2>5. RelOf(tags', tag_file') = rel
    <3>1. R \in SUBSET (Files \X Tags)
      BY <2>3 DEF R
    <3>2. \A f \in Files, y \in Tags :
            <<f, y>> \in R <=> tags'[y] # NoTag /\ <<tags'[y], f>> \in tag_file'
      BY <2>4 DEF R
    <3>3. RelOf(tags', tag_file') = R
      BY <3>1, <3>2, SameRel
    <3> QED BY <3>3 DEF R
  <2> QED BY <2>5, RelIs
<1>3. ASSUME NEW x \in Tags, tag_rmdir(x) PROVE Relation!RemoveTag(x)
  <2>1. /\ \A y \in Tags : tags'[y] = IF y = x THEN NoTag ELSE tags[y]
        /\ tag_file' = tag_file
    BY <1>3 DEF tag_rmdir, tag_remove, IInv, TypeOK
  <2> DEFINE R == rel \ (Files \X {x})
  <2>2. R \in SUBSET (Files \X Tags)
    BY DEF rel
  <2>3. \A f \in Files, y \in Tags : <<f, y>> \in R <=> <<f, y>> \in rel /\ y # x
    OBVIOUS
  <2>4. \A f \in Files, y \in Tags :
            <<f, y>> \in rel <=> tags[y] # NoTag /\ <<tags[y], f>> \in tag_file
    BY RelIs, RelHas
  <2> HIDE DEF R
  <2>5. \A f \in Files, y \in Tags :
            <<f, y>> \in R <=> tags'[y] # NoTag /\ <<tags'[y], f>> \in tag_file'
    BY <2>1, <2>3, <2>4
  <2>6. RelOf(tags', tag_file') = R
    BY <2>2, <2>5, SameRel
  <2> QED BY <2>6, RelIs DEF Relation!RemoveTag, R
<1>4. ASSUME NEW d \in Dirs, NEW f \in Files, tag_unlink(d, f)
      PROVE  Relation!Unlink(f, d) \/ UNCHANGED rel
  BY <1>0, <1>4, UntaggedRel, RelIs DEF tag_unlink, Crash, Relation!Unlink
<1>5. ASSUME NEW d \in Dirs, NEW e \in Dirs, NEW f \in Files, tag_link(d, f, e)
      PROVE  Relation!Link(f, e) \/ UNCHANGED rel
  BY <1>0, <1>5, TaggedRel, RelIs DEF tag_link, Crash, Relation!Link
<1>6. ASSUME NEW d \in Dirs, NEW e \in Dirs, NEW f \in Names, tag_rename(d, f, e)
      PROVE  Relation!Next \/ UNCHANGED rel
  <2>1. CASE Touches(StructsOf(d)) \/ Touches(StructsOf(e))
    BY <1>0, <1>6, <2>1 DEF tag_rename, Crash
  <2>2. CASE ~(Touches(StructsOf(d)) \/ Touches(StructsOf(e)))
    <3>1. tags' = tags /\ tag_file' = Renamed(d, f, e)
      BY <1>6, <2>2 DEF tag_rename
    <3>2. CASE f \in Files
      <4>1. Relation!Unlink(f, d)
        BY <3>1, <3>2, UntaggedRel, RelIs DEF Renamed, Relation!Unlink
      <4>2. d \in SUBSET Tags
        BY DirsAssumption
      <4> QED BY <3>2, <4>1, <4>2 DEF Relation!Next
    <3>3. CASE f \notin Files
      BY <3>1, <3>3, OtherNamesRel, RelIs
    <3> QED BY <3>2, <3>3
  <2> QED BY <2>1, <2>2
<1>7. ASSUME NEW h \in Handles, NEW d \in Dirs, tag_open_dir(h, d) PROVE UNCHANGED rel
  BY <1>0, <1>7 DEF tag_open_dir
<1>8. ASSUME NEW h \in Handles, tag_release_generic(h) \/ tag_readdir(h)
      PROVE  UNCHANGED rel
  BY <1>0, <1>8 DEF tag_release_generic, tag_readdir, Crash
<1>9. CASE Restart
  BY <1>9, BootRel, RelIs DEF Restart, Relation!Next, Relation!Reload
<1>10. CASE UNCHANGED vars
  BY <1>0, <1>10 DEF vars
<1>11. \A d \in Dirs : d \in SUBSET Tags
  BY DirsAssumption
<1> QED
  BY <1>1, <1>2, <1>3, <1>4, <1>5, <1>6, <1>7, <1>8, <1>9, <1>10, <1>11
     DEF Next, Relation!Next

(* The rows read through the structs of now are the relation of the tag    *)
(* file system, although those of removed tags stay: a tag made again has  *)
(* none of the files it once had.  A rename of a file maps to an unlink:   *)
(* the link it should do is lost (fuse_sqlite3/tagfs.c:377-395).           *)
THEOREM SqliteImplementsRelation == Spec => ImplementsRelation
BY InitMaps, StepMaps, SpecIInv, PTL DEF Spec, ImplementsRelation, Relation!Spec

(* The types of the state hold with the invariant: ids are of structs that *)
(* were made, rows name them, handles and cached paths are of tag names    *)
(* (fuse_sqlite3/tag.c, db.c, path.c).                                     *)
THEOREM SqliteTypes == Spec => []TypeOK
<1>1. IInv => TypeOK
  BY DEF IInv
<1> QED BY <1>1, SpecIInv, PTL

------------------------------------------------------------------------------
(* Whether its row was inserted or refused, the name of a tag is in a row. *)
NamesListed == \A x \in Tags : tag_exist(x) => x \in db_list_all_tags

LEMMA BootNames ==
  ASSUME NEW t, NEW n, NEW rows, NEW tf, Boot(t, n, rows, tf)
  PROVE  \A x \in Tags : t[x] # NoTag => \E r \in rows : r[2] = x
<1>1. t = [x \in Tags |-> IF x \in DbTags THEN BootIds[x] ELSE NoTag]
      /\ rows = {<<BootIds[x], x>> : x \in DbTags}
  BY DEF Boot
<1>2. ASSUME NEW x \in Tags, t[x] # NoTag PROVE \E r \in rows : r[2] = x
  <2>1. x \in DbTags
    BY <1>1, <1>2
  <2>2. <<BootIds[x], x>> \in rows
    BY <1>1, <2>1
  <2> QED BY <2>2
<1> QED BY <1>2

LEMMA InitNames == Init => NamesListed
BY BootNames DEF Init, NamesListed, tag_exist, db_list_all_tags

LEMMA NextNames == IInv /\ NamesListed /\ [Next]_vars => NamesListed'
<1> SUFFICES ASSUME IInv, NamesListed, [Next]_vars PROVE NamesListed'
  OBVIOUS
<1>0. ASSUME UNCHANGED <<tags, tag>> PROVE NamesListed'
  BY <1>0 DEF NamesListed, tag_exist, db_list_all_tags
<1>1. ASSUME NEW x \in Tags, tag_mkdir(x) PROVE NamesListed'
  <2>1. /\ \A y \in Tags \ {x} : tags'[y] = tags[y]
        /\ tag' = IF \E r \in tag : r[1] = next_id \/ r[2] = x THEN tag
                  ELSE tag \cup {<<next_id, x>>}
    BY <1>1 DEF tag_mkdir, next_tag_id, db_add_tag, IInv, TypeOK
  <2>2. \A r \in tag : r[1] # next_id
    BY IdsType DEF IInv, TypeOK, IdsSound
  <2>3. \E r \in tag' : r[2] = x
    <3>1. CASE \E r \in tag : r[2] = x
      BY <2>1, <3>1
    <3>2. CASE ~\E r \in tag : r[2] = x
      <4>1. <<next_id, x>> \in tag'
        BY <2>1, <2>2, <3>2
      <4> QED BY <4>1
    <3> QED BY <3>1, <3>2
  <2>4. tag \subseteq tag'
    BY <2>1
  <2> QED BY <2>1, <2>3, <2>4 DEF NamesListed, tag_exist, db_list_all_tags
<1>2. ASSUME NEW x \in Tags, tag_rmdir(x) PROVE NamesListed'
  BY <1>2 DEF tag_rmdir, tag_remove, NamesListed, tag_exist, db_list_all_tags, IInv, TypeOK
<1>3. CASE Restart
  BY <1>3, BootNames DEF Restart, NamesListed, tag_exist, db_list_all_tags
<1>4. CASE UNCHANGED vars
  BY <1>0, <1>4 DEF vars
<1>5. ASSUME NEW d \in Dirs, tag_getattr(d) \/ KernelForgets(d) \/ tag_getattr_file(d)
      PROVE  NamesListed'
  BY <1>0, <1>5 DEF tag_getattr, KernelForgets, tag_getattr_file, Crash
<1>6. ASSUME NEW d \in Dirs, NEW f \in Files, tag_unlink(d, f) PROVE NamesListed'
  BY <1>0, <1>6 DEF tag_unlink, Crash
<1>7. ASSUME NEW d \in Dirs, NEW e \in Dirs, NEW f \in Files, tag_link(d, f, e)
      PROVE  NamesListed'
  BY <1>0, <1>7 DEF tag_link, Crash
<1>8. ASSUME NEW d \in Dirs, NEW e \in Dirs, NEW f \in Names, tag_rename(d, f, e)
      PROVE  NamesListed'
  BY <1>0, <1>8 DEF tag_rename, Crash
<1>9. ASSUME NEW h \in Handles, NEW d \in Dirs, tag_open_dir(h, d) PROVE NamesListed'
  BY <1>0, <1>9 DEF tag_open_dir
<1>10. ASSUME NEW h \in Handles, tag_release_generic(h) \/ tag_readdir(h)
       PROVE  NamesListed'
  BY <1>0, <1>10 DEF tag_release_generic, tag_readdir, Crash
<1> QED BY <1>1, <1>2, <1>3, <1>4, <1>5, <1>6, <1>7, <1>8, <1>9, <1>10 DEF Next

(* Each step of the chain of selects of db.c finds what it looks for.      *)
LEMMA ListingsSound == NamesListed => ListingsCover
<1> SUFFICES ASSUME FirstLife, NEW d \in Dirs, NEW f \in Files, d # {}, Quotable(d),
                    {f} \X d \subseteq rel, NEW x \in Tags \ d, <<f, x>> \in rel
             PROVE  x \in db_list_remaining_tags(d)
  BY DEF NamesListed, ListingsCover
<1> DEFINE ids == {r[1] : r \in {q \in tag : q[2] \in d}}
           fs  == {r[2] : r \in {q \in tag_file : q[1] \in ids}}
           all == {r[1] : r \in {q \in tag_file : q[2] \in fs}}
<1>0. tag_list_string(d) = d /\ Prepares(d)
  <2>1. d \subseteq Tags
    BY DirsAssumption
  <2>2. \A y \in d : Sql[y] = y /\ y # NoTag
    BY <2>1, SqlAssumption DEF Quotable
  <2> QED BY <2>2 DEF tag_list_string, Prepares
<1>1. \A y \in Tags : <<f, y>> \in rel => <<tags[y], y>> \in tag /\ <<tags[y], f>> \in tag_file
  <2>1. \A y \in Tags : <<f, y>> \in rel => tags[y] # NoTag /\ <<tags[y], f>> \in tag_file
    BY RelIs, RelHas
  <2> QED BY <2>1 DEF FirstLife, tag_exist
<1>2. PICK y \in d : y \in Tags /\ <<f, y>> \in rel
  BY DirsAssumption
<1>3. tags[y] \in ids
  <2>1. <<tags[y], y>> \in {q \in tag : q[2] \in d}
    BY <1>1, <1>2
  <2> QED BY <2>1
<1>4. f \in fs
  <2>1. <<tags[y], f>> \in {q \in tag_file : q[1] \in ids}
    BY <1>1, <1>2, <1>3
  <2> HIDE DEF ids
  <2> QED BY <2>1
<1>5. tags[x] \in all
  <2>1. <<tags[x], f>> \in {q \in tag_file : q[2] \in fs}
    BY <1>1, <1>4
  <2> HIDE DEF fs
  <2> QED BY <2>1
<1>6. x \in {r[2] : r \in {q \in tag : q[1] \in all}}
  <2>1. <<tags[x], x>> \in {q \in tag : q[1] \in all}
    BY <1>1, <1>5
  <2> HIDE DEF all
  <2> QED BY <2>1
<1> QED BY <1>0, <1>6 DEF db_list_remaining_tags

(* The root lists every tag there is, though the row of one made again is  *)
(* refused, and until then a directory whose tags can be put in quotes as  *)
(* they are lists all the tags that its files have, by any number of rows  *)
(* (fuse_sqlite3/db.c:92-95, 131, 221-253, fuse_sqlite3/tagfs.c:206-209).  *)
THEOREM DirectoriesListTags == Spec => []ListingsCover
<1>1. Init => IInv /\ NamesListed
  BY InitIInv, InitNames
<1>2. (IInv /\ NamesListed) /\ [Next]_vars => (IInv /\ NamesListed)'
  BY NextIInv, NextNames
<1> QED BY <1>1, <1>2, ListingsSound, PTL DEF Spec

------------------------------------------------------------------------------
(* Until a tag goes or a directory moves, whatever the kernel or a handle  *)
(* remembers is there.                                                     *)
Lost == ATagWasRemoved \/ ADirectoryWasMoved
Remembered ==
    ~Lost => /\ status # "crashed"
             /\ \A d \in dentries : Looks_up(d)
             /\ \A h \in Handles : fds[h].open => ~Touches(fds[h].sel)

SurvInv == IInv /\ Remembered

LEMMA LooksUpUntouched ==
  ASSUME NEW d \in SUBSET Tags, Looks_up(d)
  PROVE  ~Touches(StructsOf(d))
BY DEF Looks_up, tag_exist, Touches, StructsOf

(* Neither is undone but by a start of the daemon.                         *)
LEMMA RowsKeepMoves ==
  ASSUME NEW d, NEW f \in Files, ADirectoryWasMoved,
         \/ tag_file' = db_untag_file(tag_file, d, f)
         \/ tag_file \subseteq tag_file'
  PROVE  ADirectoryWasMoved'
<1>1. PICK r \in tag_file : r[2] \notin Files
  BY DEF ADirectoryWasMoved
<1>2. r \in tag_file'
  BY <1>1 DEF db_untag_file
<1> QED BY <1>1, <1>2 DEF ADirectoryWasMoved

(* A request that leaves the tags, and what is remembered, alone.          *)
LEMMA RowsRemembered ==
  ASSUME SurvInv, UNCHANGED <<tags, next_id, fds, dentries, status>>,
         ADirectoryWasMoved => ADirectoryWasMoved'
  PROVE  Remembered'
<1>1. ATagWasRemoved => ATagWasRemoved'
  BY DEF ATagWasRemoved
<1> QED BY <1>1 DEF SurvInv, Remembered, Lost, Looks_up, Touches, tag_exist

(* A cached path is found as long as nothing is lost: no request crashes.  *)
LEMMA CrashNeedsLoss ==
  ASSUME SurvInv, Crash,
         \/ \E d \in dentries : Touches(StructsOf(d))
         \/ \E h \in Handles : fds[h].open /\ Touches(fds[h].sel)
  PROVE  Remembered'
<1>1. \A d \in dentries : d \in SUBSET Tags
  BY DirsAssumption DEF SurvInv, IInv, TypeOK
<1>2. Lost
  BY <1>1, LooksUpUntouched DEF SurvInv, Remembered
<1>3. Lost'
  BY <1>2 DEF Crash, Lost, ATagWasRemoved, ADirectoryWasMoved
<1> QED BY <1>3 DEF Remembered

LEMMA FreshRemembered ==
  ASSUME NEW t, Boot(t, next_id', tag', tag_file'), fds' = [h \in Handles |-> Closed],
         dentries' = {{}}, status' = "up"
  PROVE  Remembered'
BY DEF Remembered, Looks_up, Closed

LEMMA InitSurv == Init => SurvInv
<1> SUFFICES ASSUME Init PROVE SurvInv
  OBVIOUS
<1>1. IInv
  BY InitIInv
<1>2. Remembered
  BY DEF Init, Remembered, Looks_up, Closed
<1> QED BY <1>1, <1>2 DEF SurvInv

LEMMA MkdirRemembered ==
  ASSUME SurvInv, NEW x \in Tags, tag_mkdir(x)
  PROVE  Remembered'
<1>1. /\ \A y \in Tags : tags'[y] = IF y = x THEN next_id ELSE tags[y]
      /\ tags[x] = NoTag /\ next_id \in Ids /\ next_id # NoTag /\ next_id' = next_id + 1
      /\ tag_file' = tag_file /\ fds' = fds /\ status' = status
      /\ dentries' \subseteq dentries \cup {{x}}
  BY IdsType, NamesAssumption DEF tag_mkdir, next_tag_id, tag_exist, SurvInv, IInv, TypeOK
<1>2. Lost => Lost'
  <2>1. ASSUME NEW i \in Ids, i < next_id, \A y \in Tags : tags[y] # i
        PROVE  i < next_id' /\ \A y \in Tags : tags'[y] # i
    BY <1>1, <2>1, IdsType
  <2> QED BY <1>1, <2>1 DEF Lost, ATagWasRemoved, ADirectoryWasMoved
<1> SUFFICES ASSUME ~Lost' PROVE Remembered'
  BY DEF Remembered
<1>3. /\ status # "crashed" /\ \A d \in dentries : Looks_up(d)
      /\ \A h \in Handles : fds[h].open => ~Touches(fds[h].sel)
  BY <1>2 DEF SurvInv, Remembered
<1>4. {tags[y] : y \in Tags} \ {NoTag} \subseteq {tags'[y] : y \in Tags} \ {NoTag}
  <2> SUFFICES ASSUME NEW y \in Tags, tags[y] # NoTag PROVE tags[y] \in {tags'[z] : z \in Tags}
    OBVIOUS
  <2>1. tags'[y] = tags[y]
    BY <1>1
  <2> QED BY <2>1
<1>5. \A h \in Handles : fds'[h].open => ~Touches(fds[h].sel)'
  BY <1>1, <1>3, <1>4 DEF Touches
<1>6. \A d \in dentries' : Looks_up(d)'
  <2>1. \A y \in Tags : tags[y] # NoTag => tags'[y] # NoTag
    BY <1>1
  <2>2. \A d \in dentries : d \in SUBSET Tags
    BY DirsAssumption DEF SurvInv, IInv, TypeOK
  <2>3. tags'[x] # NoTag
    BY <1>1
  <2> QED BY <1>1, <1>3, <2>1, <2>2, <2>3 DEF Looks_up, tag_exist
<1> QED BY <1>1, <1>3, <1>5, <1>6 DEF Remembered

(* The id of the struct that goes is nobody's any more.                    *)
LEMMA RmdirLoses ==
  ASSUME IInv, NEW x \in Tags, tag_rmdir(x)
  PROVE  ATagWasRemoved'
<1>1. /\ \A y \in Tags : tags'[y] = IF y = x THEN NoTag ELSE tags[y]
      /\ next_id' = next_id
  BY DEF tag_rmdir, tag_remove, IInv, TypeOK
<1>2. tags[x] \in Ids /\ tags[x] < next_id /\ tags[x] # NoTag
      /\ \A y \in Tags \ {x} : tags[y] # tags[x]
  BY DEF tag_rmdir, tag_exist, IInv, TypeOK, IdsSound
<1>3. \A y \in Tags : tags'[y] # tags[x]
  BY <1>1, <1>2
<1> QED BY <1>1, <1>2, <1>3 DEF ATagWasRemoved

(* A directory that was moved has a row, under the tag it moved to.        *)
LEMMA RenameMovesRows ==
  ASSUME SurvInv, NEW d \in Dirs, NEW e \in Dirs, NEW f \in Names \ Files, tag_rename(d, f, e),
         tag_file' = Renamed(d, f, e)
  PROVE  ADirectoryWasMoved'
<1>1. e # {}
  BY FS_EmptySet DEF tag_rename
<1>2. PICK x \in e : TRUE
  BY <1>1
<1>3. <<tags[x], f>> \in tag_file'
  BY DEF Renamed, db_tag_file
<1> QED BY <1>3 DEF ADirectoryWasMoved

LEMMA RenameRemembered ==
  ASSUME SurvInv, NEW d \in Dirs, NEW e \in Dirs, NEW f \in Names, tag_rename(d, f, e)
  PROVE  Remembered'
<1>1. CASE Touches(StructsOf(d)) \/ Touches(StructsOf(e))
  BY <1>1, CrashNeedsLoss DEF tag_rename, Resolves
<1>2. CASE ~(Touches(StructsOf(d)) \/ Touches(StructsOf(e)))
  <2>1. /\ tag_file' = Renamed(d, f, e) /\ UNCHANGED <<tags, next_id, fds, status>>
        /\ f \in Files => dentries' = dentries
    BY <1>2 DEF tag_rename
  <2>2. CASE f \in Files
    <3>1. tag_file' = db_untag_file(tag_file, d, f)
      BY <2>1, <2>2 DEF Renamed
    <3> QED BY <2>1, <2>2, <3>1, RowsKeepMoves, RowsRemembered
  <2>3. CASE f \notin Files
    BY <2>1, <2>3, RenameMovesRows DEF Remembered, Lost
  <2> QED BY <2>2, <2>3
<1> QED BY <1>1, <1>2

LEMMA NextRemembered == SurvInv /\ [Next]_vars => Remembered'
<1> SUFFICES ASSUME SurvInv, [Next]_vars PROVE Remembered'
  OBVIOUS
<1>0. ASSUME UNCHANGED <<tags, next_id, tag_file>> PROVE Lost <=> Lost'
  BY <1>0 DEF Lost, ATagWasRemoved, ADirectoryWasMoved
<1>1. ASSUME NEW d \in Dirs, tag_getattr(d) PROVE Remembered'
  BY <1>0, <1>1 DEF tag_getattr, SurvInv, Remembered, Looks_up, Touches, tag_exist
<1>2. ASSUME NEW d \in Dirs, KernelForgets(d) PROVE Remembered'
  BY <1>0, <1>2 DEF KernelForgets, SurvInv, Remembered, Looks_up, Touches, tag_exist
<1>3. ASSUME NEW d \in Dirs, tag_getattr_file(d) PROVE Remembered'
  BY <1>3, CrashNeedsLoss DEF tag_getattr_file, Resolves
<1>4. ASSUME NEW x \in Tags, tag_mkdir(x) PROVE Remembered'
  BY <1>4, MkdirRemembered
<1>5. ASSUME NEW x \in Tags, tag_rmdir(x) PROVE Remembered'
  BY <1>5, RmdirLoses DEF SurvInv, Remembered, Lost
<1>6. ASSUME NEW d \in Dirs, NEW f \in Files, tag_unlink(d, f) PROVE Remembered'
  <2>1. CASE Touches(StructsOf(d))
    BY <1>6, <2>1, CrashNeedsLoss DEF tag_unlink, Resolves
  <2>2. CASE ~Touches(StructsOf(d))
    BY <1>6, <2>2, RowsKeepMoves, RowsRemembered DEF tag_unlink
  <2> QED BY <2>1, <2>2
<1>7. ASSUME NEW d \in Dirs, NEW e \in Dirs, NEW f \in Files, tag_link(d, f, e)
      PROVE  Remembered'
  <2>1. CASE Touches(StructsOf(d)) \/ Touches(StructsOf(e))
    BY <1>7, <2>1, CrashNeedsLoss DEF tag_link, Resolves
  <2>2. CASE ~Touches(StructsOf(d)) /\ ~Touches(StructsOf(e))
    <3>1. tag_file \subseteq tag_file' /\ UNCHANGED <<tags, next_id, fds, dentries, status>>
      BY <1>7, <2>2 DEF tag_link, db_tag_file
    <3> QED BY <3>1, RowsKeepMoves, RowsRemembered
  <2> QED BY <2>1, <2>2
<1>8. ASSUME NEW d \in Dirs, NEW e \in Dirs, NEW f \in Names, tag_rename(d, f, e)
      PROVE  Remembered'
  BY <1>8, RenameRemembered
<1>9. ASSUME NEW h \in Handles, NEW d \in Dirs, tag_open_dir(h, d) PROVE Remembered'
  <2>1. /\ d \in dentries /\ d \in SUBSET Tags
        /\ \A k \in Handles : fds'[k] = IF k = h THEN [open |-> TRUE, sel |-> StructsOf(d)]
                                        ELSE fds[k]
        /\ UNCHANGED <<tags, next_id, tag_file, dentries, status>>
    BY <1>9, DirsAssumption DEF tag_open_dir, Resolves, SurvInv, IInv, TypeOK
  <2>2. \A s : Touches(s)' <=> Touches(s)
    BY <2>1 DEF Touches
  <2>3. \A k \in Handles : Touches(fds[k].sel)' <=> Touches(fds'[k].sel)
    BY <2>1 DEF Touches
  <2>4. ~Lost => ~Touches(StructsOf(d))
    BY <2>1, LooksUpUntouched DEF SurvInv, Remembered
  <2>5. \A k \in Handles : ~Lost /\ fds'[k].open => ~Touches(fds'[k].sel)
    BY <2>1, <2>4 DEF SurvInv, Remembered
  <2> QED BY <1>0, <2>1, <2>3, <2>5 DEF SurvInv, Remembered, Looks_up, tag_exist
<1>10. ASSUME NEW h \in Handles, tag_release_generic(h) PROVE Remembered'
  <2>1. \A k \in Handles : fds'[k].open => fds'[k] = fds[k]
    BY <1>10 DEF tag_release_generic, Closed, SurvInv, IInv, TypeOK
  <2> QED BY <1>0, <1>10, <2>1
       DEF tag_release_generic, SurvInv, Remembered, Looks_up, Touches, tag_exist
<1>11. ASSUME NEW h \in Handles, tag_readdir(h) PROVE Remembered'
  BY <1>11, CrashNeedsLoss DEF tag_readdir
<1>12. CASE Restart
  BY <1>12, FreshRemembered DEF Restart
<1>13. CASE UNCHANGED vars
  BY <1>0, <1>13 DEF vars, SurvInv, Remembered, Looks_up, Touches, tag_exist
<1> QED BY <1>1, <1>2, <1>3, <1>4, <1>5, <1>6, <1>7, <1>8, <1>9, <1>10, <1>11,
           <1>12, <1>13 DEF Next

(* However requests, cached paths and open directories interleave, no path *)
(* component is dereferenced that is no tag before a tag was removed or a  *)
(* directory renamed since the start (fuse_sqlite3/db.c:140-155).          *)
THEOREM NoCrashBeforeRmdir == Spec => []SurvivesUntilRmdir
<1>1. SurvInv /\ [Next]_vars => SurvInv'
  BY NextIInv, NextRemembered DEF SurvInv
<1>2. SurvInv => SurvivesUntilRmdir
  BY DEF SurvInv, Remembered, Lost, SurvivesUntilRmdir
<1> QED BY <1>1, <1>2, InitSurv, PTL DEF Spec
==============================================================================
