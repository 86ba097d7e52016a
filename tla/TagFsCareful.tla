----------------------------- MODULE TagFsCareful -----------------------------
(* Theorems about TagFs that do not hold whatever its environment does.    *)
(* Each says which of the three modes it needs off: stale lookups          *)
(* (CacheEntries), directories opened through tags that do not exist       *)
(* (StrayHandles), renames of what is no file (MovesDirs).                 *)
EXTENDS TagFsProofs

(* The .tags file the daemon reads names files that are still there.       *)
DbIsCurrent == Db \subseteq Files \X Tags

(* The inductive invariant, for one tag name: the indexes agree, and a     *)
(* struct some handle keeps is in use, which no request takes back: the    *)
(* reference count of a tag in use never reaches zero (tag.c:141).         *)
Agree(t) == \A f \in Names, g \in Structs :
               (t.at[f] = g) <=> (t.cur = g /\ f \in t.obj[g].files)
KeptInUse(t, held) == \A g \in held \ {NoTag} : /\ g \in Structs
                                                /\ t.obj[g].alloc /\ t.obj[g].in_use
Sane(t, held) == Good(t) /\ Agree(t) /\ KeptInUse(t, held)

CareInv == /\ IInv
           /\ dentry = NoDentry
           /\ \A x \in Tags : Sane(tags[x], Held(x))

------------------------------------------------------------------------------
(* The operators, one component of a path at a time.                       *)

(* A component looked up or created: counted n times, whatever it was.     *)
LEMMA ComputeSane ==
    ASSUME NEW t, NEW held, Sane(t, held), NEW n \in Nat, n > 0,
           RoomFor(t, n, held)
    PROVE  LET r == compute_selected_tags(t, n, held)
           IN  /\ Sane(r, held) /\ r.at = t.at
               /\ r.cur \in Structs /\ r.obj[r.cur].alloc /\ r.obj[r.cur].ref >= n
               /\ t.cur # NoTag => r.cur = t.cur /\ r.obj[r.cur].ref > n
               /\ r.obj[r.cur].in_use <=> t.cur # NoTag /\ t.obj[t.cur].in_use
               /\ r.bad = t.bad
<1> DEFINE r == compute_selected_tags(t, n, held)
<1>0. /\ t \in TagEntry /\ EntrySound(t) /\ MaxRef \in Nat /\ NoTag \notin Structs
      /\ t.obj \in [Structs -> TagStruct] /\ t.cur \in Structs \cup {NoTag}
      /\ Agree(t) /\ KeptInUse(t, held) /\ Good(t)
  BY StructsType DEF Sane, Good, TagEntry
<1>1. Good(r) /\ r.at = t.at /\ r.cur \in Structs /\ r.obj[r.cur].alloc
  BY <1>0, ComputeGood
<1>2. CASE t.cur # NoTag
  <2> DEFINE p == t.obj[t.cur]
             o == [p EXCEPT !.ref = @ + n]
  <2>1. t.cur \in Structs /\ p \in TagStruct /\ p.ref \in Nat /\ p.ref > 0
    BY <1>0, <1>2, StructFields DEF EntrySound
  <2>2. r = [t EXCEPT !.obj[t.cur] = o]
    BY <1>2 DEF compute_selected_tags
  <2>3. o.ref = p.ref + n /\ o.files = p.files /\ o.in_use = p.in_use /\ o.alloc = p.alloc
    BY <2>1 DEF TagStruct
  <2> HIDE DEF r, o
  <2>4. r.cur = t.cur /\ r.bad = t.bad /\ r.obj = [t.obj EXCEPT ![t.cur] = o]
    BY <2>2, <1>0 DEF TagEntry
  <2>5. \A g \in Structs : /\ r.obj[g].files = t.obj[g].files
                           /\ r.obj[g].in_use = t.obj[g].in_use
                           /\ r.obj[g].alloc = t.obj[g].alloc
    BY <2>3, <2>4, <1>0
  <2>6. Agree(r) /\ KeptInUse(r, held)
    BY <2>4, <2>5, <1>0, <1>1 DEF Agree, KeptInUse
  <2>7. r.obj[r.cur] = o
    BY <2>1, <2>4, <1>0
  <2>8. r.obj[r.cur].ref > n
    BY <2>1, <2>3, <2>7
  <2> QED BY <1>1, <1>2, <2>1, <2>3, <2>4, <2>6, <2>7, <2>8, <1>0 DEF Sane, r
<1>3. CASE t.cur = NoTag
  <2> DEFINE g == CHOOSE g \in Unused(t, held) : TRUE
             o == [alloc |-> TRUE, in_use |-> FALSE, ref |-> n, files |-> {}]
  <2>1. g \in Unused(t, held)
    BY <1>3 DEF RoomFor
  <2>2. g \in Structs /\ g \notin held /\ \A f \in Names : t.at[f] # g
    BY <2>1 DEF Unused
  <2>3. r = [t EXCEPT !.cur = g, !.obj[g] = o]
    BY <1>3 DEF compute_selected_tags
  <2> HIDE DEF r, g
  <2>4. r.cur = g /\ r.bad = t.bad /\ r.obj = [t.obj EXCEPT ![g] = o]
    BY <2>3, <1>0 DEF TagEntry
  <2>5. r.obj[g] = o /\ \A q \in Structs \ {g} : r.obj[q] = t.obj[q]
    BY <2>2, <2>4, <1>0
  <2>6. Agree(r)
    BY <2>2, <2>4, <2>5, <1>0, <1>1, <1>3 DEF Agree
  <2>7. KeptInUse(r, held)
    BY <2>2, <2>5, <1>0 DEF KeptInUse
  <2> QED BY <1>1, <1>3, <2>4, <2>5, <2>6, <2>7, <1>0 DEF Sane, r
<1> QED BY <1>2, <1>3

(* A struct handles may keep is in use: the entry does not change.  One    *)
(* that is not in use has no file, and no handle: it leaves the table.     *)
LEMMA FreeSane ==
    ASSUME NEW t, NEW held, Sane(t, held), NEW n \in Nat, NEW g,
           n > 0 => g \in Structs /\ t.cur \in {g, NoTag}
    PROVE  LET r == free_selected_tags(t, g, n)
           IN  /\ Sane(r, held)
               /\ (n > 0 => t.obj[g].alloc /\ (t.obj[g].in_use \/ t.obj[g].ref >= n))
                  => (~t.bad => ~r.bad)
<1> DEFINE r == free_selected_tags(t, g, n)
<1>0. /\ t \in TagEntry /\ EntrySound(t) /\ NoTag \notin Structs /\ Good(t)
      /\ t.obj \in [Structs -> TagStruct] /\ t.at \in [Names -> Structs \cup {NoTag}]
      /\ Agree(t) /\ KeptInUse(t, held)
  BY StructsType DEF Sane, Good, TagEntry
<1>9. Good(r)
  BY <1>0, FreeGood
<1>1. CASE n = 0 \/ (t.obj[g].alloc /\ t.obj[g].in_use)
  <2>1. r = t
    BY <1>1 DEF free_selected_tags
  <2> QED BY <2>1
<1>2. CASE n > 0 /\ ~t.obj[g].alloc
  <2>1. r = [t EXCEPT !.bad = TRUE]
    BY <1>2 DEF free_selected_tags
  <2>2. r.cur = t.cur /\ r.at = t.at /\ r.obj = t.obj
    BY <1>0, <2>1 DEF TagEntry
  <2> HIDE DEF r
  <2>3. Agree(r) /\ KeptInUse(r, held)
    BY <1>0, <2>2 DEF Agree, KeptInUse
  <2> QED BY <1>2, <1>9, <2>3 DEF Sane, r
<1>3. CASE n > 0 /\ t.obj[g].alloc /\ ~t.obj[g].in_use
  <2> DEFINE p == t.obj[g]
             o == IF p.ref > n THEN [p EXCEPT !.ref = @ - n] ELSE Freed
             at == [f \in Names |-> IF f \in p.files THEN NoTag ELSE t.at[f]]
  <2>1. g \in Structs /\ p \in TagStruct /\ p.ref \in Nat
    BY <1>0, <1>3, StructFields
  <2>2. p.files = {}
    BY <1>0, <1>3, <2>1 DEF EntrySound
  <2>3. r = tag_remove(t, g, n)
    BY <1>3 DEF free_selected_tags
  <2>4. r = [t EXCEPT !.cur = NoTag, !.at = at, !.obj[g] = o, !.bad = @ \/ p.ref < n]
    BY <2>3 DEF tag_remove
  <2>5. at = t.at
    BY <2>2, <1>0
  <2> HIDE DEF r, at, o
  <2>6. /\ r.cur = NoTag /\ r.at = t.at /\ r.obj = [t.obj EXCEPT ![g] = o]
        /\ r.bad = (t.bad \/ p.ref < n)
    BY <2>4, <2>5, <1>0 DEF TagEntry
  <2>7. p.ref >= n => ~(p.ref < n)
    BY <2>1
  <2>8. p.ref >= n => (~t.bad => ~r.bad)
    BY <2>6, <2>7, Zenon
  <2>9. \A f \in Names : t.at[f] = NoTag
    BY <1>0, <1>3, <2>1, <2>2 DEF Agree
  <2>10. Agree(r)
    BY <2>6, <2>9, <1>0 DEF Agree
  <2>11. g \notin held
    BY <1>0, <1>3, <2>1 DEF KeptInUse
  <2>12. KeptInUse(r, held)
    BY <2>1, <2>6, <2>11, <1>0 DEF KeptInUse
  <2> QED BY <1>3, <1>9, <2>8, <2>10, <2>12 DEF Sane, r
<1> QED BY <1>1, <1>2, <1>3

(* tag_file under the struct of the table: already there or not, the file  *)
(* ends up with that struct, and the struct with the file.                 *)
LEMMA TagFileSane ==
    ASSUME NEW t, NEW held, Sane(t, held), t.cur \in Structs, t.obj[t.cur].alloc,
           NEW f \in Names
    PROVE  LET r == tag_file(t, t.cur, f)
           IN  /\ Sane(r, held) /\ r.cur = t.cur /\ r.bad = t.bad
               /\ r.obj[r.cur].in_use /\ r.obj[r.cur].alloc
               /\ r.obj[r.cur].ref = t.obj[t.cur].ref
<1> DEFINE g == t.cur
           p == t.obj[g]
           r == tag_file(t, g, f)
           o == [p EXCEPT !.files = @ \cup {f}, !.in_use = TRUE]
           at == [t.at EXCEPT ![f] = IF t.at[f] = NoTag THEN g ELSE t.at[f]]
<1>0. /\ t \in TagEntry /\ EntrySound(t) /\ NoTag \notin Structs /\ Good(t)
      /\ t.obj \in [Structs -> TagStruct] /\ t.at \in [Names -> Structs \cup {NoTag}]
      /\ Agree(t) /\ KeptInUse(t, held) /\ p \in TagStruct
  BY StructsType DEF Sane, Good, TagEntry
<1>1. Good(r)
  BY <1>0, TagFileGood
<1>2. o.files = p.files \cup {f} /\ o.in_use /\ o.alloc = p.alloc /\ o.ref = p.ref
  BY <1>0 DEF TagStruct
<1>3. r = [t EXCEPT !.at = at, !.obj[g] = o]
  BY <1>0 DEF tag_file, TagEntry
<1>4. \A e \in Names : at[e] = IF e = f THEN g ELSE t.at[e]
  BY <1>0 DEF Agree
<1> HIDE DEF r, at, o
<1>5. /\ r.cur = g /\ r.at = at /\ r.bad = t.bad
      /\ r.obj = [t.obj EXCEPT ![g] = o]
  BY <1>0, <1>3 DEF TagEntry
<1>6. r.obj[g] = o /\ \A q \in Structs \ {g} : r.obj[q] = t.obj[q]
  BY <1>0, <1>5
<1>7. Agree(r)
  BY <1>0, <1>2, <1>4, <1>5, <1>6 DEF Agree
<1>8. KeptInUse(r, held)
  BY <1>0, <1>2, <1>6 DEF KeptInUse
<1>10. Sane(r, held)
  BY <1>0, <1>1, <1>5, <1>7, <1>8 DEF Sane
<1> QED BY <1>2, <1>5, <1>6, <1>10 DEF r

LEMMA MkdirSane ==
    ASSUME NEW t, NEW held, Sane(t, held), t.cur \in Structs, t.obj[t.cur].alloc
    PROVE  LET r == tag_mkdir(t, t.cur)
           IN  /\ Sane(r, held) /\ r.cur = t.cur /\ r.bad = t.bad
               /\ r.obj[r.cur].in_use /\ r.obj[r.cur].alloc
               /\ r.obj[r.cur].ref = t.obj[t.cur].ref
<1> DEFINE g == t.cur
           p == t.obj[g]
           r == tag_mkdir(t, g)
           o == [p EXCEPT !.in_use = TRUE]
<1>0. /\ t \in TagEntry /\ NoTag \notin Structs /\ Good(t)
      /\ t.obj \in [Structs -> TagStruct]
      /\ Agree(t) /\ KeptInUse(t, held) /\ p \in TagStruct
  BY StructsType DEF Sane, Good, TagEntry
<1>1. Good(r) /\ r.at = t.at
  BY <1>0, MkdirGood
<1>2. o.files = p.files /\ o.in_use /\ o.alloc = p.alloc /\ o.ref = p.ref
  BY <1>0 DEF TagStruct
<1>3. r = [t EXCEPT !.obj[g] = o]
  BY <1>0 DEF tag_mkdir, TagEntry
<1> HIDE DEF r, o
<1>5. r.cur = g /\ r.bad = t.bad /\ r.obj = [t.obj EXCEPT ![g] = o]
  BY <1>0, <1>3 DEF TagEntry
<1>6. r.obj[g] = o /\ \A q \in Structs \ {g} : r.obj[q] = t.obj[q]
  BY <1>0, <1>5
<1>4. \A q \in Structs : /\ r.obj[q].files = t.obj[q].files
                         /\ r.obj[q].alloc = t.obj[q].alloc
                         /\ t.obj[q].in_use => r.obj[q].in_use
  BY <1>2, <1>6
<1>7. Agree(r) /\ KeptInUse(r, held)
  BY <1>0, <1>1, <1>4, <1>5 DEF Agree, KeptInUse
<1>8. Sane(r, held)
  BY <1>0, <1>1, <1>5, <1>7 DEF Sane
<1> QED BY <1>2, <1>5, <1>6, <1>8 DEF r

(* The last file gone, the tag leaves the table.  The struct of a tag in   *)
(* use stays, since more references were counted than the path gives back; *)
(* one that is not in use may go, since no handle keeps it.                *)
LEMMA PathUnlinkSane ==
    ASSUME NEW t, NEW held, Sane(t, held), NEW n \in Nat,
           n > 0 => /\ t.cur \in Structs /\ t.obj[t.cur].alloc
                    /\ t.obj[t.cur].ref >= n
                    /\ t.obj[t.cur].in_use => t.obj[t.cur].ref > n,
           NEW f \in Names
    PROVE  LET r == path_unlink(t, t.cur, n, f)
           IN  /\ Sane(r, held) /\ r.cur \in {t.cur, NoTag}
               /\ ~t.bad => ~r.bad
               /\ n > 0 /\ t.obj[t.cur].in_use => r.obj[t.cur].alloc /\ r.obj[t.cur].in_use
<1> DEFINE g == t.cur
           p == t.obj[g]
           u == untag_file(t, g, f)
           r == path_unlink(t, g, n, f)
<1>0. /\ t \in TagEntry /\ EntrySound(t) /\ NoTag \notin Structs /\ Good(t)
      /\ t.obj \in [Structs -> TagStruct] /\ t.at \in [Names -> Structs \cup {NoTag}]
      /\ Agree(t) /\ KeptInUse(t, held)
  BY StructsType DEF Sane, Good, TagEntry
<1>1. CASE n = 0
  BY <1>1 DEF path_unlink
<1>2. CASE n > 0
  <2> DEFINE o == [p EXCEPT !.files = @ \ {f}]
             at == [t.at EXCEPT ![f] = NoTag]
  <2>1. /\ g \in Structs /\ p.alloc /\ p.ref >= n /\ p \in TagStruct
        /\ p.ref \in Nat /\ (p.in_use => p.ref > n)
    BY <1>0, <1>2, StructFields
  <2>2. Good(u) /\ Good(r)
    BY <1>0, <2>1, UntagGood, PathUnlinkGood
  <2>3. o.files = p.files \ {f} /\ o.in_use = p.in_use /\ o.alloc /\ o.ref = p.ref
    BY <2>1 DEF TagStruct
  <2>4. u = [t EXCEPT !.at = at, !.obj[g] = o]
    BY <1>0, <2>1 DEF untag_file, TagEntry
  <2>5. \A e \in Names : at[e] = IF e = f THEN NoTag ELSE t.at[e]
    BY <1>0
  <2>6. r = IF u.obj[g].files = {} THEN tag_remove(u, g, n) ELSE u
    BY <1>2 DEF path_unlink
  <2> HIDE DEF u, r, o, at
  <2>7. u.cur = g /\ u.at = at /\ u.bad = t.bad /\ u.obj = [t.obj EXCEPT ![g] = o]
    BY <1>0, <2>4 DEF TagEntry
  <2>8. u.obj[g] = o /\ \A q \in Structs \ {g} : u.obj[q] = t.obj[q]
    BY <1>0, <2>1, <2>7
  <2>9. Agree(u) /\ KeptInUse(u, held)
    BY <1>0, <2>1, <2>3, <2>5, <2>7, <2>8 DEF Agree, KeptInUse
  <2>10. CASE o.files # {}
    <3>1. r = u
      BY <2>6, <2>8, <2>10
    <3> QED BY <1>2, <2>2, <2>3, <2>7, <2>8, <2>9, <3>1 DEF Sane, r
  <2>11. CASE o.files = {}
    <3> DEFINE q == IF o.ref > n THEN [o EXCEPT !.ref = @ - n] ELSE Freed
               rat == [e \in Names |-> IF e \in o.files THEN NoTag ELSE u.at[e]]
    <3>1. u \in TagEntry /\ u.obj \in [Structs -> TagStruct] /\ o \in TagStruct
          /\ u.at \in [Names -> Structs \cup {NoTag}]
      BY <2>1, <2>2, <2>8 DEF Good, TagEntry
    <3>2. ~(o.ref < n)
      BY <2>1, <2>3
    <3>3. rat = u.at
      BY <2>11, <3>1
    <3>4. r = [u EXCEPT !.cur = NoTag, !.at = rat, !.obj[g] = q, !.bad = @ \/ o.ref < n]
      BY <2>6, <2>8, <2>11 DEF tag_remove
    <3>5. p.in_use => q.alloc /\ q.in_use
      BY <2>1, <2>3, <3>1 DEF TagStruct
    <3> HIDE DEF q, rat
    <3>6. /\ r.cur = NoTag /\ r.at = u.at /\ r.obj = [u.obj EXCEPT ![g] = q]
          /\ r.bad = (u.bad \/ o.ref < n)
      BY <3>1, <3>3, <3>4 DEF TagEntry
    <3>7. ~t.bad => ~r.bad
      BY <2>7, <3>2, <3>6, Zenon
    <3>8. r.obj[g] = q /\ \A s \in Structs \ {g} : r.obj[s] = u.obj[s]
      BY <2>1, <3>1, <3>6
    <3>9. \A e \in Names : u.at[e] = NoTag
      BY <2>7, <2>8, <2>9, <2>11, <3>1 DEF Agree
    <3>10. Agree(r)
      BY <1>0, <3>6, <3>9 DEF Agree
    <3>11. g \in held => p.in_use
      BY <1>0, <2>1 DEF KeptInUse
    <3>12. KeptInUse(r, held)
      BY <2>9, <3>5, <3>8, <3>11 DEF KeptInUse
    <3> QED BY <1>2, <2>2, <3>5, <3>6, <3>7, <3>8, <3>10, <3>12 DEF Sane, r
  <2> QED BY <2>10, <2>11
<1> QED BY <1>1, <1>2

------------------------------------------------------------------------------
(* The requests, for each tag name.                                        *)
LEMMA CreateSane ==
    ASSUME CareInv, NEW d \in [Tags -> Nat], Room(d), NEW x \in Tags
    PROVE  LET t == compute_selected_tags(tags[x], d[x], Held(x))
           IN  /\ Sane(t, Held(x)) /\ t.at = tags[x].at /\ t.bad = tags[x].bad
               /\ d[x] > 0 =>
                    /\ t.cur \in Structs /\ t.obj[t.cur].alloc /\ t.obj[t.cur].ref >= d[x]
                    /\ tags[x].cur # NoTag => /\ t.cur = tags[x].cur
                                              /\ t.obj[t.cur].ref > d[x]
                    /\ t.obj[t.cur].in_use <=> /\ tags[x].cur # NoTag
                                               /\ tags[x].obj[tags[x].cur].in_use
<1>1. Sane(tags[x], Held(x))
  BY DEF CareInv
<1>2. d[x] \in Nat /\ (d[x] > 0 => RoomFor(tags[x], d[x], Held(x)))
  BY RoomForOne
<1>3. CASE d[x] = 0
  BY <1>1, <1>3 DEF compute_selected_tags
<1>4. CASE d[x] > 0
  BY <1>1, <1>2, <1>4, ComputeSane
<1> QED BY <1>2, <1>3, <1>4

LEMMA VisitSane ==
    ASSUME CareInv, NEW d \in [Tags -> Nat], Room(d), NEW x \in Tags
    PROVE  /\ Sane(PathVisit(d)[x], Held(x))
           /\ ~tags[x].bad => ~PathVisit(d)[x].bad
<1> DEFINE t == compute_selected_tags(tags[x], d[x], Held(x))
<1>1. PathVisit(d)[x] = free_selected_tags(t, t.cur, d[x])
  BY DEF PathVisit, PathCreate
<1>2. /\ Sane(t, Held(x)) /\ t.bad = tags[x].bad /\ d[x] \in Nat
      /\ d[x] > 0 => t.cur \in Structs /\ t.obj[t.cur].alloc /\ t.obj[t.cur].ref >= d[x]
  BY CreateSane
<1> HIDE DEF t
<1> QED BY <1>1, <1>2, FreeSane

(* The tags of a path that a file matches are in the table, and in use.    *)
LEMMA MatchedInUse ==
    ASSUME CareInv, NEW d \in [Tags -> Nat], NEW f \in Names, Matches(d, f),
           NEW x \in Tags, d[x] > 0
    PROVE  /\ tags[x].cur \in Structs
           /\ tags[x].obj[tags[x].cur].alloc /\ tags[x].obj[tags[x].cur].in_use
<1>1. /\ tags[x] \in TagEntry /\ Agree(tags[x]) /\ EntrySound(tags[x])
      /\ NoTag \notin Structs
  BY StructsType DEF CareInv, Sane, Good
<1>2. tags[x].at[f] \in Structs
  BY <1>1 DEF Matches, Sel, TagEntry
<1>3. tags[x].cur = tags[x].at[f] /\ f \in tags[x].obj[tags[x].cur].files
  BY <1>1, <1>2 DEF Agree
<1> QED BY <1>1, <1>2, <1>3 DEF EntrySound

LEMMA LinkSane ==
    ASSUME CareInv, NEW d \in [Tags -> Nat], NEW e \in [Tags -> Nat],
           Room(Both(d, e)), NEW f \in Files, Matches(d, f), NEW x \in Tags
    PROVE  /\ Sane(Linked(d, f, e)[x], Held(x))
           /\ ~tags[x].bad => ~Linked(d, f, e)[x].bad
<1> DEFINE n == d[x] + e[x]
           t == compute_selected_tags(tags[x], n, Held(x))
           m == IF OneTag(e) /\ e[x] > 0 THEN tag_mkdir(t, t.cur) ELSE t
           l == IF e[x] > 0 THEN tag_file(m, t.cur, f) ELSE m
           r == Linked(d, f, e)[x]
<1>1. Found(d, f)
  BY DEF Found, LookupResult
<1>2. r = free_selected_tags(l, t.cur, n)
  BY <1>1 DEF Linked
<1>3. d[x] \in Nat /\ e[x] \in Nat /\ n \in Nat /\ f \in Names /\ (e[x] > 0 => n > 0)
  BY DEF Names
<1>4. Both(d, e) \in [Tags -> Nat] /\ Both(d, e)[x] = n
  BY BothType
<1>5. /\ Sane(t, Held(x)) /\ t.bad = tags[x].bad
      /\ n > 0 => t.cur \in Structs /\ t.obj[t.cur].alloc /\ t.obj[t.cur].ref >= n
  BY <1>4, CreateSane
<1> HIDE DEF n, t, r
<1>6. CASE e[x] > 0
  <2>1. /\ Sane(m, Held(x)) /\ m.cur = t.cur /\ m.cur \in Structs /\ m.bad = t.bad
        /\ m.obj[m.cur].alloc /\ m.obj[m.cur].ref = t.obj[t.cur].ref
    BY <1>3, <1>5, <1>6, MkdirSane
  <2>2. l = tag_file(m, m.cur, f)
    BY <1>6, <2>1
  <2> HIDE DEF m, l
  <2>3. /\ Sane(l, Held(x)) /\ l.cur = t.cur /\ l.bad = t.bad
        /\ l.obj[l.cur].alloc /\ l.obj[l.cur].ref = t.obj[t.cur].ref
    BY <1>3, <2>1, <2>2, TagFileSane
  <2> QED BY <1>2, <1>3, <1>5, <1>6, <2>1, <2>3, FreeSane DEF r
<1>7. CASE ~(e[x] > 0)
  <2>1. l = t
    BY <1>7
  <2> HIDE DEF l
  <2> QED BY <1>2, <1>3, <1>5, <2>1, FreeSane DEF r
<1> QED BY <1>6, <1>7

(* A struct of a tag in use has a reference that its path does not give    *)
(* back, the one of the lookup that made it.                               *)
LEMMA UnlinkSane ==
    ASSUME CareInv, NEW d \in [Tags -> Nat], Room(d), NEW f \in Files,
           Matches(d, f), NEW x \in Tags
    PROVE  /\ Sane(Unlinked(d, f)[x], Held(x))
           /\ ~tags[x].bad => ~Unlinked(d, f)[x].bad
<1> DEFINE t == compute_selected_tags(tags[x], d[x], Held(x))
           u == path_unlink(t, t.cur, d[x], f)
           r == Unlinked(d, f)[x]
<1>1. r = free_selected_tags(u, t.cur, d[x])
  BY DEF Unlinked
<1>2. d[x] \in Nat /\ f \in Names
  BY DEF Names
<1>3. d[x] > 0 => /\ tags[x].cur \in Structs
                  /\ tags[x].obj[tags[x].cur].in_use
  BY <1>2, MatchedInUse
<1>4. /\ Sane(t, Held(x)) /\ t.bad = tags[x].bad
      /\ d[x] > 0 => /\ t.cur \in Structs /\ t.obj[t.cur].alloc
                     /\ t.obj[t.cur].in_use /\ t.obj[t.cur].ref > d[x]
                     /\ t.obj[t.cur].ref >= d[x]
  BY <1>3, CreateSane, StructsType
<1> HIDE DEF t
<1>5. /\ Sane(u, Held(x))
      /\ ~t.bad => ~u.bad
  BY <1>2, <1>4, PathUnlinkSane
<1>6. d[x] > 0 => u.obj[t.cur].alloc /\ u.obj[t.cur].in_use
  BY <1>2, <1>4, PathUnlinkSane
<1> HIDE DEF u, r
<1>7. d[x] = 0 \/ (u.obj[t.cur].alloc /\ u.obj[t.cur].in_use)
  BY <1>2, <1>6
<1>8. r = u
  BY <1>1, <1>7 DEF free_selected_tags
<1> QED BY <1>4, <1>5, <1>8 DEF r

(* What is no file may be renamed without having the tag it is taken from. *)
(* The indexes agree all the same; that no freed struct is used needs the  *)
(* tag to be there.                                                        *)
LEMMA RenameSane ==
    ASSUME CareInv, NEW d \in [Tags -> Nat], NEW e \in [Tags -> Nat],
           Room(Both(d, e)), NEW f \in Names, NEW x \in Tags
    PROVE  /\ Sane(Renamed(d, f, e)[x], Held(x))
           /\ Matches(d, f) => (~tags[x].bad => ~Renamed(d, f, e)[x].bad)
<1> DEFINE n == d[x] + e[x]
           t == compute_selected_tags(tags[x], n, Held(x))
           l == IF Found(d, f) /\ e[x] > 0 THEN tag_file(t, t.cur, f) ELSE t
           u == path_unlink(l, t.cur, d[x], f)
           r == Renamed(d, f, e)[x]
<1>1. r = free_selected_tags(u, t.cur, n)
  BY DEF Renamed
<1>2. /\ d[x] \in Nat /\ e[x] \in Nat /\ n \in Nat /\ f \in Names
      /\ (e[x] > 0 => n > 0) /\ (d[x] > 0 => n > 0) /\ n >= d[x]
      /\ (e[x] > 0 => n > d[x])
  OBVIOUS
<1>3. Both(d, e) \in [Tags -> Nat] /\ Both(d, e)[x] = n
  BY BothType
<1>4. /\ Sane(t, Held(x)) /\ t.bad = tags[x].bad
      /\ n > 0 => /\ t.cur \in Structs /\ t.obj[t.cur].alloc
                  /\ t.obj[t.cur].ref >= n /\ t.obj[t.cur].ref \in Nat
                  /\ t.obj[t.cur].in_use => t.obj[t.cur].ref > n
  BY <1>2, <1>3, CreateSane, StructFields DEF Sane, Good
<1>5. Matches(d, f) /\ d[x] > 0 => t.obj[t.cur].in_use
  BY <1>2, <1>3, MatchedInUse, CreateSane, StructsType
<1> HIDE DEF n, t, r
<1>6. /\ Sane(l, Held(x)) /\ l.cur = t.cur /\ l.bad = t.bad
      /\ n > 0 => /\ l.obj[t.cur].alloc /\ l.obj[t.cur].ref = t.obj[t.cur].ref
                  /\ t.obj[t.cur].in_use => l.obj[t.cur].in_use
                  /\ l.obj[t.cur].in_use => t.obj[t.cur].in_use \/ e[x] > 0
  <2>1. CASE Found(d, f) /\ e[x] > 0
    BY <1>2, <1>4, <2>1, TagFileSane
  <2>2. CASE ~(Found(d, f) /\ e[x] > 0)
    BY <1>4, <2>2
  <2> QED BY <2>1, <2>2
<1> HIDE DEF l
<1>7. d[x] > 0 => /\ l.cur \in Structs /\ l.obj[l.cur].alloc
                  /\ l.obj[l.cur].ref >= d[x]
                  /\ l.obj[l.cur].in_use => l.obj[l.cur].ref > d[x]
  BY <1>2, <1>4, <1>6
<1>8. u = path_unlink(l, l.cur, d[x], f)
  BY <1>6
<1> HIDE DEF u
<1>9. /\ Sane(u, Held(x)) /\ u.cur \in {l.cur, NoTag}
      /\ ~l.bad => ~u.bad
      /\ d[x] > 0 /\ l.obj[l.cur].in_use => u.obj[l.cur].alloc /\ u.obj[l.cur].in_use
  BY <1>2, <1>6, <1>7, <1>8, PathUnlinkSane
<1>10. d[x] = 0 => u = l
  BY <1>8 DEF path_unlink
<1>11. n > 0 => t.cur \in Structs /\ u.cur \in {t.cur, NoTag}
  BY <1>4, <1>6, <1>9
<1>12. Matches(d, f) /\ n > 0 => /\ u.obj[t.cur].alloc
                                 /\ u.obj[t.cur].in_use \/ u.obj[t.cur].ref >= n
  BY <1>2, <1>4, <1>5, <1>6, <1>9, <1>10
<1> QED BY <1>1, <1>2, <1>4, <1>6, <1>9, <1>11, <1>12, FreeSane DEF r

(* The release of a handle takes nothing back.                             *)
LEMMA ReleaseSane ==
    ASSUME CareInv, NEW h \in Handles, NEW x \in Tags
    PROVE  Released(h)[x] = tags[x]
<1> DEFINE n == fds[h].dir[x]
           g == fds[h].sel[x]
<1>1. n \in Nat
  BY DirsAssumption DEF CareInv, IInv, TypeOK, Handle
<1>2. n > 0 => g \in Structs /\ g \in Held(x)
  BY DEF CareInv, IInv, TypeOK, Held
<1>3. n > 0 => tags[x].obj[g].alloc /\ tags[x].obj[g].in_use
  BY <1>2, StructsType DEF CareInv, Sane, KeptInUse
<1>4. Released(h)[x] = free_selected_tags(tags[x], g, n)
  BY DEF Released
<1> HIDE DEF n, g
<1>5. n = 0 \/ (tags[x].obj[g].alloc /\ tags[x].obj[g].in_use)
  BY <1>1, <1>3
<1> QED BY <1>4, <1>5 DEF free_selected_tags

------------------------------------------------------------------------------
(* The inductive invariant.                                                *)
LEMMA BootSane ==
    ASSUME NEW x \in Tags, NEW held, held \subseteq {NoTag}
    PROVE  Sane(BootTag(x), held)
<1> DEFINE fs == DbFiles(x)
           g  == IF fs = {} THEN NoTag ELSE 1
           t  == BootTag(x)
<1>1. 1 \in Structs /\ NoTag \notin Structs /\ Good(t) /\ fs \subseteq Names
  BY BoundsAssumption, StructsType, BootGood DEF Structs, DbFiles
<1>2. /\ t.cur = g /\ t.bad = FALSE
      /\ \A f \in Names : t.at[f] = IF f \in fs THEN g ELSE NoTag
      /\ g # NoTag => t.obj[g].files = fs
  BY <1>1 DEF BootTag
<1> HIDE DEF t, fs
<1>3. fs = {} => g = NoTag
  OBVIOUS
<1>4. fs # {} => g = 1
  OBVIOUS
<1> HIDE DEF g
<1>5. Agree(t)
  BY <1>1, <1>2, <1>3, <1>4 DEF Agree
<1>6. KeptInUse(t, held)
  BY DEF KeptInUse
<1> QED BY <1>1, <1>2, <1>5, <1>6 DEF Sane, t

LEMMA InitCareInv == Init => CareInv
<1> SUFFICES ASSUME Init PROVE CareInv
  OBVIOUS
<1>1. IInv
  BY InitIInv
<1>2. ASSUME NEW x \in Tags PROVE Sane(tags[x], Held(x))
  <2>1. tags[x] = BootTag(x) /\ Held(x) \subseteq {NoTag}
    BY DEF Init, Held, NoHandle
  <2> QED BY <2>1, BootSane
<1> QED BY <1>1, <1>2 DEF Init, CareInv

(* What a handle opened on a path in use keeps is in use.                  *)
LEMMA OpenSane ==
    ASSUME CareInv, NEW d \in [Tags -> Nat], Room(d), NEW h \in Handles, NEW on,
           \A x \in Tags : d[x] > 0 => /\ tags[x].cur # NoTag
                                       /\ tags[x].obj[tags[x].cur].in_use,
           tags' = PathCreate(d),
           fds' = [fds EXCEPT ![h] = [on |-> on, dir |-> d, sel |-> PathSel(tags', d)]],
           NEW x \in Tags
    PROVE  Sane(tags'[x], Held(x)')
<1> DEFINE t == tags'[x]
           new == [on |-> on, dir |-> d, sel |-> PathSel(tags', d)]
<1>1. t = compute_selected_tags(tags[x], d[x], Held(x))
  BY DEF PathCreate
<1>2. /\ Sane(t, Held(x))
      /\ d[x] > 0 => t.cur \in Structs /\ t.obj[t.cur].alloc /\ t.obj[t.cur].in_use
  BY <1>1, CreateSane
<1>3. new.sel[x] = IF d[x] > 0 THEN t.cur ELSE NoTag
  BY DEF PathSel
<1>4. fds' = [fds EXCEPT ![h] = new] /\ fds \in [Handles -> Handle]
  BY DEF CareInv, IInv, TypeOK
<1> HIDE DEF new, t
<1>5. \A k \in Handles : fds'[k] = IF k = h THEN new ELSE fds[k]
  BY <1>4
<1>6. \A g \in Held(x)' : g \in Held(x) \/ g = new.sel[x]
  BY <1>5 DEF Held
<1>7. KeptInUse(t, Held(x)')
  BY <1>2, <1>3, <1>6 DEF KeptInUse, Sane
<1> QED BY <1>2, <1>7 DEF Sane, t

LEMMA NextCareInv == ~CacheEntries /\ ~StrayHandles /\ CareInv /\ [Next]_vars => CareInv'
<1> SUFFICES ASSUME ~CacheEntries, ~StrayHandles, CareInv, [Next]_vars PROVE CareInv'
  OBVIOUS
<1>0. IInv' /\ IInv
  BY NextIInv DEF CareInv
<1>1. ASSUME NEW ts, tags' = ts, UNCHANGED fds, dentry' = NoDentry,
             \A x \in Tags : Sane(ts[x], Held(x))
      PROVE  CareInv'
  BY <1>0, <1>1 DEF CareInv, Held
<1>2. ASSUME NEW S PROVE Caches(S) = {NoDentry}
  BY DEF Caches
<1>3. ASSUME NEW d \in Dirs, NEW f \in Files, Resolves(d, f) PROVE Matches(d, f)
  BY <1>3, NamesAssumption DEF Resolves, CareInv
<1>4. ASSUME NEW d \in Dirs, NEW nm \in Names, tag_getattr(d, nm) PROVE CareInv'
  <2>1. tags' = PathVisit(d) /\ Room(d) /\ UNCHANGED fds
    BY <1>4 DEF tag_getattr, Serves
  <2>2. \A x \in Tags : Sane(PathVisit(d)[x], Held(x))
    BY <2>1, VisitSane, DirsType
  <2>3. dentry' = NoDentry
    BY <1>2, <1>4 DEF tag_getattr, CareInv
  <2> QED BY <1>1, <2>1, <2>2, <2>3
<1>5. ASSUME NEW d \in Dirs, Room(d), NEW h \in Handles, NEW on,
             \A x \in Tags : d[x] > 0 => /\ tags[x].cur # NoTag
                                         /\ tags[x].obj[tags[x].cur].in_use,
             tags' = PathCreate(d), UNCHANGED dentry,
             fds' = [fds EXCEPT ![h] = [on |-> on, dir |-> d, sel |-> PathSel(tags', d)]]
      PROVE  CareInv'
  <2>1. \A x \in Tags : Sane(tags'[x], Held(x)')
    BY <1>5, OpenSane, DirsType
  <2> QED BY <1>0, <1>5, <2>1 DEF CareInv
<1>6. ASSUME NEW h \in Handles, NEW d \in Dirs, NEW f \in Files, tag_open_file(h, d, f)
      PROVE  CareInv'
  <2>1. \A x \in Tags : d[x] > 0 => /\ tags[x].cur # NoTag
                                    /\ tags[x].obj[tags[x].cur].in_use
    BY <1>3, <1>6, MatchedInUse, DirsType, StructsType DEF tag_open_file, Names
  <2> QED BY <1>5, <1>6, <2>1 DEF tag_open_file, Serves
<1>7. ASSUME NEW h \in Handles, NEW d \in Dirs, tag_open_dir(h, d) PROVE CareInv'
  <2>1. \A x \in Tags : d[x] > 0 => /\ tags[x].cur # NoTag
                                    /\ tags[x].obj[tags[x].cur].in_use
    BY <1>7 DEF tag_open_dir, Listed, Sel
  <2> QED BY <1>5, <1>7, <2>1 DEF tag_open_dir, Serves
<1>8. ASSUME NEW d \in Dirs, tag_open_fails(d) PROVE CareInv'
  <2>1. tags' = PathCreate(d) /\ Room(d) /\ UNCHANGED <<fds, dentry>>
    BY <1>8 DEF tag_open_fails, Serves
  <2>2. \A x \in Tags : Sane(PathCreate(d)[x], Held(x))
    BY <2>1, CreateSane, DirsType DEF PathCreate
  <2> QED BY <1>1, <2>1, <2>2 DEF CareInv
<1>9. ASSUME NEW h \in Handles, tag_release_generic(h) PROVE CareInv'
  <2>1. /\ tags' = Released(h) /\ UNCHANGED dentry
        /\ fds' = [fds EXCEPT ![h] = NoHandle]
    BY <1>9 DEF tag_release_generic
  <2>2. ASSUME NEW x \in Tags PROVE Sane(tags'[x], Held(x)')
    <3>1. tags'[x] = tags[x] /\ Sane(tags[x], Held(x))
      BY <2>1, ReleaseSane DEF CareInv
    <3>2. \A k \in Handles : fds'[k] = IF k = h THEN NoHandle ELSE fds[k]
      BY <1>0, <2>1 DEF IInv, TypeOK
    <3>3. \A g \in Held(x)' : g \in Held(x) \/ g = NoTag
      BY <3>2 DEF Held, NoHandle
    <3>4. KeptInUse(tags[x], Held(x)')
      BY <3>1, <3>3 DEF KeptInUse, Sane
    <3> QED BY <3>1, <3>4 DEF Sane
  <2> QED BY <1>0, <2>1, <2>2 DEF CareInv
<1>10. ASSUME NEW h \in Handles, UseHandle(h) PROVE CareInv'
  <2> DEFINE b(x) == fds[h].dir[x] > 0 /\ ~tags[x].obj[fds[h].sel[x]].alloc
             ts == [x \in Tags |-> [tags[x] EXCEPT !.bad = b(x)]]
  <2>1. tags' = ts /\ UNCHANGED <<fds, dentry>>
    BY <1>10 DEF UseHandle
  <2>2. ASSUME NEW x \in Tags PROVE ts[x] = tags[x]
    <3>1. Sane(tags[x], Held(x)) /\ tags[x] \in TagEntry
      BY DEF CareInv, Sane, Good
    <3>2. fds[h].dir[x] > 0 => fds[h].sel[x] \in Structs /\ fds[h].sel[x] \in Held(x)
      BY <1>0 DEF IInv, TypeOK, Held
    <3>3. ~b(x) /\ ~tags[x].bad
      BY <1>10, <3>1, <3>2, StructsType DEF Sane, KeptInUse, UseHandle, Alive
    <3>4. ts[x] = [tags[x] EXCEPT !.bad = b(x)] /\ b(x) \in BOOLEAN
          /\ tags[x].bad \in BOOLEAN
      BY <3>1 DEF TagEntry
    <3>5. b(x) = FALSE /\ tags[x].bad = FALSE
      BY <3>3, <3>4
    <3> HIDE DEF b, ts
    <3> QED BY <3>1, <3>4, <3>5 DEF TagEntry
  <2>3. \A x \in Tags : Sane(ts[x], Held(x))
    BY <2>2 DEF CareInv
  <2> HIDE DEF ts
  <2> QED BY <1>1, <2>1, <2>3 DEF CareInv
<1>11. ASSUME NEW d \in Dirs, NEW e \in Dirs, NEW f \in Files, tag_link(d, f, e)
       PROVE  CareInv'
  <2>1. tags' = Linked(d, f, e) /\ Room(Both(d, e)) /\ UNCHANGED <<fds, dentry>>
        /\ Matches(d, f)
    BY <1>3, <1>11 DEF tag_link, ServesTwo
  <2>2. \A x \in Tags : Sane(Linked(d, f, e)[x], Held(x))
    BY <2>1, LinkSane, DirsType
  <2> QED BY <1>1, <2>1, <2>2 DEF CareInv
<1>12. ASSUME NEW d \in Dirs, NEW f \in Files, tag_unlink(d, f) PROVE CareInv'
  <2>1. tags' = Unlinked(d, f) /\ Room(d) /\ UNCHANGED fds /\ Matches(d, f)
    BY <1>3, <1>12 DEF tag_unlink, Serves
  <2>2. \A x \in Tags : Sane(Unlinked(d, f)[x], Held(x))
    BY <2>1, UnlinkSane, DirsType
  <2>3. dentry' = NoDentry
    BY <1>12 DEF tag_unlink, CareInv
  <2> QED BY <1>1, <2>1, <2>2, <2>3
<1>13. ASSUME NEW d \in Dirs, NEW e \in Dirs, NEW f \in Names, tag_rename(d, f, e)
       PROVE  CareInv'
  <2>1. /\ tags' = Renamed(d, f, e) /\ Room(Both(d, e)) /\ UNCHANGED fds
    BY <1>13 DEF tag_rename, ServesTwo
  <2>2. \A x \in Tags : Sane(Renamed(d, f, e)[x], Held(x))
    BY <2>1, RenameSane, DirsType
  <2>3. dentry' = NoDentry
    BY <1>2, <1>13 DEF tag_rename, CareInv
  <2> QED BY <1>1, <2>1, <2>2, <2>3
<1>14. ASSUME NEW d \in Dirs, NEW e \in Dirs, NEW f \in Names,
              tag_rename_refused(d, f, e)
       PROVE  CareInv'
  <2> DEFINE c == Both(d, e)
  <2>1. tags' = PathVisit(c) /\ Room(c) /\ UNCHANGED <<fds, dentry>>
    BY <1>14 DEF tag_rename_refused, ServesTwo
  <2>2. c \in [Tags -> Nat]
    BY BothType, DirsType
  <2> HIDE DEF c
  <2>3. \A x \in Tags : Sane(PathVisit(c)[x], Held(x))
    BY <2>1, <2>2, VisitSane
  <2> QED BY <1>1, <2>1, <2>3 DEF CareInv
<1>15. CASE Restart
  <2>1. ASSUME NEW x \in Tags PROVE Sane(tags'[x], Held(x)')
    <3>1. tags'[x] = BootTag(x) /\ Held(x)' \subseteq {NoTag}
      BY <1>15 DEF Restart, Held, NoHandle
    <3> QED BY <3>1, BootSane
  <2> QED BY <1>0, <1>15, <2>1 DEF Restart, CareInv
<1>16. CASE UNCHANGED vars
  <2>1. UNCHANGED <<tags, fds, dentry>>
    BY <1>16 DEF vars
  <2> QED BY <1>1, <2>1 DEF CareInv
<1> QED BY <1>4, <1>6, <1>7, <1>8, <1>9, <1>10, <1>11, <1>12, <1>13, <1>14, <1>15, <1>16
        DEF Next, tag_readdir, tag_fgetattr

LEMMA SpecCareInv == ASSUME ~CacheEntries, ~StrayHandles PROVE Spec => []CareInv
<1>1. CareInv /\ [Next]_vars => CareInv'
  BY NextCareInv
<1> QED BY <1>1, InitCareInv, PTL DEF Spec

(* The daemon stays intact if what is renamed is a file: the path that it  *)
(* is taken from exists then.                                              *)
LEMMA NextAlive ==
    ~CacheEntries /\ ~MovesDirs /\ CareInv /\ Alive /\ [Next]_vars => Alive'
<1> SUFFICES ASSUME ~CacheEntries, ~MovesDirs, CareInv, Alive, [Next]_vars,
                    NEW x \in Tags
             PROVE  ~tags'[x].bad
  BY DEF Alive
<1>1. ~tags[x].bad
  BY DEF Alive
<1>2. ASSUME NEW d \in Dirs, NEW f \in Files, Resolves(d, f) PROVE Matches(d, f)
  BY <1>2, NamesAssumption DEF Resolves, CareInv
<1>3. ASSUME NEW d \in Dirs, NEW nm \in Names, tag_getattr(d, nm) PROVE ~tags'[x].bad
  BY <1>1, <1>3, VisitSane, DirsType DEF tag_getattr, Serves
<1>4. ASSUME NEW d \in Dirs, Room(d), tags' = PathCreate(d) PROVE ~tags'[x].bad
  BY <1>1, <1>4, CreateSane, DirsType DEF PathCreate
<1>5. ASSUME NEW h \in Handles, tag_release_generic(h) PROVE ~tags'[x].bad
  BY <1>1, <1>5, ReleaseSane DEF tag_release_generic
<1>6. ASSUME NEW h \in Handles, UseHandle(h) PROVE ~tags'[x].bad
  <2> DEFINE b == fds[h].dir[x] > 0 /\ ~tags[x].obj[fds[h].sel[x]].alloc
  <2>1. Sane(tags[x], Held(x)) /\ tags[x] \in TagEntry
    BY DEF CareInv, Sane, Good
  <2>2. fds[h].dir[x] > 0 => fds[h].sel[x] \in Structs /\ fds[h].sel[x] \in Held(x)
    BY DEF CareInv, IInv, TypeOK, Held
  <2>3. ~b
    BY <2>1, <2>2, StructsType DEF Sane, KeptInUse
  <2>4. tags'[x] = [tags[x] EXCEPT !.bad = b]
    BY <1>6 DEF UseHandle
  <2> HIDE DEF b
  <2>5. tags'[x].bad = b
    BY <2>1, <2>4 DEF TagEntry
  <2> QED BY <2>3, <2>5
<1>7. ASSUME NEW d \in Dirs, NEW e \in Dirs, NEW f \in Files, tag_link(d, f, e)
      PROVE  ~tags'[x].bad
  BY <1>1, <1>2, <1>7, LinkSane, DirsType DEF tag_link, ServesTwo
<1>8. ASSUME NEW d \in Dirs, NEW f \in Files, tag_unlink(d, f) PROVE ~tags'[x].bad
  BY <1>1, <1>2, <1>8, UnlinkSane, DirsType DEF tag_unlink, Serves
<1>9. ASSUME NEW d \in Dirs, NEW e \in Dirs, NEW f \in Names, tag_rename(d, f, e)
      PROVE  ~tags'[x].bad
  <2>1. tags' = Renamed(d, f, e) /\ Room(Both(d, e)) /\ Matches(d, f)
    BY <1>2, <1>9 DEF tag_rename, ServesTwo, Renames
  <2> QED BY <1>1, <2>1, RenameSane, DirsType
<1>10. ASSUME NEW d \in Dirs, NEW e \in Dirs, NEW f \in Names, tag_rename_refused(d, f, e)
       PROVE  ~tags'[x].bad
  <2>1. Room(Both(d, e)) /\ tags' = PathVisit(Both(d, e))
    BY <1>10 DEF tag_rename_refused, ServesTwo
  <2> QED BY <1>1, <2>1, VisitSane, BothType, DirsType
<1>11. CASE Restart
  BY <1>11 DEF Restart, BootTag
<1>12. CASE UNCHANGED vars
  BY <1>1, <1>12 DEF vars
<1> QED BY <1>3, <1>4, <1>5, <1>6, <1>7, <1>8, <1>9, <1>10, <1>11, <1>12
        DEF Next, tag_open_file, tag_open_dir, tag_open_fails, tag_readdir,
            tag_fgetattr, Serves

------------------------------------------------------------------------------
(* The two indexes agree, for any files, tags, paths and handles: tag_file *)
(* and untag_file (file.c:29-58, tag.c:83-125) always meet the struct the  *)
(* table holds, whatever is renamed.                                       *)
THEOREM IndexesAgree == ASSUME ~CacheEntries, ~StrayHandles PROVE Spec => []TagIndexConsistent
<1>1. CareInv => TagIndexConsistent
  BY DEF CareInv, Sane, Agree, TagIndexConsistent
<1> QED BY <1>1, SpecCareInv, PTL

(* A file's tags can be listed, opened and looked up (tagfs.c:370,         *)
(* tag.c:73): none of them left the table while the file carried it.       *)
THEOREM CarriedTagsListed == ASSUME ~CacheEntries, ~StrayHandles PROVE Spec => []EveryTagIsListed
<1>1. CareInv => EveryTagIsListed
  <2> SUFFICES ASSUME CareInv, NEW f \in Files, NEW x \in Tags, tags[x].at[f] # NoTag
               PROVE  Listed(x)
    BY DEF EveryTagIsListed, rel, RelOf
  <2>1. /\ tags[x] \in TagEntry /\ Agree(tags[x]) /\ EntrySound(tags[x])
        /\ f \in Names /\ NoTag \notin Structs
    BY StructsType DEF CareInv, Sane, Good, Names
  <2>2. tags[x].at[f] \in Structs
    BY <2>1 DEF TagEntry
  <2>3. tags[x].cur = tags[x].at[f] /\ f \in tags[x].obj[tags[x].cur].files
    BY <2>1, <2>2 DEF Agree
  <2> QED BY <2>1, <2>2, <2>3 DEF EntrySound, Listed
<1> QED BY <1>1, SpecCareInv, PTL

(* No request reads a freed struct through a handle, and none is freed     *)
(* while a handle keeps it (file_descriptor.c, tag.c:127-152): not because *)
(* handles are counted, but because a tag in use is never given back.      *)
THEOREM HandlesKeepLiveTags ==
    ASSUME ~CacheEntries, ~StrayHandles, ~MovesDirs PROVE Spec => []NoUseAfterFree
<1>1. Init => Alive
  BY DEF Init, Alive, BootTag
<1>2. CareInv /\ Alive /\ [Next]_vars => Alive'
  BY NextAlive
<1>3. CareInv /\ Alive => NoUseAfterFree
  BY DEF CareInv, Sane, KeptInUse, NoUseAfterFree, Held
<1> QED BY <1>1, <1>2, <1>3, SpecCareInv, PTL DEF Spec

------------------------------------------------------------------------------
(* What names files only, when .tags does: what is no file is never tagged.*)
OnlyFilesTagged == \A x \in Tags, f \in Names : tags[x].at[f] # NoTag => f \in Files

LEMMA FilesOnly == ASSUME ~MovesDirs, DbIsCurrent PROVE Spec => []OnlyFilesTagged
<1>1. ASSUME NEW ts, ts = [x \in Tags |-> BootTag(x)], NEW x \in Tags, NEW f \in Names,
             ts[x].at[f] # NoTag
      PROVE  f \in Files
  <2>1. f \in DbFiles(x)
    BY <1>1 DEF BootTag
  <2> QED BY <2>1 DEF DbFiles, DbIsCurrent
<1>2. Init => OnlyFilesTagged
  BY <1>1 DEF Init, OnlyFilesTagged
<1>3. IInv /\ OnlyFilesTagged /\ [Next]_vars => OnlyFilesTagged'
  <2> SUFFICES ASSUME IInv, OnlyFilesTagged, [Next]_vars,
                      NEW x \in Tags, NEW f \in Names, tags'[x].at[f] # NoTag, f \notin Files
               PROVE  FALSE
    BY DEF OnlyFilesTagged
  <2>1. tags[x].at[f] = NoTag
    BY DEF OnlyFilesTagged
  <2>2. ASSUME tags'[x].at = tags[x].at PROVE FALSE
    BY <2>1, <2>2
  <2>3. ASSUME NEW q \in Files, Gains(tags[x].at, tags'[x].at, q) PROVE FALSE
    BY <2>1, <2>3 DEF Gains
  <2>4. ASSUME NEW q \in Files, Loses(tags[x].at, tags'[x].at, q) PROVE FALSE
    BY <2>1, <2>4 DEF Loses
  <2>5. ASSUME NEW d \in Dirs, NEW nm \in Names, tag_getattr(d, nm) PROVE FALSE
    BY <2>2, <2>5, VisitGood, DirsType DEF tag_getattr, Serves
  <2>6. ASSUME NEW d \in Dirs, Room(d), tags' = PathCreate(d) PROVE FALSE
    BY <2>2, <2>6, CreateGood, DirsType DEF PathCreate
  <2>7. ASSUME NEW h \in Handles, tag_release_generic(h) PROVE FALSE
    BY <2>2, <2>7, ReleaseGood DEF tag_release_generic
  <2>8. ASSUME NEW h \in Handles, UseHandle(h) PROVE FALSE
    <3>1. tags[x] \in TagEntry
      BY DEF IInv, TypeOK
    <3>2. tags'[x].at = tags[x].at
      BY <2>8, <3>1 DEF UseHandle, TagEntry
    <3> QED BY <2>2, <3>2
  <2>9. ASSUME NEW d \in Dirs, NEW e \in Dirs, NEW q \in Files, tag_link(d, q, e)
        PROVE  FALSE
    <3>1. Room(Both(d, e)) /\ tags' = Linked(d, q, e) /\ q \in Names
      BY <2>9 DEF tag_link, ServesTwo, Names
    <3>2. Gains(tags[x].at, tags'[x].at, q) \/ tags'[x].at = tags[x].at
      BY <3>1, LinkGood, DirsType
    <3> QED BY <2>2, <2>3, <3>2
  <2>10. ASSUME NEW d \in Dirs, NEW q \in Files, tag_unlink(d, q) PROVE FALSE
    <3>1. Room(d) /\ tags' = Unlinked(d, q) /\ q \in Names
      BY <2>10 DEF tag_unlink, Serves, Names
    <3>2. Loses(tags[x].at, tags'[x].at, q) \/ tags'[x].at = tags[x].at
      BY <3>1, UnlinkGood, DirsType
    <3> QED BY <2>2, <2>4, <3>2
  <2>11. ASSUME NEW d \in Dirs, NEW e \in Dirs, NEW q \in Names, tag_rename(d, q, e)
         PROVE  FALSE
    <3>1. Room(Both(d, e)) /\ tags' = Renamed(d, q, e) /\ q \in Files
      BY <2>11 DEF tag_rename, ServesTwo, Renames
    <3>2. \/ Loses(tags[x].at, tags'[x].at, q)
          \/ Gains(tags[x].at, tags'[x].at, q)
          \/ tags'[x].at = tags[x].at
      BY <3>1, RenameGood, DirsType
    <3> QED BY <2>2, <2>3, <2>4, <3>1, <3>2
  <2>12. ASSUME NEW d \in Dirs, NEW e \in Dirs, NEW q \in Names,
                tag_rename_refused(d, q, e)
         PROVE  FALSE
    <3>1. Room(Both(d, e)) /\ tags' = PathVisit(Both(d, e))
      BY <2>12 DEF tag_rename_refused, ServesTwo
    <3> QED BY <2>2, <3>1, VisitGood, BothType, DirsType
  <2>13. CASE Restart
    BY <1>1, <2>13 DEF Restart
  <2>14. CASE UNCHANGED vars
    BY <2>2, <2>14 DEF vars
  <2> QED BY <2>5, <2>6, <2>7, <2>8, <2>9, <2>10, <2>11, <2>12, <2>13, <2>14
          DEF Next, tag_open_file, tag_open_dir, tag_open_fails, tag_readdir,
              tag_fgetattr, Serves
<1> QED BY <1>2, <1>3, SpecIInv, PTL DEF Spec

------------------------------------------------------------------------------
(* What the root lists.  Between requests, the tag in the table is in use  *)
(* only if its struct has files, and these have the tag, under whichever   *)
(* struct.  Nothing is needed about the structs that have left the table,  *)
(* so handles may keep what they like.                                     *)
Tidy(t) == t.cur # NoTag /\ t.obj[t.cur].in_use => t.obj[t.cur].files # {}
Mirrored(t) == t.cur # NoTag => \A f \in t.obj[t.cur].files : t.at[f] # NoTag
Neat(t) == Tidy(t) /\ Mirrored(t)

NeatInv == /\ IInv
           /\ dentry = NoDentry
           /\ \A x \in Tags : Neat(tags[x])

LEMMA ComputeNeat ==
    ASSUME NEW t, Good(t), Neat(t), NEW n \in Nat, NEW held, n > 0 => RoomFor(t, n, held)
    PROVE  Neat(compute_selected_tags(t, n, held))
<1> DEFINE r == compute_selected_tags(t, n, held)
<1>0. /\ t \in TagEntry /\ t.obj \in [Structs -> TagStruct]
      /\ t.cur \in Structs \cup {NoTag} /\ r.at = t.at
  BY ComputeGood DEF Good, TagEntry
<1>1. CASE n = 0
  BY <1>1 DEF compute_selected_tags
<1>2. CASE n # 0 /\ t.cur # NoTag
  <2> DEFINE p == t.obj[t.cur]
             o == [p EXCEPT !.ref = @ + n]
  <2>1. r = [t EXCEPT !.obj[t.cur] = o] /\ t.cur \in Structs
    BY <1>0, <1>2 DEF compute_selected_tags
  <2>2. o.files = p.files /\ o.in_use = p.in_use
    BY <1>0, <2>1 DEF TagStruct
  <2> HIDE DEF r, o
  <2>3. r.cur = t.cur /\ r.obj[t.cur] = o
    BY <1>0, <2>1 DEF TagEntry
  <2> QED BY <1>0, <2>2, <2>3 DEF Neat, Tidy, Mirrored, r
<1>3. CASE n # 0 /\ t.cur = NoTag
  <2> DEFINE g == CHOOSE g \in Unused(t, held) : TRUE
             o == [alloc |-> TRUE, in_use |-> FALSE, ref |-> n, files |-> {}]
  <2>1. g \in Structs
    BY <1>3 DEF RoomFor, Unused
  <2>2. r = [t EXCEPT !.cur = g, !.obj[g] = o]
    BY <1>3 DEF compute_selected_tags
  <2> HIDE DEF r, g
  <2>3. r.cur = g /\ r.obj[g] = o
    BY <1>0, <2>1, <2>2 DEF TagEntry
  <2> QED BY <2>3 DEF Neat, Tidy, Mirrored, r
<1> QED BY <1>1, <1>2, <1>3

(* What tag_remove leaves is not in the table, whichever struct it was.    *)
LEMMA RemoveNeat ==
    ASSUME NEW t \in TagEntry, NEW g, NEW n PROVE Neat(tag_remove(t, g, n))
<1>1. tag_remove(t, g, n).cur = NoTag
  BY DEF tag_remove, TagEntry
<1> QED BY <1>1 DEF Neat, Tidy, Mirrored

LEMMA FreeNeat ==
    ASSUME NEW t, Good(t), Neat(t), NEW g, NEW n PROVE Neat(free_selected_tags(t, g, n))
<1>1. t \in TagEntry
  BY DEF Good
<1>2. Neat([t EXCEPT !.bad = TRUE])
  BY <1>1 DEF TagEntry, Neat, Tidy, Mirrored
<1> QED BY <1>1, <1>2, RemoveNeat DEF free_selected_tags

LEMMA MkdirMirrored ==
    ASSUME NEW t, Good(t), Neat(t), t.cur \in Structs
    PROVE  Mirrored(tag_mkdir(t, t.cur))
<1> DEFINE p == t.obj[t.cur]
           o == [p EXCEPT !.in_use = TRUE]
           r == tag_mkdir(t, t.cur)
<1>1. t \in TagEntry /\ p \in TagStruct /\ t.obj \in [Structs -> TagStruct]
  BY DEF Good, TagEntry
<1>2. r = [t EXCEPT !.obj[t.cur] = o] /\ o.files = p.files
  BY <1>1 DEF tag_mkdir, TagEntry, TagStruct
<1> HIDE DEF r, o
<1>3. r.cur = t.cur /\ r.at = t.at /\ r.obj[t.cur] = o
  BY <1>1, <1>2 DEF TagEntry
<1> QED BY <1>2, <1>3 DEF Neat, Mirrored, r

LEMMA TagFileNeat ==
    ASSUME NEW t, Good(t), Mirrored(t), t.cur \in Structs, NEW f \in Names
    PROVE  Neat(tag_file(t, t.cur, f))
<1> DEFINE p == t.obj[t.cur]
           o == [p EXCEPT !.files = @ \cup {f}, !.in_use = TRUE]
           at == [t.at EXCEPT ![f] = IF t.at[f] = NoTag THEN t.cur ELSE t.at[f]]
           r == tag_file(t, t.cur, f)
<1>1. /\ t \in TagEntry /\ p \in TagStruct /\ t.obj \in [Structs -> TagStruct]
      /\ t.at \in [Names -> Structs \cup {NoTag}] /\ t.cur # NoTag
  BY StructsType DEF Good, TagEntry
<1>2. r = [t EXCEPT !.at = at, !.obj[t.cur] = o] /\ o.files = p.files \cup {f}
  BY <1>1 DEF tag_file, TagEntry, TagStruct
<1>3. \A e \in Names : at[e] = IF e = f /\ t.at[f] = NoTag THEN t.cur ELSE t.at[e]
  BY <1>1
<1>4. p.files \subseteq Names
  BY <1>1 DEF TagStruct
<1> HIDE DEF r, o, at
<1>5. r.cur = t.cur /\ r.at = at /\ r.obj[t.cur] = o
  BY <1>1, <1>2 DEF TagEntry
<1> QED BY <1>1, <1>2, <1>3, <1>4, <1>5 DEF Neat, Tidy, Mirrored, r

LEMMA PathUnlinkNeat ==
    ASSUME NEW t, Good(t), Neat(t), NEW n, n # 0 => t.cur \in Structs, NEW f \in Names
    PROVE  Neat(path_unlink(t, t.cur, n, f))
<1> DEFINE p == t.obj[t.cur]
           o == [p EXCEPT !.files = @ \ {f}]
           at == [t.at EXCEPT ![f] = NoTag]
           u == untag_file(t, t.cur, f)
           r == path_unlink(t, t.cur, n, f)
<1>1. CASE n = 0
  BY <1>1 DEF path_unlink
<1>2. CASE n # 0
  <2>1. /\ t \in TagEntry /\ p \in TagStruct /\ t.obj \in [Structs -> TagStruct]
        /\ t.at \in [Names -> Structs \cup {NoTag}] /\ t.cur \in Structs
        /\ u \in TagEntry
    BY <1>2, UntagGood DEF Good, TagEntry
  <2>2. u = [t EXCEPT !.at = at, !.obj[t.cur] = o] /\ o.files = p.files \ {f}
    BY <2>1 DEF untag_file, TagEntry, TagStruct
  <2>3. \A e \in Names : at[e] = IF e = f THEN NoTag ELSE t.at[e]
    BY <2>1
  <2>4. p.files \subseteq Names
    BY <2>1 DEF TagStruct
  <2>5. r = IF u.obj[t.cur].files = {} THEN tag_remove(u, t.cur, n) ELSE u
    BY <1>2 DEF path_unlink
  <2> HIDE DEF r, o, at, u
  <2>6. u.cur = t.cur /\ u.at = at /\ u.obj[t.cur] = o
    BY <2>1, <2>2 DEF TagEntry
  <2>7. u.obj[t.cur].files # {} => Neat(u)
    BY <2>1, <2>2, <2>3, <2>4, <2>6 DEF Neat, Tidy, Mirrored
  <2> QED BY <2>1, <2>5, <2>7, RemoveNeat DEF r
<1> QED BY <1>1, <1>2

(* The requests, for each tag name.                                        *)
LEMMA CreateNeat ==
    ASSUME NeatInv, NEW d \in [Tags -> Nat], Room(d), NEW x \in Tags
    PROVE  LET t == compute_selected_tags(tags[x], d[x], Held(x))
           IN  /\ Neat(t) /\ Good(t)
               /\ d[x] > 0 => t.cur \in Structs /\ t.obj[t.cur].alloc
<1>1. Good(tags[x]) /\ Neat(tags[x]) /\ IInv
  BY DEF NeatInv, IInv, TypeOK, EntriesSound, Good
<1> QED BY <1>1, RoomForOne, ComputeNeat, CreateGood

LEMMA VisitNeat ==
    ASSUME NeatInv, NEW d \in [Tags -> Nat], Room(d), NEW x \in Tags
    PROVE  Neat(PathVisit(d)[x])
BY CreateNeat, FreeNeat DEF PathVisit, PathCreate

LEMMA LinkNeat ==
    ASSUME NeatInv, NEW d \in [Tags -> Nat], NEW e \in [Tags -> Nat],
           Room(Both(d, e)), NEW f \in Files, Matches(d, f), NEW x \in Tags
    PROVE  Neat(Linked(d, f, e)[x])
<1> DEFINE n == d[x] + e[x]
           t == compute_selected_tags(tags[x], n, Held(x))
           m == IF OneTag(e) /\ e[x] > 0 THEN tag_mkdir(t, t.cur) ELSE t
           l == IF e[x] > 0 THEN tag_file(m, t.cur, f) ELSE m
<1>1. Linked(d, f, e)[x] = free_selected_tags(l, t.cur, n)
  BY DEF Linked, Found, LookupResult
<1>2. d[x] \in Nat /\ e[x] \in Nat /\ f \in Names /\ (e[x] > 0 => n > 0)
  BY DEF Names
<1>3. Neat(t) /\ Good(t) /\ (n > 0 => t.cur \in Structs /\ t.obj[t.cur].alloc)
  BY BothType, CreateNeat
<1> HIDE DEF n, t
<1>4. CASE e[x] > 0
  <2>1. Good(m) /\ Mirrored(m) /\ m.cur = t.cur /\ m.obj[t.cur].alloc
    BY <1>2, <1>3, <1>4, MkdirGood, MkdirMirrored DEF Neat
  <2>2. l = tag_file(m, m.cur, f)
    BY <1>4, <2>1
  <2> HIDE DEF m, l
  <2>3. Good(l) /\ Neat(l)
    BY <1>2, <1>3, <1>4, <2>1, <2>2, TagFileGood, TagFileNeat
  <2> QED BY <1>1, <2>3, FreeNeat
<1>5. CASE ~(e[x] > 0)
  BY <1>1, <1>3, <1>5, FreeNeat
<1> QED BY <1>4, <1>5

LEMMA UnlinkNeat ==
    ASSUME NeatInv, NEW d \in [Tags -> Nat], Room(d), NEW f \in Names, NEW x \in Tags
    PROVE  Neat(Unlinked(d, f)[x])
<1> DEFINE t == compute_selected_tags(tags[x], d[x], Held(x))
           u == path_unlink(t, t.cur, d[x], f)
<1>1. Unlinked(d, f)[x] = free_selected_tags(u, t.cur, d[x])
  BY DEF Unlinked
<1>2. Neat(t) /\ Good(t) /\ d[x] \in Nat /\ (d[x] > 0 => t.cur \in Structs)
  BY CreateNeat
<1> HIDE DEF t
<1>3. Neat(u)
  BY <1>2, PathUnlinkNeat
<1>4. Good(u)
  BY <1>2, PathUnlinkGood
<1> HIDE DEF u
<1> QED BY <1>1, <1>3, <1>4, FreeNeat

LEMMA RenameNeat ==
    ASSUME NeatInv, NEW d \in [Tags -> Nat], NEW e \in [Tags -> Nat],
           Room(Both(d, e)), NEW f \in Names, NEW x \in Tags
    PROVE  Neat(Renamed(d, f, e)[x])
<1> DEFINE n == d[x] + e[x]
           t == compute_selected_tags(tags[x], n, Held(x))
           l == IF Found(d, f) /\ e[x] > 0 THEN tag_file(t, t.cur, f) ELSE t
           u == path_unlink(l, t.cur, d[x], f)
<1>1. Renamed(d, f, e)[x] = free_selected_tags(u, t.cur, n)
  BY DEF Renamed
<1>2. d[x] \in Nat /\ (e[x] > 0 => n > 0) /\ (d[x] > 0 => n > 0)
  OBVIOUS
<1>3. Neat(t) /\ Good(t) /\ (n > 0 => t.cur \in Structs /\ t.obj[t.cur].alloc)
  BY BothType, CreateNeat
<1> HIDE DEF n, t
<1>4. Neat(l) /\ Good(l) /\ l.cur = t.cur
  BY <1>2, <1>3, TagFileGood, TagFileNeat DEF Neat
<1> HIDE DEF l
<1>5. /\ Neat(l) /\ Good(l) /\ d[x] \in Nat
      /\ d[x] > 0 => l.cur \in Structs
      /\ u = path_unlink(l, l.cur, d[x], f)
  BY <1>2, <1>3, <1>4
<1> HIDE DEF u
<1>6. Neat(u)
  BY <1>5, PathUnlinkNeat
<1>7. Good(u)
  BY <1>5, PathUnlinkGood
<1> QED BY <1>1, <1>6, <1>7, FreeNeat

LEMMA BootNeat == ASSUME NEW x \in Tags PROVE Neat(BootTag(x))
<1> DEFINE fs == DbFiles(x)
           g == IF fs = {} THEN NoTag ELSE 1
<1>1. 1 \in Structs /\ NoTag # 1 /\ fs \subseteq Names
  BY BoundsAssumption DEF Structs, NoTag, DbFiles
<1>2. /\ BootTag(x).cur = g
      /\ g # NoTag => BootTag(x).obj[g].files = fs
      /\ \A f \in fs : BootTag(x).at[f] = g
  BY <1>1 DEF BootTag
<1> HIDE DEF fs
<1> QED BY <1>1, <1>2 DEF Neat, Tidy, Mirrored

LEMMA NextNeatInv == ~CacheEntries /\ NeatInv /\ [Next]_vars => NeatInv'
<1> SUFFICES ASSUME ~CacheEntries, NeatInv, [Next]_vars PROVE NeatInv'
  OBVIOUS
<1>1. IInv' /\ IInv /\ dentry = NoDentry
  BY NextIInv DEF NeatInv
<1>2. ASSUME NEW S PROVE Caches(S) = {NoDentry}
  BY DEF Caches
<1>3. dentry' = NoDentry
  BY <1>1, <1>2 DEF Next, vars, tag_getattr, tag_open_file, tag_open_dir, tag_open_fails,
                    tag_release_generic, UseHandle, tag_readdir, tag_fgetattr, tag_link,
                    tag_unlink, tag_rename, tag_rename_refused, Restart
<1> SUFFICES ASSUME NEW x \in Tags PROVE Neat(tags'[x])
  BY <1>1, <1>3 DEF NeatInv
<1>4. Neat(tags[x]) /\ Good(tags[x])
  BY DEF NeatInv, IInv, TypeOK, EntriesSound, Good
<1>5. ASSUME NEW d \in Dirs, NEW nm \in Names, tag_getattr(d, nm) PROVE Neat(tags'[x])
  BY <1>5, VisitNeat, DirsType DEF tag_getattr, Serves
<1>6. ASSUME NEW d \in Dirs, Room(d), tags' = PathCreate(d) PROVE Neat(tags'[x])
  BY <1>6, CreateNeat, DirsType DEF PathCreate
<1>7. ASSUME NEW h \in Handles, tag_release_generic(h) PROVE Neat(tags'[x])
  BY <1>4, <1>7, FreeNeat DEF tag_release_generic, Released
<1>8. ASSUME NEW h \in Handles, UseHandle(h) PROVE Neat(tags'[x])
  <2>1. /\ tags'[x].cur = tags[x].cur /\ tags'[x].obj = tags[x].obj
        /\ tags'[x].at = tags[x].at
    BY <1>4, <1>8 DEF UseHandle, Good, TagEntry
  <2> QED BY <1>4, <2>1 DEF Neat, Tidy, Mirrored
<1>9. ASSUME NEW d \in Dirs, NEW e \in Dirs, NEW f \in Files, tag_link(d, f, e)
      PROVE  Neat(tags'[x])
  <2>1. tags' = Linked(d, f, e) /\ Room(Both(d, e)) /\ Matches(d, f)
    BY <1>1, <1>9, NamesAssumption DEF tag_link, ServesTwo, Resolves
  <2> QED BY <2>1, LinkNeat, DirsType
<1>10. ASSUME NEW d \in Dirs, NEW f \in Files, tag_unlink(d, f) PROVE Neat(tags'[x])
  BY <1>10, UnlinkNeat, DirsType DEF tag_unlink, Serves, Names
<1>11. ASSUME NEW d \in Dirs, NEW e \in Dirs, NEW f \in Names, tag_rename(d, f, e)
       PROVE  Neat(tags'[x])
  BY <1>11, RenameNeat, DirsType DEF tag_rename, ServesTwo
<1>12. ASSUME NEW d \in Dirs, NEW e \in Dirs, NEW f \in Names, tag_rename_refused(d, f, e)
       PROVE  Neat(tags'[x])
  <2>1. Room(Both(d, e)) /\ tags' = PathVisit(Both(d, e))
    BY <1>12 DEF tag_rename_refused, ServesTwo
  <2> QED BY <2>1, VisitNeat, BothType, DirsType
<1>13. CASE Restart
  BY <1>13, BootNeat DEF Restart
<1>14. CASE UNCHANGED vars
  BY <1>4, <1>14 DEF vars
<1> QED BY <1>5, <1>6, <1>7, <1>8, <1>9, <1>10, <1>11, <1>12, <1>13, <1>14
        DEF Next, tag_open_file, tag_open_dir, tag_open_fails, tag_readdir,
            tag_fgetattr, Serves

(* unlink and rename clean up behind the last file (tagfs.c:179-180), and  *)
(* a link marks its tag in use only when a file gets it: the root lists no *)
(* tag without files, through whatever directories are opened.             *)
THEOREM ListedTagsCarried ==
    ASSUME ~CacheEntries, ~MovesDirs, DbIsCurrent PROVE Spec => []ListedTagHasFiles
<1>1. Init => NeatInv
  BY InitIInv, BootNeat DEF Init, NeatInv
<1>2. NeatInv /\ [Next]_vars => NeatInv'
  BY NextNeatInv
<1>3. NeatInv /\ OnlyFilesTagged => ListedTagHasFiles
  <2> SUFFICES ASSUME NeatInv, OnlyFilesTagged, NEW x \in Tags, Listed(x)
               PROVE  \E f \in Files : <<f, x>> \in rel
    BY DEF ListedTagHasFiles
  <2>1. tags[x] \in TagEntry /\ Neat(tags[x]) /\ tags[x].cur \in Structs
    BY DEF NeatInv, IInv, TypeOK, TagEntry, Listed
  <2>2. PICK f \in tags[x].obj[tags[x].cur].files : tags[x].at[f] # NoTag
    BY <2>1 DEF Neat, Tidy, Mirrored, Listed
  <2>3. f \in Files
    BY <2>1, <2>2, StructFields DEF OnlyFilesTagged
  <2> QED BY <2>2, <2>3 DEF rel, RelOf
<1> QED BY <1>1, <1>2, <1>3, FilesOnly, PTL DEF Spec

------------------------------------------------------------------------------
(* readdir of an open directory lists the tags that its files still have   *)
(* (tagfs.c:370), as long as none of its own tags has been removed since.  *)
THEOREM OpenDirectoryListsFresh ==
    ASSUME ~CacheEntries, ~StrayHandles, ~MovesDirs, DbIsCurrent
    PROVE  Spec => []FreshHandleListing
<1>1. CareInv /\ OnlyFilesTagged => FreshHandleListing
  <2> SUFFICES ASSUME CareInv, OnlyFilesTagged, NEW h \in Handles, OnTagDir(h),
                      \A x \in Sel(fds[h].dir) : fds[h].sel[x] = tags[x].cur
               PROVE  RemainingTags(h) = TagsOfListedFiles(h)
    BY DEF FreshHandleListing
  <2> DEFINE d == fds[h].dir
  <2>1. d \in [Tags -> Nat] /\ d # Root
    BY DirsType DEF CareInv, IInv, TypeOK, Handle, OnTagDir
  <2>2. PICK z \in Sel(d) : TRUE
    BY <2>1 DEF Sel, Root
  <2>3. ASSUME NEW x \in Sel(d)
        PROVE  /\ x \in Tags /\ fds[h].sel[x] \in Structs /\ fds[h].sel[x] = tags[x].cur
               /\ tags[x] \in TagEntry /\ Agree(tags[x])
    <3>1. x \in Tags /\ d[x] > 0
      BY DEF Sel
    <3> QED BY <3>1 DEF CareInv, IInv, TypeOK, Sane, Good
  <2>4. ASSUME NEW f \in SelectedFiles(h) PROVE f \in ListedFiles(h)
    <3>1. /\ \E x \in Sel(d) : f \in tags[x].obj[fds[h].sel[x]].files
          /\ \A x \in Sel(d) : tags[x].at[f] # NoTag
      BY DEF SelectedFiles
    <3>2. f \in Names
      BY <2>3, <3>1, StructFields
    <3>3. f \in Files
      BY <2>2, <2>3, <3>1, <3>2 DEF OnlyFilesTagged
    <3> QED BY <3>1, <3>3 DEF ListedFiles, Matches
  <2>5. ASSUME NEW f \in ListedFiles(h) PROVE f \in SelectedFiles(h)
    <3>1. f \in Files /\ f \in Names /\ \A x \in Sel(d) : tags[x].at[f] # NoTag
      BY DEF ListedFiles, Matches, Names
    <3>2. tags[z].at[f] \in Structs
      BY <2>2, <2>3, <3>1 DEF TagEntry
    <3>3. f \in tags[z].obj[fds[h].sel[z]].files
      BY <2>2, <2>3, <3>1, <3>2 DEF Agree
    <3> QED BY <2>2, <3>1, <3>3 DEF SelectedFiles
  <2>6. \A f \in ListedFiles(h) : f \in Files
    BY DEF ListedFiles
  <2> QED BY <2>4, <2>5, <2>6 DEF RemainingTags, TagsOfListedFiles, rel, RelOf
<1> QED BY <1>1, SpecCareInv, FilesOnly, PTL
==============================================================================
