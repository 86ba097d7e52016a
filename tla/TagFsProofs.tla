----------------------------- MODULE TagFsProofs -----------------------------
(* Theorems about TagFs, for any files, tags, paths, handles and bounds.   *)
EXTENDS TagFs, FiniteSetTheorems, TLAPS

(* What one path component needs: a struct to count, or to create.         *)
RoomFor(t, n, held) == IF t.cur # NoTag THEN t.obj[t.cur].ref + n <= MaxRef
                                        ELSE n <= MaxRef /\ Unused(t, held) # {}
Good(t) == t \in TagEntry /\ EntrySound(t)

(* What a request does to the entry of file f in the table of tag x.       *)
Gains(old, new, f) == new[f] # NoTag /\ \A e \in Names \ {f} : new[e] = old[e]
Loses(old, new, f) == new[f] = NoTag /\ \A e \in Names \ {f} : new[e] = old[e]

LEMMA StructsType == Structs \subseteq Nat /\ NoTag \notin Structs /\ MaxRef \in Nat
BY BoundsAssumption DEF Structs, NoTag

LEMMA StructFields ==
    ASSUME NEW t \in TagEntry, NEW g \in Structs
    PROVE  /\ t.obj[g] \in TagStruct /\ t.obj \in [Structs -> TagStruct]
           /\ t.obj[g].ref \in Nat /\ t.obj[g].ref <= MaxRef
           /\ t.obj[g].files \subseteq Names
           /\ t.obj[g].alloc \in BOOLEAN /\ t.obj[g].in_use \in BOOLEAN
           /\ t.at \in [Names -> Structs \cup {NoTag}]
           /\ t.cur \in Structs \cup {NoTag}
           /\ t.bad \in BOOLEAN
<1>1. t.obj \in [Structs -> TagStruct]
  BY DEF TagEntry
<1>2. t.obj[g] \in TagStruct
  BY <1>1
<1>3. t.obj[g].ref \in 0..MaxRef /\ t.obj[g].files \in SUBSET Names
      /\ t.obj[g].alloc \in BOOLEAN /\ t.obj[g].in_use \in BOOLEAN
  BY <1>2 DEF TagStruct
<1> QED BY <1>1, <1>2, <1>3, StructsType DEF TagEntry

(* Looking up or creating a component leaves a sound entry with a live     *)
(* struct in the table, and does not touch the files' tables.              *)
LEMMA ComputeGood ==
    ASSUME NEW t, Good(t), NEW n \in Nat, NEW held, n > 0 => RoomFor(t, n, held)
    PROVE  LET r == compute_selected_tags(t, n, held)
           IN  /\ Good(r) /\ r.at = t.at
               /\ n > 0 => r.cur \in Structs /\ r.obj[r.cur].alloc
<1> DEFINE r == compute_selected_tags(t, n, held)
<1>0. /\ t \in TagEntry /\ EntrySound(t) /\ MaxRef \in Nat
      /\ Structs \subseteq Nat /\ NoTag \notin Structs
  BY StructsType DEF Good
<1>1. CASE n = 0
  <2>1. r = t
    BY <1>1 DEF compute_selected_tags
  <2> QED BY <2>1, <1>0, <1>1
<1>2. CASE n > 0 /\ t.cur # NoTag
  <2>1. t.cur \in Structs
    BY <1>2, <1>0 DEF TagEntry
  <2>2. r = [t EXCEPT !.obj[t.cur].ref = @ + n]
    BY <1>2 DEF compute_selected_tags
  <2>3. t.obj[t.cur].ref \in Nat
    BY <1>0, <2>1, StructFields
  <2>4. t.obj[t.cur].ref + n <= MaxRef
    BY <1>2 DEF RoomFor
  <2>5. t.obj[t.cur].ref + n \in 0..MaxRef /\ t.obj[t.cur].ref \in Nat
    BY <2>3, <2>4, <1>0
  <2>6. t.obj[t.cur].alloc
    BY <1>2, <1>0 DEF EntrySound
  <2> DEFINE o == [t.obj[t.cur] EXCEPT !.ref = @ + n]
  <2>7. o \in TagStruct
    BY <2>1, <2>5, <1>0, StructFields DEF TagStruct
  <2>8. /\ r.cur = t.cur /\ r.at = t.at /\ r.obj = [t.obj EXCEPT ![t.cur] = o]
        /\ r \in TagEntry
    BY <2>1, <2>2, <2>7, <1>0 DEF TagEntry
  <2>9. EntrySound(r)
    BY <2>1, <2>5, <2>6, <2>8, <1>0, <1>2 DEF EntrySound, Freed, TagEntry, TagStruct
  <2> QED BY <2>1, <2>6, <2>7, <2>8, <2>9, <1>0 DEF Good, TagEntry, TagStruct
<1>3. CASE n > 0 /\ t.cur = NoTag
  <2> DEFINE g == CHOOSE g \in Unused(t, held) : TRUE
             o == [alloc |-> TRUE, in_use |-> FALSE, ref |-> n, files |-> {}]
  <2>1. g \in Unused(t, held)
    BY <1>3 DEF RoomFor
  <2>2. g \in Structs /\ \A f \in Names : t.at[f] # g
    BY <2>1 DEF Unused
  <2>3. r = [t EXCEPT !.cur = g, !.obj[g] = o]
    BY <1>3 DEF compute_selected_tags
  <2> HIDE DEF g
  <2>4. o \in TagStruct
    BY <1>3, <1>0 DEF RoomFor, TagStruct
  <2>5. [t.obj EXCEPT ![g] = o] \in [Structs -> TagStruct]
    BY <2>2, <2>4, <1>0 DEF TagEntry
  <2>6. r = [cur |-> g, obj |-> [t.obj EXCEPT ![g] = o], at |-> t.at, bad |-> t.bad]
    BY <2>3, <1>0 DEF TagEntry
  <2>7. r.cur = g /\ r.at = t.at /\ r.obj = [t.obj EXCEPT ![g] = o] /\ r \in TagEntry
    BY <2>2, <2>5, <2>6, <1>0 DEF TagEntry
  <2>8. EntrySound(r)
    BY <2>2, <2>7, <1>0, <1>3 DEF EntrySound, Freed, TagEntry, TagStruct
  <2> QED BY <2>2, <2>7, <2>8, <1>0 DEF Good, TagEntry
<1> QED BY <1>1, <1>2, <1>3

(* tag_remove, for one or more occurrences: the entry stays sound, and the *)
(* files of the struct lose it.                                            *)
LEMMA RemoveGood ==
    ASSUME NEW t, Good(t), NEW n \in Nat, NEW g \in Structs
    PROVE  LET r == tag_remove(t, g, n)
           IN  /\ Good(r)
               /\ r.at = [f \in Names |-> IF f \in t.obj[g].files THEN NoTag
                                                                  ELSE t.at[f]]
<1> DEFINE r  == tag_remove(t, g, n)
           p  == t.obj[g]
           o  == IF p.ref > n THEN [p EXCEPT !.ref = @ - n] ELSE Freed
           at == [f \in Names |-> IF f \in p.files THEN NoTag ELSE t.at[f]]
           b  == t.bad \/ p.ref < n
<1>1. /\ t \in TagEntry /\ EntrySound(t) /\ MaxRef \in Nat
      /\ Structs \subseteq Nat /\ NoTag \notin Structs
  BY StructsType DEF Good
<1>2. /\ p \in TagStruct /\ p.ref \in Nat /\ p.ref <= MaxRef
      /\ t.at \in [Names -> Structs \cup {NoTag}] /\ t.bad \in BOOLEAN
      /\ t.obj \in [Structs -> TagStruct]
  BY <1>1, StructFields
<1>3. Freed \in TagStruct
  BY <1>1 DEF Freed, TagStruct
<1>4. o \in TagStruct
  <2>1. CASE p.ref > n
    <3>1. p.ref - n \in 0..MaxRef
      BY <2>1, <1>1, <1>2
    <3> QED BY <2>1, <3>1, <1>2 DEF TagStruct
  <2> QED BY <2>1, <1>3
<1>5. at \in [Names -> Structs \cup {NoTag}]
  BY <1>2
<1>6. [t.obj EXCEPT ![g] = o] \in [Structs -> TagStruct]
  BY <1>2, <1>4
<1>7. r = [t EXCEPT !.cur = NoTag, !.at = at, !.obj[g] = o, !.bad = b]
  BY DEF tag_remove
<1> b \in BOOLEAN
  OBVIOUS
<1> HIDE DEF r, at, o, b
<1>8. r \in TagEntry /\ r.cur = NoTag /\ r.at = at /\ r.obj = [t.obj EXCEPT ![g] = o]
  BY <1>1, <1>5, <1>6, <1>7 DEF TagEntry
<1>9. \A f \in Names : r.at[f] # NoTag => f \in r.obj[r.at[f]].files
  <2> SUFFICES ASSUME NEW f \in Names, r.at[f] # NoTag
               PROVE  f \in r.obj[r.at[f]].files
    OBVIOUS
  <2>1. r.at[f] = t.at[f] /\ f \notin p.files
    BY <1>8 DEF at
  <2>2. f \in t.obj[t.at[f]].files /\ t.at[f] \in Structs
    BY <2>1, <1>1, <1>2 DEF EntrySound
  <2>3. t.at[f] # g
    BY <2>1, <2>2
  <2> QED BY <2>1, <2>2, <2>3, <1>8, <1>2
<1>10. ASSUME NEW q \in Structs
       PROVE  /\ r.obj[q].files # {} => r.obj[q].alloc /\ r.obj[q].in_use
              /\ r.obj[q].alloc => r.obj[q].ref > 0
              /\ ~r.obj[q].alloc => r.obj[q] = Freed
  <2>1. CASE q # g
    BY <2>1, <1>8, <1>1, <1>2 DEF EntrySound
  <2>2. CASE q = g
    <3>1. r.obj[q] = o
      BY <2>2, <1>8, <1>2
    <3>2. CASE p.ref > n
      <4>1. o = [p EXCEPT !.ref = @ - n]
        BY <3>2 DEF o
      <4>2. o.files = p.files /\ o.alloc = p.alloc /\ o.in_use = p.in_use
        BY <4>1, <1>2 DEF TagStruct
      <4>3. o.ref = p.ref - n
        BY <4>1, <1>2 DEF TagStruct
      <4>4. o.ref > 0
        BY <4>3, <1>2, <3>2
      <4>5. p.alloc
        BY <3>2, <1>1, <1>2 DEF EntrySound, Freed
      <4> QED BY <3>1, <4>2, <4>4, <4>5, <1>1 DEF EntrySound
    <3>3. CASE ~(p.ref > n)
      <4>1. o = Freed
        BY <3>3 DEF o
      <4> QED BY <3>1, <4>1 DEF Freed
    <3> QED BY <3>2, <3>3
  <2> QED BY <2>1, <2>2
<1>11. EntrySound(r)
  BY <1>8, <1>9, <1>10 DEF EntrySound
<1> QED BY <1>8, <1>11 DEF Good, at, r

(* Giving a path's tag back never touches the files' tables: a tag that is *)
(* not in use has no files.                                                *)
LEMMA FreeGood ==
    ASSUME NEW t, Good(t), NEW n \in Nat, NEW g, n > 0 => g \in Structs
    PROVE  LET r == free_selected_tags(t, g, n)
           IN  Good(r) /\ r.at = t.at
<1> DEFINE r == free_selected_tags(t, g, n)
<1>1. CASE n = 0 \/ (t.obj[g].alloc /\ t.obj[g].in_use)
  BY <1>1 DEF free_selected_tags
<1>2. CASE n > 0 /\ ~t.obj[g].alloc
  <2>1. r = [t EXCEPT !.bad = TRUE]
    BY <1>2 DEF free_selected_tags
  <2>2. r \in TagEntry /\ r.cur = t.cur /\ r.obj = t.obj /\ r.at = t.at
    BY <2>1 DEF Good, TagEntry
  <2> QED BY <2>2 DEF Good, EntrySound
<1>3. CASE n > 0 /\ t.obj[g].alloc /\ ~t.obj[g].in_use
  <2>1. r = tag_remove(t, g, n)
    BY <1>3 DEF free_selected_tags
  <2>2. t.obj[g].files = {}
    BY <1>3 DEF Good, EntrySound
  <2>3. t.at \in [Names -> Structs \cup {NoTag}]
    BY DEF Good, TagEntry
  <2>4. Good(r) /\ r.at = [f \in Names |-> IF f \in t.obj[g].files THEN NoTag
                                                                   ELSE t.at[f]]
    BY <1>3, <2>1, RemoveGood
  <2> QED BY <2>2, <2>3, <2>4
<1> QED BY <1>1, <1>2, <1>3

(* tag_file: the file has the tag afterwards, under whichever struct.      *)
LEMMA TagFileGood ==
    ASSUME NEW t, Good(t), NEW g \in Structs, t.obj[g].alloc, NEW f \in Names
    PROVE  LET r == tag_file(t, g, f)
           IN  /\ Good(r) /\ r.cur = t.cur /\ r.at[f] # NoTag
               /\ \A e \in Names \ {f} : r.at[e] = t.at[e]
               /\ r.obj[g].alloc
<1> DEFINE r  == tag_file(t, g, f)
           p  == t.obj[g]
           o  == [p EXCEPT !.files = @ \cup {f}, !.in_use = TRUE]
           at == [t.at EXCEPT ![f] = IF t.at[f] = NoTag THEN g ELSE t.at[f]]
<1>1. /\ t \in TagEntry /\ EntrySound(t) /\ NoTag \notin Structs
      /\ p \in TagStruct /\ p.files \subseteq Names
      /\ t.at \in [Names -> Structs \cup {NoTag}]
      /\ t.obj \in [Structs -> TagStruct]
  BY StructsType, StructFields DEF Good
<1>2. o \in TagStruct
  BY <1>1 DEF TagStruct
<1>3. o.files = p.files \cup {f} /\ o.in_use /\ o.alloc = p.alloc /\ o.ref = p.ref
  BY <1>1 DEF TagStruct
<1>4. /\ at \in [Names -> Structs \cup {NoTag}] /\ at[f] # NoTag
      /\ at[f] = IF t.at[f] = NoTag THEN g ELSE t.at[f]
      /\ \A e \in Names \ {f} : at[e] = t.at[e]
  BY <1>1
<1>5. r = [t EXCEPT !.at = at, !.obj[g] = o]
  BY <1>1 DEF tag_file, TagEntry
<1> HIDE DEF r, at, o
<1>6. r \in TagEntry /\ r.cur = t.cur /\ r.at = at /\ r.obj = [t.obj EXCEPT ![g] = o]
  BY <1>1, <1>2, <1>4, <1>5 DEF TagEntry
<1>7. \A e \in Names : r.at[e] # NoTag => e \in r.obj[r.at[e]].files
  <2> SUFFICES ASSUME NEW e \in Names, r.at[e] # NoTag
               PROVE  e \in r.obj[r.at[e]].files
    OBVIOUS
  <2>1. CASE e = f /\ t.at[f] = NoTag
    BY <2>1, <1>1, <1>3, <1>4, <1>6
  <2>2. CASE e # f \/ t.at[f] # NoTag
    <3>1. r.at[e] = t.at[e] /\ t.at[e] \in Structs
      BY <2>2, <1>1, <1>4, <1>6
    <3>2. e \in t.obj[t.at[e]].files
      BY <3>1, <1>1 DEF EntrySound
    <3> QED BY <3>1, <3>2, <1>1, <1>3, <1>6
  <2> QED BY <2>1, <2>2
<1>8. EntrySound(r)
  <2>1. r.cur # NoTag => r.obj[r.cur].alloc
    <3>1. r.obj[g] = o /\ \A q \in Structs \ {g} : r.obj[q] = t.obj[q]
      BY <1>1, <1>6
    <3>2. CASE t.cur = g
      BY <3>1, <3>2, <1>3, <1>6
    <3>3. CASE t.cur # g
      BY <3>1, <3>3, <1>1, <1>6 DEF EntrySound, TagEntry
    <3> QED BY <3>2, <3>3
  <2>2. ASSUME NEW q \in Structs
        PROVE  /\ r.obj[q].files # {} => r.obj[q].alloc /\ r.obj[q].in_use
               /\ r.obj[q].alloc => r.obj[q].ref > 0
               /\ ~r.obj[q].alloc => r.obj[q] = Freed
    BY <1>1, <1>3, <1>6 DEF EntrySound
  <2> QED BY <1>7, <2>1, <2>2 DEF EntrySound
<1> QED BY <1>1, <1>3, <1>4, <1>6, <1>8 DEF Good, r

LEMMA MkdirGood ==
    ASSUME NEW t, Good(t), NEW g \in Structs, t.obj[g].alloc
    PROVE  LET r == tag_mkdir(t, g)
           IN  Good(r) /\ r.cur = t.cur /\ r.at = t.at /\ r.obj[g].alloc
<1> DEFINE r == tag_mkdir(t, g)
           p == t.obj[g]
           o == [p EXCEPT !.in_use = TRUE]
<1>1. /\ t \in TagEntry /\ EntrySound(t) /\ NoTag \notin Structs
      /\ p \in TagStruct /\ t.obj \in [Structs -> TagStruct]
  BY StructsType, StructFields DEF Good
<1>2. /\ o \in TagStruct /\ o.files = p.files /\ o.in_use
      /\ o.alloc = p.alloc /\ o.ref = p.ref
  BY <1>1 DEF TagStruct
<1>3. r = [t EXCEPT !.obj[g] = o]
  BY <1>1 DEF tag_mkdir, TagEntry
<1> HIDE DEF r, o
<1>4. r \in TagEntry /\ r.cur = t.cur /\ r.at = t.at /\ r.obj = [t.obj EXCEPT ![g] = o]
  BY <1>1, <1>2, <1>3 DEF TagEntry
<1>5. EntrySound(r)
  <2>1. r.cur # NoTag => r.obj[r.cur].alloc
    <3>1. r.obj[g] = o /\ \A q \in Structs \ {g} : r.obj[q] = t.obj[q]
      BY <1>1, <1>4
    <3>2. CASE t.cur = g
      BY <3>1, <3>2, <1>2, <1>4
    <3>3. CASE t.cur # g
      BY <3>1, <3>3, <1>1, <1>4 DEF EntrySound, TagEntry
    <3> QED BY <3>2, <3>3
  <2>2. \A e \in Names : r.at[e] # NoTag => e \in r.obj[r.at[e]].files
    <3>1. t.at \in [Names -> Structs \cup {NoTag}]
      BY <1>1 DEF TagEntry
    <3> QED BY <3>1, <1>1, <1>2, <1>4 DEF EntrySound
  <2>3. ASSUME NEW q \in Structs
        PROVE  /\ r.obj[q].files # {} => r.obj[q].alloc /\ r.obj[q].in_use
               /\ r.obj[q].alloc => r.obj[q].ref > 0
               /\ ~r.obj[q].alloc => r.obj[q] = Freed
    BY <1>1, <1>2, <1>4 DEF EntrySound
  <2> QED BY <2>1, <2>2, <2>3 DEF EntrySound
<1> QED BY <1>1, <1>2, <1>4, <1>5 DEF Good, r

(* untag_file: the file has not the tag afterwards.                        *)
LEMMA UntagGood ==
    ASSUME NEW t, Good(t), NEW g \in Structs, NEW f \in Names
    PROVE  LET r == untag_file(t, g, f)
           IN  /\ Good(r) /\ r.cur = t.cur
               /\ r.at = [t.at EXCEPT ![f] = NoTag]
<1> DEFINE r  == untag_file(t, g, f)
           p  == t.obj[g]
           o  == [p EXCEPT !.files = @ \ {f}]
           at == [t.at EXCEPT ![f] = NoTag]
<1>1. /\ t \in TagEntry /\ EntrySound(t) /\ NoTag \notin Structs
      /\ p \in TagStruct /\ p.files \subseteq Names
      /\ t.at \in [Names -> Structs \cup {NoTag}]
      /\ t.obj \in [Structs -> TagStruct]
  BY StructsType, StructFields DEF Good
<1>2. /\ o \in TagStruct /\ o.files = p.files \ {f} /\ o.in_use = p.in_use
      /\ o.alloc = p.alloc /\ o.ref = p.ref
  BY <1>1 DEF TagStruct
<1>3. at \in [Names -> Structs \cup {NoTag}]
  BY <1>1
<1>4. r = [t EXCEPT !.at = at, !.obj[g] = o]
  BY <1>1 DEF untag_file, TagEntry
<1>5. ~p.alloc => o = Freed
  BY <1>1, <1>2 DEF EntrySound, Freed
<1>6. \A e \in Names : at[e] # NoTag => e # f /\ at[e] = t.at[e]
  BY <1>1
<1> HIDE DEF r, at, o
<1>7. r \in TagEntry /\ r.cur = t.cur /\ r.at = at /\ r.obj = [t.obj EXCEPT ![g] = o]
  BY <1>1, <1>2, <1>3, <1>4 DEF TagEntry
<1>8. EntrySound(r)
  <2>1. r.cur # NoTag => r.obj[r.cur].alloc
    BY <1>1, <1>2, <1>7 DEF EntrySound, TagEntry
  <2>2. \A e \in Names : r.at[e] # NoTag => e \in r.obj[r.at[e]].files
    BY <1>1, <1>2, <1>6, <1>7 DEF EntrySound
  <2>3. ASSUME NEW q \in Structs
        PROVE  /\ r.obj[q].files # {} => r.obj[q].alloc /\ r.obj[q].in_use
               /\ r.obj[q].alloc => r.obj[q].ref > 0
               /\ ~r.obj[q].alloc => r.obj[q] = Freed
    BY <1>1, <1>2, <1>5, <1>7 DEF EntrySound
  <2> QED BY <2>1, <2>2, <2>3 DEF EntrySound
<1> QED BY <1>7, <1>8 DEF Good, r, at

(* path_unlink takes one entry out of the tag's column of the relation.    *)
LEMMA PathUnlinkGood ==
    ASSUME NEW t, Good(t), NEW n \in Nat, NEW g, n > 0 => g \in Structs,
           NEW f \in Names
    PROVE  LET r == path_unlink(t, g, n, f)
           IN  /\ Good(r)
               /\ n = 0 => r.at = t.at
               /\ n > 0 => Loses(t.at, r.at, f)
<1> DEFINE r == path_unlink(t, g, n, f)
           u == untag_file(t, g, f)
<1>1. CASE n = 0
  BY <1>1 DEF path_unlink
<1>2. ASSUME n > 0
      PROVE  Good(r) /\ Loses(t.at, r.at, f)
  <2>1. g \in Structs
    BY <1>2
  <2>2. Good(u) /\ u.at = [t.at EXCEPT ![f] = NoTag]
    BY <2>1, UntagGood
  <2>3. u.at \in [Names -> Structs \cup {NoTag}]
        /\ t.at \in [Names -> Structs \cup {NoTag}]
    BY <2>2 DEF Good, TagEntry
  <2>4. Loses(t.at, u.at, f)
    BY <2>2, <2>3 DEF Loses
  <2>5. r = IF u.obj[g].files = {} THEN tag_remove(u, g, n) ELSE u
    BY <1>2 DEF path_unlink
  <2> HIDE DEF u, r
  <2>6. /\ Good(tag_remove(u, g, n))
        /\ tag_remove(u, g, n).at =
             [e \in Names |-> IF e \in u.obj[g].files THEN NoTag ELSE u.at[e]]
    <3>1. g \in Structs /\ Good(u)
      BY <2>1, <2>2
    <3> QED BY <3>1, RemoveGood
  <2>7. Good(r) /\ r.at = u.at
    BY <2>2, <2>3, <2>5, <2>6
  <2> QED BY <2>4, <2>7
<1> QED BY <1>1, <1>2

------------------------------------------------------------------------------
(* Whole requests, one tag name at a time.                                 *)
IInv == TypeOK /\ EntriesSound

LEMMA RoomForOne ==
    ASSUME NEW d \in [Tags -> Nat], Room(d), NEW x \in Tags
    PROVE  d[x] \in Nat /\ (d[x] > 0 => RoomFor(tags[x], d[x], Held(x)))
BY DEF Room, RoomFor, Sel

LEMMA BothType ==
    ASSUME NEW d \in [Tags -> Nat], NEW e \in [Tags -> Nat]
    PROVE  Both(d, e) \in [Tags -> Nat]
           /\ \A x \in Tags : Both(d, e)[x] = d[x] + e[x]
BY DEF Both

LEMMA DirsType == ASSUME NEW d \in Dirs PROVE d \in [Tags -> Nat]
BY DirsAssumption

LEMMA CreateGood ==
    ASSUME IInv, NEW d \in [Tags -> Nat], Room(d), NEW x \in Tags
    PROVE  LET t == compute_selected_tags(tags[x], d[x], Held(x))
           IN  /\ Good(t) /\ t.at = tags[x].at
               /\ d[x] > 0 => t.cur \in Structs /\ t.obj[t.cur].alloc
<1>1. Good(tags[x])
  BY DEF IInv, TypeOK, EntriesSound, Good
<1>2. d[x] \in Nat /\ (d[x] > 0 => RoomFor(tags[x], d[x], Held(x)))
  BY RoomForOne
<1> QED BY <1>1, <1>2, ComputeGood

LEMMA VisitGood ==
    ASSUME IInv, NEW d \in [Tags -> Nat], Room(d), NEW x \in Tags
    PROVE  Good(PathVisit(d)[x]) /\ PathVisit(d)[x].at = tags[x].at
<1> DEFINE t == compute_selected_tags(tags[x], d[x], Held(x))
<1>1. PathVisit(d)[x] = free_selected_tags(t, t.cur, d[x])
  BY DEF PathVisit, PathCreate
<1>2. Good(t) /\ t.at = tags[x].at /\ d[x] \in Nat /\ (d[x] > 0 => t.cur \in Structs)
  BY CreateGood
<1> HIDE DEF t
<1> QED BY <1>1, <1>2, FreeGood

LEMMA ReleaseGood ==
    ASSUME IInv, NEW h \in Handles, NEW x \in Tags
    PROVE  Good(Released(h)[x]) /\ Released(h)[x].at = tags[x].at
<1> DEFINE n == fds[h].dir[x]
           g == fds[h].sel[x]
<1>1. Good(tags[x])
  BY DEF IInv, TypeOK, EntriesSound, Good
<1>2. n \in Nat
  BY DirsAssumption DEF IInv, TypeOK, Handle
<1>3. n > 0 => g \in Structs
  BY DEF IInv, TypeOK
<1>4. Released(h)[x] = free_selected_tags(tags[x], g, n)
  BY DEF Released
<1> HIDE DEF n, g
<1> QED BY <1>1, <1>2, <1>3, <1>4, FreeGood

LEMMA LinkGood ==
    ASSUME IInv, NEW d \in [Tags -> Nat], NEW e \in [Tags -> Nat],
           Room(Both(d, e)), NEW f \in Names, NEW x \in Tags
    PROVE  LET r == Linked(d, f, e)[x]
           IN  /\ Good(r)
               /\ IF Found(d, f) /\ e[x] > 0 THEN Gains(tags[x].at, r.at, f)
                                             ELSE r.at = tags[x].at
<1> DEFINE n == d[x] + e[x]
           t == compute_selected_tags(tags[x], n, Held(x))
           m == IF OneTag(e) /\ e[x] > 0 THEN tag_mkdir(t, t.cur) ELSE t
           l == IF Found(d, f) /\ e[x] > 0 THEN tag_file(m, t.cur, f) ELSE m
           r == Linked(d, f, e)[x]
<1>1. r = free_selected_tags(l, t.cur, n)
  BY DEF Linked
<1>2. d[x] \in Nat /\ e[x] \in Nat /\ n \in Nat /\ (e[x] > 0 => n > 0)
  OBVIOUS
<1>3. /\ Good(t) /\ t.at = tags[x].at
      /\ n > 0 => t.cur \in Structs /\ t.obj[t.cur].alloc
  BY CreateGood, BothType
<1> HIDE DEF n, t, r
<1>4. /\ Good(m) /\ m.at = tags[x].at /\ m.cur = t.cur
      /\ n > 0 => m.obj[t.cur].alloc
  <2>1. CASE OneTag(e) /\ e[x] > 0
    BY <2>1, <1>2, <1>3, MkdirGood
  <2>2. CASE ~(OneTag(e) /\ e[x] > 0)
    BY <2>2, <1>3
  <2> QED BY <2>1, <2>2
<1> HIDE DEF m
<1>5. /\ Good(l)
      /\ IF Found(d, f) /\ e[x] > 0 THEN Gains(tags[x].at, l.at, f)
                                    ELSE l.at = tags[x].at
  <2>1. CASE Found(d, f) /\ e[x] > 0
    <3>1. t.cur \in Structs /\ Good(m) /\ m.obj[t.cur].alloc
      BY <2>1, <1>2, <1>3, <1>4
    <3>2. l = tag_file(m, t.cur, f)
      BY <2>1
    <3> HIDE DEF l
    <3>3. /\ Good(l) /\ l.at[f] # NoTag
          /\ \A q \in Names \ {f} : l.at[q] = m.at[q]
      BY <3>1, <3>2, TagFileGood
    <3> QED BY <2>1, <3>3, <1>4 DEF Gains
  <2>2. CASE ~(Found(d, f) /\ e[x] > 0)
    BY <2>2, <1>4
  <2> QED BY <2>1, <2>2
<1> HIDE DEF l
<1>6. Good(r) /\ r.at = l.at
  BY <1>1, <1>2, <1>3, <1>5, FreeGood
<1> QED BY <1>5, <1>6 DEF r

LEMMA UnlinkGood ==
    ASSUME IInv, NEW d \in [Tags -> Nat], Room(d), NEW f \in Names, NEW x \in Tags
    PROVE  LET r == Unlinked(d, f)[x]
           IN  /\ Good(r)
               /\ IF d[x] > 0 THEN Loses(tags[x].at, r.at, f)
                              ELSE r.at = tags[x].at
<1> DEFINE t == compute_selected_tags(tags[x], d[x], Held(x))
           u == path_unlink(t, t.cur, d[x], f)
           r == Unlinked(d, f)[x]
<1>1. r = free_selected_tags(u, t.cur, d[x])
  BY DEF Unlinked
<1>2. d[x] \in Nat /\ Good(t) /\ t.at = tags[x].at /\ (d[x] > 0 => t.cur \in Structs)
  BY CreateGood
<1> HIDE DEF t
<1>3. /\ Good(u)
      /\ d[x] = 0 => u.at = t.at
      /\ d[x] > 0 => Loses(t.at, u.at, f)
  BY <1>2, PathUnlinkGood
<1> HIDE DEF u, r
<1>4. Good(r) /\ r.at = u.at
  BY <1>1, <1>2, <1>3, FreeGood
<1>5. IF d[x] > 0 THEN Loses(tags[x].at, r.at, f) ELSE r.at = tags[x].at
  BY <1>2, <1>3, <1>4
<1> QED BY <1>3, <1>4, <1>5 DEF r

LEMMA RenameGood ==
    ASSUME IInv, NEW d \in [Tags -> Nat], NEW e \in [Tags -> Nat],
           Room(Both(d, e)), NEW f \in Names, NEW x \in Tags
    PROVE  LET r == Renamed(d, f, e)[x]
           IN  /\ Good(r)
               /\ IF d[x] > 0 THEN Loses(tags[x].at, r.at, f)
                  ELSE IF Found(d, f) /\ e[x] > 0 THEN Gains(tags[x].at, r.at, f)
                  ELSE r.at = tags[x].at
<1> DEFINE n == d[x] + e[x]
           t == compute_selected_tags(tags[x], n, Held(x))
           l == IF Found(d, f) /\ e[x] > 0 THEN tag_file(t, t.cur, f) ELSE t
           u == path_unlink(l, t.cur, d[x], f)
           r == Renamed(d, f, e)[x]
<1>1. r = free_selected_tags(u, t.cur, n)
  BY DEF Renamed
<1>2. /\ d[x] \in Nat /\ e[x] \in Nat /\ n \in Nat
      /\ (e[x] > 0 => n > 0) /\ (d[x] > 0 => n > 0)
  OBVIOUS
<1>3. /\ Good(t) /\ t.at = tags[x].at
      /\ n > 0 => t.cur \in Structs /\ t.obj[t.cur].alloc
  BY CreateGood, BothType
<1>11. tags[x].at \in [Names -> Structs \cup {NoTag}]
  BY DEF IInv, TypeOK, TagEntry
<1> HIDE DEF n, t, r
<1>4. /\ Good(l)
      /\ IF Found(d, f) /\ e[x] > 0 THEN Gains(tags[x].at, l.at, f)
                                    ELSE l.at = tags[x].at
  <2>1. CASE Found(d, f) /\ e[x] > 0
    <3>1. t.cur \in Structs /\ Good(t) /\ t.obj[t.cur].alloc
      BY <2>1, <1>2, <1>3
    <3>2. l = tag_file(t, t.cur, f)
      BY <2>1
    <3> HIDE DEF l
    <3>3. /\ Good(l) /\ l.at[f] # NoTag
          /\ \A q \in Names \ {f} : l.at[q] = t.at[q]
      BY <3>1, <3>2, TagFileGood
    <3> QED BY <2>1, <3>3, <1>3 DEF Gains
  <2>2. CASE ~(Found(d, f) /\ e[x] > 0)
    BY <2>2, <1>3
  <2> QED BY <2>1, <2>2
<1> HIDE DEF l
<1>5. d[x] > 0 => t.cur \in Structs
  BY <1>2, <1>3
<1>6. /\ Good(u)
      /\ d[x] = 0 => u.at = l.at
      /\ d[x] > 0 => Loses(l.at, u.at, f)
  BY <1>2, <1>4, <1>5, PathUnlinkGood
<1> HIDE DEF u
<1>7. Good(r) /\ r.at = u.at
  BY <1>1, <1>2, <1>3, <1>6, FreeGood
<1>8. l.at \in [Names -> Structs \cup {NoTag}]
  BY <1>4 DEF Good, TagEntry
<1>9. CASE d[x] > 0
  <2>1. Loses(tags[x].at, r.at, f)
    BY <1>9, <1>4, <1>6, <1>7, <1>8 DEF Gains, Loses
  <2> QED BY <2>1, <1>7, <1>9 DEF r
<1>10. CASE ~(d[x] > 0)
  <2>1. r.at = l.at
    BY <1>10, <1>2, <1>6, <1>7
  <2> QED BY <2>1, <1>4, <1>7, <1>10 DEF r
<1> QED BY <1>9, <1>10

------------------------------------------------------------------------------
(* The inductive invariant.                                                *)
LEMMA TagsGood ==
    ASSUME NEW ts, ts = [x \in Tags |-> ts[x]], \A x \in Tags : Good(ts[x])
    PROVE  ts \in [Tags -> TagEntry] /\ \A x \in Tags : EntrySound(ts[x])
BY DEF Good

LEMMA BootGood == ASSUME NEW x \in Tags PROVE Good(BootTag(x))
<1> DEFINE fs == DbFiles(x)
           g  == IF fs = {} THEN NoTag ELSE 1
           o  == [alloc |-> TRUE, in_use |-> TRUE, ref |-> Cardinality(fs), files |-> fs]
           t  == BootTag(x)
<1>1. 1 \in Structs /\ MaxRef \in Nat /\ NoTag \notin Structs
  BY BoundsAssumption, StructsType DEF Structs
<1>2. fs \subseteq Names
  BY DEF DbFiles
<1>3. IsFiniteSet(fs) /\ Cardinality(fs) \in Nat /\ Cardinality(fs) <= Cardinality(Names)
      /\ Cardinality(Names) \in Nat
  BY <1>2, FilesAssumption, FS_Subset, FS_CardinalityType
<1>4. Cardinality(fs) \in 0..MaxRef
  BY <1>1, <1>3, BoundsAssumption
<1>5. fs # {} => Cardinality(fs) > 0
  BY <1>3, FS_EmptySet
<1>6. t = [cur |-> g, obj |-> [s \in Structs |-> IF s = g THEN o ELSE Freed],
           at |-> [f \in Names |-> IF f \in fs THEN g ELSE NoTag], bad |-> FALSE]
  BY DEF BootTag
<1> HIDE DEF fs, t
<1>7. o \in TagStruct /\ Freed \in TagStruct
  BY <1>1, <1>2, <1>4 DEF TagStruct, Freed
<1>8. g \in Structs \cup {NoTag} /\ (fs # {} => g \in Structs)
  BY <1>1
<1>9. t \in TagEntry
  BY <1>6, <1>7, <1>8 DEF TagEntry
<1>10. EntrySound(t)
  <2>1. t.cur # NoTag => t.obj[t.cur].alloc
    BY <1>1, <1>6
  <2>2. \A f \in Names : t.at[f] # NoTag => f \in t.obj[t.at[f]].files
    BY <1>1, <1>6, <1>8
  <2>3. ASSUME NEW s \in Structs
        PROVE  /\ t.obj[s].files # {} => t.obj[s].alloc /\ t.obj[s].in_use
               /\ t.obj[s].alloc => t.obj[s].ref > 0
               /\ ~t.obj[s].alloc => t.obj[s] = Freed
    <3>1. t.obj[s] = IF s = g THEN o ELSE Freed
      BY <1>6
    <3>2. CASE s = g
      BY <3>1, <3>2, <1>1, <1>5
    <3>3. CASE s # g
      BY <3>1, <3>3 DEF Freed
    <3> QED BY <3>2, <3>3
  <2> QED BY <2>1, <2>2, <2>3 DEF EntrySound
<1> QED BY <1>9, <1>10 DEF Good, t

LEMMA BootState ==
    ASSUME NEW ts, ts = [x \in Tags |-> BootTag(x)],
           NEW hs, hs = [h \in Handles |-> NoHandle]
    PROVE  /\ ts \in [Tags -> TagEntry] /\ \A x \in Tags : EntrySound(ts[x])
           /\ hs \in [Handles -> Handle]
           /\ \A h \in Handles, x \in Tags : hs[h].dir[x] > 0 => hs[h].sel[x] \in Structs
<1>1. ts \in [Tags -> TagEntry] /\ \A x \in Tags : EntrySound(ts[x])
  BY BootGood, TagsGood
<1>2. NoHandle \in Handle
  BY DirsAssumption DEF NoHandle, Handle
<1>3. \A x \in Tags : ~(NoHandle.dir[x] > 0)
  BY DEF NoHandle, Root
<1> QED BY <1>1, <1>2, <1>3

LEMMA InitIInv == Init => IInv
<1> SUFFICES ASSUME Init PROVE IInv
  OBVIOUS
<1> QED BY BootState DEF Init, IInv, TypeOK, EntriesSound

(* A new handle has a struct for each component of its path.               *)
LEMMA OpenHandle ==
    ASSUME IInv, NEW d \in Dirs, Room(d), NEW h \in Handles, NEW on \in Files \cup {Dir},
           tags' = PathCreate(d),
           fds' = [fds EXCEPT ![h] = [on |-> on, dir |-> d, sel |-> PathSel(tags', d)]]
    PROVE  /\ fds' \in [Handles -> Handle]
           /\ \A k \in Handles, x \in Tags :
                 fds'[k].dir[x] > 0 => fds'[k].sel[x] \in Structs
<1> DEFINE new == [on |-> on, dir |-> d, sel |-> PathSel(tags', d)]
<1>1. d \in [Tags -> Nat]
  BY DirsType
<1>2. ASSUME NEW x \in Tags, d[x] > 0
      PROVE  tags'[x].cur \in Structs
  <2>1. tags'[x] = compute_selected_tags(tags[x], d[x], Held(x))
    BY DEF PathCreate
  <2> QED BY <1>1, <1>2, <2>1, CreateGood
<1>3. PathSel(tags', d) \in [Tags -> Structs \cup {NoTag}]
      /\ \A x \in Tags : d[x] > 0 => PathSel(tags', d)[x] \in Structs
  BY <1>2 DEF PathSel
<1> HIDE DEF new
<1>4. new \in Handle /\ \A x \in Tags : new.dir[x] > 0 => new.sel[x] \in Structs
  BY <1>3 DEF Handle, new
<1>5. fds' = [fds EXCEPT ![h] = new]
  BY DEF new
<1> QED BY <1>4, <1>5 DEF IInv, TypeOK

(* Only the open requests change a handle, and only they need the typing   *)
(* of a new one; the others leave the tag tables good and are done.        *)
LEMMA NextIInv == IInv /\ [Next]_vars => IInv'
<1> SUFFICES ASSUME IInv, [Next]_vars PROVE IInv'
  OBVIOUS
<1> DEFINE HandlesOK == /\ fds \in [Handles -> Handle]
                        /\ \A h \in Handles, x \in Tags :
                              fds[h].dir[x] > 0 => fds[h].sel[x] \in Structs
           DentryOK == dentry \in (Dirs \X Files) \cup {NoDentry}
<1>0. HandlesOK /\ DentryOK
  BY DEF IInv, TypeOK
<1>1. ASSUME NEW ts, tags' = ts, ts = [x \in Tags |-> ts[x]],
             \A x \in Tags : Good(ts[x]), HandlesOK', DentryOK'
      PROVE  IInv'
  BY <1>1, TagsGood DEF IInv, TypeOK, EntriesSound
<1>2. ASSUME UNCHANGED fds PROVE HandlesOK'
  BY <1>0, <1>2
<1>3. ASSUME UNCHANGED dentry PROVE DentryOK'
  BY <1>0, <1>3
<1> HIDE DEF HandlesOK, DentryOK
<1>4. ASSUME NEW d \in Dirs, NEW nm \in Names, tag_getattr(d, nm) PROVE IInv'
  <2>1. tags' = PathVisit(d) /\ Room(d) /\ UNCHANGED fds
    BY <1>4 DEF tag_getattr, Serves
  <2>2. \A x \in Tags : Good(PathVisit(d)[x])
    BY <2>1, VisitGood, DirsType
  <2>3. PathVisit(d) = [x \in Tags |-> PathVisit(d)[x]]
    BY DEF PathVisit
  <2>4. DentryOK'
    BY <1>0, <1>4 DEF tag_getattr, LookupResult, Caches, DentryOK
  <2> QED BY <1>1, <1>2, <2>1, <2>2, <2>3, <2>4
<1>5. ASSUME NEW d \in Dirs, Room(d), NEW h \in Handles, NEW on \in Files \cup {Dir},
             tags' = PathCreate(d), UNCHANGED dentry,
             fds' = [fds EXCEPT ![h] = [on |-> on, dir |-> d, sel |-> PathSel(tags', d)]]
      PROVE  IInv'
  <2>1. \A x \in Tags : Good(PathCreate(d)[x])
    BY <1>5, CreateGood, DirsType DEF PathCreate
  <2>2. PathCreate(d) = [x \in Tags |-> PathCreate(d)[x]]
    BY DEF PathCreate
  <2>3. HandlesOK'
    BY <1>5, OpenHandle DEF HandlesOK
  <2> QED BY <1>1, <1>3, <1>5, <2>1, <2>2, <2>3
<1>6. ASSUME NEW h \in Handles, NEW d \in Dirs, NEW f \in Files, tag_open_file(h, d, f)
      PROVE  IInv'
  BY <1>5, <1>6 DEF tag_open_file, Serves
<1>7. ASSUME NEW h \in Handles, NEW d \in Dirs, tag_open_dir(h, d)
      PROVE  IInv'
  BY <1>5, <1>7 DEF tag_open_dir, Serves
<1>8. ASSUME NEW d \in Dirs, tag_open_fails(d) PROVE IInv'
  <2>1. tags' = PathCreate(d) /\ Room(d) /\ UNCHANGED <<fds, dentry>>
    BY <1>8 DEF tag_open_fails, Serves
  <2>2. \A x \in Tags : Good(PathCreate(d)[x])
    BY <2>1, CreateGood, DirsType DEF PathCreate
  <2>3. PathCreate(d) = [x \in Tags |-> PathCreate(d)[x]]
    BY DEF PathCreate
  <2> QED BY <1>1, <1>2, <1>3, <2>1, <2>2, <2>3
<1>9. ASSUME NEW h \in Handles, tag_release_generic(h) PROVE IInv'
  <2>1. /\ tags' = Released(h) /\ UNCHANGED dentry
        /\ fds' = [fds EXCEPT ![h] = NoHandle]
    BY <1>9 DEF tag_release_generic
  <2>2. \A x \in Tags : Good(Released(h)[x])
    BY ReleaseGood
  <2>3. Released(h) = [x \in Tags |-> Released(h)[x]]
    BY DEF Released
  <2>4. NoHandle \in Handle /\ \A x \in Tags : ~(NoHandle.dir[x] > 0)
    BY DirsAssumption DEF NoHandle, Handle, Root
  <2>5. HandlesOK'
    BY <1>0, <2>1, <2>4 DEF HandlesOK
  <2> QED BY <1>1, <1>3, <2>1, <2>2, <2>3, <2>5
<1>10. ASSUME NEW h \in Handles, UseHandle(h) PROVE IInv'
  <2> DEFINE b(x) == fds[h].dir[x] > 0 /\ ~tags[x].obj[fds[h].sel[x]].alloc
             ts == [x \in Tags |-> [tags[x] EXCEPT !.bad = b(x)]]
  <2>1. tags' = ts /\ UNCHANGED <<fds, dentry>>
    BY <1>10 DEF UseHandle
  <2>2. ASSUME NEW x \in Tags PROVE Good(ts[x])
    <3>1. Good(tags[x])
      BY DEF IInv, TypeOK, EntriesSound, Good
    <3>2. b(x) \in BOOLEAN
      OBVIOUS
    <3>3. ts[x] = [tags[x] EXCEPT !.bad = b(x)]
      OBVIOUS
    <3> HIDE DEF b, ts
    <3>4. /\ ts[x] \in TagEntry /\ ts[x].cur = tags[x].cur
          /\ ts[x].obj = tags[x].obj /\ ts[x].at = tags[x].at
      BY <3>1, <3>2, <3>3 DEF Good, TagEntry
    <3> QED BY <3>1, <3>4 DEF Good, EntrySound
  <2> QED BY <1>1, <1>2, <1>3, <2>1, <2>2
<1>11. ASSUME NEW d \in Dirs, NEW e \in Dirs, NEW f \in Files, tag_link(d, f, e)
       PROVE  IInv'
  <2>1. tags' = Linked(d, f, e) /\ Room(Both(d, e)) /\ UNCHANGED <<fds, dentry>>
    BY <1>11 DEF tag_link, ServesTwo
  <2>2. \A x \in Tags : Good(Linked(d, f, e)[x])
    BY <2>1, LinkGood, DirsType DEF Names
  <2>3. Linked(d, f, e) = [x \in Tags |-> Linked(d, f, e)[x]]
    BY DEF Linked
  <2> QED BY <1>1, <1>2, <1>3, <2>1, <2>2, <2>3
<1>12. ASSUME NEW d \in Dirs, NEW f \in Files, tag_unlink(d, f) PROVE IInv'
  <2>1. tags' = Unlinked(d, f) /\ Room(d) /\ UNCHANGED fds
    BY <1>12 DEF tag_unlink, Serves
  <2>2. \A x \in Tags : Good(Unlinked(d, f)[x])
    BY <2>1, UnlinkGood, DirsType DEF Names
  <2>3. Unlinked(d, f) = [x \in Tags |-> Unlinked(d, f)[x]]
    BY DEF Unlinked
  <2>4. DentryOK'
    BY <1>0, <1>12 DEF tag_unlink, DentryOK
  <2> QED BY <1>1, <1>2, <2>1, <2>2, <2>3, <2>4
<1>13. ASSUME NEW d \in Dirs, NEW e \in Dirs, NEW f \in Names, tag_rename(d, f, e)
       PROVE  IInv'
  <2>1. tags' = Renamed(d, f, e) /\ Room(Both(d, e)) /\ UNCHANGED fds
    BY <1>13 DEF tag_rename, ServesTwo
  <2>2. \A x \in Tags : Good(Renamed(d, f, e)[x])
    BY <2>1, RenameGood, DirsType
  <2>3. Renamed(d, f, e) = [x \in Tags |-> Renamed(d, f, e)[x]]
    BY DEF Renamed
  <2>4. DentryOK'
    BY <1>0, <1>13 DEF tag_rename, Caches, DentryOK
  <2> QED BY <1>1, <1>2, <2>1, <2>2, <2>3, <2>4
<1>14. ASSUME NEW d \in Dirs, NEW e \in Dirs, NEW f \in Names,
              tag_rename_refused(d, f, e)
       PROVE  IInv'
  <2> DEFINE c == Both(d, e)
  <2>1. tags' = PathVisit(c) /\ Room(c) /\ UNCHANGED <<fds, dentry>>
    BY <1>14 DEF tag_rename_refused, ServesTwo
  <2>2. c \in [Tags -> Nat]
    BY BothType, DirsType
  <2> HIDE DEF c
  <2>3. \A x \in Tags : Good(PathVisit(c)[x])
    BY <2>1, <2>2, VisitGood
  <2>4. PathVisit(c) = [x \in Tags |-> PathVisit(c)[x]]
    BY DEF PathVisit
  <2> QED BY <1>1, <1>2, <1>3, <2>1, <2>3, <2>4
<1>15. CASE Restart
  BY <1>15, BootState DEF Restart, IInv, TypeOK, EntriesSound
<1>16. CASE UNCHANGED vars
  BY <1>16 DEF vars, IInv, TypeOK, EntriesSound
<1> QED BY <1>4, <1>6, <1>7, <1>8, <1>9, <1>10, <1>11, <1>12, <1>13, <1>14, <1>15, <1>16
        DEF Next, tag_readdir, tag_fgetattr

LEMMA SpecIInv == Spec => []IInv
BY InitIInv, NextIInv, PTL DEF Spec

(* Type correctness: reference counts stay in their bounds, and a handle   *)
(* has a struct for every component of the path it keeps.                  *)
THEOREM TypeCorrect == Spec => []TypeOK
<1>1. IInv => TypeOK
  BY DEF IInv
<1> QED BY <1>1, SpecIInv, PTL

(* Whatever stale lookups, stale handles and renamed directories there     *)
(* are, the entries of a tag name stay sound (tag.c:20-163).               *)
THEOREM EntriesAlwaysSound == Spec => []EntriesSound
<1>1. IInv => EntriesSound
  BY DEF IInv
<1> QED BY <1>1, SpecIInv, PTL

(* No file ever holds a freed tag, or one that a lookup may free.          *)
THEOREM FilesHoldLiveTags == Spec => []FileTagsAllocated
<1>1. IInv => FileTagsAllocated
  <2> SUFFICES ASSUME IInv, NEW x \in Tags, NEW f \in Names, tags[x].at[f] # NoTag
               PROVE  LET g == tags[x].at[f]
                      IN  /\ tags[x].obj[g].alloc /\ tags[x].obj[g].in_use
                          /\ f \in tags[x].obj[g].files
    BY DEF FileTagsAllocated
  <2>1. tags[x] \in TagEntry /\ EntrySound(tags[x])
    BY DEF IInv, TypeOK, EntriesSound
  <2>2. tags[x].at[f] \in Structs
    BY <2>1 DEF TagEntry
  <2> QED BY <2>1, <2>2 DEF EntrySound
<1> QED BY <1>1, SpecIInv, PTL

------------------------------------------------------------------------------
(* The tag tables implement the relation between files and tags.           *)
LEMMA RelOfIs ==
    ASSUME NEW ts, NEW S \in SUBSET (Files \X Tags),
           \A f \in Files, x \in Tags : <<f, x>> \in S <=> ts[x].at[f] # NoTag
    PROVE  RelOf(ts) = S
<1>1. ASSUME NEW fx \in Files \X Tags
      PROVE  fx \in RelOf(ts) <=> fx \in S
  <2>1. PICK f \in Files, x \in Tags : fx = <<f, x>>
    OBVIOUS
  <2>2. fx \in RelOf(ts) <=> ts[x].at[f] # NoTag
    BY <2>1 DEF RelOf
  <2> QED BY <2>1, <2>2
<1>2. RelOf(ts) \subseteq Files \X Tags
  BY DEF RelOf
<1> QED BY <1>1, <1>2

LEMMA RelHas ==
    ASSUME NEW f \in Files, NEW x \in Tags
    PROVE  <<f, x>> \in rel <=> tags[x].at[f] # NoTag
BY DEF rel, RelOf

LEMMA GivesHas ==
    ASSUME NEW f \in Files, NEW d \in [Tags -> Nat], NEW e \in Files, NEW x \in Tags
    PROVE  /\ <<e, x>> \in Gives(f, d) <=> e = f /\ d[x] > 0
           /\ Gives(f, d) \subseteq Files \X Tags /\ rel \subseteq Files \X Tags
BY DEF Gives, Sel, rel, RelOf

(* Requests that leave the files' tables alone leave the relation alone.   *)
LEMMA RelKept ==
    ASSUME NEW ts, \A x \in Tags : ts[x].at = tags[x].at
    PROVE  RelOf(ts) = rel
BY RelHas, RelOfIs DEF rel, RelOf

LEMMA UnlinkedRel ==
    ASSUME IInv, NEW d \in Dirs, NEW f \in Files, Room(d)
    PROVE  RelOf(Unlinked(d, f)) = rel \ Gives(f, d)
<1> DEFINE r == Unlinked(d, f)
           S == rel \ Gives(f, d)
<1>1. d \in [Tags -> Nat] /\ f \in Names
  BY DirsType DEF Names
<1>2. S \in SUBSET (Files \X Tags)
  BY DEF rel, RelOf
<1>3. ASSUME NEW e \in Files, NEW x \in Tags
      PROVE  <<e, x>> \in S <=> r[x].at[e] # NoTag
  <2>1. IF d[x] > 0 THEN Loses(tags[x].at, r[x].at, f) ELSE r[x].at = tags[x].at
    BY <1>1, UnlinkGood
  <2> HIDE DEF r
  <2>2. <<e, x>> \in S <=> tags[x].at[e] # NoTag /\ ~(e = f /\ d[x] > 0)
    BY <1>1, RelHas, GivesHas
  <2> QED BY <2>1, <2>2 DEF Loses, Names
<1> QED BY <1>2, <1>3, RelOfIs

LEMMA LinkedRel ==
    ASSUME IInv, NEW d \in Dirs, NEW e \in Dirs, NEW f \in Files, Room(Both(d, e))
    PROVE  RelOf(Linked(d, f, e)) =
               IF Matches(d, f) THEN rel \cup Gives(f, e) ELSE rel
<1> DEFINE r == Linked(d, f, e)
           S == IF Matches(d, f) THEN rel \cup Gives(f, e) ELSE rel
<1>1. d \in [Tags -> Nat] /\ e \in [Tags -> Nat] /\ f \in Names
  BY DirsType DEF Names
<1>2. S \in SUBSET (Files \X Tags)
  BY <1>1 DEF rel, RelOf, Gives, Sel
<1>3. Found(d, f) <=> Matches(d, f)
  BY DEF Found, LookupResult
<1>4. ASSUME NEW k \in Files, NEW x \in Tags
      PROVE  <<k, x>> \in S <=> r[x].at[k] # NoTag
  <2>1. IF Found(d, f) /\ e[x] > 0 THEN Gains(tags[x].at, r[x].at, f)
                                   ELSE r[x].at = tags[x].at
    BY <1>1, LinkGood
  <2> HIDE DEF r
  <2>2. <<k, x>> \in S <=> \/ tags[x].at[k] # NoTag
                           \/ Matches(d, f) /\ k = f /\ e[x] > 0
    BY <1>1, RelHas, GivesHas
  <2> QED BY <2>1, <2>2, <1>3 DEF Gains, Names
<1> QED BY <1>2, <1>4, RelOfIs

LEMMA RenamedRel ==
    ASSUME IInv, NEW d \in Dirs, NEW e \in Dirs, NEW f \in Files, Room(Both(d, e))
    PROVE  RelOf(Renamed(d, f, e)) =
               (IF Matches(d, f) THEN rel \cup Gives(f, e) ELSE rel) \ Gives(f, d)
<1> DEFINE r == Renamed(d, f, e)
           S == (IF Matches(d, f) THEN rel \cup Gives(f, e) ELSE rel) \ Gives(f, d)
<1>1. d \in [Tags -> Nat] /\ e \in [Tags -> Nat] /\ f \in Names
  BY DirsType DEF Names
<1>2. S \in SUBSET (Files \X Tags)
  BY <1>1 DEF rel, RelOf, Gives, Sel
<1>3. Found(d, f) <=> Matches(d, f)
  BY DEF Found, LookupResult
<1>4. ASSUME NEW k \in Files, NEW x \in Tags
      PROVE  <<k, x>> \in S <=> r[x].at[k] # NoTag
  <2>1. IF d[x] > 0 THEN Loses(tags[x].at, r[x].at, f)
        ELSE IF Found(d, f) /\ e[x] > 0 THEN Gains(tags[x].at, r[x].at, f)
        ELSE r[x].at = tags[x].at
    BY <1>1, RenameGood
  <2> HIDE DEF r
  <2>2. <<k, x>> \in S <=> /\ \/ tags[x].at[k] # NoTag
                              \/ Matches(d, f) /\ k = f /\ e[x] > 0
                           /\ ~(k = f /\ d[x] > 0)
    BY <1>1, RelHas, GivesHas
  <2> QED BY <2>1, <2>2, <1>3 DEF Gains, Loses, Names
<1> QED BY <1>2, <1>4, RelOfIs

(* The file whose lookup was stale has not the one tag of the old path.    *)
LEMMA UnmatchedOne ==
    ASSUME NEW d \in Dirs, NEW f \in Files, OneTag(d), ~Matches(d, f)
    PROVE  rel \ Gives(f, d) = rel
<1>1. PICK x \in Tags : Sel(d) = {x}
  BY DEF OneTag
<1>2. tags[x].at[f] = NoTag
  BY <1>1 DEF Matches
<1>3. Gives(f, d) = {<<f, x>>} /\ <<f, x>> \notin rel
  BY <1>1, <1>2, RelHas DEF Gives
<1> QED BY <1>3

------------------------------------------------------------------------------
LEMMA KeepWord == IInv => RequestsKeepWord
<1> SUFFICES ASSUME IInv PROVE RequestsKeepWord
  OBVIOUS
<1>1. UnlinkKeepsWord
  BY UnlinkedRel DEF UnlinkKeepsWord, Serves
<1>2. LinkKeepsWord
  BY LinkedRel DEF LinkKeepsWord, ServesTwo
<1>3. RenameKeepsWord
  BY RenamedRel, UnmatchedOne DEF RenameKeepsWord, ServesTwo
<1>4. OthersKeepWord
  <2>1. ASSUME NEW d \in Dirs, NEW e \in Dirs, ServesTwo(d, e)
        PROVE  RelOf(PathVisit(Both(d, e))) = rel
    <3> DEFINE c == Both(d, e)
    <3>1. c \in [Tags -> Nat] /\ Room(c)
      BY <2>1, BothType, DirsType DEF ServesTwo
    <3> HIDE DEF c
    <3>2. \A x \in Tags : PathVisit(c)[x].at = tags[x].at
      BY <3>1, VisitGood
    <3>3. RelOf(PathVisit(c)) = rel
      BY <3>2, RelKept
    <3> QED BY <3>3 DEF c
  <2>2. ASSUME NEW h \in Handles PROVE RelOf(Released(h)) = rel
    BY ReleaseGood, RelKept
  <2> QED BY <2>1, <2>2 DEF OthersKeepWord
<1> QED BY <1>1, <1>2, <1>3, <1>4 DEF RequestsKeepWord

(* For any files, tags, paths, handles and bounds, and whatever stale      *)
(* lookups and handles there are: link, unlink and rename change exactly   *)
(* the pairs their paths name, and the requests that only look, refuse or  *)
(* close change none (tagfs.c:89-98, 167-200, 566-615, tag.c:136-163).     *)
THEOREM RequestsDoWhatTheySay == Spec => []RequestsKeepWord
BY KeepWord, SpecIInv, PTL

(* At start the tables hold what .tags says of the files there are.        *)
LEMMA BootRel ==
    ASSUME NEW ts, ts = [x \in Tags |-> BootTag(x)]
    PROVE  RelOf(ts) = Db \cap (Files \X Tags)
<1> DEFINE S == Db \cap (Files \X Tags)
<1>1. ASSUME NEW f \in Files, NEW x \in Tags
      PROVE  <<f, x>> \in S <=> ts[x].at[f] # NoTag
  <2> DEFINE fs == DbFiles(x)
  <2>1. f \in fs <=> <<f, x>> \in Db
    BY DEF DbFiles, Names
  <2>2. ts[x].at = [k \in Names |-> IF k \in fs THEN (IF fs = {} THEN NoTag ELSE 1)
                                                ELSE NoTag]
    BY DEF BootTag
  <2> HIDE DEF fs
  <2>3. ts[x].at[f] # NoTag <=> f \in fs
    BY <2>2 DEF Names, NoTag
  <2> QED BY <2>1, <2>3
<1>2. S \in SUBSET (Files \X Tags)
  OBVIOUS
<1> HIDE DEF S
<1>3. RelOf(ts) = S
  BY <1>1, <1>2, RelOfIs
<1> QED BY <1>3 DEF S

LEMMA InitMaps == Init => Relation!Init
BY BootRel DEF Init, Relation!Init, rel

(* Each request is one step of the relation, or leaves it as it is.        *)
LEMMA StepMaps == IInv /\ [Next]_vars => [Relation!Next]_rel
<1> SUFFICES ASSUME IInv, [Next]_vars PROVE Relation!Next \/ UNCHANGED rel
  OBVIOUS
<1>1. rel' = RelOf(tags')
  BY DEF rel, RelOf
<1>2. ASSUME NEW d \in [Tags -> Nat] PROVE Sel(d) \in SUBSET Tags
  BY DEF Sel
<1>3. ASSUME NEW ts, tags' = ts, \A x \in Tags : ts[x].at = tags[x].at
      PROVE  UNCHANGED rel
  BY <1>1, <1>3, RelKept
<1>4. ASSUME NEW d \in Dirs, Room(d), tags' = PathVisit(d) \/ tags' = PathCreate(d)
      PROVE  UNCHANGED rel
  BY <1>3, <1>4, DirsType, VisitGood, CreateGood DEF PathCreate
<1>5. ASSUME NEW d \in Dirs, NEW nm \in Names, tag_getattr(d, nm)
      PROVE  UNCHANGED rel
  BY <1>4, <1>5 DEF tag_getattr, Serves
<1>6. ASSUME NEW d \in Dirs,
             \/ \E h \in Handles, f \in Files : tag_open_file(h, d, f)
             \/ \E h \in Handles : tag_open_dir(h, d)
             \/ tag_open_fails(d)
      PROVE  UNCHANGED rel
  BY <1>4, <1>6 DEF tag_open_file, tag_open_dir, tag_open_fails, Serves
<1>7. ASSUME NEW h \in Handles, tag_release_generic(h) PROVE UNCHANGED rel
  BY <1>3, <1>7, ReleaseGood DEF tag_release_generic
<1>8. ASSUME NEW h \in Handles, UseHandle(h) PROVE UNCHANGED rel
  <2> DEFINE b(x) == fds[h].dir[x] > 0 /\ ~tags[x].obj[fds[h].sel[x]].alloc
             ts == [x \in Tags |-> [tags[x] EXCEPT !.bad = b(x)]]
  <2>1. tags' = ts
    BY <1>8 DEF UseHandle
  <2>2. ASSUME NEW x \in Tags PROVE ts[x].at = tags[x].at
    BY DEF IInv, TypeOK, TagEntry
  <2> QED BY <1>3, <2>1, <2>2
<1>9. ASSUME NEW d \in Dirs, NEW e \in Dirs, NEW f \in Files, tag_link(d, f, e)
      PROVE  Relation!Next \/ UNCHANGED rel
  <2>1. rel' = IF Matches(d, f) THEN rel \cup ({f} \X Sel(e)) ELSE rel
    BY <1>1, <1>9, LinkedRel DEF tag_link, ServesTwo, Gives
  <2> QED BY <1>2, <2>1, DirsType DEF Relation!Next, Relation!Link
<1>10. ASSUME NEW d \in Dirs, NEW f \in Files, tag_unlink(d, f)
       PROVE  Relation!Next
  <2>1. rel' = rel \ ({f} \X Sel(d))
    BY <1>1, <1>10, UnlinkedRel DEF tag_unlink, Serves, Gives
  <2> QED BY <1>2, <2>1, DirsType DEF Relation!Next, Relation!Unlink
<1>11. ASSUME NEW d \in Dirs, NEW e \in Dirs, NEW f \in Files, tag_rename(d, f, e)
       PROVE  Relation!Next \/ UNCHANGED rel
  <2>1. rel' = (IF Matches(d, f) THEN rel \cup Gives(f, e) ELSE rel) \ Gives(f, d)
    BY <1>1, <1>11, RenamedRel DEF tag_rename, ServesTwo
  <2>2. PICK x \in Tags, y \in Tags : Sel(d) = {x} /\ Sel(e) = {y}
    BY <1>11 DEF tag_rename, OneTag
  <2>3. CASE Matches(d, f)
    <3>1. <<f, x>> \in rel
      BY <2>2, <2>3, RelHas DEF Matches
    <3>2. Gives(f, d) = {<<f, x>>} /\ Gives(f, e) = {<<f, y>>}
      BY <2>2 DEF Gives
    <3>3. rel' = (rel \cup {<<f, y>>}) \ {<<f, x>>}
      BY <2>1, <2>3, <3>2
    <3>4. Relation!Rename(f, x, y)
      BY <3>1, <3>3 DEF Relation!Rename
    <3> QED BY <3>4 DEF Relation!Next
  <2>4. CASE ~Matches(d, f)
    BY <1>11, <2>1, <2>4, UnmatchedOne DEF tag_rename
  <2> QED BY <2>3, <2>4
<1>12. ASSUME NEW d \in Dirs, NEW e \in Dirs, NEW f \in Names \ Files,
              tag_rename(d, f, e)
       PROVE  UNCHANGED rel
  <2> DEFINE r == Renamed(d, f, e)
  <2>1. tags' = r /\ Room(Both(d, e))
    BY <1>12 DEF tag_rename, ServesTwo
  <2>2. ASSUME NEW k \in Files, NEW x \in Tags
        PROVE  r[x].at[k] = tags[x].at[k]
    <3>1. IF d[x] > 0 THEN Loses(tags[x].at, r[x].at, f)
          ELSE IF Found(d, f) /\ e[x] > 0 THEN Gains(tags[x].at, r[x].at, f)
          ELSE r[x].at = tags[x].at
      BY <2>1, RenameGood, DirsType
    <3> HIDE DEF r
    <3> QED BY <3>1 DEF Gains, Loses, Names
  <2>3. rel \in SUBSET (Files \X Tags)
    BY DEF rel, RelOf
  <2> HIDE DEF r
  <2>4. \A k \in Files, x \in Tags : <<k, x>> \in rel <=> r[x].at[k] # NoTag
    BY <2>2, RelHas
  <2>5. RelOf(r) = rel
    BY <2>3, <2>4, RelOfIs
  <2> QED BY <1>1, <2>1, <2>5
<1>13. ASSUME NEW d \in Dirs, NEW e \in Dirs, NEW f \in Names,
              tag_rename_refused(d, f, e)
       PROVE  UNCHANGED rel
  <2>1. tags' = PathVisit(Both(d, e)) /\ ServesTwo(d, e)
    BY <1>13 DEF tag_rename_refused
  <2> QED BY <1>1, <2>1, KeepWord DEF RequestsKeepWord, OthersKeepWord
<1>14. CASE Restart
  BY <1>1, <1>14, BootRel DEF Restart, Relation!Next, Relation!Reload
<1>15. CASE UNCHANGED vars
  BY <1>15 DEF vars, rel, RelOf
<1>16. ASSUME NEW d \in Dirs, NEW e \in Dirs, NEW f \in Names, tag_rename(d, f, e)
       PROVE  Relation!Next \/ UNCHANGED rel
  BY <1>11, <1>12, <1>16
<1> QED
  BY <1>5, <1>6, <1>7, <1>8, <1>9, <1>10, <1>13, <1>14, <1>15, <1>16
     DEF Next, tag_readdir, tag_fgetattr

(* The two indexes the daemon keeps, with all its creating and removing of *)
(* tags, implement the relation between files and tags (tag.c, tagfs.c).   *)
THEOREM TablesImplementRelation == Spec => ImplementsRelation
<1>1. Init => Relation!Init
  BY InitMaps
<1>2. IInv /\ [Next]_vars => [Relation!Next]_rel
  BY StepMaps
<1> QED BY <1>1, <1>2, SpecIInv, PTL DEF Spec, ImplementsRelation, Relation!Spec
==============================================================================
