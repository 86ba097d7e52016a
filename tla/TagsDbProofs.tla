---------------------------- MODULE TagsDbProofs ----------------------------
(* Theorems about TagsDb, for any names, any first text, any number of     *)
(* lines per read: what the parser makes of a text, what a dump says, and  *)
(* that one undoes the other.  The loops are functions of the number of    *)
(* lines read or files written, and induction over that number is by       *)
(* subsets of Nat (NatInd).                                                *)
EXTENDS TagsDb, SequenceTheorems, WellFoundedInduction, TLAPS

LEMMA NatInd ==
    ASSUME NEW K \in SUBSET Nat, 0 \in K, \A n \in K : n + 1 \in K
    PROVE  K = Nat
<1>. DEFINE L == {p \in Nat \X Nat : p[1] < p[2]}
<1>1. SUFFICES ASSUME Nat \ K # {}
               PROVE  FALSE
  OBVIOUS
<1>2. IsWellFoundedOn(L, Nat)
  BY NatLessThanWellFounded DEF OpToRel
<1>. HIDE DEF L
<1>3. PICK m \in Nat \ K : \A k \in Nat \ K : ~(<<k, m>> \in L)
  BY <1>1, <1>2, WFMin
<1>4. m - 1 \in K
  <2>1. m # 0 /\ m - 1 \in Nat
    BY <1>3
  <2>2. <<m - 1, m>> \in L
    BY <2>1, <1>3 DEF L
  <2> QED BY <2>1, <2>2, <1>3
<1>5. (m - 1) + 1 \in K
  BY <1>4
<1> QED BY <1>3, <1>5

(* What holds before the first of n steps and is kept by each holds after  *)
(* the last.                                                               *)
LEMMA UptoInd ==
    ASSUME NEW n \in Nat, NEW K \in SUBSET (0..n), 0 \in K,
           \A i \in 1..n : i - 1 \in K => i \in K
    PROVE  K = 0..n
<1>. DEFINE U == {k \in Nat : k <= n => k \in K}
<1>1. \A k \in U : k + 1 \in U
  <2>1. SUFFICES ASSUME NEW k \in U, k + 1 <= n
                 PROVE  k + 1 \in K
    OBVIOUS
  <2>2. k \in K /\ k + 1 \in 1..n /\ (k + 1) - 1 = k
    BY <2>1
  <2> QED BY <2>2
<1>2. 0 \in U
  OBVIOUS
<1>3. U = Nat
  <2>. HIDE DEF U
  <2>1. U \in SUBSET Nat
    BY DEF U
  <2> QED BY <1>1, <1>2, <2>1, NatInd
<1>4. \A k \in 0..n : k \in Nat /\ (k \in U => k \in K)
  OBVIOUS
<1>. HIDE DEF U
<1> QED BY <1>3, <1>4

(* A loop of n steps, each of which makes a state of the one before.       *)
Loops(g, k, S, base, Step) == /\ g \in [0..k -> S] /\ g[0] = base
                              /\ \A i \in 1..k : g[i] = Step[<<g[i-1], i>>]

LEMMA LoopsOn ==
    ASSUME NEW S, NEW base \in S, NEW n \in Nat, NEW Step \in [S \X (1..n) -> S],
           NEW k \in 1..n, NEW f, Loops(f, k - 1, S, base, Step)
    PROVE  \E g : Loops(g, k, S, base, Step)
<1>. DEFINE s == Step[<<f[k-1], k>>]
            g == [i \in 0..k |-> IF i = k THEN s ELSE f[i]]
<1>1. f[k-1] \in S
  BY DEF Loops
<1>2. s \in S
  BY <1>1
<1>3. \A i \in 0..k : i # k => i \in 0..(k-1) /\ g[i] = f[i] /\ f[i] \in S
  BY DEF Loops
<1>4. g[k] = s /\ g \in [0..k -> S]
  BY <1>2, <1>3
<1>5. g[0] = base
  BY <1>3 DEF Loops
<1>. HIDE DEF g
<1>6. ASSUME NEW i \in 1..k
      PROVE  g[i] = Step[<<g[i-1], i>>]
  <2>1. g[i-1] = f[i-1]
    BY <1>3
  <2>2. CASE i = k
    BY <2>1, <2>2, <1>4
  <2>3. CASE i # k
    <3>1. i \in 1..(k-1) /\ g[i] = f[i]
      BY <2>3, <1>3
    <3>2. f[i] = Step[<<f[i-1], i>>]
      BY <3>1 DEF Loops
    <3> QED BY <3>1, <3>2, <2>1
  <2> QED BY <2>2, <2>3
<1>7. Loops(g, k, S, base, Step)
  BY <1>4, <1>5, <1>6 DEF Loops
<1> QED BY <1>7

IsLoop(f, n, base, Step) ==
    f = [i \in 0..n |-> IF i = 0 THEN base ELSE Step[<<f[i-1], i>>]]

LEMMA Recursion ==
    ASSUME NEW S, NEW base \in S, NEW n \in Nat, NEW Step \in [S \X (1..n) -> S]
    PROVE  \E f : IsLoop(f, n, base, Step) /\ f \in [0..n -> S]
<1>. DEFINE K == {k \in 0..n : \E f : Loops(f, k, S, base, Step)}
<1>1. 0 \in K
  <2>1. Loops([i \in 0..0 |-> base], 0, S, base, Step)
    BY DEF Loops
  <2> QED BY <2>1
<1>2. ASSUME NEW k \in 1..n, k - 1 \in K
      PROVE  k \in K
  <2>1. PICK f : Loops(f, k - 1, S, base, Step)
    BY <1>2
  <2>2. \E g : Loops(g, k, S, base, Step)
    BY <2>1, LoopsOn
  <2> QED BY <2>2
<1>3. K = 0..n
  <2>. HIDE DEF K
  <2>1. K \in SUBSET (0..n)
    BY DEF K
  <2> QED BY <1>1, <1>2, <2>1, UptoInd
<1>4. n \in 0..n
  OBVIOUS
<1>5. PICK f : Loops(f, n, S, base, Step)
  BY <1>3, <1>4
<1>6. IsLoop(f, n, base, Step)
  <2>1. f = [i \in 0..n |-> f[i]]
    BY <1>5 DEF Loops
  <2>2. \A i \in 0..n : f[i] = IF i = 0 THEN base ELSE Step[<<f[i-1], i>>]
    BY <1>5 DEF Loops
  <2> QED BY <2>1, <2>2 DEF IsLoop
<1> QED BY <1>5, <1>6 DEF Loops

------------------------------------------------------------------------------
(* Tables and lists.                                                       *)

LEMMA ToSetIs ==
    ASSUME NEW S, NEW s \in Seq(S)
    PROVE  /\ \A e : e \in ToSet(s) <=> \E i \in 1..Len(s) : s[i] = e
           /\ ToSet(s) \subseteq S
           /\ ToSet(s) = {} <=> s = <<>>
<1>1. DOMAIN s = 1..Len(s) /\ \A i \in 1..Len(s) : s[i] \in S
  OBVIOUS
<1>2. \A e : e \in ToSet(s) <=> \E i \in 1..Len(s) : s[i] = e
  BY <1>1 DEF ToSet
<1>3. ToSet(s) \subseteq S
  BY <1>1, <1>2
<1>4. ToSet(s) = {} <=> s = <<>>
  <2>1. CASE s = <<>>
    BY <2>1, <1>2
  <2>2. CASE s # <<>>
    <3>1. 1 \in 1..Len(s)
      BY <2>2, EmptySeq
    <3> QED BY <3>1, <2>2, <1>2
  <2> QED BY <2>1, <2>2
<1> QED BY <1>2, <1>3, <1>4

LEMMA AddIs ==
    ASSUME NEW S, NEW h \in Seq(S), NEW x \in S
    PROVE  /\ ht_add_unique_entry(h, x) \in Seq(S)
           /\ ToSet(ht_add_unique_entry(h, x)) = ToSet(h) \cup {x}
<1>1. CASE Contains(h, x)
  <2>1. x \in ToSet(h)
    BY <1>1, ToSetIs DEF Contains
  <2> QED BY <2>1, <1>1 DEF ht_add_unique_entry
<1>2. CASE ~Contains(h, x)
  <2>. DEFINE a == Append(h, x)
  <2>1. a \in Seq(S) /\ Len(a) = Len(h) + 1 /\ a[Len(h) + 1] = x
        /\ \A i \in 1..Len(h) : a[i] = h[i]
    OBVIOUS
  <2>2. ht_add_unique_entry(h, x) = a
    BY <1>2 DEF ht_add_unique_entry
  <2>. HIDE DEF a
  <2>3. \A e : e \in ToSet(a) <=> e \in ToSet(h) \/ e = x
    <3>1. \A i \in 1..Len(a) : i \in 1..Len(h) \/ i = Len(h) + 1
      BY <2>1
    <3>2. \A i \in 1..Len(h) : i \in 1..Len(a)
      BY <2>1
    <3>3. Len(h) + 1 \in 1..Len(a)
      BY <2>1
    <3>4. \A e : e \in ToSet(a) <=> \E i \in 1..Len(a) : a[i] = e
      BY <2>1, ToSetIs
    <3>5. \A e : e \in ToSet(h) <=> \E i \in 1..Len(h) : h[i] = e
      BY ToSetIs
    <3> QED BY <3>1, <3>2, <3>3, <3>4, <3>5, <2>1
  <2> QED BY <2>1, <2>2, <2>3
<1> QED BY <1>1, <1>2

LEMMA RemoveIs ==
    ASSUME NEW S, NEW h \in Seq(S), NEW x
    PROVE  /\ ht_remove_entry(h, x) \in Seq(S)
           /\ h = <<>> => ht_remove_entry(h, x) = <<>>
<1>1. CASE Contains(h, x)
  <2>. DEFINE i == CHOOSE i \in DOMAIN h : h[i] = x
  <2>1. i \in 1..Len(h)
    BY <1>1 DEF Contains
  <2>. HIDE DEF i
  <2>2. SubSeq(h, 1, i-1) \in Seq(S) /\ SubSeq(h, i+1, Len(h)) \in Seq(S)
    BY <2>1, SubSeqProperties
  <2>3. ht_remove_entry(h, x) = SubSeq(h, 1, i-1) \o SubSeq(h, i+1, Len(h))
    BY <1>1 DEF ht_remove_entry, RemoveAt, i
  <2>4. h # <<>>
    BY <2>1
  <2> QED BY <2>2, <2>3, <2>4, ConcatProperties
<1>2. CASE ~Contains(h, x)
  BY <1>2 DEF ht_remove_entry
<1> QED BY <1>1, <1>2

LEMMA ListIs ==
    ASSUME NEW S, NEW h \in Seq(S)
    PROVE  ht_to_list(h) \in Seq(S) /\ ToSet(ht_to_list(h)) = ToSet(h)
<1>. DEFINE n == Len(h)
            l == CHOOSE l : l = [i \in 0..n |-> IF i = 0 THEN <<>> ELSE list_add(l[i-1], h[i])]
            Step == [p \in Seq(S) \X (1..n) |-> list_add(p[1], h[p[2]])]
<1>1. \A s \in Seq(S), i \in 1..n : /\ list_add(s, h[i]) \in Seq(S)
                                     /\ ToSet(list_add(s, h[i])) = ToSet(s) \cup {h[i]}
  <2>1. ASSUME NEW s \in Seq(S), NEW i \in 1..n
        PROVE  /\ list_add(s, h[i]) \in Seq(S)
               /\ ToSet(list_add(s, h[i])) = ToSet(s) \cup {h[i]}
    <3>1. h[i] \in S /\ <<h[i]>> \in Seq(S) /\ Len(<<h[i]>>) = 1
      OBVIOUS
    <3>. DEFINE a == <<h[i]>> \o s
    <3>2. a \in Seq(S) /\ Len(a) = 1 + Len(s) /\ a[1] = h[i]
          /\ \A j \in 1..Len(s) : a[j + 1] = s[j]
      BY <3>1, ConcatProperties
    <3>. HIDE DEF a
    <3>3. \A e : e \in ToSet(a) <=> \E j \in 1..Len(a) : a[j] = e
      BY <3>2, ToSetIs
    <3>4. \A e : e \in ToSet(s) <=> \E j \in 1..Len(s) : s[j] = e
      BY ToSetIs
    <3>5. \A j \in 1..Len(a) : j = 1 \/ (j - 1 \in 1..Len(s) /\ a[j] = s[j - 1])
      BY <3>2
    <3>6. \A j \in 1..Len(s) : j + 1 \in 1..Len(a)
      BY <3>2
    <3>7. 1 \in 1..Len(a)
      BY <3>2
    <3>8. \A e : e \in ToSet(a) <=> e \in ToSet(s) \/ e = h[i]
      BY <3>2, <3>3, <3>4, <3>5, <3>6, <3>7
    <3> QED BY <3>2, <3>8 DEF list_add, a
  <2> QED BY <2>1
<1>2. Step \in [Seq(S) \X (1..n) -> Seq(S)] /\ <<>> \in Seq(S) /\ n \in Nat
  BY <1>1
<1>3. \A s \in Seq(S), i \in 1..n : Step[<<s, i>>] = list_add(s, h[i])
  OBVIOUS
<1>. HIDE DEF Step
<1>4. PICK g : IsLoop(g, n, <<>>, Step) /\ g \in [0..n -> Seq(S)]
  BY <1>2, Recursion
<1>5. g = [i \in 0..n |-> IF i = 0 THEN <<>> ELSE list_add(g[i-1], h[i])]
  <2>1. \A i \in 1..n : g[i-1] \in Seq(S)
    BY <1>4
  <2>4. \A i \in 0..n : g[i] = IF i = 0 THEN <<>> ELSE Step[<<g[i-1], i>>]
    BY <1>4 DEF IsLoop
  <2>5. \A i \in 0..n : i # 0 => i \in 1..n
    OBVIOUS
  <2>2. \A i \in 0..n : g[i] = IF i = 0 THEN <<>> ELSE list_add(g[i-1], h[i])
    BY <1>3, <2>1, <2>4, <2>5
  <2>3. g = [i \in 0..n |-> g[i]]
    BY <1>4
  <2> QED BY <2>2, <2>3
<1>6. l = [i \in 0..n |-> IF i = 0 THEN <<>> ELSE list_add(l[i-1], h[i])]
  BY <1>5
<1>7. l[0] = <<>> /\ \A i \in 1..n : l[i] = list_add(l[i-1], h[i])
  <2>. HIDE DEF l
  <2> QED BY <1>6
<1>. HIDE DEF l
<1>8. \A i \in 0..n : l[i] \in Seq(S) /\ ToSet(l[i]) = {h[j] : j \in 1..i}
  <2>. DEFINE K == {i \in 0..n : l[i] \in Seq(S) /\ ToSet(l[i]) = {h[j] : j \in 1..i}}
  <2>1. 0 \in K
    <3>1. ToSet(<<>>) = {}
      BY <1>2, ToSetIs
    <3>2. {h[j] : j \in 1..0} = {}
      OBVIOUS
    <3>3. l[0] \in Seq(S) /\ ToSet(l[0]) = {h[j] : j \in 1..0}
      BY <1>2, <1>7, <3>1, <3>2
    <3>4. 0 \in 0..n
      BY <1>2
    <3> QED BY <3>3, <3>4
  <2>2. ASSUME NEW i \in 1..n, i - 1 \in K
        PROVE  i \in K
    <3>1. {h[j] : j \in 1..i} = {h[j] : j \in 1..(i-1)} \cup {h[i]}
      OBVIOUS
    <3>2. l[i-1] \in Seq(S)
      BY <2>2
    <3>3. l[i] = list_add(l[i-1], h[i]) /\ ToSet(l[i-1]) = {h[j] : j \in 1..(i-1)}
      BY <2>2, <1>7
    <3>4. l[i] \in Seq(S) /\ ToSet(l[i]) = ToSet(l[i-1]) \cup {h[i]}
      BY <3>2, <3>3, <1>1
    <3> QED BY <3>1, <3>3, <3>4
  <2>3. K = 0..n
    <3>. HIDE DEF K
    <3>1. K \in SUBSET (0..n)
      BY DEF K
    <3> QED BY <2>1, <2>2, <3>1, <1>2, UptoInd
  <2> QED BY <2>3
<1>9. ToSet(h) = {h[j] : j \in 1..n}
  BY DEF ToSet
<1>10. ht_to_list(h) = l[n]
  BY DEF ht_to_list, l
<1>11. n \in 0..n
  BY <1>2
<1>. HIDE DEF n
<1> QED BY <1>8, <1>9, <1>10, <1>11

------------------------------------------------------------------------------
(* The parser.                                                             *)

LEMMA LinesAre ==
    ASSUME NEW l \in Lines
    PROVE  /\ l.kind \in {"file", "tag", "empty"}
           /\ l = [kind |-> l.kind, name |-> l.name]
           /\ l.kind = "file" => l.name \in FileNames
           /\ l.kind = "tag" => l.name \in TagNames
           /\ l.kind = "empty" <=> l = Empty
BY DEF Lines, Line, Empty

(* What is read in a line is a line, of names that are not cut short       *)
(* unless that of the line is.                                             *)
LEMMA LineIs ==
    ASSUME NEW l \in Lines
    PROVE  /\ reads(l) \in Lines
           /\ reads(l).kind = "file" => reads(l).name \in FileNames
           /\ reads(l).kind = "tag" => reads(l).name \in TagNames
           /\ l.kind = "file" => reads(l).kind = "file"
           /\ l.name # Cut => reads(l).name # Cut \/ reads(l) = Empty
           /\ l.name = Cut => reads(l) = l
<1>1. CASE l.kind = "empty"
  <2>1. reads(l) = l /\ l = Empty
    BY <1>1, LinesAre DEF reads
  <2> QED BY <1>1, <2>1
<1>2. CASE l.kind # "empty" /\ l.name = Cut
  <2>1. reads(l) = l
    BY <1>2 DEF reads
  <2> QED BY <1>2, <2>1, LinesAre
<1>3. CASE l.kind = "file" /\ l.name # Cut
  <2>1. l.name \in Files /\ ReadFile[l.name] \in Files
    BY <1>3, LinesAre, ReadingAssumption DEF FileNames
  <2>2. reads(l) = Line("file", ReadFile[l.name])
    BY <1>3 DEF reads
  <2> QED BY <1>3, <2>1, <2>2, NamesAssumption DEF Line, Lines, FileNames
<1>4. CASE l.kind = "tag" /\ l.name # Cut
  <2>1. l.name \in Tags
    BY <1>4, LinesAre DEF TagNames
  <2>2. reads(l) = ReadTag[l.name]
    BY <1>4 DEF reads
  <2>3. reads(l) \in [kind : {"file"}, name : Files] \cup [kind : {"tag"}, name : Tags] \cup {Empty}
    BY <2>1, <2>2, ReadingAssumption
  <2> QED BY <1>4, <2>3, NamesAssumption DEF Lines, FileNames, TagNames, Empty, Line
<1> QED BY <1>1, <1>2, <1>3, <1>4, LinesAre

(* A line cut short is read as one of the same kind, of a name cut short.  *)
LEMMA ShortIs ==
    ASSUME NEW l \in Lines
    PROVE  /\ shorten(l) \in Lines /\ reads(shorten(l)).kind = reads(l).kind
           /\ reads(l).kind # "empty" => reads(shorten(l)).name = Cut
<1>1. CASE reads(l) = Empty
  BY <1>1 DEF shorten, Empty, Line
<1>2. CASE reads(l) # Empty
  <2>. DEFINE c == Line(reads(l).kind, Cut)
  <2>1. reads(l).kind \in {"file", "tag"}
    BY <1>2, LineIs, LinesAre
  <2>2. c \in Lines /\ c.name = Cut /\ c.kind = reads(l).kind
    BY <2>1 DEF Line, Lines, FileNames, TagNames
  <2>3. shorten(l) = c
    BY <1>2 DEF shorten
  <2>. HIDE DEF c
  <2> QED BY <2>2, <2>3, LineIs
<1> QED BY <1>1, <1>2

States == [files : Seq(FileNames), tags : [FileNames -> Seq(TagNames)],
           cur : FileNames \cup {NoFile}]
Start == [files |-> <<>>, tags |-> NoTables.tags, cur |-> NoFile]

(* After k lines the current file is f: it is named in the last line of    *)
(* them that names a file.                                                 *)
Under(text, k, f) == \E i \in 1..k : /\ reads(text[i]).kind = "file" /\ reads(text[i]).name = f
                                     /\ \A m \in i+1..k : reads(text[m]).kind # "file"

(* What a text says.                                                       *)
TagLine(text, j, f, t) == /\ reads(text[j]).kind = "tag" /\ reads(text[j]).name = t
                          /\ Under(text, j, f)
Says(text) == {p \in FileNames \X TagNames :
                   \E j \in DOMAIN text : TagLine(text, j, p[1], p[2])}

LEMMA UnderNext ==
    ASSUME NEW text \in Seq(Lines), NEW k \in 1..Len(text), NEW f
    PROVE  /\ reads(text[k]).kind = "file" => (Under(text, k, f) <=> reads(text[k]).name = f)
           /\ reads(text[k]).kind # "file" => (Under(text, k, f) <=> Under(text, k-1, f))
<1>1. CASE reads(text[k]).kind = "file"
  <2>1. \A i \in 1..k : i # k => k \in i+1..k
    OBVIOUS
  <2>2. k \in 1..k /\ \A m \in k+1..k : FALSE
    OBVIOUS
  <2> QED BY <1>1, <2>1, <2>2 DEF Under
<1>2. CASE reads(text[k]).kind # "file"
  <2>1. \A i \in 1..k : i # k => i \in 1..(k-1)
    OBVIOUS
  <2>2. \A i \in 1..(k-1) : /\ i \in 1..k
                            /\ \A m \in i+1..k : m # k => m \in i+1..(k-1)
                            /\ \A m \in i+1..(k-1) : m \in i+1..k
    OBVIOUS
  <2> QED BY <1>2, <2>1, <2>2 DEF Under
<1> QED BY <1>1, <1>2

LEMMA UnderOne ==
    ASSUME NEW text, NEW k \in Nat, NEW f, NEW g, Under(text, k, f), Under(text, k, g)
    PROVE  f = g
<1>1. PICK i \in 1..k : /\ reads(text[i]).kind = "file" /\ reads(text[i]).name = f
                        /\ \A m \in i+1..k : reads(text[m]).kind # "file"
  BY DEF Under
<1>2. PICK j \in 1..k : /\ reads(text[j]).kind = "file" /\ reads(text[j]).name = g
                        /\ \A m \in j+1..k : reads(text[m]).kind # "file"
  BY DEF Under
<1>3. ~(i < j) /\ ~(j < i)
  BY <1>1, <1>2
<1> QED BY <1>1, <1>2, <1>3

(* Only the lines up to k matter.                                          *)
LEMMA UnderSame ==
    ASSUME NEW a, NEW b, NEW k \in Nat, NEW f, \A i \in 1..k : a[i] = b[i]
    PROVE  Under(a, k, f) <=> Under(b, k, f)
<1>1. \A i \in 1..k : \A m \in i+1..k : m \in 1..k
  OBVIOUS
<1> QED BY <1>1 DEF Under

LEMMA ParseLineType ==
    ASSUME NEW s \in States, NEW l \in Lines
    PROVE  parse_line(s, l) \in States
<1>. DEFINE r == reads(l)
<1>0. /\ r.kind = "file" => r.name \in FileNames
      /\ r.kind = "tag" => r.name \in TagNames
  BY LineIs
<1>. HIDE DEF r
<1>1. CASE r.kind = "file"
  <2>1. ht_add_unique_entry(s.files, r.name) \in Seq(FileNames)
    BY <1>0, <1>1, AddIs DEF States
  <2>2. parse_line(s, l) = parse_file(s, r.name)
    BY <1>1 DEF parse_line, r
  <2> QED BY <2>1, <2>2, <1>0, <1>1 DEF parse_file, States
<1>2. CASE r.kind = "tag" /\ s.cur # NoFile
  <2>1. s.cur \in FileNames /\ s.tags[s.cur] \in Seq(TagNames)
    BY <1>2 DEF States
  <2>2. ht_add_unique_entry(s.tags[s.cur], r.name) \in Seq(TagNames)
    BY <1>0, <1>2, <2>1, AddIs
  <2>. DEFINE h == ht_add_unique_entry(s.tags[s.cur], r.name)
  <2>3. parse_line(s, l) = [s EXCEPT !.tags[s.cur] = h]
    BY <1>2 DEF parse_line, parse_tag, r
  <2>. HIDE DEF h
  <2>4. [s EXCEPT !.tags[s.cur] = h] \in States
    BY <2>1, <2>2 DEF States, h
  <2> QED BY <2>3, <2>4
<1>3. CASE r.kind # "file" /\ (r.kind = "tag" => s.cur = NoFile)
  BY <1>3 DEF parse_line, parse_tag, r
<1> QED BY <1>1, <1>2, <1>3

LEMMA ParserRuns ==
    ASSUME NEW text \in Seq(Lines)
    PROVE  LET s == parse_tags_db2(text)
           IN  /\ s[0] = Start
               /\ \A i \in 1..Len(text) : s[i] = parse_line(s[i-1], text[i])
               /\ \A i \in 0..Len(text) : s[i] \in States
<1>. DEFINE n == Len(text)
            s == parse_tags_db2(text)
            Step == [p \in States \X (1..n) |-> parse_line(p[1], text[p[2]])]
<1>1. n \in Nat /\ \A i \in 1..n : text[i] \in Lines
  OBVIOUS
<1>2. Start \in States
  BY EmptySeq DEF Start, States, NoTables
<1>3. Step \in [States \X (1..n) -> States]
  BY <1>1, ParseLineType
<1>4. \A x \in States, i \in 1..n : Step[<<x, i>>] = parse_line(x, text[i])
  OBVIOUS
<1>. HIDE DEF Step
<1>5. PICK g : IsLoop(g, n, Start, Step) /\ g \in [0..n -> States]
  BY <1>1, <1>2, <1>3, Recursion
<1>6. g = [i \in 0..n |-> IF i = 0 THEN Start ELSE parse_line(g[i-1], text[i])]
  <2>1. \A i \in 1..n : g[i-1] \in States
    BY <1>5
  <2>2. \A i \in 0..n : g[i] = IF i = 0 THEN Start ELSE Step[<<g[i-1], i>>]
    BY <1>5 DEF IsLoop
  <2>3. \A i \in 0..n : i # 0 => i \in 1..n
    OBVIOUS
  <2>4. \A i \in 0..n : g[i] = IF i = 0 THEN Start ELSE parse_line(g[i-1], text[i])
    BY <1>4, <2>1, <2>2, <2>3
  <2>5. g = [i \in 0..n |-> g[i]]
    BY <1>5
  <2> QED BY <2>4, <2>5
<1>7. s = [i \in 0..n |-> IF i = 0 THEN Start ELSE parse_line(s[i-1], text[i])]
  BY <1>6 DEF parse_tags_db2, Start
<1>. HIDE DEF s
<1>8. s[0] = Start /\ \A i \in 1..n : s[i] = parse_line(s[i-1], text[i])
  BY <1>1, <1>7
<1>9. \A i \in 0..n : s[i] \in States
  <2>. DEFINE K == {i \in 0..n : s[i] \in States}
  <2>1. 0 \in K
    BY <1>1, <1>2, <1>8
  <2>2. \A i \in 1..n : i - 1 \in K => i \in K
    BY <1>1, <1>8, ParseLineType
  <2>3. K = 0..n
    <3>1. K \in SUBSET (0..n)
      OBVIOUS
    <3>. HIDE DEF K
    <3> QED BY <2>1, <2>2, <3>1, <1>1, UptoInd
  <2> QED BY <2>3
<1> QED BY <1>8, <1>9 DEF s

(* A file or tag line is heard of once read.                               *)
Heard(text, k, f, t) == \E j \in 1..k : TagLine(text, j, f, t)

(* What the parser has after k lines.                                      *)
ParsedSo(text, s, k) ==
    /\ \A f \in FileNames : s.cur = f <=> Under(text, k, f)
    /\ \A f \in FileNames, t \in TagNames : t \in ToSet(s.tags[f]) <=> Heard(text, k, f, t)
    /\ \A f \in FileNames : s.cur = f \/ s.tags[f] # <<>> => f \in ToSet(s.files)

LEMMA HeardNext ==
    ASSUME NEW text \in Seq(Lines), NEW k \in 1..Len(text), NEW f, NEW t
    PROVE  Heard(text, k, f, t) <=> Heard(text, k-1, f, t) \/ TagLine(text, k, f, t)
<1>1. /\ \A j \in 1..k : j # k => j \in 1..(k-1)
      /\ \A j \in 1..(k-1) : j \in 1..k
      /\ k \in 1..k
  OBVIOUS
<1> QED BY <1>1 DEF Heard

LEMMA ParseLineFile ==
    ASSUME NEW text \in Seq(Lines), NEW k \in 1..Len(text), NEW s \in States,
           ParsedSo(text, s, k-1), reads(text[k]).kind = "file"
    PROVE  ParsedSo(text, parse_line(s, text[k]), k)
<1>. DEFINE l == reads(text[k])
            u == parse_line(s, text[k])
<1>1. text[k] \in Lines /\ l.name \in FileNames
  BY LineIs
<1>2. u = [s EXCEPT !.cur = l.name, !.files = ht_add_unique_entry(@, l.name)]
  BY DEF parse_line, parse_file
<1>3. u.cur = l.name /\ u.tags = s.tags /\ u.files = ht_add_unique_entry(s.files, l.name)
  BY <1>2 DEF States
<1>4. ToSet(u.files) = ToSet(s.files) \cup {l.name}
  <2>1. s.files \in Seq(FileNames)
    BY DEF States
  <2>2. ToSet(ht_add_unique_entry(s.files, l.name)) = ToSet(s.files) \cup {l.name}
    <3>. HIDE DEF l
    <3> QED BY <1>1, <2>1, AddIs
  <2>. HIDE DEF u
  <2> QED BY <1>3, <2>2
<1>. HIDE DEF u
<1>5. \A f \in FileNames : u.cur = f <=> Under(text, k, f)
  BY <1>3, UnderNext
<1>6. ASSUME NEW f \in FileNames, NEW t \in TagNames
      PROVE  t \in ToSet(u.tags[f]) <=> Heard(text, k, f, t)
  <2>1. t \in ToSet(s.tags[f]) <=> Heard(text, k-1, f, t)
    BY DEF ParsedSo
  <2>2. ~TagLine(text, k, f, t)
    BY DEF TagLine
  <2> QED BY <2>1, <2>2, <1>3, HeardNext
<1>7. \A f \in FileNames : u.cur = f \/ u.tags[f] # <<>> => f \in ToSet(u.files)
  BY <1>3, <1>4 DEF ParsedSo
<1>8. ParsedSo(text, u, k)
  BY <1>5, <1>6, <1>7 DEF ParsedSo
<1> QED BY <1>8 DEF u

LEMMA ParseLineTag ==
    ASSUME NEW text \in Seq(Lines), NEW k \in 1..Len(text), NEW s \in States,
           ParsedSo(text, s, k-1), s.cur # NoFile,
           reads(text[k]).kind = "tag"
    PROVE  ParsedSo(text, parse_line(s, text[k]), k)
<1>. DEFINE l == reads(text[k])
            u == parse_line(s, text[k])
            c == s.cur
<1>1. text[k] \in Lines /\ l.name \in TagNames
  BY LineIs
<1>2. c \in FileNames /\ s.tags \in [FileNames -> Seq(TagNames)] /\ s.tags[c] \in Seq(TagNames)
  BY DEF States
<1>3. u = [s EXCEPT !.tags[s.cur] = ht_add_unique_entry(@, l.name)]
  BY DEF parse_line, parse_tag
<1>4. u.cur = c /\ u.files = s.files
      /\ \A f \in FileNames : u.tags[f] = IF f = c THEN ht_add_unique_entry(s.tags[c], l.name)
                                          ELSE s.tags[f]
  BY <1>2, <1>3 DEF States
<1>5. ToSet(u.tags[c]) = ToSet(s.tags[c]) \cup {l.name}
  <2>1. ToSet(ht_add_unique_entry(s.tags[c], l.name)) = ToSet(s.tags[c]) \cup {l.name}
    <3>. DEFINE h == s.tags[c]
                x == l.name
    <3>1. h \in Seq(TagNames) /\ x \in TagNames
      BY <1>1, <1>2
    <3>. HIDE DEF h, x
    <3>2. ToSet(ht_add_unique_entry(h, x)) = ToSet(h) \cup {x}
      BY <3>1, AddIs
    <3> QED BY <3>2 DEF h, x
  <2>. HIDE DEF u
  <2> QED BY <1>2, <1>4, <2>1
<1>. HIDE DEF u
<1>6. \A f \in FileNames : (c = f <=> Under(text, k-1, f)) /\ (c = f <=> Under(text, k, f))
  BY UnderNext DEF ParsedSo
<1>7. ASSUME NEW f \in FileNames, NEW t \in TagNames
      PROVE  t \in ToSet(u.tags[f]) <=> Heard(text, k, f, t)
  <2>1. t \in ToSet(s.tags[f]) <=> Heard(text, k-1, f, t)
    BY DEF ParsedSo
  <2>2. TagLine(text, k, f, t) <=> f = c /\ t = l.name
    BY <1>6 DEF TagLine
  <2>3. t \in ToSet(u.tags[f]) <=> t \in ToSet(s.tags[f]) \/ (f = c /\ t = l.name)
    BY <1>4, <1>5
  <2> QED BY <2>1, <2>2, <2>3, HeardNext
<1>8. \A f \in FileNames : u.cur = f \/ u.tags[f] # <<>> => f \in ToSet(u.files)
  BY <1>4 DEF ParsedSo
<1>9. ParsedSo(text, u, k)
  BY <1>4, <1>6, <1>7, <1>8 DEF ParsedSo
<1> QED BY <1>9 DEF u

LEMMA ParseLineNone ==
    ASSUME NEW text \in Seq(Lines), NEW k \in 1..Len(text), NEW s \in States,
           ParsedSo(text, s, k-1), reads(text[k]).kind # "file",
           reads(text[k]).kind = "tag" => s.cur = NoFile
    PROVE  ParsedSo(text, parse_line(s, text[k]), k)
<1>1. parse_line(s, text[k]) = s
  BY DEF parse_line, parse_tag
<1>2. \A f \in FileNames : s.cur = f <=> Under(text, k, f)
  BY UnderNext DEF ParsedSo
<1>3. \A f \in FileNames, t \in TagNames : ~TagLine(text, k, f, t)
  <2>1. \A f \in FileNames : s.cur = NoFile => s.cur # f
    BY NamesAssumption
  <2> QED BY <1>2, <2>1 DEF TagLine
<1>4. \A f \in FileNames, t \in TagNames : t \in ToSet(s.tags[f]) <=> Heard(text, k, f, t)
  BY <1>3, HeardNext DEF ParsedSo
<1> QED BY <1>1, <1>2, <1>4 DEF ParsedSo

LEMMA ParserReads ==
    ASSUME NEW text \in Seq(Lines)
    PROVE  LET s == parse_tags_db2(text)[Len(text)]
           IN  s \in States /\ ParsedSo(text, s, Len(text))
<1>. DEFINE n == Len(text)
            s == parse_tags_db2(text)
            K == {i \in 0..n : ParsedSo(text, s[i], i)}
<1>1. /\ n \in Nat /\ s[0] = Start
      /\ \A i \in 1..n : s[i] = parse_line(s[i-1], text[i])
      /\ \A i \in 0..n : s[i] \in States
  BY ParserRuns
<1>. HIDE DEF s
<1>2. 0 \in K
  <2>1. \A f : ~Under(text, 0, f)
    BY DEF Under
  <2>2. \A f, t : ~Heard(text, 0, f, t)
    BY DEF Heard
  <2>3. \A f \in FileNames : NoTables.tags[f] = <<>> /\ ToSet(NoTables.tags[f]) = {}
    BY ToSetIs, EmptySeq DEF NoTables
  <2>4. ParsedSo(text, Start, 0)
    BY <2>1, <2>2, <2>3, NamesAssumption DEF ParsedSo, Start
  <2> QED BY <2>4, <1>1
<1>3. ASSUME NEW i \in 1..n, i - 1 \in K
      PROVE  i \in K
  <2>1. s[i-1] \in States /\ ParsedSo(text, s[i-1], i-1) /\ s[i] = parse_line(s[i-1], text[i])
    BY <1>1, <1>3
  <2>2. ParsedSo(text, s[i], i)
    BY <2>1, ParseLineFile, ParseLineTag, ParseLineNone
  <2> QED BY <2>2
<1>4. K = 0..n
  <2>1. K \in SUBSET (0..n)
    OBVIOUS
  <2>. HIDE DEF K
  <2> QED BY <1>1, <1>2, <1>3, <2>1, UptoInd
<1>5. n \in 0..n
  BY <1>1
<1>6. s[n] \in States /\ ParsedSo(text, s[n], n)
  <2>1. \A i \in K : ParsedSo(text, s[i], i)
    OBVIOUS
  <2>2. \A i \in 0..n : s[i] \in States
    BY <1>1
  <2>. HIDE DEF n, K
  <2> QED BY <2>1, <2>2, <1>4, <1>5
<1> QED BY <1>6 DEF s

(* Tables in which a file with tags is in the table of files.              *)
Listed(T) == \A f \in FileNames : T.tags[f] # <<>> => f \in ToSet(T.files)
TablesSet == [files : Seq(FileNames), tags : [FileNames -> Seq(TagNames)]]

(* The parser makes of a text what it says (tag.c:221-238).                *)
LEMMA ParseSays ==
    ASSUME NEW text \in Seq(Lines)
    PROVE  /\ parse_tags_db(text) \in TablesSet
           /\ RelationOf(parse_tags_db(text)) = Says(text)
           /\ Listed(parse_tags_db(text))
<1>. DEFINE s == parse_tags_db2(text)[Len(text)]
            T == parse_tags_db(text)
<1>1. s \in States /\ ParsedSo(text, s, Len(text))
  BY ParserReads
<1>2. T = [files |-> s.files, tags |-> s.tags]
  BY DEF parse_tags_db
<1>. HIDE DEF s, T
<1>3. T \in TablesSet /\ T.tags = s.tags /\ T.files = s.files
  BY <1>1, <1>2 DEF TablesSet, States
<1>4. ASSUME NEW p \in FileNames \X TagNames
      PROVE  p \in RelationOf(T) <=> p \in Says(text)
  <2>1. p[2] \in ToSet(s.tags[p[1]]) <=> Heard(text, Len(text), p[1], p[2])
    BY <1>1 DEF ParsedSo
  <2> QED BY <2>1, <1>3 DEF RelationOf, Says, Heard
<1>5. RelationOf(T) = Says(text)
  BY <1>4 DEF RelationOf, Says
<1> QED BY <1>1, <1>3, <1>5 DEF T, ParsedSo, Listed

------------------------------------------------------------------------------
(* The dump.                                                               *)

LEMMA ConcatIs ==
    ASSUME NEW S, NEW s \in Seq(S), NEW t \in Seq(S), NEW m, NEW n, m = Len(s), n = Len(t)
    PROVE  /\ s \o t \in Seq(S) /\ Len(s \o t) = m + n /\ m \in Nat /\ n \in Nat
           /\ \A i \in 1..m : (s \o t)[i] = s[i]
           /\ \A i \in 1..n : (s \o t)[m + i] = t[i]
<1>. DEFINE u == s \o t
<1>1. /\ u \in Seq(S) /\ Len(u) = Len(s) + Len(t)
      /\ \A i \in 1..Len(s) + Len(t) : u[i] = IF i <= Len(s) THEN s[i] ELSE t[i - Len(s)]
  BY ConcatProperties
<1>2. m \in Nat /\ n \in Nat
  OBVIOUS
<1>. HIDE DEF u
<1>3. \A i \in 1..n : m + i \in 1..(m + n) /\ ~(m + i <= m) /\ (m + i) - m = i
  BY <1>2
<1>4. \A i \in 1..m : i \in 1..(m + n) /\ i <= m
  BY <1>2
<1>5. /\ u \in Seq(S) /\ Len(u) = m + n
      /\ \A i \in 1..m : u[i] = s[i]
      /\ \A i \in 1..n : u[m + i] = t[i]
  BY <1>1, <1>3, <1>4
<1> QED BY <1>2, <1>5 DEF u

LEMMA SectionIs ==
    ASSUME NEW T \in TablesSet, NEW f \in FileNames
    PROVE  LET sec == section(T, f)
               n == Len(T.tags[f])
           IN  /\ sec \in Seq(Lines)
               /\ T.tags[f] = <<>> => sec = <<>>
               /\ T.tags[f] # <<>> =>
                      /\ n \in Nat /\ Len(sec) = n + 2
                      /\ sec[1] = Line("file", f)
                      /\ \A i \in 1..n : sec[i+1] = Line("tag", T.tags[f][i])
                      /\ sec[n+2] = Empty
<1>. DEFINE ts == T.tags[f]
            n == Len(ts)
            a == <<Line("file", f)>>
            b == [i \in DOMAIN ts |-> Line("tag", ts[i])]
            e == <<Empty>>
<1>1. ts \in Seq(TagNames) /\ n \in Nat /\ DOMAIN ts = 1..n
      /\ \A i \in 1..n : ts[i] \in TagNames
  BY DEF TablesSet
<1>2. a \in Seq(Lines) /\ Len(a) = 1 /\ a[1] = Line("file", f)
  <2>1. Line("file", f) \in Lines
    BY DEF Line, Lines
  <2> QED BY <2>1
<1>3. e \in Seq(Lines) /\ Len(e) = 1 /\ e[1] = Empty
  <2>1. Empty \in Lines
    BY DEF Lines
  <2> QED BY <2>1
<1>4. b \in Seq(Lines) /\ Len(b) = n
      /\ \A i \in 1..n : b[i] = Line("tag", ts[i])
  <2>1. \A i \in 1..n : Line("tag", ts[i]) \in Lines
    BY <1>1 DEF Line, Lines
  <2>2. b \in [1..n -> Lines]
    BY <1>1, <2>1
  <2>3. \A i \in 1..n : b[i] = Line("tag", ts[i])
    BY <1>1
  <2>. HIDE DEF b, n
  <2> QED BY <1>1, <2>2, <2>3
<1>. HIDE DEF a, b, e, n, ts
<1>5. CASE ts = <<>>
  BY <1>5, EmptySeq DEF section, ts
<1>6. CASE ts # <<>>
  <2>. DEFINE sec == a \o b \o e
  <2>1. section(T, f) = sec
    BY <1>6 DEF section, a, b, e, ts
  <2>. DEFINE ab == a \o b
  <2>2. /\ ab \in Seq(Lines) /\ Len(ab) = 1 + n
        /\ \A i \in 1..1 : ab[i] = a[i]
        /\ \A i \in 1..n : ab[1 + i] = b[i]
    <3>1. a \in Seq(Lines) /\ b \in Seq(Lines)
      BY <1>2, <1>4
    <3>2. /\ ab \in Seq(Lines) /\ Len(ab) = Len(a) + Len(b)
          /\ \A i \in 1..Len(a) : ab[i] = a[i]
          /\ \A i \in 1..Len(b) : ab[Len(a) + i] = b[i]
      BY <3>1, ConcatIs
    <3>. HIDE DEF ab
    <3> QED BY <3>2, <1>2, <1>4
  <2>3. /\ sec \in Seq(Lines) /\ Len(sec) = (1 + n) + 1
        /\ \A i \in 1..(1 + n) : sec[i] = ab[i]
        /\ \A i \in 1..1 : sec[(1 + n) + i] = e[i]
    <3>1. sec = ab \o e /\ ab \in Seq(Lines) /\ e \in Seq(Lines)
      BY <1>3, <2>2
    <3>. HIDE DEF ab, sec
    <3>2. /\ sec \in Seq(Lines) /\ Len(sec) = Len(ab) + Len(e)
          /\ \A i \in 1..Len(ab) : sec[i] = ab[i]
          /\ \A i \in 1..Len(e) : sec[Len(ab) + i] = e[i]
      BY <3>1, ConcatIs
    <3> QED BY <3>2, <1>3, <2>2
  <2>. HIDE DEF ab, sec
  <2>4. ab[1] = a[1] /\ \A i \in 1..n : ab[i+1] = b[i]
    BY <1>1, <2>2
  <2>5. sec[(1 + n) + 1] = e[1] /\ (1 + n) + 1 = n + 2 /\ 1 + n = n + 1
    BY <1>1, <2>3
  <2>6. /\ sec \in Seq(Lines) /\ Len(sec) = n + 2
        /\ \A i \in 1..(n+1) : sec[i] = ab[i]
        /\ sec[n+2] = e[1]
    BY <2>3, <2>5
  <2>7. 1 \in 1..(n+1) /\ \A i \in 1..n : i + 1 \in 1..(n+1)
    BY <1>1
  <2>8. sec[1] = a[1] /\ \A i \in 1..n : sec[i+1] = b[i]
    BY <2>4, <2>6, <2>7
  <2> QED BY <1>1, <1>2, <1>3, <1>4, <1>6, <2>1, <2>6, <2>8 DEF ts, n
<1> QED BY <1>5, <1>6

(* A tag of f is read as the file g.                                       *)
Marks(T, f, g) == \E t \in ToSet(T.tags[f]) : TagRead(t) = Line("file", g)
Plain(T, f) == \A t \in ToSet(T.tags[f]) : TagRead(t).kind # "file"

(* The text tells of the files F what the tables T have, and of no file    *)
(* anything else.                                                          *)
Tells(text, T, F) ==
    /\ text \in Seq(Lines)
    /\ \A j \in 1..Len(text), g \in FileNames :
           reads(text[j]).kind = "tag" /\ Under(text, j, g) =>
               \E f \in FileNames : \E t \in ToSet(T.tags[f]) :
                   reads(text[j]) = TagRead(t) /\ (g = FileRead(f) \/ Marks(T, f, g))
    /\ \A f \in F : Plain(T, f) => \A t \in ToSet(T.tags[f]) : TagRead(t).kind = "tag" =>
           \E j \in 1..Len(text) : reads(text[j]) = TagRead(t) /\ Under(text, j, FileRead(f))

LEMMA ReadIs ==
    /\ \A f \in FileNames : /\ reads(Line("file", f)).kind = "file"
                            /\ FileRead(f) \in FileNames
                            /\ f \in Files => FileRead(f) \in Files
    /\ \A t \in TagNames : /\ TagRead(t) \in Lines /\ reads(Line("tag", t)) = TagRead(t)
                           /\ \A g : TagRead(t) = Line("file", g) => g \in Files
    /\ reads(Empty) = Empty /\ Empty.kind = "empty"
<1>1. ASSUME NEW f \in FileNames
      PROVE  /\ reads(Line("file", f)).kind = "file"
             /\ FileRead(f) \in FileNames
             /\ f \in Files => FileRead(f) \in Files
  <2>. DEFINE l == Line("file", f)
  <2>1. l \in Lines /\ l.kind = "file" /\ l.name = f
    BY DEF Line, Lines
  <2>2. f \in Files => l.name # Cut
    BY <2>1, NamesAssumption
  <2>. HIDE DEF l
  <2>3. reads(l).kind = "file" /\ reads(l).name \in FileNames
        /\ (f \in Files => reads(l).name # Cut)
    <3>1. reads(l).kind = "file" => reads(l) # Empty
      BY DEF Empty, Line
    <3> QED BY <2>1, <2>2, <3>1, LineIs
  <2> QED BY <2>3 DEF FileRead, l, FileNames
<1>2. ASSUME NEW t \in TagNames
      PROVE  /\ TagRead(t) \in Lines
             /\ \A g : TagRead(t) = Line("file", g) => g \in Files
  <2>. DEFINE l == Line("tag", t)
  <2>1. l \in Lines /\ l.kind = "tag" /\ l.name = t
    BY DEF Line, Lines
  <2>. HIDE DEF l
  <2>2. reads(l) \in Lines
    BY <2>1, LineIs
  <2>3. ASSUME NEW g, reads(l) = Line("file", g)
        PROVE  g \in Files
    <3>1. reads(l).kind = "file" /\ reads(l).name = g /\ reads(l) # Empty /\ reads(l) # l
      BY <2>1, <2>3 DEF Line, Empty
    <3>2. l.name # Cut /\ g \in FileNames
      BY <2>1, <3>1, LineIs
    <3>3. g # Cut
      BY <2>1, <3>1, <3>2, LineIs
    <3> QED BY <3>2, <3>3 DEF FileNames
  <2> QED BY <2>2, <2>3 DEF TagRead, l
<1>3. reads(Empty) = Empty /\ Empty.kind = "empty"
  BY DEF reads, Empty, Line
<1> QED BY <1>1, <1>2, <1>3 DEF TagRead

LEMMA SectionAdds ==
    ASSUME NEW T \in TablesSet, NEW F \in SUBSET FileNames, NEW f \in FileNames, NEW text,
           Tells(text, T, F)
    PROVE  Tells(text \o section(T, f), T, F \cup {f})
<1>. DEFINE sec == section(T, f)
            ts == T.tags[f]
            n == Len(ts)
            m == Len(text)
            d == text \o sec
<1>1. text \in Seq(Lines) /\ m \in Nat /\ ts \in Seq(TagNames) /\ n \in Nat
  BY DEF Tells, TablesSet
<1>2. CASE ts = <<>>
  <2>1. d = text /\ ToSet(ts) = {}
    BY <1>1, <1>2, SectionIs, ConcatEmptySeq, ToSetIs
  <2>. HIDE DEF d, ts
  <2>2. Tells(text, T, F \cup {f})
    BY <2>1 DEF Tells, ts
  <2> QED BY <2>1, <2>2 DEF d
<1>3. CASE ts # <<>>
  <2>1. /\ sec \in Seq(Lines) /\ Len(sec) = n + 2
        /\ sec[1] = Line("file", f)
        /\ \A i \in 1..n : sec[i+1] = Line("tag", ts[i])
        /\ sec[n+2] = Empty
    BY <1>3, SectionIs
  <2>2. /\ d \in Seq(Lines) /\ Len(d) = m + n + 2
        /\ \A i \in 1..m : d[i] = text[i]
        /\ \A i \in 1..(n+2) : d[m+i] = sec[i]
    <3>. HIDE DEF sec, n, ts, m
    <3>1. /\ d \in Seq(Lines) /\ Len(d) = m + (n + 2)
          /\ \A i \in 1..m : d[i] = text[i]
          /\ \A i \in 1..(n + 2) : d[m + i] = sec[i]
      <4>1. text \in Seq(Lines) /\ sec \in Seq(Lines) /\ m = Len(text) /\ n + 2 = Len(sec)
        BY <1>1, <2>1 DEF m
      <4> QED BY <4>1, ConcatIs
    <3> QED BY <1>1, <3>1
  <2>. HIDE DEF sec, n, d, m, ts
  <2>3. \A i \in 1..n : 1 + i \in 1..(n+2) /\ m + (1 + i) = m + 1 + i /\ i + 1 = 1 + i
    BY <1>1
  <2>4. /\ reads(d[m+1]).kind = "file" /\ reads(d[m+1]).name = FileRead(f)
        /\ \A i \in 1..n : ts[i] \in TagNames /\ reads(d[m+1+i]) = TagRead(ts[i])
        /\ reads(d[m+n+2]).kind = "empty"
    <3>1. 1 \in 1..(n+2) /\ n + 2 \in 1..(n+2) /\ m + (n + 2) = m + n + 2
      BY <1>1
    <3>2. d[m+1] = sec[1] /\ d[m+n+2] = sec[n+2]
      BY <2>2, <3>1
    <3>3. \A i \in 1..n : d[m+1+i] = sec[i+1]
      BY <2>2, <2>3
    <3>4. \A i \in 1..n : ts[i] \in TagNames
      BY <1>1 DEF n
    <3> QED BY <2>1, <3>2, <3>3, <3>4, ReadIs DEF FileRead
  <2>5. \A j \in m+1..m+n+2 : j = m + 1 \/ j = m + n + 2 \/ \E i \in 1..n : j = m + 1 + i
    <3>1. \A j \in m+1..m+n+2 : j # m + 1 /\ j # m + n + 2 =>
               j - m - 1 \in 1..n /\ j = m + 1 + (j - m - 1)
      BY <1>1
    <3> QED BY <3>1
  <2>6. \A i \in 1..n : ts[i] \in ToSet(ts)
    BY <1>1, ToSetIs DEF n
  <2>7. ASSUME NEW j \in m+1..m+n+2, NEW g, Under(d, j, g)
        PROVE  g = FileRead(f) \/ Marks(T, f, g)
    <3>1. PICK i \in 1..j : /\ reads(d[i]).kind = "file" /\ reads(d[i]).name = g
                            /\ \A k \in i+1..j : reads(d[k]).kind # "file"
      BY <2>7 DEF Under
    <3>2. i \in m+1..m+n+2
      <4>1. i < m + 1 => m + 1 \in i+1..j
        BY <1>1
      <4> QED BY <1>1, <2>4, <3>1, <4>1
    <3>3. CASE i = m + 1
      BY <2>4, <3>1, <3>3
    <3>4. CASE i # m + 1
      <4>1. PICK k \in 1..n : i = m + 1 + k
        BY <2>4, <2>5, <3>1, <3>2, <3>4
      <4>2. TagRead(ts[k]).kind = "file" /\ TagRead(ts[k]).name = g /\ TagRead(ts[k]) \in Lines
        BY <2>4, <3>1, <4>1, ReadIs
      <4>3. TagRead(ts[k]) = Line("file", g)
        BY <4>2, LinesAre DEF Line
      <4> QED BY <2>6, <4>3 DEF Marks, ts
    <3> QED BY <3>3, <3>4
  <2>12. ASSUME Plain(T, f), NEW j \in m+1..m+n+2
         PROVE  Under(d, j, FileRead(f))
    <3>1. j \in Nat /\ m + 1 \in 1..j
      BY <1>1
    <3>2. ASSUME NEW k \in (m+1)+1..j
          PROVE  reads(d[k]).kind # "file"
      <4>1. k \in m+1..m+n+2 /\ k # m + 1
        BY <1>1, <2>12
      <4>2. \A i \in 1..n : TagRead(ts[i]).kind # "file"
        BY <2>6, <2>12 DEF Plain, ts
      <4> QED BY <2>4, <2>5, <4>1, <4>2
    <3> QED BY <2>4, <3>1, <3>2 DEF Under
  <2>8. \A j \in 1..m : \A g : Under(d, j, g) <=> Under(text, j, g)
    <3>1. SUFFICES ASSUME NEW j \in 1..m, NEW g
                   PROVE  Under(d, j, g) <=> Under(text, j, g)
      OBVIOUS
    <3>2. j \in Nat /\ \A i \in 1..j : d[i] = text[i]
      BY <1>1, <2>2
    <3> QED BY <3>2, UnderSame
  <2>9. ASSUME NEW j \in 1..Len(d), NEW g \in FileNames, reads(d[j]).kind = "tag", Under(d, j, g)
        PROVE  \E e \in FileNames : \E t \in ToSet(T.tags[e]) :
                   reads(d[j]) = TagRead(t) /\ (g = FileRead(e) \/ Marks(T, e, g))
    <3>1. CASE j \in 1..m
      <4>1. reads(text[j]).kind = "tag" /\ Under(text, j, g) /\ d[j] = text[j]
        BY <3>1, <2>2, <2>8, <2>9
      <4> QED BY <3>1, <4>1 DEF Tells, m
    <3>2. CASE j \notin 1..m
      <4>1. j \in m+1..m+n+2
        BY <3>2, <1>1, <2>2
      <4>2. PICK i \in 1..n : j = m + 1 + i
        BY <4>1, <2>4, <2>5, <2>9
      <4>3. reads(d[j]) = TagRead(ts[i]) /\ ts[i] \in ToSet(ts)
        BY <4>2, <2>4, <2>6
      <4>4. g = FileRead(f) \/ Marks(T, f, g)
        BY <2>7, <2>9, <4>1
      <4> QED BY <4>3, <4>4 DEF ts
    <3> QED BY <3>1, <3>2
  <2>10. ASSUME NEW e \in F \cup {f}, Plain(T, e), NEW t \in ToSet(T.tags[e]),
                TagRead(t).kind = "tag"
         PROVE  \E j \in 1..Len(d) : reads(d[j]) = TagRead(t) /\ Under(d, j, FileRead(e))
    <3>1. CASE e = f
      <4>1. PICK i \in 1..n : ts[i] = t
        BY <3>1, <1>1, <2>10, ToSetIs DEF n, ts
      <4>2. m + 1 + i \in m+1..m+n+2 /\ m + 1 + i \in 1..Len(d)
        BY <1>1, <2>2
      <4> QED BY <3>1, <4>1, <4>2, <2>4, <2>10, <2>12
    <3>2. CASE e \in F
      <4>1. PICK j \in 1..m : reads(text[j]) = TagRead(t) /\ Under(text, j, FileRead(e))
        BY <3>2, <2>10 DEF Tells, m
      <4>2. j \in 1..Len(d)
        BY <1>1, <2>2
      <4> QED BY <4>1, <4>2, <2>2, <2>8
    <3> QED BY <3>1, <3>2
  <2>11. Tells(d, T, F \cup {f})
    BY <2>2, <2>9, <2>10 DEF Tells
  <2> QED BY <2>11 DEF d, sec
<1> QED BY <1>2, <1>3

LEMMA DumpRuns ==
    ASSUME NEW T \in TablesSet, NEW l \in Seq(FileNames)
    PROVE  LET d == dumped(T, l)
           IN  /\ d[0] = <<>>
               /\ \A i \in 1..Len(l) : d[i] = d[i-1] \o section(T, l[i])
<1>. DEFINE n == Len(l)
            d == dumped(T, l)
            Step == [p \in Seq(Lines) \X (1..n) |-> p[1] \o section(T, l[p[2]])]
<1>1. n \in Nat /\ \A i \in 1..n : l[i] \in FileNames
  OBVIOUS
<1>2. <<>> \in Seq(Lines)
  BY EmptySeq
<1>3. Step \in [Seq(Lines) \X (1..n) -> Seq(Lines)]
  <2>1. \A x \in Seq(Lines), i \in 1..n : x \o section(T, l[i]) \in Seq(Lines)
    BY <1>1, SectionIs, ConcatProperties
  <2> QED BY <2>1
<1>4. \A x \in Seq(Lines), i \in 1..n : Step[<<x, i>>] = x \o section(T, l[i])
  OBVIOUS
<1>. HIDE DEF Step
<1>5. PICK g : IsLoop(g, n, <<>>, Step) /\ g \in [0..n -> Seq(Lines)]
  BY <1>1, <1>2, <1>3, Recursion
<1>6. g = [i \in 0..n |-> IF i = 0 THEN <<>> ELSE g[i-1] \o section(T, l[i])]
  <2>1. \A i \in 1..n : g[i-1] \in Seq(Lines)
    BY <1>5
  <2>2. \A i \in 0..n : g[i] = IF i = 0 THEN <<>> ELSE Step[<<g[i-1], i>>]
    BY <1>5 DEF IsLoop
  <2>3. \A i \in 0..n : i # 0 => i \in 1..n
    OBVIOUS
  <2>4. \A i \in 0..n : g[i] = IF i = 0 THEN <<>> ELSE g[i-1] \o section(T, l[i])
    BY <1>4, <2>1, <2>2, <2>3
  <2>5. g = [i \in 0..n |-> g[i]]
    BY <1>5
  <2> QED BY <2>4, <2>5
<1>7. d = [i \in 0..n |-> IF i = 0 THEN <<>> ELSE d[i-1] \o section(T, l[i])]
  BY <1>6 DEF dumped
<1>. HIDE DEF d
<1>8. d[0] = <<>> /\ \A i \in 1..n : d[i] = d[i-1] \o section(T, l[i])
  BY <1>1, <1>7
<1> QED BY <1>8 DEF d

LEMMA DumpTells ==
    ASSUME NEW T \in TablesSet
    PROVE  Tells(tag_db_dump(T), T, ToSet(T.files))
<1>. DEFINE l == ht_to_list(T.files)
            n == Len(l)
            d == dumped(T, l)
            F(i) == {l[j] : j \in 1..i}
            K == {i \in 0..n : Tells(d[i], T, F(i))}
<1>1. l \in Seq(FileNames) /\ ToSet(l) = ToSet(T.files)
  <2>1. T.files \in Seq(FileNames)
    BY DEF TablesSet
  <2> QED BY <2>1, ListIs
<1>. HIDE DEF l
<1>2. /\ n \in Nat
      /\ \A i \in 1..n : l[i] \in FileNames
      /\ DOMAIN l = 1..n
  BY <1>1
<1>3. d[0] = <<>> /\ \A i \in 1..n : d[i] = d[i-1] \o section(T, l[i])
  BY <1>1, DumpRuns
<1>. HIDE DEF n, d
<1>4. 0 \in K
  <2>1. Tells(<<>>, T, {})
    BY EmptySeq DEF Tells
  <2>2. F(0) = {}
    OBVIOUS
  <2>3. Tells(d[0], T, F(0))
    BY <1>3, <2>1, <2>2
  <2> QED BY <1>2, <2>3
<1>5. ASSUME NEW i \in 1..n, i - 1 \in K
      PROVE  i \in K
  <2>1. F(i) = F(i-1) \cup {l[i]} /\ F(i-1) \in SUBSET FileNames /\ l[i] \in FileNames
    BY <1>2
  <2>2. Tells(d[i-1], T, F(i-1))
    BY <1>5
  <2>. HIDE DEF F
  <2>3. Tells(d[i-1] \o section(T, l[i]), T, F(i-1) \cup {l[i]})
    BY <2>1, <2>2, SectionAdds
  <2>4. Tells(d[i], T, F(i))
    BY <1>3, <2>1, <2>3
  <2> QED BY <1>2, <2>4
<1>6. K = 0..n
  <2>1. K \in SUBSET (0..n)
    OBVIOUS
  <2>. HIDE DEF K
  <2> QED BY <1>2, <1>4, <1>5, <2>1, UptoInd
<1>7. Tells(d[n], T, F(n))
  <2>1. \A i \in K : Tells(d[i], T, F(i))
    OBVIOUS
  <2>2. n \in 0..n
    BY <1>2
  <2>. HIDE DEF K, F
  <2> QED BY <1>6, <2>1, <2>2
<1>8. F(n) = ToSet(T.files)
  BY <1>1, <1>2 DEF ToSet
<1>9. tag_db_dump(T) = d[n]
  BY DEF tag_db_dump, d, n, l
<1> QED BY <1>7, <1>8, <1>9

(* A dump says what the tables have, as it is read.                        *)
SaysOf(R, B) ==
    /\ \A p \in R : /\ TagRead(p[2]).kind = "tag"
                    /\ \A t \in Holding(R, p[1]) : TagRead(t).kind # "file"
                    => <<FileRead(p[1]), TagRead(p[2]).name>> \in B
    /\ \A b \in B : \E p \in R :
           /\ TagRead(p[2]) = Line("tag", b[2])
           /\ b[1] = FileRead(p[1]) \/ \E t \in Holding(R, p[1]) : TagRead(t) = Line("file", b[1])

LEMMA HoldingIs ==
    ASSUME NEW T \in TablesSet, NEW f \in FileNames
    PROVE  /\ Holding(RelationOf(T), f) = ToSet(T.tags[f])
           /\ ToSet(T.tags[f]) \subseteq TagNames
           /\ \A t : <<f, t>> \in RelationOf(T) <=> t \in ToSet(T.tags[f])
<1>1. T.tags[f] \in Seq(TagNames)
  BY DEF TablesSet
<1>2. ToSet(T.tags[f]) \subseteq TagNames
  BY <1>1, ToSetIs
<1>3. \A t : <<f, t>> \in RelationOf(T) <=> t \in ToSet(T.tags[f])
  BY <1>2 DEF RelationOf
<1>4. \A p \in RelationOf(T) : p = <<p[1], p[2]>>
  BY DEF RelationOf
<1>5. \A t \in Holding(RelationOf(T), f) : t \in ToSet(T.tags[f])
  BY <1>3, <1>4 DEF Holding
<1>6. \A t \in ToSet(T.tags[f]) : t \in Holding(RelationOf(T), f)
  <2>1. \A t \in ToSet(T.tags[f]) : <<f, t>>[1] = f /\ <<f, t>>[2] = t
    OBVIOUS
  <2> QED BY <1>3, <2>1 DEF Holding
<1> QED BY <1>2, <1>3, <1>5, <1>6

LEMMA DumpSays ==
    ASSUME NEW T \in TablesSet, Listed(T)
    PROVE  SaysOf(RelationOf(T), Says(tag_db_dump(T)))
<1>. DEFINE d == tag_db_dump(T)
            R == RelationOf(T)
<1>1. Tells(d, T, ToSet(T.files))
  BY DumpTells
<1>. HIDE DEF d
<1>2. d \in Seq(Lines) /\ DOMAIN d = 1..Len(d)
  BY <1>1 DEF Tells
<1>3. ASSUME NEW p \in R, TagRead(p[2]).kind = "tag",
             \A t \in Holding(R, p[1]) : TagRead(t).kind # "file"
      PROVE  <<FileRead(p[1]), TagRead(p[2]).name>> \in Says(d)
  <2>. DEFINE f == p[1]
              t == p[2]
  <2>1. f \in FileNames /\ t \in TagNames /\ p = <<f, t>>
    BY DEF RelationOf
  <2>2. t \in ToSet(T.tags[f]) /\ Plain(T, f)
    BY <1>3, <2>1, HoldingIs DEF Plain
  <2>3. f \in ToSet(T.files)
    <3>1. T.tags[f] \in Seq(TagNames)
      BY <2>1 DEF TablesSet
    <3>2. T.tags[f] # <<>>
      BY <2>2, <3>1, ToSetIs
    <3> QED BY <2>1, <3>2 DEF Listed
  <2>4. PICK j \in 1..Len(d) : reads(d[j]) = TagRead(t) /\ Under(d, j, FileRead(f))
    BY <1>1, <1>3, <2>2, <2>3 DEF Tells
  <2>5. FileRead(f) \in FileNames /\ TagRead(t).name \in TagNames
    BY <1>3, <2>1, ReadIs, LinesAre
  <2>6. TagLine(d, j, FileRead(f), TagRead(t).name)
    BY <1>3, <2>4 DEF TagLine
  <2>. HIDE DEF f, t
  <2>7. <<FileRead(f), TagRead(t).name>> \in Says(d)
    BY <1>2, <2>4, <2>5, <2>6 DEF Says
  <2> QED BY <2>7 DEF f, t
<1>4. ASSUME NEW b \in Says(d)
      PROVE  \E p \in R : /\ TagRead(p[2]) = Line("tag", b[2])
                          /\ \/ b[1] = FileRead(p[1])
                             \/ \E t \in Holding(R, p[1]) : TagRead(t) = Line("file", b[1])
  <2>1. PICK j \in 1..Len(d) : TagLine(d, j, b[1], b[2])
    BY <1>2 DEF Says
  <2>2. b[1] \in FileNames /\ d[j] \in Lines
    BY <1>2 DEF Says
  <2>3. PICK f \in FileNames : \E t \in ToSet(T.tags[f]) :
            reads(d[j]) = TagRead(t) /\ (b[1] = FileRead(f) \/ Marks(T, f, b[1]))
    BY <1>1, <2>1, <2>2 DEF TagLine, Tells
  <2>4. PICK t \in ToSet(T.tags[f]) :
            reads(d[j]) = TagRead(t) /\ (b[1] = FileRead(f) \/ Marks(T, f, b[1]))
    BY <2>3
  <2>5. TagRead(t) = Line("tag", b[2])
    <3>1. reads(d[j]) \in Lines /\ reads(d[j]).kind = "tag" /\ reads(d[j]).name = b[2]
      BY <2>1, <2>2, LineIs DEF TagLine
    <3> QED BY <2>4, <3>1, LinesAre DEF Line
  <2>6. <<f, t>> \in R /\ <<f, t>>[1] = f /\ <<f, t>>[2] = t
    BY HoldingIs
  <2>7. Holding(R, f) = ToSet(T.tags[f])
    BY HoldingIs
  <2>. HIDE DEF R
  <2> QED BY <2>4, <2>5, <2>6, <2>7 DEF Marks
<1>5. SaysOf(R, Says(d))
  BY <1>3, <1>4 DEF SaysOf
<1> QED BY <1>5 DEF d

------------------------------------------------------------------------------
(* A text that ends early.                                                 *)

LEMMA CutSays ==
    ASSUME NEW text \in Seq(Lines), NEW k \in 1..Len(text)
    PROVE  LET p == SubSeq(text, 1, k)
               q == [p EXCEPT ![k] = shorten(@)]
           IN  /\ p \in Seq(Lines) /\ q \in Seq(Lines)
               /\ Says(p) \subseteq Says(text)
               /\ \A e \in Says(q) : \/ e \in Says(text)
                                     \/ /\ e[2] = Cut /\ reads(text[k]).kind = "tag"
                                        /\ Under(text, k, e[1])
<1>. DEFINE p == SubSeq(text, 1, k)
            q == [p EXCEPT ![k] = shorten(@)]
<1>1. /\ p \in Seq(Lines) /\ Len(p) = k /\ DOMAIN p = 1..k
      /\ \A i \in 1..k : p[i] = text[i]
      /\ DOMAIN text = 1..Len(text)
  BY SubSeqProperties
<1>. HIDE DEF p
<1>2. /\ q \in Seq(Lines) /\ DOMAIN q = 1..k
      /\ \A i \in 1..k : i # k => q[i] = text[i]
      /\ q[k] = shorten(text[k]) /\ text[k] \in Lines
  <2>1. p[k] \in Lines /\ k \in 1..k /\ p[k] = text[k]
    BY <1>1
  <2>2. shorten(p[k]) \in Lines
    BY <2>1, ShortIs
  <2> QED BY <1>1, <2>1, <2>2
<1>. HIDE DEF q
<1>3. k \in Nat /\ \A j \in 1..k : j \in Nat /\ j \in 1..Len(text) /\ \A i \in 1..j : i \in 1..k
  OBVIOUS
<1>4. \A j \in 1..k : \A f : Under(p, j, f) <=> Under(text, j, f)
  BY <1>1, <1>3, UnderSame
<1>5. Says(p) \subseteq Says(text)
  <2>1. \A j \in 1..k : \A f, t : TagLine(p, j, f, t) => TagLine(text, j, f, t)
    BY <1>1, <1>4 DEF TagLine
  <2> QED BY <1>1, <1>3, <2>1 DEF Says
<1>6. ASSUME NEW e \in Says(q), e \notin Says(text)
      PROVE  e[2] = Cut /\ reads(text[k]).kind = "tag" /\ Under(text, k, e[1])
  <2>1. PICK j \in 1..k : TagLine(q, j, e[1], e[2])
    BY <1>2 DEF Says
  <2>2. j = k
    <3>1. SUFFICES ASSUME j # k
                   PROVE  FALSE
      OBVIOUS
    <3>2. j \in Nat /\ \A i \in 1..j : i # k /\ i \in 1..k
      BY <3>1
    <3>3. q[j] = text[j] /\ (Under(q, j, e[1]) <=> Under(text, j, e[1]))
      BY <1>2, <3>1, <3>2, UnderSame
    <3>4. TagLine(text, j, e[1], e[2])
      BY <2>1, <3>3 DEF TagLine
    <3>5. e \in FileNames \X TagNames /\ j \in DOMAIN text
      BY <1>1, <1>3 DEF Says
    <3> QED BY <1>6, <3>4, <3>5 DEF Says
  <2>3. reads(q[k]).kind = "tag" /\ reads(q[k]).name = e[2] /\ Under(q, k, e[1])
    BY <2>1, <2>2 DEF TagLine
  <2>4. reads(text[k]).kind = "tag" /\ e[2] = Cut
    BY <1>2, <2>3, ShortIs
  <2>5. Under(text, k, e[1])
    <3>1. Under(q, k-1, e[1])
      <4>1. q \in Seq(Lines) /\ k \in 1..Len(q) /\ reads(q[k]).kind # "file"
        BY <1>2, <1>3, <2>3
      <4> QED BY <4>1, <2>3, UnderNext
    <3>2. k - 1 \in Nat /\ \A i \in 1..(k-1) : i # k /\ i \in 1..k
      OBVIOUS
    <3>3. Under(text, k-1, e[1])
      BY <1>2, <3>1, <3>2, UnderSame
    <3> QED BY <2>4, <3>3, UnderNext
  <2> QED BY <2>4, <2>5
<1>7. \A e \in Says(q) : \/ e \in Says(text)
                         \/ /\ e[2] = Cut /\ reads(text[k]).kind = "tag"
                            /\ Under(text, k, e[1])
  BY <1>6
<1> QED BY <1>1, <1>2, <1>5, <1>7 DEF p, q

FilesOnly(R) == \A p \in R : p[1] \in Files

(* What a torn dump says, and the whole one does not.                      *)
OnlyCut(R) == R \subseteq Files \X {Cut} /\ \A p, q \in R : p = q

LEMMA WholeSays ==
    ASSUME NEW T \in TablesSet, Listed(T), FilesOnly(RelationOf(T))
    PROVE  LET d == tag_db_dump(T)
           IN  /\ d \in Seq(Lines) /\ Says(d) = RelationOf(parse_tags_db(d))
               /\ FilesOnly(Says(d)) /\ OnlyCut(Says(d) \ Says(d))
<1>. DEFINE d == tag_db_dump(T)
            R == RelationOf(T)
<1>1. d \in Seq(Lines)
  BY DumpTells DEF Tells
<1>2. SaysOf(R, Says(d))
  BY DumpSays
<1>. HIDE DEF d
<1>3. ASSUME NEW b \in Says(d)
      PROVE  b[1] \in Files
  <2>1. PICK p \in R : b[1] = FileRead(p[1]) \/ \E t \in Holding(R, p[1]) : TagRead(t) = Line("file", b[1])
    BY <1>2 DEF SaysOf
  <2>2. p[1] \in Files /\ p[1] \in FileNames
    BY DEF FilesOnly, FileNames
  <2>3. \A t \in Holding(R, p[1]) : t \in TagNames
    BY <2>2, HoldingIs
  <2>. HIDE DEF R
  <2> QED BY <2>1, <2>2, <2>3, ReadIs
<1>4. Says(d) = RelationOf(parse_tags_db(d))
  BY <1>1, ParseSays
<1>5. FilesOnly(Says(d)) /\ OnlyCut(Says(d) \ Says(d))
  BY <1>3 DEF FilesOnly, OnlyCut
<1> QED BY <1>1, <1>4, <1>5 DEF d

LEMMA TornSays ==
    ASSUME NEW T \in TablesSet, Listed(T), FilesOnly(RelationOf(T)),
           NEW text \in Torn(tag_db_dump(T))
    PROVE  /\ text \in Seq(Lines)
           /\ FilesOnly(Says(text)) /\ OnlyCut(Says(text) \ Says(tag_db_dump(T)))
<1>. DEFINE d == tag_db_dump(T)
<1>1. d \in Seq(Lines) /\ FilesOnly(Says(d))
  BY WholeSays
<1>2. text \in Torn(d)
  OBVIOUS
<1>0. \A f \in FileNames, k \in 1..Len(d) :
          reads(d[k]).kind = "tag" /\ Under(d, k, f) => f \in Files
  <2>1. SUFFICES ASSUME NEW f \in FileNames, NEW k \in 1..Len(d),
                        reads(d[k]).kind = "tag", Under(d, k, f)
                 PROVE  f \in Files
    OBVIOUS
  <2>. HIDE DEF d
  <2>2. d[k] \in Lines /\ reads(d[k]).name \in TagNames /\ k \in DOMAIN d
    BY <1>1, <2>1, LineIs
  <2>3. <<f, reads(d[k]).name>> \in Says(d)
    BY <2>1, <2>2 DEF Says, TagLine
  <2> QED BY <1>1, <2>3 DEF FilesOnly
<1>. HIDE DEF d
<1>3. CASE text = <<>>
  <2>1. Says(<<>>) = {}
    BY DEF Says
  <2> QED BY <1>3, <2>1, EmptySeq DEF FilesOnly, OnlyCut
<1>4. CASE text # <<>>
  <2>1. PICK k \in 1..Len(d) : \/ text = SubSeq(d, 1, k)
                               \/ text = [SubSeq(d, 1, k) EXCEPT ![k] = shorten(@)]
    BY <1>1, <1>2, <1>4 DEF Torn
  <2>. DEFINE CutShort(f) == reads(d[k]).kind = "tag" /\ Under(d, k, f)
  <2>2. /\ text \in Seq(Lines)
        /\ \A e \in Says(text) : e \in Says(d) \/ (e[2] = Cut /\ CutShort(e[1]))
    BY <1>1, <2>1, CutSays
  <2>3. \A f \in FileNames : CutShort(f) => f \in Files
    BY <1>0
  <2>4. \A f, g : CutShort(f) /\ CutShort(g) => f = g
    BY UnderOne
  <2>5. \A e \in Says(text) : e = <<e[1], e[2]>> /\ e[1] \in FileNames
    BY DEF Says
  <2>. HIDE DEF CutShort
  <2>6. FilesOnly(Says(text))
    BY <1>1, <2>2, <2>3, <2>5 DEF FilesOnly
  <2>7. OnlyCut(Says(text) \ Says(d))
    <3>1. \A e \in Says(text) \ Says(d) : e[2] = Cut /\ CutShort(e[1]) /\ e[1] \in Files
      BY <2>2, <2>3, <2>5
    <3> QED BY <2>4, <2>5, <3>1 DEF OnlyCut
  <2> QED BY <2>2, <2>6, <2>7 DEF d
<1> QED BY <1>3, <1>4

------------------------------------------------------------------------------
(* The invariant.                                                          *)

(* A client that reads has the beginning of the dump of now, all of it at  *)
(* the end, unless that changed since.                                     *)
ReaderSound ==
    LET d == tag_db_dump(tables)
    IN  /\ ~up => reader = Closed
        /\ reader.quiet => /\ Len(reader.got) <= Len(d)
                           /\ reader.got = SubSeq(d, 1, Len(reader.got))
                           /\ reader.eof => Len(reader.got) = Len(d)

(* No file whose name was cut short has tags, in the tables or in a text.  *)
NamesSound == /\ Listed(tables) /\ FilesOnly(RelationOf(tables))
              /\ FilesOnly(Says(db)) /\ FilesOnly(Says(new))

IInv == TypeOK /\ NamesSound /\ ReaderSound /\ TornSaveOnlyLoses

LEMMA NoTablesSound ==
    /\ NoTables \in TablesSet /\ RelationOf(NoTables) = {} /\ Listed(NoTables)
    /\ Closed \in [open : BOOLEAN, got : Seq(Lines), quiet : BOOLEAN, eof : BOOLEAN]
    /\ Says(<<>>) = {} /\ <<>> \in Seq(Lines)
<1>1. \A f \in FileNames : NoTables.tags[f] = <<>> /\ ToSet(NoTables.tags[f]) = {}
  BY ToSetIs, EmptySeq DEF NoTables
<1>2. NoTables \in TablesSet
  BY EmptySeq DEF NoTables, TablesSet
<1>3. RelationOf(NoTables) = {}
  BY <1>1 DEF RelationOf
<1>4. Listed(NoTables)
  BY <1>1 DEF Listed
<1>5. <<>> \in Seq(Lines) /\ Says(<<>>) = {}
  BY EmptySeq DEF Says
<1>6. Closed \in [open : BOOLEAN, got : Seq(Lines), quiet : BOOLEAN, eof : BOOLEAN]
  BY <1>5 DEF Closed
<1> QED BY <1>2, <1>3, <1>4, <1>5, <1>6

(* Whatever is dumped, a client that has not read yet has its beginning.   *)
LEMMA ClosedSound ==
    ASSUME NEW d \in Seq(Lines)
    PROVE  /\ ~Closed.eof /\ Len(Closed.got) = 0 /\ Len(Closed.got) <= Len(d)
           /\ Closed.got = SubSeq(d, 1, Len(Closed.got))
<1>1. Closed.got = <<>> /\ ~Closed.eof /\ Len(<<>>) = 0
  BY DEF Closed
<1>2. SubSeq(d, 1, 0) = <<>>
  BY SubSeqEmpty
<1> QED BY <1>1, <1>2

LEMMA DumpType ==
    ASSUME NEW T \in TablesSet
    PROVE  tag_db_dump(T) \in Seq(Lines)
BY DumpTells DEF Tells

LEMMA RelationFiles ==
    ASSUME NEW T \in TablesSet
    PROVE  FilesOnly(RelationOf(T)) <=> \A f \in FileNames : T.tags[f] # <<>> => f \in Files
<1>1. \A f \in FileNames : T.tags[f] \in Seq(TagNames)
  BY DEF TablesSet
<1>2. \A f \in FileNames : /\ ToSet(T.tags[f]) \subseteq TagNames
                           /\ ToSet(T.tags[f]) = {} <=> T.tags[f] = <<>>
  BY <1>1, ToSetIs
<1>3. \A f \in FileNames, t \in TagNames :
          <<f, t>> \in RelationOf(T) <=> t \in ToSet(T.tags[f])
  BY DEF RelationOf
<1>4. \A p \in RelationOf(T) : /\ p[1] \in FileNames /\ p[2] \in TagNames
                               /\ p = <<p[1], p[2]>>
  BY DEF RelationOf
<1>5. ASSUME FilesOnly(RelationOf(T)), NEW f \in FileNames, T.tags[f] # <<>>
      PROVE  f \in Files
  <2>1. PICK t \in TagNames : t \in ToSet(T.tags[f])
    BY <1>2, <1>5
  <2>2. <<f, t>> \in RelationOf(T)
    BY <1>3, <2>1
  <2> QED BY <1>5, <2>2 DEF FilesOnly
<1>6. ASSUME \A f \in FileNames : T.tags[f] # <<>> => f \in Files, NEW p \in RelationOf(T)
      PROVE  p[1] \in Files
  <2>1. p[2] \in ToSet(T.tags[p[1]]) /\ p[1] \in FileNames
    BY <1>4 DEF RelationOf
  <2>2. T.tags[p[1]] # <<>>
    BY <1>2, <2>1
  <2> QED BY <1>6, <2>1, <2>2
<1> QED BY <1>5, <1>6 DEF FilesOnly

LEMMA TypeParts ==
    ASSUME TypeOK
    PROVE  /\ tables \in TablesSet /\ tables.files \in Seq(FileNames)
           /\ tables.tags \in [FileNames -> Seq(TagNames)]
           /\ reader \in [open : BOOLEAN, got : Seq(Lines), quiet : BOOLEAN, eof : BOOLEAN]
           /\ db \in Seq(Lines) /\ new \in Seq(Lines)
BY DEF TypeOK, TablesSet

LEMMA ChangesIInv ==
    ASSUME IInv, NEW T \in TablesSet, Changes(T), Listed(T), FilesOnly(RelationOf(T))
    PROVE  IInv'
<1>1. /\ tables' = T /\ up' = up /\ up /\ db' = db /\ new' = new /\ saved' = saved
      /\ changes' = changes + 1 /\ changes < MaxChanges
      /\ reader' = [reader EXCEPT !.quiet = @ /\ tag_db_dump(T) = tag_db_dump(tables)]
  BY DEF Changes
<1>2. reader \in [open : BOOLEAN, got : Seq(Lines), quiet : BOOLEAN, eof : BOOLEAN]
  BY TypeParts DEF IInv
<1>3. /\ reader'.got = reader.got /\ reader'.eof = reader.eof
      /\ reader'.quiet => reader.quiet /\ tag_db_dump(T) = tag_db_dump(tables)
      /\ reader' \in [open : BOOLEAN, got : Seq(Lines), quiet : BOOLEAN, eof : BOOLEAN]
  BY <1>1, <1>2
<1>4. TypeOK'
  <2>1. changes' \in 0..MaxChanges
    BY <1>1, BoundsAssumption DEF IInv, TypeOK
  <2>2. up' \in BOOLEAN /\ {db', new'} \subseteq Seq(Lines)
        /\ saved' \subseteq FileNames \X TagNames
    BY <1>1 DEF IInv, TypeOK
  <2> QED BY <1>1, <1>3, <2>1, <2>2 DEF TypeOK, TablesSet
<1>5. NamesSound'
  BY <1>1 DEF IInv, NamesSound
<1>6. ReaderSound'
  BY <1>1, <1>3 DEF IInv, ReaderSound
<1>7. TornSaveOnlyLoses'
  BY <1>1 DEF TornSaveOnlyLoses
<1> QED BY <1>4, <1>5, <1>6, <1>7 DEF IInv

LEMMA FileIInv ==
    ASSUME IInv, NEW f \in Files, file_get_or_create(f)
    PROVE  IInv'
<1>. DEFINE fs == ht_add_unique_entry(tables.files, f)
            T == [tables EXCEPT !.files = fs]
<1>1. /\ tables \in TablesSet /\ tables.files \in Seq(FileNames) /\ f \in FileNames
      /\ Listed(tables) /\ FilesOnly(RelationOf(tables))
  BY TypeParts DEF IInv, NamesSound, FileNames
<1>2. fs \in Seq(FileNames) /\ ToSet(fs) = ToSet(tables.files) \cup {f}
  BY <1>1, AddIs
<1>3. Changes(T)
  BY DEF file_get_or_create
<1>. HIDE DEF fs
<1>4. T \in TablesSet /\ T.tags = tables.tags /\ T.files = fs
  BY <1>1, <1>2 DEF TablesSet
<1>5. Listed(T)
  BY <1>1, <1>2, <1>4 DEF Listed
<1>6. FilesOnly(RelationOf(T))
  BY <1>1, <1>4 DEF RelationOf
<1>. HIDE DEF T
<1> QED BY <1>3, <1>4, <1>5, <1>6, ChangesIInv

LEMMA TagIInv ==
    ASSUME IInv, NEW f \in Files, NEW t \in Tags, tag_file(f, t)
    PROVE  IInv'
<1>. DEFINE fs == ht_add_unique_entry(tables.files, f)
            h == tables.tags[f]
            ts == ht_add_unique_entry(h, t)
            T == [files |-> fs, tags |-> [tables.tags EXCEPT ![f] = ts]]
<1>1. /\ tables \in TablesSet /\ tables.files \in Seq(FileNames)
      /\ tables.tags \in [FileNames -> Seq(TagNames)]
      /\ f \in FileNames /\ t \in TagNames
      /\ Listed(tables) /\ FilesOnly(RelationOf(tables))
  BY TypeParts DEF IInv, NamesSound, FileNames, TagNames
<1>2. fs \in Seq(FileNames) /\ ToSet(fs) = ToSet(tables.files) \cup {f}
  BY <1>1, AddIs
<1>3. ts \in Seq(TagNames)
  <2>1. h \in Seq(TagNames)
    BY <1>1
  <2>. HIDE DEF h
  <2> QED BY <1>1, <2>1, AddIs
<1>4. Changes(T)
  BY DEF tag_file
<1>. HIDE DEF fs, ts
<1>5. /\ T \in TablesSet /\ T.files = fs
      /\ \A e \in FileNames : T.tags[e] = IF e = f THEN ts ELSE tables.tags[e]
  BY <1>1, <1>2, <1>3 DEF TablesSet
<1>. HIDE DEF T
<1>6. Listed(T)
  BY <1>1, <1>2, <1>5 DEF Listed
<1>7. FilesOnly(RelationOf(T))
  <2>1. \A e \in FileNames : tables.tags[e] # <<>> => e \in Files
    BY <1>1, RelationFiles
  <2>2. \A e \in FileNames : T.tags[e] # <<>> => e \in Files
    BY <1>5, <2>1
  <2> QED BY <1>5, <2>2, RelationFiles
<1> QED BY <1>4, <1>5, <1>6, <1>7, ChangesIInv

LEMMA UntagIInv ==
    ASSUME IInv, NEW f \in Files, NEW t \in Tags, untag_file(f, t)
    PROVE  IInv'
<1>. DEFINE h == tables.tags[f]
            ts == ht_remove_entry(h, t)
            T == [tables EXCEPT !.tags[f] = ts]
<1>1. /\ tables \in TablesSet /\ tables.tags \in [FileNames -> Seq(TagNames)]
      /\ f \in FileNames
      /\ Listed(tables) /\ FilesOnly(RelationOf(tables))
  BY TypeParts DEF IInv, NamesSound, FileNames
<1>2. ts \in Seq(TagNames) /\ (h = <<>> => ts = <<>>)
  <2>1. h \in Seq(TagNames)
    BY <1>1
  <2>. HIDE DEF h
  <2> QED BY <2>1, RemoveIs
<1>3. Changes(T)
  BY DEF untag_file
<1>. HIDE DEF ts
<1>4. /\ T \in TablesSet /\ T.files = tables.files
      /\ \A e \in FileNames : T.tags[e] = IF e = f THEN ts ELSE tables.tags[e]
  BY <1>1, <1>2 DEF TablesSet
<1>. HIDE DEF T
<1>5. \A e \in FileNames : T.tags[e] # <<>> => tables.tags[e] # <<>>
  BY <1>2, <1>4
<1>6. Listed(T)
  BY <1>1, <1>4, <1>5 DEF Listed
<1>7. FilesOnly(RelationOf(T))
  <2>1. \A e \in FileNames : tables.tags[e] # <<>> => e \in Files
    BY <1>1, RelationFiles
  <2> QED BY <1>4, <1>5, <2>1, RelationFiles
<1> QED BY <1>3, <1>4, <1>6, <1>7, ChangesIInv

(* A read takes up the text where the last one has stopped.                *)
LEMMA ReadGoesOn ==
    ASSUME NEW d \in Seq(Lines), NEW got \in Seq(Lines)
    PROVE  LET r == read_tag_file(d, Len(got))
           IN  /\ r \in Seq(Lines)
               /\ Len(got) <= Len(d) /\ got = SubSeq(d, 1, Len(got)) =>
                      /\ Len(got \o r) <= Len(d)
                      /\ got \o r = SubSeq(d, 1, Len(got \o r))
                      /\ Len(r) < Chunk => Len(got \o r) = Len(d)
<1>. DEFINE g == Len(got)
            n == Len(d)
            u == Upto(g + Chunk, n)
            r == SubSeq(d, g + 1, u)
<1>1. g \in Nat /\ n \in Nat /\ Chunk \in Nat \ {0} /\ u \in Nat /\ u <= n
  BY BoundsAssumption DEF Upto
<1>2. r = read_tag_file(d, Len(got))
  BY DEF read_tag_file
<1>3. r \in Seq(Lines) /\ Len(r) = IF g + 1 <= u THEN u - (g + 1) + 1 ELSE 0
  <2>1. \A i \in g + 1 .. u : i \in 1..n
    BY <1>1
  <2>2. \A i \in g + 1 .. u : d[i] \in Lines
    BY <2>1
  <2>3. g + 1 \in Int /\ u \in Int
    BY <1>1
  <2>. HIDE DEF g, u, n
  <2> QED BY <2>2, <2>3, SubSeqProperties
<1>4. ASSUME g <= n, got = SubSeq(d, 1, g)
      PROVE  /\ Len(got \o r) <= n
             /\ got \o r = SubSeq(d, 1, Len(got \o r))
             /\ Len(r) < Chunk => Len(got \o r) = n
  <2>1. g <= u /\ (u # n => u = g + Chunk)
    BY <1>1, <1>4 DEF Upto
  <2>. HIDE DEF u, r
  <2>2. Len(r) = u - g
    BY <1>1, <1>3, <2>1
  <2>3. Len(got \o r) = u
    BY <1>1, <1>3, <2>1, <2>2
  <2>4. got \o r = SubSeq(d, 1, u)
    <3>1. 1 \in 1..Len(d)+1 /\ g \in 1-1 .. Len(d) /\ u \in g..Len(d)
      BY <1>1, <1>4, <2>1
    <3>. HIDE DEF g
    <3>2. SubSeq(d, 1, g) \o SubSeq(d, g + 1, u) = SubSeq(d, 1, u)
      BY <3>1, ConcatAdjacentSubSeq
    <3> QED BY <1>4, <3>2 DEF r
  <2>5. Len(r) < Chunk => u = n
    BY <1>1, <2>1, <2>2
  <2> QED BY <1>1, <2>3, <2>4, <2>5
<1> QED BY <1>2, <1>3, <1>4

LEMMA ReadsIInv ==
    ASSUME IInv, Reads
    PROVE  IInv'
<1>. DEFINE d == tag_db_dump(tables)
            r == read_tag_file(d, Len(reader.got))
<1>1. reader \in [open : BOOLEAN, got : Seq(Lines), quiet : BOOLEAN, eof : BOOLEAN]
      /\ d \in Seq(Lines)
  BY TypeParts, DumpType DEF IInv
<1>. HIDE DEF d
<1>2. /\ up /\ UNCHANGED <<up, tables, db, new, saved, changes>>
      /\ reader' = [reader EXCEPT !.got = @ \o r, !.eof = Len(r) < Chunk]
  BY DEF Reads, tag_read, d
<1>3. r \in Seq(Lines)
  BY <1>1, ReadGoesOn
<1>4. /\ reader'.got = reader.got \o r /\ reader'.eof = (Len(r) < Chunk)
      /\ reader'.quiet = reader.quiet
      /\ reader' \in [open : BOOLEAN, got : Seq(Lines), quiet : BOOLEAN, eof : BOOLEAN]
  <2>1. reader.got \o r \in Seq(Lines)
    BY <1>1, <1>3, ConcatProperties
  <2>. DEFINE short == Len(r) < Chunk
              got == reader.got \o r
  <2>2. short \in BOOLEAN
    OBVIOUS
  <2>3. reader' = [reader EXCEPT !.got = got, !.eof = short]
    BY <1>2
  <2>. HIDE DEF r, short, got
  <2>4. /\ reader'.got = got /\ reader'.eof = short /\ reader'.quiet = reader.quiet
        /\ reader' \in [open : BOOLEAN, got : Seq(Lines), quiet : BOOLEAN, eof : BOOLEAN]
    BY <1>1, <2>1, <2>2, <2>3 DEF got
  <2> QED BY <2>4 DEF short, got
<1>5. TypeOK'
  BY <1>2, <1>4 DEF IInv, TypeOK
<1>6. ReaderSound'
  <2>1. reader.quiet => Len(reader.got) <= Len(d) /\ reader.got = SubSeq(d, 1, Len(reader.got))
    BY DEF IInv, ReaderSound, d
  <2>2. reader.quiet => /\ Len(reader.got \o r) <= Len(d)
                        /\ reader.got \o r = SubSeq(d, 1, Len(reader.got \o r))
                        /\ Len(r) < Chunk => Len(reader.got \o r) = Len(d)
    BY <1>1, <2>1, ReadGoesOn
  <2>3. tag_db_dump(tables') = d
    BY <1>2 DEF d
  <2>. HIDE DEF r
  <2> QED BY <1>2, <1>4, <2>2, <2>3 DEF ReaderSound
<1>7. NamesSound' /\ TornSaveOnlyLoses'
  BY <1>2 DEF IInv, NamesSound, TornSaveOnlyLoses
<1> QED BY <1>5, <1>6, <1>7 DEF IInv

LEMMA OpenCloseIInv ==
    ASSUME IInv, Opens \/ Closes
    PROVE  IInv'
<1>1. /\ up /\ UNCHANGED <<up, tables, db, new, saved, changes>>
      /\ reader' = Closed \/ reader' = [Closed EXCEPT !.open = TRUE]
  BY DEF Opens, Closes
<1>2. /\ reader'.got = Closed.got /\ reader'.eof = Closed.eof
      /\ reader' \in [open : BOOLEAN, got : Seq(Lines), quiet : BOOLEAN, eof : BOOLEAN]
  BY <1>1, NoTablesSound DEF Closed
<1>3. TypeOK'
  BY <1>1, <1>2 DEF IInv, TypeOK
<1>4. ReaderSound'
  <2>1. tag_db_dump(tables) \in Seq(Lines)
    BY TypeParts, DumpType DEF IInv
  <2>2. Closed.eof = FALSE /\ Len(Closed.got) <= Len(tag_db_dump(tables))
        /\ Closed.got = SubSeq(tag_db_dump(tables), 1, Len(Closed.got))
    BY <2>1, ClosedSound DEF Closed
  <2> QED BY <1>1, <1>2, <2>2 DEF ReaderSound
<1>5. NamesSound' /\ TornSaveOnlyLoses'
  BY <1>1 DEF IInv, NamesSound, TornSaveOnlyLoses
<1> QED BY <1>3, <1>4, <1>5 DEF IInv

LEMMA StopsIInv ==
    ASSUME IInv, NEW text \in Seq(Lines), Stops(text), FilesOnly(Says(text)),
           OnlyCut(Says(text) \ Says(tag_db_dump(tables)))
    PROVE  IInv'
<1>0. tag_db_dump(tables) \in Seq(Lines)
      /\ RelationOf(parse_tags_db(tag_db_dump(tables))) = Says(tag_db_dump(tables))
  BY TypeParts, DumpType, ParseSays DEF IInv
<1>1. /\ up' = FALSE /\ new' = text /\ saved' = Says(tag_db_dump(tables))
      /\ tables' = NoTables /\ reader' = Closed /\ changes' = 0 /\ db' = db
  BY <1>0 DEF Stops, written
<1>2. TypeOK'
  <2>1. 0 \in 0..MaxChanges
    BY BoundsAssumption
  <2>2. Says(tag_db_dump(tables)) \subseteq FileNames \X TagNames
    BY DEF Says
  <2> QED BY <1>1, <2>1, <2>2, NoTablesSound, TypeParts DEF IInv, TypeOK, TablesSet
<1>3. NamesSound'
  BY <1>1, NoTablesSound DEF IInv, NamesSound, FilesOnly
<1>4. ReaderSound'
  <2>1. tag_db_dump(NoTables) \in Seq(Lines)
    BY NoTablesSound, DumpType
  <2> QED BY <1>1, <2>1, ClosedSound DEF ReaderSound
<1>5. TornSaveOnlyLoses'
  <2>1. RelationOf(parse_tags_db(text)) = Says(text)
    BY ParseSays
  <2> QED BY <1>1, <2>1 DEF TornSaveOnlyLoses, OnlyCut
<1> QED BY <1>2, <1>3, <1>4, <1>5 DEF IInv

LEMMA StartsIInv ==
    ASSUME IInv, NEW text \in Seq(Lines), Starts(text), FilesOnly(Says(text))
    PROVE  IInv'
<1>1. /\ ~up /\ up' = TRUE /\ db' = text /\ tables' = parse_tags_db(text)
      /\ new' = <<>> /\ saved' = {} /\ reader' = reader /\ changes' = changes
  BY DEF Starts
<1>2. /\ parse_tags_db(text) \in TablesSet /\ Listed(parse_tags_db(text))
      /\ RelationOf(parse_tags_db(text)) = Says(text)
  BY ParseSays
<1>3. TypeOK'
  BY <1>1, <1>2, NoTablesSound DEF IInv, TypeOK, TablesSet
<1>4. NamesSound'
  BY <1>1, <1>2, NoTablesSound DEF NamesSound, FilesOnly
<1>5. ReaderSound'
  <2>1. reader = Closed
    BY <1>1 DEF IInv, ReaderSound
  <2>2. tag_db_dump(parse_tags_db(text)) \in Seq(Lines)
    BY <1>2, DumpType
  <2> QED BY <1>1, <2>1, <2>2, ClosedSound DEF ReaderSound
<1>6. TornSaveOnlyLoses'
  BY <1>1 DEF TornSaveOnlyLoses
<1> QED BY <1>3, <1>4, <1>5, <1>6 DEF IInv

LEMMA InitIInv == Init => IInv
<1>. SUFFICES ASSUME Init
              PROVE  IInv
  OBVIOUS
<1>1. /\ up = FALSE /\ tables = NoTables /\ reader = Closed
      /\ db = Text /\ new = <<>> /\ saved = {} /\ changes = 0
  BY DEF Init
<1>2. TypeOK
  <2>1. 0 \in 0..MaxChanges
    BY BoundsAssumption
  <2> QED BY <1>1, <2>1, NoTablesSound, TextAssumption DEF TypeOK, TablesSet
<1>3. FilesOnly(Says(Text))
  <2>1. \A i \in DOMAIN Text : Text[i].name # Cut
    BY TextAssumption
  <2>2. ASSUME NEW p \in Says(Text)
        PROVE  p[1] \in Files
    <3>1. PICK j \in DOMAIN Text : Under(Text, j, p[1])
      BY DEF Says, TagLine
    <3>2. PICK i \in 1..j : reads(Text[i]).kind = "file" /\ reads(Text[i]).name = p[1]
      BY <3>1 DEF Under
    <3>3. DOMAIN Text = 1..Len(Text)
      BY TextAssumption
    <3>4. i \in DOMAIN Text /\ Text[i] \in Lines
      BY <3>1, <3>2, <3>3, TextAssumption
    <3>5. p[1] \in FileNames
      BY DEF Says
    <3>6. reads(Text[i]) # Empty
      BY <3>2 DEF Empty, Line
    <3>7. p[1] # Cut
      BY <2>1, <3>2, <3>4, <3>6, LineIs
    <3> QED BY <3>5, <3>7 DEF FileNames
  <2> QED BY <2>2 DEF FilesOnly
<1>4. NamesSound
  BY <1>1, <1>3, NoTablesSound DEF NamesSound, FilesOnly
<1>5. ReaderSound
  <2>1. tag_db_dump(NoTables) \in Seq(Lines)
    BY NoTablesSound, DumpType
  <2> QED BY <1>1, <2>1, ClosedSound DEF ReaderSound
<1>6. TornSaveOnlyLoses
  <2>1. RelationOf(parse_tags_db(<<>>)) = {}
    BY ParseSays, NoTablesSound
  <2> QED BY <1>1, <2>1 DEF TornSaveOnlyLoses
<1> QED BY <1>2, <1>4, <1>5, <1>6 DEF IInv

LEMMA NextIInv == IInv /\ [Next]_vars => IInv'
<1>. SUFFICES ASSUME IInv, [Next]_vars
              PROVE  IInv'
  OBVIOUS
<1>0. /\ tables \in TablesSet /\ Listed(tables) /\ FilesOnly(RelationOf(tables))
      /\ db \in Seq(Lines) /\ new \in Seq(Lines)
      /\ FilesOnly(Says(db)) /\ FilesOnly(Says(new))
  BY TypeParts DEF IInv, NamesSound
<1>1. ASSUME NEW f \in Files, file_get_or_create(f)
      PROVE  IInv'
  BY <1>1, FileIInv
<1>2. ASSUME NEW f \in Files, NEW t \in Tags, tag_file(f, t) \/ untag_file(f, t)
      PROVE  IInv'
  BY <1>2, TagIInv, UntagIInv
<1>3. CASE Opens \/ Closes
  BY <1>3, OpenCloseIInv
<1>4. CASE Reads
  BY <1>4, ReadsIInv
<1>5. CASE save_tag_db
  <2>1. Stops(tag_db_dump(tables))
    BY <1>5 DEF save_tag_db
  <2> QED BY <1>0, <2>1, WholeSays, StopsIInv
<1>6. CASE Interrupted
  <2>1. PICK text \in Torn(tag_db_dump(tables)) : Stops(text)
    BY <1>6 DEF Interrupted
  <2>2. text \in Seq(Lines) /\ FilesOnly(Says(text))
        /\ OnlyCut(Says(text) \ Says(tag_db_dump(tables)))
    BY <1>0, TornSays
  <2> QED BY <2>1, <2>2, StopsIInv
<1>7. CASE Starts(db) \/ Starts(new)
  BY <1>0, <1>7, StartsIInv
<1>8. CASE UNCHANGED vars
  BY <1>8 DEF vars, IInv, TypeOK, NamesSound, ReaderSound, TornSaveOnlyLoses
<1> QED BY <1>1, <1>2, <1>3, <1>4, <1>5, <1>6, <1>7, <1>8 DEF Next

------------------------------------------------------------------------------

LEMMA SpecIInv == Spec => []IInv
BY InitIInv, NextIInv, PTL DEF Spec

(* Whatever is linked, dumped, torn and read again: the tables hold files  *)
(* and tags, the texts lines.                                              *)
THEOREM DatabaseTypes == Spec => []TypeOK
<1>1. IInv => TypeOK
  BY DEF IInv
<1> QED BY <1>1, SpecIInv, PTL

(* What parse_tags_db makes of what tag_db_dump writes, for any files, any *)
(* tags of each, any order of them and whatever names are read as          *)
(* (tag.c:165-186, 188-238).                                               *)
THEOREM DumpsAreReadBack == Spec => []DumpReadsBack
<1>1. IInv => DumpReadsBack
  <2>. SUFFICES ASSUME IInv
                PROVE  DumpReadsBack
    OBVIOUS
  <2>1. tables \in TablesSet /\ Listed(tables)
    BY TypeParts DEF IInv, NamesSound
  <2>2. SaysOf(RelationOf(tables), Says(tag_db_dump(tables)))
    BY <2>1, DumpSays
  <2>3. RelationOf(parse_tags_db(tag_db_dump(tables))) = Says(tag_db_dump(tables))
    BY <2>1, DumpType, ParseSays
  <2> QED BY <2>2, <2>3 DEF DumpReadsBack, SaysOf
<1> QED BY <1>1, SpecIInv, PTL

(* A dump that stops in any line, of any tables (tagfs.c:738-748).         *)
THEOREM TornDumpsOnlyLose == Spec => []TornSaveOnlyLoses
<1>1. IInv => TornSaveOnlyLoses
  BY DEF IInv
<1> QED BY <1>1, SpecIInv, PTL

(* Reads of any number of lines each, of a text of any length, end with    *)
(* all of it (tagfs.c:414-441).                                            *)
THEOREM ReadersGetAll == Spec => []ReadsWholeText
<1>1. IInv => ReadsWholeText
  <2>. SUFFICES ASSUME IInv, reader.eof, reader.quiet
                PROVE  reader.got = tag_db_dump(tables)
    BY DEF ReadsWholeText
  <2>1. tag_db_dump(tables) \in Seq(Lines)
    BY TypeParts, DumpType DEF IInv
  <2>2. reader.got = SubSeq(tag_db_dump(tables), 1, Len(tag_db_dump(tables)))
    BY DEF IInv, ReaderSound
  <2> QED BY <2>1, <2>2, SubSeqFull
<1> QED BY <1>1, SpecIInv, PTL
==============================================================================
