----------------------------- MODULE ThreadsProofs -----------------------------
(***************************************************************************)
(* Theorems about Threads, for any threads, any files and any number of    *)
(* structs: what each thread may be doing, and with which struct; how far  *)
(* a ref_count can go; and, by counting who still owes a count back, which *)
(* structs cannot have been freed.                                         *)
(***************************************************************************)
EXTENDS Threads, FiniteSetTheorems, TLAPS

------------------------------------------------------------------------------
(* The places of a request: before it has a struct, counting, at the struct*)
(* of the file, in a link, in an unlink, in tag_remove before and after the*)
(* table loses the name, in tag_dec_ref once it has stored, in a listing.  *)
Looking == {"get", "get2", "add"}
Counting == {"inc", "inc2"}
Filing == {"fget", "fadd"}
Linking == {"mkdir", "mkget", "mkadd", "tag_f", "tag_t"}
Unlinking == {"untag_f", "untag_t", "empty"}
Removing == {"collect", "unlock", "strip"}
Giving == {"pop", "dec", "dec2"}
Given == {"test", "zero", "free"}
Listing == {"list", "see", "next"}
Pcs == {"idle", "del"} \cup Looking \cup Counting \cup Filing \cup Linking \cup Unlinking
         \cup Removing \cup Giving \cup Given \cup Listing
Reqs == {"lookup", "link", "unlink", "list"}

Record == [pc : Pcs, req : Reqs \cup {"none"}, f : Files \cup {"none"},
           g : FileStructs \cup {NoFile}, t : Structs \cup {NoTag}, u : Structs \cup {NoTag},
           n : Int, todo : SUBSET FileStructs, rest : SUBSET (Structs \cup Files), then : Pcs]

(* What a thread's record looks like, whatever the others do.              *)
Shape(r) ==
    /\ r.pc = "idle" => r = Idle
    /\ r.pc # "idle" => r.req \in Reqs /\ (r.req # "list" => r.f \in Files)
    /\ r.pc \in Filing => r.f \in Files
    /\ r.pc \in Listing => r.req = "list"
    /\ r.req = "list" => r.pc \in Listing \cup Filing /\ r.t = NoTag /\ r.u = NoTag
    /\ r.pc \in Looking => r.t = NoTag /\ r.u = NoTag
    /\ r.pc \notin Looking \cup {"idle"} => r.req = "list" \/ r.t \in Structs
    /\ r.pc \in Counting => /\ r.u \in Structs
                            /\ \/ r.then = Body(r.req) /\ r.u = r.t
                               \/ r.then = "fget" /\ r.req = "link"
    /\ r.pc \in Linking => r.req = "link"
    /\ r.pc \in Unlinking => r.req = "unlink"
    /\ r.pc \in {"tag_f", "tag_t", "untag_f", "untag_t"} => r.g \in FileStructs /\ r.g \in Named(r.f)
    /\ r.pc = "fadd" => r.req # "unlink"
    /\ r.pc \in Removing \cup Giving \cup Given =>
          \/ r.then = "idle"
          \/ r.then = "del" /\ r.req = "unlink"
    /\ r.pc \in Giving \cup Given => r.u = r.t
    /\ r.pc = "see" => r.rest \subseteq Structs
    /\ r.req = "list" /\ r.pc \in {"next"} \cup Filing => r.rest \subseteq Files

(* A request that has a count to give back.  A link's goes to the tag that *)
(* it puts in use; an unlink's too, when the tag keeps files.              *)
Owes(r) == \/ r.req = "lookup" /\ r.pc \in {"del"} \cup Filing \cup Removing \cup Giving
           \/ r.req = "unlink" /\ r.pc \in Filing \cup Unlinking
           \/ r.req = "unlink" /\ r.pc \in Removing \cup Giving /\ r.then = "del"
Owers(s) == {i \in Threads : Owes(thread[i]) /\ thread[i].t = s}

(* A link that has counted the struct of its path.                         *)
LinkCounted(r) == /\ r.req = "link" /\ r.pc \notin Looking \cup {"idle"}
                  /\ r.pc \in Counting => r.then = "fget"

Object == [alloc : BOOLEAN, in_use : BOOLEAN, ref : Int, files : SUBSET FileStructs]

TypesInv == /\ table \in Seq(Structs) /\ obj \in [Structs -> Object]
            /\ files \in [Files -> 0..MaxCopies]
            /\ at \in [FileStructs -> Structs \cup {NoTag}]
            /\ readers \in [Structs -> SUBSET Threads]
            /\ thread \in [Threads -> Record]
            /\ bad \in BOOLEAN /\ started \in 0..MaxRequests
            /\ \A i \in Threads : Shape(thread[i])

(* What the requests have yet to count: the struct of their path, and, a   *)
(* link, the struct of tag_mkdir; and what they may yet give back: the     *)
(* count of their path, and an unlink, before it, that of the empty tag.   *)
FirstCount(r) == r.pc \in Looking \/ (r.pc \in Counting /\ r.then = Body(r.req))
SecondCount(r) == r.pc \in Looking \cup Counting \cup {"mkdir", "mkget", "mkadd"}
GivesFirst(r) == /\ r.req = "unlink"
                 /\ \/ r.pc \in Looking \cup Counting \cup Filing \cup Unlinking
                    \/ r.pc \in Removing \cup Giving /\ r.then = "del"
GivesLast(r) == r.pc # "idle" /\ (r.pc \in Given => r.then # "idle")
ToInc == {p \in Threads \X {1, 2} : IF p[2] = 1 THEN FirstCount(thread[p[1]])
                                                ELSE SecondCount(thread[p[1]])}
ToDec == {p \in Threads \X {1, 2} : IF p[2] = 1 THEN GivesFirst(thread[p[1]])
                                                ELSE GivesLast(thread[p[1]])}

(* A count, with those yet to come, is no more than .tags and the requests *)
(* make; with those yet to go, no less than the requests take away.        *)
Within(x) == /\ x + Cardinality(ToInc) <= Cardinality(DbFiles) + 2 * started
             /\ Cardinality(ToDec) - 2 * started <= x
CountsBounded == /\ IsFiniteSet(ToInc) /\ IsFiniteSet(ToDec)
                 /\ Within(0)
                 /\ \A s \in Structs : Within(obj[s].ref)
                 /\ \A i \in Threads : Within(thread[i].n)

AInv == TypesInv /\ CountsBounded

------------------------------------------------------------------------------
(* What a step of a thread does to its record q, of r.                     *)
Follows(r, q) ==
    /\ q \in Record /\ Shape(q)
    /\ FirstCount(q) => FirstCount(r)
    /\ SecondCount(q) => SecondCount(r)
    /\ GivesFirst(q) => GivesFirst(r)
    /\ GivesLast(q) => GivesLast(r)
    /\ r.pc = "inc2" => IF FirstCount(r) THEN ~FirstCount(q) ELSE ~SecondCount(q)
    /\ r.pc = "dec2" => IF GivesFirst(r) THEN ~GivesFirst(q) ELSE ~GivesLast(q)
    /\ \/ q.n \in {r.n, 0}
       \/ r.u \in Structs /\ q.n = obj[r.u].ref
       \/ r.pc = "dec2" /\ q.n = r.n - 1
    /\ \/ q = Idle
       \/ q.req = r.req /\ (r.req # "list" => q.f = r.f) /\ (q.t = r.t \/ r.pc \in Looking)
    /\ Owes(q) => r.pc = "inc2" \/ (Owes(r) /\ q.t = r.t)
    /\ r.pc = "dec2" => ~Owes(q)
    /\ r.pc = "inc2" => q.t = r.t
    /\ LinkCounted(q) => (LinkCounted(r) \/ r.pc = "inc2") /\ q.t = r.t

LEMMA FreshIsFresh ==
  ASSUME HasFresh
  PROVE  /\ Fresh \in Structs
         /\ \A i \in Threads : thread[i].t # Fresh /\ thread[i].u # Fresh
         /\ \A i \in Threads : thread[i].pc = "see" => Fresh \notin thread[i].rest
         /\ \A k \in DOMAIN table : table[k] # Fresh
         /\ \A g \in FileStructs : at[g] # Fresh
<1>1. \E s : s \in Structs \ Held
  BY DEF HasFresh
<1>2. Fresh \in Structs \ Held
  BY <1>1 DEF Fresh
<1> QED BY <1>2 DEF Held

LEMMA StructsType == /\ NoTag \notin Structs /\ Structs \subseteq Nat /\ 1 \in Structs
                     /\ \A f \in Files : <<f, 1>> \in FileStructs
BY BoundsAssumption DEF NoTag, Structs, FileStructs

LEMMA FoundType ==
  ASSUME table \in Seq(Structs)
  PROVE  /\ Found \in Structs \cup {NoTag}
         /\ Found # NoTag => Found = table[1] /\ 1 \in DOMAIN table
         /\ Found = NoTag <=> table = <<>>
         /\ Without(table) \in Seq(Structs)
BY StructsType DEF Found, Without

LEMMA BodyType == Body("lookup") = "fget" /\ Body("unlink") = "fget" /\ Body("link") = "mkdir"
BY DEF Body

LEMMA WithType == /\ With("lookup") = "del" /\ With("link") = "tag_f" /\ With("unlink") = "untag_f"
                  /\ With("list") = "next"
BY DEF With

LEMMA IdleType == /\ Idle \in Record /\ Shape(Idle) /\ ~SecondCount(Idle) /\ ~FirstCount(Idle)
                  /\ ~GivesFirst(Idle) /\ ~GivesLast(Idle) /\ ~Owes(Idle) /\ ~LinkCounted(Idle)
                  /\ Idle.n = 0 /\ Idle.pc = "idle" /\ Idle.req = "none"
                  /\ Idle.t = NoTag /\ Idle.u = NoTag
<1>1. /\ Idle.pc = "idle" /\ Idle.n = 0 /\ Idle.req = "none" /\ Idle \in Record
      /\ Idle.t = NoTag /\ Idle.u = NoTag
  BY DEF Idle, Record, Pcs, Reqs
<1> QED BY <1>1 DEF Owes, Shape, SecondCount, FirstCount, GivesFirst, GivesLast, LinkCounted,
           Looking, Counting, Filing, Linking, Unlinking, Removing, Giving, Given, Listing

(* A step of a thread changes no record but its own.                       *)
Only(i) == /\ thread' \in [Threads -> Record]
           /\ \A j \in Threads : j # i => thread'[j] = thread[j]
           /\ Follows(thread[i], thread'[i])

LEMMA OnlyOf ==
  ASSUME TypesInv, NEW i \in Threads, NEW q, thread' = [thread EXCEPT ![i] = q],
         Follows(thread[i], q)
  PROVE  Only(i)
BY DEF Only, TypesInv, Follows

LEMMA RecordType ==
  ASSUME TypesInv, NEW i \in Threads
  PROVE  /\ thread[i] \in Record /\ Shape(thread[i])
         /\ thread[i].u \in Structs => obj[thread[i].u] \in Object
         /\ thread[i].t \in Structs => obj[thread[i].t] \in Object
BY DEF TypesInv

(* The records of a step, one kind of step at a time.                      *)
Onward == {<<"get", "get2">>, <<"get2", "add">>, <<"mkdir", "mkget">>, <<"mkdir", "fget">>,
           <<"mkget", "mkadd">>, <<"tag_f", "tag_t">>, <<"tag_t", "del">>,
           <<"untag_f", "untag_t">>, <<"untag_t", "empty">>, <<"unlock", "strip">>,
           <<"pop", "dec">>, <<"test", "zero">>, <<"zero", "free">>}

LEMMA GoesFollows ==
  ASSUME NEW r \in Record, Shape(r), NEW pc, <<r.pc, pc>> \in Onward
  PROVE  Follows(r, [r EXCEPT !.pc = pc])
<1> DEFINE q == [r EXCEPT !.pc = pc]
<1>1. pc \in Pcs
  BY BodyType, WithType, StructsType DEF Record, Shape, Reqs, Object, Pcs, Onward,
     Looking, Counting, Filing, Linking, Unlinking, Removing, Giving, Given, Listing
<1>2. q \in Record
  BY <1>1 DEF Record
<1>3. /\ q.pc = pc /\ q.req = r.req /\ q.f = r.f /\ q.g = r.g /\ q.t = r.t
      /\ q.u = r.u /\ q.n = r.n /\ q.todo = r.todo /\ q.rest = r.rest /\ q.then = r.then
  BY DEF Record
<1> HIDE DEF q
<1>4. Shape(q)
  BY <1>1, <1>2, <1>3, BodyType, WithType DEF Shape, Reqs, Onward, Looking, Counting,
     Filing, Linking, Unlinking, Removing, Giving, Given, Listing
<1>5. Follows(r, q)
  BY <1>2, <1>3, <1>4, BodyType, WithType DEF Follows, Owes, Shape, Reqs, FirstCount,
     SecondCount, GivesFirst, GivesLast, LinkCounted, Onward, Looking, Counting, Filing,
     Linking, Unlinking, Removing, Giving, Given, Listing
<1> QED BY <1>5 DEF q

LEMMA FindsFollows ==
  ASSUME NEW r \in Record, Shape(r), r.pc \in Looking, NEW s \in Structs
  PROVE  Follows(r, [r EXCEPT !.pc = "inc", !.t = s, !.u = s, !.then = Body(r.req)])
<1> DEFINE q == [r EXCEPT !.pc = "inc", !.t = s, !.u = s, !.then = Body(r.req)]
<1>1. "inc" \in Pcs /\ s \in Structs \cup {NoTag} /\ s \in Structs \cup {NoTag} /\ Body(r.req) \in Pcs
  BY BodyType, WithType, StructsType DEF Record, Shape, Reqs, Object, Pcs, Looking,
     Counting, Filing, Linking, Unlinking, Removing, Giving, Given, Listing
<1>2. q \in Record
  BY <1>1 DEF Record
<1>3. /\ q.pc = "inc" /\ q.req = r.req /\ q.f = r.f /\ q.g = r.g /\ q.t = s
      /\ q.u = s /\ q.n = r.n /\ q.todo = r.todo /\ q.rest = r.rest /\ q.then = Body(r.req)
  BY DEF Record
<1> HIDE DEF q
<1>4. Shape(q)
  BY <1>1, <1>2, <1>3, BodyType, WithType DEF Shape, Reqs, Looking, Counting, Filing,
     Linking, Unlinking, Removing, Giving, Given, Listing
<1>5. Follows(r, q)
  BY <1>2, <1>3, <1>4, BodyType, WithType DEF Follows, Owes, Shape, Reqs, FirstCount,
     SecondCount, GivesFirst, GivesLast, LinkCounted, Looking, Counting, Filing,
     Linking, Unlinking, Removing, Giving, Given, Listing
<1> QED BY <1>5 DEF q

LEMMA MkdirCountsFollows ==
  ASSUME NEW r \in Record, Shape(r), r.pc \in {"mkget", "mkadd"}, NEW s \in Structs
  PROVE  Follows(r, [r EXCEPT !.pc = "inc", !.u = s, !.then = "fget"])
<1> DEFINE q == [r EXCEPT !.pc = "inc", !.u = s, !.then = "fget"]
<1>1. "inc" \in Pcs /\ s \in Structs \cup {NoTag} /\ "fget" \in Pcs
  BY BodyType, WithType, StructsType DEF Record, Shape, Reqs, Object, Pcs, Looking,
     Counting, Filing, Linking, Unlinking, Removing, Giving, Given, Listing
<1>2. q \in Record
  BY <1>1 DEF Record
<1>3. /\ q.pc = "inc" /\ q.req = r.req /\ q.f = r.f /\ q.g = r.g /\ q.t = r.t
      /\ q.u = s /\ q.n = r.n /\ q.todo = r.todo /\ q.rest = r.rest /\ q.then = "fget"
  BY DEF Record
<1> HIDE DEF q
<1>4. Shape(q)
  BY <1>1, <1>2, <1>3, BodyType, WithType DEF Shape, Reqs, Looking, Counting, Filing,
     Linking, Unlinking, Removing, Giving, Given, Listing
<1>5. Follows(r, q)
  BY <1>2, <1>3, <1>4, BodyType, WithType DEF Follows, Owes, Shape, Reqs, FirstCount,
     SecondCount, GivesFirst, GivesLast, LinkCounted, Looking, Counting, Filing,
     Linking, Unlinking, Removing, Giving, Given, Listing
<1> QED BY <1>5 DEF q

LEMMA LoadsFollows ==
  ASSUME NEW r \in Record, Shape(r), NEW pc, (r.pc = "inc" /\ pc = "inc2") \/ (r.pc = "dec" /\ pc = "dec2"),
         obj[r.u] \in Object, r.u \in Structs
  PROVE  Follows(r, [r EXCEPT !.pc = pc, !.n = obj[r.u].ref])
<1> DEFINE q == [r EXCEPT !.pc = pc, !.n = obj[r.u].ref]
<1>1. pc \in Pcs /\ obj[r.u].ref \in Int
  BY BodyType, WithType, StructsType DEF Record, Shape, Reqs, Object, Pcs, Looking,
     Counting, Filing, Linking, Unlinking, Removing, Giving, Given, Listing
<1>2. q \in Record
  BY <1>1 DEF Record
<1>3. /\ q.pc = pc /\ q.req = r.req /\ q.f = r.f /\ q.g = r.g /\ q.t = r.t
      /\ q.u = r.u /\ q.n = obj[r.u].ref /\ q.todo = r.todo /\ q.rest = r.rest /\ q.then = r.then
  BY DEF Record
<1> HIDE DEF q
<1>4. Shape(q)
  BY <1>1, <1>2, <1>3, BodyType, WithType DEF Shape, Reqs, Looking, Counting, Filing,
     Linking, Unlinking, Removing, Giving, Given, Listing
<1>5. Follows(r, q)
  BY <1>2, <1>3, <1>4, BodyType, WithType DEF Follows, Owes, Shape, Reqs, FirstCount,
     SecondCount, GivesFirst, GivesLast, LinkCounted, Looking, Counting, Filing,
     Linking, Unlinking, Removing, Giving, Given, Listing
<1> QED BY <1>5 DEF q

LEMMA StoresFollows ==
  ASSUME NEW r \in Record, Shape(r), r.pc = "dec2"
  PROVE  Follows(r, [r EXCEPT !.pc = "test", !.n = r.n - 1])
<1> DEFINE q == [r EXCEPT !.pc = "test", !.n = r.n - 1]
<1>1. "test" \in Pcs /\ r.n - 1 \in Int
  BY BodyType, WithType, StructsType DEF Record, Shape, Reqs, Object, Pcs, Looking,
     Counting, Filing, Linking, Unlinking, Removing, Giving, Given, Listing
<1>2. q \in Record
  BY <1>1 DEF Record
<1>3. /\ q.pc = "test" /\ q.req = r.req /\ q.f = r.f /\ q.g = r.g /\ q.t = r.t
      /\ q.u = r.u /\ q.n = r.n - 1 /\ q.todo = r.todo /\ q.rest = r.rest /\ q.then = r.then
  BY DEF Record
<1> HIDE DEF q
<1>4. Shape(q)
  BY <1>1, <1>2, <1>3, BodyType, WithType DEF Shape, Reqs, Looking, Counting, Filing,
     Linking, Unlinking, Removing, Giving, Given, Listing
<1>5. Follows(r, q)
  BY <1>2, <1>3, <1>4, BodyType, WithType DEF Follows, Owes, Shape, Reqs, FirstCount,
     SecondCount, GivesFirst, GivesLast, LinkCounted, Looking, Counting, Filing,
     Linking, Unlinking, Removing, Giving, Given, Listing
<1> QED BY <1>5 DEF q

LEMMA CountedFollows ==
  ASSUME NEW r \in Record, Shape(r), r.pc \in {"inc2", "test", "free"}, r.then # "idle"
  PROVE  Follows(r, [r EXCEPT !.pc = r.then, !.u = NoTag, !.n = 0, !.then = "idle"])
<1> DEFINE q == [r EXCEPT !.pc = r.then, !.u = NoTag, !.n = 0, !.then = "idle"]
<1>1. r.then \in Pcs /\ NoTag \in Structs \cup {NoTag} /\ 0 \in Int /\ "idle" \in Pcs
  BY BodyType, WithType, StructsType DEF Record, Shape, Reqs, Object, Pcs, Looking,
     Counting, Filing, Linking, Unlinking, Removing, Giving, Given, Listing
<1>2. q \in Record
  BY <1>1 DEF Record
<1>3. /\ q.pc = r.then /\ q.req = r.req /\ q.f = r.f /\ q.g = r.g /\ q.t = r.t
      /\ q.u = NoTag /\ q.n = 0 /\ q.todo = r.todo /\ q.rest = r.rest /\ q.then = "idle"
  BY DEF Record
<1> HIDE DEF q
<1>4. Shape(q)
  BY <1>1, <1>2, <1>3, BodyType, WithType DEF Shape, Reqs, Looking, Counting, Filing,
     Linking, Unlinking, Removing, Giving, Given, Listing
<1>5. Follows(r, q)
  BY <1>2, <1>3, <1>4, BodyType, WithType DEF Follows, Owes, Shape, Reqs, FirstCount,
     SecondCount, GivesFirst, GivesLast, LinkCounted, Looking, Counting, Filing,
     Linking, Unlinking, Removing, Giving, Given, Listing
<1> QED BY <1>5 DEF q

LEMMA FilesFollows ==
  ASSUME NEW r \in Record, Shape(r), NEW pc,
         \/ r.pc = "fget" /\ pc = IF r.req = "unlink" THEN "del" ELSE "fadd"
         \/ r.pc = "fadd" /\ pc = IF r.req = "link" THEN "fget" ELSE With(r.req)
  PROVE  Follows(r, [r EXCEPT !.pc = pc])
<1> DEFINE q == [r EXCEPT !.pc = pc]
<1>1. pc \in Pcs
  BY BodyType, WithType, StructsType DEF Record, Shape, Reqs, Object, Pcs, Looking,
     Counting, Filing, Linking, Unlinking, Removing, Giving, Given, Listing
<1>2. q \in Record
  BY <1>1 DEF Record
<1>3. /\ q.pc = pc /\ q.req = r.req /\ q.f = r.f /\ q.g = r.g /\ q.t = r.t
      /\ q.u = r.u /\ q.n = r.n /\ q.todo = r.todo /\ q.rest = r.rest /\ q.then = r.then
  BY DEF Record
<1> HIDE DEF q
<1>4. Shape(q)
  BY <1>1, <1>2, <1>3, BodyType, WithType DEF Shape, Reqs, Looking, Counting, Filing,
     Linking, Unlinking, Removing, Giving, Given, Listing
<1>5. Follows(r, q)
  BY <1>2, <1>3, <1>4, BodyType, WithType DEF Follows, Owes, Shape, Reqs, FirstCount,
     SecondCount, GivesFirst, GivesLast, LinkCounted, Looking, Counting, Filing,
     Linking, Unlinking, Removing, Giving, Given, Listing
<1> QED BY <1>5 DEF q

LEMMA GetsFileFollows ==
  ASSUME NEW r \in Record, Shape(r), r.pc = "fget", NEW g \in FileStructs \cup {NoFile},
         r.req \in {"link", "unlink"} => g \in FileStructs /\ g \in Named(r.f)
  PROVE  Follows(r, [r EXCEPT !.pc = With(r.req), !.g = g])
<1> DEFINE q == [r EXCEPT !.pc = With(r.req), !.g = g]
<1>1. With(r.req) \in Pcs /\ g \in FileStructs \cup {NoFile}
  BY BodyType, WithType, StructsType DEF Record, Shape, Reqs, Object, Pcs, Looking,
     Counting, Filing, Linking, Unlinking, Removing, Giving, Given, Listing
<1>2. q \in Record
  BY <1>1 DEF Record
<1>3. /\ q.pc = With(r.req) /\ q.req = r.req /\ q.f = r.f /\ q.g = g /\ q.t = r.t
      /\ q.u = r.u /\ q.n = r.n /\ q.todo = r.todo /\ q.rest = r.rest /\ q.then = r.then
  BY DEF Record
<1> HIDE DEF q
<1>4. Shape(q)
  BY <1>1, <1>2, <1>3, BodyType, WithType DEF Shape, Reqs, Looking, Counting, Filing,
     Linking, Unlinking, Removing, Giving, Given, Listing
<1>5. Follows(r, q)
  BY <1>2, <1>3, <1>4, BodyType, WithType DEF Follows, Owes, Shape, Reqs, FirstCount,
     SecondCount, GivesFirst, GivesLast, LinkCounted, Looking, Counting, Filing,
     Linking, Unlinking, Removing, Giving, Given, Listing
<1> QED BY <1>5 DEF q

LEMMA PopsFollows ==
  ASSUME NEW r \in Record, Shape(r), r.pc = "strip"
  PROVE  Follows(r, [r EXCEPT !.pc = "pop", !.u = r.t, !.then = r.then])
<1> DEFINE q == [r EXCEPT !.pc = "pop", !.u = r.t, !.then = r.then]
<1>1. "pop" \in Pcs /\ r.t \in Structs \cup {NoTag} /\ r.then \in Pcs
  BY BodyType, WithType, StructsType DEF Record, Shape, Reqs, Object, Pcs, Looking,
     Counting, Filing, Linking, Unlinking, Removing, Giving, Given, Listing
<1>2. q \in Record
  BY <1>1 DEF Record
<1>3. /\ q.pc = "pop" /\ q.req = r.req /\ q.f = r.f /\ q.g = r.g /\ q.t = r.t
      /\ q.u = r.t /\ q.n = r.n /\ q.todo = r.todo /\ q.rest = r.rest /\ q.then = r.then
  BY DEF Record
<1> HIDE DEF q
<1>4. Shape(q)
  BY <1>1, <1>2, <1>3, BodyType, WithType DEF Shape, Reqs, Looking, Counting, Filing,
     Linking, Unlinking, Removing, Giving, Given, Listing
<1>5. Follows(r, q)
  BY <1>2, <1>3, <1>4, BodyType, WithType DEF Follows, Owes, Shape, Reqs, FirstCount,
     SecondCount, GivesFirst, GivesLast, LinkCounted, Looking, Counting, Filing,
     Linking, Unlinking, Removing, Giving, Given, Listing
<1> QED BY <1>5 DEF q

LEMMA EmptiesFollows ==
  ASSUME NEW r \in Record, Shape(r), r.pc = "empty", NEW pc \in {"collect", "del"}
  PROVE  Follows(r, [r EXCEPT !.pc = pc, !.then = "del"])
<1> DEFINE q == [r EXCEPT !.pc = pc, !.then = "del"]
<1>1. pc \in Pcs /\ "del" \in Pcs
  BY BodyType, WithType, StructsType DEF Record, Shape, Reqs, Object, Pcs, Looking,
     Counting, Filing, Linking, Unlinking, Removing, Giving, Given, Listing
<1>2. q \in Record
  BY <1>1 DEF Record
<1>3. /\ q.pc = pc /\ q.req = r.req /\ q.f = r.f /\ q.g = r.g /\ q.t = r.t
      /\ q.u = r.u /\ q.n = r.n /\ q.todo = r.todo /\ q.rest = r.rest /\ q.then = "del"
  BY DEF Record
<1> HIDE DEF q
<1>4. Shape(q)
  BY <1>1, <1>2, <1>3, BodyType, WithType DEF Shape, Reqs, Looking, Counting, Filing,
     Linking, Unlinking, Removing, Giving, Given, Listing
<1>5. Follows(r, q)
  BY <1>2, <1>3, <1>4, BodyType, WithType DEF Follows, Owes, Shape, Reqs, FirstCount,
     SecondCount, GivesFirst, GivesLast, LinkCounted, Looking, Counting, Filing,
     Linking, Unlinking, Removing, Giving, Given, Listing
<1> QED BY <1>5 DEF q

LEMMA RemovesFollows ==
  ASSUME NEW r \in Record, Shape(r), r.pc = "del"
  PROVE  Follows(r, [r EXCEPT !.pc = "collect", !.then = "idle"])
<1> DEFINE q == [r EXCEPT !.pc = "collect", !.then = "idle"]
<1>1. "collect" \in Pcs /\ "idle" \in Pcs
  BY BodyType, WithType, StructsType DEF Record, Shape, Reqs, Object, Pcs, Looking,
     Counting, Filing, Linking, Unlinking, Removing, Giving, Given, Listing
<1>2. q \in Record
  BY <1>1 DEF Record
<1>3. /\ q.pc = "collect" /\ q.req = r.req /\ q.f = r.f /\ q.g = r.g /\ q.t = r.t
      /\ q.u = r.u /\ q.n = r.n /\ q.todo = r.todo /\ q.rest = r.rest /\ q.then = "idle"
  BY DEF Record
<1> HIDE DEF q
<1>4. Shape(q)
  BY <1>1, <1>2, <1>3, BodyType, WithType DEF Shape, Reqs, Looking, Counting, Filing,
     Linking, Unlinking, Removing, Giving, Given, Listing
<1>5. Follows(r, q)
  BY <1>2, <1>3, <1>4, BodyType, WithType DEF Follows, Owes, Shape, Reqs, FirstCount,
     SecondCount, GivesFirst, GivesLast, LinkCounted, Looking, Counting, Filing,
     Linking, Unlinking, Removing, Giving, Given, Listing
<1> QED BY <1>5 DEF q

LEMMA CollectsFollows ==
  ASSUME NEW r \in Record, Shape(r), r.pc = "collect", NEW G \in SUBSET FileStructs
  PROVE  Follows(r, [r EXCEPT !.pc = "unlock", !.todo = G])
<1> DEFINE q == [r EXCEPT !.pc = "unlock", !.todo = G]
<1>1. "unlock" \in Pcs /\ G \in SUBSET FileStructs
  BY BodyType, WithType, StructsType DEF Record, Shape, Reqs, Object, Pcs, Looking,
     Counting, Filing, Linking, Unlinking, Removing, Giving, Given, Listing
<1>2. q \in Record
  BY <1>1 DEF Record
<1>3. /\ q.pc = "unlock" /\ q.req = r.req /\ q.f = r.f /\ q.g = r.g /\ q.t = r.t
      /\ q.u = r.u /\ q.n = r.n /\ q.todo = G /\ q.rest = r.rest /\ q.then = r.then
  BY DEF Record
<1> HIDE DEF q
<1>4. Shape(q)
  BY <1>1, <1>2, <1>3, BodyType, WithType DEF Shape, Reqs, Looking, Counting, Filing,
     Linking, Unlinking, Removing, Giving, Given, Listing
<1>5. Follows(r, q)
  BY <1>2, <1>3, <1>4, BodyType, WithType DEF Follows, Owes, Shape, Reqs, FirstCount,
     SecondCount, GivesFirst, GivesLast, LinkCounted, Looking, Counting, Filing,
     Linking, Unlinking, Removing, Giving, Given, Listing
<1> QED BY <1>5 DEF q

LEMMA StripsFollows ==
  ASSUME NEW r \in Record, Shape(r), r.pc = "strip", NEW G \in SUBSET FileStructs
  PROVE  Follows(r, [r EXCEPT !.todo = G])
<1> DEFINE q == [r EXCEPT !.todo = G]
<1>1. G \in SUBSET FileStructs
  BY BodyType, WithType, StructsType DEF Record, Shape, Reqs, Object, Pcs, Looking,
     Counting, Filing, Linking, Unlinking, Removing, Giving, Given, Listing
<1>2. q \in Record
  BY <1>1 DEF Record
<1>3. /\ q.pc = r.pc /\ q.req = r.req /\ q.f = r.f /\ q.g = r.g /\ q.t = r.t
      /\ q.u = r.u /\ q.n = r.n /\ q.todo = G /\ q.rest = r.rest /\ q.then = r.then
  BY DEF Record
<1> HIDE DEF q
<1>4. Shape(q)
  BY <1>1, <1>2, <1>3, BodyType, WithType DEF Shape, Reqs, Looking, Counting, Filing,
     Linking, Unlinking, Removing, Giving, Given, Listing
<1>5. Follows(r, q)
  BY <1>2, <1>3, <1>4, BodyType, WithType DEF Follows, Owes, Shape, Reqs, FirstCount,
     SecondCount, GivesFirst, GivesLast, LinkCounted, Looking, Counting, Filing,
     Linking, Unlinking, Removing, Giving, Given, Listing
<1> QED BY <1>5 DEF q

LEMMA ListsFollows ==
  ASSUME NEW r \in Record, Shape(r), NEW pc, NEW R \in SUBSET (Structs \cup Files),
         \/ r.pc \in {"list", "see"} /\ pc = "see" /\ R \subseteq Structs
         \/ r.pc = "see" /\ pc = "next" /\ R \subseteq Files
  PROVE  Follows(r, [r EXCEPT !.pc = pc, !.rest = R])
<1> DEFINE q == [r EXCEPT !.pc = pc, !.rest = R]
<1>1. pc \in Pcs /\ R \in SUBSET (Structs \cup Files)
  BY BodyType, WithType, StructsType DEF Record, Shape, Reqs, Object, Pcs, Looking,
     Counting, Filing, Linking, Unlinking, Removing, Giving, Given, Listing
<1>2. q \in Record
  BY <1>1 DEF Record
<1>3. /\ q.pc = pc /\ q.req = r.req /\ q.f = r.f /\ q.g = r.g /\ q.t = r.t
      /\ q.u = r.u /\ q.n = r.n /\ q.todo = r.todo /\ q.rest = R /\ q.then = r.then
  BY DEF Record
<1> HIDE DEF q
<1>4. Shape(q)
  BY <1>1, <1>2, <1>3, BodyType, WithType DEF Shape, Reqs, Looking, Counting, Filing,
     Linking, Unlinking, Removing, Giving, Given, Listing
<1>5. Follows(r, q)
  BY <1>2, <1>3, <1>4, BodyType, WithType DEF Follows, Owes, Shape, Reqs, FirstCount,
     SecondCount, GivesFirst, GivesLast, LinkCounted, Looking, Counting, Filing,
     Linking, Unlinking, Removing, Giving, Given, Listing
<1> QED BY <1>5 DEF q

LEMMA NextFollows ==
  ASSUME NEW r \in Record, Shape(r), r.pc = "next", NEW f \in Files, NEW R \in SUBSET Files
  PROVE  Follows(r, [r EXCEPT !.pc = "fget", !.f = f, !.rest = R])
<1> DEFINE q == [r EXCEPT !.pc = "fget", !.f = f, !.rest = R]
<1>1. "fget" \in Pcs /\ f \in Files \cup {"none"} /\ R \in SUBSET (Structs \cup Files)
  BY BodyType, WithType, StructsType DEF Record, Shape, Reqs, Object, Pcs, Looking,
     Counting, Filing, Linking, Unlinking, Removing, Giving, Given, Listing
<1>2. q \in Record
  BY <1>1 DEF Record
<1>3. /\ q.pc = "fget" /\ q.req = r.req /\ q.f = f /\ q.g = r.g /\ q.t = r.t
      /\ q.u = r.u /\ q.n = r.n /\ q.todo = r.todo /\ q.rest = R /\ q.then = r.then
  BY DEF Record
<1> HIDE DEF q
<1>4. Shape(q)
  BY <1>1, <1>2, <1>3, BodyType, WithType DEF Shape, Reqs, Looking, Counting, Filing,
     Linking, Unlinking, Removing, Giving, Given, Listing
<1>5. Follows(r, q)
  BY <1>2, <1>3, <1>4, BodyType, WithType DEF Follows, Owes, Shape, Reqs, FirstCount,
     SecondCount, GivesFirst, GivesLast, LinkCounted, Looking, Counting, Filing,
     Linking, Unlinking, Removing, Giving, Given, Listing
<1> QED BY <1>5 DEF q

LEMMA IdleFollows ==
  ASSUME NEW r \in Record, r.pc \notin {"inc2", "dec2"}
  PROVE  Follows(r, Idle)
BY IdleType DEF Follows

(* Every step of a thread but one into a freed struct.                     *)
Works(i) == \/ Gets(i, "get", "get2") \/ Gets(i, "get2", "add") \/ Adds(i)
            \/ Loads(i, "inc", "inc2") \/ tag_inc_ref(i)
            \/ Loads(i, "dec", "dec2") \/ tag_dec_ref(i)
            \/ Tests(i) \/ Drops(i) \/ Frees(i)
            \/ Mkdir(i) \/ MkdirGets(i) \/ MkdirAdds(i)
            \/ GetsFile(i) \/ file_add_tag(i) \/ tag_add_file(i)
            \/ file_remove_tag(i) \/ tag_remove_file(i) \/ EmptyTag(i)
            \/ Collects(i) \/ Unlocks(i) \/ Strips(i) \/ Pops(i) \/ Deletes(i)
            \/ tag_list(i) \/ Sees(i) \/ NextFile(i)
Steps(i) == (Works(i) /\ UNCHANGED files) \/ file_get_or_create(i)

LEMMA RunsSteps == \A i : Runs(i) <=> Steps(i) \/ UsesFreed(i)
BY DEF Runs, Steps, Works

LEMMA StepsOnly ==
  ASSUME TypesInv, NEW i \in Threads, Steps(i)
  PROVE  Only(i)
<1> DEFINE r == thread[i]
<1>1. r \in Record /\ Shape(r) /\ thread \in [Threads -> Record]
  BY RecordType DEF TypesInv
<1>2. SUFFICES \E q : thread' = [thread EXCEPT ![i] = q] /\ Follows(r, q)
  BY OnlyOf
<1>3. ASSUME NEW pc, Goes(i, pc), <<r.pc, pc>> \in Onward
      PROVE  \E q : thread' = [thread EXCEPT ![i] = q] /\ Follows(r, q)
  <2>1. thread' = [thread EXCEPT ![i] = [r EXCEPT !.pc = pc]]
    BY <1>3 DEF Goes
  <2> QED BY <1>1, <1>3, <2>1, GoesFollows
<1>4. Found \in Structs \cup {NoTag} /\ NoTag \notin Structs
  BY FoundType, StructsType DEF TypesInv
<1>5. HasFresh => Fresh \in Structs
  BY FreshIsFresh
<1> DEFINE Finds(s) == [r EXCEPT !.pc = "inc", !.t = s, !.u = s, !.then = Body(r.req)]
           Makes(s) == [r EXCEPT !.pc = "inc", !.u = s, !.then = "fget"]
<1>6. ASSUME NEW here, NEW missing, Gets(i, here, missing), here \in Looking,
             <<here, missing>> \in Onward
      PROVE  \E q : thread' = [thread EXCEPT ![i] = q] /\ Follows(r, q)
  <2>1. r.pc = here
    BY <1>6 DEF Gets, At
  <2>2. CASE Found = NoTag
    <3>1. Goes(i, missing)
      BY <1>6, <2>2 DEF Gets, Goes
    <3> QED BY <1>3, <1>6, <2>1, <3>1
  <2>3. CASE Found # NoTag
    <3>1. thread' = [thread EXCEPT ![i] = Finds(Found)]
      BY <1>6, <2>3 DEF Gets
    <3>2. Follows(r, Finds(Found))
      BY <1>1, <1>4, <1>6, <2>1, <2>3, FindsFollows
    <3> QED BY <3>1, <3>2
  <2> QED BY <2>2, <2>3
<1>7. CASE Gets(i, "get", "get2")
  BY <1>6, <1>7 DEF Looking, Onward
<1>8. CASE Gets(i, "get2", "add")
  BY <1>6, <1>8 DEF Looking, Onward
<1>9. CASE Adds(i)
  <2>1. thread' = [thread EXCEPT ![i] = Finds(Fresh)] /\ r.pc = "add" /\ HasFresh
    BY <1>9 DEF Adds, At
  <2>2. Follows(r, Finds(Fresh))
    BY <1>1, <1>5, <2>1, FindsFollows DEF Looking
  <2> QED BY <2>1, <2>2
<1>10. ASSUME NEW how, NEW next, Loads(i, how, next),
              <<how, next>> \in {<<"inc", "inc2">>, <<"dec", "dec2">>}
       PROVE  \E q : thread' = [thread EXCEPT ![i] = q] /\ Follows(r, q)
  <2>1. thread' = [thread EXCEPT ![i] = [r EXCEPT !.pc = next, !.n = obj[r.u].ref]]
    BY <1>10 DEF Loads
  <2>2. r.pc = how
    BY <1>10 DEF Loads, At
  <2>3. r.u \in Structs
    <3>1. how \in {"inc", "dec"}
      BY <1>10
    <3> QED BY <1>1, <2>2, <3>1 DEF Shape, Looking, Filing, Listing, Counting, Giving
  <2>4. obj[r.u] \in Object
    BY <2>3, RecordType
  <2>5. /\ (r.pc = "inc" /\ next = "inc2") \/ (r.pc = "dec" /\ next = "dec2")
        /\ Shape(r) /\ r \in Record
    BY <1>1, <1>10, <2>2
  <2> HIDE DEF r
  <2>6. Follows(r, [r EXCEPT !.pc = next, !.n = obj[r.u].ref])
    BY <2>2, <2>3, <2>4, <2>5, LoadsFollows
  <2> QED BY <2>1, <2>6
<1>11. CASE Loads(i, "inc", "inc2")
  BY <1>10, <1>11
<1>12. CASE Loads(i, "dec", "dec2")
  BY <1>10, <1>12
<1>13. ASSUME Counted(i), r.pc \in {"inc2", "test", "free"}
       PROVE  \E q : thread' = [thread EXCEPT ![i] = q] /\ Follows(r, q)
  <2>1. CASE r.then = "idle"
    <3>1. r.pc \notin {"inc2", "dec2"}
      <4>1. Body(r.req) # "idle" \/ r.pc # "inc2"
        BY <1>1, BodyType DEF Shape, Reqs, Counting, Listing, Filing
      <4> QED BY <1>1, <1>13, <2>1, <4>1 DEF Shape, Counting
    <3>2. thread' = [thread EXCEPT ![i] = Idle]
      BY <1>13, <2>1 DEF Counted
    <3> QED BY <1>1, <3>1, <3>2, IdleFollows
  <2>2. CASE r.then # "idle"
    <3>1. thread' = [thread EXCEPT ![i] =
                       [r EXCEPT !.pc = r.then, !.u = NoTag, !.n = 0, !.then = "idle"]]
      BY <1>13, <2>2 DEF Counted
    <3> QED BY <1>1, <1>13, <2>2, <3>1, CountedFollows
  <2> QED BY <2>1, <2>2
<1>14. CASE tag_inc_ref(i)
  BY <1>13, <1>14 DEF tag_inc_ref, At
<1>15. CASE tag_dec_ref(i)
  <2>1. r.pc = "dec2" /\ thread' = [thread EXCEPT ![i] = [r EXCEPT !.pc = "test", !.n = r.n - 1]]
    BY <1>15 DEF tag_dec_ref, At
  <2> HIDE DEF r
  <2> QED BY <1>1, <2>1, StoresFollows
<1>16. CASE Tests(i)
  <2>1. r.pc = "test" /\ (Goes(i, "zero") \/ Counted(i))
    BY <1>16 DEF Tests, At
  <2> QED BY <1>3, <1>13, <2>1 DEF Onward
<1>17. CASE Drops(i)
  BY <1>3, <1>17 DEF Drops, At, Onward
<1>18. CASE Frees(i)
  BY <1>13, <1>18 DEF Frees, At
<1>19. CASE Mkdir(i)
  <2>1. r.pc = "mkdir" /\ Goes(i, IF Found = NoTag THEN "mkget" ELSE "fget")
    BY <1>19 DEF Mkdir, At
  <2> QED BY <1>3, <2>1 DEF Onward
<1>20. ASSUME NEW s \in Structs, r.pc \in {"mkget", "mkadd"}, Counts(i, s, "inc", "fget")
       PROVE  \E q : thread' = [thread EXCEPT ![i] = q] /\ Follows(r, q)
  <2>1. thread' = [thread EXCEPT ![i] = Makes(s)]
    BY <1>20 DEF Counts
  <2> QED BY <1>1, <1>20, <2>1, MkdirCountsFollows
<1>21. CASE MkdirGets(i)
  <2>1. r.pc = "mkget"
    BY <1>21 DEF MkdirGets, At
  <2>2. CASE Found = NoTag
    BY <1>3, <1>21, <2>1, <2>2 DEF MkdirGets, Onward
  <2>3. CASE Found # NoTag
    BY <1>4, <1>20, <1>21, <2>1, <2>3 DEF MkdirGets
  <2> QED BY <2>2, <2>3
<1>22. CASE MkdirAdds(i)
  BY <1>5, <1>20, <1>22 DEF MkdirAdds, At
<1>23. CASE GetsFile(i)
  <2>1. r.pc = "fget" /\ r.f \in Files /\ r.req \in Reqs
    BY <1>1, <1>23 DEF GetsFile, At, Shape, Filing
  <2>2. CASE Known(r.f)
    <3> DEFINE g == IF Modifies(i) THEN Newest(r.f) ELSE NoFile
    <3>1. thread' = [thread EXCEPT ![i] = [r EXCEPT !.pc = With(r.req), !.g = g]]
      BY <1>23, <2>2 DEF GetsFile
    <3>2. Newest(r.f) \in FileStructs /\ Newest(r.f) \in Named(r.f)
      <4>1. files[r.f] \in 1..MaxCopies
        BY <2>1, <2>2 DEF Known, TypesInv
      <4> QED BY <2>1, <4>1 DEF Newest, FileStructs, Named
    <3>3. /\ g \in FileStructs \cup {NoFile}
          /\ r.req \in {"link", "unlink"} => g \in FileStructs /\ g \in Named(r.f)
      BY <3>2 DEF Modifies
    <3> HIDE DEF g, r
    <3> QED BY <1>1, <2>1, <3>1, <3>3, GetsFileFollows
  <2>3. CASE ~Known(r.f)
    <3> DEFINE pc == IF r.req = "unlink" THEN "del" ELSE "fadd"
    <3>1. thread' = [thread EXCEPT ![i] = [r EXCEPT !.pc = pc]]
      BY <1>23, <2>3 DEF GetsFile
    <3>2. r.pc = "fget" /\ pc = IF r.req = "unlink" THEN "del" ELSE "fadd"
      BY <2>1
    <3> HIDE DEF pc, r
    <3> QED BY <1>1, <3>1, <3>2, FilesFollows
  <2> QED BY <2>2, <2>3
<1>24. CASE file_get_or_create(i)
  <2> DEFINE pc == IF r.req = "link" THEN "fget" ELSE With(r.req)
  <2>1. thread' = [thread EXCEPT ![i] = [r EXCEPT !.pc = pc]]
    BY <1>24 DEF file_get_or_create, Goes
  <2>2. r.pc = "fadd" /\ pc = IF r.req = "link" THEN "fget" ELSE With(r.req)
    BY <1>24 DEF file_get_or_create, At
  <2> HIDE DEF pc, r
  <2> QED BY <1>1, <2>1, <2>2, FilesFollows
<1>25. CASE file_add_tag(i)
  BY <1>3, <1>25 DEF file_add_tag, At, Onward
<1>26. CASE tag_add_file(i)
  BY <1>3, <1>26 DEF tag_add_file, At, Onward
<1>27. CASE file_remove_tag(i)
  BY <1>3, <1>27 DEF file_remove_tag, At, Onward
<1>28. CASE tag_remove_file(i)
  BY <1>3, <1>28 DEF tag_remove_file, At, Onward
<1>29. CASE EmptyTag(i)
  <2> DEFINE pc == IF obj[r.t].files = {} THEN "collect" ELSE "del"
  <2>1. thread' = [thread EXCEPT ![i] = [r EXCEPT !.pc = pc, !.then = "del"]]
    BY <1>29 DEF EmptyTag
  <2>2. r.pc = "empty" /\ pc \in {"collect", "del"}
    BY <1>29 DEF EmptyTag, At
  <2> HIDE DEF r, pc
  <2> QED BY <1>1, <2>1, <2>2, EmptiesFollows
<1>30. CASE Collects(i)
  <2>1. thread' = [thread EXCEPT ![i] = [r EXCEPT !.pc = "unlock", !.todo = obj[r.t].files]]
    BY <1>30 DEF Collects
  <2>2. r.pc = "collect" /\ r.t \in Structs
    BY <1>1, <1>30 DEF Collects, At, Shape, Looking, Listing, Filing
  <2>3. obj[r.t].files \in SUBSET FileStructs
    BY <2>2, RecordType DEF Object
  <2> HIDE DEF r
  <2> QED BY <1>1, <2>1, <2>2, <2>3, CollectsFollows
<1>31. CASE Unlocks(i)
  BY <1>3, <1>31 DEF Unlocks, At, Onward
<1>32. CASE Strips(i)
  <2>1. r.pc = "strip"
    BY <1>32 DEF Strips, At
  <2>2. CASE Counts(i, r.t, "pop", r.then)
    <3>1. thread' = [thread EXCEPT ![i] = [r EXCEPT !.pc = "pop", !.u = r.t, !.then = r.then]]
      BY <2>2 DEF Counts
    <3> QED BY <1>1, <2>1, <3>1, PopsFollows
  <2>3. ASSUME NEW g \in r.todo, thread' = [thread EXCEPT ![i].todo = @ \ {g}]
        PROVE  \E q : thread' = [thread EXCEPT ![i] = q] /\ Follows(r, q)
    <3>1. thread' = [thread EXCEPT ![i] = [r EXCEPT !.todo = r.todo \ {g}]]
      BY <2>3
    <3>2. r.todo \ {g} \in SUBSET FileStructs
      BY <1>1 DEF Record
    <3> QED BY <1>1, <2>1, <3>1, <3>2, StripsFollows
  <2> QED BY <1>32, <2>2, <2>3 DEF Strips
<1>33. CASE Pops(i)
  BY <1>3, <1>33 DEF Pops, At, Onward
<1>34. CASE Deletes(i)
  <2>1. r.pc = "del"
    BY <1>34 DEF Deletes, At
  <2>2. CASE obj[r.t].in_use
    BY <1>1, <1>34, <2>1, <2>2, IdleFollows DEF Deletes
  <2>3. CASE ~obj[r.t].in_use
    <3>1. thread' = [thread EXCEPT ![i] = [r EXCEPT !.pc = "collect", !.then = "idle"]]
      BY <1>34, <2>3 DEF Deletes
    <3> QED BY <1>1, <2>1, <3>1, RemovesFollows
  <2> QED BY <2>2, <2>3
<1>35. CASE tag_list(i)
  <2> DEFINE R == {table[k] : k \in DOMAIN table}
  <2>1. r.pc = "list" /\ thread' = [thread EXCEPT ![i] = [r EXCEPT !.pc = "see", !.rest = R]]
    BY <1>35 DEF tag_list, At
  <2>2. R \in SUBSET (Structs \cup Files) /\ R \subseteq Structs
    BY DEF TypesInv
  <2> HIDE DEF R, r
  <2> QED BY <1>1, <2>1, <2>2, ListsFollows
<1>36. CASE Sees(i)
  <2>1. r.pc = "see" /\ r.rest \subseteq Structs
    BY <1>1, <1>36 DEF Sees, At, Shape
  <2>2. CASE r.rest = {}
    <3>1. thread' = [thread EXCEPT ![i] = [r EXCEPT !.pc = "next", !.rest = Files]]
      BY <1>36, <2>2 DEF Sees
    <3> HIDE DEF r
    <3> QED BY <1>1, <2>1, <3>1, ListsFollows
  <2>3. CASE r.rest # {}
    <3>1. PICK s : thread' = [thread EXCEPT ![i] = [r EXCEPT !.rest = r.rest \ {s}]]
      BY <1>36, <2>3 DEF Sees
    <3>2. [r EXCEPT !.rest = r.rest \ {s}] = [r EXCEPT !.pc = "see", !.rest = r.rest \ {s}]
      BY <1>1, <2>1 DEF Record
    <3>3. r.rest \ {s} \in SUBSET (Structs \cup Files) /\ r.rest \ {s} \subseteq Structs
      BY <2>1
    <3> HIDE DEF r
    <3> QED BY <1>1, <2>1, <3>1, <3>2, <3>3, ListsFollows
  <2> QED BY <2>2, <2>3
<1>37. CASE NextFile(i)
  <2>1. r.pc = "next" /\ r.rest \subseteq Files
    BY <1>1, <1>37 DEF NextFile, At, Shape, Listing
  <2>2. CASE r.rest = {}
    <3>1. thread' = [thread EXCEPT ![i] = Idle]
      BY <1>37, <2>2 DEF NextFile
    <3> QED BY <1>1, <2>1, <3>1, IdleFollows
  <2>3. CASE r.rest # {}
    <3>1. PICK f \in r.rest :
             thread' = [thread EXCEPT ![i] = [r EXCEPT !.pc = "fget", !.f = f, !.rest = r.rest \ {f}]]
      BY <1>37, <2>3 DEF NextFile
    <3>2. f \in Files /\ r.rest \ {f} \in SUBSET Files
      BY <2>1
    <3> HIDE DEF r
    <3> QED BY <1>1, <2>1, <3>1, <3>2, NextFollows
  <2> QED BY <2>2, <2>3
<1> QED BY <1>7, <1>8, <1>9, <1>11, <1>12, <1>14, <1>15, <1>19, <1>21, <1>22, <1>25, <1>26,
           <1>27, <1>28, <1>29, <1>30, <1>31, <1>32, <1>33, <1>34, <1>16, <1>17, <1>18, <1>23,
           <1>24, <1>35, <1>36, <1>37 DEF Steps, Works

(* What a step of thread i does to the count of struct s.                  *)
CountStep(i, s) ==
    \/ obj'[s].ref = obj[s].ref /\ obj'[s].alloc = obj[s].alloc
    \/ /\ obj'[s].ref = 0
       /\ \A j \in Threads : thread[j].t # s /\ thread[j].u # s
    \/ thread[i].pc = "inc2" /\ thread[i].u = s /\ obj'[s].ref = thread[i].n + 1
    \/ thread[i].pc = "dec2" /\ thread[i].u = s /\ obj'[s].ref = thread[i].n - 1
    \/ thread[i].pc = "free" /\ thread[i].u = s /\ obj'[s] = Freed

Tables == /\ table' \in Seq(Structs) /\ obj' \in [Structs -> Object]
          /\ files' \in [Files -> 0..MaxCopies]
          /\ at' \in [FileStructs -> Structs \cup {NoTag}]
          /\ readers' \in [Structs -> SUBSET Threads]
          /\ bad' = bad

LEMMA ObjectsType ==
  /\ Freed \in Object /\ Freed.ref = 0 /\ ~Freed.alloc
  /\ \A use \in BOOLEAN : new(use) \in Object /\ new(use).ref = 0
BY DEF Freed, new, Object

LEMMA StepsObjects ==
  ASSUME TypesInv, NEW i \in Threads, Steps(i)
  PROVE  Tables /\ \A s \in Structs : CountStep(i, s)
<1> DEFINE r == thread[i]
           Goal == Tables /\ \A s \in Structs : CountStep(i, s)
<1>1. /\ table \in Seq(Structs) /\ obj \in [Structs -> Object]
      /\ at \in [FileStructs -> Structs \cup {NoTag}]
      /\ files \in [Files -> 0..MaxCopies]
      /\ readers \in [Structs -> SUBSET Threads]
      /\ r \in Record /\ Shape(r)
  BY RecordType DEF TypesInv
<1> SUFFICES ASSUME files' \in [Files -> 0..MaxCopies] PROVE Goal
  <2>1. files' \in [Files -> 0..MaxCopies]
    <3>1. CASE UNCHANGED files
      BY <1>1, <3>1
    <3>2. CASE file_get_or_create(i)
      <4>1. r.f \in Files /\ files[r.f] + 1 \in 0..MaxCopies
        BY <1>1, <3>2, BoundsAssumption DEF file_get_or_create, At, Shape, Filing
      <4> QED BY <1>1, <3>2, <4>1 DEF file_get_or_create
    <3> QED BY <3>1, <3>2 DEF Steps
  <2> QED BY <2>1
<1>2. ASSUME UNCHANGED <<table, obj, at, readers, bad>>
      PROVE  Goal
  BY <1>1, <1>2 DEF Tables, CountStep
<1>3. r.pc \in Linking \cup Unlinking \cup Removing \cup Giving \cup Given => r.t \in Structs
  BY <1>1 DEF Shape, Looking, Filing, Linking, Unlinking, Removing, Giving, Given, Listing
<1>4. ASSUME NEW use \in BOOLEAN, HasFresh, obj' = [obj EXCEPT ![Fresh] = new(use)],
             table' = <<Fresh>> \o table, UNCHANGED <<at, readers, bad>>
      PROVE  Goal
  <2>1. Fresh \in Structs /\ <<Fresh>> \in Seq(Structs)
    BY <1>4, FreshIsFresh
  <2>2. table' \in Seq(Structs)
    BY <1>1, <1>4, <2>1
  <2>3. obj' \in [Structs -> Object]
    BY <1>1, <1>4, <2>1, ObjectsType
  <2>4. ASSUME NEW s \in Structs
        PROVE  CountStep(i, s)
    <3>1. CASE s = Fresh
      <4>1. obj'[s].ref = 0
        BY <1>1, <1>4, <3>1, ObjectsType
      <4> QED BY <1>4, <3>1, <4>1, FreshIsFresh DEF CountStep
    <3>2. CASE s # Fresh
      BY <1>1, <1>4, <3>2 DEF CountStep
    <3> QED BY <3>1, <3>2
  <2> QED BY <1>1, <1>4, <2>2, <2>3, <2>4 DEF Tables
<1>5. CASE Adds(i)
  BY <1>4, <1>5 DEF Adds
<1>6. CASE MkdirAdds(i)
  BY <1>4, <1>6 DEF MkdirAdds
(* The fields that no count is.                                            *)
<1>7. ASSUME NEW t \in Structs, NEW o \in Object, obj' = [obj EXCEPT ![t] = o],
             o.ref = obj[t].ref, o.alloc = obj[t].alloc,
             UNCHANGED <<table, at, readers, bad>>
      PROVE  Goal
  BY <1>1, <1>7 DEF Tables, CountStep
<1>8. CASE Mkdir(i)
  <2>1. CASE Found = NoTag
    BY <1>2, <1>8, <2>1 DEF Mkdir
  <2>2. CASE Found # NoTag
    <3> DEFINE o == [obj[Found] EXCEPT !.in_use = TRUE]
    <3>1. Found \in Structs /\ obj' = [obj EXCEPT ![Found] = o]
      BY <1>1, <1>8, <2>2, FoundType DEF Mkdir
    <3>2. o \in Object /\ o.ref = obj[Found].ref /\ o.alloc = obj[Found].alloc
      BY <1>1, <3>1 DEF Object
    <3> HIDE DEF o
    <3> QED BY <1>7, <1>8, <3>1, <3>2 DEF Mkdir
  <2> QED BY <2>1, <2>2
<1>9. CASE tag_add_file(i)
  <2> DEFINE F == IF obj[r.t].files \cap Named(r.f) = {} THEN obj[r.t].files \cup {r.g}
                  ELSE obj[r.t].files
             o == [obj[r.t] EXCEPT !.in_use = TRUE, !.files = F]
  <2>1. r.pc = "tag_t" /\ obj' = [obj EXCEPT ![r.t] = o]
    BY <1>9 DEF tag_add_file, At
  <2>2. r.t \in Structs /\ r.g \in FileStructs
    BY <1>1, <1>3, <2>1 DEF Shape, Linking
  <2>3. F \in SUBSET FileStructs
    BY <1>1, <2>2 DEF Object
  <2> HIDE DEF F
  <2>4. o \in Object /\ o.ref = obj[r.t].ref /\ o.alloc = obj[r.t].alloc
    BY <1>1, <2>2, <2>3 DEF Object
  <2> HIDE DEF o
  <2> QED BY <1>7, <1>9, <2>1, <2>2, <2>4 DEF tag_add_file
<1>10. CASE tag_remove_file(i)
  <2> DEFINE o == [obj[r.t] EXCEPT !.files = @ \ Named(r.f)]
  <2>1. r.pc = "untag_t" /\ obj' = [obj EXCEPT ![r.t] = o]
    BY <1>10 DEF tag_remove_file, At
  <2>2. r.t \in Structs
    BY <1>3, <2>1 DEF Unlinking
  <2>3. o \in Object /\ o.ref = obj[r.t].ref /\ o.alloc = obj[r.t].alloc
    BY <1>1, <2>2 DEF Object
  <2> HIDE DEF o
  <2> QED BY <1>7, <1>10, <2>1, <2>2, <2>3 DEF tag_remove_file
<1>11. CASE tag_inc_ref(i)
  <2> DEFINE o == [obj[r.u] EXCEPT !.ref = r.n + 1]
  <2>1. /\ r.pc = "inc2" /\ obj' = [obj EXCEPT ![r.u] = o]
        /\ UNCHANGED <<table, at, readers, bad>>
    BY <1>11 DEF tag_inc_ref, At
  <2>2. r.u \in Structs
    BY <1>1, <2>1 DEF Shape, Counting
  <2>3. o \in Object /\ o.ref = r.n + 1
    <3>1. r.n \in Int
      BY <1>1 DEF Record
    <3>2. r.n + 1 \in Int /\ obj[r.u] \in Object
      BY <1>1, <2>2, <3>1
    <3> HIDE DEF r
    <3> QED BY <3>2 DEF Object
  <2> HIDE DEF o
  <2> QED BY <1>1, <2>1, <2>2, <2>3 DEF Tables, CountStep
<1>12. CASE tag_dec_ref(i)
  <2> DEFINE o == [obj[r.u] EXCEPT !.ref = r.n - 1]
  <2>1. /\ r.pc = "dec2" /\ obj' = [obj EXCEPT ![r.u] = o]
        /\ UNCHANGED <<table, at, readers, bad>>
    BY <1>12 DEF tag_dec_ref, At
  <2>2. r.u \in Structs
    BY <1>1, <1>3, <2>1 DEF Shape, Giving
  <2>3. o \in Object /\ o.ref = r.n - 1
    <3>1. r.n \in Int
      BY <1>1 DEF Record
    <3>2. r.n - 1 \in Int /\ obj[r.u] \in Object
      BY <1>1, <2>2, <3>1
    <3> HIDE DEF r
    <3> QED BY <3>2 DEF Object
  <2> HIDE DEF o
  <2> QED BY <1>1, <2>1, <2>2, <2>3 DEF Tables, CountStep
<1>13. CASE Frees(i)
  <2>1. /\ r.pc = "free" /\ obj' = [obj EXCEPT ![r.u] = Freed]
        /\ UNCHANGED <<table, at, readers, bad>>
    BY <1>13 DEF Frees, At
  <2>2. r.u \in Structs
    BY <1>1, <1>3, <2>1 DEF Shape, Given
  <2> QED BY <1>1, <2>1, <2>2, ObjectsType DEF Tables, CountStep
<1>14. ASSUME NEW g \in FileStructs, NEW s \in Structs \cup {NoTag}, at' = [at EXCEPT ![g] = s],
              UNCHANGED <<table, obj, readers, bad>>
       PROVE  Goal
  BY <1>1, <1>14 DEF Tables, CountStep
<1>15. CASE file_add_tag(i)
  <2>1. r.pc = "tag_f" /\ at' = [at EXCEPT ![r.g] = IF @ = NoTag THEN r.t ELSE @]
    BY <1>15 DEF file_add_tag, At
  <2>2. r.t \in Structs /\ r.g \in FileStructs
    BY <1>1, <1>3, <2>1 DEF Shape, Linking
  <2> QED BY <1>1, <1>14, <1>15, <2>1, <2>2 DEF file_add_tag
<1>16. CASE file_remove_tag(i)
  <2>1. r.pc = "untag_f" /\ at' = [at EXCEPT ![r.g] = NoTag]
    BY <1>16 DEF file_remove_tag, At
  <2>2. r.g \in FileStructs
    BY <1>1, <2>1 DEF Shape
  <2> QED BY <1>14, <1>16, <2>1, <2>2 DEF file_remove_tag
<1>17. ASSUME NEW s \in Structs, NEW R \in SUBSET Threads,
              readers' = [readers EXCEPT ![s] = R], UNCHANGED <<table, obj, at, bad>>
       PROVE  Goal
  BY <1>1, <1>17 DEF Tables, CountStep
<1>18. CASE Collects(i)
  <2>1. r.pc = "collect" /\ readers' = [readers EXCEPT ![r.t] = readers[r.t] \cup {i}]
    BY <1>18 DEF Collects, At
  <2>2. r.t \in Structs /\ readers[r.t] \cup {i} \in SUBSET Threads
    BY <1>1, <1>3, <2>1 DEF Removing
  <2> QED BY <1>17, <1>18, <2>1, <2>2 DEF Collects
<1>19. CASE Unlocks(i)
  <2>1. r.pc = "unlock" /\ readers' = [readers EXCEPT ![r.t] = readers[r.t] \ {i}]
    BY <1>19 DEF Unlocks, At, unlocked
  <2>2. r.t \in Structs /\ readers[r.t] \ {i} \in SUBSET Threads
    BY <1>1, <1>3, <2>1 DEF Removing
  <2> QED BY <1>17, <1>19, <2>1, <2>2 DEF Unlocks
<1>20. CASE Strips(i)
  <2>1. r.todo \in SUBSET FileStructs
    BY <1>1 DEF Record
  <2>2. ASSUME NEW g \in r.todo, at' = [at EXCEPT ![g] = NoTag]
        PROVE  Goal
    BY <1>14, <1>20, <2>1, <2>2 DEF Strips
  <2> QED BY <1>2, <1>20, <2>2 DEF Strips
<1>21. CASE Pops(i) \/ Drops(i)
  BY <1>1, <1>21, FoundType DEF Pops, Drops, Tables, CountStep
<1>22. CASE \/ Gets(i, "get", "get2") \/ Gets(i, "get2", "add")
            \/ Loads(i, "inc", "inc2") \/ Loads(i, "dec", "dec2") \/ Tests(i)
            \/ MkdirGets(i) \/ EmptyTag(i) \/ Deletes(i) \/ GetsFile(i)
            \/ file_get_or_create(i) \/ tag_list(i) \/ Sees(i) \/ NextFile(i)
  BY <1>2, <1>22 DEF Gets, Loads, Tests, MkdirGets, EmptyTag, Deletes, GetsFile,
     file_get_or_create, tag_list, Sees, NextFile
<1> QED BY <1>5, <1>6, <1>8, <1>9, <1>10, <1>11, <1>12, <1>15, <1>16, <1>18, <1>19, <1>20,
           <1>21, <1>22, <1>13 DEF Steps, Works

------------------------------------------------------------------------------
(* The steps, one part of the invariant at a time.                         *)
LEMMA StepsTypes ==
  ASSUME TypesInv, NEW i \in Threads, Steps(i), started' = started
  PROVE  TypesInv'
<1>1. Tables /\ Only(i)
  BY StepsObjects, StepsOnly
<1>2. ASSUME NEW j \in Threads
      PROVE  Shape(thread'[j])
  BY <1>1 DEF Only, Follows, TypesInv
<1> QED BY <1>1, <1>2 DEF Tables, Only, TypesInv

LEMMA DbType == Cardinality(DbFiles) \in Nat /\ IsFiniteSet(DbFiles)
BY FilesAssumption, FS_Subset, FS_CardinalityType

(* A set that only shrinks.                                                *)
LEMMA Shrinks ==
  ASSUME NEW S, NEW T, IsFiniteSet(S), T \subseteq S
  PROVE  /\ IsFiniteSet(T) /\ Cardinality(S) \in Nat /\ Cardinality(T) \in Nat
         /\ Cardinality(T) <= Cardinality(S)
         /\ \A p \in S : p \notin T => Cardinality(T) + 1 <= Cardinality(S)
<1>1. /\ IsFiniteSet(T) /\ Cardinality(S) \in Nat /\ Cardinality(T) \in Nat
      /\ Cardinality(T) <= Cardinality(S)
      /\ Cardinality(S) = Cardinality(T) => S = T
  BY FS_Subset, FS_CardinalityType
<1> QED BY <1>1

(* Less is to count, and to give back, after a step: one less after an     *)
(* increment, and after a decrement.                                       *)
LEMMA StepsShrink ==
  ASSUME TypesInv, CountsBounded, NEW i \in Threads, Steps(i)
  PROVE  /\ IsFiniteSet(ToInc') /\ IsFiniteSet(ToDec')
         /\ {Cardinality(ToInc), Cardinality(ToInc'), Cardinality(ToDec), Cardinality(ToDec')}
               \subseteq Nat
         /\ Cardinality(ToInc') <= Cardinality(ToInc)
         /\ Cardinality(ToDec') <= Cardinality(ToDec)
         /\ thread[i].pc = "inc2" => Cardinality(ToInc') + 1 <= Cardinality(ToInc)
         /\ thread[i].pc = "dec2" => Cardinality(ToDec') + 1 <= Cardinality(ToDec)
<1>1. Only(i)
  BY StepsOnly
<1>2. \A j \in Threads : /\ FirstCount(thread'[j]) => FirstCount(thread[j])
                         /\ SecondCount(thread'[j]) => SecondCount(thread[j])
                         /\ GivesFirst(thread'[j]) => GivesFirst(thread[j])
                         /\ GivesLast(thread'[j]) => GivesLast(thread[j])
  BY <1>1 DEF Only, Follows
<1>3. ToInc' = {p \in Threads \X {1, 2} : IF p[2] = 1 THEN FirstCount(thread'[p[1]])
                                                      ELSE SecondCount(thread'[p[1]])}
  BY DEF ToInc, FirstCount, SecondCount
<1>4. ToDec' = {p \in Threads \X {1, 2} : IF p[2] = 1 THEN GivesFirst(thread'[p[1]])
                                                      ELSE GivesLast(thread'[p[1]])}
  BY DEF ToDec, GivesFirst, GivesLast
<1>5. ToInc' \subseteq ToInc /\ ToDec' \subseteq ToDec
  BY <1>2, <1>3, <1>4 DEF ToInc, ToDec
<1>6. /\ <<i, 1>> \in ToInc <=> FirstCount(thread[i])
      /\ <<i, 2>> \in ToInc <=> SecondCount(thread[i])
      /\ <<i, 1>> \in ToDec <=> GivesFirst(thread[i])
      /\ <<i, 2>> \in ToDec <=> GivesLast(thread[i])
  BY DEF ToInc, ToDec
<1>7. /\ <<i, 1>> \in ToInc' <=> FirstCount(thread'[i])
      /\ <<i, 2>> \in ToInc' <=> SecondCount(thread'[i])
      /\ <<i, 1>> \in ToDec' <=> GivesFirst(thread'[i])
      /\ <<i, 2>> \in ToDec' <=> GivesLast(thread'[i])
  BY <1>3, <1>4
<1>8. ASSUME thread[i].pc = "inc2"
      PROVE  \E p \in ToInc : p \notin ToInc'
  <2>1. IF FirstCount(thread[i]) THEN ~FirstCount(thread'[i]) ELSE ~SecondCount(thread'[i])
    BY <1>1, <1>8 DEF Only, Follows
  <2>2. SecondCount(thread[i])
    BY <1>8 DEF SecondCount, Counting
  <2> QED BY <1>6, <1>7, <2>1, <2>2
<1>9. ASSUME thread[i].pc = "dec2"
      PROVE  \E p \in ToDec : p \notin ToDec'
  <2>1. IF GivesFirst(thread[i]) THEN ~GivesFirst(thread'[i]) ELSE ~GivesLast(thread'[i])
    BY <1>1, <1>9 DEF Only, Follows
  <2>2. GivesLast(thread[i])
    BY <1>9 DEF GivesLast, Given
  <2> QED BY <1>6, <1>7, <2>1, <2>2
<1>10. IsFiniteSet(ToInc) /\ IsFiniteSet(ToDec)
  BY DEF CountsBounded
<1> DEFINE A == ToInc
           B == ToInc'
           C == ToDec
           D == ToDec'
<1> HIDE DEF A, B, C, D
<1>11. /\ IsFiniteSet(B) /\ Cardinality(A) \in Nat /\ Cardinality(B) \in Nat
       /\ Cardinality(B) <= Cardinality(A)
       /\ \A p \in A : p \notin B => Cardinality(B) + 1 <= Cardinality(A)
  BY <1>5, <1>10, Shrinks DEF A, B
<1>12. /\ IsFiniteSet(D) /\ Cardinality(C) \in Nat /\ Cardinality(D) \in Nat
       /\ Cardinality(D) <= Cardinality(C)
       /\ \A p \in C : p \notin D => Cardinality(D) + 1 <= Cardinality(C)
  BY <1>5, <1>10, Shrinks DEF C, D
<1>13. /\ thread[i].pc = "inc2" => Cardinality(B) + 1 <= Cardinality(A)
       /\ thread[i].pc = "dec2" => Cardinality(D) + 1 <= Cardinality(C)
  BY <1>8, <1>9, <1>11, <1>12 DEF A, B, C, D
<1> QED BY <1>11, <1>12, <1>13 DEF A, B, C, D

LEMMA StepsBounded ==
  ASSUME TypesInv, CountsBounded, NEW i \in Threads, Steps(i), started' = started
  PROVE  CountsBounded'
<1>1. Tables /\ Only(i) /\ \A s \in Structs : CountStep(i, s)
  BY StepsObjects, StepsOnly
<1> DEFINE a == Cardinality(ToInc)
           b == Cardinality(ToInc')
           c == Cardinality(ToDec)
           d == Cardinality(ToDec')
           m == Cardinality(DbFiles) + 2 * started
           k == 2 * started
<1>2. /\ IsFiniteSet(ToInc') /\ IsFiniteSet(ToDec')
      /\ a \in Nat /\ b \in Nat /\ c \in Nat /\ d \in Nat
      /\ b <= a /\ d <= c
      /\ thread[i].pc = "inc2" => b + 1 <= a
      /\ thread[i].pc = "dec2" => d + 1 <= c
  BY StepsShrink
<1>3. \A j \in Threads : thread[j].n \in Int
  BY RecordType DEF Record
<1>4. \A s \in Structs : obj[s].ref \in Int
  BY DEF TypesInv, Object
<1>5. m \in Nat /\ k \in Nat /\ m' = m /\ k' = k
  BY DbType DEF TypesInv
<1>6. 0 + a <= m /\ c - k <= 0
  BY DEF CountsBounded, Within
<1>7. \A s \in Structs : obj[s].ref + a <= m /\ c - k <= obj[s].ref
  BY DEF CountsBounded, Within
<1>8. \A j \in Threads : thread[j].n + a <= m /\ c - k <= thread[j].n
  BY DEF CountsBounded, Within
<1>9. Cardinality(DbFiles)' + 2 * started' = m /\ 2 * started' = k
  BY <1>5
<1> HIDE DEF a, b, c, d, m, k
<1>10. 0 + b <= m /\ d - k <= 0
  BY <1>2, <1>5, <1>6
<1>11. ASSUME NEW s \in Structs
       PROVE  obj'[s].ref + b <= m /\ d - k <= obj'[s].ref
  <2>1. \/ obj'[s].ref = obj[s].ref \/ obj'[s].ref = 0
        \/ thread[i].pc = "inc2" /\ obj'[s].ref = thread[i].n + 1
        \/ thread[i].pc = "dec2" /\ obj'[s].ref = thread[i].n - 1
    BY <1>1 DEF CountStep, Freed
  <2> DEFINE x == obj[s].ref
             n == thread[i].n
             y == obj'[s].ref
  <2>2. /\ x \in Int /\ n \in Int
        /\ x + a <= m /\ c - k <= x /\ n + a <= m /\ c - k <= n
    BY <1>3, <1>4, <1>7, <1>8
  <2>3. \/ y = x \/ y = 0 \/ (b + 1 <= a /\ y = n + 1) \/ (d + 1 <= c /\ y = n - 1)
    BY <1>2, <2>1
  <2> HIDE DEF x, n, y
  <2>4. y + b <= m /\ d - k <= y
    BY <1>2, <1>5, <1>6, <2>2, <2>3
  <2> QED BY <2>4 DEF y
<1>12. ASSUME NEW j \in Threads
       PROVE  thread'[j].n + b <= m /\ d - k <= thread'[j].n
  <2>1. \/ thread'[j].n = thread[j].n \/ thread'[j].n = 0
        \/ thread[j].u \in Structs /\ thread'[j].n = obj[thread[j].u].ref
        \/ thread[i].pc = "dec2" /\ thread'[j].n = thread[j].n - 1
    BY <1>1 DEF Only, Follows
  <2> DEFINE n == thread[j].n
             y == thread'[j].n
  <2>2. n \in Int /\ n + a <= m /\ c - k <= n
    BY <1>3, <1>8
  <2>3. \/ y = n \/ y = 0 \/ (d + 1 <= c /\ y = n - 1)
        \/ \E x \in Int : x + a <= m /\ c - k <= x /\ y = x
    BY <1>2, <1>4, <1>7, <2>1
  <2> HIDE DEF n, y
  <2>4. y + b <= m /\ d - k <= y
    BY <1>2, <1>5, <1>6, <2>2, <2>3
  <2> QED BY <2>4 DEF y
<1> QED BY <1>2, <1>9, <1>10, <1>11, <1>12 DEF CountsBounded, Within, b, d

(* A request starts: it may count twice, and give back twice.              *)
LEMMA StartsRecord ==
  ASSUME TypesInv, NEW i \in Threads, NEW r \in Reqs, NEW f \in Files \cup {"none"},
         Starts(i, r, f)
  PROVE  /\ thread' \in [Threads -> Record] /\ Shape(thread'[i]) /\ thread[i] = Idle
         /\ ~LinkCounted(thread'[i]) /\ ~Owes(thread'[i])
         /\ thread'[i].n = 0 /\ thread'[i].pc \in {"get", "list"} /\ thread'[i].t = NoTag
         /\ thread'[i].u = NoTag /\ thread'[i].req = r /\ thread'[i].f = f
         /\ thread'[i].pc = "list" <=> r = "list"
         /\ \A j \in Threads : j # i => thread'[j] = thread[j]
         /\ started' = started + 1 /\ started' \in 0..MaxRequests
         /\ UNCHANGED <<table, obj, files, at, readers, bad>>
<1> DEFINE pc == IF r = "list" THEN "list" ELSE "get"
           q == [Idle EXCEPT !.req = r, !.f = f, !.pc = pc]
<1>1. thread' = [thread EXCEPT ![i] = q] /\ thread \in [Threads -> Record]
  BY DEF Starts, TypesInv
<1>2. thread[i].pc = "idle" /\ thread[i] = Idle
  BY RecordType DEF Starts, At, Shape
<1>3. r # "list" => f \in Files
  BY DEF Starts, Reqs
<1>4. pc \in Pcs /\ pc \in {"get", "list"} /\ (pc = "list" <=> r = "list")
  BY DEF Pcs, Looking, Listing
<1> HIDE DEF pc
<1>5. /\ q \in Record /\ q.pc = pc /\ q.req = r /\ q.f = f /\ q.t = NoTag /\ q.u = NoTag
      /\ q.n = 0
  BY <1>4, IdleType DEF Record
<1> HIDE DEF q
<1>6. Shape(q) /\ ~LinkCounted(q) /\ ~Owes(q)
  BY <1>3, <1>4, <1>5 DEF Shape, LinkCounted, Owes, Looking, Counting, Filing, Linking,
     Unlinking, Removing, Giving, Given, Listing
<1>7. started' = started + 1 /\ started' \in 0..MaxRequests
  BY BoundsAssumption DEF Starts, TypesInv
<1>8. UNCHANGED <<table, obj, files, at, readers, bad>>
  BY DEF Starts
<1> QED BY <1>1, <1>2, <1>4, <1>5, <1>6, <1>7, <1>8

LEMMA TwoMore ==
  ASSUME NEW S, IsFiniteSet(S), NEW T, NEW p, NEW q, T \subseteq (S \cup {p}) \cup {q}
  PROVE  /\ IsFiniteSet(T) /\ Cardinality(S) \in Nat /\ Cardinality(T) \in Nat
         /\ Cardinality(T) <= Cardinality(S) + 2
<1>1. Cardinality(S) \in Nat
  BY FS_CardinalityType
<1>2. /\ IsFiniteSet(S \cup {p}) /\ Cardinality(S \cup {p}) \in Nat
      /\ Cardinality(S \cup {p}) <= Cardinality(S) + 1
  <2>1. /\ IsFiniteSet(S \cup {p})
        /\ Cardinality(S \cup {p}) = IF p \in S THEN Cardinality(S) ELSE Cardinality(S) + 1
    BY FS_AddElement
  <2> QED BY <1>1, <2>1
<1> DEFINE U == S \cup {p}
<1> HIDE DEF U
<1>3. /\ IsFiniteSet(U \cup {q}) /\ Cardinality(U \cup {q}) \in Nat
      /\ Cardinality(U \cup {q}) <= Cardinality(U) + 1
  <2>1. /\ IsFiniteSet(U \cup {q})
        /\ Cardinality(U \cup {q}) = IF q \in U THEN Cardinality(U) ELSE Cardinality(U) + 1
    BY <1>2, FS_AddElement DEF U
  <2>2. Cardinality(U) \in Nat
    BY <1>2 DEF U
  <2> QED BY <2>1, <2>2
<1>4. T \in SUBSET (U \cup {q})
  BY DEF U
<1>5. IsFiniteSet(T) /\ Cardinality(T) <= Cardinality(U \cup {q}) /\ Cardinality(T) \in Nat
  BY <1>3, <1>4, FS_Subset, FS_CardinalityType
<1>6. Cardinality(U) <= Cardinality(S) + 1 /\ Cardinality(U) \in Nat
  BY <1>2 DEF U
<1> QED BY <1>1, <1>3, <1>5, <1>6

LEMMA StartsAInv ==
  ASSUME AInv, NEW i \in Threads, NEW r \in Reqs, NEW f \in Files \cup {"none"},
         Starts(i, r, f)
  PROVE  AInv'
<1>1. /\ thread' \in [Threads -> Record] /\ Shape(thread'[i]) /\ thread[i] = Idle
      /\ thread'[i].n = 0
      /\ \A j \in Threads : j # i => thread'[j] = thread[j]
      /\ started' = started + 1 /\ started' \in 0..MaxRequests
      /\ UNCHANGED <<table, obj, files, at, readers, bad>>
  BY StartsRecord DEF AInv
<1>2. TypesInv'
  BY <1>1 DEF AInv, TypesInv
<1>3. /\ ToInc' \subseteq (ToInc \cup {<<i, 1>>}) \cup {<<i, 2>>}
      /\ ToDec' \subseteq (ToDec \cup {<<i, 1>>}) \cup {<<i, 2>>}
  <2>1. \A p \in Threads \X {1, 2} : p[1] # i => thread'[p[1]] = thread[p[1]]
    BY <1>1
  <2>2. \A p \in Threads \X {1, 2} : p[1] = i => p = <<i, 1>> \/ p = <<i, 2>>
    OBVIOUS
  <2>3. ASSUME NEW p \in Threads \X {1, 2}, p \in ToInc'
        PROVE  p \in ToInc \/ p[1] = i
    BY <2>1, <2>3 DEF ToInc, FirstCount, SecondCount
  <2>4. ASSUME NEW p \in Threads \X {1, 2}, p \in ToDec'
        PROVE  p \in ToDec \/ p[1] = i
    BY <2>1, <2>4 DEF ToDec, GivesFirst, GivesLast
  <2>5. ToInc' \subseteq Threads \X {1, 2} /\ ToDec' \subseteq Threads \X {1, 2}
    BY DEF ToInc, ToDec
  <2> QED BY <2>2, <2>3, <2>4, <2>5
<1>4. IsFiniteSet(ToInc) /\ IsFiniteSet(ToDec)
  BY DEF AInv, CountsBounded
<1> DEFINE a == Cardinality(ToInc)
           b == Cardinality(ToInc')
           c == Cardinality(ToDec)
           d == Cardinality(ToDec')
<1>5. /\ IsFiniteSet(ToInc') /\ IsFiniteSet(ToDec')
      /\ a \in Nat /\ b \in Nat /\ c \in Nat /\ d \in Nat
      /\ b <= a + 2 /\ d <= c + 2
  <2>1. /\ IsFiniteSet(ToInc') /\ a \in Nat /\ b \in Nat /\ b <= a + 2
    <3> DEFINE S == ToInc
               T == ToInc'
    <3> HIDE DEF S, T
    <3>1. IsFiniteSet(S) /\ T \subseteq (S \cup {<<i, 1>>}) \cup {<<i, 2>>}
      BY <1>3, <1>4 DEF S, T
    <3> QED BY <3>1, TwoMore DEF S, T
  <2>2. /\ IsFiniteSet(ToDec') /\ c \in Nat /\ d \in Nat /\ d <= c + 2
    <3> DEFINE S == ToDec
               T == ToDec'
    <3> HIDE DEF S, T
    <3>1. IsFiniteSet(S) /\ T \subseteq (S \cup {<<i, 1>>}) \cup {<<i, 2>>}
      BY <1>3, <1>4 DEF S, T
    <3> QED BY <3>1, TwoMore DEF S, T
  <2> QED BY <2>1, <2>2
<1>6. Cardinality(DbFiles) \in Nat /\ started \in Nat
  BY DbType DEF AInv, TypesInv
<1>7. ASSUME NEW x \in Int, Within(x)
      PROVE  x + b <= Cardinality(DbFiles) + 2 * started' /\ d - 2 * started' <= x
  <2>1. x + a <= Cardinality(DbFiles) + 2 * started /\ c - 2 * started <= x
    BY <1>7 DEF Within
  <2> HIDE DEF a, b, c, d
  <2> QED BY <1>1, <1>5, <1>6, <2>1
<1>8. /\ \A s \in Structs : obj[s].ref \in Int /\ Within(obj[s].ref) /\ obj'[s].ref = obj[s].ref
      /\ \A j \in Threads : thread[j].n \in Int /\ Within(thread[j].n)
      /\ Within(0)
  BY <1>1 DEF AInv, CountsBounded, TypesInv, Object, Record
<1>9. \A j \in Threads : thread'[j].n \in {thread[j].n, 0}
  BY <1>1
<1> HIDE DEF a, b, c, d
<1>10. 0 + b <= Cardinality(DbFiles) + 2 * started' /\ d - 2 * started' <= 0
  BY <1>7, <1>8
<1>11. \A s \in Structs : /\ obj'[s].ref + b <= Cardinality(DbFiles) + 2 * started'
                          /\ d - 2 * started' <= obj'[s].ref
  BY <1>7, <1>8
<1>12. \A j \in Threads : /\ thread'[j].n + b <= Cardinality(DbFiles) + 2 * started'
                          /\ d - 2 * started' <= thread'[j].n
  BY <1>7, <1>8, <1>9, <1>10
<1> QED BY <1>2, <1>5, <1>10, <1>11, <1>12 DEF AInv, CountsBounded, Within, b, d

(* .tags is read, at the start and at a restart.                           *)
LEMMA BootType ==
  /\ Boot.table \in Seq(Structs) /\ Boot.obj \in [Structs -> Object]
  /\ Boot.files \in [Files -> 0..MaxCopies]
  /\ Boot.at \in [FileStructs -> Structs \cup {NoTag}]
  /\ \A s \in Structs : 0 <= Boot.obj[s].ref /\ Boot.obj[s].ref <= Cardinality(DbFiles)
<1> DEFINE b == IF DbFiles = {} THEN NoTag ELSE 1
           Booted == [alloc |-> TRUE, in_use |-> TRUE, files |-> DbFiles \X {1},
                      ref |-> Cardinality(DbFiles)]
<1>1. /\ Boot.table = IF b = 1 THEN <<1>> ELSE <<>>
      /\ Boot.obj = [o \in Structs |-> IF o # b THEN Freed ELSE Booted]
      /\ Boot.files = [f \in Files |-> IF f \in DbFiles THEN 1 ELSE 0]
      /\ Boot.at = [g \in FileStructs |-> IF g \in DbFiles \X {1} THEN b ELSE NoTag]
  BY DEF Boot, NoTag
<1>2. b \in Structs \cup {NoTag} /\ 1 \in Structs
  BY StructsType
<1> HIDE DEF b
<1>3. Booted \in Object /\ Booted.ref = Cardinality(DbFiles)
  <2>1. DbFiles \X {1} \in SUBSET FileStructs
    BY FilesAssumption, StructsType DEF FileStructs
  <2> QED BY <2>1, DbType DEF Object
<1> HIDE DEF Booted
<1>4. <<>> \in Seq(Structs) /\ <<1>> \in Seq(Structs)
  BY <1>2
<1>5. Boot.table \in Seq(Structs)
  BY <1>1, <1>4
<1>6. Boot.files \in [Files -> 0..MaxCopies]
  BY <1>1, BoundsAssumption
<1> QED BY <1>1, <1>2, <1>3, <1>5, <1>6, ObjectsType, DbType

Booted == /\ table = Boot.table /\ obj = Boot.obj /\ files = Boot.files /\ at = Boot.at
          /\ readers = [s \in Structs |-> {}] /\ thread = [i \in Threads |-> Idle]
          /\ started = 0 /\ bad = FALSE /\ raced = {}

LEMMA BootAInv == Booted => AInv
<1> SUFFICES ASSUME Booted PROVE AInv
  OBVIOUS
<1> USE DEF Booted
<1>1. \A i \in Threads : thread[i] = Idle
  OBVIOUS
<1>2. 0 \in 0..MaxRequests
  BY BoundsAssumption
<1>3. readers \in [Structs -> SUBSET Threads] /\ thread \in [Threads -> Record]
  BY IdleType
<1>4. TypesInv
  BY <1>1, <1>2, <1>3, BootType, IdleType DEF TypesInv
<1>5. ToInc = {} /\ ToDec = {}
  <2>1. \A p \in Threads \X {1, 2} : thread[p[1]] = Idle
    BY <1>1
  <2> QED BY <2>1, IdleType DEF ToInc, ToDec
<1>6. /\ IsFiniteSet(ToInc) /\ Cardinality(ToInc) = 0
      /\ IsFiniteSet(ToDec) /\ Cardinality(ToDec) = 0
  BY <1>5, FS_EmptySet
<1>7. ASSUME NEW x \in Int, 0 <= x, x <= Cardinality(DbFiles)
      PROVE  Within(x)
  BY <1>6, <1>7, DbType DEF Within
<1>8. Within(0)
  BY <1>7, DbType
<1>9. \A s \in Structs : Within(obj[s].ref)
  BY <1>7, BootType DEF Object
<1>10. \A i \in Threads : Within(thread[i].n)
  BY <1>1, <1>8, IdleType
<1> QED BY <1>4, <1>6, <1>8, <1>9, <1>10 DEF AInv, CountsBounded

LEMMA InitBooted == Init => Booted
BY DEF Init, Booted

LEMMA RestartBooted == Restart => Booted'
BY DEF Restart, Booted, reloaded

LEMMA NextAInv == AInv /\ [Next]_vars => AInv'
<1> SUFFICES ASSUME AInv, [Next]_vars PROVE AInv'
  OBVIOUS
<1> USE DEF AInv
<1>1. CASE UNCHANGED vars
  BY <1>1 DEF vars, TypesInv, CountsBounded, ToInc, ToDec, Within
<1>2. ASSUME NEW i \in Threads, Goes_on(i)
      PROVE  AInv'
  <2>1. started' = started /\ (Steps(i) \/ UsesFreed(i))
    BY <1>2, RunsSteps DEF Goes_on
  <2>2. CASE Steps(i)
    BY <2>1, <2>2, StepsTypes, StepsBounded
  <2>3. CASE UsesFreed(i)
    BY <2>1, <2>3 DEF UsesFreed, TypesInv, CountsBounded, ToInc, ToDec, Within
  <2> QED BY <2>1, <2>2, <2>3
<1>3. ASSUME NEW i \in Threads, NEW r \in {"lookup", "list", "link", "unlink"},
             NEW f \in Files \cup {"none"}, Starts(i, r, f)
      PROVE  AInv'
  BY <1>3, StartsAInv DEF Reqs
<1>4. CASE Restart
  <2>1. Booted => AInv
    BY BootAInv
  <2>2. Booted' => AInv'
    BY BootAInv, PTL
  <2> QED BY <1>4, <2>2, RestartBooted
<1> QED BY <1>1, <1>2, <1>3, <1>4 DEF Next

LEMMA AlwaysAInv == Spec => []AInv
<1>1. Init => AInv
  BY InitBooted, BootAInv
<1> QED BY <1>1, NextAInv, PTL DEF Spec

LEMMA TypesOfAInv == AInv => TypeOK
<1> SUFFICES ASSUME AInv PROVE TypeOK
  OBVIOUS
<1>1. /\ Cardinality(DbFiles) + 2 * started <= MaxRef /\ MaxRef \in Nat
      /\ started \in Nat /\ 2 * started <= MaxRef
  BY DbType, BoundsAssumption DEF AInv, TypesInv
<1>2. Cardinality(ToInc) \in Nat /\ Cardinality(ToDec) \in Nat
  BY FS_CardinalityType DEF AInv, CountsBounded
<1>3. ASSUME NEW x \in Int, Within(x)
      PROVE  x \in Signed
  <2> DEFINE a == Cardinality(ToInc)
             c == Cardinality(ToDec)
             m == Cardinality(DbFiles) + 2 * started
  <2>1. x + a <= m /\ c - 2 * started <= x /\ m <= MaxRef /\ m \in Nat
    BY <1>1, <1>3, DbType DEF Within
  <2>2. a \in Nat /\ c \in Nat
    BY <1>2
  <2> HIDE DEF a, c, m
  <2> QED BY <1>1, <2>1, <2>2 DEF Signed
<1>4. ASSUME NEW s \in Structs
      PROVE  obj[s] \in Struct
  <2>1. obj[s] \in Object /\ obj[s].ref \in Int /\ Within(obj[s].ref)
    BY DEF AInv, TypesInv, CountsBounded, Object
  <2>2. obj[s].ref \in Signed
    BY <1>3, <2>1
  <2> QED BY <2>1, <2>2 DEF Object, Struct
<1>5. ASSUME NEW i \in Threads
      PROVE  /\ thread[i].f \in Files \cup {"none"}
             /\ {thread[i].t, thread[i].u} \subseteq Structs \cup {NoTag}
             /\ thread[i].n \in Signed /\ thread[i].todo \subseteq FileStructs
  <2>1. thread[i] \in Record /\ Within(thread[i].n)
    BY DEF AInv, TypesInv, CountsBounded
  <2>2. thread[i].n \in Signed
    BY <1>3, <2>1 DEF Record
  <2> QED BY <2>1, <2>2 DEF Record
<1> QED BY <1>4, <1>5 DEF AInv, TypesInv, TypeOK

(* Whatever the threads do to each other's structs, and however often they *)
(* lose a count: a ref_count passes neither what .tags and two counts for  *)
(* each request make, nor, below zero, what two decrements for each        *)
(* request take away (tag.c:14-31, tag_inc_ref, tag_dec_ref).              *)
THEOREM ThreadsTypes == Spec => []TypeOK
BY AlwaysAInv, TypesOfAInv, PTL

------------------------------------------------------------------------------
(* Who gives back: also without any care among the threads.                *)
OwersFinite == \A s \in Structs : IsFiniteSet(Owers(s))

(* The kernel sends one link or unlink at a time, an unlink of a file that *)
(* it knows; and no struct file is freed.                                  *)
OneModifier == \A i, j \in Threads : Modifies(i) /\ Modifies(j) => i = j
UnlinksKnown == \A i \in Threads : thread[i].req = "unlink" => Known(thread[i].f)

(* A freed struct has no count; one with files is in use.                  *)
Plain(o) == /\ ~o.alloc => o.ref = 0 /\ ~o.in_use
            /\ o.files # {} => o.in_use
AllPlain == \A s \in Structs : Plain(obj[s])

SInv == /\ AInv /\ OwersFinite /\ OneModifier /\ UnlinksKnown /\ AllPlain
        /\ Races \subseteq raced

(* No thread but i takes a debt in a step of i, and i does when it has     *)
(* counted.                                                                *)
LEMMA StepsOwers ==
  ASSUME TypesInv, OwersFinite, NEW i \in Threads, Steps(i), NEW s \in Structs
  PROVE  /\ IsFiniteSet(Owers(s)') /\ Cardinality(Owers(s)') \in Nat
         /\ Cardinality(Owers(s)) \in Nat
         /\ Cardinality(Owers(s)') <= Cardinality(Owers(s)) + 1
         /\ ~(thread[i].pc = "inc2" /\ thread[i].t = s)
              => Cardinality(Owers(s)') <= Cardinality(Owers(s))
         /\ i \notin Owers(s)' => Cardinality(Owers(s)') <= Cardinality(Owers(s))
         /\ i \in Owers(s) /\ i \notin Owers(s)'
              => Cardinality(Owers(s)') + 1 <= Cardinality(Owers(s))
<1>1. Only(i)
  BY StepsOnly
<1>2. \A j \in Owers(s)' : j \in Owers(s) \/ (j = i /\ thread[i].pc = "inc2" /\ thread[i].t = s)
  BY <1>1 DEF Owers, Only, Follows
<1>3. IsFiniteSet(Owers(s)) /\ Cardinality(Owers(s)) \in Nat
  BY FS_CardinalityType DEF OwersFinite
<1>4. /\ IsFiniteSet(Owers(s) \cup {i}) /\ Cardinality(Owers(s) \cup {i}) \in Nat
      /\ Cardinality(Owers(s) \cup {i}) <= Cardinality(Owers(s)) + 1
  <2> DEFINE O == Owers(s)
  <2> HIDE DEF O
  <2>1. /\ IsFiniteSet(O \cup {i})
        /\ Cardinality(O \cup {i}) = IF i \in O THEN Cardinality(O) ELSE Cardinality(O) + 1
    BY <1>3, FS_AddElement DEF O
  <2>2. Cardinality(O) \in Nat
    BY <1>3 DEF O
  <2>3. Cardinality(O \cup {i}) \in Nat /\ Cardinality(O \cup {i}) <= Cardinality(O) + 1
    BY <2>1, <2>2
  <2> QED BY <2>1, <2>3 DEF O
<1>5. Owers(s)' \in SUBSET (Owers(s) \cup {i})
  BY <1>2
<1>6. /\ IsFiniteSet(Owers(s)') /\ Cardinality(Owers(s)') \in Nat
      /\ Cardinality(Owers(s)') <= Cardinality(Owers(s) \cup {i})
  BY <1>4, <1>5, FS_Subset, FS_CardinalityType
<1>7. ASSUME ~(thread[i].pc = "inc2" /\ thread[i].t = s) \/ i \notin Owers(s)'
      PROVE  Cardinality(Owers(s)') <= Cardinality(Owers(s))
  <2>1. Owers(s)' \in SUBSET Owers(s)
    BY <1>2, <1>7
  <2> QED BY <1>3, <2>1, FS_Subset
<1>8. ASSUME i \in Owers(s), i \notin Owers(s)'
      PROVE  Cardinality(Owers(s)') + 1 <= Cardinality(Owers(s))
  <2>1. Owers(s)' \in SUBSET Owers(s) /\ Owers(s)' # Owers(s)
    BY <1>2, <1>8
  <2>2. /\ Cardinality(Owers(s)') <= Cardinality(Owers(s))
        /\ Cardinality(Owers(s)') # Cardinality(Owers(s))
    BY <1>3, <2>1, FS_Subset
  <2> QED BY <1>3, <1>6, <2>2
<1> QED BY <1>3, <1>4, <1>6, <1>7, <1>8

LEMMA StepsPlain ==
  ASSUME TypesInv, AllPlain, NEW i \in Threads, Steps(i)
  PROVE  AllPlain'
<1> DEFINE r == thread[i]
<1>1. obj \in [Structs -> Object] /\ r \in Record /\ Shape(r)
  BY RecordType DEF TypesInv
<1>2. ASSUME NEW t \in Structs, NEW o, obj' = [obj EXCEPT ![t] = o], Plain(o)
      PROVE  AllPlain'
  BY <1>1, <1>2 DEF AllPlain
<1>3. Plain(Freed) /\ \A use \in BOOLEAN : Plain(new(use))
  BY DEF Plain, Freed, new
<1>4. CASE Adds(i) \/ MkdirAdds(i)
  BY <1>2, <1>3, <1>4, FreshIsFresh DEF Adds, MkdirAdds
<1>5. \A t \in Structs : obj[t] \in Object /\ Plain(obj[t])
  BY <1>1 DEF AllPlain
<1>6. CASE Mkdir(i)
  <2>1. CASE Found = NoTag
    BY <1>6, <2>1 DEF Mkdir, AllPlain
  <2>2. CASE Found # NoTag
    <3> DEFINE o == [obj[Found] EXCEPT !.in_use = TRUE]
    <3>1. Found \in Structs /\ obj' = [obj EXCEPT ![Found] = o] /\ obj[Found].alloc
      BY <1>6, <2>2, FoundType DEF Mkdir, TypesInv, Valid
    <3>2. Plain(o)
      BY <1>5, <3>1 DEF Plain, Object
    <3> HIDE DEF o
    <3> QED BY <1>2, <3>1, <3>2
  <2> QED BY <2>1, <2>2
<1>7. CASE tag_add_file(i)
  <2> DEFINE F == IF obj[r.t].files \cap Named(r.f) = {} THEN obj[r.t].files \cup {r.g}
                  ELSE obj[r.t].files
             o == [obj[r.t] EXCEPT !.in_use = TRUE, !.files = F]
  <2>1. r.pc = "tag_t" /\ obj' = [obj EXCEPT ![r.t] = o] /\ obj[r.t].alloc
    BY <1>7 DEF tag_add_file, At, Valid
  <2> HIDE DEF F
  <2>2. r.t \in Structs
    BY <1>1, <2>1 DEF Shape, Looking, Listing, Filing
  <2>3. Plain(o)
    BY <1>5, <2>1, <2>2 DEF Plain, Object
  <2> HIDE DEF o
  <2> QED BY <1>2, <2>1, <2>2, <2>3
<1>8. CASE tag_remove_file(i)
  <2> DEFINE o == [obj[r.t] EXCEPT !.files = @ \ Named(r.f)]
  <2>1. r.pc = "untag_t" /\ obj' = [obj EXCEPT ![r.t] = o]
    BY <1>8 DEF tag_remove_file, At
  <2>2. r.t \in Structs
    BY <1>1, <2>1 DEF Shape, Looking, Listing, Filing
  <2>3. Plain(o)
    BY <1>5, <2>2 DEF Plain, Object
  <2> HIDE DEF o
  <2> QED BY <1>2, <2>1, <2>2, <2>3
<1>9. ASSUME NEW x, NEW t \in Structs, obj' = [obj EXCEPT ![t].ref = x], obj[t].alloc
      PROVE  AllPlain'
  <2> DEFINE o == [obj[t] EXCEPT !.ref = x]
  <2>1. Plain(o) /\ obj' = [obj EXCEPT ![t] = o]
    BY <1>5, <1>9 DEF Plain, Object
  <2> HIDE DEF o
  <2> QED BY <1>2, <2>1
<1>10. CASE tag_inc_ref(i)
  <2>1. r.u \in Structs /\ obj[r.u].alloc
    BY <1>1, <1>10 DEF tag_inc_ref, At, Shape, Counting, Valid
  <2> QED BY <1>9, <1>10, <2>1 DEF tag_inc_ref
<1>11. CASE tag_dec_ref(i)
  <2>1. r.u \in Structs /\ obj[r.u].alloc
    BY <1>1, <1>11 DEF tag_dec_ref, At, Shape, Looking, Listing, Filing, Giving, Valid
  <2> QED BY <1>9, <1>11, <2>1 DEF tag_dec_ref
<1>12. CASE Frees(i)
  <2>1. r.u \in Structs
    BY <1>1, <1>12 DEF Frees, At, Shape, Looking, Listing, Filing, Given
  <2> QED BY <1>2, <1>3, <1>12, <2>1 DEF Frees
<1>13. CASE UNCHANGED obj
  BY <1>13 DEF AllPlain
<1> QED BY <1>4, <1>6, <1>7, <1>8, <1>10, <1>11, <1>12, <1>13 DEF Steps, Works, Gets, Loads,
        Tests, Drops, MkdirGets, GetsFile, file_get_or_create, file_add_tag, file_remove_tag,
        EmptyTag, Collects, Unlocks, Strips, Pops, Deletes, tag_list, Sees, NextFile

LEMMA StepsKnown ==
  ASSUME TypesInv, NEW i \in Threads, Steps(i)
  PROVE  \A f \in Files : /\ Known(f) => Known(f)'
                          /\ file_get_or_create(i) \/ files'[f] = files[f]
<1>1. files \in [Files -> 0..MaxCopies]
  BY DEF TypesInv
<1>2. CASE UNCHANGED files
  BY <1>2 DEF Known
<1>3. CASE file_get_or_create(i)
  <2>1. files' = [files EXCEPT ![thread[i].f] = @ + 1]
    BY <1>3 DEF file_get_or_create
  <2>2. \A f \in Files : files[f] \in Nat /\ files'[f] \in {files[f], files[f] + 1}
    BY <1>1, <2>1, BoundsAssumption
  <2> QED BY <1>3, <2>2 DEF Known
<1> QED BY <1>2, <1>3 DEF Steps

(* Between the first access to a ref_count and the last.                   *)
Between == {"inc2", "dec2"} \cup Given

LEMMA RacesAre ==
  /\ "tag added twice" \in Races <=> Len(table) > 1
  /\ "file added twice" \in Races <=> \E f \in Files : files[f] > 1
  /\ "removed in use" \in Races <=> \E s \in Structs : Uses(s) /\ Removes(s)
  /\ "count changed" \in Races <=>
        \E i \in Threads : thread[i].pc \in Between /\ obj[thread[i].u].ref # thread[i].n
  /\ Races = {} <=> {"tag added twice", "file added twice", "removed in use", "count changed"}
                       \cap Races = {}
<1> DEFINE A == Len(table) > 1
           B == \E f \in Files : files[f] > 1
           C == \E s \in Structs : Uses(s) /\ Removes(s)
           D == \E i \in Threads : /\ thread[i].pc \in Counts_now \ {"inc", "dec"}
                                   /\ obj[thread[i].u].ref # thread[i].n
           R(r) == CASE r = "tag added twice"  -> A
                     [] r = "file added twice" -> B
                     [] r = "removed in use"   -> C
                     [] r = "count changed"    -> D
<1>1. Races = {r \in {"tag added twice", "file added twice", "removed in use", "count changed"} :
                  R(r)}
  BY DEF Races
<1>2. D <=> \E i \in Threads : thread[i].pc \in Between /\ obj[thread[i].u].ref # thread[i].n
  <2>1. Counts_now \ {"inc", "dec"} = Between
    BY DEF Counts_now, Between, Given
  <2> QED BY <2>1
<1> HIDE DEF A, B, C, D
<1>3. R("tag added twice") <=> A
  OBVIOUS
<1>4. R("file added twice") <=> B
  OBVIOUS
<1>5. R("removed in use") <=> C
  OBVIOUS
<1>6. R("count changed") <=> D
  OBVIOUS
<1> HIDE DEF R
<1>7. /\ "tag added twice" \in Races <=> A
      /\ "file added twice" \in Races <=> B
      /\ "removed in use" \in Races <=> C
      /\ "count changed" \in Races <=> D
  BY <1>1, <1>3, <1>4, <1>5, <1>6
<1>8. Races = {} <=> {"tag added twice", "file added twice", "removed in use", "count changed"}
                        \cap Races = {}
  BY <1>1
<1> QED BY <1>2, <1>7, <1>8 DEF A, B, C

(* Nothing has gone wrong between threads.                                 *)
LEMMA NoRaces ==
  Races = {} <=> /\ ~(Len(table) > 1)
                 /\ \A f \in Files : ~(files[f] > 1)
                 /\ \A s \in Structs : ~(Uses(s) /\ Removes(s))
                 /\ \A i \in Threads : thread[i].pc \in Between =>
                       obj[thread[i].u].ref = thread[i].n
<1> DEFINE A == "tag added twice" \in Races
           B == "file added twice" \in Races
           C == "removed in use" \in Races
           D == "count changed" \in Races
<1>1. Races = {} <=> ~A /\ ~B /\ ~C /\ ~D
  BY RacesAre
<1>2. /\ A <=> Len(table) > 1
      /\ B <=> \E f \in Files : files[f] > 1
      /\ C <=> \E s \in Structs : Uses(s) /\ Removes(s)
      /\ D <=> \E i \in Threads : thread[i].pc \in Between /\ obj[thread[i].u].ref # thread[i].n
  BY RacesAre
<1> HIDE DEF A, B, C, D
<1> QED BY <1>1, <1>2

LEMMA BootSays ==
  /\ Boot.table = IF DbFiles = {} THEN <<>> ELSE <<1>>
  /\ \A f \in Files : Boot.files[f] = IF f \in DbFiles THEN 1 ELSE 0
  /\ \A g \in FileStructs : Boot.at[g] = IF g \in DbFiles \X {1} THEN 1 ELSE NoTag
  /\ \A s \in Structs : IF DbFiles # {} /\ s = 1
        THEN /\ Boot.obj[s].alloc /\ Boot.obj[s].in_use /\ Boot.obj[s].files = DbFiles \X {1}
             /\ Boot.obj[s].ref = Cardinality(DbFiles)
        ELSE Boot.obj[s] = Freed
<1>1. NoTag # 1
  BY DEF NoTag
<1> DEFINE b == IF DbFiles = {} THEN NoTag ELSE 1
           O == [alloc |-> TRUE, in_use |-> TRUE, files |-> DbFiles \X {1},
                 ref |-> Cardinality(DbFiles)]
<1>2. /\ Boot.table = IF b = 1 THEN <<1>> ELSE <<>>
      /\ Boot.obj = [o \in Structs |-> IF o # b THEN Freed ELSE O]
      /\ Boot.files = [f \in Files |-> IF f \in DbFiles THEN 1 ELSE 0]
      /\ Boot.at = [g \in FileStructs |-> IF g \in DbFiles \X {1} THEN b ELSE NoTag]
  BY DEF Boot, NoTag
<1>3. \A g \in DbFiles \X {1} : DbFiles # {}
  OBVIOUS
<1>4. O.alloc /\ O.in_use /\ O.files = DbFiles \X {1} /\ O.ref = Cardinality(DbFiles)
  OBVIOUS
<1> HIDE DEF O
<1> QED BY <1>1, <1>2, <1>3, <1>4, StructsType

LEMMA BootSInv == Booted => SInv /\ Races = {}
<1> SUFFICES ASSUME Booted PROVE SInv /\ Races = {}
  OBVIOUS
<1>1. \A i \in Threads : thread[i] = Idle /\ Idle.pc = "idle" /\ Idle.req = "none" /\ ~Owes(Idle)
                         /\ Idle.t = NoTag /\ Idle.u = NoTag
  BY IdleType DEF Booted
<1>2. OwersFinite
  <2>1. \A s \in Structs : Owers(s) = {}
    BY <1>1 DEF Owers
  <2> QED BY <2>1, FS_EmptySet DEF OwersFinite
<1>3. OneModifier /\ UnlinksKnown
  BY <1>1 DEF OneModifier, UnlinksKnown, Modifies
<1>4. AllPlain
  <2>1. \A s \in Structs : obj[s] = Freed \/ (obj[s].alloc /\ obj[s].in_use)
    BY BootSays DEF Booted
  <2> QED BY <2>1 DEF AllPlain, Plain, Freed
<1>5. Races = {}
  <2>1. ~(Len(table) > 1)
    BY BootSays DEF Booted
  <2>2. ASSUME NEW s \in Structs, Uses(s)
        PROVE  ~Removes(s)
    <3>1. \E g \in FileStructs : at[g] = s
      BY <1>1, <2>2, StructsType DEF Uses
    <3>2. table = <<1>> /\ s = 1
      BY <3>1, BootSays, StructsType DEF Booted
    <3> QED BY <1>1, <3>2 DEF Removes
  <2>3. \A f \in Files : ~(files[f] > 1)
    BY BootSays DEF Booted
  <2>4. \A i \in Threads : thread[i].pc \notin Between
    BY <1>1 DEF Between, Given
  <2> QED BY <2>1, <2>2, <2>3, <2>4, NoRaces
<1> QED BY <1>2, <1>3, <1>4, <1>5, BootAInv DEF SInv

LEMMA NextSInv == SInv /\ [Next]_vars => SInv'
<1> SUFFICES ASSUME SInv, [Next]_vars PROVE SInv'
  OBVIOUS
<1>1. AInv' /\ AInv
  BY NextAInv DEF SInv
<1>2. CASE UNCHANGED vars
  BY <1>1, <1>2 DEF vars, SInv, OwersFinite, Owers, OneModifier, UnlinksKnown, Known, Modifies,
     AllPlain, Races, Uses, Removes
<1>3. ASSUME NEW i \in Threads, Goes_on(i)
      PROVE  SInv'
  <2>1. Races' \subseteq raced' /\ (Steps(i) \/ UsesFreed(i))
    BY <1>3, RunsSteps DEF Goes_on
  <2>2. CASE Steps(i)
    <3>1. AllPlain'
      BY <2>2, StepsPlain DEF SInv, AInv
    <3>2. OwersFinite'
      BY <2>2, StepsOwers DEF SInv, AInv, OwersFinite
    <3>3. \A j \in Threads : thread'[j].req = thread[j].req \/ thread'[j].req = "none"
      <4>1. Only(i)
        BY <2>2, StepsOnly DEF SInv, AInv
      <4> QED BY <4>1, IdleType DEF Only, Follows
    <3>4. OneModifier'
      BY <3>3 DEF SInv, OneModifier, Modifies
    <3>5. UnlinksKnown'
      <4>1. Only(i)
        BY <2>2, StepsOnly DEF SInv, AInv
      <4> SUFFICES ASSUME NEW j \in Threads, thread'[j].req = "unlink"
                   PROVE  files'[thread'[j].f] > 0
        BY DEF UnlinksKnown, Known
      <4>2. thread[j].req = "unlink" /\ thread'[j].f = thread[j].f
        BY <3>3, <4>1, IdleType DEF Only, Follows
      <4>3. thread[j].f \in Files
        BY <1>1, <4>2, IdleType, RecordType DEF AInv, Shape
      <4>4. files'[thread[j].f] > 0
        BY <2>2, <4>2, <4>3, StepsKnown DEF SInv, AInv, UnlinksKnown, Known
      <4> QED BY <4>2, <4>4
    <3> QED BY <1>1, <2>1, <3>1, <3>2, <3>4, <3>5 DEF SInv
  <2>3. CASE UsesFreed(i)
    BY <1>1, <2>1, <2>3 DEF UsesFreed, SInv, OwersFinite, Owers, OneModifier, UnlinksKnown, Known,
       Modifies, AllPlain
  <2> QED BY <2>1, <2>2, <2>3
<1>4. ASSUME NEW i \in Threads, NEW r \in {"lookup", "list", "link", "unlink"},
             NEW f \in Files \cup {"none"}, Starts(i, r, f), raced' = raced \cup Races'
      PROVE  SInv'
  <2>1. /\ thread[i] = Idle /\ ~Owes(thread'[i]) /\ thread'[i].req = r /\ thread'[i].f = f
        /\ obj' = obj /\ files' = files
        /\ \A j \in Threads : j # i => thread'[j] = thread[j]
    BY <1>1, <1>4, StartsRecord DEF AInv, Reqs
  <2>2. \A s \in Structs : Owers(s)' \subseteq Owers(s)
    BY <2>1 DEF Owers
  <2>3. OwersFinite'
    BY <2>2, FS_Subset DEF SInv, OwersFinite
  <2>4. AllPlain'
    BY <2>1 DEF SInv, AllPlain
  <2>5. OneModifier'
    <3>1. r \in {"lookup", "list"} \/ \A j \in Threads : ~Modifies(j)
      BY <1>4 DEF Starts
    <3> QED BY <2>1, <3>1 DEF SInv, OneModifier, Modifies
  <2>6. UnlinksKnown'
    <3>1. r = "unlink" => Known(f)
      BY <1>4 DEF Starts
    <3> QED BY <2>1, <3>1 DEF SInv, UnlinksKnown, Known
  <2> QED BY <1>1, <1>4, <2>3, <2>4, <2>5, <2>6 DEF SInv
<1>5. CASE Restart
  <2>1. Booted' => SInv'
    BY BootSInv, PTL
  <2> QED BY <1>5, <2>1, RestartBooted
<1> QED BY <1>2, <1>3, <1>4, <1>5 DEF Next

LEMMA AlwaysSInv == Spec => []SInv
<1>1. Init => SInv
  BY InitBooted, BootSInv
<1> QED BY <1>1, NextSInv, PTL DEF Spec

------------------------------------------------------------------------------
(* While nothing has gone wrong between threads.                           *)
Wanted(s) == \/ obj[s].in_use
             \/ \E i \in Threads : thread[i].pc = "mkdir" /\ thread[i].t = s

(* A count for each request that has one to give back, and one for the tag *)
(* in use, or about to be.                                                 *)
Backed(s) == /\ obj[s].ref >= Cardinality(Owers(s))
             /\ Wanted(s) => obj[s].ref > Cardinality(Owers(s))

(* A link finds its tag in use once it has made the directory, an unlink   *)
(* once it has taken the file off; a tag is removed when it has no files.  *)
LinkClean(i) == LET r == thread[i] IN r.req = "link" =>
    /\ r.pc \notin {"mkget", "mkadd"} \cup Removing \cup Giving \cup Given
    /\ r.pc \in {"fget", "fadd", "tag_f", "tag_t", "del"} => obj[r.t].in_use
    /\ r.pc = "tag_t" => at[r.g] = r.t
UnlinkClean(i) == LET r == thread[i] IN r.req = "unlink" =>
    /\ r.pc \notin {"get2", "add"}
    /\ r.pc = "get" => at[<<r.f, 1>>] # NoTag
    /\ r.pc \in Counting \cup {"fget", "untag_f"} => at[<<r.f, 1>>] = r.t
    /\ r.pc = "untag_t" => at[r.g] = NoTag
    /\ r.pc \in {"untag_t", "empty", "del"} \cup Removing \cup Giving \cup Given => obj[r.t].in_use
    /\ r.pc \in Removing \cup Giving \cup Given => r.then = "del"
RemoveClean(i) == LET r == thread[i] IN
    /\ r.pc \in Counting => r.then = Body(r.req)
    /\ r.pc \in {"tag_f", "tag_t", "untag_f", "untag_t"} => r.g = <<r.f, 1>>
    /\ r.pc \in Removing \cup {"pop"} => obj[r.t].files = {}
    /\ r.pc \in {"unlock", "strip"} => r.todo = {}
    /\ r.pc \in {"dec", "dec2"} \cup Given => Found # r.t
    /\ r.pc \in Given => obj[r.t].alloc
    /\ r.pc \in {"zero", "free"} => r.n = 0
ThreadClean(i) == LinkClean(i) /\ UnlinkClean(i) /\ RemoveClean(i)

(* One thread at a time is past the store of a decrement of a struct; only *)
(* the first struct of a file has tags.                                    *)
OneGivesBack == \A i, j \in Threads :
    thread[i].pc \in Given /\ thread[j].pc \in Given /\ thread[i].t = thread[j].t => i = j
OnlyFirst == \A g \in FileStructs :
    at[g] # NoTag \/ (\E s \in Structs : g \in obj[s].files) => g[2] = 1

(* Files and structs agree but on what a link or an unlink is about.       *)
PairClean(s, g) ==
    /\ g \in obj[s].files =>
          \/ at[g] = s
          \/ \E i \in Threads : /\ thread[i].pc = "untag_t"
                                /\ thread[i].g = g /\ thread[i].t = s
    /\ at[g] = s => /\ obj[s].in_use
                    /\ \/ g \in obj[s].files
                       \/ \E i \in Threads : /\ thread[i].pc = "tag_t"
                                             /\ thread[i].g = g /\ thread[i].t = s

Clean == /\ ~bad
         /\ Found # NoTag => Valid(Found)
         /\ \A s \in Structs : Backed(s)
         /\ \A i \in Threads : ThreadClean(i)
         /\ OneGivesBack /\ OnlyFirst
         /\ \A s \in Structs : \A g \in FileStructs : PairClean(s, g)

CleanInv == SInv /\ (raced = {} => Clean)

LEMMA UsedIsFound ==
  ASSUME TypesInv, Races = {}, NEW s \in Structs, Uses(s)
  PROVE  /\ table = <<s>> /\ Found = s
         /\ \A i \in Threads : thread[i].t = s => thread[i].pc \notin Removing \cup {"pop"}
<1>1. ~Removes(s) /\ ~(Len(table) > 1)
  BY NoRaces
<1>2. PICK k \in DOMAIN table : table[k] = s
  BY <1>1 DEF Removes
<1>3. Len(table) = 1 /\ table[1] = s
  <2>1. table \in Seq(Structs) /\ Len(table) \in Nat /\ k \in 1..Len(table)
    BY <1>2 DEF TypesInv
  <2>2. \A n \in Nat : \A m \in 1..n : ~(n > 1) => n = 1 /\ m = 1
    OBVIOUS
  <2>3. k = 1 /\ Len(table) = 1
    BY <1>1, <2>1, <2>2
  <2> QED BY <1>2, <2>3
<1>4. table = <<s>>
  BY <1>3 DEF TypesInv
<1>5. Found = s
  BY <1>3, <1>4 DEF Found
<1>6. \A i \in Threads : thread[i].t = s => thread[i].pc \notin Removing \cup {"pop"}
  BY <1>1 DEF Removes, Removing
<1> QED BY <1>4, <1>5, <1>6

(* A file that is known has one struct.                                    *)
LEMMA NewestIsFirst ==
  ASSUME TypesInv, Races = {}, NEW f \in Files, Known(f)
  PROVE  Newest(f) = <<f, 1>> /\ Newest(f) \in FileStructs
<1>1. files[f] \in Nat /\ files[f] > 0 /\ ~(files[f] > 1)
  BY NoRaces, BoundsAssumption DEF TypesInv, Known
<1>2. files[f] = 1
  BY <1>1
<1> QED BY <1>2, StructsType DEF Newest

LEMMA GoesFields ==
  ASSUME TypesInv, NEW i \in Threads, NEW pc, Goes(i, pc)
  PROVE  /\ thread'[i].pc = pc /\ thread'[i].req = thread[i].req /\ thread'[i].f = thread[i].f
         /\ thread'[i].t = thread[i].t /\ thread'[i].todo = thread[i].todo
         /\ thread'[i].then = thread[i].then /\ thread'[i].u = thread[i].u
         /\ thread'[i].g = thread[i].g /\ thread'[i].n = thread[i].n
         /\ \A j \in Threads : j # i => thread'[j] = thread[j]
<1>1. thread \in [Threads -> Record] /\ thread[i] \in Record
  BY DEF TypesInv
<1> QED BY <1>1 DEF Goes, Record

(* What the others do to a thread that does nothing.                       *)
Spared(j) == LET t == thread[j].t IN t \in Structs =>
    /\ obj[t].in_use => obj'[t].in_use
    /\ thread[j].pc \in Removing \cup {"pop"} => (obj[t].files = {} => obj'[t].files = {})
    /\ thread[j].pc \in {"dec", "dec2"} \cup Given => (Found # t => Found' # t)
    /\ thread[j].pc \in Given => (obj[t].alloc => obj'[t].alloc)

LEMMA HasStruct ==
  ASSUME NEW r \in Record, Shape(r)
  PROVE  /\ r.pc \in Counting \cup Linking \cup Unlinking \cup Removing \cup Giving \cup Given
              \cup {"del"} => r.t \in Structs
         /\ r.req \in {"link", "unlink"} =>
               /\ r.f \in Files
               /\ r.pc \notin Looking => r.t \in Structs
<1>1. r.req # "none" => r.pc # "idle"
  BY IdleType DEF Shape
<1> QED BY <1>1 DEF Shape, Looking, Counting, Filing, Linking, Unlinking, Removing, Giving, Given,
        Listing

LEMMA OthersClean ==
  ASSUME TypesInv, NEW j \in Threads, ThreadClean(j), thread'[j] = thread[j],
         Modifies(j) => UNCHANGED at, Spared(j)
  PROVE  ThreadClean(j)'
<1>1. thread[j] \in Record /\ Shape(thread[j])
  BY RecordType
<1>2. /\ thread[j].pc \in Counting \cup Linking \cup Unlinking \cup Removing \cup Giving \cup Given
              \cup {"del"} => thread[j].t \in Structs
      /\ Modifies(j) /\ thread[j].pc \notin Looking => thread[j].t \in Structs
  BY <1>1, HasStruct DEF Modifies
<1>3. LinkClean(j)'
  BY <1>2 DEF ThreadClean, LinkClean, Modifies, Looking, Spared
<1>4. UnlinkClean(j)'
  BY <1>2 DEF ThreadClean, UnlinkClean, Modifies, Looking, Unlinking, Removing, Giving, Given,
     Spared
<1>5. RemoveClean(j)'
  BY <1>2 DEF ThreadClean, RemoveClean, Looking, Removing, Giving, Given, Spared
<1> QED BY <1>3, <1>4, <1>5 DEF ThreadClean

(* A step that changes no table of tags: the thread's own part is what     *)
(* remains.                                                                *)
LEMMA QuietClean ==
  ASSUME SInv, Clean, NEW i \in Threads, Steps(i), UNCHANGED <<table, obj, at, bad>>,
         thread[i].pc \notin {"inc2", "tag_t", "untag_t"}, thread'[i].pc # "mkdir",
         thread'[i].pc \in Given => thread[i].pc \in Given /\ thread'[i].t = thread[i].t,
         ThreadClean(i)'
  PROVE  Clean'
<1>1. TypesInv /\ Only(i)
  BY StepsOnly DEF SInv, AInv
<1>2. Found' = Found
  BY DEF Found
<1>3. ASSUME NEW j \in Threads
      PROVE  ThreadClean(j)'
  <2>1. CASE j # i
    <3>1. ThreadClean(j) /\ thread'[j] = thread[j]
      BY <1>1, <2>1 DEF Clean, Only
    <3> QED BY <1>1, <1>2, <3>1, OthersClean DEF Spared
  <2> QED BY <2>1
<1>4. ASSUME NEW s \in Structs
      PROVE  Backed(s)'
  <2>1. /\ Cardinality(Owers(s)') <= Cardinality(Owers(s))
        /\ Cardinality(Owers(s)') \in Nat /\ Cardinality(Owers(s)) \in Nat
    BY <1>1, StepsOwers DEF SInv
  <2>2. Wanted(s)' => Wanted(s)
    BY <1>1 DEF Wanted, Only
  <2>3. Backed(s) /\ obj[s].ref \in Int
    BY DEF Clean, SInv, AInv, TypesInv, Object
  <2> QED BY <2>1, <2>2, <2>3 DEF Backed
<1>5. ASSUME NEW s \in Structs, NEW g \in FileStructs
      PROVE  PairClean(s, g)'
  <2>1. PairClean(s, g)
    BY DEF Clean
  <2>2. ASSUME NEW j \in Threads, thread[j].pc \in {"tag_t", "untag_t"}
        PROVE  thread'[j] = thread[j]
    BY <1>1, <2>2 DEF Only
  <2> QED BY <2>1, <2>2 DEF PairClean
<1>6. OneGivesBack'
  <2>1. \A j \in Threads : thread'[j].pc \in Given =>
                              thread[j].pc \in Given /\ thread'[j].t = thread[j].t
    BY <1>1 DEF Only
  <2> QED BY <2>1 DEF Clean, OneGivesBack
<1>7. OnlyFirst'
  BY DEF Clean, OnlyFirst
<1> QED BY <1>2, <1>3, <1>4, <1>5, <1>6, <1>7 DEF Clean, Valid

(* The steps that change no table of tags.                                 *)
Quiet(i) == \/ Gets(i, "get", "get2") \/ Gets(i, "get2", "add")
            \/ Loads(i, "inc", "inc2") \/ Loads(i, "dec", "dec2") \/ Tests(i) \/ MkdirGets(i)
            \/ EmptyTag(i) \/ Collects(i) \/ Unlocks(i) \/ Strips(i) \/ Deletes(i)
            \/ GetsFile(i) \/ file_get_or_create(i)
            \/ tag_list(i) \/ Sees(i) \/ NextFile(i)

LEMMA IdleClean ==
  ASSUME NEW i \in Threads, thread'[i] = Idle
  PROVE  ThreadClean(i)'
BY IdleType DEF ThreadClean, LinkClean, UnlinkClean, RemoveClean, Counting, Removing, Given

LEMMA QuietOwn ==
  ASSUME SInv, Races = {}, Clean, NEW i \in Threads, Steps(i), Quiet(i)
  PROVE  /\ UNCHANGED <<table, obj, at, bad>> /\ ThreadClean(i)' /\ thread'[i].pc # "mkdir"
         /\ thread[i].pc \notin {"inc2", "tag_t", "untag_t"}
         /\ thread'[i].pc \in Given => thread[i].pc \in Given /\ thread'[i].t = thread[i].t
<1> DEFINE r == thread[i]
           q == thread'[i]
           Goal == /\ UNCHANGED <<table, obj, at, bad>> /\ ThreadClean(i)'
                   /\ q.pc # "mkdir" /\ r.pc \notin {"inc2", "tag_t", "untag_t"}
                   /\ q.pc \in Given => r.pc \in Given /\ q.t = r.t
<1> SUFFICES Goal
  OBVIOUS
<1>1. /\ TypesInv /\ r \in Record /\ Shape(r) /\ LinkClean(i) /\ UnlinkClean(i) /\ RemoveClean(i)
      /\ thread \in [Threads -> Record]
  BY RecordType DEF SInv, AInv, Clean, ThreadClean, TypesInv
<1>2. ASSUME Gets(i, "get", "get2") \/ Gets(i, "get2", "add")
      PROVE  Goal
  <2>1. UNCHANGED <<table, obj, at, bad>> /\ r.pc \in {"get", "get2"}
    BY <1>2 DEF Gets, At
  <2>2. r.req \in {"lookup", "link", "unlink"} /\ r.f \in Files
    BY <1>1, <2>1 DEF Shape, Reqs, Listing, Filing
  <2>3. r.req = "unlink" => at[<<r.f, 1>>] # NoTag /\ at[<<r.f, 1>>] = Found
    <3>1. ASSUME r.req = "unlink"
          PROVE  at[<<r.f, 1>>] # NoTag /\ at[<<r.f, 1>>] = Found
      <4>1. at[<<r.f, 1>>] # NoTag /\ <<r.f, 1>> \in FileStructs
        BY <1>1, <2>1, <2>2, <3>1, StructsType DEF UnlinkClean
      <4>2. at[<<r.f, 1>>] \in Structs /\ Uses(at[<<r.f, 1>>])
        BY <1>1, <4>1 DEF TypesInv, Uses
      <4> QED BY <1>1, <4>1, <4>2, UsedIsFound
    <3> QED BY <3>1
  <2>4. CASE Found = NoTag
    <3>1. q.pc \in {"get2", "add"} /\ q.req = r.req
      BY <1>1, <1>2, <2>4 DEF Gets, Record
    <3>2. ThreadClean(i)'
      BY <2>3, <2>4, <3>1 DEF ThreadClean, LinkClean, UnlinkClean, RemoveClean, Counting, Removing,
         Giving, Given
    <3> QED BY <2>1, <3>1, <3>2 DEF Given
  <2>5. CASE Found # NoTag
    <3>1. /\ q.pc = "inc" /\ q.req = r.req /\ q.f = r.f /\ q.t = Found /\ q.then = Body(r.req)
      BY <1>1, <1>2, <2>5 DEF Gets, Record
    <3>2. ThreadClean(i)'
      BY <2>1, <2>3, <3>1 DEF ThreadClean, LinkClean, UnlinkClean, RemoveClean,
         Counting, Removing, Giving, Given
    <3> QED BY <2>1, <3>1, <3>2 DEF Given
  <2> QED BY <2>4, <2>5
<1>3. ASSUME Loads(i, "inc", "inc2") \/ Loads(i, "dec", "dec2")
      PROVE  Goal
  <2>1. UNCHANGED <<table, obj, at, bad>> /\ Found' = Found
    BY <1>3 DEF Loads, Found
  <2>2. /\ \/ r.pc = "inc" /\ q.pc = "inc2"
           \/ r.pc = "dec" /\ q.pc = "dec2"
        /\ q.req = r.req /\ q.f = r.f /\ q.t = r.t /\ q.then = r.then
    BY <1>1, <1>3 DEF Loads, At, Record
  <2>3. ThreadClean(i)'
    BY <1>1, <2>1, <2>2 DEF ThreadClean, LinkClean, UnlinkClean, RemoveClean, Counting, Removing,
       Giving, Given
  <2> QED BY <2>1, <2>2, <2>3 DEF Given
<1>4. ASSUME Tests(i)
      PROVE  Goal
  <2>1. UNCHANGED <<table, obj, at, bad>> /\ Found' = Found /\ r.pc = "test"
    BY <1>4 DEF Tests, At, Found
  <2>2. r.u = r.t /\ obj[r.u].ref = r.n
    BY <1>1, <2>1, NoRaces DEF Shape, Given, Between
  <2>3. PICK n \in {r.n, obj[r.u].ref} : IF n = 0 THEN Goes(i, "zero") ELSE Counted(i)
    BY <1>4 DEF Tests
  <2>4. IF r.n = 0 THEN Goes(i, "zero") ELSE Counted(i)
    BY <2>2, <2>3
  <2>5. CASE r.n = 0
    <3>1. q.pc = "zero" /\ q.req = r.req /\ q.t = r.t /\ q.then = r.then /\ q.n = 0
      BY <1>1, <2>4, <2>5, GoesFields
    <3>2. ThreadClean(i)'
      BY <1>1, <2>1, <3>1 DEF ThreadClean, LinkClean, UnlinkClean, RemoveClean, Counting,
         Removing, Giving, Given
    <3> QED BY <2>1, <3>1, <3>2 DEF Given
  <2>6. CASE r.n # 0 /\ r.then = "idle"
    <3>1. q = Idle
      BY <1>1, <2>4, <2>6 DEF Counted
    <3> QED BY <2>1, <3>1, IdleClean, IdleType DEF Given
  <2>7. CASE r.n # 0 /\ r.then # "idle"
    <3>1. r.then = "del" /\ r.req = "unlink"
      BY <1>1, <2>1, <2>7 DEF Shape, Given
    <3>2. thread' = [thread EXCEPT ![i] =
                       [r EXCEPT !.pc = r.then, !.u = NoTag, !.n = 0, !.then = "idle"]]
      BY <2>4, <2>7 DEF Counted
    <3>4. q.pc = "del" /\ q.req = r.req /\ q.t = r.t
      <4> HIDE DEF r
      <4> QED BY <1>1, <3>1, <3>2 DEF Record
    <3>3. ThreadClean(i)'
      BY <1>1, <2>1, <3>1, <3>4 DEF ThreadClean, LinkClean, UnlinkClean, RemoveClean, Counting,
         Removing, Giving, Given
    <3> QED BY <2>1, <3>3, <3>4 DEF Given
  <2> QED BY <2>5, <2>6, <2>7
<1>5. ASSUME MkdirGets(i)
      PROVE  Goal
  <2>1. r.pc = "mkget"
    BY <1>5 DEF MkdirGets, At
  <2> QED BY <1>1, <2>1 DEF Shape, Linking, LinkClean
<1>6. ASSUME EmptyTag(i)
      PROVE  Goal
  <2>1. UNCHANGED <<table, obj, at, bad>> /\ r.pc = "empty" /\ r.req = "unlink"
    BY <1>1, <1>6 DEF EmptyTag, At, Shape, Unlinking
  <2>2. /\ q.pc = IF obj[r.t].files = {} THEN "collect" ELSE "del"
        /\ q.req = r.req /\ q.t = r.t /\ q.then = "del"
    BY <1>1, <1>6 DEF EmptyTag, Record
  <2>3. ThreadClean(i)'
    BY <1>1, <2>1, <2>2 DEF ThreadClean, LinkClean, UnlinkClean, RemoveClean, Counting, Removing,
       Giving, Given
  <2> QED BY <2>1, <2>2, <2>3 DEF Given
<1>7. ASSUME Collects(i)
      PROVE  Goal
  <2>1. UNCHANGED <<table, obj, at, bad>> /\ r.pc = "collect"
    BY <1>7 DEF Collects, At
  <2>2. /\ q.pc = "unlock" /\ q.todo = obj[r.t].files
        /\ q.req = r.req /\ q.t = r.t /\ q.then = r.then
    BY <1>1, <1>7 DEF Collects, Record
  <2>3. ThreadClean(i)'
    BY <1>1, <2>1, <2>2 DEF ThreadClean, LinkClean, UnlinkClean, RemoveClean, Counting, Removing,
       Giving, Given
  <2> QED BY <2>1, <2>2, <2>3 DEF Given
<1>8. ASSUME Unlocks(i)
      PROVE  Goal
  <2>1. UNCHANGED <<table, obj, at, bad>> /\ r.pc = "unlock" /\ Goes(i, "strip")
    BY <1>8 DEF Unlocks, At
  <2>2. /\ q.pc = "strip" /\ q.todo = r.todo /\ q.req = r.req /\ q.t = r.t /\ q.then = r.then
    BY <1>1, <2>1, GoesFields
  <2>3. ThreadClean(i)'
    BY <1>1, <2>1, <2>2 DEF ThreadClean, LinkClean, UnlinkClean, RemoveClean, Counting, Removing,
       Giving, Given
  <2> QED BY <2>1, <2>2, <2>3 DEF Given
<1>9. ASSUME Strips(i)
      PROVE  Goal
  <2>1. r.pc = "strip" /\ r.todo = {} /\ UNCHANGED <<table, obj, bad>>
    BY <1>1, <1>9 DEF Strips, At, RemoveClean
  <2>2. UNCHANGED at /\ Counts(i, r.t, "pop", r.then)
    BY <1>9, <2>1 DEF Strips
  <2>3. /\ q.pc = "pop" /\ q.req = r.req /\ q.t = r.t /\ q.then = r.then
    BY <1>1, <2>2 DEF Counts, Record
  <2>4. ThreadClean(i)'
    BY <1>1, <2>1, <2>3 DEF ThreadClean, LinkClean, UnlinkClean, RemoveClean, Counting, Removing,
       Giving, Given
  <2> QED BY <2>1, <2>2, <2>3, <2>4 DEF Given
<1>10. ASSUME Deletes(i)
       PROVE  Goal
  <2>1. UNCHANGED <<table, obj, at, bad>> /\ r.pc = "del"
    BY <1>10 DEF Deletes, At
  <2>2. CASE obj[r.t].in_use
    <3>1. q = Idle
      BY <1>1, <1>10, <2>2 DEF Deletes
    <3> QED BY <2>1, <3>1, IdleClean, IdleType DEF Given
  <2>3. CASE ~obj[r.t].in_use
    <3>1. q.pc = "collect" /\ q.req = r.req /\ q.t = r.t
      BY <1>1, <1>10, <2>3 DEF Deletes, Record
    <3>2. r.req \notin {"link", "unlink"} /\ r.t \in Structs
      BY <1>1, <2>1, <2>3, HasStruct DEF LinkClean, UnlinkClean
    <3>3. obj[r.t].files = {}
      BY <2>3, <3>2 DEF SInv, AllPlain, Plain
    <3>4. ThreadClean(i)'
      BY <2>1, <3>1, <3>2, <3>3 DEF ThreadClean, LinkClean, UnlinkClean, RemoveClean, Counting,
         Given, Removing
    <3> QED BY <2>1, <3>1, <3>4 DEF Given
  <2> QED BY <2>2, <2>3
<1>11. ASSUME GetsFile(i)
       PROVE  Goal
  <2>1. /\ UNCHANGED <<table, obj, at, bad>> /\ r.pc = "fget" /\ r.f \in Files /\ r.req \in Reqs
    BY <1>1, <1>11 DEF GetsFile, At, Shape, Filing
  <2>2. CASE ~Known(r.f)
    <3>1. r.req # "unlink"
      BY <2>2 DEF SInv, UnlinksKnown
    <3>2. q.pc = "fadd" /\ q.req = r.req /\ q.t = r.t
      BY <1>1, <1>11, <2>2, <3>1 DEF GetsFile, Record
    <3>3. ThreadClean(i)'
      BY <1>1, <2>1, <3>1, <3>2 DEF ThreadClean, LinkClean, UnlinkClean, RemoveClean, Counting,
         Removing, Giving, Given
    <3> QED BY <2>1, <3>2, <3>3 DEF Given
  <2>3. CASE Known(r.f)
    <3> DEFINE g == IF Modifies(i) THEN Newest(r.f) ELSE NoFile
    <3>1. /\ q.pc = With(r.req) /\ q.req = r.req /\ q.t = r.t /\ q.f = r.f /\ q.g = g
      BY <1>1, <1>11, <2>3 DEF GetsFile, Record
    <3>2. r.req \in {"link", "unlink"} => q.g = <<r.f, 1>>
      BY <1>1, <2>1, <2>3, <3>1, NewestIsFirst DEF Modifies
    <3>3. q.pc \in {"del", "tag_f", "untag_f", "next"}
      BY <2>1, <3>1, WithType DEF Reqs
    <3>4. LinkClean(i)' /\ UnlinkClean(i)'
      BY <1>1, <2>1, <3>1, <3>3, WithType DEF LinkClean, UnlinkClean, Counting,
         Removing, Giving, Given
    <3>5. RemoveClean(i)'
      BY <1>1, <2>1, <3>1, <3>2, <3>3, WithType DEF Reqs, RemoveClean, Counting,
         Removing, Giving, Given
    <3> QED BY <2>1, <3>3, <3>4, <3>5 DEF Given, ThreadClean
  <2> QED BY <2>2, <2>3
<1>12. ASSUME file_get_or_create(i)
       PROVE  Goal
  <2>1. /\ UNCHANGED <<table, obj, at, bad>> /\ r.pc = "fadd" /\ r.req \in Reqs
        /\ r.req # "unlink"
    BY <1>1, <1>12 DEF file_get_or_create, At, Shape
  <2>2. /\ q.pc = IF r.req = "link" THEN "fget" ELSE With(r.req)
        /\ q.req = r.req /\ q.t = r.t /\ q.f = r.f
    <3>1. Goes(i, IF r.req = "link" THEN "fget" ELSE With(r.req))
      BY <1>12 DEF file_get_or_create
    <3> QED BY <1>1, <3>1, GoesFields
  <2>3. q.pc \in {"fget", "del", "next"}
    BY <2>1, <2>2, WithType DEF Reqs
  <2>4. ThreadClean(i)'
    BY <1>1, <2>1, <2>2, <2>3, WithType DEF ThreadClean, LinkClean, UnlinkClean, RemoveClean,
       Counting, Removing, Giving, Given
  <2> QED BY <2>1, <2>3, <2>4 DEF Given
<1>13. ASSUME tag_list(i) \/ Sees(i) \/ NextFile(i)
       PROVE  Goal
  <2>1. UNCHANGED <<table, obj, at, bad>> /\ r.pc \in Listing
    BY <1>13 DEF tag_list, Sees, NextFile, At, Listing
  <2>2. r.req = "list"
    BY <1>1, <2>1 DEF Shape
  <2>3. \/ q = Idle
        \/ q.pc \in Listing \cup Filing /\ q.req = "list"
    <3>1. q \in Record /\ Shape(q) /\ (q = Idle \/ q.req = r.req)
      BY <1>1, StepsOnly DEF Only, Follows
    <3> QED BY <2>2, <3>1 DEF Shape
  <2>4. ThreadClean(i)'
    BY <2>3, IdleClean DEF ThreadClean, LinkClean, UnlinkClean, RemoveClean,
       Counting, Removing, Giving, Given, Listing, Filing
  <2> QED BY <2>1, <2>3, <2>4, IdleType DEF Given, Listing, Filing
<1> QED BY <1>2, <1>3, <1>4, <1>5, <1>6, <1>7, <1>8, <1>9, <1>10, <1>11, <1>12, <1>13 DEF Quiet


(* Races, after a step.                                                    *)
LEMMA NoRacesNext ==
  Races' = {} => \A j \in Threads : thread'[j].pc \in Between =>
                    obj'[thread'[j].u].ref = thread'[j].n
<1>1. Races = {} => \A j \in Threads : thread[j].pc \in Between => obj[thread[j].u].ref = thread[j].n
  BY NoRaces
<1>2. (Races = {})' => (\A j \in Threads : thread[j].pc \in Between =>
                            obj[thread[j].u].ref = thread[j].n)'
  BY <1>1, PTL
<1> QED BY <1>2

(* What a step needs to show, the threads' own parts aside.                *)
LEMMA BackedKept ==
  ASSUME SInv, Clean, NEW i \in Threads, Steps(i), NEW s \in Structs,
         obj'[s].ref = obj[s].ref, Wanted(s)' => Wanted(s),
         ~(thread[i].pc = "inc2" /\ thread[i].t = s)
  PROVE  Backed(s)'
<1>1. /\ Cardinality(Owers(s)') <= Cardinality(Owers(s))
      /\ Cardinality(Owers(s)') \in Nat /\ Cardinality(Owers(s)) \in Nat
  BY StepsOwers DEF SInv, AInv
<1>2. Backed(s) /\ obj[s].ref \in Int
  BY DEF Clean, SInv, AInv, TypesInv, Object
<1> QED BY <1>1, <1>2 DEF Backed

(* The steps of a link or an unlink that change one index.  No table of    *)
(* names, no count and no struct in use is lost; another thread is not     *)
(* about the same file, nor removing the struct.                           *)
LEMMA IndexClean ==
  ASSUME SInv, Races = {}, Clean, NEW i \in Threads, Steps(i), UNCHANGED <<table, bad>>,
         Modifies(i), thread[i].pc \notin {"inc2"}, thread[i].t \in Structs,
         thread'[i].pc \notin Given,
         \A s \in Structs : /\ obj'[s].ref = obj[s].ref /\ obj'[s].alloc = obj[s].alloc
                            /\ obj[s].in_use => obj'[s].in_use
                            /\ Wanted(s)' => Wanted(s)
                            /\ s # thread[i].t \/ ~Uses(s) => obj'[s].files \subseteq obj[s].files,
         ThreadClean(i)', OnlyFirst',
         \A s \in Structs : \A g \in FileStructs : PairClean(s, g)'
  PROVE  Clean'
<1>1. TypesInv /\ Only(i)
  BY StepsOnly DEF SInv, AInv
<1>2. Found' = Found
  BY DEF Found
<1>3. ASSUME NEW j \in Threads
      PROVE  ThreadClean(j)'
  <2>1. CASE j # i
    <3>1. ThreadClean(j) /\ thread'[j] = thread[j]
      BY <1>1, <2>1 DEF Clean, Only
    <3>2. ~Modifies(j)
      BY <2>1 DEF SInv, OneModifier
    <3>3. Spared(j)
      <4> SUFFICES ASSUME thread[j].t \in Structs
                   PROVE  /\ obj[thread[j].t].in_use => obj'[thread[j].t].in_use
                          /\ thread[j].pc \in Removing \cup {"pop"} =>
                                (obj[thread[j].t].files = {} => obj'[thread[j].t].files = {})
        BY <1>2 DEF Spared
      <4>1. ASSUME thread[j].pc \in Removing \cup {"pop"}, obj[thread[j].t].files = {}
            PROVE  obj'[thread[j].t].files = {}
        <5>1. ~Uses(thread[j].t)
          BY <1>1, <4>1, UsedIsFound
        <5> QED BY <4>1, <5>1
      <4> QED BY <4>1
    <3> QED BY <1>1, <3>1, <3>2, <3>3, OthersClean
  <2> QED BY <2>1
<1>4. ASSUME NEW s \in Structs
      PROVE  Backed(s)'
  BY BackedKept
<1>5. Found' # NoTag => Valid(Found)'
  BY <1>1, <1>2, FoundType DEF Clean, Valid, TypesInv
<1>6. OneGivesBack'
  BY <1>1 DEF Clean, OneGivesBack, Only
<1> QED BY <1>3, <1>4, <1>5, <1>6 DEF Clean

(* The first struct of the file is the only one, and so is its place in    *)
(* the table of a tag.                                                     *)
LEMMA NamedIsFirst ==
  ASSUME TypesInv, OnlyFirst, NEW f \in Files, NEW s \in Structs
  PROVE  /\ <<f, 1>> \in Named(f)
         /\ \A g \in obj[s].files : g \in Named(f) <=> g = <<f, 1>>
<1>1. \A g \in obj[s].files : g \in FileStructs /\ g[2] = 1
  BY DEF TypesInv, Object, OnlyFirst
<1> QED BY <1>1, BoundsAssumption DEF Named, FileStructs

LEMMA FileAddClean ==
  ASSUME SInv, Races = {}, Clean, NEW i \in Threads, Steps(i), file_add_tag(i)
  PROVE  Clean'
<1> DEFINE r == thread[i]
<1>1. /\ TypesInv /\ r \in Record /\ Shape(r) /\ LinkClean(i) /\ RemoveClean(i)
      /\ at \in [FileStructs -> Structs \cup {NoTag}]
  BY RecordType DEF SInv, AInv, Clean, ThreadClean, TypesInv
<1>2. /\ r.pc = "tag_f" /\ Goes(i, "tag_t") /\ UNCHANGED <<table, obj, bad>>
      /\ at' = [at EXCEPT ![r.g] = IF @ = NoTag THEN r.t ELSE @]
  BY DEF file_add_tag, At
<1>3. /\ r.req = "link" /\ r.t \in Structs /\ obj[r.t].in_use
      /\ r.g \in FileStructs /\ r.g = <<r.f, 1>>
  BY <1>1, <1>2, HasStruct DEF Shape, LinkClean, RemoveClean, Linking
<1>4. /\ thread'[i].pc = "tag_t" /\ thread'[i].req = "link" /\ thread'[i].f = r.f
      /\ thread'[i].t = r.t /\ thread'[i].g = r.g
      /\ \A j \in Threads : j # i => thread'[j] = thread[j]
  BY <1>1, <1>2, <1>3, GoesFields
<1>5. at[r.g] # NoTag => at[r.g] = r.t
  <2>1. Uses(r.t)
    BY <1>3 DEF Uses
  <2>2. at[r.g] # NoTag => at[r.g] \in Structs /\ Uses(at[r.g])
    BY <1>1, <1>3 DEF Uses
  <2> QED BY <1>1, <1>3, <2>1, <2>2, UsedIsFound
<1>6. at'[r.g] = r.t /\ \A g \in FileStructs : g # r.g => at'[g] = at[g]
  BY <1>1, <1>2, <1>3, <1>5
<1>7. ThreadClean(i)'
  BY <1>2, <1>3, <1>4, <1>6 DEF ThreadClean, LinkClean, UnlinkClean, RemoveClean, Counting,
     Removing, Giving, Given
<1>8. ASSUME NEW s \in Structs, NEW g \in FileStructs
      PROVE  PairClean(s, g)'
  <2>1. PairClean(s, g)
    BY DEF Clean
  <2>2. ASSUME NEW j \in Threads, thread[j].pc \in {"tag_t", "untag_t"}
        PROVE  thread'[j] = thread[j]
    BY <1>2, <1>4, <2>2
  <2>3. at[g] = s => at'[g] = s
    BY <1>5, <1>6, StructsType
  <2>4. at'[g] = s => at[g] = s \/ (g = r.g /\ s = r.t)
    BY <1>6
  <2> QED BY <1>2, <1>3, <1>4, <2>1, <2>2, <2>3, <2>4 DEF PairClean
<1>9. \A s \in Structs : Wanted(s)' => Wanted(s)
  BY <1>2, <1>4 DEF Wanted
<1>10. Modifies(i) /\ thread'[i].pc \notin Given
  BY <1>3, <1>4 DEF Modifies, Given
<1>11. OnlyFirst'
  BY <1>2, <1>3, <1>6 DEF Clean, OnlyFirst
<1> QED BY <1>2, <1>3, <1>7, <1>8, <1>9, <1>10, <1>11, IndexClean

LEMMA TagAddClean ==
  ASSUME SInv, Races = {}, Clean, NEW i \in Threads, Steps(i), tag_add_file(i)
  PROVE  Clean'
<1> DEFINE r == thread[i]
           F == IF obj[r.t].files \cap Named(r.f) = {} THEN obj[r.t].files \cup {r.g}
                ELSE obj[r.t].files
<1>1. /\ TypesInv /\ r \in Record /\ Shape(r) /\ LinkClean(i) /\ RemoveClean(i)
      /\ obj \in [Structs -> Object]
  BY RecordType DEF SInv, AInv, Clean, ThreadClean, TypesInv
<1>2. /\ r.pc = "tag_t" /\ Goes(i, "del") /\ UNCHANGED <<table, at, bad>>
      /\ obj' = [obj EXCEPT ![r.t] = [obj[r.t] EXCEPT !.in_use = TRUE, !.files = F]]
  BY DEF tag_add_file, At
<1>3. /\ r.req = "link" /\ r.f \in Files /\ r.t \in Structs /\ obj[r.t].in_use
      /\ r.g \in FileStructs /\ r.g = <<r.f, 1>> /\ at[r.g] = r.t
  BY <1>1, <1>2, HasStruct DEF Shape, LinkClean, RemoveClean, Linking
<1>4. /\ thread'[i].pc = "del" /\ thread'[i].req = "link" /\ thread'[i].f = r.f
      /\ thread'[i].t = r.t
      /\ \A j \in Threads : j # i => thread'[j] = thread[j]
  BY <1>1, <1>2, <1>3, GoesFields
<1>5. F = obj[r.t].files \cup {r.g}
  BY <1>1, <1>3, NamedIsFirst DEF Clean
<1> HIDE DEF F
<1>6. \A s \in Structs : /\ obj'[s].ref = obj[s].ref /\ obj'[s].alloc = obj[s].alloc
                         /\ obj'[s].in_use = obj[s].in_use
                         /\ obj'[s].files = IF s = r.t THEN obj[s].files \cup {r.g}
                                            ELSE obj[s].files
  <2>1. \A s \in Structs : obj[s] \in Object
    BY <1>1
  <2>2. \A s \in Structs : s # r.t => obj'[s] = obj[s]
    BY <1>1, <1>2
  <2>3. obj'[r.t] = [obj[r.t] EXCEPT !.in_use = TRUE, !.files = F]
    BY <1>1, <1>2, <1>3
  <2>4. obj[r.t].in_use = TRUE
    BY <1>3, <2>1 DEF Object
  <2>5. /\ obj'[r.t].ref = obj[r.t].ref /\ obj'[r.t].alloc = obj[r.t].alloc
        /\ obj'[r.t].in_use = TRUE /\ obj'[r.t].files = F
    BY <1>3, <2>1, <2>3 DEF Object
  <2> QED BY <1>5, <2>2, <2>4, <2>5
<1>7. ThreadClean(i)'
  BY <1>2, <1>3, <1>4, <1>6 DEF ThreadClean, LinkClean, UnlinkClean, RemoveClean, Counting,
     Removing, Giving, Given
<1>8. ASSUME NEW s \in Structs, NEW g \in FileStructs
      PROVE  PairClean(s, g)'
  <2>1. PairClean(s, g)
    BY DEF Clean
  <2>2. ASSUME NEW j \in Threads, thread[j].pc = "untag_t"
        PROVE  thread'[j] = thread[j]
    BY <1>2, <1>4, <2>2
  <2>3. ASSUME NEW j \in Threads, thread[j].pc = "tag_t", j # i
        PROVE  thread'[j] = thread[j]
    BY <1>4, <2>3
  <2>4. g \in obj'[s].files => g \in obj[s].files \/ (s = r.t /\ g = r.g)
    BY <1>6
  <2>5. g \in obj[s].files \/ (s = r.t /\ g = r.g) => g \in obj'[s].files
    BY <1>6
  <2>6. obj[s].in_use => obj'[s].in_use
    BY <1>6
  <2> QED BY <1>2, <1>3, <1>4, <2>1, <2>2, <2>3, <2>4, <2>5, <2>6 DEF PairClean
<1>9. \A s \in Structs : Wanted(s)' => Wanted(s)
  BY <1>2, <1>4, <1>6 DEF Wanted
<1>10. Modifies(i) /\ Uses(r.t) /\ thread'[i].pc \notin Given
  BY <1>3, <1>4 DEF Modifies, Uses, Given
<1>11. OnlyFirst'
  <2>1. r.g[2] = 1
    BY <1>3
  <2>2. \A s \in Structs : \A g \in obj'[s].files : g \in obj[s].files \/ g = r.g
    BY <1>6
  <2> QED BY <1>2, <2>1, <2>2 DEF Clean, OnlyFirst
<1> QED BY <1>2, <1>3, <1>6, <1>7, <1>8, <1>9, <1>10, <1>11, IndexClean

LEMMA FileRemoveClean ==
  ASSUME SInv, Races = {}, Clean, NEW i \in Threads, Steps(i), file_remove_tag(i)
  PROVE  Clean'
<1> DEFINE r == thread[i]
<1>1. /\ TypesInv /\ r \in Record /\ Shape(r) /\ UnlinkClean(i) /\ RemoveClean(i)
      /\ at \in [FileStructs -> Structs \cup {NoTag}]
  BY RecordType DEF SInv, AInv, Clean, ThreadClean, TypesInv
<1>2. /\ r.pc = "untag_f" /\ Goes(i, "untag_t") /\ UNCHANGED <<table, obj, bad>>
      /\ at' = [at EXCEPT ![r.g] = NoTag]
  BY DEF file_remove_tag, At
<1>3. /\ r.req = "unlink" /\ r.t \in Structs /\ r.g \in FileStructs
      /\ r.g = <<r.f, 1>> /\ at[r.g] = r.t
  BY <1>1, <1>2, HasStruct DEF Shape, UnlinkClean, RemoveClean, Unlinking
<1>4. /\ thread'[i].pc = "untag_t" /\ thread'[i].req = "unlink" /\ thread'[i].f = r.f
      /\ thread'[i].t = r.t /\ thread'[i].g = r.g
      /\ \A j \in Threads : j # i => thread'[j] = thread[j]
  BY <1>1, <1>2, <1>3, GoesFields
<1>5. obj[r.t].in_use
  BY <1>3 DEF Clean, PairClean
<1>6. at'[r.g] = NoTag /\ \A g \in FileStructs : g # r.g => at'[g] = at[g]
  BY <1>1, <1>2, <1>3
<1>7. ThreadClean(i)'
  BY <1>2, <1>3, <1>4, <1>5, <1>6 DEF ThreadClean, LinkClean, UnlinkClean, RemoveClean, Counting,
     Removing, Giving, Given
<1>8. ASSUME NEW s \in Structs, NEW g \in FileStructs
      PROVE  PairClean(s, g)'
  <2>1. PairClean(s, g)
    BY DEF Clean
  <2>2. ASSUME NEW j \in Threads, thread[j].pc \in {"tag_t", "untag_t"}
        PROVE  thread'[j] = thread[j]
    BY <1>2, <1>4, <2>2
  <2>3. at'[g] = s => at[g] = s
    BY <1>6, StructsType
  <2>4. at[g] = s => at'[g] = s \/ (g = r.g /\ s = r.t)
    BY <1>3, <1>6
  <2> QED BY <1>2, <1>4, <2>1, <2>2, <2>3, <2>4 DEF PairClean
<1>9. \A s \in Structs : Wanted(s)' => Wanted(s)
  BY <1>2, <1>4 DEF Wanted
<1>10. Modifies(i) /\ thread'[i].pc \notin Given
  BY <1>3, <1>4 DEF Modifies, Given
<1>11. OnlyFirst'
  BY <1>2, <1>3, <1>6 DEF Clean, OnlyFirst
<1> QED BY <1>2, <1>3, <1>7, <1>8, <1>9, <1>10, <1>11, IndexClean

LEMMA TagRemoveClean ==
  ASSUME SInv, Races = {}, Clean, NEW i \in Threads, Steps(i), tag_remove_file(i)
  PROVE  Clean'
<1> DEFINE r == thread[i]
           F == obj[r.t].files \ Named(r.f)
<1>1. /\ TypesInv /\ r \in Record /\ Shape(r) /\ UnlinkClean(i) /\ RemoveClean(i)
      /\ obj \in [Structs -> Object]
  BY RecordType DEF SInv, AInv, Clean, ThreadClean, TypesInv
<1>2. /\ r.pc = "untag_t" /\ Goes(i, "empty") /\ UNCHANGED <<table, at, bad>>
      /\ obj' = [obj EXCEPT ![r.t] = [obj[r.t] EXCEPT !.files = F]]
  BY DEF tag_remove_file, At
<1>3. /\ r.req = "unlink" /\ r.f \in Files /\ r.t \in Structs /\ obj[r.t].in_use
      /\ r.g \in FileStructs /\ r.g = <<r.f, 1>> /\ at[r.g] = NoTag
  BY <1>1, <1>2, HasStruct DEF Shape, UnlinkClean, RemoveClean, Unlinking
<1>4. /\ thread'[i].pc = "empty" /\ thread'[i].req = "unlink" /\ thread'[i].f = r.f
      /\ thread'[i].t = r.t
      /\ \A j \in Threads : j # i => thread'[j] = thread[j]
  BY <1>1, <1>2, <1>3, GoesFields
<1>5. F = obj[r.t].files \ {r.g}
  BY <1>1, <1>3, NamedIsFirst DEF Clean
<1> HIDE DEF F
<1>6. \A s \in Structs : /\ obj'[s].ref = obj[s].ref /\ obj'[s].alloc = obj[s].alloc
                         /\ obj'[s].in_use = obj[s].in_use
                         /\ obj'[s].files = IF s = r.t THEN obj[s].files \ {r.g}
                                            ELSE obj[s].files
  BY <1>1, <1>2, <1>3, <1>5 DEF Object
<1>7. ThreadClean(i)'
  BY <1>3, <1>4, <1>6 DEF ThreadClean, LinkClean, UnlinkClean, RemoveClean, Counting,
     Removing, Giving, Given
<1>8. ASSUME NEW s \in Structs, NEW g \in FileStructs
      PROVE  PairClean(s, g)'
  <2>1. PairClean(s, g)
    BY DEF Clean
  <2>2. ASSUME NEW j \in Threads, thread[j].pc = "tag_t" \/ (thread[j].pc = "untag_t" /\ j # i)
        PROVE  thread'[j] = thread[j]
    BY <1>2, <1>4, <2>2
  <2>3. g \in obj'[s].files => g \in obj[s].files /\ ~(s = r.t /\ g = r.g)
    BY <1>6
  <2>4. g \in obj[s].files /\ at[g] = s => g \in obj'[s].files
    BY <1>3, <1>6, StructsType
  <2>5. obj'[s].in_use = obj[s].in_use
    BY <1>6
  <2> QED BY <1>2, <1>4, <2>1, <2>2, <2>3, <2>4, <2>5 DEF PairClean
<1>9. \A s \in Structs : Wanted(s)' => Wanted(s)
  BY <1>2, <1>4, <1>6 DEF Wanted
<1>10. \A s \in Structs : obj'[s].files \subseteq obj[s].files
  BY <1>6
<1>11. Modifies(i) /\ thread'[i].pc \notin Given
  BY <1>3, <1>4 DEF Modifies, Given
<1>12. OnlyFirst'
  BY <1>2, <1>10 DEF Clean, OnlyFirst
<1> QED BY <1>2, <1>3, <1>6, <1>7, <1>8, <1>9, <1>10, <1>11, <1>12, IndexClean

(* tag_mkdir: the struct that the link has counted is the one it puts in   *)
(* use.                                                                    *)
LEMMA MkdirClean ==
  ASSUME SInv, Races = {}, Clean, NEW i \in Threads, Steps(i), Mkdir(i)
  PROVE  Clean'
<1> DEFINE r == thread[i]
<1>1. /\ TypesInv /\ r \in Record /\ Shape(r) /\ RemoveClean(i)
      /\ obj \in [Structs -> Object]
  BY RecordType DEF SInv, AInv, Clean, ThreadClean, TypesInv
<1>2. r.pc = "mkdir" /\ UNCHANGED <<table, at, bad>>
  BY DEF Mkdir, At
<1>3. r.req = "link" /\ r.t \in Structs
  BY <1>1, <1>2, HasStruct DEF Shape, Linking
<1>4. Found = r.t /\ Found # NoTag
  <2>1. Uses(r.t)
    BY <1>3 DEF Uses
  <2> QED BY <1>1, <1>3, <2>1, UsedIsFound, StructsType
<1>5. Goes(i, "fget") /\ obj' = [obj EXCEPT ![r.t].in_use = TRUE]
  BY <1>4 DEF Mkdir
<1>6. /\ thread'[i].pc = "fget" /\ thread'[i].req = "link" /\ thread'[i].f = r.f
      /\ thread'[i].t = r.t
      /\ \A j \in Threads : j # i => thread'[j] = thread[j]
  BY <1>1, <1>3, <1>5, GoesFields
<1>7. \A s \in Structs : /\ obj'[s].ref = obj[s].ref /\ obj'[s].alloc = obj[s].alloc
                         /\ obj'[s].in_use = IF s = r.t THEN TRUE ELSE obj[s].in_use
                         /\ obj'[s].files = obj[s].files
  BY <1>1, <1>3, <1>5 DEF Object
<1>8. ThreadClean(i)'
  BY <1>3, <1>6, <1>7 DEF ThreadClean, LinkClean, UnlinkClean, RemoveClean, Counting,
     Removing, Giving, Given
<1>9. ASSUME NEW s \in Structs, NEW g \in FileStructs
      PROVE  PairClean(s, g)'
  <2>1. PairClean(s, g)
    BY DEF Clean
  <2>2. ASSUME NEW j \in Threads, thread[j].pc \in {"tag_t", "untag_t"}
        PROVE  thread'[j] = thread[j]
    BY <1>2, <1>6, <2>2
  <2>3. obj'[s].files = obj[s].files /\ (obj[s].in_use => obj'[s].in_use)
    BY <1>7
  <2> QED BY <1>2, <2>1, <2>2, <2>3 DEF PairClean
<1>10. \A s \in Structs : Wanted(s)' => Wanted(s)
  BY <1>2, <1>6, <1>7 DEF Wanted
<1>11. Modifies(i) /\ thread'[i].pc \notin Given
  BY <1>3, <1>6 DEF Modifies, Given
<1>12. \A s \in Structs : /\ obj'[s].files \subseteq obj[s].files
                          /\ obj[s].in_use => obj'[s].in_use
  BY <1>7
<1>13. OnlyFirst'
  BY <1>2, <1>7 DEF Clean, OnlyFirst
<1> QED BY <1>2, <1>3, <1>7, <1>8, <1>9, <1>10, <1>11, <1>12, <1>13, IndexClean

(* The table loses the name: its only struct, if any.                      *)
LEMMA NameClean ==
  ASSUME SInv, Races = {}, Clean, NEW i \in Threads, Steps(i), NEW pc, Goes(i, pc),
         <<thread[i].pc, pc>> \in {<<"pop", "dec">>, <<"zero", "free">>},
         table' = Without(table), UNCHANGED <<obj, at, bad>>
  PROVE  Clean'
<1> DEFINE r == thread[i]
<1>1. /\ TypesInv /\ r \in Record /\ Shape(r) /\ ThreadClean(i) /\ table \in Seq(Structs)
  BY RecordType DEF SInv, AInv, Clean, TypesInv
<1>2. /\ \/ r.pc = "pop" /\ thread'[i].pc = "dec"
         \/ r.pc = "zero" /\ thread'[i].pc = "free"
      /\ thread'[i].req = r.req /\ thread'[i].f = r.f /\ thread'[i].g = r.g
      /\ thread'[i].t = r.t /\ thread'[i].then = r.then /\ thread'[i].n = r.n
      /\ \A j \in Threads : j # i => thread'[j] = thread[j]
  BY <1>1, GoesFields
<1>3. Found' = NoTag
  <2>1. Len(table) \in Nat /\ ~(Len(table) > 1)
    BY <1>1, NoRaces
  <2>2. Without(table) = <<>>
    BY <1>1, <2>1 DEF Without
  <2> QED BY <2>2 DEF Found
<1>4. r.t \in Structs
  BY <1>1, <1>2, HasStruct DEF Giving, Given
<1>5. ThreadClean(i)'
  BY <1>1, <1>2, <1>3, <1>4, StructsType DEF ThreadClean, LinkClean, UnlinkClean,
     RemoveClean, Counting, Removing, Giving, Given
<1>6. ASSUME NEW j \in Threads
      PROVE  ThreadClean(j)'
  <2>1. CASE j # i
    <3>1. Spared(j)
      BY <1>3, StructsType DEF Spared
    <3> QED BY <1>1, <1>2, <2>1, <3>1, OthersClean DEF Clean
  <2> QED BY <1>5, <2>1
<1>7. ASSUME NEW s \in Structs
      PROVE  Backed(s)'
  <2>1. Wanted(s)' => Wanted(s)
    BY <1>2 DEF Wanted
  <2> QED BY <1>2, <2>1, BackedKept
<1>8. ASSUME NEW s \in Structs, NEW g \in FileStructs
      PROVE  PairClean(s, g)'
  <2>1. PairClean(s, g)
    BY DEF Clean
  <2>2. ASSUME NEW j \in Threads, thread[j].pc \in {"tag_t", "untag_t"}
        PROVE  thread'[j] = thread[j]
    BY <1>2, <2>2
  <2> QED BY <2>1, <2>2 DEF PairClean
<1>9. OneGivesBack'
  <2>1. \A j \in Threads : thread'[j].pc \in Given =>
                              thread[j].pc \in Given /\ thread'[j].t = thread[j].t
    BY <1>2 DEF Given
  <2> QED BY <2>1 DEF Clean, OneGivesBack
<1>10. OnlyFirst'
  BY DEF Clean, OnlyFirst
<1> QED BY <1>3, <1>6, <1>7, <1>8, <1>9, <1>10 DEF Clean

(* A struct is counted: the request owes a count from then on, or it is a  *)
(* link's, and wanted.                                                     *)
LEMMA IncClean ==
  ASSUME SInv, Races = {}, Clean, NEW i \in Threads, Steps(i), tag_inc_ref(i)
  PROVE  Clean'
<1> DEFINE r == thread[i]
<1>1. /\ TypesInv /\ r \in Record /\ Shape(r) /\ UnlinkClean(i) /\ RemoveClean(i)
      /\ obj \in [Structs -> Object] /\ thread \in [Threads -> Record]
  BY RecordType DEF SInv, AInv, Clean, ThreadClean, TypesInv
<1>2. /\ r.pc = "inc2" /\ UNCHANGED <<table, at, bad>> /\ Counted(i)
      /\ obj' = [obj EXCEPT ![r.u].ref = r.n + 1]
  BY DEF tag_inc_ref, At
<1>3. /\ r.req \in {"lookup", "link", "unlink"} /\ r.t \in Structs /\ r.u = r.t
      /\ r.then = Body(r.req) /\ r.then # "idle"
  <2>1. r.req \in {"lookup", "link", "unlink"} /\ r.then = Body(r.req)
    BY <1>1, <1>2 DEF Shape, RemoveClean, Reqs, Counting, Listing, Filing
  <2>2. r.t \in Structs /\ (r.u = r.t \/ (r.then = "fget" /\ r.req = "link"))
    BY <1>1, <1>2, HasStruct DEF Shape, Counting
  <2> QED BY <2>1, <2>2, BodyType
<1>4. thread' = [thread EXCEPT ![i] =
                   [r EXCEPT !.pc = r.then, !.u = NoTag, !.n = 0, !.then = "idle"]]
  BY <1>2, <1>3 DEF Counted
<1>5. /\ thread'[i].pc = Body(r.req) /\ thread'[i].req = r.req /\ thread'[i].f = r.f
      /\ thread'[i].t = r.t
      /\ \A j \in Threads : j # i => thread'[j] = thread[j]
  <2> HIDE DEF r
  <2> QED BY <1>1, <1>3, <1>4 DEF Record
<1>6. obj[r.t].ref = r.n /\ r.n \in Int
  BY <1>1, <1>2, <1>3, NoRaces DEF Between, Record
<1>7. \A s \in Structs : /\ obj'[s].ref = IF s = r.t THEN obj[s].ref + 1 ELSE obj[s].ref
                         /\ obj'[s].alloc = obj[s].alloc /\ obj'[s].in_use = obj[s].in_use
                         /\ obj'[s].files = obj[s].files
  <2> HIDE DEF r
  <2> QED BY <1>1, <1>2, <1>3, <1>6 DEF Object
<1>8. Body(r.req) \in {"fget", "mkdir"} /\ (r.req = "link" => Body(r.req) = "mkdir")
  BY <1>3, BodyType
<1>9. ThreadClean(i)'
  BY <1>1, <1>2, <1>5, <1>8 DEF ThreadClean, LinkClean, UnlinkClean, RemoveClean,
     Counting, Removing, Giving, Given
<1>10. Found' = Found
  BY <1>2 DEF Found
<1>11. ASSUME NEW j \in Threads
       PROVE  ThreadClean(j)'
  <2>1. CASE j # i
    <3>1. Spared(j)
      BY <1>7, <1>10 DEF Spared
    <3> QED BY <1>1, <1>2, <1>5, <2>1, <3>1, OthersClean DEF Clean
  <2> QED BY <1>9, <2>1
<1>12. ASSUME NEW s \in Structs
       PROVE  Backed(s)'
  <2>1. CASE s # r.t
    <3>1. Wanted(s)' => Wanted(s)
      BY <1>5, <1>7, <2>1 DEF Wanted
    <3> QED BY <1>7, <2>1, <3>1, BackedKept
  <2>2. CASE s = r.t
    <3>1. /\ Cardinality(Owers(s)') <= Cardinality(Owers(s)) + 1
          /\ Cardinality(Owers(s)') \in Nat /\ Cardinality(Owers(s)) \in Nat
          /\ i \notin Owers(s)' => Cardinality(Owers(s)') <= Cardinality(Owers(s))
      BY <1>1, StepsOwers DEF SInv
    <3>2. Backed(s) /\ obj[s].ref \in Int /\ obj'[s].ref = obj[s].ref + 1
      BY <1>1, <1>7, <2>2 DEF Clean, Object
    <3>3. CASE Wanted(s)
      BY <3>1, <3>2, <3>3 DEF Backed
    <3>4. CASE ~Wanted(s)
      <4>1. Wanted(s)' => thread'[i].pc = "mkdir"
        BY <1>5, <1>7, <3>4 DEF Wanted
      <4>2. Wanted(s)' => i \notin Owers(s)'
        BY <4>1 DEF Owers, Owes, Filing, Unlinking, Removing, Giving
      <4> QED BY <3>1, <3>2, <4>2 DEF Backed
    <3> QED BY <3>3, <3>4
  <2> QED BY <2>1, <2>2
<1>13. ASSUME NEW s \in Structs, NEW g \in FileStructs
       PROVE  PairClean(s, g)'
  <2>1. PairClean(s, g)
    BY DEF Clean
  <2>2. ASSUME NEW j \in Threads, thread[j].pc \in {"tag_t", "untag_t"}
        PROVE  thread'[j] = thread[j]
    BY <1>2, <1>5, <2>2
  <2> QED BY <1>2, <1>7, <2>1, <2>2 DEF PairClean
<1>14. Found' # NoTag => Valid(Found)'
  BY <1>1, <1>7, <1>10, FoundType DEF Clean, Valid, TypesInv
<1>15. OneGivesBack'
  BY <1>5, <1>8 DEF Clean, OneGivesBack, Given
<1>16. OnlyFirst'
  BY <1>2, <1>7 DEF Clean, OnlyFirst
<1> QED BY <1>2, <1>11, <1>12, <1>13, <1>14, <1>15, <1>16 DEF Clean

(* A count is given back by a request that owes it.  Another thread past   *)
(* its store would see the count change.                                   *)
LEMMA DecClean ==
  ASSUME SInv, Races = {}, Races' = {}, Clean, NEW i \in Threads, Steps(i), tag_dec_ref(i)
  PROVE  Clean'
<1> DEFINE r == thread[i]
<1>1. /\ TypesInv /\ r \in Record /\ Shape(r) /\ ThreadClean(i) /\ Only(i)
      /\ obj \in [Structs -> Object] /\ thread \in [Threads -> Record]
  BY RecordType, StepsOnly DEF SInv, AInv, Clean, TypesInv
<1>2. /\ r.pc = "dec2" /\ UNCHANGED <<table, at, bad>> /\ Valid(r.u)
      /\ obj' = [obj EXCEPT ![r.u].ref = r.n - 1]
      /\ thread' = [thread EXCEPT ![i] = [r EXCEPT !.pc = "test", !.n = r.n - 1]]
  BY DEF tag_dec_ref, At
<1>3. r.t \in Structs /\ r.u = r.t /\ r.req \in Reqs /\ Found # r.t /\ obj[r.t].alloc
  BY <1>1, <1>2, HasStruct DEF Shape, Giving, ThreadClean, RemoveClean, Valid
<1>4. obj[r.t].ref = r.n /\ r.n \in Int
  BY <1>1, <1>2, <1>3, NoRaces DEF Between, Record
<1>5. /\ thread'[i].pc = "test" /\ thread'[i].req = r.req /\ thread'[i].t = r.t
      /\ thread'[i].then = r.then
      /\ \A j \in Threads : j # i => thread'[j] = thread[j]
  <2> HIDE DEF r
  <2> QED BY <1>1, <1>2 DEF Record
<1>6. \A s \in Structs : /\ obj'[s].ref = IF s = r.t THEN obj[s].ref - 1 ELSE obj[s].ref
                         /\ obj'[s].alloc = obj[s].alloc /\ obj'[s].in_use = obj[s].in_use
                         /\ obj'[s].files = obj[s].files
  <2> HIDE DEF r
  <2> QED BY <1>1, <1>2, <1>3, <1>4 DEF Object
<1>7. \A s \in Structs : s = r.t => i \in Owers(s) /\ i \notin Owers(s)'
  <2>1. r.req \notin {"link", "list"} /\ (r.req = "unlink" => r.then = "del")
    BY <1>1, <1>2 DEF ThreadClean, LinkClean, UnlinkClean, Giving, Shape, Listing, Filing
  <2>2. Owes(r)
    BY <1>2, <1>3, <2>1 DEF Owes, Giving, Reqs
  <2>3. ~Owes(thread'[i])
    BY <1>1, <1>2 DEF Only, Follows
  <2> QED BY <2>2, <2>3 DEF Owers
<1>8. ThreadClean(i)'
  <2>1. Found' = Found
    BY <1>2 DEF Found
  <2> QED BY <1>1, <1>2, <1>3, <1>5, <1>6, <2>1 DEF ThreadClean, LinkClean, UnlinkClean,
     RemoveClean, Counting, Removing, Giving, Given
<1>9. ASSUME NEW j \in Threads
      PROVE  ThreadClean(j)'
  <2>1. CASE j # i
    <3>1. Spared(j)
      BY <1>2, <1>6 DEF Spared, Found
    <3> QED BY <1>1, <1>2, <1>5, <2>1, <3>1, OthersClean DEF Clean
  <2> QED BY <1>8, <2>1
<1>10. \A s \in Structs : Wanted(s)' => Wanted(s)
  BY <1>5, <1>6 DEF Wanted
<1>11. ASSUME NEW s \in Structs
       PROVE  Backed(s)'
  <2>1. CASE s # r.t
    BY <1>2, <1>6, <1>10, <2>1, BackedKept
  <2>2. CASE s = r.t
    <3>1. /\ Cardinality(Owers(s)') + 1 <= Cardinality(Owers(s))
          /\ Cardinality(Owers(s)') \in Nat /\ Cardinality(Owers(s)) \in Nat
      BY <1>1, <1>7, <2>2, StepsOwers DEF SInv
    <3>2. Backed(s) /\ obj[s].ref \in Int /\ obj'[s].ref = obj[s].ref - 1
      BY <1>1, <1>6, <2>2 DEF Clean, Object
    <3> QED BY <1>10, <3>1, <3>2 DEF Backed
  <2> QED BY <2>1, <2>2
<1>12. ASSUME NEW s \in Structs, NEW g \in FileStructs
       PROVE  PairClean(s, g)'
  <2>1. PairClean(s, g)
    BY DEF Clean
  <2>2. ASSUME NEW j \in Threads, thread[j].pc \in {"tag_t", "untag_t"}
        PROVE  thread'[j] = thread[j]
    BY <1>2, <1>5, <2>2
  <2> QED BY <1>2, <1>6, <2>1, <2>2 DEF PairClean
<1>13. Found' # NoTag => Valid(Found)'
  BY <1>1, <1>2, <1>6, FoundType DEF Clean, Valid, TypesInv, Found
<1>14. OneGivesBack'
  <2>1. ASSUME NEW j \in Threads, j # i, thread[j].pc \in Given, thread[j].t = r.t
        PROVE  FALSE
    <3>1. thread[j] \in Record /\ thread[j].u = r.t
      BY <1>1, <2>1, RecordType DEF Shape
    <3>2. obj[r.t].ref = thread[j].n
      BY <2>1, <3>1, NoRaces DEF Between
    <3>3. obj'[r.t].ref = thread[j].n
      BY <1>5, <2>1, <3>1, NoRacesNext DEF Between
    <3> QED BY <1>3, <1>4, <1>6, <3>2, <3>3
  <2> QED BY <1>5, <2>1 DEF Clean, OneGivesBack
<1>15. OnlyFirst'
  BY <1>2, <1>6 DEF Clean, OnlyFirst
<1> QED BY <1>2, <1>9, <1>11, <1>12, <1>13, <1>14, <1>15 DEF Clean

(* The struct that is freed has no count left: no request owes one, and the*)
(* tag is not in use.                                                      *)
LEMMA FreesClean ==
  ASSUME SInv, Races = {}, Clean, NEW i \in Threads, Steps(i), Frees(i)
  PROVE  Clean'
<1> DEFINE r == thread[i]
<1>1. /\ TypesInv /\ r \in Record /\ Shape(r) /\ ThreadClean(i)
      /\ obj \in [Structs -> Object] /\ thread \in [Threads -> Record]
  BY RecordType DEF SInv, AInv, Clean, TypesInv
<1>2. /\ r.pc = "free" /\ UNCHANGED <<table, at, bad>> /\ Counted(i)
      /\ obj' = [obj EXCEPT ![r.u] = Freed]
  BY DEF Frees, At
<1>3. r.t \in Structs /\ r.u = r.t /\ Found # r.t /\ r.n = 0
  BY <1>1, <1>2, HasStruct DEF Shape, Given, ThreadClean, RemoveClean
<1>4. obj[r.t].ref = 0
  BY <1>2, <1>3, NoRaces DEF Between, Given
<1>5. ~obj[r.t].in_use /\ ~Wanted(r.t) /\ Cardinality(Owers(r.t)) = 0
  <2>1. IsFiniteSet(Owers(r.t)) /\ Cardinality(Owers(r.t)) \in Nat /\ Backed(r.t)
    BY <1>3, FS_CardinalityType DEF SInv, OwersFinite, Clean
  <2> QED BY <1>4, <2>1 DEF Backed, Wanted
<1>6. obj[r.t].files = {}
  BY <1>3, <1>5 DEF SInv, AllPlain, Plain
<1>7. \A s \in Structs : /\ obj'[s].ref = obj[s].ref
                         /\ obj'[s].in_use = obj[s].in_use /\ obj'[s].files = obj[s].files
                         /\ s # r.t => obj'[s].alloc = obj[s].alloc
  <2>1. Freed.ref = 0 /\ Freed.in_use = FALSE /\ Freed.files = {}
    BY DEF Freed
  <2>2. obj[r.t].in_use = FALSE
    BY <1>1, <1>3, <1>5 DEF Object
  <2>3. obj'[r.t] = Freed /\ \A s \in Structs : s # r.t => obj'[s] = obj[s]
    BY <1>1, <1>2, <1>3
  <2> QED BY <1>4, <1>6, <2>1, <2>2, <2>3
<1>8. thread'[i] = Idle /\ \A j \in Threads : j # i => thread'[j] = thread[j]
  <2>1. r.then = "idle"
    <3>1. r.req = "unlink" => obj[r.t].in_use
      BY <1>1, <1>2 DEF ThreadClean, UnlinkClean, Given
    <3> QED BY <1>1, <1>2, <1>5, <3>1 DEF Shape, Given
  <2> QED BY <1>1, <1>2, <2>1 DEF Counted
<1>9. Found' = Found
  BY <1>2 DEF Found
<1>10. ASSUME NEW j \in Threads
       PROVE  ThreadClean(j)'
  <2>1. CASE j = i
    BY <1>8, <2>1, IdleClean
  <2>2. CASE j # i
    <3>1. thread[j].pc \in Given => thread[j].t # r.t
      BY <1>2, <2>2 DEF Clean, OneGivesBack, Given
    <3>2. Spared(j)
      BY <1>7, <1>9, <3>1 DEF Spared
    <3> QED BY <1>1, <1>2, <1>8, <2>2, <3>2, OthersClean DEF Clean
  <2> QED BY <2>1, <2>2
<1>11. ASSUME NEW s \in Structs
       PROVE  Backed(s)'
  <2>1. Wanted(s)' => Wanted(s)
    BY <1>7, <1>8, IdleType DEF Wanted
  <2> QED BY <1>2, <1>7, <2>1, BackedKept
<1>12. ASSUME NEW s \in Structs, NEW g \in FileStructs
       PROVE  PairClean(s, g)'
  <2>1. PairClean(s, g)
    BY DEF Clean
  <2>2. ASSUME NEW j \in Threads, thread[j].pc \in {"tag_t", "untag_t"}
        PROVE  thread'[j] = thread[j]
    BY <1>2, <1>8, <2>2
  <2> QED BY <1>2, <1>7, <2>1, <2>2 DEF PairClean
<1>13. Found' # NoTag => Valid(Found)'
  BY <1>1, <1>3, <1>7, <1>9, FoundType DEF Clean, Valid, TypesInv
<1>14. OneGivesBack'
  BY <1>8, IdleType DEF Clean, OneGivesBack, Given
<1>15. OnlyFirst'
  BY <1>2, <1>7 DEF Clean, OnlyFirst
<1> QED BY <1>2, <1>10, <1>11, <1>12, <1>13, <1>14, <1>15 DEF Clean

LEMMA AddsClean ==
  ASSUME SInv, Races = {}, Clean, NEW i \in Threads, Steps(i), Adds(i)
  PROVE  Clean'
<1> DEFINE r == thread[i]
<1>1. /\ TypesInv /\ r \in Record /\ Shape(r) /\ ThreadClean(i)
      /\ obj \in [Structs -> Object] /\ thread \in [Threads -> Record] /\ table \in Seq(Structs)
  BY RecordType DEF SInv, AInv, Clean, TypesInv
<1>2. /\ r.pc = "add" /\ HasFresh /\ UNCHANGED <<at, bad>> /\ table' = <<Fresh>> \o table
      /\ obj' = [obj EXCEPT ![Fresh] = new(FALSE)]
  BY DEF Adds, At
<1> DEFINE x == Fresh
<1>3. /\ x \in Structs /\ \A g \in FileStructs : at[g] # x
      /\ \A j \in Threads : thread[j].t # x /\ thread[j].u # x
  BY <1>2, FreshIsFresh
<1>4. table' = <<x>> \o table /\ obj' = [obj EXCEPT ![x] = new(FALSE)]
  BY <1>2
<1>5. /\ thread'[i].pc = "inc" /\ thread'[i].req = r.req /\ thread'[i].t = x
      /\ thread'[i].then = Body(r.req)
      /\ \A j \in Threads : j # i => thread'[j] = thread[j]
  BY <1>1 DEF Adds, Record
<1> HIDE DEF x
<1>6. Found' = x
  <2>1. table' # <<>> /\ Head(table') = x
    BY <1>1, <1>3, <1>4
  <2> QED BY <2>1 DEF Found
<1>7. obj'[x] = new(FALSE) /\ \A s \in Structs : s # x => obj'[s] = obj[s]
  BY <1>1, <1>3, <1>4
<1>8. ThreadClean(i)'
  <2>1. r.req \in Reqs /\ r.req # "unlink"
    BY <1>1, <1>2 DEF Shape, ThreadClean, UnlinkClean
  <2> QED BY <1>5, <2>1, BodyType DEF ThreadClean, LinkClean, UnlinkClean, RemoveClean, Counting,
             Removing, Giving, Given
<1>9. ASSUME NEW j \in Threads
      PROVE  ThreadClean(j)'
  <2>1. CASE j # i
    <3>1. Spared(j)
      BY <1>3, <1>6, <1>7 DEF Spared
    <3> QED BY <1>1, <1>2, <1>5, <2>1, <3>1, OthersClean DEF Clean
  <2> QED BY <1>8, <2>1
<1>10. ASSUME NEW s \in Structs
       PROVE  Backed(s)'
  <2>1. CASE s # x
    <3>1. Wanted(s)' => Wanted(s)
      BY <1>5, <1>7, <2>1 DEF Wanted
    <3> QED BY <1>2, <1>7, <2>1, <3>1, BackedKept
  <2>2. CASE s = x
    <3>1. Owers(s)' = {}
      BY <1>3, <1>5, <2>2 DEF Owers, Owes, Filing, Unlinking, Removing, Giving
    <3>2. obj'[s].ref = 0 /\ ~obj'[s].in_use
      BY <1>7, <2>2 DEF new
    <3>3. ~Wanted(s)'
      BY <1>3, <1>5, <2>2, <3>2 DEF Wanted
    <3> QED BY <3>1, <3>2, <3>3, FS_EmptySet DEF Backed
  <2> QED BY <2>1, <2>2
<1>11. ASSUME NEW s \in Structs, NEW g \in FileStructs
       PROVE  PairClean(s, g)'
  <2>1. PairClean(s, g)
    BY DEF Clean
  <2>2. ASSUME NEW j \in Threads, thread[j].pc \in {"tag_t", "untag_t"}
        PROVE  thread'[j] = thread[j]
    BY <1>2, <1>5, <2>2
  <2>3. CASE s # x
    BY <1>2, <1>7, <2>1, <2>2, <2>3 DEF PairClean
  <2>4. CASE s = x
    <3>1. obj'[s].files = {} /\ at'[g] # s
      BY <1>2, <1>3, <1>7, <2>4 DEF new
    <3> QED BY <3>1 DEF PairClean
  <2> QED BY <2>3, <2>4
<1>12. Valid(Found)'
  BY <1>6, <1>7 DEF Valid, new
<1>13. OneGivesBack'
  BY <1>5 DEF Clean, OneGivesBack, Given
<1>14. OnlyFirst'
  <2>1. \A s \in Structs : obj'[s].files \subseteq obj[s].files
    BY <1>7 DEF new
  <2> QED BY <1>2, <2>1 DEF Clean, OnlyFirst
<1> QED BY <1>2, <1>9, <1>10, <1>11, <1>12, <1>13, <1>14 DEF Clean

LEMMA StepsClean ==
  ASSUME SInv, Races = {}, Races' = {}, Clean, NEW i \in Threads, Steps(i)
  PROVE  Clean'
<1>1. CASE Quiet(i)
  BY <1>1, QuietOwn, QuietClean
<1>2. CASE MkdirAdds(i)
  <2>1. thread[i].pc = "mkadd" /\ LinkClean(i) /\ thread[i].req = "link"
    BY <1>2, RecordType DEF MkdirAdds, At, Clean, ThreadClean, Shape, Linking, SInv, AInv
  <2> QED BY <2>1 DEF LinkClean
<1>3. CASE Pops(i) \/ Drops(i)
  <2>1. CASE Pops(i)
    <3>1. thread[i].pc = "pop" /\ Goes(i, "dec") /\ table' = Without(table)
          /\ UNCHANGED <<obj, at, bad>>
      BY <2>1 DEF Pops, At
    <3> QED BY <3>1, NameClean
  <2>2. CASE Drops(i)
    <3>1. thread[i].pc = "zero" /\ Goes(i, "free") /\ table' = Without(table)
          /\ UNCHANGED <<obj, at, bad>>
      BY <2>2 DEF Drops, At
    <3> QED BY <3>1, NameClean
  <2> QED BY <1>3, <2>1, <2>2
<1> QED BY <1>1, <1>2, <1>3, AddsClean, IncClean, DecClean, FreesClean, MkdirClean, FileAddClean,
           TagAddClean, FileRemoveClean, TagRemoveClean DEF Steps, Works, Quiet

(* What a thread looks into is allocated: it is in the table, or in use, or*)
(* this thread has a count of it, or is the one that gives it back.        *)
LEMMA NobodyUsesFreed ==
  ASSUME SInv, Races = {}, Clean, NEW i \in Threads
  PROVE  ~UsesFreed(i)
<1> DEFINE r == thread[i]
<1> SUFFICES \A s \in Targets(i) : s = NoTag \/ Valid(s)
  BY DEF UsesFreed
<1>1. /\ TypesInv /\ r \in Record /\ Shape(r) /\ ThreadClean(i)
  BY RecordType DEF SInv, AInv, Clean
<1>2. ASSUME NEW s \in Structs, obj[s].in_use \/ i \in Owers(s)
      PROVE  Valid(s)
  <2>1. Backed(s) /\ Plain(obj[s])
    BY DEF Clean, SInv, AllPlain
  <2>2. IsFiniteSet(Owers(s)) /\ Cardinality(Owers(s)) \in Nat
    BY FS_CardinalityType DEF SInv, OwersFinite
  <2>3. i \in Owers(s) => Cardinality(Owers(s)) # 0
    BY <2>2, FS_EmptySet
  <2>4. obj[s].alloc \/ (obj[s].ref = 0 /\ ~obj[s].in_use)
    BY <2>1 DEF Plain
  <2> QED BY <1>2, <2>1, <2>2, <2>3, <2>4 DEF Backed, Valid
<1>3. Found # NoTag => Valid(Found)
  BY DEF Clean
<1>4. ASSUME NEW s \in Structs, Uses(s)
      PROVE  Valid(s)
  BY <1>1, <1>3, <1>4, UsedIsFound, StructsType
<1>5. CASE r.pc \in {"inc", "inc2"}
  <2>1. Targets(i) = {r.u}
    BY <1>5 DEF Targets, Counts_now
  <2>2. r.u \in Structs /\ Uses(r.u)
    BY <1>1, <1>5 DEF Shape, Counting, Uses
  <2> QED BY <1>4, <2>1, <2>2
<1>6. CASE r.pc \in {"mkdir", "see"}
  <2>1. r.pc = "mkdir" => Targets(i) = {Found}
    BY Zenon DEF Targets, Counts_now
  <2>2. r.pc = "see" => Targets(i) = r.rest
    BY Zenon DEF Targets, Counts_now
  <2>3. r.pc = "see" => \A s \in r.rest : s \in Structs /\ Uses(s)
    BY <1>1 DEF Shape, Uses
  <2> QED BY <1>3, <1>4, <1>6, <2>1, <2>2, <2>3
<1>7. CASE r.pc \in {"idle", "get", "get2", "add", "mkget", "mkadd", "fget", "fadd", "list", "next"}
  <2>1. Targets(i) = {}
    BY <1>7 DEF Targets, Counts_now
  <2> QED BY <2>1
<1>8. CASE r.pc \in Given
  <2>1. Targets(i) = {r.u} /\ r.u = r.t
    BY <1>1, <1>8 DEF Targets, Counts_now, Given, Shape
  <2> QED BY <1>1, <1>8, <2>1 DEF ThreadClean, RemoveClean, Valid
<1>9. CASE r.pc \in {"dec", "dec2"} \/ r.pc \in {"del", "tag_f", "tag_t", "pop"} \cup Unlinking
                \cup Removing
  <2>1. Targets(i) = {r.t}
    <3>1. r.pc \in {"dec", "dec2"} => r.u = r.t
      BY <1>1 DEF Shape, Giving
    <3>2. CASE r.pc \in {"dec", "dec2"}
      BY <3>1, <3>2 DEF Targets, Counts_now
    <3>3. CASE r.pc \notin {"dec", "dec2"}
      BY <1>9, <3>3 DEF Targets, Counts_now, Unlinking, Removing
    <3> QED BY <3>2, <3>3
  <2>2. r.t \in Structs /\ r.req \in Reqs /\ r.req # "list"
    BY <1>1, <1>9, HasStruct DEF Shape, Linking, Unlinking, Removing, Giving, Listing, Filing
  <2>3. obj[r.t].in_use \/ Owes(r)
    BY <1>1, <1>9, <2>2 DEF ThreadClean, LinkClean, UnlinkClean, Owes, Shape, Reqs, Linking,
       Unlinking, Removing, Giving
  <2> QED BY <1>2, <2>1, <2>2, <2>3 DEF Owers
<1> QED BY <1>1, <1>5, <1>6, <1>7, <1>8, <1>9 DEF Record, Pcs, Looking, Counting, Filing, Linking,
           Unlinking, Removing, Giving, Given, Listing

LEMMA StartsClean ==
  ASSUME SInv, Races = {}, Clean, NEW i \in Threads, NEW r \in Reqs, NEW f \in Files \cup {"none"},
         Starts(i, r, f)
  PROVE  Clean'
<1>1. /\ TypesInv /\ thread[i] = Idle /\ thread'[i].pc \in {"get", "list"} /\ thread'[i].req = r
      /\ thread'[i].f = f /\ thread'[i].t = NoTag /\ ~Owes(thread'[i])
      /\ \A j \in Threads : j # i => thread'[j] = thread[j]
      /\ UNCHANGED <<table, obj, at, bad>>
  BY StartsRecord DEF SInv, AInv
<1>2. r = "unlink" => at[<<f, 1>>] # NoTag
  <2>1. ASSUME r = "unlink"
        PROVE  at[<<f, 1>>] # NoTag
    <3>1. f \in Files /\ Known(f) /\ at[Newest(f)] # NoTag
      BY <2>1 DEF Starts
    <3> QED BY <1>1, <3>1, NewestIsFirst
  <2> QED BY <2>1
<1>3. Found' = Found
  BY <1>1 DEF Found
<1>4. ThreadClean(i)'
  BY <1>1, <1>2 DEF ThreadClean, LinkClean, UnlinkClean, RemoveClean, Counting, Removing, Giving,
     Given
<1>5. ASSUME NEW j \in Threads
      PROVE  ThreadClean(j)'
  <2>1. CASE j # i
    <3>1. Spared(j)
      BY <1>1, <1>3 DEF Spared
    <3> QED BY <1>1, <2>1, <3>1, OthersClean DEF Clean
  <2> QED BY <1>4, <2>1
<1>6. ASSUME NEW s \in Structs
      PROVE  Backed(s)'
  <2>1. Owers(s)' = Owers(s)
    BY <1>1, IdleType DEF Owers
  <2>2. Wanted(s)' => Wanted(s)
    BY <1>1 DEF Wanted
  <2> QED BY <1>1, <2>1, <2>2 DEF Backed, Clean
<1>7. ASSUME NEW s \in Structs, NEW g \in FileStructs
      PROVE  PairClean(s, g)'
  <2>1. PairClean(s, g)
    BY DEF Clean
  <2>2. ASSUME NEW j \in Threads, thread[j].pc \in {"tag_t", "untag_t"}
        PROVE  thread'[j] = thread[j]
    BY <1>1, <2>2, IdleType
  <2> QED BY <1>1, <2>1, <2>2 DEF PairClean
<1>8. OneGivesBack'
  BY <1>1 DEF Clean, OneGivesBack, Given
<1>9. OnlyFirst'
  BY <1>1 DEF Clean, OnlyFirst
<1> QED BY <1>1, <1>3, <1>5, <1>6, <1>7, <1>8, <1>9 DEF Clean, Valid

LEMMA BootClean == Booted => Clean
<1> SUFFICES ASSUME Booted PROVE Clean
  OBVIOUS
<1>1. SInv
  BY BootSInv
<1>2. \A i \in Threads : thread[i] = Idle /\ Idle.pc = "idle" /\ Idle.req = "none" /\ ~Owes(Idle)
  BY IdleType DEF Booted
<1>3. \A i \in Threads : ThreadClean(i)
  BY <1>2 DEF ThreadClean, LinkClean, UnlinkClean, RemoveClean, Counting, Removing, Giving, Given
<1>4. ~bad /\ table = Boot.table /\ obj = Boot.obj /\ at = Boot.at
  BY DEF Booted
<1>5. Found # NoTag => Valid(Found)
  BY <1>4, BootSays, StructsType DEF Found, Valid
<1>6. ASSUME NEW s \in Structs
      PROVE  Backed(s)
  <2>1. Owers(s) = {}
    BY <1>2 DEF Owers
  <2>2. Cardinality(Owers(s)) = 0
    BY <2>1, FS_EmptySet
  <2>3. obj[s].ref \in Nat
    BY <1>4, BootSays, DbType DEF Freed
  <2>4. Wanted(s) => obj[s].ref > 0
    <3>1. Wanted(s) => obj[s].in_use
      BY <1>2 DEF Wanted
    <3>2. obj[s].in_use => DbFiles # {} /\ obj[s].ref = Cardinality(DbFiles)
      BY <1>4, BootSays DEF Freed
    <3>3. DbFiles # {} => Cardinality(DbFiles) # 0
      BY DbType, FS_EmptySet
    <3> QED BY <2>3, <3>1, <3>2, <3>3
  <2> QED BY <2>2, <2>3, <2>4 DEF Backed
<1>7. ASSUME NEW s \in Structs, NEW g \in FileStructs
      PROVE  PairClean(s, g)
  BY <1>4, BootSays, StructsType DEF PairClean, Freed
<1>8. OneGivesBack
  BY <1>2 DEF OneGivesBack, Given
<1>9. OnlyFirst
  <2>1. \A g \in DbFiles \X {1} : g[2] = 1
    OBVIOUS
  <2>2. \A s \in Structs : obj[s].files \subseteq DbFiles \X {1}
    BY <1>4, BootSays DEF Freed
  <2>3. \A g \in FileStructs : at[g] # NoTag => g \in DbFiles \X {1}
    BY <1>4, BootSays
  <2> QED BY <2>1, <2>2, <2>3 DEF OnlyFirst
<1> QED BY <1>3, <1>4, <1>5, <1>6, <1>7, <1>8, <1>9 DEF Clean

LEMMA NextCleanInv == CleanInv /\ [Next]_vars => CleanInv'
<1> SUFFICES ASSUME CleanInv, [Next]_vars PROVE CleanInv'
  OBVIOUS
<1>1. SInv /\ SInv'
  BY NextSInv DEF CleanInv
<1> SUFFICES ASSUME raced' = {} PROVE Clean'
  BY <1>1 DEF CleanInv
<1>2. Races' = {}
  BY <1>1 DEF SInv
<1>3. CASE UNCHANGED vars
  <2>1. Clean /\ UNCHANGED <<table, obj, at, thread, bad>>
    BY <1>3 DEF CleanInv, vars
  <2> QED BY <2>1 DEF Clean, Found, Valid, Backed, Wanted, Owers, ThreadClean, LinkClean,
             UnlinkClean, RemoveClean, PairClean, OneGivesBack, OnlyFirst
<1>4. CASE Restart
  <2>1. Booted' => Clean'
    BY BootClean, PTL
  <2> QED BY <1>4, <2>1, RestartBooted
<1>5. ASSUME raced' = raced \cup Races'
      PROVE  Races = {} /\ Clean
  BY <1>1, <1>5 DEF CleanInv, SInv
<1>6. ASSUME NEW i \in Threads, Goes_on(i)
      PROVE  Clean'
  <2>1. Races = {} /\ Clean /\ (Steps(i) \/ UsesFreed(i))
    BY <1>5, <1>6, RunsSteps DEF Goes_on
  <2> QED BY <1>1, <1>2, <2>1, NobodyUsesFreed, StepsClean
<1>7. ASSUME NEW i \in Threads, NEW r \in {"lookup", "list", "link", "unlink"},
             NEW f \in Files \cup {"none"}, Starts(i, r, f), raced' = raced \cup Races'
      PROVE  Clean'
  BY <1>1, <1>5, <1>7, StartsClean DEF Reqs
<1> QED BY <1>3, <1>4, <1>6, <1>7 DEF Next

LEMMA AlwaysCleanInv == Spec => []CleanInv
<1>1. Init => CleanInv
  BY InitBooted, BootSInv, BootClean DEF CleanInv
<1> QED BY <1>1, NextCleanInv, PTL DEF Spec

(* No thread touches a freed struct unless two structs had one name, one   *)
(* was removed in use, or a count changed under a thread: tag_dec_ref gives*)
(* back what compute_selected_tags took, frees once, and the count that    *)
(* tag_mkdir or .tags left keeps a tag in use (tag.c:20-33,100-146).       *)
THEOREM FreedAfterRaces == Spec => []FreedOnlyAfterRace
<1>1. CleanInv => FreedOnlyAfterRace
  BY DEF CleanInv, Clean, FreedOnlyAfterRace
<1> QED BY <1>1, AlwaysCleanInv, PTL

(* Without those races, and between links and unlinks, the table, the      *)
(* files and the structs say the same, however many threads look names up, *)
(* list the root and remove what they have made (tag.c:73-146, file.c).    *)
THEOREM IndexesAgreeWithoutRaces == Spec => []AgreeWithoutRace
<1>1. CleanInv => AgreeWithoutRace
  <2> SUFFICES ASSUME CleanInv, raced = {}, \A i \in Threads : ~Modifies(i),
                      NEW g \in FileStructs, NEW s \in Structs
               PROVE  (at[g] = s) <=> (table = <<s>> /\ obj[s].in_use /\ g \in obj[s].files)
    BY DEF AgreeWithoutRace
  <2>1. TypesInv /\ Races = {} /\ PairClean(s, g)
    BY DEF CleanInv, SInv, AInv, Clean
  <2>2. ASSUME NEW i \in Threads
        PROVE  thread[i].pc \notin {"tag_t", "untag_t"}
    BY <2>1, <2>2, RecordType DEF Modifies, Shape, Linking, Unlinking
  <2>3. at[g] = s => table = <<s>>
    <3>1. at[g] = s => Uses(s)
      BY DEF Uses
    <3> QED BY <2>1, <3>1, UsedIsFound
  <2> QED BY <2>1, <2>2, <2>3 DEF PairClean
<1> QED BY <1>1, AlwaysCleanInv, PTL

------------------------------------------------------------------------------
(* While no count changes under a thread and the tag has one struct, even  *)
(* if it is removed in use, and whatever structs a file has.               *)

(* Files or a link have the struct.                                        *)
Kept(s) == \/ \E g \in FileStructs : at[g] = s
           \/ \E i \in Threads : LinkCounted(thread[i]) /\ thread[i].t = s

(* Nothing leads to the struct any more but lookups and an unlink.         *)
Gone(s) == /\ Found # s
           /\ \A g \in FileStructs : at[g] # s
           /\ \A i \in Threads : thread[i].req = "link" => thread[i].t # s /\ thread[i].u # s

(* Short of that, its counts cover who has one to give back, and one more  *)
(* while it is kept.                                                       *)
Covered(s) == \/ Gone(s)
              \/ /\ obj[s].ref >= Cardinality(Owers(s))
                 /\ Kept(s) => obj[s].ref > Cardinality(Owers(s))

InUseAt(s) == (\E g \in FileStructs : at[g] = s) =>
    \/ obj[s].in_use
    \/ \E i \in Threads : thread[i].pc = "tag_t" /\ thread[i].t = s

(* An unlink gives back a second count only of a struct that has lost its  *)
(* name and is not in use.                                                 *)
GivesBack(i) == LET r == thread[i] IN
    /\ r.pc \in {"dec", "dec2"} \cup Given => Found # r.t
    /\ r.pc \in {"zero", "free"} => r.n = 0
    /\ r.req = "unlink" =>
          /\ r.pc = "del" => obj[r.t].in_use \/ Found # r.t
          /\ r.pc \in Removing \cup Giving \cup Given /\ r.then = "idle" =>
                ~obj[r.t].in_use /\ Found # r.t
    /\ r.req = "link" =>
          /\ r.pc = "del" => obj[r.t].in_use
          /\ r.pc \notin Removing \cup Giving \cup Given

Keeps == /\ \A s \in Structs : Covered(s) /\ InUseAt(s)
         /\ \A i \in Threads : GivesBack(i)

Counts_right == raced \subseteq {"removed in use", "file added twice"}
KeepInv == SInv /\ (Up /\ Counts_right => Keeps)

(* What that leaves of the races.                                          *)
OneStruct == ~(Len(table) > 1)
NoneLost == \A i \in Threads : thread[i].pc \in Between =>
                obj[thread[i].u].ref = thread[i].n

LEMMA CountsRight ==
  ASSUME Races \subseteq raced, Counts_right
  PROVE  OneStruct /\ NoneLost
<1>1. "tag added twice" \notin Races /\ "count changed" \notin Races
  BY DEF Counts_right
<1> QED BY <1>1, RacesAre DEF OneStruct, NoneLost

(* A struct whose count a step leaves alone.                               *)
LEMMA StructKeeps ==
  ASSUME SInv, Keeps, NEW i \in Threads, Steps(i), NEW s \in Structs,
         obj'[s].ref = obj[s].ref, Kept(s)' => Kept(s), Found' = s => Found = s,
         \A g \in FileStructs : at'[g] = s =>
            at[g] = s \/ (thread'[i].pc = "tag_t" /\ thread'[i].t = s),
         thread'[i].req = "link" => (thread'[i].t = s \/ thread'[i].u = s => ~Gone(s)),
         ~(thread[i].pc = "inc2" /\ thread[i].t = s) \/ i \notin Owers(s)',
         \/ (obj[s].in_use \/ (thread[i].pc = "tag_t" /\ thread[i].t = s) => obj'[s].in_use)
         \/ \A g \in FileStructs : at'[g] # s
  PROVE  Covered(s)' /\ InUseAt(s)'
<1>1. /\ TypesInv /\ Only(i) /\ Shape(thread'[i])
      /\ \A j \in Threads : j # i => thread'[j] = thread[j]
  BY StepsOnly DEF SInv, AInv, Only, Follows
<1>2. thread'[i].pc = "tag_t" => thread'[i].req = "link"
  BY <1>1 DEF Shape, Linking
<1>3. Covered(s) /\ InUseAt(s)
  BY DEF Keeps
<1>4. ASSUME Gone(s)
      PROVE  Covered(s)'
  <2>1. Found' # s /\ \A g \in FileStructs : at'[g] # s
    BY <1>2, <1>4 DEF Gone
  <2>2. ASSUME NEW j \in Threads, thread'[j].req = "link"
        PROVE  thread'[j].t # s /\ thread'[j].u # s
    BY <1>1, <1>4, <2>2 DEF Gone
  <2>3. Gone(s)'
    BY <2>1, <2>2 DEF Gone
  <2> QED BY <2>3 DEF Covered
<1>5. ASSUME ~Gone(s)
      PROVE  Covered(s)'
  <2>1. /\ Cardinality(Owers(s)') <= Cardinality(Owers(s))
        /\ Cardinality(Owers(s)') \in Nat /\ Cardinality(Owers(s)) \in Nat
    BY <1>1, StepsOwers DEF SInv
  <2>2. obj[s].ref \in Int
    BY <1>1 DEF TypesInv, Object
  <2> QED BY <1>3, <1>5, <2>1, <2>2 DEF Covered
<1>6. InUseAt(s)'
  BY <1>1, <1>3 DEF InUseAt
<1> QED BY <1>4, <1>5, <1>6

(* A struct that a step does not give to a file.                           *)
LEMMA KeptStays ==
  ASSUME TypesInv, NEW i \in Threads, Steps(i), NEW s \in Structs,
         thread[i].pc # "inc2" \/ thread[i].then = "fget",
         \A g \in FileStructs : at'[g] = s => Kept(s)
  PROVE  Kept(s)' => Kept(s)
<1>1. Only(i)
  BY StepsOnly
<1>2. ASSUME NEW j \in Threads, LinkCounted(thread'[j]), thread'[j].t = s
      PROVE  LinkCounted(thread[j]) /\ thread[j].t = s
  <2>1. j = i => thread[i].req = "link"
    BY <1>1, <1>2, IdleType DEF Only, Follows, LinkCounted
  <2>2. thread[i].req = "link" /\ thread[i].pc = "inc2" => LinkCounted(thread[i])
    BY DEF LinkCounted, Looking, Counting
  <2> QED BY <1>1, <1>2, <2>1, <2>2 DEF Only, Follows
<1> QED BY <1>2 DEF Kept

(* What the others do to the tag of an unlink, and of a link that is done. *)
LEMMA OthersGiveBack ==
  ASSUME TypesInv, NEW j \in Threads, GivesBack(j), thread'[j] = thread[j],
         NEW s \in Structs \cup {NoTag}, s = thread[j].t, Found' = s => Found = s \/ s = NoTag,
         s # NoTag /\ thread[j].req = "link" /\ thread[j].pc = "del" =>
            (obj[s].in_use => obj'[s].in_use),
         s # NoTag /\ thread[j].req = "unlink" => (obj'[s].in_use => obj[s].in_use),
         s # NoTag /\ thread[j].req = "unlink" =>
            (obj[s].in_use => obj'[s].in_use \/ Found' # s)
  PROVE  GivesBack(j)'
<1>1. thread[j].pc \in {"del"} \cup Removing \cup Giving \cup Given => s # NoTag
  BY RecordType, HasStruct, StructsType
<1> QED BY <1>1 DEF GivesBack, Removing, Giving, Given

(* A step that takes nothing but a tag from a file, or a name from a table.*)
Loosens(i) ==
    /\ Found' \in {Found, NoTag}
    /\ thread[i].pc \notin {"inc2", "tag_t"}
    /\ \A g \in FileStructs : at'[g] \in {at[g], NoTag}
    /\ \A s \in Structs : obj'[s].ref = obj[s].ref /\ obj'[s].in_use = obj[s].in_use
    /\ thread'[i].req = "link" => /\ thread[i].req = "link"
                                  /\ thread'[i].t \in {thread[i].t, Found, NoTag}
                                  /\ thread'[i].u \in {thread[i].u, Found, NoTag}
    /\ GivesBack(i)'

LEMMA KeepsLoosed ==
  ASSUME SInv, Keeps, NEW i \in Threads, Steps(i), Loosens(i)
  PROVE  Keeps'
<1>1. TypesInv /\ Only(i)
  BY StepsOnly DEF SInv, AInv
<1>2. ASSUME NEW s \in Structs
      PROVE  Covered(s)' /\ InUseAt(s)'
  <2>1. Found' = s => Found = s
    BY StructsType DEF Loosens
  <2>2. \A g \in FileStructs : at'[g] = s => at[g] = s
    BY StructsType DEF Loosens
  <2>3. Kept(s)' => Kept(s)
    BY <1>1, <2>2, KeptStays DEF Kept, Loosens
  <2>4. thread'[i].req = "link" => (thread'[i].t = s \/ thread'[i].u = s => ~Gone(s))
    BY StructsType DEF Gone, Loosens
  <2> QED BY <2>1, <2>2, <2>3, <2>4, StructKeeps DEF Loosens
<1>3. ASSUME NEW j \in Threads
      PROVE  GivesBack(j)'
  <2>1. CASE j # i
    <3>1. GivesBack(j) /\ thread'[j] = thread[j] /\ thread[j].t \in Structs \cup {NoTag}
      BY <1>1, <2>1, RecordType DEF Keeps, Only, Record
    <3> QED BY <1>1, <3>1, StructsType, OthersGiveBack DEF Loosens
  <2> QED BY <2>1 DEF Loosens
<1> QED BY <1>2, <1>3 DEF Keeps

Loose(i) == \/ Quiet(i) \/ file_remove_tag(i) \/ tag_remove_file(i) \/ Pops(i) \/ Drops(i)

LEMMA LooseSteps ==
  ASSUME SInv, OneStruct, NoneLost, Keeps, NEW i \in Threads, Steps(i), Loose(i)
  PROVE  Loosens(i)
<1> DEFINE r == thread[i]
<1>1. /\ TypesInv /\ r \in Record /\ Shape(r) /\ GivesBack(i) /\ thread \in [Threads -> Record]
      /\ obj \in [Structs -> Object] /\ table \in Seq(Structs)
      /\ at \in [FileStructs -> Structs \cup {NoTag}]
  BY RecordType DEF SInv, AInv, Keeps, TypesInv
<1>2. ASSUME UNCHANGED <<table, obj>>
      PROVE  /\ Found' \in {Found, NoTag}
             /\ \A s \in Structs : obj'[s].ref = obj[s].ref /\ obj'[s].in_use = obj[s].in_use
  BY <1>2 DEF Found
<1>3. ASSUME Gets(i, "get", "get2") \/ Gets(i, "get2", "add")
      PROVE  Loosens(i)
  <2>1. UNCHANGED <<table, obj, at>> /\ r.pc \in {"get", "get2"}
    BY <1>3 DEF Gets, At
  <2>2. CASE Found = NoTag
    <3>1. /\ thread'[i].pc \in {"get2", "add"} /\ thread'[i].req = r.req
          /\ thread'[i].t = r.t /\ thread'[i].u = r.u
      BY <1>1, <1>3, <2>2 DEF Gets, Record
    <3> QED BY <1>2, <2>1, <3>1 DEF Loosens, GivesBack, Removing, Giving, Given
  <2>3. CASE Found # NoTag
    <3>1. /\ thread'[i].pc = "inc" /\ thread'[i].req = r.req
          /\ thread'[i].t = Found /\ thread'[i].u = Found
      BY <1>1, <1>3, <2>3 DEF Gets, Record
    <3> QED BY <1>2, <2>1, <3>1 DEF Loosens, GivesBack, Removing, Giving, Given
  <2> QED BY <2>2, <2>3
<1>4. ASSUME Loads(i, "inc", "inc2") \/ Loads(i, "dec", "dec2")
      PROVE  Loosens(i)
  <2>1. UNCHANGED <<table, obj, at>> /\ Found' = Found
    BY <1>4 DEF Loads, Found
  <2>2. /\ \/ r.pc = "inc" /\ thread'[i].pc = "inc2"
           \/ r.pc = "dec" /\ thread'[i].pc = "dec2"
        /\ thread'[i].req = r.req /\ thread'[i].u = r.u
        /\ thread'[i].t = r.t /\ thread'[i].then = r.then
    BY <1>1, <1>4 DEF Loads, At, Record
  <2> QED BY <1>1, <1>2, <2>1, <2>2 DEF Loosens, GivesBack, Removing, Giving, Given
<1>5. ASSUME MkdirGets(i)
      PROVE  Loosens(i)
  <2>1. r.pc = "mkget" /\ UNCHANGED <<table, obj, at>>
    BY <1>5 DEF MkdirGets, At
  <2>2. CASE Found = NoTag
    <3>1. Goes(i, "mkadd")
      BY <1>5, <2>2 DEF MkdirGets
    <3>2. /\ thread'[i].pc = "mkadd" /\ thread'[i].req = r.req
          /\ thread'[i].t = r.t /\ thread'[i].u = r.u
      BY <1>1, <3>1, GoesFields
    <3> QED BY <1>2, <2>1, <3>2 DEF Loosens, GivesBack, Removing, Giving, Given
  <2>3. CASE Found # NoTag
    <3>1. /\ thread'[i].pc = "inc" /\ thread'[i].req = r.req
          /\ thread'[i].t = r.t /\ thread'[i].u = Found
      BY <1>1, <1>5, <2>3 DEF MkdirGets, Counts, Record
    <3> QED BY <1>2, <2>1, <3>1 DEF Loosens, GivesBack, Removing, Giving, Given
  <2> QED BY <2>2, <2>3
<1>6. ASSUME EmptyTag(i)
      PROVE  Loosens(i)
  <2>1. /\ UNCHANGED <<table, obj, at>> /\ r.pc = "empty" /\ r.req = "unlink"
        /\ r.t \in Structs /\ Found' = Found
    BY <1>1, <1>6, HasStruct DEF EmptyTag, At, Shape, Unlinking, Found
  <2>2. /\ thread'[i].pc = IF obj[r.t].files = {} THEN "collect" ELSE "del"
        /\ thread'[i].req = r.req /\ thread'[i].t = r.t /\ thread'[i].then = "del"
    BY <1>1, <1>6 DEF EmptyTag, Record
  <2>3. obj[r.t].files # {} => obj[r.t].in_use
    BY <2>1 DEF SInv, AllPlain, Plain
  <2> QED BY <1>2, <2>1, <2>2, <2>3 DEF Loosens, GivesBack, Giving, Given
<1>7. ASSUME Collects(i) \/ Unlocks(i)
      PROVE  Loosens(i)
  <2>1. UNCHANGED <<table, obj, at>> /\ r.pc \in {"collect", "unlock"} /\ Found' = Found
    BY <1>7 DEF Collects, Unlocks, At, Found
  <2>2. /\ thread'[i].pc \in {"unlock", "strip"} /\ thread'[i].u = r.u
        /\ thread'[i].req = r.req /\ thread'[i].t = r.t /\ thread'[i].then = r.then
    <3>1. CASE Collects(i)
      BY <1>1, <3>1 DEF Collects, Record
    <3>2. CASE Unlocks(i)
      BY <1>1, <3>2, GoesFields DEF Unlocks
    <3> QED BY <1>7, <3>1, <3>2
  <2> QED BY <1>1, <1>2, <2>1, <2>2 DEF Loosens, GivesBack, Removing, Giving, Given
<1>8. ASSUME Strips(i)
      PROVE  Loosens(i)
  <2>1. UNCHANGED <<table, obj>> /\ r.pc = "strip" /\ Found' = Found
    BY <1>8 DEF Strips, At, Found
  <2>2. /\ thread'[i].pc \in {"pop", "strip"} /\ thread'[i].u \in {r.u, r.t}
        /\ thread'[i].req = r.req /\ thread'[i].t = r.t /\ thread'[i].then = r.then
    <3>1. CASE Counts(i, r.t, "pop", r.then)
      BY <1>1, <3>1 DEF Counts, Record
    <3>2. CASE \E g \in r.todo : thread' = [thread EXCEPT ![i].todo = @ \ {g}]
      BY <1>1, <2>1, <3>2 DEF Record
    <3> QED BY <1>8, <3>1, <3>2 DEF Strips
  <2>3. \A g \in FileStructs : at'[g] \in {at[g], NoTag}
    BY <1>1, <1>8 DEF Strips
  <2>4. r.req # "link"
    BY <1>1, <2>1 DEF GivesBack, Removing
  <2> QED BY <1>1, <1>2, <2>1, <2>2, <2>3, <2>4 DEF Loosens, GivesBack, Removing, Giving, Given
<1>9. ASSUME Deletes(i)
      PROVE  Loosens(i)
  <2>1. UNCHANGED <<table, obj, at>> /\ r.pc = "del" /\ Found' = Found
    BY <1>9 DEF Deletes, At, Found
  <2>2. CASE obj[r.t].in_use
    <3>1. thread'[i] = Idle
      BY <1>1, <1>9, <2>2 DEF Deletes
    <3> QED BY <1>2, <2>1, <3>1, IdleType DEF Loosens, GivesBack, Given
  <2>3. CASE ~obj[r.t].in_use
    <3>1. thread'[i].pc = "collect" /\ thread'[i].req = r.req /\ thread'[i].t = r.t
      BY <1>1, <1>9, <2>3 DEF Deletes, Record
    <3> QED BY <1>1, <1>2, <2>1, <2>3, <3>1 DEF Loosens, GivesBack, Giving, Given
  <2> QED BY <2>2, <2>3
<1>10. ASSUME file_remove_tag(i) \/ tag_remove_file(i)
       PROVE  Loosens(i)
  <2>1. UNCHANGED table /\ r.pc \in {"untag_f", "untag_t"} /\ Found' = Found
    BY <1>10 DEF file_remove_tag, tag_remove_file, At, Found
  <2>2. /\ thread'[i].pc \in {"untag_t", "empty"} /\ thread'[i].u = r.u
        /\ thread'[i].req = r.req /\ thread'[i].t = r.t
    BY <1>1, <1>10, GoesFields DEF file_remove_tag, tag_remove_file
  <2>3. \A g \in FileStructs : at'[g] \in {at[g], NoTag}
    BY <1>1, <1>10 DEF file_remove_tag, tag_remove_file
  <2>4. \A s \in Structs : obj'[s].ref = obj[s].ref /\ obj'[s].in_use = obj[s].in_use
    <3>1. CASE file_remove_tag(i)
      BY <3>1 DEF file_remove_tag
    <3>2. CASE tag_remove_file(i)
      <4>1. r.t \in Structs /\ obj' = [obj EXCEPT ![r.t].files = @ \ Named(r.f)]
        BY <1>1, <2>1, <3>2, HasStruct DEF tag_remove_file, Unlinking
      <4> QED BY <1>1, <4>1 DEF Object
    <3> QED BY <1>10, <3>1, <3>2
  <2> QED BY <1>1, <2>1, <2>2, <2>3, <2>4 DEF Loosens, GivesBack, Removing, Giving, Given
<1>11. ASSUME Pops(i) \/ Drops(i)
       PROVE  Loosens(i)
  <2>1. /\ UNCHANGED <<obj, at>> /\ table' = Without(table)
        /\ \/ r.pc = "pop" /\ Goes(i, "dec")
           \/ r.pc = "zero" /\ Goes(i, "free")
    BY <1>11 DEF Pops, Drops, At
  <2>2. r.t \in Structs
    BY <1>1, <2>1, HasStruct DEF Giving, Given
  <2>3. /\ \/ r.pc = "pop" /\ thread'[i].pc = "dec"
           \/ r.pc = "zero" /\ thread'[i].pc = "free"
        /\ thread'[i].u = r.u /\ thread'[i].then = r.then /\ thread'[i].n = r.n
        /\ thread'[i].req = r.req /\ thread'[i].t = r.t
    BY <1>1, <2>1, GoesFields
  <2>4. Found' = NoTag
    <3>1. Without(table) = <<>>
      BY <1>1 DEF Without, OneStruct
    <3> QED BY <2>1, <3>1 DEF Found
  <2> QED BY <1>1, <2>1, <2>2, <2>3, <2>4, StructsType DEF Loosens, GivesBack, Removing, Giving, Given
(* The value tested is the count: the struct is freed when it is zero.     *)
<1>12. ASSUME Tests(i)
       PROVE  Loosens(i)
  <2>1. UNCHANGED <<table, obj, at>> /\ Found' = Found /\ r.pc = "test"
    BY <1>12 DEF Tests, At, Found
  <2>2. obj[r.u].ref = r.n /\ r.t \in Structs /\ Found # r.t
    BY <1>1, <2>1, HasStruct DEF NoneLost, Between, Given, GivesBack
  <2>3. IF r.n = 0 THEN Goes(i, "zero") ELSE Counted(i)
    <3>1. PICK n \in {r.n, obj[r.u].ref} : IF n = 0 THEN Goes(i, "zero") ELSE Counted(i)
      BY <1>12 DEF Tests
    <3> QED BY <2>2, <3>1
  <2>4. r.req # "link"
    BY <1>1, <2>1 DEF GivesBack, Given
  <2>5. CASE r.n = 0
    <3>1. /\ thread'[i].pc = "zero" /\ thread'[i].req = r.req /\ thread'[i].t = r.t
          /\ thread'[i].then = r.then /\ thread'[i].n = 0
      BY <1>1, <2>3, <2>5, GoesFields
    <3> QED BY <1>1, <1>2, <2>1, <2>2, <2>4, <3>1 DEF Loosens, GivesBack, Removing, Giving, Given
  <2>6. CASE r.n # 0 /\ r.then = "idle"
    <3>1. thread'[i] = Idle
      BY <1>1, <2>3, <2>6 DEF Counted
    <3> QED BY <1>2, <2>1, <3>1, IdleType DEF Loosens, GivesBack, Given
  <2>7. CASE r.n # 0 /\ r.then # "idle"
    <3>1. r.then = "del"
      BY <1>1, <2>1, <2>7 DEF Shape, Given
    <3>2. thread' = [thread EXCEPT ![i] =
                       [r EXCEPT !.pc = r.then, !.u = NoTag, !.n = 0, !.then = "idle"]]
      BY <2>3, <2>7 DEF Counted
    <3>3. thread'[i].pc = "del" /\ thread'[i].req = r.req /\ thread'[i].t = r.t
      <4> HIDE DEF r
      <4> QED BY <1>1, <3>1, <3>2 DEF Record
    <3> QED BY <1>2, <2>1, <2>2, <2>4, <3>3 DEF Loosens, GivesBack, Removing, Giving, Given
  <2> QED BY <2>5, <2>6, <2>7
<1>13. ASSUME GetsFile(i) \/ file_get_or_create(i)
       PROVE  Loosens(i)
  <2>1. /\ UNCHANGED <<table, obj, at>> /\ Found' = Found /\ r.pc \in Filing
        /\ r.f \in Files /\ r.req \in Reqs
    BY <1>1, <1>13 DEF GetsFile, file_get_or_create, At, Found, Filing, Shape
  <2>2. /\ thread'[i].pc \in {"fget", "fadd", "untag_f", "tag_f", "next", "del"}
        /\ thread'[i].pc = "del" => r.req = "lookup"
        /\ thread'[i].req = r.req /\ thread'[i].t = r.t /\ thread'[i].u = r.u
    <3>1. CASE file_get_or_create(i)
      <4>1. Goes(i, IF r.req = "link" THEN "fget" ELSE With(r.req))
        BY <3>1 DEF file_get_or_create
      <4>2. /\ thread'[i].pc = IF r.req = "link" THEN "fget" ELSE With(r.req)
            /\ thread'[i].req = r.req /\ thread'[i].t = r.t /\ thread'[i].u = r.u
        BY <1>1, <4>1, GoesFields
      <4> QED BY <2>1, <4>2, WithType DEF Reqs
    <3>2. CASE GetsFile(i) /\ Known(r.f)
      <4>1. /\ thread'[i].pc = With(r.req)
            /\ thread'[i].req = r.req /\ thread'[i].t = r.t /\ thread'[i].u = r.u
        BY <1>1, <3>2 DEF GetsFile, Record
      <4> QED BY <2>1, <4>1, WithType DEF Reqs
    <3>3. CASE GetsFile(i) /\ ~Known(r.f)
      <4>1. r.req # "unlink"
        BY <3>3 DEF SInv, UnlinksKnown
      <4>2. /\ thread'[i].pc = "fadd"
            /\ thread'[i].req = r.req /\ thread'[i].t = r.t /\ thread'[i].u = r.u
        BY <1>1, <3>3, <4>1 DEF GetsFile, Record
      <4> QED BY <4>2
    <3> QED BY <1>13, <3>1, <3>2, <3>3
  <2> QED BY <1>2, <2>1, <2>2 DEF Loosens, GivesBack, Filing, Removing, Giving, Given
<1>14. ASSUME tag_list(i) \/ Sees(i) \/ NextFile(i)
       PROVE  Loosens(i)
  <2>1. UNCHANGED <<table, obj, at>> /\ r.pc \in Listing
    BY <1>14 DEF tag_list, Sees, NextFile, At, Listing
  <2>2. r.req = "list"
    BY <1>1, <2>1 DEF Shape
  <2>3. thread'[i] = Idle \/ (thread'[i].pc \in Listing \cup Filing /\ thread'[i].req = "list")
    <3>1. Shape(thread'[i]) /\ (thread'[i] = Idle \/ thread'[i].req = r.req)
      BY <1>1, StepsOnly DEF Only, Follows
    <3> QED BY <2>2, <3>1 DEF Shape
  <2> QED BY <1>2, <2>1, <2>3, IdleType DEF Loosens, GivesBack, Listing, Filing, Given
<1> QED BY <1>3, <1>4, <1>5, <1>6, <1>7, <1>8, <1>9, <1>10, <1>11, <1>12, <1>13, <1>14
        DEF Loose, Quiet

(* A struct that a thread adds is not counted yet, nor kept.               *)
LEMMA AddsKeeps ==
  ASSUME SInv, Keeps, NEW i \in Threads, Steps(i), Adds(i) \/ MkdirAdds(i)
  PROVE  Keeps'
<1> DEFINE r == thread[i]
           x == Fresh
<1>1. /\ TypesInv /\ r \in Record /\ Shape(r) /\ GivesBack(i) /\ thread \in [Threads -> Record]
      /\ obj \in [Structs -> Object] /\ table \in Seq(Structs)
  BY RecordType DEF SInv, AInv, Keeps, TypesInv
<1>2. /\ r.pc \in {"add", "mkadd"} /\ UNCHANGED at
      /\ x \in Structs /\ \A g \in FileStructs : at[g] # x
      /\ \A j \in Threads : thread[j].t # x /\ thread[j].u # x
  BY FreshIsFresh DEF Adds, MkdirAdds, At
<1>3. \E use \in BOOLEAN : obj' = [obj EXCEPT ![x] = new(use)]
  BY DEF Adds, MkdirAdds
<1>4. /\ thread'[i].pc = "inc" /\ thread'[i].req = r.req /\ thread'[i].u = x
      /\ thread'[i].t \in {r.t, x} /\ (r.pc = "mkadd" => thread'[i].t = r.t)
      /\ thread'[i].then \in {Body(r.req), "fget"}
      /\ (r.pc = "add" => thread'[i].then = Body(r.req))
      /\ \A j \in Threads : j # i => thread'[j] = thread[j]
  <2>1. CASE Adds(i)
    BY <1>1, <2>1 DEF Adds, At, Record
  <2>2. CASE MkdirAdds(i)
    BY <1>1, <2>2 DEF MkdirAdds, At, Counts, Record
  <2> QED BY <2>1, <2>2
<1>5. table' = <<x>> \o table
  BY DEF Adds, MkdirAdds
<1> HIDE DEF x
<1>6. Found' = x
  <2>1. table' # <<>> /\ Head(table') = x
    BY <1>1, <1>2, <1>5
  <2> QED BY <2>1 DEF Found
<1>7. obj'[x].ref = 0 /\ \A s \in Structs : s # x => obj'[s] = obj[s]
  BY <1>1, <1>2, <1>3 DEF new
<1>8. ASSUME NEW s \in Structs, s # x
      PROVE  Covered(s)' /\ InUseAt(s)'
  <2>1. Kept(s)' => Kept(s)
    BY <1>1, <1>2, KeptStays DEF Kept
  <2>2. thread'[i].req = "link" => (thread'[i].t = s \/ thread'[i].u = s => ~Gone(s))
    BY <1>4, <1>8 DEF Gone
  <2> QED BY <1>1, <1>2, <1>6, <1>7, <1>8, <2>1, <2>2, StructKeeps
<1>9. ASSUME NEW s \in Structs, s = x
      PROVE  Covered(s)' /\ InUseAt(s)'
  <2>1. Owers(s)' = {}
    <3>1. ~Owes(thread'[i])
      BY <1>4 DEF Owes, Filing, Unlinking, Removing, Giving, Given
    <3> QED BY <1>2, <1>4, <1>9, <3>1 DEF Owers
  <2>2. Cardinality(Owers(s)') = 0
    BY <2>1, FS_EmptySet
  <2>3. \A g \in FileStructs : at'[g] # s
    BY <1>2, <1>9
  <2>4. ~Kept(s)'
    <3>1. LinkCounted(thread'[i]) => r.pc = "mkadd"
      BY <1>1, <1>2, <1>4, BodyType DEF LinkCounted, Counting, Shape, Looking
    <3> QED BY <1>2, <1>4, <1>9, <2>3, <3>1 DEF Kept
  <2> QED BY <1>7, <1>9, <2>2, <2>3, <2>4 DEF Covered, InUseAt
<1>10. ASSUME NEW j \in Threads
       PROVE  GivesBack(j)'
  <2>1. CASE j = i
    BY <1>4, <2>1 DEF GivesBack, Removing, Giving, Given
  <2>2. CASE j # i
    <3>1. GivesBack(j) /\ thread'[j] = thread[j] /\ thread[j].t \in Structs \cup {NoTag}
      BY <1>1, <1>4, <2>2, RecordType DEF Keeps, Record
    <3> QED BY <1>1, <1>2, <1>6, <1>7, <3>1, OthersGiveBack
  <2> QED BY <2>1, <2>2
<1> QED BY <1>8, <1>9, <1>10 DEF Keeps

(* tag_mkdir puts in use what it finds.                                    *)
LEMMA MkdirKeeps ==
  ASSUME SInv, Keeps, NEW i \in Threads, Steps(i), Mkdir(i)
  PROVE  Keeps'
<1> DEFINE r == thread[i]
<1>1. /\ TypesInv /\ r \in Record /\ Shape(r) /\ obj \in [Structs -> Object]
      /\ table \in Seq(Structs)
  BY RecordType DEF SInv, AInv, TypesInv
<1>2. r.pc = "mkdir" /\ r.req = "link" /\ UNCHANGED <<table, at>> /\ Found' = Found
  BY <1>1 DEF Mkdir, At, Shape, Linking, Found
<1>3. /\ thread'[i].pc \in {"mkget", "fget"} /\ thread'[i].req = "link"
      /\ thread'[i].t = r.t /\ thread'[i].u = r.u
      /\ \A j \in Threads : j # i => thread'[j] = thread[j]
  BY <1>1, <1>2, GoesFields DEF Mkdir
<1>4. \A s \in Structs : obj'[s].ref = obj[s].ref /\ (obj[s].in_use => obj'[s].in_use)
  <2>1. CASE Found = NoTag
    BY <2>1 DEF Mkdir
  <2>2. CASE Found # NoTag
    <3>1. Found \in Structs /\ obj' = [obj EXCEPT ![Found].in_use = TRUE]
      BY <1>1, <2>2, FoundType DEF Mkdir
    <3> QED BY <1>1, <3>1 DEF Object
  <2> QED BY <2>1, <2>2
<1>5. ASSUME NEW s \in Structs
      PROVE  Covered(s)' /\ InUseAt(s)'
  <2>1. Kept(s)' => Kept(s)
    BY <1>1, <1>2, KeptStays DEF Kept
  <2>2. thread'[i].req = "link" => (thread'[i].t = s \/ thread'[i].u = s => ~Gone(s))
    BY <1>2, <1>3 DEF Gone
  <2> QED BY <1>1, <1>2, <1>4, <2>1, <2>2, StructKeeps
<1>6. ASSUME NEW j \in Threads
      PROVE  GivesBack(j)'
  <2>1. CASE j = i
    BY <1>3, <2>1 DEF GivesBack, Removing, Giving, Given
  <2>2. CASE j # i
    <3>1. GivesBack(j) /\ thread'[j] = thread[j] /\ thread[j].t \in Structs \cup {NoTag}
      BY <1>1, <1>3, <2>2, RecordType DEF Keeps, Record
    <3>2. thread[j].req # "unlink"
      BY <1>2, <2>2 DEF SInv, OneModifier, Modifies
    <3> QED BY <1>1, <1>2, <1>4, <3>1, <3>2, OthersGiveBack
  <2> QED BY <2>1, <2>2
<1> QED BY <1>5, <1>6 DEF Keeps

(* tag_file: the link has counted the tag that it gives to the file, and   *)
(* puts it in use.                                                         *)
LEMMA FileAddKeeps ==
  ASSUME SInv, Keeps, NEW i \in Threads, Steps(i), file_add_tag(i)
  PROVE  Keeps'
<1> DEFINE r == thread[i]
<1>1. /\ TypesInv /\ r \in Record /\ Shape(r)
      /\ at \in [FileStructs -> Structs \cup {NoTag}]
  BY RecordType DEF SInv, AInv, TypesInv
<1>2. /\ r.pc = "tag_f" /\ r.req = "link" /\ UNCHANGED <<table, obj>> /\ Found' = Found
      /\ r.g \in FileStructs /\ LinkCounted(r)
  BY <1>1 DEF file_add_tag, At, Shape, Linking, Found, LinkCounted, Looking, Counting
<1>3. /\ thread'[i].pc = "tag_t" /\ thread'[i].req = "link"
      /\ thread'[i].t = r.t /\ thread'[i].u = r.u
      /\ \A j \in Threads : j # i => thread'[j] = thread[j]
  BY <1>1, <1>2, GoesFields DEF file_add_tag
<1>4. \A g \in FileStructs : at'[g] = at[g] \/ at'[g] = r.t
  BY <1>1, <1>2 DEF file_add_tag
<1>5. ASSUME NEW s \in Structs
      PROVE  Covered(s)' /\ InUseAt(s)'
  <2>1. \A g \in FileStructs : at'[g] = s => Kept(s)
    BY <1>2, <1>4 DEF Kept
  <2>2. Kept(s)' => Kept(s)
    BY <1>1, <1>2, <2>1, KeptStays
  <2>3. thread'[i].req = "link" => (thread'[i].t = s \/ thread'[i].u = s => ~Gone(s))
    BY <1>2, <1>3 DEF Gone
  <2> QED BY <1>1, <1>2, <1>3, <1>4, <2>2, <2>3, StructKeeps
<1>6. ASSUME NEW j \in Threads
      PROVE  GivesBack(j)'
  <2>1. CASE j = i
    BY <1>3, <2>1 DEF GivesBack, Removing, Giving, Given
  <2>2. CASE j # i
    <3>1. GivesBack(j) /\ thread'[j] = thread[j] /\ thread[j].t \in Structs \cup {NoTag}
      BY <1>1, <1>3, <2>2, RecordType DEF Keeps, Record
    <3> QED BY <1>1, <1>2, <3>1, OthersGiveBack
  <2> QED BY <2>1, <2>2
<1> QED BY <1>5, <1>6 DEF Keeps

LEMMA TagAddKeeps ==
  ASSUME SInv, Keeps, NEW i \in Threads, Steps(i), tag_add_file(i)
  PROVE  Keeps'
<1> DEFINE r == thread[i]
           F == IF obj[r.t].files \cap Named(r.f) = {} THEN obj[r.t].files \cup {r.g}
                ELSE obj[r.t].files
<1>1. /\ TypesInv /\ r \in Record /\ Shape(r) /\ obj \in [Structs -> Object]
  BY RecordType DEF SInv, AInv, TypesInv
<1>2. /\ r.pc = "tag_t" /\ r.req = "link" /\ UNCHANGED <<table, at>> /\ Found' = Found
      /\ r.t \in Structs
      /\ obj' = [obj EXCEPT ![r.t] = [obj[r.t] EXCEPT !.in_use = TRUE, !.files = F]]
  <2>1. r.pc = "tag_t" /\ r.req = "link" /\ r.t \in Structs
    BY <1>1, HasStruct DEF tag_add_file, At, Shape, Linking
  <2> QED BY <1>1, <2>1 DEF tag_add_file, Found
<1> HIDE DEF F
<1>3. /\ thread'[i].pc = "del" /\ thread'[i].req = "link"
      /\ thread'[i].t = r.t /\ thread'[i].u = r.u
      /\ \A j \in Threads : j # i => thread'[j] = thread[j]
  BY <1>1, <1>2, GoesFields DEF tag_add_file
<1>4. /\ obj'[r.t].in_use
      /\ \A s \in Structs : obj'[s].ref = obj[s].ref /\ (obj[s].in_use => obj'[s].in_use)
  <2>1. obj'[r.t] = [obj[r.t] EXCEPT !.in_use = TRUE, !.files = F]
    BY <1>1, <1>2
  <2>2. \A s \in Structs : s # r.t => obj'[s] = obj[s]
    BY <1>1, <1>2
  <2>3. obj[r.t] \in Object
    BY <1>1, <1>2
  <2>4. obj'[r.t].in_use = TRUE /\ obj'[r.t].ref = obj[r.t].ref
    BY <2>1, <2>3 DEF Object
  <2> QED BY <2>2, <2>4
<1>5. ASSUME NEW s \in Structs
      PROVE  Covered(s)' /\ InUseAt(s)'
  <2>1. Kept(s)' => Kept(s)
    BY <1>1, <1>2, KeptStays DEF Kept
  <2>2. thread'[i].req = "link" => (thread'[i].t = s \/ thread'[i].u = s => ~Gone(s))
    BY <1>2, <1>3 DEF Gone
  <2> QED BY <1>1, <1>2, <1>4, <2>1, <2>2, StructKeeps
<1>6. ASSUME NEW j \in Threads
      PROVE  GivesBack(j)'
  <2>1. CASE j = i
    BY <1>3, <1>4, <2>1 DEF GivesBack, Removing, Giving, Given
  <2>2. CASE j # i
    <3>1. GivesBack(j) /\ thread'[j] = thread[j] /\ thread[j].t \in Structs \cup {NoTag}
      BY <1>1, <1>3, <2>2, RecordType DEF Keeps, Record
    <3>2. thread[j].req # "unlink"
      BY <1>2, <2>2 DEF SInv, OneModifier, Modifies
    <3> QED BY <1>1, <1>2, <1>4, <3>1, <3>2, OthersGiveBack
  <2> QED BY <2>1, <2>2
<1> QED BY <1>5, <1>6 DEF Keeps

LEMMA IncKeeps ==
  ASSUME SInv, NoneLost, Keeps, NEW i \in Threads, Steps(i), tag_inc_ref(i)
  PROVE  Keeps'
<1> DEFINE r == thread[i]
<1>1. /\ TypesInv /\ r \in Record /\ Shape(r) /\ Only(i)
      /\ obj \in [Structs -> Object] /\ thread \in [Threads -> Record]
  BY RecordType, StepsOnly DEF SInv, AInv, TypesInv
<1>2. /\ r.pc = "inc2" /\ UNCHANGED <<table, at>> /\ Found' = Found /\ Counted(i)
      /\ obj' = [obj EXCEPT ![r.u].ref = r.n + 1]
  BY DEF tag_inc_ref, At, Found
<1>3. /\ r.req \in Reqs /\ r.t \in Structs /\ r.u \in Structs /\ r.then \in {"fget", "mkdir"}
      /\ r.u = r.t \/ (r.then = "fget" /\ r.req = "link")
  BY <1>1, <1>2, BodyType, HasStruct DEF Shape, Reqs, Listing, Filing, Counting
<1>4. /\ thread'[i].pc = r.then /\ thread'[i].req = r.req /\ thread'[i].t = r.t
      /\ thread'[i].u = NoTag
      /\ \A j \in Threads : j # i => thread'[j] = thread[j]
  <2>1. thread' = [thread EXCEPT ![i] =
                     [r EXCEPT !.pc = r.then, !.u = NoTag, !.n = 0, !.then = "idle"]]
    BY <1>2, <1>3 DEF Counted
  <2> HIDE DEF r
  <2> QED BY <1>1, <2>1 DEF Record
<1>5. obj[r.u].ref = r.n /\ r.n \in Int
  BY <1>1, <1>2 DEF Record, NoneLost, Between
<1>6. \A s \in Structs : /\ obj'[s].ref = IF s = r.u THEN obj[s].ref + 1 ELSE obj[s].ref
                         /\ obj'[s].in_use = obj[s].in_use /\ obj[s].ref \in Int
  BY <1>1, <1>2, <1>3, <1>5 DEF Object
<1>7. r.req = "link" => ~Owes(thread'[i]) /\ \A s \in Structs : i \notin Owers(s)'
  BY <1>4 DEF Owes, Owers
<1>8. ASSUME NEW s \in Structs
      PROVE  Covered(s)' /\ InUseAt(s)'
  <2>1. CASE s # r.u
    <3>1. r.u # r.t => r.then = "fget" /\ r.req = "link"
      BY <1>3
    <3>2. Kept(s)' => Kept(s)
      <4>1. CASE r.then = "fget"
        BY <1>1, <1>2, <4>1, KeptStays DEF Kept
      <4>2. CASE r.u = r.t
        BY <1>2, <1>4, <2>1, <4>2 DEF Kept
      <4> QED BY <3>1, <4>1, <4>2
    <3>3. thread'[i].req = "link" => (thread'[i].t = s \/ thread'[i].u = s => ~Gone(s))
      BY <1>4, StructsType DEF Gone
    <3>4. ~(r.pc = "inc2" /\ r.t = s) \/ i \notin Owers(s)'
      BY <1>7, <2>1, <3>1
    <3> QED BY <1>1, <1>2, <1>6, <2>1, <3>2, <3>3, <3>4, StructKeeps
  <2>2. CASE s = r.u
    <3>1. /\ Cardinality(Owers(s)') <= Cardinality(Owers(s)) + 1
          /\ Cardinality(Owers(s)') \in Nat /\ Cardinality(Owers(s)) \in Nat
          /\ i \notin Owers(s)' => Cardinality(Owers(s)') <= Cardinality(Owers(s))
      BY <1>1, StepsOwers DEF SInv
    <3>2. obj[s].ref \in Int /\ obj'[s].ref = obj[s].ref + 1 /\ Covered(s) /\ InUseAt(s)
      BY <1>6, <2>2 DEF Keeps
    <3>3. InUseAt(s)'
      BY <1>2, <1>4, <1>6, <3>2 DEF InUseAt
    <3>4. CASE Gone(s)
      <4>1. Gone(s)'
        BY <1>2, <1>4, <3>4, StructsType DEF Gone
      <4> QED BY <3>3, <4>1 DEF Covered
    <3>5. CASE ~Gone(s) /\ r.req = "link"
      BY <1>7, <3>1, <3>2, <3>3, <3>5 DEF Covered
    <3>6. CASE ~Gone(s) /\ r.req # "link"
      <4>1. Kept(s)' => Kept(s)
        BY <1>2, <1>4, <3>6 DEF Kept, LinkCounted
      <4> QED BY <3>1, <3>2, <3>3, <3>6, <4>1 DEF Covered
    <3> QED BY <3>4, <3>5, <3>6
  <2> QED BY <2>1, <2>2
<1>9. ASSUME NEW j \in Threads
      PROVE  GivesBack(j)'
  <2>1. CASE j = i
    BY <1>3, <1>4, <2>1 DEF GivesBack, Removing, Giving, Given
  <2>2. CASE j # i
    <3>1. GivesBack(j) /\ thread'[j] = thread[j] /\ thread[j].t \in Structs \cup {NoTag}
      BY <1>1, <1>4, <2>2, RecordType DEF Keeps, Record
    <3> QED BY <1>1, <1>2, <1>6, <3>1, OthersGiveBack
  <2> QED BY <2>1, <2>2
<1> QED BY <1>8, <1>9 DEF Keeps

(* An unlink that gives back a count that it does not owe does so of a     *)
(* struct that nothing leads to.                                           *)
LEMMA DecOfGone ==
  ASSUME SInv, Keeps, NEW i \in Threads, thread[i].pc = "dec2", ~Owes(thread[i]),
         NEW s \in Structs, s = thread[i].t
  PROVE  Gone(s)
<1> DEFINE r == thread[i]
<1>1. Shape(r) /\ GivesBack(i) /\ InUseAt(s) /\ AInv
  BY RecordType DEF SInv, AInv, Keeps
<1>2. r.req = "unlink" /\ r.then = "idle" /\ ~obj[s].in_use /\ Found # s
  BY <1>1 DEF Shape, GivesBack, Owes, Reqs, Giving, Given, Listing, Filing
<1>3. \A j \in Threads : thread[j].req # "link"
  BY <1>2 DEF SInv, OneModifier, Modifies
<1>4. \A j \in Threads : thread[j].pc # "tag_t"
  BY <1>1, <1>3, RecordType DEF AInv, Shape, Linking
<1> QED BY <1>1, <1>2, <1>3, <1>4 DEF InUseAt, Gone

(* A count is given back: whoever owed it does so no more.                 *)
LEMMA DecKeeps ==
  ASSUME SInv, NoneLost, Keeps, NEW i \in Threads, Steps(i), tag_dec_ref(i)
  PROVE  Keeps'
<1> DEFINE r == thread[i]
<1>1. /\ TypesInv /\ r \in Record /\ Shape(r) /\ Only(i) /\ GivesBack(i)
      /\ obj \in [Structs -> Object] /\ thread \in [Threads -> Record]
  BY RecordType, StepsOnly DEF SInv, AInv, Keeps, TypesInv
<1>2. /\ r.pc = "dec2" /\ UNCHANGED <<table, at>> /\ Found' = Found
      /\ obj' = [obj EXCEPT ![r.u].ref = r.n - 1]
      /\ thread' = [thread EXCEPT ![i] = [r EXCEPT !.pc = "test", !.n = r.n - 1]]
  BY DEF tag_dec_ref, At, Found
<1>3. r.t \in Structs /\ r.u = r.t /\ r.req # "link"
  BY <1>1, <1>2, HasStruct DEF Shape, Giving, Given, GivesBack
<1>4. obj[r.t].ref = r.n /\ r.n \in Int
  BY <1>1, <1>2, <1>3 DEF Record, NoneLost, Between
<1>5. /\ thread'[i].pc = "test" /\ thread'[i].req = r.req /\ thread'[i].t = r.t
      /\ thread'[i].then = r.then
      /\ \A j \in Threads : j # i => thread'[j] = thread[j]
  <2> HIDE DEF r
  <2> QED BY <1>1, <1>2 DEF Record
<1>6. \A s \in Structs : /\ obj'[s].ref = IF s = r.t THEN obj[s].ref - 1 ELSE obj[s].ref
                         /\ obj'[s].in_use = obj[s].in_use
  BY <1>1, <1>2, <1>3, <1>4 DEF Object
<1>7. ASSUME NEW s \in Structs, s = r.t, ~Gone(s)
      PROVE  Covered(s)'
  <2>1. i \in Owers(s) /\ i \notin Owers(s)'
    <3>1. Owes(r)
      BY <1>2, <1>7, DecOfGone
    <3>2. ~Owes(thread'[i])
      BY <1>1, <1>2 DEF Only, Follows
    <3> QED BY <1>7, <3>1, <3>2 DEF Owers
  <2>2. /\ Cardinality(Owers(s)') + 1 <= Cardinality(Owers(s))
        /\ Cardinality(Owers(s)') \in Nat /\ Cardinality(Owers(s)) \in Nat
    BY <1>1, <2>1, StepsOwers DEF SInv
  <2>3. Kept(s)' => Kept(s)
    BY <1>1, <1>2, KeptStays DEF Kept
  <2>4. /\ obj[s].ref \in Int /\ obj'[s].ref = obj[s].ref - 1
        /\ obj[s].ref >= Cardinality(Owers(s))
        /\ Kept(s) => obj[s].ref > Cardinality(Owers(s))
    BY <1>4, <1>6, <1>7 DEF Keeps, Covered
  <2> QED BY <2>2, <2>3, <2>4 DEF Covered
<1>8. ASSUME NEW s \in Structs
      PROVE  Covered(s)' /\ InUseAt(s)'
  <2>1. CASE s # r.t
    <3>1. Kept(s)' => Kept(s)
      BY <1>1, <1>2, KeptStays DEF Kept
    <3> QED BY <1>2, <1>3, <1>5, <1>6, <2>1, <3>1, StructKeeps
  <2>2. CASE s = r.t
    <3>1. InUseAt(s)'
      BY <1>2, <1>5, <1>6 DEF InUseAt, Keeps
    <3>2. Gone(s) => Gone(s)'
      BY <1>2, <1>3, <1>5 DEF Gone
    <3> QED BY <1>7, <2>2, <3>1, <3>2 DEF Covered
  <2> QED BY <2>1, <2>2
<1>9. ASSUME NEW j \in Threads
      PROVE  GivesBack(j)'
  <2>1. CASE j = i
    BY <1>1, <1>2, <1>3, <1>5, <1>6, <2>1 DEF GivesBack, Removing, Giving, Given
  <2>2. CASE j # i
    <3>1. GivesBack(j) /\ thread'[j] = thread[j] /\ thread[j].t \in Structs \cup {NoTag}
      BY <1>1, <1>5, <2>2, RecordType DEF Keeps, Record
    <3> QED BY <1>1, <1>2, <1>6, <3>1, OthersGiveBack
  <2> QED BY <2>1, <2>2
<1> QED BY <1>8, <1>9 DEF Keeps

(* A struct is freed: with no count left it is kept by nobody.             *)
LEMMA FreesKeeps ==
  ASSUME SInv, NoneLost, Keeps, NEW i \in Threads, Steps(i), Frees(i)
  PROVE  Keeps'
<1> DEFINE r == thread[i]
<1>1. /\ TypesInv /\ r \in Record /\ Shape(r) /\ Only(i) /\ GivesBack(i)
      /\ obj \in [Structs -> Object] /\ thread \in [Threads -> Record]
  BY RecordType, StepsOnly DEF SInv, AInv, Keeps, TypesInv
<1>2. /\ r.pc = "free" /\ UNCHANGED <<table, at>> /\ Found' = Found /\ Counted(i)
      /\ obj' = [obj EXCEPT ![r.u] = Freed]
  BY DEF Frees, At, Found
<1>3. /\ r.t \in Structs /\ r.u = r.t /\ r.req # "link" /\ Found # r.t
      /\ r.then = "idle" \/ (r.then = "del" /\ r.req = "unlink")
  BY <1>1, <1>2, HasStruct DEF Shape, Giving, Given, GivesBack
<1>4. obj[r.t].ref = 0
  BY <1>1, <1>2, <1>3 DEF NoneLost, Between, Given, GivesBack
<1>5. ~Kept(r.t)
  <2>1. Covered(r.t) /\ IsFiniteSet(Owers(r.t))
    BY <1>3 DEF Keeps, SInv, OwersFinite
  <2>2. Cardinality(Owers(r.t)) \in Nat
    BY <2>1, FS_CardinalityType
  <2>3. Gone(r.t) => ~Kept(r.t)
    BY DEF Gone, Kept, LinkCounted
  <2> QED BY <1>4, <2>1, <2>2, <2>3 DEF Covered
<1>6. /\ \A j \in Threads : j # i => thread'[j] = thread[j]
      /\ \/ thread'[i] = Idle
         \/ /\ thread'[i].pc = "del" /\ thread'[i].req = r.req /\ thread'[i].t = r.t
            /\ r.req = "unlink"
  <2>1. CASE r.then = "idle"
    BY <1>1, <1>2, <2>1 DEF Counted
  <2>2. CASE r.then = "del" /\ r.req = "unlink"
    <3>1. thread' = [thread EXCEPT ![i] =
                       [r EXCEPT !.pc = r.then, !.u = NoTag, !.n = 0, !.then = "idle"]]
      BY <1>2, <2>2 DEF Counted
    <3> HIDE DEF r
    <3> QED BY <1>1, <2>2, <3>1 DEF Record
  <2> QED BY <1>3, <2>1, <2>2
<1>7. thread'[i].req # "link"
  BY <1>3, <1>6, IdleType
<1>8. /\ \A s \in Structs : /\ obj'[s].ref = obj[s].ref
                            /\ s # r.t => obj'[s] = obj[s]
      /\ ~obj'[r.t].in_use
  BY <1>1, <1>2, <1>3, <1>4 DEF Freed
<1>9. ASSUME NEW s \in Structs
      PROVE  Covered(s)' /\ InUseAt(s)'
  <2>1. Kept(s)' => Kept(s)
    BY <1>1, <1>2, KeptStays DEF Kept
  <2>2. \/ (obj[s].in_use \/ (r.pc = "tag_t" /\ r.t = s) => obj'[s].in_use)
        \/ \A g \in FileStructs : at'[g] # s
    BY <1>2, <1>5, <1>8 DEF Kept
  <2> QED BY <1>2, <1>7, <1>8, <2>1, <2>2, StructKeeps
<1>10. ASSUME NEW j \in Threads
       PROVE  GivesBack(j)'
  <2>1. CASE j = i
    BY <1>2, <1>3, <1>6, <2>1, IdleType DEF GivesBack, Removing, Giving, Given
  <2>2. CASE j # i
    <3> DEFINE t == thread[j].t
    <3>1. GivesBack(j) /\ thread'[j] = thread[j] /\ t \in Structs \cup {NoTag}
      BY <1>1, <1>6, <2>2, RecordType DEF Keeps, Record
    <3>2. CASE t # r.t
      <4>1. t # NoTag => obj'[t] = obj[t]
        BY <1>8, <3>1, <3>2
      <4> QED BY <1>1, <1>2, <3>1, <4>1, OthersGiveBack
    <3>3. CASE t = r.t
      <4>1. ~(thread[j].req = "link" /\ thread[j].pc = "del")
        BY <1>5, <3>3 DEF Kept, LinkCounted, Looking, Counting
      <4> QED BY <1>1, <1>2, <1>3, <1>8, <3>1, <3>3, <4>1, OthersGiveBack
    <3> QED BY <3>2, <3>3
  <2> QED BY <2>1, <2>2
<1> QED BY <1>9, <1>10 DEF Keeps

LEMMA StepsKeep ==
  ASSUME SInv, OneStruct, NoneLost, Keeps, NEW i \in Threads, Steps(i)
  PROVE  Keeps'
<1>1. CASE Loose(i)
  BY <1>1, LooseSteps, KeepsLoosed
<1> QED BY <1>1, AddsKeeps, IncKeeps, DecKeeps, FreesKeeps, MkdirKeeps, FileAddKeeps,
        TagAddKeeps DEF Steps, Works, Loose, Quiet

LEMMA StartsKeeps ==
  ASSUME SInv, Keeps, NEW i \in Threads, NEW r \in Reqs, NEW f \in Files \cup {"none"},
         Starts(i, r, f)
  PROVE  Keeps'
<1>1. /\ TypesInv /\ thread[i] = Idle /\ thread'[i].pc \in {"get", "list"}
      /\ thread'[i].t = NoTag /\ thread'[i].u = NoTag
      /\ ~LinkCounted(thread'[i]) /\ ~Owes(thread'[i])
      /\ \A j \in Threads : j # i => thread'[j] = thread[j]
      /\ UNCHANGED <<table, obj, at, bad>>
  BY StartsRecord DEF SInv, AInv
<1>2. Found' = Found /\ Idle.pc = "idle" /\ ~Owes(Idle)
  BY <1>1, IdleType DEF Found
<1>3. ASSUME NEW s \in Structs
      PROVE  Covered(s)' /\ InUseAt(s)'
  <2>1. Owers(s)' = Owers(s)
    BY <1>1, <1>2 DEF Owers
  <2>2. Kept(s)' => Kept(s)
    BY <1>1 DEF Kept
  <2>3. Gone(s) => Gone(s)'
    BY <1>1, <1>2, StructsType DEF Gone
  <2>4. InUseAt(s)'
    BY <1>1, <1>2 DEF InUseAt, Keeps
  <2> QED BY <1>1, <2>1, <2>2, <2>3, <2>4 DEF Covered, Keeps
<1>4. ASSUME NEW j \in Threads
      PROVE  GivesBack(j)'
  <2>1. CASE j = i
    BY <1>1, <2>1 DEF GivesBack, Removing, Giving, Given
  <2>2. CASE j # i
    BY <1>1, <1>2, <2>2 DEF GivesBack, Keeps
  <2> QED BY <2>1, <2>2
<1> QED BY <1>3, <1>4 DEF Keeps

LEMMA BootKeeps == Booted => Keeps
<1> SUFFICES ASSUME Booted PROVE Keeps
  OBVIOUS
<1>1. SInv
  BY BootSInv
<1>2. \A i \in Threads : thread[i] = Idle /\ Idle.pc = "idle" /\ Idle.req = "none" /\ ~Owes(Idle)
  BY IdleType DEF Booted
<1>3. obj = Boot.obj /\ at = Boot.at
  BY DEF Booted
<1>4. \A i \in Threads : GivesBack(i)
  BY <1>2 DEF GivesBack, Given
<1>5. ASSUME NEW s \in Structs
      PROVE  Covered(s) /\ InUseAt(s)
  <2>1. Owers(s) = {}
    BY <1>2 DEF Owers
  <2>2. Cardinality(Owers(s)) = 0 /\ obj[s].ref \in Nat
    BY <1>3, <2>1, FS_EmptySet, BootSays, DbType DEF Freed
  <2>3. (\E g \in FileStructs : at[g] = s) => DbFiles # {} /\ s = 1
    BY <1>3, BootSays, StructsType
  <2>4. Kept(s) => obj[s].ref > 0
    <3>1. DbFiles # {} => Cardinality(DbFiles) # 0
      BY DbType, FS_EmptySet
    <3>2. Kept(s) => DbFiles # {} /\ s = 1
      BY <1>2, <2>3, IdleType DEF Kept
    <3> QED BY <1>3, <2>2, <3>1, <3>2, BootSays
  <2>5. InUseAt(s)
    BY <1>3, <2>3, BootSays DEF InUseAt
  <2> QED BY <2>2, <2>4, <2>5 DEF Covered
<1> QED BY <1>4, <1>5 DEF Keeps

LEMMA NextKeepInv == KeepInv /\ [Next]_vars => KeepInv'
<1> SUFFICES ASSUME KeepInv, [Next]_vars PROVE KeepInv'
  OBVIOUS
<1>1. SInv /\ SInv'
  BY NextSInv DEF KeepInv
<1> SUFFICES ASSUME Up', Counts_right' PROVE Keeps'
  BY <1>1 DEF KeepInv
<1>2. CASE UNCHANGED vars
  <2>1. Keeps /\ UNCHANGED <<table, obj, at, thread>>
    BY <1>2 DEF KeepInv, vars, Up, Counts_right
  <2> QED BY <2>1 DEF Keeps, Covered, Gone, Kept, Found, Owers, InUseAt, GivesBack
<1>3. CASE Restart
  <2>1. Booted' => Keeps'
    BY BootKeeps, PTL
  <2> QED BY <1>3, <2>1, RestartBooted
<1>4. ASSUME raced' = raced \cup Races', Up
      PROVE  Keeps /\ OneStruct /\ NoneLost
  <2>1. Counts_right
    BY <1>4 DEF Counts_right
  <2> QED BY <1>1, <1>4, <2>1, CountsRight DEF KeepInv, SInv
<1>5. ASSUME NEW i \in Threads, Goes_on(i)
      PROVE  Keeps'
  <2>1. Steps(i) /\ raced' = raced \cup Races'
    BY <1>5, RunsSteps DEF Goes_on, UsesFreed, Up
  <2>2. Up
    <3>1. bad' = bad
      BY <1>1, <2>1, StepsObjects DEF SInv, AInv, Tables
    <3> QED BY <3>1 DEF Up
  <2> QED BY <1>1, <1>4, <2>1, <2>2, StepsKeep
<1>6. ASSUME NEW i \in Threads, NEW r \in {"lookup", "list", "link", "unlink"},
             NEW f \in Files \cup {"none"}, Starts(i, r, f), raced' = raced \cup Races'
      PROVE  Keeps'
  <2>1. Up
    BY <1>6 DEF Starts, At
  <2> QED BY <1>1, <1>4, <1>6, <2>1, StartsKeeps DEF Reqs
<1> QED BY <1>2, <1>3, <1>5, <1>6 DEF Next

LEMMA AlwaysKeepInv == Spec => []KeepInv
<1>1. Init => KeepInv
  BY InitBooted, BootSInv, BootKeeps DEF KeepInv
<1> QED BY <1>1, NextKeepInv, PTL DEF Spec

(* A tag that a file has is allocated, as long as no count changes under a *)
(* thread's hands and the tag has one struct: a link has counted the struct*)
(* that it gives to a file and never gives that count back, and an unlink  *)
(* gives back one that it does not have only of a struct that no file can  *)
(* have any more (tag.c:100-156, file.c:29-38).                            *)
THEOREM FileTagsStayAllocated == Spec => []FileTagsAllocated
<1>1. KeepInv => FileTagsAllocated
  <2> SUFFICES ASSUME KeepInv, Up, Counts_right, NEW g \in FileStructs, at[g] # NoTag
               PROVE  Valid(at[g])
    BY DEF FileTagsAllocated, Counts_right
  <2>1. PICK s \in Structs : at[g] = s
    BY DEF KeepInv, SInv, AInv, TypesInv
  <2>2. Covered(s) /\ Kept(s) /\ ~Gone(s)
    BY <2>1 DEF KeepInv, Keeps, Kept, Gone
  <2>3. IsFiniteSet(Owers(s)) /\ obj[s].ref \in Int /\ Plain(obj[s])
    BY DEF KeepInv, SInv, OwersFinite, AInv, TypesInv, Object, AllPlain
  <2>4. obj[s].ref # 0
    <3>1. Cardinality(Owers(s)) \in Nat
      BY <2>3, FS_CardinalityType
    <3> QED BY <2>2, <2>3, <3>1 DEF Covered
  <2> QED BY <2>1, <2>3, <2>4 DEF Plain, Valid
<1> QED BY <1>1, AlwaysKeepInv, PTL

==============================================================================
