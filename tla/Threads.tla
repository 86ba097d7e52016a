-------------------------------- MODULE Threads --------------------------------
(***************************************************************************)
(* The requests of fuse/ in several threads (fuse without -s, as tests/    *)
(* runs it): lookups, links and unlinks of files below one tag, and        *)
(* listings of the root.                                                   *)
(*                                                                         *)
(* Each operation on a hash table is atomic, by the read-write lock of the *)
(* table (cutil/hash_table.c); what a request does between two of them is  *)
(* not.  A table may hold several structs under one name, of tags as of    *)
(* files: the last added is found, and removed, first.  ref_count and      *)
(* in_use are plain fields: an increment loads and stores, a decrement     *)
(* loads, stores and tests.  A lookup stands for every request that makes  *)
(* a path and deletes it later, an open handle included.                   *)
(*                                                                         *)
(* The kernel serves one link or unlink at a time in a directory, and      *)
(* lookups meanwhile.                                                      *)
(***************************************************************************)
EXTENDS Integers, Sequences, FiniteSets

CONSTANTS
    Threads,    \* threads of the daemon
    Files,      \* regular files
    DbFiles,    \* those that .tags gives the tag
    MaxStructs, \* bound: distinct struct tag still pointed to
    MaxCopies,  \* bound: struct file of one name
    MaxRequests, \* bound: requests from a start on
    MaxRef      \* what ref_count reaches then: a request counts at most twice

NoTag == 0
Structs == 1..MaxStructs
FileStructs == Files \X (1..MaxCopies)  \* of a name, the first, the second...

ASSUME FilesAssumption == DbFiles \subseteq Files /\ IsFiniteSet(Files)
ASSUME BoundsAssumption == {MaxStructs, MaxCopies} \subseteq Nat \ {0}
                           /\ {MaxRef, MaxRequests} \subseteq Nat
                           /\ Cardinality(DbFiles) + 2 * MaxRequests <= MaxRef

VARIABLES
    table,   \* the structs that `tags' holds under the name, newest first
    obj,     \* the structs
    files,   \* how many structs `files' holds under the name of each file
    at,      \* the struct tag that f->tags holds under the name
    readers, \* the threads inside ht_for_each on t->files
    thread,  \* what each thread does
    started, \* requests so far
    bad,     \* a freed struct was used: the daemon may do anything
    raced    \* history: what has gone wrong between threads

vars == <<table, obj, files, at, readers, thread, started, bad, raced>>

(* f: the name of the file, g: its struct; t: the struct of the path;      *)
(* u: the one that is counted; n: the ref_count loaded or stored; todo:    *)
(* the files tag_remove has collected; rest: what a listing goes through.  *)
NoFile == <<"none", 0>>
Idle == [pc |-> "idle", req |-> "none", f |-> "none", g |-> NoFile, t |-> NoTag,
         u |-> NoTag, n |-> 0, todo |-> {}, rest |-> {}, then |-> "idle"]
Freed == [alloc |-> FALSE, in_use |-> FALSE, ref |-> 0, files |-> {}]

------------------------------------------------------------------------------
Up == ~bad
At(i, pc) == Up /\ thread[i].pc = pc
Found == IF table = <<>> THEN NoTag ELSE Head(table)      \* ht_get_entry
Without(s) == IF s = <<>> THEN s ELSE Tail(s)             \* ht_remove_entry
Held == {thread[i].t : i \in Threads} \cup {thread[i].u : i \in Threads}
            \cup {table[k] : k \in DOMAIN table} \cup {at[g] : g \in FileStructs}
            \cup UNION {thread[i].rest : i \in {j \in Threads : thread[j].pc = "see"}}
Fresh == CHOOSE s \in Structs \ Held : TRUE
HasFresh == Structs \ Held # {}
new(use) == [alloc |-> TRUE, in_use |-> use, ref |-> 0, files |-> {}]

Valid(s) == obj[s].alloc
Goes(i, pc) == thread' = [thread EXCEPT ![i].pc = pc]
Counts(i, s, how, pc) == thread' = [thread EXCEPT ![i].pc = how, ![i].u = s, ![i].then = pc]
Counted(i) == thread' = [thread EXCEPT ![i] =
    IF thread[i].then = "idle" THEN Idle
    ELSE [@ EXCEPT !.pc = thread[i].then, !.u = NoTag, !.n = 0, !.then = "idle"]]
Body(r) == CASE r = "link" -> "mkdir" [] r \in {"lookup", "unlink"} -> "fget"

(* The structs a thread is about to look into.                             *)
Counts_now == {"inc", "inc2", "dec", "dec2", "test", "zero", "free"}
Targets(i) == CASE thread[i].pc \in Counts_now -> {thread[i].u}
                [] thread[i].pc = "mkdir"       -> {Found}
                [] thread[i].pc = "see"         -> thread[i].rest
                [] thread[i].pc \in {"idle", "get", "get2", "add", "mkget", "mkadd",
                                     "fget", "fadd", "list", "next"} -> {}
                [] OTHER                        -> {thread[i].t}
UsesFreed(i) == /\ Up /\ \E s \in Targets(i) : s # NoTag /\ ~Valid(s)
                /\ bad' = TRUE /\ UNCHANGED <<table, obj, files, at, readers, thread>>

------------------------------------------------------------------------------
(* The kernel knows, from its lookups, that there is such a file to unlink *)
(* or to link, and a name without the tag to link it to.                   *)
Modifies(i) == thread[i].req \in {"link", "unlink"}
Known(f) == files[f] > 0
Newest(f) == <<f, files[f]>>
Starts(i, r, f) ==
    /\ At(i, "idle") /\ started < MaxRequests /\ started' = started + 1
    /\ r \in {"lookup", "list"} \/ \A j \in Threads : ~Modifies(j)
    /\ f \in CASE r = "lookup" -> Files
              [] r = "list"   -> {"none"}
              [] r = "link"   -> {g \in Files : Known(g) /\ \E h \in Files :
                                                  Known(h) /\ at[Newest(h)] = NoTag}
              [] r = "unlink" -> {g \in Files : Known(g) /\ at[Newest(g)] # NoTag}
    /\ thread' = [thread EXCEPT ![i] = [Idle EXCEPT !.req = r, !.f = f,
                                          !.pc = IF r = "list" THEN "list" ELSE "get"]]
    /\ UNCHANGED <<table, obj, files, at, readers, bad>>

(* Mutation: a struct that was found is not counted.                       *)
Gets_uncounted(i, here, missing) ==
    /\ At(i, here)
    /\ thread' = IF Found = NoTag THEN [thread EXCEPT ![i].pc = missing]
                 ELSE [thread EXCEPT ![i].pc = Body(thread[i].req), ![i].t = Found]
    /\ UNCHANGED <<table, obj, at, readers, bad>>

(* compute_selected_tags: tag_get, tag_get_or_create__, tag_inc_ref.       *)
Gets(i, here, missing) ==
    /\ At(i, here)
    /\ thread' = IF Found = NoTag THEN [thread EXCEPT ![i].pc = missing]
                 ELSE [thread EXCEPT ![i].pc = "inc", ![i].t = Found, ![i].u = Found,
                                     ![i].then = Body(thread[i].req)]
    /\ UNCHANGED <<table, obj, at, readers, bad>>

(* Mutation: whoever adds a struct does not count it.                      *)
Adds_uncounted(i) ==
    /\ At(i, "add") /\ HasFresh
    /\ obj' = [obj EXCEPT ![Fresh] = new(FALSE)]
    /\ table' = <<Fresh>> \o table
    /\ thread' = [thread EXCEPT ![i].pc = Body(thread[i].req), ![i].t = Fresh]
    /\ UNCHANGED <<at, readers, bad>>

Adds(i) ==
    /\ At(i, "add") /\ HasFresh
    /\ obj' = [obj EXCEPT ![Fresh] = new(FALSE)]
    /\ table' = <<Fresh>> \o table
    /\ thread' = [thread EXCEPT ![i].pc = "inc", ![i].t = Fresh, ![i].u = Fresh,
                                ![i].then = Body(thread[i].req)]
    /\ UNCHANGED <<at, readers, bad>>

Loads(i, how, next) ==
    /\ At(i, how) /\ Valid(thread[i].u)
    /\ thread' = [thread EXCEPT ![i].pc = next, ![i].n = obj[thread[i].u].ref]
    /\ UNCHANGED <<table, obj, at, readers, bad>>

tag_inc_ref(i) ==
    /\ At(i, "inc2") /\ Valid(thread[i].u)
    /\ obj' = [obj EXCEPT ![thread[i].u].ref = thread[i].n + 1]
    /\ Counted(i)
    /\ UNCHANGED <<table, at, readers, bad>>

(* tag_dec_ref, one access at a time: stored; tested, which reads the      *)
(* field again unless the compiler kept the value; the name removed once   *)
(* more, whichever struct the table holds by now; freed.                   *)
tag_dec_ref(i) ==
    /\ At(i, "dec2") /\ Valid(thread[i].u)
    /\ obj' = [obj EXCEPT ![thread[i].u].ref = thread[i].n - 1]
    /\ thread' = [thread EXCEPT ![i].pc = "test", ![i].n = @ - 1]
    /\ UNCHANGED <<table, at, readers, bad>>

Tests(i) ==
    /\ At(i, "test") /\ Valid(thread[i].u)
    /\ \E n \in {thread[i].n, obj[thread[i].u].ref} :
          IF n = 0 THEN Goes(i, "zero") ELSE Counted(i)
    /\ UNCHANGED <<table, obj, at, readers, bad>>

Drops(i) ==
    /\ At(i, "zero") /\ Valid(thread[i].u)
    /\ table' = Without(table)
    /\ Goes(i, "free")
    /\ UNCHANGED <<obj, at, readers, bad>>

Frees(i) ==
    /\ At(i, "free") /\ Valid(thread[i].u)
    /\ obj' = [obj EXCEPT ![thread[i].u] = Freed]
    /\ Counted(i)
    /\ UNCHANGED <<table, at, readers, bad>>

------------------------------------------------------------------------------
(* link: tag_mkdir of the directory.                                       *)
Mkdir(i) ==
    /\ At(i, "mkdir") /\ (Found # NoTag => Valid(Found))
    /\ obj' = IF Found = NoTag THEN obj ELSE [obj EXCEPT ![Found].in_use = TRUE]
    /\ Goes(i, IF Found = NoTag THEN "mkget" ELSE "fget")
    /\ UNCHANGED <<table, at, readers, bad>>

MkdirGets(i) ==
    /\ At(i, "mkget")
    /\ IF Found = NoTag THEN Goes(i, "mkadd") ELSE Counts(i, Found, "inc", "fget")
    /\ UNCHANGED <<table, obj, at, readers, bad>>

MkdirAdds(i) ==
    /\ At(i, "mkadd") /\ HasFresh
    /\ obj' = [obj EXCEPT ![Fresh] = new(TRUE)]
    /\ table' = <<Fresh>> \o table
    /\ Counts(i, Fresh, "inc", "fget")
    /\ UNCHANGED <<at, readers, bad>>

(* The struct of the file: getattr's file_get_or_create, and path_link's   *)
(* once more, or path_unlink's file_get.                                   *)
With(r) == CASE r = "lookup" -> "del" [] r = "link" -> "tag_f" [] r = "unlink" -> "untag_f"
             [] r = "list" -> "next"
GetsFile(i) ==
    LET r == thread[i] IN
    /\ At(i, "fget")
    /\ thread' = IF Known(r.f) THEN [thread EXCEPT ![i].pc = With(r.req),
                                             ![i].g = IF Modifies(i) THEN Newest(r.f) ELSE NoFile]
                 ELSE [thread EXCEPT ![i].pc = IF r.req = "unlink" THEN "del" ELSE "fadd"]
    /\ UNCHANGED <<table, obj, at, readers, bad>>

file_get_or_create(i) ==
    LET r == thread[i] IN
    /\ At(i, "fadd") /\ files[r.f] < MaxCopies
    /\ files' = [files EXCEPT ![r.f] = @ + 1]
    /\ Goes(i, IF r.req = "link" THEN "fget" ELSE With(r.req))
    /\ UNCHANGED <<table, obj, at, readers, bad>>

(* tag_file: file_add_tag, tag_add_file.                                   *)
file_add_tag(i) ==
    /\ At(i, "tag_f") /\ Valid(thread[i].t)
    /\ at' = [at EXCEPT ![thread[i].g] = IF @ = NoTag THEN thread[i].t ELSE @]
    /\ Goes(i, "tag_t")
    /\ UNCHANGED <<table, obj, readers, bad>>

MayWrite(s) == readers[s] = {}
Named(f) == {f} \X (1..MaxCopies)

(* Mutation: the struct forgets the file.                                  *)
tag_add_file_nothing(i) ==
    LET t == thread[i].t IN
    /\ At(i, "tag_t") /\ Valid(t) /\ MayWrite(t)
    /\ obj' = [obj EXCEPT ![t].in_use = TRUE]
    /\ Goes(i, "del")
    /\ UNCHANGED <<table, at, readers, bad>>

tag_add_file(i) ==
    LET t == thread[i].t IN
    /\ At(i, "tag_t") /\ Valid(t) /\ MayWrite(t)
    /\ obj' = [obj EXCEPT ![t].in_use = TRUE,
           ![t].files = IF @ \cap Named(thread[i].f) = {} THEN @ \cup {thread[i].g} ELSE @]
    /\ Goes(i, "del")
    /\ UNCHANGED <<table, at, readers, bad>>

(* unlink: untag_file, and tag_remove of a struct without files.           *)
file_remove_tag(i) ==
    /\ At(i, "untag_f") /\ Valid(thread[i].t)
    /\ at' = [at EXCEPT ![thread[i].g] = NoTag]
    /\ Goes(i, "untag_t")
    /\ UNCHANGED <<table, obj, readers, bad>>

tag_remove_file(i) ==
    LET t == thread[i].t IN
    /\ At(i, "untag_t") /\ Valid(t) /\ MayWrite(t)
    /\ obj' = [obj EXCEPT ![t].files = @ \ Named(thread[i].f)]
    /\ Goes(i, "empty")
    /\ UNCHANGED <<table, at, readers, bad>>

EmptyTag(i) ==
    LET t == thread[i].t IN
    /\ At(i, "empty") /\ Valid(t)
    /\ thread' = [thread EXCEPT ![i].pc = IF obj[t].files = {} THEN "collect" ELSE "del",
                                ![i].then = "del"]
    /\ UNCHANGED <<table, obj, at, readers, bad>>

(* tag_remove: the files are collected under the lock of t->files, then    *)
(* lose the tag, then the table loses the name.                            *)
Collects(i) ==
    LET t == thread[i].t IN
    /\ At(i, "collect") /\ Valid(t)
    /\ readers' = [readers EXCEPT ![t] = @ \cup {i}]
    /\ thread' = [thread EXCEPT ![i].pc = "unlock", ![i].todo = obj[t].files]
    /\ UNCHANGED <<table, obj, at, bad>>

(* Mutation: the lock is kept.                                             *)
unlocked_never(t, i) == readers[t]

unlocked(t, i) == readers[t] \ {i}

Unlocks(i) ==
    /\ At(i, "unlock")
    /\ readers' = [readers EXCEPT ![thread[i].t] = unlocked(thread[i].t, i)]
    /\ Goes(i, "strip")
    /\ UNCHANGED <<table, obj, at, bad>>

Strips(i) ==
    /\ At(i, "strip") /\ Valid(thread[i].t)
    /\ \/ /\ thread[i].todo = {}
          /\ Counts(i, thread[i].t, "pop", thread[i].then)
          /\ UNCHANGED at
       \/ \E g \in thread[i].todo :
             /\ at' = [at EXCEPT ![g] = NoTag]
             /\ thread' = [thread EXCEPT ![i].todo = @ \ {g}]
    /\ UNCHANGED <<table, obj, readers, bad>>

Pops(i) ==
    /\ At(i, "pop") /\ Valid(thread[i].t)
    /\ table' = Without(table)
    /\ Goes(i, "dec")
    /\ UNCHANGED <<obj, at, readers, bad>>

(* free_selected_tags                                                      *)
Deletes(i) ==
    LET t == thread[i].t IN
    /\ At(i, "del") /\ Valid(t)
    /\ thread' = IF obj[t].in_use THEN [thread EXCEPT ![i] = Idle]
                 ELSE [thread EXCEPT ![i].pc = "collect", ![i].then = "idle"]
    /\ UNCHANGED <<table, obj, at, readers, bad>>

------------------------------------------------------------------------------
(* readdir of the root: the structs are listed under the lock of the table *)
(* and read after it, uncounted; then getattr of each file.                *)
tag_list(i) ==
    /\ At(i, "list")
    /\ thread' = [thread EXCEPT ![i].pc = "see", ![i].rest = {table[k] : k \in DOMAIN table}]
    /\ UNCHANGED <<table, obj, at, readers, bad>>

Sees(i) ==
    /\ At(i, "see")
    /\ thread' \in IF thread[i].rest = {}
                   THEN {[thread EXCEPT ![i].pc = "next", ![i].rest = Files]}
                   ELSE {[thread EXCEPT ![i].rest = @ \ {s}] : s \in {s \in thread[i].rest : Valid(s)}}
    /\ UNCHANGED <<table, obj, at, readers, bad>>

NextFile(i) ==
    /\ At(i, "next")
    /\ thread' \in IF thread[i].rest = {} THEN {[thread EXCEPT ![i] = Idle]}
                   ELSE {[thread EXCEPT ![i].pc = "fget", ![i].f = f, ![i].rest = @ \ {f}] :
                         f \in thread[i].rest}
    /\ UNCHANGED <<table, obj, at, readers, bad>>

------------------------------------------------------------------------------
Boot == LET s == IF DbFiles = {} THEN NoTag ELSE 1
        IN  [table |-> IF s = 1 THEN <<1>> ELSE <<>>,
             obj |-> [o \in Structs |-> IF o # s THEN Freed ELSE
                        [alloc |-> TRUE, in_use |-> TRUE, files |-> DbFiles \X {1},
                         ref |-> Cardinality(DbFiles)]],
             files |-> [f \in Files |-> IF f \in DbFiles THEN 1 ELSE 0],
             at |-> [g \in FileStructs |-> IF g \in DbFiles \X {1} THEN s ELSE NoTag]]

Init == /\ table = Boot.table /\ obj = Boot.obj /\ files = Boot.files /\ at = Boot.at
        /\ readers = [s \in Structs |-> {}] /\ thread = [i \in Threads |-> Idle]
        /\ started = 0 /\ bad = FALSE /\ raced = {}

(* Mutation: the counts go on from where they were.                        *)
reloaded_counting_on ==
    [o \in Structs |-> [Boot.obj[o] EXCEPT !.ref = @ + obj[o].ref]]

reloaded == Boot.obj

Restart == /\ table' = Boot.table /\ obj' = reloaded /\ files' = Boot.files /\ at' = Boot.at
           /\ readers' = [s \in Structs |-> {}] /\ thread' = [i \in Threads |-> Idle]
           /\ started' = 0 /\ bad' = FALSE /\ raced' = {}

Runs(i) == \/ /\ \/ Gets(i, "get", "get2") \/ Gets(i, "get2", "add") \/ Adds(i)
                 \/ Loads(i, "inc", "inc2") \/ tag_inc_ref(i)
                 \/ Loads(i, "dec", "dec2") \/ tag_dec_ref(i)
                 \/ Tests(i) \/ Drops(i) \/ Frees(i)
                 \/ Mkdir(i) \/ MkdirGets(i) \/ MkdirAdds(i)
                 \/ GetsFile(i) \/ file_add_tag(i) \/ tag_add_file(i)
                 \/ file_remove_tag(i) \/ tag_remove_file(i) \/ EmptyTag(i)
                 \/ Collects(i) \/ Unlocks(i) \/ Strips(i) \/ Pops(i) \/ Deletes(i)
                 \/ tag_list(i) \/ Sees(i) \/ NextFile(i)
              /\ UNCHANGED files
           \/ file_get_or_create(i)
           \/ UsesFreed(i)

(* What threads do to each other: two structs under one name, of a tag     *)
(* (tag.c:46-53) or of a file (file.c:60-66); a struct tag removed that a  *)
(* file or a link has, that a path has found and not counted yet           *)
(* (tag.c:119-122,141-146), or that a listing reads (tagfs.c:284-290); a   *)
(* ref_count that changes between a thread's accesses to it, or before the *)
(* free they lead to (tag.c:22-25,31).                                     *)
Uses(s) == \/ \E g \in FileStructs : at[g] = s
           \/ \E i \in Threads : \/ thread[i].req = "link" /\ thread[i].t = s
                                 \/ thread[i].pc \in {"inc", "inc2"} /\ thread[i].u = s
                                 \/ thread[i].pc = "see" /\ s \in thread[i].rest
Removes(s) == \/ \A k \in DOMAIN table : table[k] # s
              \/ \E i \in Threads : /\ thread[i].pc \in {"collect", "unlock", "strip", "pop"}
                                     /\ thread[i].t = s
Races == {r \in {"tag added twice", "file added twice", "removed in use", "count changed"} :
    CASE r = "tag added twice"  -> Len(table) > 1
      [] r = "file added twice" -> \E f \in Files : files[f] > 1
      [] r = "removed in use"   -> \E s \in Structs : Uses(s) /\ Removes(s)
      [] r = "count changed"    -> \E i \in Threads :
                                      /\ thread[i].pc \in Counts_now \ {"inc", "dec"}
                                      /\ obj[thread[i].u].ref # thread[i].n}

Goes_on(i) == Runs(i) /\ UNCHANGED started /\ raced' = raced \cup Races'

Next == \/ \E i \in Threads : Goes_on(i)
        \/ /\ \E i \in Threads, r \in {"lookup", "list", "link", "unlink"}, f \in Files \cup {"none"} :
                 Starts(i, r, f)
           /\ raced' = raced \cup Races'
        \/ Restart

(* The threads run, and the code has no loop that waits; requests and      *)
(* restarts may come or not.                                               *)
Fairness == \A i \in Threads : WF_vars(Goes_on(i))
Spec == Init /\ [][Next]_vars /\ Fairness

------------------------------------------------------------------------------
(* Properties.                                                             *)

(* Types; a ref_count that lost counts may fall below zero.                *)
Signed == (0 - MaxRef)..MaxRef
Struct == [alloc : BOOLEAN, in_use : BOOLEAN, ref : Signed, files : SUBSET FileStructs]
TypeOK == /\ table \in Seq(Structs) /\ obj \in [Structs -> Struct]
          /\ files \in [Files -> 0..MaxCopies] /\ at \in [FileStructs -> Structs \cup {NoTag}]
          /\ readers \in [Structs -> SUBSET Threads]
          /\ \A i \in Threads : /\ thread[i].f \in Files \cup {"none"}
                                /\ {thread[i].t, thread[i].u} \subseteq Structs \cup {NoTag}
                                /\ thread[i].n \in Signed
                                /\ thread[i].todo \subseteq FileStructs
          /\ bad \in BOOLEAN /\ started \in 0..MaxRequests

(* Every thread returns from its request: nobody waits for a lock for good *)
(* (hash_table.c:136-146), since no table is written inside its own        *)
(* for_each: tag_remove collects the files first (tag.c:88-107).           *)
EveryRequestEnds == \A i \in Threads :
    thread[i].pc # "idle" ~> thread[i].pc = "idle" \/ bad

(* A request counts the struct of its path before it uses it, so what a    *)
(* file's table holds is never freed, as long as no count changes under a  *)
(* thread's hands and the tag has one struct.  With two, an unlink of the  *)
(* one not in use, which gives back two counts (tag.c:100-107, 141-146),   *)
(* may do so while a link has yet to give that struct to a file.           *)
FileTagsAllocated == Up /\ raced \subseteq {"removed in use", "file added twice"} =>
    \A g \in FileStructs : at[g] # NoTag => Valid(at[g])

(* No thread touches a freed struct but after one of the four races.       *)
FreedOnlyAfterRace == bad => raced # {}

(* Without them, and while nobody links or unlinks, the table holds one    *)
(* struct at most, in use if files have it, and the two indexes agree.     *)
AgreeWithoutRace ==
    Up /\ raced = {} /\ (\A i \in Threads : ~Modifies(i)) =>
        \A g \in FileStructs, s \in Structs :
            (at[g] = s) <=> (table = <<s>> /\ obj[s].in_use /\ g \in obj[s].files)
==============================================================================
