-------------------------------- MODULE TagsDb --------------------------------
(***************************************************************************)
(* The text file of the tags: `.tags' is parsed when the daemon starts,    *)
(* what it knows is dumped to `.tags.new' when it stops, which the user    *)
(* may put in the place of `.tags', and read by clients, in several reads, *)
(* from the .tags of the mount.                                            *)
(*                                                                         *)
(* A text is a sequence of lines: the name of a file in brackets, the name *)
(* of a tag, an empty line.  The tables keep the order of insertion, and a *)
(* table turned into a list comes out backwards (cutil).  One request at a *)
(* time (-s).  fuse_lowlevel/ has the same functions; fuse_sqlite3/ parses *)
(* likewise and dumps nothing.                                             *)
(***************************************************************************)
EXTENDS Integers, Sequences, SequencesExt

CONSTANTS
    Files,      \* names of files
    Tags,       \* names of tags
    ReadFile,   \* the file that the parser reads in `[f]': the name up to its first `]'
    ReadTag,    \* the line that it reads in the name of a tag: see reads
    Cut,        \* a name that is cut short
    NoFile,     \* no file (f == NULL)
    Text,       \* the .tags of the first start
    Chunk,      \* lines that a client gets in one read
    MaxChanges  \* bound: links, unlinks and lookups of new files from a start on

FileNames == Files \cup {Cut}
TagNames == Tags \cup {Cut}
Line(k, n) == [kind |-> k, name |-> n]
Empty == Line("empty", NoFile)
Lines == [kind : {"file"}, name : FileNames] \cup [kind : {"tag"}, name : TagNames]
            \cup {Empty}

ASSUME NamesAssumption == Cut \notin Files \cup Tags /\ NoFile \notin FileNames
ASSUME ReadingAssumption ==
    /\ ReadFile \in [Files -> Files]
    /\ ReadTag \in [Tags -> [kind : {"file"}, name : Files] \cup [kind : {"tag"}, name : Tags]
                             \cup {Empty}]
ASSUME TextAssumption == Text \in Seq(Lines) /\ \A i \in DOMAIN Text : Text[i].name # Cut
ASSUME BoundsAssumption == Chunk \in Nat \ {0} /\ MaxChanges \in Nat

VARIABLES
    up,      \* the daemon runs
    tables,  \* files: the table of the files; tags: f->tags of each
    reader,  \* a client that reads the .tags of the mount
    db,      \* .tags
    new,     \* .tags.new, until the next start
    saved,   \* history: what the whole dump of the last stop says
    changes  \* links, unlinks and lookups since the start

vars == <<up, tables, reader, db, new, saved, changes>>

RelationOf(T) == {p \in FileNames \X TagNames : p[2] \in ToSet(T.tags[p[1]])}
Closed == [open |-> FALSE, got |-> <<>>, quiet |-> TRUE, eof |-> FALSE]
NoTables == [files |-> <<>>, tags |-> [f \in FileNames |-> <<>>]]

------------------------------------------------------------------------------
(* ht_add_unique_entry, ht_remove_entry, ht_to_list (list_add).            *)
ht_add_unique_entry(h, x) == IF Contains(h, x) THEN h ELSE Append(h, x)
ht_remove_entry(h, x) == IF Contains(h, x) THEN RemoveAt(h, CHOOSE i \in DOMAIN h : h[i] = x)
                         ELSE h

list_add(l, x) == <<x>> \o l
ht_to_list(h) == LET l[i \in 0..Len(h)] == IF i = 0 THEN <<>> ELSE list_add(l[i-1], h[i])
                 IN  l[Len(h)]

section(T, f) ==
    IF T.tags[f] = <<>> THEN <<>>
    ELSE <<Line("file", f)>> \o [i \in DOMAIN T.tags[f] |-> Line("tag", T.tags[f][i])]
           \o <<Empty>>

(* The text after each file of the list.                                   *)
dumped(T, l) == LET text[i \in 0..Len(l)] == IF i = 0 THEN <<>>
                                             ELSE text[i-1] \o section(T, l[i])
                IN  text

tag_db_dump(T) == LET l == ht_to_list(T.files) IN dumped(T, l)[Len(l)]

------------------------------------------------------------------------------
(* Mutation: the file before is put into the table.                        *)
parse_file_null(s, f) == [s EXCEPT !.cur = f, !.files = ht_add_unique_entry(@, s.cur)]

(* getattr answers for any name, so every file of the text is created.     *)
parse_file(s, f) == [s EXCEPT !.cur = f, !.files = ht_add_unique_entry(@, f)]

parse_tag(s, t) == IF s.cur = NoFile THEN s
                   ELSE [s EXCEPT !.tags[s.cur] = ht_add_unique_entry(@, t)]

(* What the parser finds in a line (copy_word_until, isspace, `#', `[').    *)
(* `[f]' ends at the first `]' of f.  Of the name of a tag, the leading    *)
(* blanks are left out; then it is a tag, or a file if it starts with `[', *)
(* or nothing is left; and one that starts with `#' is a comment.  Every   *)
(* name of the text is one line of less than MAX_LENGTH.                   *)
reads(l) ==
    CASE l.kind = "empty" \/ l.name = Cut -> l
      [] l.kind = "file" /\ l.name # Cut  -> Line("file", ReadFile[l.name])
      [] l.kind = "tag" /\ l.name # Cut   -> ReadTag[l.name]

(* Mutation: a line that says nothing ends a section.                      *)
parse_line_resetting(s, l) ==
    LET r == reads(l)
    IN  CASE r.kind = "file" -> parse_file(s, r.name)
          [] r.kind = "tag"  -> parse_tag(s, r.name)
          [] OTHER           -> [s EXCEPT !.cur = NoFile]

parse_line(s, l) ==
    LET r == reads(l)
    IN  CASE r.kind = "file" -> parse_file(s, r.name)
          [] r.kind = "tag"  -> parse_tag(s, r.name)
          [] OTHER           -> s

(* The tables and the current file after each line.                        *)
parse_tags_db2(text) ==
    LET s[i \in 0..Len(text)] ==
            IF i = 0 THEN [files |-> <<>>, tags |-> NoTables.tags, cur |-> NoFile]
            ELSE parse_line(s[i-1], text[i])
    IN  s

parse_tags_db(text) == LET s == parse_tags_db2(text)[Len(text)]
                       IN  [files |-> s.files, tags |-> s.tags]

------------------------------------------------------------------------------
(* The requests that change what a dump says.                              *)
Changes(T) == /\ up /\ changes < MaxChanges /\ T # tables
              /\ tables' = T /\ changes' = changes + 1
              /\ reader' = [reader EXCEPT !.quiet = @ /\ tag_db_dump(T) = tag_db_dump(tables)]
              /\ UNCHANGED <<up, db, new, saved>>

file_get_or_create(f) == Changes([tables EXCEPT !.files = ht_add_unique_entry(@, f)])

tag_file(f, t) == Changes([files |-> ht_add_unique_entry(tables.files, f),
                           tags |-> [tables.tags EXCEPT ![f] = ht_add_unique_entry(@, t)]])

untag_file(f, t) == Changes([tables EXCEPT !.tags[f] = ht_remove_entry(@, t)])

------------------------------------------------------------------------------
Upto(m, n) == IF m < n THEN m ELSE n

read_tag_file(text, off) == SubSeq(text, off + 1, Upto(off + Chunk, Len(text)))

(* Mutation: a read starts one further.                                    *)
tag_read_one_off(off) == read_tag_file(tag_db_dump(tables), off + 1)

tag_read(off) == read_tag_file(tag_db_dump(tables), off)

Opens == /\ up /\ ~reader.open
         /\ reader' = [Closed EXCEPT !.open = TRUE]
         /\ UNCHANGED <<up, tables, db, new, saved, changes>>

(* Until a read comes out short.                                           *)
Reads == /\ up /\ reader.open /\ ~reader.eof
         /\ LET r == tag_read(Len(reader.got))
            IN  reader' = [reader EXCEPT !.got = @ \o r, !.eof = Len(r) < Chunk]
         /\ UNCHANGED <<up, tables, db, new, saved, changes>>

Closes == /\ up /\ reader.open
          /\ reader' = Closed
          /\ UNCHANGED <<up, tables, db, new, saved, changes>>

------------------------------------------------------------------------------
(* save_tag_db, to its end, or the daemon is killed and the dump stops     *)
(* anywhere, within a line too.                                            *)
shorten(l) == IF reads(l) = Empty THEN l ELSE Line(reads(l).kind, Cut)

Torn(text) == {<<>>} \cup
              UNION {{SubSeq(text, 1, k), [SubSeq(text, 1, k) EXCEPT ![k] = shorten(@)]} :
                          k \in DOMAIN text}

(* Mutation: what is not overwritten of the last dump stays behind it.     *)
written_over(text) == text \o SubSeq(db, Len(text) + 1, Len(db))

written(text) == text

Stops(text) == /\ up /\ up' = FALSE /\ new' = written(text)
               /\ saved' = RelationOf(parse_tags_db(tag_db_dump(tables)))
               /\ tables' = NoTables /\ reader' = Closed /\ changes' = 0
               /\ UNCHANGED db

save_tag_db == Stops(tag_db_dump(tables))
Interrupted == \E text \in Torn(tag_db_dump(tables)) : Stops(text)

Starts(text) == /\ ~up /\ up' = TRUE /\ db' = text
                /\ tables' = parse_tags_db(text)
                /\ new' = <<>> /\ saved' = {}
                /\ UNCHANGED <<reader, changes>>

Init == /\ up = FALSE /\ tables = NoTables /\ reader = Closed
        /\ db = Text /\ new = <<>> /\ saved = {} /\ changes = 0

Next == \/ \E f \in Files : file_get_or_create(f)
        \/ \E f \in Files, t \in Tags : tag_file(f, t) \/ untag_file(f, t)
        \/ Opens \/ Reads \/ Closes
        \/ save_tag_db \/ Interrupted
        \/ Starts(db)
        \/ Starts(new)          \* mv .tags.new .tags

Spec == Init /\ [][Next]_vars

------------------------------------------------------------------------------
(* Properties.                                                             *)

(* Types.                                                                  *)
TypeOK ==
    /\ up \in BOOLEAN /\ changes \in 0..MaxChanges
    /\ tables \in [files : Seq(FileNames), tags : [FileNames -> Seq(TagNames)]]
    /\ reader \in [open : BOOLEAN, got : Seq(Lines), quiet : BOOLEAN, eof : BOOLEAN]
    /\ {db, new} \subseteq Seq(Lines)
    /\ saved \subseteq FileNames \X TagNames

TagRead(t) == reads(Line("tag", t))
FileRead(f) == reads(Line("file", f)).name
Holding(R, f) == {p[2] : p \in {q \in R : q[1] = f}}

(* What the daemon dumps it would read back (tag.c:165-186, 221-238),      *)
(* whatever order the tables are in: a tag that is read as one comes back, *)
(* at the file that is read, unless another tag of the file is read as a   *)
(* file; and what comes back at a file was at one that is read as it, or   *)
(* at one with a tag that is read as it.  So names that are read as they   *)
(* are come back as they were: photo[1].jpg does not (tag.c:188-201).      *)
DumpReadsBack ==
    LET R == RelationOf(tables)
        B == RelationOf(parse_tags_db(tag_db_dump(tables)))
    IN  up => /\ \A p \in R :
                     /\ TagRead(p[2]).kind = "tag"
                     /\ \A t \in Holding(R, p[1]) : TagRead(t).kind # "file"
                     => <<FileRead(p[1]), TagRead(p[2]).name>> \in B
              /\ \A b \in B : \E p \in R :
                     /\ TagRead(p[2]) = Line("tag", b[2])
                     /\ \/ b[1] = FileRead(p[1])
                        \/ \E t \in Holding(R, p[1]) : TagRead(t) = Line("file", b[1])

(* A dump that was interrupted loses of what the whole one says and, of    *)
(* the line it ends in, may give a file one tag with a name cut short: no  *)
(* file gets the tag of another by it, and none gets back a tag it had     *)
(* lost (tagfs.c:738-748).                                                 *)
TornSaveOnlyLoses ==
    LET extra == RelationOf(parse_tags_db(new)) \ saved
    IN  ~up => extra \subseteq Files \X {Cut} /\ \A p, q \in extra : p = q

(* A client that reads the .tags of the mount to its end gets the text, in *)
(* as many reads as it takes (tagfs.c:414-441, each of which dumps anew),  *)
(* if the tags did not change meanwhile.                                   *)
ReadsWholeText ==
    reader.eof /\ reader.quiet => reader.got = tag_db_dump(tables)
==============================================================================
