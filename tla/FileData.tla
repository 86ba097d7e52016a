------------------------------- MODULE FileData -------------------------------
(***************************************************************************)
(* The data of the files: the three daemons pass open, read, write,        *)
(* truncate, chmod and mknod on to the target directory, in several        *)
(* threads; .tags is answered from the tags and cannot be written.  Their  *)
(* code is the same but where a definition asks which of them runs.        *)
(*                                                                         *)
(* An open file is one descriptor of the real file: a read or write moves  *)
(* its position, then reads or writes there, in two system calls.  Others  *)
(* make and remove files of the target directory meanwhile.  Tags are left *)
(* to TagFs: a lookup below a tag finds the file or does not.              *)
(***************************************************************************)
EXTENDS Naturals, SequencesExt

CONSTANTS
    Fronts,    \* which of the daemons "fuse", "sqlite" and "lowlevel" may run
    Threads,   \* threads of the daemon
    Handles,   \* open files
    Names,     \* names of regular files, .tags among them
    TagFile,   \* .tags
    Inodes,    \* bound: real files at once
    Values,    \* units of data; 0 is what fills a hole
    Dump,      \* the text of the tags
    Given,     \* what others put into a file they make
    MaxLen,    \* bound: length of a file
    MaxCalls   \* bound: calls of clients, and of others in the target directory

NoInode == 0
None == "none"

ASSUME FrontsAssumption == Fronts \subseteq {"fuse", "sqlite", "lowlevel"}
ASSUME NamesAssumption == TagFile \in Names /\ None \notin Names
ASSUME DataAssumption == /\ 0 \notin Values /\ {Dump, Given} \subseteq Seq(Values)
                         /\ Len(Dump) <= MaxLen /\ Len(Given) <= MaxLen
                         /\ Inodes # {} /\ NoInode \notin Inodes
                         /\ {MaxLen, MaxCalls} \subseteq Nat

VARIABLES
    front,    \* the daemon that runs
    dir,      \* the target directory: the inode of each name
    inode,    \* its files: data, and may they be opened?
    files,    \* the names that have a struct file
    dentry,   \* what the kernel keeps of its last lookup of a name
    fds,      \* the open files
    thread,   \* the request each thread serves
    calls,    \* calls so far
    dbLinked, \* history: .tags has been linked below a tag
    renamed   \* history: the names files have been renamed to

vars == <<front, dir, inode, files, dentry, fds, thread, calls, dbLinked, renamed>>
real == <<dir, inode>>
kept == <<front, dbLinked, renamed>>

Blank == [data |-> <<>>, denied |-> FALSE]
NoFd == [ino |-> NoInode, pos |-> 0, name |-> None, file |-> None, append |-> FALSE]
Idle == [pc |-> "idle", op |-> "none", h |-> None, off |-> 0, len |-> 0,
         value |-> 0, got |-> <<>>, alone |-> TRUE]

IsOpen(h) == fds[h] # NoFd
IsTagFile(h) == fds[h].name = TagFile
Used == {dir[n] : n \in Names} \cup {fds[h].ino : h \in Handles}
Fresh == CHOOSE k \in Inodes \ Used : TRUE
HasFresh == Inodes \ Used # {}
HighLevel == front # "lowlevel"
Called == calls < MaxCalls /\ calls' = calls + 1
Serves(h) == {i \in Threads : thread[i].pc # "idle" /\ thread[i].h = h}

------------------------------------------------------------------------------
(* Data.                                                                   *)
Zeros(n) == [k \in 1..n |-> 0]
Padded(s, n) == s \o Zeros(IF n > Len(s) THEN n - Len(s) ELSE 0)
AtMost(a, b) == IF a < b THEN a ELSE b

(* read(2), write(2) of a unit, truncate(2).                               *)
Slice(s, off, len) == SubSeq(s, off + 1, AtMost(off + len, Len(s)))
Put(s, off, v) == [Padded(s, off + 1) EXCEPT ![off + 1] = v]
Resized(s, len) == SubSeq(Padded(s, len), 1, len)

(* buf skips what is before the offset, which the buffer does not hold.    *)
reply_buf_limited(buf, off) == SubSeq(buf, off + 1, Len(buf))
lowlevel_read(s, off, len, asked) ==
    reply_buf_limited(Padded(Slice(s, off, len), len), asked)

(* fuse_sqlite3/ dumps nothing.                                            *)
dumped == IF front = "sqlite" THEN <<>> ELSE Dump

(* Mutation: what fills the buffer is answered with what was read.         *)
answered_padded(s, off, len, asked) == Padded(Slice(s, off, len), len)

answered(s, off, len, asked) == IF front = "lowlevel" THEN lowlevel_read(s, off, len, asked)
                                ELSE Slice(s, off, len)

------------------------------------------------------------------------------
(* Others, in the target directory; and the kernel, which forgets.         *)
Appears(n) ==
    /\ Called /\ dir[n] = NoInode /\ HasFresh
    /\ dir' = [dir EXCEPT ![n] = Fresh]
    /\ inode' = [inode EXCEPT ![Fresh] = [Blank EXCEPT !.data = Given]]
    /\ UNCHANGED <<files, dentry, fds, thread, kept>>

Unused(k, d, F) == k \notin {d[n] : n \in Names} \cup {F[h].ino : h \in Handles}
Cleared(d, F) == [k \in Inodes |-> IF Unused(k, d, F) THEN Blank ELSE inode[k]]

Disappears(n) ==
    /\ Called /\ n # TagFile /\ dir[n] # NoInode
    /\ dir' = [dir EXCEPT ![n] = NoInode]
    /\ inode' = Cleared(dir', fds)
    /\ UNCHANGED <<files, dentry, fds, thread, kept>>

Forgets(n) ==
    /\ dentry[n] # "unknown"
    /\ dentry' = [dentry EXCEPT ![n] = "unknown"]
    /\ UNCHANGED <<real, files, fds, thread, calls, kept>>

------------------------------------------------------------------------------
(* A path loses the names before the last.                                 *)
path_realpath(n) == dir[n]

file_get_or_create(n) == files \cup {n}

(* Mutation: the lookup makes no struct file.                              *)
getattr_intra_stat(n) == files

(* A lookup makes the struct of a file that is there.                      *)
getattr_intra(n) == IF path_realpath(n) # NoInode THEN file_get_or_create(n) ELSE files

(* A name that is not there is a directory, says fuse/; a file may lack a  *)
(* tag of the path.                                                        *)
tag_lookup(n) ==
    /\ Called /\ dentry[n] = "unknown"
    /\ files' = getattr_intra(n)
    /\ \E answer \in IF path_realpath(n) # NoInode THEN {"file", "missing"}
                     ELSE IF front = "fuse" THEN {"directory"} ELSE {"missing"} :
          dentry' = [dentry EXCEPT ![n] = answer]
    /\ UNCHANGED <<real, fds, thread, kept>>

Exists(n) == dentry[n] = "file" /\ path_realpath(n) # NoInode
Reachable(n) == Exists(n) /\ ~inode[path_realpath(n)].denied

file_get(n) == IF n \in files THEN n ELSE None

tag_open_file(h, n, append) ==
    /\ Called /\ HighLevel /\ ~IsOpen(h) /\ Reachable(n)
    /\ fds' = [fds EXCEPT ![h] = [NoFd EXCEPT !.ino = path_realpath(n), !.name = n,
                                              !.file = file_get(n), !.append = append]]
    /\ UNCHANGED <<real, files, dentry, thread, kept>>

lowlevel_open(h, n, append) ==
    /\ Called /\ front = "lowlevel" /\ ~IsOpen(h) /\ Reachable(n)
    /\ files' = file_get_or_create(n)
    /\ fds' = [fds EXCEPT ![h] = [NoFd EXCEPT !.ino = path_realpath(n), !.name = n,
                                              !.file = n, !.append = append]]
    /\ UNCHANGED <<real, dentry, thread, kept>>

file_close(h) == [fds EXCEPT ![h] = NoFd]

(* The kernel releases a file when its requests are answered.              *)
Releases(h) ==
    /\ IsOpen(h) /\ Serves(h) = {}
    /\ fds' = file_close(h)
    /\ inode' = Cleared(dir, fds')
    /\ UNCHANGED <<dir, files, dentry, thread, calls, kept>>

fd_close(h) == HighLevel /\ Releases(h)
lowlevel_release(h) == front = "lowlevel" /\ Releases(h)

------------------------------------------------------------------------------
(* A data request comes in.  The kernel sends the writes of an open file   *)
(* one by one, and reads meanwhile.                                        *)
Starts(i, r) ==
    /\ thread[i].pc = "idle" /\ IsOpen(r.h) /\ Called
    /\ r.op = "write" => \A j \in Serves(r.h) : thread[j].op # "write"
    /\ thread' = [j \in Threads |->
          IF j = i THEN [r EXCEPT !.alone = Serves(r.h) = {}]
          ELSE [thread[j] EXCEPT !.alone = @ /\ j \notin Serves(r.h)]]
    /\ UNCHANGED <<real, files, dentry, fds, kept>>

Replies(i, got) ==
    thread' = [thread EXCEPT ![i] = [Idle EXCEPT !.pc = "replied", !.h = thread[i].h, !.got = got]]

At(i, pc, op) == thread[i].pc = pc /\ thread[i].op = op

tag_read(i, h, off, len) ==
    Starts(i, [Idle EXCEPT !.pc = IF IsTagFile(h) THEN "dump" ELSE "seek",
                           !.op = "read", !.h = h, !.off = off, !.len = len])

Write(h, off, v) == [Idle EXCEPT !.pc = "seek", !.op = "write", !.h = h,
                                 !.off = off, !.value = v]

(* Mutation: .tags is written like any file.                               *)
tag_write_any(i, h, off, v) == HighLevel /\ Starts(i, Write(h, off, v))

(* EPERM for .tags.                                                        *)
tag_write(i, h, off, v) == HighLevel /\ ~IsTagFile(h) /\ Starts(i, Write(h, off, v))
lowlevel_write(i, h, off, v) ==
    front = "lowlevel" /\ ~IsTagFile(h) /\ Starts(i, Write(h, off, v))

read_tag_file(i) ==
    /\ At(i, "dump", "read")
    /\ Replies(i, answered(dumped, thread[i].off, thread[i].len, thread[i].off))
    /\ UNCHANGED <<real, files, dentry, fds, calls, kept>>

(* Mutation: a write goes on where the last request ended.                 *)
sought_reads_only(i) == IF thread[i].op = "read" THEN thread[i].off ELSE fds[thread[i].h].pos

sought(i) == thread[i].off

(* fd_read and fd_write begin alike.                                       *)
lseek(i) ==
    /\ thread[i].pc = "seek"
    /\ fds' = [fds EXCEPT ![thread[i].h].pos = sought(i)]
    /\ thread' = [thread EXCEPT ![i].pc = "go"]
    /\ UNCHANGED <<real, files, dentry, calls, kept>>

fd_read(i) ==
    LET fd == fds[thread[i].h]
        bytes == Slice(inode[fd.ino].data, fd.pos, thread[i].len)
    IN  /\ At(i, "go", "read")
        /\ fds' = [fds EXCEPT ![thread[i].h].pos = @ + Len(bytes)]
        /\ Replies(i, answered(inode[fd.ino].data, fd.pos, thread[i].len, thread[i].off))
        /\ UNCHANGED <<real, files, dentry, calls, kept>>

(* Opened to append, write(2) writes at the end.                           *)
fd_write(i) ==
    LET fd == fds[thread[i].h]
        at == IF fd.append THEN Len(inode[fd.ino].data) ELSE fd.pos
    IN  /\ At(i, "go", "write") /\ at < MaxLen
        /\ inode' = [inode EXCEPT ![fd.ino].data = Put(@, at, thread[i].value)]
        /\ fds' = [fds EXCEPT ![thread[i].h].pos = at + 1]
        /\ Replies(i, <<>>)
        /\ UNCHANGED <<dir, files, dentry, calls, kept>>

(* The file has grown to the bound: EFBIG.                                 *)
fd_write_fails(i) ==
    /\ At(i, "go", "write") /\ fds[thread[i].h].append
    /\ Len(inode[fds[thread[i].h].ino].data) = MaxLen
    /\ Replies(i, <<>>)
    /\ UNCHANGED <<real, files, dentry, fds, calls, kept>>

Answered(i) ==
    /\ thread[i].pc = "replied"
    /\ thread' = [thread EXCEPT ![i] = Idle]
    /\ UNCHANGED <<real, files, dentry, fds, calls, kept>>

------------------------------------------------------------------------------
(* Requests by path.  Below a tag .tags is found once it has been tagged,  *)
(* or a file has been renamed so.                                          *)
BelowTag == dbLinked \/ TagFile \in renamed

tag_link_database ==
    /\ Called /\ dentry[TagFile] = "file" /\ ~dbLinked /\ dbLinked' = TRUE
    /\ UNCHANGED <<front, real, files, dentry, fds, thread, renamed>>

(* A rename changes tags, and compares no names: the kernel, which has     *)
(* looked the new name up, then has the file there.                        *)
tag_rename(n, m) ==
    /\ Called /\ HighLevel /\ dentry[n] = "file" /\ (n = TagFile => BelowTag)
    /\ dentry[m] \in {"file", "missing"}
    /\ files' = IF front = "fuse" THEN file_get_or_create(n) ELSE getattr_intra(n)
    /\ dentry' = [dentry EXCEPT ![m] = "file"]
    /\ renamed' = renamed \cup {m}
    /\ UNCHANGED <<front, real, fds, thread, dbLinked>>

(* The test is on the whole path: /.tags, not .tags below a tag.           *)
Truncatable(n, atRoot) == n = TagFile => ~atRoot /\ BelowTag

(* fuse_lowlevel/ answers a truncation and does nothing.                   *)
tag_truncate(n, len, atRoot) ==
    /\ Called /\ HighLevel /\ Reachable(n) /\ Truncatable(n, atRoot)
    /\ inode' = [inode EXCEPT ![path_realpath(n)].data = Resized(@, len)]
    /\ UNCHANGED <<dir, files, dentry, fds, thread, kept>>

tag_chmod(n, denied) ==
    /\ Called /\ HighLevel /\ Exists(n)
    /\ inode' = [inode EXCEPT ![path_realpath(n)].denied = denied]
    /\ UNCHANGED <<dir, files, dentry, fds, thread, kept>>

(* Of a file that has gone the struct is made all the same.                *)
lowlevel_setattr(n, denied) ==
    /\ Called /\ front = "lowlevel" /\ dentry[n] = "file"
    /\ files' = file_get_or_create(n)
    /\ inode' = IF path_realpath(n) = NoInode THEN inode ELSE [inode EXCEPT ![path_realpath(n)].denied = denied]
    /\ UNCHANGED <<dir, dentry, fds, thread, kept>>

Makes(n) == /\ dentry[n] = "missing" /\ path_realpath(n) = NoInode /\ HasFresh
            /\ dir' = [dir EXCEPT ![n] = Fresh]
            /\ inode' = [inode EXCEPT ![Fresh] = Blank]

(* The root of fuse/ has no missing names: it is below a tag, which the    *)
(* new file lacks.  libfuse looks it up and answers that it is missing.    *)
tag_mknod(n) ==
    /\ Called /\ front = "fuse" /\ Makes(n)
    /\ files' = file_get_or_create(n)
    /\ UNCHANGED <<dentry, fds, thread, kept>>

(* fuse_sqlite3/ says of a name at the root that it is missing.            *)
sqlite_mknod(n) ==
    /\ Called /\ front = "sqlite" /\ Makes(n)
    /\ files' = file_get_or_create(n)
    /\ dentry' \in {dentry, [dentry EXCEPT ![n] = "file"]}
    /\ UNCHANGED <<fds, thread, kept>>

(* At the root only.                                                       *)
lowlevel_mknod(n) ==
    /\ Called /\ front = "lowlevel" /\ Makes(n)
    /\ files' = file_get_or_create(n)
    /\ dentry' = [dentry EXCEPT ![n] = "file"]
    /\ UNCHANGED <<fds, thread, kept>>

------------------------------------------------------------------------------
DbInode == CHOOSE k \in Inodes : TRUE

Init == /\ front \in Fronts
        /\ dir = [n \in Names |-> IF n = TagFile THEN DbInode ELSE NoInode]
        /\ inode = [k \in Inodes |-> [Blank EXCEPT !.data = IF k = DbInode THEN Dump ELSE <<>>]]
        /\ files = {} /\ dentry = [n \in Names |-> "unknown"]
        /\ fds = [h \in Handles |-> NoFd] /\ thread = [i \in Threads |-> Idle]
        /\ calls = 0 /\ dbLinked = FALSE /\ renamed = {}

Offsets == 0..(MaxLen - 1)
Next == \/ \E n \in Names : Appears(n) \/ Disappears(n) \/ Forgets(n) \/ tag_lookup(n)
        \/ \E h \in Handles, n \in Names, append \in BOOLEAN :
              tag_open_file(h, n, append) \/ lowlevel_open(h, n, append)
        \/ \E h \in Handles : fd_close(h) \/ lowlevel_release(h)
        \/ \E i \in Threads, h \in Handles, off \in Offsets :
              \/ \E len \in 1..MaxLen : tag_read(i, h, off, len)
              \/ \E v \in Values : tag_write(i, h, off, v) \/ lowlevel_write(i, h, off, v)
        \/ \E i \in Threads : \/ read_tag_file(i) \/ lseek(i) \/ fd_read(i)
                              \/ fd_write(i) \/ fd_write_fails(i) \/ Answered(i)
        \/ tag_link_database
        \/ \E n, m \in Names : tag_rename(n, m)
        \/ \E n \in Names, len \in 0..MaxLen, atRoot \in BOOLEAN : tag_truncate(n, len, atRoot)
        \/ \E n \in Names, denied \in BOOLEAN : tag_chmod(n, denied) \/ lowlevel_setattr(n, denied)
        \/ \E n \in Names : tag_mknod(n) \/ sqlite_mknod(n) \/ lowlevel_mknod(n)

Spec == Init /\ [][Next]_vars

------------------------------------------------------------------------------
(* Properties.                                                             *)

(* Types.  An open file has its struct file, which open and close          *)
(* dereference (fuse/file_descriptor.c:36,59): a lookup came first,        *)
(* whatever happened to the real file in between.  In fuse_sqlite3/, which *)
(* does not use it, a file may be renamed to a name that has none.         *)
Datum == Values \cup {0}
MayLack(n) == front = "sqlite" /\ n \in renamed
TypeOK == /\ front \in Fronts /\ dir \in [Names -> Inodes \cup {NoInode}]
          /\ \A k \in Inodes : /\ inode[k].data \in Seq(Datum) /\ Len(inode[k].data) <= MaxLen
                               /\ inode[k].denied \in BOOLEAN
          /\ files \subseteq Names
          /\ dentry \in [Names -> {"unknown", "file", "missing", "directory"}]
          /\ \A h \in Handles : IsOpen(h) => /\ fds[h].file \in files \/ MayLack(fds[h].name)
                                             /\ fds[h].ino \in Inodes /\ fds[h].pos \in 0..MaxLen
          /\ \A i \in Threads : /\ thread[i].pc \in {"idle", "dump", "seek", "go", "replied"}
                                /\ thread[i].got \in Seq(Datum)
          /\ calls \in 0..MaxCalls /\ dbLinked \in BOOLEAN /\ renamed \subseteq Names

Content(h) == IF IsTagFile(h) THEN dumped ELSE inode[fds[h].ino].data
Asked(i) == Slice(Content(thread[i].h), thread[i].off, thread[i].len)
ReplyTo(i, op) == thread[i].op = op /\ thread[i].alone /\ thread'[i].pc = "replied"

(* A read answers what the file it was opened on holds at the offset that  *)
(* was asked for, to its end, whatever the requests on other descriptors   *)
(* of the file do, and whatever has been read or written through this one  *)
(* before (file_descriptor.c:65-80), unless another request on the same    *)
(* descriptor was served meanwhile.                                        *)
ReadsAnswer == [][HighLevel =>
    \A i \in Threads : ReplyTo(i, "read") => thread'[i].got = Asked(i)]_vars

(* "read the content of the file" (fuse_lowlevel/fuse_callback.c:523): at  *)
(* least that, zeros may follow.                                           *)
ReadsContent == [][\A i \in Threads :
    ReplyTo(i, "read") => IsPrefix(Asked(i), thread'[i].got)]_vars

(* A write changes one unit, at the offset that was asked for or, opened   *)
(* to append, at the end (file_descriptor.c:83-93), unless another request *)
(* on the same descriptor was served meanwhile.                            *)
WritesLand == [][\A i \in Threads : ReplyTo(i, "write") =>
    LET fd == fds[thread[i].h]
        s == inode[fd.ino].data
        at == IF fd.append THEN Len(s) ELSE thread[i].off
    IN  inode' = IF at = MaxLen THEN inode
                 ELSE [inode EXCEPT ![fd.ino].data = Put(s, at, thread[i].value)]]_vars

(* No request changes the data of .tags, by handle or by path              *)
(* (tagfs.c:468,501), as long as it has not been tagged itself and no file *)
(* has been renamed to .tags; in fuse_lowlevel/ none does at all.          *)
DatabaseKept == ~BelowTag \/ front = "lowlevel" => inode[dir[TagFile]].data = Dump
==============================================================================
