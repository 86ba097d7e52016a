---------------------------- MODULE FileDataProofs ----------------------------
(***************************************************************************)
(* Theorems about FileData, for any of the daemons, any number of threads, *)
(* open files and names, and any data: requests on different descriptors   *)
(* do not meet, and .tags is not written.                                  *)
(***************************************************************************)
EXTENDS FileData, TLAPS

ThreadFields == {"pc", "op", "h", "off", "len", "value", "got", "alone"}
FdFields == {"ino", "pos", "name", "file", "append"}

(* Functions and records that an assignment to a part of them leaves such. *)
Shaped == /\ DOMAIN dir = Names /\ DOMAIN inode = Inodes /\ DOMAIN fds = Handles
          /\ DOMAIN thread = Threads
          /\ \A k \in Inodes : DOMAIN inode[k] = {"data", "denied"}
          /\ \A h \in Handles : DOMAIN fds[h] = FdFields
          /\ \A i \in Threads : DOMAIN thread[i] = ThreadFields

(* The inode of .tags has no other name, and is not open under one.        *)
DbIsApart == /\ dir[TagFile] = DbInode
             /\ \A n \in Names \ {TagFile} : dir[n] # DbInode
             /\ \A h \in Handles : fds[h].name # TagFile => fds[h].ino # DbInode

Active(i) == thread[i].pc \in {"dump", "seek", "go"}

(* A request that is served is on an open file, and knows which kind.      *)
ServesOpenFile ==
    /\ \A h \in Handles : IsOpen(h) => fds[h].name \in Names
    /\ \A i \in Threads :
        IF Active(i) THEN /\ thread[i].h \in Handles /\ fds[thread[i].h].name \in Names
                          /\ thread[i].op \in {"read", "write"}
                          /\ IF thread[i].pc = "dump"
                             THEN thread[i].op = "read" /\ IsTagFile(thread[i].h)
                             ELSE ~IsTagFile(thread[i].h)
        ELSE thread[i].op = "none"

(* Alone so far: nobody else is served on the descriptor, so it is where   *)
(* the request has put it.                                                 *)
AloneIsApart ==
    \A i \in Threads : Active(i) /\ thread[i].alone =>
        /\ Serves(thread[i].h) = {i}
        /\ thread[i].pc = "go" => fds[thread[i].h].pos = thread[i].off

IInv == Shaped /\ DbIsApart /\ ServesOpenFile /\ AloneIsApart /\ DatabaseKept

LEMMA DbInodeType == DbInode \in Inodes /\ DbInode # NoInode
BY DataAssumption DEF DbInode

LEMMA NamesType == None # TagFile /\ TagFile \in Names /\ None \notin Names
BY NamesAssumption

LEMMA InitIInv == Init => IInv
BY DbInodeType, NamesType
   DEF Init, IInv, Shaped, DbIsApart, ServesOpenFile, AloneIsApart, DatabaseKept, BelowTag, Active,
       IsOpen, Blank, NoFd, Idle, FdFields, ThreadFields

------------------------------------------------------------------------------
(* The parts of the invariant, by what they depend on.                     *)
Threads1 == ServesOpenFile /\ AloneIsApart

(* Fresh is not an inode that has a name or is open.                       *)
LEMMA FreshType ==
  ASSUME HasFresh
  PROVE  /\ Fresh \in Inodes /\ \A n \in Names : dir[n] # Fresh
         /\ \A h \in Handles : fds[h].ino # Fresh
<1>1. Fresh \in Inodes \ Used
  BY DEF HasFresh, Fresh
<1> QED BY <1>1 DEF Used

(* A new file, a file that goes, a lookup or an attribute: the threads and *)
(* the descriptors stay, the data of .tags too.                            *)
LEMMA DirectoryIInv ==
  ASSUME IInv, UNCHANGED <<fds, thread, front>>, BelowTag => BelowTag',
         DOMAIN dir' = Names, DOMAIN inode' = Inodes,
         \A k \in Inodes : DOMAIN inode'[k] = {"data", "denied"},
         dir'[TagFile] = DbInode, \A n \in Names \ {TagFile} : dir'[n] # DbInode,
         inode'[DbInode].data = inode[DbInode].data
             \/ (HighLevel /\ BelowTag)
  PROVE  IInv'
<1>1. Shaped'
  BY DEF IInv, Shaped
<1>2. DbIsApart'
  BY DEF IInv, DbIsApart
<1>3. Threads1'
  BY DEF IInv, Threads1, ServesOpenFile, AloneIsApart, Active, IsTagFile, Serves,
         IsOpen
<1>4. DatabaseKept'
  BY DEF IInv, DatabaseKept, DbIsApart, HighLevel
<1> QED BY <1>1, <1>2, <1>3, <1>4 DEF IInv, Threads1

LEMMA ClearedShape ==
  ASSUME IInv, NEW d, NEW F
  PROVE  /\ DOMAIN Cleared(d, F) = Inodes
         /\ \A k \in Inodes : DOMAIN Cleared(d, F)[k] = {"data", "denied"}
         /\ d[TagFile] = DbInode => Cleared(d, F)[DbInode] = inode[DbInode]
<1>1. \A k \in Inodes : Cleared(d, F)[k] = IF Unused(k, d, F) THEN Blank ELSE inode[k]
  BY DEF Cleared
<1>2. DOMAIN Blank = {"data", "denied"}
  BY DEF Blank
<1>3. d[TagFile] = DbInode => ~Unused(DbInode, d, F)
  BY NamesType DEF Unused
<1>4. \A k \in Inodes : DOMAIN inode[k] = {"data", "denied"}
  BY DEF IInv, Shaped
<1>5. DOMAIN Cleared(d, F) = Inodes
  BY DEF Cleared
<1> QED BY <1>1, <1>2, <1>3, <1>4, <1>5, DbInodeType

(* The requests that change no descriptor.                                 *)
LEMMA MakesIInv ==
  ASSUME IInv, NEW n \in Names, dir[n] = NoInode, HasFresh, NEW r,
         DOMAIN r = {"data", "denied"},
         dir' = [dir EXCEPT ![n] = Fresh], inode' = [inode EXCEPT ![Fresh] = r],
         UNCHANGED <<fds, thread, front, dbLinked, renamed>>
  PROVE  IInv'
<1>1. DOMAIN dir = Names /\ DOMAIN inode = Inodes
      /\ \A k \in Inodes : DOMAIN inode[k] = {"data", "denied"}
  BY DEF IInv, Shaped
<1>2. dir[TagFile] = DbInode /\ \A m \in Names \ {TagFile} : dir[m] # DbInode
  BY DEF IInv, DbIsApart
<1>3. n # TagFile /\ Fresh # DbInode /\ Fresh \in Inodes
  BY <1>2, FreshType, DbInodeType, NamesType
<1>4. inode'[DbInode] = inode[DbInode]
  BY <1>1, <1>3, DbInodeType
<1>5. \A k \in Inodes : DOMAIN inode'[k] = {"data", "denied"}
  BY <1>1
<1>6. dir'[TagFile] = DbInode /\ \A m \in Names \ {TagFile} : dir'[m] # DbInode
  BY <1>1, <1>2, <1>3, NamesType
<1>7. DOMAIN dir' = Names /\ DOMAIN inode' = Inodes
  BY <1>1
<1> QED BY <1>4, <1>5, <1>6, <1>7, DirectoryIInv DEF BelowTag

(* An attribute of a file, or the data of one that is not .tags.           *)
LEMMA InodeIInv ==
  ASSUME IInv, NEW k, NEW x,
         \/ inode' = [inode EXCEPT ![k].denied = x]
         \/ /\ inode' = [inode EXCEPT ![k].data = x]
            /\ k = DbInode => HighLevel /\ BelowTag,
         UNCHANGED <<dir, fds, thread, front, dbLinked, renamed>>
  PROVE  IInv'
<1>1. /\ DOMAIN dir = Names /\ DOMAIN inode = Inodes
      /\ \A m \in Inodes : DOMAIN inode[m] = {"data", "denied"}
      /\ dir[TagFile] = DbInode /\ \A m \in Names \ {TagFile} : dir[m] # DbInode
  BY DEF IInv, Shaped, DbIsApart
<1>2. /\ DOMAIN inode' = Inodes
      /\ \A m \in Inodes : DOMAIN inode'[m] = {"data", "denied"}
      /\ inode'[DbInode].data = inode[DbInode].data \/ (HighLevel /\ BelowTag)
  <2>1. CASE inode' = [inode EXCEPT ![k].denied = x]
    <3>1. \A m \in Inodes : inode'[m] = IF m = k THEN [inode[m] EXCEPT !.denied = x] ELSE inode[m]
      BY <1>1, <2>1
    <3>2. DOMAIN inode' = Inodes
      BY <1>1, <2>1
    <3>3. \A m \in Inodes : DOMAIN inode'[m] = {"data", "denied"}
      BY <1>1, <3>1
    <3>4. inode'[DbInode].data = inode[DbInode].data
      BY <1>1, <3>1, DbInodeType
    <3> QED BY <3>2, <3>3, <3>4
  <2>2. CASE inode' = [inode EXCEPT ![k].data = x] /\ (k = DbInode => HighLevel /\ BelowTag)
    <3>1. \A m \in Inodes : inode'[m] = IF m = k THEN [inode[m] EXCEPT !.data = x] ELSE inode[m]
      BY <1>1, <2>2
    <3>2. DOMAIN inode' = Inodes
      BY <1>1, <2>2
    <3>3. \A m \in Inodes : DOMAIN inode'[m] = {"data", "denied"}
      BY <1>1, <3>1
    <3>4. inode'[DbInode].data = inode[DbInode].data \/ k = DbInode
      BY <1>1, <3>1, DbInodeType
    <3> QED BY <2>2, <3>2, <3>3, <3>4
  <2> QED BY <2>1, <2>2
<1> QED BY <1>1, <1>2, DirectoryIInv DEF BelowTag

------------------------------------------------------------------------------
(* Descriptors come and go, and take the inodes they held with them.       *)
LEMMA OpenIInv ==
  ASSUME IInv, NEW h \in Handles, ~IsOpen(h), NEW n \in Names, NEW r,
         DOMAIN r = FdFields, r.name = n, r.ino = dir[n],
         fds' = [fds EXCEPT ![h] = r],
         UNCHANGED <<dir, inode, thread, front, dbLinked, renamed>>
  PROVE  IInv'
<1>1. /\ DOMAIN dir = Names /\ DOMAIN inode = Inodes /\ DOMAIN fds = Handles
      /\ \A k \in Handles : DOMAIN fds[k] = FdFields
  BY DEF IInv, Shaped
<1>2. \A k \in Handles : fds'[k] = IF k = h THEN r ELSE fds[k]
  BY <1>1
<1>3. Shaped'
  BY <1>1, <1>2 DEF IInv, Shaped
<1>4. DbIsApart'
  BY <1>2 DEF IInv, DbIsApart
<1>5. \A i \in Threads : Active(i) => thread[i].h # h
  <2>1. fds[h].name \notin Names
    BY NamesType DEF IsOpen, NoFd
  <2> QED BY <2>1 DEF IInv, ServesOpenFile
<1>6. Threads1'
  BY <1>2, <1>5 DEF IInv, Threads1, ServesOpenFile, AloneIsApart, Active, IsTagFile, Serves,
         IsOpen
<1>7. DatabaseKept'
  BY DEF IInv, DatabaseKept, BelowTag
<1> QED BY <1>3, <1>4, <1>6, <1>7 DEF IInv, Threads1

LEMMA ReleaseIInv ==
  ASSUME IInv, NEW h \in Handles, Releases(h)
  PROVE  IInv'
<1>1. /\ DOMAIN dir = Names /\ DOMAIN fds = Handles
      /\ \A k \in Handles : DOMAIN fds[k] = FdFields
      /\ dir[TagFile] = DbInode
  BY DEF IInv, Shaped, DbIsApart
<1>2. /\ fds' = [fds EXCEPT ![h] = NoFd] /\ inode' = Cleared(dir, fds')
      /\ UNCHANGED <<dir, thread, front, dbLinked, renamed>>
  BY DEF Releases, file_close, kept
<1>3. \A k \in Handles : fds'[k] = IF k = h THEN NoFd ELSE fds[k]
  BY <1>1, <1>2
<1>4. DOMAIN NoFd = FdFields /\ NoFd.ino # DbInode
  BY DbInodeType DEF NoFd, FdFields
<1>5. /\ DOMAIN inode' = Inodes
      /\ \A k \in Inodes : DOMAIN inode'[k] = {"data", "denied"}
      /\ inode'[DbInode] = inode[DbInode]
  BY <1>1, <1>2, ClearedShape
<1>6. Shaped'
  BY <1>1, <1>2, <1>3, <1>4, <1>5 DEF IInv, Shaped
<1>7. DbIsApart'
  BY <1>2, <1>3, <1>4 DEF IInv, DbIsApart
<1>8. \A i \in Threads : Active(i) => thread[i].h # h
  <2>1. \A i \in Threads : thread[i].pc # "idle" => thread[i].h # h
    BY DEF Releases, Serves
  <2> QED BY <2>1 DEF Active
<1>9. Threads1'
  BY <1>2, <1>3, <1>8
     DEF IInv, Threads1, ServesOpenFile, AloneIsApart, Active, IsTagFile, Serves,
         IsOpen
<1>10. DatabaseKept'
  BY <1>1, <1>2, <1>5 DEF IInv, DatabaseKept, BelowTag
<1> QED BY <1>6, <1>7, <1>9, <1>10 DEF IInv, Threads1

------------------------------------------------------------------------------
(* A request comes in: those on its descriptor are not alone any more.     *)
LEMMA StartsIInv ==
  ASSUME IInv, NEW i \in Threads, NEW r, DOMAIN r = ThreadFields, Starts(i, r),
         r.h \in Handles, r.op \in {"read", "write"},
         \/ r.pc = "seek" /\ ~IsTagFile(r.h)
         \/ r.pc = "dump" /\ r.op = "read" /\ IsTagFile(r.h)
  PROVE  IInv'
<1> DEFINE h == r.h
<1>1. /\ DOMAIN thread = Threads
      /\ \A j \in Threads : DOMAIN thread[j] = ThreadFields
  BY DEF IInv, Shaped
<1>2. /\ IsOpen(h) /\ thread[i].pc = "idle"
      /\ UNCHANGED <<dir, inode, fds, front, dbLinked, renamed>>
      /\ thread' = [j \in Threads |->
            IF j = i THEN [r EXCEPT !.alone = (Serves(h) = {})]
            ELSE [thread[j] EXCEPT !.alone = @ /\ j \notin Serves(h)]]
  BY DEF Starts, real, kept
<1>3. ASSUME NEW j \in Threads \ {i}
      PROVE  /\ DOMAIN thread'[j] = ThreadFields
             /\ thread'[j].pc = thread[j].pc /\ thread'[j].op = thread[j].op
             /\ thread'[j].h = thread[j].h /\ thread'[j].off = thread[j].off
             /\ thread'[j].alone => thread[j].alone /\ j \notin Serves(h)
  <2>1. thread'[j] = [thread[j] EXCEPT !.alone = @ /\ j \notin Serves(h)]
    BY <1>2
  <2> QED BY <1>1, <2>1 DEF ThreadFields
<1>4. /\ DOMAIN thread'[i] = ThreadFields
      /\ thread'[i].pc = r.pc /\ thread'[i].op = r.op /\ thread'[i].h = h
      /\ thread'[i].off = r.off /\ (thread'[i].alone => Serves(h) = {})
  <2>1. thread'[i] = [r EXCEPT !.alone = (Serves(h) = {})]
    BY <1>2
  <2> QED BY <1>1, <2>1 DEF ThreadFields
<1>5. fds[h].name \in Names
  BY <1>2 DEF IInv, ServesOpenFile
<1>6. r.pc \in {"seek", "dump"} /\ h \in Handles
  OBVIOUS
<1>7. Shaped' /\ DbIsApart' /\ DatabaseKept'
  <2>1. DOMAIN thread' = Threads /\ \A j \in Threads : DOMAIN thread'[j] = ThreadFields
    BY <1>2, <1>3, <1>4
  <2> QED BY <1>2, <2>1 DEF IInv, Shaped, DbIsApart, DatabaseKept, BelowTag
<1>8. ServesOpenFile'
  <2>1. ASSUME NEW j \in Threads
        PROVE  IF Active(j)' THEN /\ thread'[j].h \in Handles /\ fds'[thread'[j].h].name \in Names
                                  /\ thread'[j].op \in {"read", "write"}
                                  /\ IF thread'[j].pc = "dump"
                                     THEN thread'[j].op = "read" /\ IsTagFile(thread[j].h)'
                                     ELSE ~IsTagFile(thread[j].h)'
               ELSE thread'[j].op = "none"
    <3>1. CASE j = i
      BY <1>2, <1>4, <1>5, <1>6, <3>1 DEF Active, IsTagFile
    <3>2. CASE j # i
      BY <1>2, <1>3, <3>2 DEF IInv, ServesOpenFile, Active, IsTagFile
    <3> QED BY <3>1, <3>2
  <2> QED BY <1>2, <2>1 DEF IInv, ServesOpenFile, IsOpen
<1>9. AloneIsApart'
  <2> SUFFICES ASSUME NEW j \in Threads, Active(j)', thread'[j].alone
               PROVE  /\ Serves(thread[j].h)' = {j}
                      /\ thread'[j].pc = "go" => fds'[thread'[j].h].pos = thread'[j].off
    BY DEF AloneIsApart
  <2>1. CASE j = i
    <3>1. Serves(h) = {} /\ thread'[i].pc # "idle" /\ thread'[i].pc # "go"
      BY <1>4, <1>6, <2>1
    <3>2. \A k \in Threads \ {i} : ~(thread'[k].pc # "idle" /\ thread'[k].h = h)
      BY <1>3, <3>1 DEF Serves
    <3>3. Serves(h)' = {i}
      BY <1>4, <3>1, <3>2 DEF Serves
    <3> QED BY <1>4, <2>1, <3>1, <3>3 DEF Serves
  <2>2. CASE j # i
    <3>1. Active(j) /\ thread[j].alone /\ j \notin Serves(h)
      BY <1>3, <2>2 DEF Active
    <3>2. Serves(thread[j].h) = {j} /\ (thread[j].pc = "go" => fds[thread[j].h].pos = thread[j].off)
      BY <3>1 DEF IInv, AloneIsApart
    <3>3. thread[j].h # h /\ thread[j].pc # "idle"
      BY <3>1 DEF Serves, Active
    <3>4. Serves(thread[j].h)' = {j}
      BY <1>2, <1>3, <1>4, <2>2, <3>2, <3>3 DEF Serves
    <3> QED BY <1>2, <1>3, <2>2, <3>2, <3>4
  <2> QED BY <2>1, <2>2
<1> QED BY <1>7, <1>8, <1>9 DEF IInv

(* A step of a request: it moves its descriptor, on which nobody is alone  *)
(* but itself, and has put it where it reads or writes, or is answered.    *)
LEMMA ServedIInv ==
  ASSUME IInv, NEW i \in Threads, Active(i), NEW r, NEW s,
         fds' = fds \/ fds' = [fds EXCEPT ![thread[i].h] = s],
         DOMAIN s = FdFields, s.name = fds[thread[i].h].name,
         s.ino = fds[thread[i].h].ino,
         thread' = [thread EXCEPT ![i] = r], DOMAIN r = ThreadFields, r.h = thread[i].h,
         \/ /\ r.pc = "go" /\ thread[i].pc = "seek" /\ r.op = thread[i].op /\ r.off = s.pos
            /\ r.alone = thread[i].alone /\ fds' = [fds EXCEPT ![thread[i].h] = s]
         \/ r.pc = "replied" /\ r.op = "none",
         UNCHANGED <<dir, front, dbLinked, renamed>>,
         DOMAIN inode' = Inodes, \A k \in Inodes : DOMAIN inode'[k] = {"data", "denied"},
         inode'[DbInode].data = inode[DbInode].data
  PROVE  IInv'
<1> DEFINE h == thread[i].h
<1>1. /\ DOMAIN thread = Threads /\ DOMAIN fds = Handles
      /\ \A j \in Threads : DOMAIN thread[j] = ThreadFields
      /\ \A k \in Handles : DOMAIN fds[k] = FdFields
  BY DEF IInv, Shaped
<1>2. /\ h \in Handles /\ fds[h].name \in Names
      /\ thread[i].pc # "dump" => ~IsTagFile(h)
      /\ thread[i].op \in {"read", "write"}
  BY DEF IInv, ServesOpenFile
<1>3. \A j \in Threads : thread'[j] = IF j = i THEN r ELSE thread[j]
  BY <1>1
<1>4. \A k \in Handles \ {h} : fds'[k] = fds[k]
  BY <1>1
<1>5. fds'[h] = fds[h] \/ fds'[h] = s
  BY <1>1, <1>2
<1>6. \A k \in Handles : /\ fds'[k].name = fds[k].name /\ fds'[k].ino = fds[k].ino
                         /\ DOMAIN fds'[k] = FdFields
  BY <1>1, <1>4, <1>5
<1>7. thread[i].pc # "idle"
  BY DEF Active
<1>8. Shaped'
  BY <1>1, <1>3, <1>6 DEF IInv, Shaped
<1>9. DbIsApart'
  BY <1>6 DEF IInv, DbIsApart
<1>10. DatabaseKept'
  BY DEF IInv, DatabaseKept, DbIsApart, BelowTag
<1>11. ServesOpenFile'
  <2>1. \A k \in Handles : IsOpen(k)' => fds'[k].name \in Names
    BY <1>2, <1>4, <1>6 DEF IInv, ServesOpenFile, IsOpen
  <2>2. ASSUME NEW j \in Threads
        PROVE  IF Active(j)' THEN /\ thread'[j].h \in Handles /\ fds'[thread'[j].h].name \in Names
                                  /\ thread'[j].op \in {"read", "write"}
                                  /\ IF thread'[j].pc = "dump"
                                     THEN thread'[j].op = "read" /\ IsTagFile(thread[j].h)'
                                     ELSE ~IsTagFile(thread[j].h)'
               ELSE thread'[j].op = "none"
    <3>1. CASE j = i
      BY <1>2, <1>3, <1>6, <3>1 DEF Active, IsTagFile
    <3>2. CASE j # i
      BY <1>3, <1>6, <3>2 DEF IInv, ServesOpenFile, Active, IsTagFile
    <3> QED BY <3>1, <3>2
  <2> QED BY <2>1, <2>2 DEF ServesOpenFile
<1>12. AloneIsApart'
  <2> SUFFICES ASSUME NEW j \in Threads, Active(j)', thread'[j].alone
               PROVE  /\ Serves(thread[j].h)' = {j}
                      /\ thread'[j].pc = "go" => fds'[thread'[j].h].pos = thread'[j].off
    BY DEF AloneIsApart
  <2>1. thread[j].alone /\ Active(j) /\ thread'[j].h = thread[j].h
    BY <1>3 DEF Active
  <2>2. Serves(thread[j].h) = {j} /\ (thread[j].pc = "go" => fds[thread[j].h].pos = thread[j].off)
    BY <2>1 DEF IInv, AloneIsApart
  <2>3. r.pc # "idle"
    OBVIOUS
  <2>4. \A k \in Threads : /\ (thread'[k].pc # "idle") <=> (thread[k].pc # "idle")
                           /\ thread'[k].h = thread[k].h
    BY <1>3, <1>7, <2>3
  <2>5. Serves(thread[j].h)' = {j}
    BY <2>1, <2>2, <2>4 DEF Serves
  <2>6. CASE j = i
    BY <1>1, <1>2, <1>3, <2>5, <2>6 DEF Active
  <2>7. CASE j # i
    <3>1. thread[j].h # h
      BY <1>7, <2>2, <2>7 DEF Serves
    <3>2. thread[j].h \in Handles
      BY <2>1 DEF IInv, ServesOpenFile
    <3> QED BY <1>3, <1>4, <2>2, <2>5, <2>7, <3>1, <3>2
  <2> QED BY <2>6, <2>7
<1> QED BY <1>8, <1>9, <1>10, <1>11, <1>12 DEF IInv

LEMMA AnsweredIInv ==
  ASSUME IInv, NEW i \in Threads, Answered(i)
  PROVE  IInv'
<1>1. /\ \A j \in Threads : thread'[j] = IF j = i THEN Idle ELSE thread[j]
      /\ DOMAIN thread' = Threads
      /\ thread[i].pc = "replied"
      /\ UNCHANGED <<dir, inode, fds, front, dbLinked, renamed>>
  BY DEF Answered, IInv, Shaped, real, kept
<1>2. /\ DOMAIN Idle = ThreadFields /\ Idle.pc = "idle" /\ Idle.op = "none"
  BY DEF Idle, ThreadFields
<1>3. Shaped' /\ DbIsApart' /\ DatabaseKept'
  BY <1>1, <1>2 DEF IInv, Shaped, DbIsApart, DatabaseKept, BelowTag
<1>4. ServesOpenFile'
  BY <1>1, <1>2 DEF IInv, ServesOpenFile, Active, IsTagFile, IsOpen
<1>5. AloneIsApart'
  <2> SUFFICES ASSUME NEW j \in Threads, Active(j)', thread'[j].alone
               PROVE  /\ Serves(thread[j].h)' = {j}
                      /\ thread'[j].pc = "go" => fds'[thread'[j].h].pos = thread'[j].off
    BY DEF AloneIsApart
  <2>1. j # i /\ thread'[j] = thread[j] /\ Active(j)
    BY <1>1, <1>2 DEF Active
  <2>2. Serves(thread[j].h) = {j} /\ (thread[j].pc = "go" => fds[thread[j].h].pos = thread[j].off)
    BY <2>1 DEF IInv, AloneIsApart
  <2>3. Serves(thread[j].h)' = {j}
    BY <1>1, <1>2, <2>1, <2>2 DEF Serves, Active
  <2> QED BY <1>1, <2>1, <2>2, <2>3
<1> QED BY <1>3, <1>4, <1>5 DEF IInv

------------------------------------------------------------------------------
(* Every action keeps the invariant.                                       *)
LEMMA AppearsIInv == ASSUME IInv, NEW n \in Names, Appears(n) PROVE IInv'
<1>1. DOMAIN [Blank EXCEPT !.data = Given] = {"data", "denied"}
  BY DEF Blank
<1> QED BY <1>1, MakesIInv DEF Appears, kept

LEMMA DisappearsIInv == ASSUME IInv, NEW n \in Names, Disappears(n) PROVE IInv'
<1>1. /\ DOMAIN dir = Names /\ dir[TagFile] = DbInode
      /\ \A m \in Names \ {TagFile} : dir[m] # DbInode
  BY DEF IInv, Shaped, DbIsApart
<1>2. /\ n # TagFile /\ dir' = [dir EXCEPT ![n] = NoInode] /\ inode' = Cleared(dir', fds)
      /\ UNCHANGED <<fds, thread, front, dbLinked, renamed>>
  BY DEF Disappears, kept
<1>3. /\ DOMAIN dir' = Names /\ dir'[TagFile] = DbInode
      /\ \A m \in Names \ {TagFile} : dir'[m] # DbInode
  BY <1>1, <1>2, DbInodeType, NamesType
<1>4. /\ DOMAIN inode' = Inodes
      /\ \A k \in Inodes : DOMAIN inode'[k] = {"data", "denied"}
      /\ inode'[DbInode] = inode[DbInode]
  BY <1>2, <1>3, ClearedShape
<1> QED BY <1>2, <1>3, <1>4, DirectoryIInv DEF BelowTag

(* What the kernel and the daemon know of names is no part of it.          *)
LEMMA LookupIInv ==
  ASSUME IInv, UNCHANGED <<dir, inode, fds, thread, front>>, BelowTag => BelowTag'
  PROVE  IInv'
<1>1. /\ DOMAIN dir' = Names /\ DOMAIN inode' = Inodes
      /\ \A k \in Inodes : DOMAIN inode'[k] = {"data", "denied"}
      /\ dir'[TagFile] = DbInode /\ \A n \in Names \ {TagFile} : dir'[n] # DbInode
      /\ inode'[DbInode].data = inode[DbInode].data
  BY DEF IInv, Shaped, DbIsApart
<1> QED BY <1>1, DirectoryIInv

LEMMA OpensIInv ==
  ASSUME IInv, NEW h \in Handles, NEW n \in Names, NEW append,
         tag_open_file(h, n, append) \/ lowlevel_open(h, n, append)
  PROVE  IInv'
<1>1. PICK file : fds' = [fds EXCEPT ![h] =
          [NoFd EXCEPT !.ino = dir[n], !.name = n, !.file = file, !.append = append]]
  BY DEF tag_open_file, lowlevel_open, path_realpath
<1> DEFINE r == [NoFd EXCEPT !.ino = dir[n], !.name = n, !.file = file, !.append = append]
<1>2. DOMAIN r = FdFields /\ r.name = n /\ r.ino = dir[n]
  BY DEF NoFd, FdFields
<1>3. ~IsOpen(h) /\ UNCHANGED <<dir, inode, thread, front, dbLinked, renamed>>
  BY DEF tag_open_file, lowlevel_open, real, kept
<1> HIDE DEF r
<1>4. fds' = [fds EXCEPT ![h] = r]
  BY <1>1 DEF r
<1> QED BY <1>2, <1>3, <1>4, OpenIInv

LEMMA RequestsIInv ==
  ASSUME IInv, NEW i \in Threads, NEW h \in Handles, NEW off, NEW len, NEW v,
         \/ tag_read(i, h, off, len)
         \/ tag_write(i, h, off, v) \/ lowlevel_write(i, h, off, v)
  PROVE  IInv'
<1>1. CASE tag_read(i, h, off, len)
  <2> DEFINE r == [Idle EXCEPT !.pc = IF IsTagFile(h) THEN "dump" ELSE "seek",
                               !.op = "read", !.h = h, !.off = off, !.len = len]
  <2>1. /\ DOMAIN r = ThreadFields /\ r.h = h /\ r.op = "read"
        /\ r.pc = IF IsTagFile(h) THEN "dump" ELSE "seek"
    BY DEF Idle, ThreadFields
  <2>2. Starts(i, r)
    BY <1>1 DEF tag_read
  <2> HIDE DEF r
  <2>3. \/ r.pc = "seek" /\ ~IsTagFile(r.h)
        \/ r.pc = "dump" /\ r.op = "read" /\ IsTagFile(r.h)
    BY <2>1
  <2> QED BY <2>1, <2>2, <2>3, StartsIInv
<1>2. CASE tag_write(i, h, off, v) \/ lowlevel_write(i, h, off, v)
  <2> DEFINE r == Write(h, off, v)
  <2>1. DOMAIN r = ThreadFields /\ r.h = h /\ r.op = "write" /\ r.pc = "seek"
    BY DEF Idle, ThreadFields, Write
  <2>2. Starts(i, r) /\ ~IsTagFile(h)
    BY <1>2 DEF tag_write, lowlevel_write
  <2> HIDE DEF r
  <2> QED BY <2>1, <2>2, StartsIInv
<1> QED BY <1>1, <1>2

LEMMA RepliedShape ==
  ASSUME NEW i, NEW got, Replies(i, got)
  PROVE  \E r : /\ DOMAIN r = ThreadFields /\ r.h = thread[i].h /\ r.pc = "replied"
                /\ r.op = "none" /\ r.got = got /\ thread' = [thread EXCEPT ![i] = r]
<1> DEFINE r == [Idle EXCEPT !.pc = "replied", !.h = thread[i].h, !.got = got]
<1>1. /\ DOMAIN r = ThreadFields /\ r.h = thread[i].h /\ r.pc = "replied"
      /\ r.op = "none" /\ r.got = got
  BY DEF Idle, ThreadFields
<1>2. thread' = [thread EXCEPT ![i] = r]
  BY DEF Replies
<1> HIDE DEF r
<1> QED BY <1>1, <1>2

(* The descriptor of a request that is served.                             *)
LEMMA ServedShape ==
  ASSUME IInv, NEW i \in Threads, Active(i)
  PROVE  /\ thread[i].h \in Handles /\ DOMAIN fds[thread[i].h] = FdFields
         /\ thread[i].pc # "dump" => fds[thread[i].h].ino # DbInode
         /\ thread[i].pc # "dump" => ~IsTagFile(thread[i].h)
         /\ thread[i].pc = "dump" => IsTagFile(thread[i].h)
         /\ DOMAIN inode = Inodes /\ \A k \in Inodes : DOMAIN inode[k] = {"data", "denied"}
         /\ DOMAIN fds = Handles /\ DOMAIN thread = Threads
         /\ DOMAIN thread[i] = ThreadFields
BY DEF IInv, Shaped, DbIsApart, ServesOpenFile, IsTagFile

LEMMA SeekIInv == ASSUME IInv, NEW i \in Threads, lseek(i) PROVE IInv'
<1>1. thread[i].pc = "seek" /\ Active(i)
  BY DEF lseek, Active
<1>2. /\ UNCHANGED <<dir, inode, front, dbLinked, renamed>>
      /\ fds' = [fds EXCEPT ![thread[i].h].pos = thread[i].off]
      /\ thread' = [thread EXCEPT ![i].pc = "go"]
  BY DEF lseek, sought, real, kept
<1> DEFINE s == [fds[thread[i].h] EXCEPT !.pos = thread[i].off]
           r == [thread[i] EXCEPT !.pc = "go"]
<1>3. fds' = [fds EXCEPT ![thread[i].h] = s] /\ thread' = [thread EXCEPT ![i] = r]
  BY <1>2
<1>4. /\ DOMAIN s = FdFields /\ s.pos = thread[i].off
      /\ s.name = fds[thread[i].h].name /\ s.ino = fds[thread[i].h].ino
  BY <1>1, ServedShape DEF FdFields
<1>5. /\ DOMAIN r = ThreadFields /\ r.pc = "go" /\ r.h = thread[i].h
      /\ r.op = thread[i].op /\ r.off = thread[i].off /\ r.alone = thread[i].alone
  BY <1>1, ServedShape DEF ThreadFields
<1>6. DOMAIN inode' = Inodes /\ \A k \in Inodes : DOMAIN inode'[k] = {"data", "denied"}
  BY <1>1, <1>2, ServedShape
<1> HIDE DEF s, r
<1>7. r.off = s.pos
  BY <1>4, <1>5
<1> QED BY <1>1, <1>2, <1>3, <1>4, <1>5, <1>6, <1>7, ServedIInv

(* A request is answered, at most its descriptor moves, and .tags is kept. *)
LEMMA RepliesIInv ==
  ASSUME IInv, NEW i \in Threads, Active(i), NEW got, Replies(i, got), NEW p,
         fds' = fds \/ fds' = [fds EXCEPT ![thread[i].h].pos = p],
         UNCHANGED <<dir, front, dbLinked, renamed>>,
         DOMAIN inode' = Inodes, \A k \in Inodes : DOMAIN inode'[k] = {"data", "denied"},
         inode'[DbInode].data = inode[DbInode].data
  PROVE  IInv'
<1>1. PICK r : /\ DOMAIN r = ThreadFields /\ r.h = thread[i].h /\ r.pc = "replied"
               /\ r.op = "none" /\ thread' = [thread EXCEPT ![i] = r]
  BY RepliedShape
<1> DEFINE s == [fds[thread[i].h] EXCEPT !.pos = p]
<1>2. /\ DOMAIN s = FdFields /\ s.pos = p
      /\ s.name = fds[thread[i].h].name /\ s.ino = fds[thread[i].h].ino
  BY ServedShape DEF FdFields
<1>3. fds' = fds \/ fds' = [fds EXCEPT ![thread[i].h] = s]
  OBVIOUS
<1> HIDE DEF s
<1> QED BY <1>1, <1>2, <1>3, ServedIInv

LEMMA ReadIInv ==
  ASSUME IInv, NEW i \in Threads, read_tag_file(i) \/ fd_read(i) \/ fd_write_fails(i)
  PROVE  IInv'
<1>1. Active(i)
  BY DEF read_tag_file, fd_read, fd_write_fails, At, Active
<1>2. UNCHANGED <<dir, inode, front, dbLinked, renamed>>
  BY DEF read_tag_file, fd_read, fd_write_fails, real, kept
<1>3. \E got : Replies(i, got)
  BY DEF read_tag_file, fd_read, fd_write_fails
<1>4. fds' = fds \/ \E p : fds' = [fds EXCEPT ![thread[i].h].pos = p]
  BY DEF read_tag_file, fd_read, fd_write_fails
<1>5. DOMAIN inode' = Inodes /\ \A k \in Inodes : DOMAIN inode'[k] = {"data", "denied"}
  BY <1>1, <1>2, ServedShape
<1> QED BY <1>1, <1>2, <1>3, <1>4, <1>5, RepliesIInv

LEMMA WriteIInv == ASSUME IInv, NEW i \in Threads, fd_write(i) PROVE IInv'
<1>1. Active(i) /\ thread[i].pc = "go"
  BY DEF fd_write, At, Active
<1>2. PICK at : /\ inode' = [inode EXCEPT ![fds[thread[i].h].ino].data = Put(@, at, thread[i].value)]
                /\ fds' = [fds EXCEPT ![thread[i].h].pos = at + 1]
                /\ Replies(i, <<>>) /\ UNCHANGED <<dir, front, dbLinked, renamed>>
  BY DEF fd_write, kept
<1>3. /\ DOMAIN inode' = Inodes
      /\ \A k \in Inodes : DOMAIN inode'[k] = {"data", "denied"}
      /\ inode'[DbInode].data = inode[DbInode].data
  BY <1>1, <1>2, ServedShape, DbInodeType
<1> QED BY <1>1, <1>2, <1>3, RepliesIInv

LEMMA ByPathIInv ==
  ASSUME IInv, NEW n \in Names, NEW len, NEW atRoot, NEW denied,
         \/ tag_truncate(n, len, atRoot)
         \/ tag_chmod(n, denied) \/ lowlevel_setattr(n, denied)
  PROVE  IInv'
<1>1. UNCHANGED <<dir, fds, thread, front, dbLinked, renamed>>
  BY DEF tag_truncate, tag_chmod, lowlevel_setattr, kept
<1>2. CASE tag_truncate(n, len, atRoot)
  <2>1. dir[n] = DbInode => HighLevel /\ BelowTag
    BY <1>2 DEF tag_truncate, Truncatable, IInv, DbIsApart
  <2>2. inode' = [inode EXCEPT ![dir[n]].data = Resized(inode[dir[n]].data, len)]
    BY <1>2 DEF tag_truncate, path_realpath
  <2> QED BY <1>1, <2>1, <2>2, InodeIInv
<1>3. CASE tag_chmod(n, denied)
  BY <1>1, <1>3, InodeIInv DEF tag_chmod, path_realpath
<1>4. CASE lowlevel_setattr(n, denied)
  <2>1. inode' = inode \/ inode' = [inode EXCEPT ![dir[n]].denied = denied]
    BY <1>4 DEF lowlevel_setattr, path_realpath
  <2> QED BY <1>1, <2>1, InodeIInv, LookupIInv DEF BelowTag
<1> QED BY <1>2, <1>3, <1>4

LEMMA MknodIInv ==
  ASSUME IInv, NEW n \in Names, tag_mknod(n) \/ sqlite_mknod(n) \/ lowlevel_mknod(n)
  PROVE  IInv'
<1>1. Makes(n) /\ UNCHANGED <<fds, thread, front, dbLinked, renamed>>
  BY DEF tag_mknod, sqlite_mknod, lowlevel_mknod, kept
<1>2. DOMAIN Blank = {"data", "denied"}
  BY DEF Blank
<1> QED BY <1>1, <1>2, MakesIInv DEF Makes, path_realpath

LEMMA NextIInv == IInv /\ [Next]_vars => IInv'
<1> SUFFICES ASSUME IInv, [Next]_vars
             PROVE  IInv'
  OBVIOUS
<1>1. CASE \E n \in Names : Appears(n) \/ Disappears(n)
  BY <1>1, AppearsIInv, DisappearsIInv
<1>2. CASE \E n \in Names : Forgets(n) \/ tag_lookup(n)
  BY <1>2, LookupIInv DEF Forgets, tag_lookup, real, kept, BelowTag
<1>3. CASE tag_link_database \/ \E n, m \in Names : tag_rename(n, m)
  BY <1>3, LookupIInv DEF tag_link_database, tag_rename, BelowTag, real
<1>4. CASE \E h \in Handles, n \in Names, append \in BOOLEAN :
              tag_open_file(h, n, append) \/ lowlevel_open(h, n, append)
  BY <1>4, OpensIInv
<1>5. CASE \E h \in Handles : fd_close(h) \/ lowlevel_release(h)
  BY <1>5, ReleaseIInv DEF fd_close, lowlevel_release
<1>6. CASE \E i \in Threads, h \in Handles, off \in Offsets :
              \/ \E len \in 1..MaxLen : tag_read(i, h, off, len)
              \/ \E v \in Values : tag_write(i, h, off, v) \/ lowlevel_write(i, h, off, v)
  BY <1>6, RequestsIInv
<1>7. CASE \E i \in Threads : read_tag_file(i) \/ fd_read(i) \/ fd_write_fails(i)
  BY <1>7, ReadIInv
<1>8. CASE \E i \in Threads : lseek(i) \/ fd_write(i) \/ Answered(i)
  BY <1>8, SeekIInv, WriteIInv, AnsweredIInv
<1>9. CASE \/ \E n \in Names, len \in 0..MaxLen, atRoot \in BOOLEAN : tag_truncate(n, len, atRoot)
           \/ \E n \in Names, denied \in BOOLEAN : tag_chmod(n, denied) \/ lowlevel_setattr(n, denied)
  BY <1>9, ByPathIInv
<1>10. CASE \E n \in Names : tag_mknod(n) \/ sqlite_mknod(n) \/ lowlevel_mknod(n)
  BY <1>10, MknodIInv
<1>11. CASE UNCHANGED vars
  BY <1>11, LookupIInv DEF vars, BelowTag
<1> QED BY <1>1, <1>2, <1>3, <1>4, <1>5, <1>6, <1>7, <1>8, <1>9, <1>10, <1>11 DEF Next

LEMMA SpecIInv == Spec => []IInv
BY InitIInv, NextIInv, PTL DEF Spec

------------------------------------------------------------------------------
(* No request, and nobody in the target directory, changes the data of     *)
(* .tags as long as it has not been tagged itself and no file has been     *)
(* renamed to .tags: write refuses its descriptors, truncate its path at   *)
(* the root.                                                               *)
THEOREM DatabaseIsKept == Spec => []DatabaseKept
<1>1. IInv => DatabaseKept
  BY DEF IInv
<1> QED BY <1>1, SpecIInv, PTL

(* Who answers which request, and from where.                              *)
LEMMA RepliesBy ==
  ASSUME IInv, [Next]_vars, NEW i \in Threads, thread[i].op # "none",
         thread'[i].pc = "replied"
  PROVE  read_tag_file(i) \/ fd_read(i) \/ fd_write(i) \/ fd_write_fails(i)
<1>1. Active(i)
  BY DEF IInv, ServesOpenFile
<1>2. thread[i].pc # "replied" /\ thread[i].pc # "idle"
  BY <1>1 DEF Active
<1>3. thread' # thread
  BY <1>2
<1>4. CASE \E j \in Threads : Answered(j)
  <2>1. thread'[i] = Idle \/ thread'[i] = thread[i]
    BY <1>4 DEF IInv, Shaped, Answered
  <2> QED BY <1>2, <2>1 DEF Idle
<1>5. ASSUME NEW j \in Threads, NEW r, Starts(j, r)
      PROVE  FALSE
  <2>1. j # i /\ thread'[i] = [thread[i] EXCEPT !.alone = @ /\ i \notin Serves(r.h)]
    BY <1>2, <1>5 DEF Starts
  <2>2. thread'[i].pc = thread[i].pc
    BY <2>1, ServedShape, <1>1 DEF ThreadFields
  <2> QED BY <1>2, <2>2
<1>6. CASE \E j \in Threads : lseek(j)
  <2>1. thread'[i].pc \in {thread[i].pc, "go"}
    BY <1>1, <1>6, ServedShape DEF lseek, ThreadFields
  <2> QED BY <1>2, <2>1
<1>7. CASE \E j \in Threads : /\ read_tag_file(j) \/ fd_read(j) \/ fd_write(j) \/ fd_write_fails(j)
                              /\ j # i
  <2>1. PICK j \in Threads \ {i} : \E got : Replies(j, got)
    BY <1>7 DEF read_tag_file, fd_read, fd_write, fd_write_fails
  <2>2. thread'[i] = thread[i]
    BY <2>1 DEF Replies, IInv, Shaped
  <2> QED BY <1>2, <2>2
<1>8. CASE \E j \in Threads, h \in Handles, off \in Offsets :
              \/ \E len \in 1..MaxLen : tag_read(j, h, off, len)
              \/ \E v \in Values : tag_write(j, h, off, v) \/ lowlevel_write(j, h, off, v)
  BY <1>5, <1>8 DEF tag_read, tag_write, lowlevel_write
<1>9. CASE \E n \in Names : \/ Appears(n) \/ Disappears(n) \/ Forgets(n) \/ tag_lookup(n)
                            \/ tag_mknod(n) \/ sqlite_mknod(n) \/ lowlevel_mknod(n)
  BY <1>3, <1>9 DEF Appears, Disappears, Forgets, tag_lookup, tag_mknod, sqlite_mknod, lowlevel_mknod
<1>10. CASE \E h \in Handles : \/ fd_close(h) \/ lowlevel_release(h)
              \/ \E n \in Names, append \in BOOLEAN :
                    tag_open_file(h, n, append) \/ lowlevel_open(h, n, append)
  BY <1>3, <1>10 DEF fd_close, lowlevel_release, Releases, tag_open_file, lowlevel_open
<1>11. CASE \/ tag_link_database \/ \E n, m \in Names : tag_rename(n, m)
            \/ \E n \in Names, len \in 0..MaxLen, atRoot \in BOOLEAN : tag_truncate(n, len, atRoot)
            \/ \E n \in Names, denied \in BOOLEAN : tag_chmod(n, denied) \/ lowlevel_setattr(n, denied)
  BY <1>3, <1>11 DEF tag_link_database, tag_rename, tag_truncate, tag_chmod, lowlevel_setattr
<1> QED BY <1>3, <1>4, <1>6, <1>7, <1>8, <1>9, <1>10, <1>11 DEF Next, vars

LEMMA RepliedGot ==
  ASSUME IInv, NEW i \in Threads, NEW got, Replies(i, got)
  PROVE  thread'[i].got = got
BY DEF Replies, IInv, Shaped, Idle

(* A read of fuse/ or fuse_sqlite3/ answers what was asked for, whatever   *)
(* the requests on other descriptors do in between: alone on its           *)
(* descriptor, it reads where lseek has put it.                            *)
THEOREM ReadsWhatWasAsked == Spec => ReadsAnswer
<1>1. ASSUME IInv, [Next]_vars, HighLevel, NEW i \in Threads, ReplyTo(i, "read")
      PROVE  thread'[i].got = Asked(i)
  <2>1. /\ thread[i].op = "read" /\ thread[i].alone
        /\ read_tag_file(i) \/ fd_read(i) \/ fd_write(i) \/ fd_write_fails(i)
    BY <1>1, RepliesBy DEF ReplyTo
  <2>2. CASE read_tag_file(i)
    <3>1. thread[i].pc = "dump" /\ Active(i)
      BY <2>2 DEF read_tag_file, At, Active
    <3>2. Content(thread[i].h) = dumped
      BY <1>1, <3>1, ServedShape DEF Content
    <3>3. thread'[i].got = Slice(dumped, thread[i].off, thread[i].len)
      BY <1>1, <2>2, RepliedGot DEF read_tag_file, answered, HighLevel
    <3> QED BY <3>2, <3>3 DEF Asked
  <2>3. CASE fd_read(i)
    <3>1. thread[i].pc = "go" /\ Active(i)
      BY <2>3 DEF fd_read, At, Active
    <3>2. Content(thread[i].h) = inode[fds[thread[i].h].ino].data
      BY <1>1, <3>1, ServedShape DEF Content
    <3>3. fds[thread[i].h].pos = thread[i].off
      BY <1>1, <2>1, <3>1 DEF IInv, AloneIsApart
    <3>4. thread'[i].got = Slice(inode[fds[thread[i].h].ino].data,
                                 fds[thread[i].h].pos, thread[i].len)
      BY <1>1, <2>3, RepliedGot DEF fd_read, answered, HighLevel
    <3> QED BY <3>2, <3>3, <3>4 DEF Asked
  <2>4. CASE fd_write(i) \/ fd_write_fails(i)
    BY <2>1, <2>4 DEF fd_write, fd_write_fails, At
  <2> QED BY <2>1, <2>2, <2>3, <2>4
<1>2. IInv /\ [Next]_vars =>
        [HighLevel => \A i \in Threads : ReplyTo(i, "read") => thread'[i].got = Asked(i)]_vars
  BY <1>1
<1> QED BY <1>2, SpecIInv, PTL DEF Spec, ReadsAnswer

(* A write changes the unit it was asked to, or the end of a file opened   *)
(* to append, and nothing else, whatever the requests on other descriptors *)
(* do in between.                                                          *)
THEOREM WritesWhereAsked == Spec => WritesLand
<1> DEFINE Lands(i) ==
      LET fd == fds[thread[i].h]
          s == inode[fd.ino].data
          at == IF fd.append THEN Len(s) ELSE thread[i].off
      IN  inode' = IF at = MaxLen THEN inode
                   ELSE [inode EXCEPT ![fd.ino].data = Put(s, at, thread[i].value)]
<1>1. ASSUME IInv, [Next]_vars, NEW i \in Threads, ReplyTo(i, "write")
      PROVE  Lands(i)
  <2> DEFINE fd == fds[thread[i].h]
             s == inode[fd.ino].data
  <2>1. /\ thread[i].op = "write" /\ thread[i].alone
        /\ read_tag_file(i) \/ fd_read(i) \/ fd_write(i) \/ fd_write_fails(i)
    BY <1>1, RepliesBy DEF ReplyTo
  <2>2. CASE fd_write(i)
    <3>1. thread[i].pc = "go" /\ Active(i)
      BY <2>2 DEF fd_write, At, Active
    <3>2. fd.pos = thread[i].off
      BY <1>1, <2>1, <3>1 DEF IInv, AloneIsApart
    <3> DEFINE at == IF fd.append THEN Len(s) ELSE fd.pos
    <3>3. /\ at < MaxLen
          /\ inode' = [inode EXCEPT ![fd.ino].data = Put(s, at, thread[i].value)]
      BY <2>2 DEF fd_write
    <3>4. at # MaxLen
      BY <3>3, DataAssumption
    <3> HIDE DEF at
    <3>5. at = IF fd.append THEN Len(s) ELSE thread[i].off
      BY <3>2 DEF at
    <3> QED BY <3>3, <3>4, <3>5
  <2>3. CASE fd_write_fails(i)
    BY <2>3 DEF fd_write_fails, real
  <2>4. CASE read_tag_file(i) \/ fd_read(i)
    BY <2>1, <2>4 DEF read_tag_file, fd_read, At
  <2> QED BY <2>1, <2>2, <2>3, <2>4
<1>2. IInv /\ [Next]_vars => [\A i \in Threads : ReplyTo(i, "write") => Lands(i)]_vars
  BY <1>1
<1> QED BY <1>2, SpecIInv, PTL DEF Spec, WritesLand

------------------------------------------------------------------------------
(* Data: what a piece of code reads or writes of a file of at most MaxLen  *)
(* units, and what it leaves.                                              *)
FileText == {s \in Seq(Datum) : Len(s) <= MaxLen}

LEMMA GivenType == <<>> \in FileText /\ Dump \in FileText /\ Given \in FileText
<1>1. Dump \in Seq(Values) /\ Given \in Seq(Values)
      /\ Len(Dump) <= MaxLen /\ Len(Given) <= MaxLen /\ MaxLen \in Nat
  BY DataAssumption
<1>2. Seq(Values) \subseteq Seq(Datum)
  BY DEF Datum
<1>3. <<>> \in Seq(Datum) /\ Len(<<>>) = 0
  OBVIOUS
<1> QED BY <1>1, <1>2, <1>3 DEF FileText

(* read(2) never reads past the end, so it ends there at the latest.       *)
LEMMA SliceType ==
  ASSUME NEW s \in Seq(Datum), NEW off \in Nat, NEW len \in Nat
  PROVE  /\ Slice(s, off, len) \in Seq(Datum)
         /\ \A m \in Nat : off <= m /\ Len(s) <= m => off + Len(Slice(s, off, len)) <= m
<1> DEFINE a == off + 1
           b == AtMost(off + len, Len(s))
<1>1. a \in Nat /\ b \in Nat /\ Len(s) \in Nat /\ a > 0 /\ b <= Len(s)
  BY DEF AtMost
<1>2. Slice(s, off, len) = SubSeq(s, a, b)
  BY DEF Slice
<1>3. \A k \in a..b : k \in 1..Len(s)
  BY <1>1
<1> HIDE DEF b
<1>4. SubSeq(s, a, b) \in Seq(Datum)
  BY <1>1, <1>3
<1>5. Len(SubSeq(s, a, b)) = IF a <= b THEN b - a + 1 ELSE 0
  BY <1>1
<1>6. ASSUME NEW m \in Nat, off <= m, Len(s) <= m
      PROVE  off + (IF a <= b THEN b - a + 1 ELSE 0) <= m
  BY <1>1, <1>6
<1> QED BY <1>2, <1>4, <1>5, <1>6

LEMMA PaddedType ==
  ASSUME NEW s \in Seq(Datum), NEW n \in Nat
  PROVE  /\ Padded(s, n) \in Seq(Datum)
         /\ Len(Padded(s, n)) = IF n > Len(s) THEN n ELSE Len(s)
<1> DEFINE k == IF n > Len(s) THEN n - Len(s) ELSE 0
           z == Zeros(k)
<1>1. k \in Nat /\ Len(s) \in Nat
  OBVIOUS
<1>2. z \in Seq(Datum) /\ Len(z) = k
  <2> HIDE DEF k
  <2>1. z = [j \in 1..k |-> 0] /\ 0 \in Datum
    BY DEF Zeros, Datum
  <2>2. z \in [1..k -> Datum]
    BY <2>1
  <2> QED BY <1>1, <2>1, <2>2
<1>3. Padded(s, n) = s \o z
  BY DEF Padded
<1> HIDE DEF z
<1>4. s \o z \in Seq(Datum) /\ Len(s \o z) = Len(s) + Len(z)
  BY <1>2
<1> QED BY <1>1, <1>2, <1>3, <1>4

(* write(2) of a unit: the file ends there at least.                       *)
LEMMA PutType ==
  ASSUME NEW s \in FileText, NEW at \in Nat, at < MaxLen, NEW v \in Datum
  PROVE  Put(s, at, v) \in FileText
<1> DEFINE p == Padded(s, at + 1)
<1>1. /\ p \in Seq(Datum) /\ Len(p) = IF at + 1 > Len(s) THEN at + 1 ELSE Len(s)
      /\ Len(s) \in Nat /\ Len(s) <= MaxLen /\ MaxLen \in Nat
  BY PaddedType, DataAssumption DEF FileText
<1>2. Put(s, at, v) = [p EXCEPT ![at + 1] = v]
  BY DEF Put
<1> HIDE DEF p
<1>3. [p EXCEPT ![at + 1] = v] \in Seq(Datum) /\ Len([p EXCEPT ![at + 1] = v]) = Len(p)
  BY <1>1
<1>4. Len(p) <= MaxLen
  BY <1>1
<1> QED BY <1>2, <1>3, <1>4 DEF FileText

LEMMA ResizedType ==
  ASSUME NEW s \in FileText, NEW len \in 0..MaxLen
  PROVE  Resized(s, len) \in FileText
<1> DEFINE p == Padded(s, len)
<1>1. /\ p \in Seq(Datum) /\ Len(p) = IF len > Len(s) THEN len ELSE Len(s)
      /\ Len(s) \in Nat /\ MaxLen \in Nat
  BY PaddedType, DataAssumption DEF FileText
<1>2. Resized(s, len) = SubSeq(p, 1, len)
  BY DEF Resized
<1> HIDE DEF p
<1>3. len <= Len(p) /\ len \in Nat
  BY <1>1
<1>4. SubSeq(p, 1, len) \in Seq(Datum) /\ Len(SubSeq(p, 1, len)) = len
  BY <1>1, <1>3
<1> QED BY <1>1, <1>2, <1>4 DEF FileText

LEMMA AnsweredType ==
  ASSUME NEW s \in Seq(Datum), NEW off \in Nat, NEW len \in Nat, NEW asked \in Nat
  PROVE  answered(s, off, len, asked) \in Seq(Datum)
<1>1. Slice(s, off, len) \in Seq(Datum)
  BY SliceType
<1> DEFINE p == Padded(Slice(s, off, len), len)
<1>2. p \in Seq(Datum)
  BY <1>1, PaddedType
<1> HIDE DEF p
<1>3. SubSeq(p, asked + 1, Len(p)) \in Seq(Datum)
  <2>1. \A k \in (asked + 1)..Len(p) : k \in 1..Len(p)
    OBVIOUS
  <2> QED BY <1>2, <2>1
<1> QED BY <1>1, <1>3 DEF answered, lowlevel_read, reply_buf_limited, p

------------------------------------------------------------------------------
(* The kernel knows a file from a lookup, or from the mknod that made it:  *)
(* either has made its struct file, and those stay.                        *)
KnownHaveStructs == \A n \in Names :
    dentry[n] = "file" \/ (front = "fuse" /\ dentry[n] = "missing") =>
        n \in files \/ MayLack(n)

(* What a request that is served asks for.                                 *)
AsksWithinBounds == \A i \in Threads : Active(i) =>
    /\ thread[i].off \in Offsets /\ thread[i].len \in 0..MaxLen
    /\ thread[i].op = "write" => thread[i].value \in Values

TInv == IInv /\ TypeOK /\ KnownHaveStructs /\ AsksWithinBounds

(* The parts of it, by what they are about.                                *)
DirTypes == /\ front \in Fronts /\ dir \in [Names -> Inodes \cup {NoInode}]
            /\ files \subseteq Names
            /\ dentry \in [Names -> {"unknown", "file", "missing", "directory"}]
            /\ calls \in 0..MaxCalls /\ dbLinked \in BOOLEAN /\ renamed \subseteq Names
            /\ KnownHaveStructs
InodeTypes == \A k \in Inodes : inode[k].data \in FileText /\ inode[k].denied \in BOOLEAN
FdTypes == \A h \in Handles : IsOpen(h) =>
    /\ fds[h].file \in files \/ MayLack(fds[h].name)
    /\ fds[h].ino \in Inodes /\ fds[h].pos \in 0..MaxLen
ThreadTypes == /\ AsksWithinBounds
               /\ \A i \in Threads :
                    /\ thread[i].pc \in {"idle", "dump", "seek", "go", "replied"}
                    /\ thread[i].got \in Seq(Datum)

LEMMA TInvByPart == TInv <=> IInv /\ DirTypes /\ InodeTypes /\ FdTypes /\ ThreadTypes
BY DEF TInv, TypeOK, DirTypes, InodeTypes, FdTypes, ThreadTypes, FileText

LEMMA TInvByPartNext ==
  TInv' <=> IInv' /\ DirTypes' /\ InodeTypes' /\ FdTypes' /\ ThreadTypes'
BY DEF TInv, TypeOK, DirTypes, InodeTypes, FdTypes, ThreadTypes, FileText

LEMMA MaxType == MaxLen \in Nat /\ MaxCalls \in Nat
BY DataAssumption

LEMMA InitTypes == Init => TInv
<1> SUFFICES ASSUME Init PROVE TInv
  OBVIOUS
<1>1. IInv
  BY InitIInv
<1>2. DirTypes
  <2>1. dir = [n \in Names |-> IF n = TagFile THEN DbInode ELSE NoInode] /\ DbInode \in Inodes
    BY DbInodeType DEF Init
  <2>2. dir \in [Names -> Inodes \cup {NoInode}]
    BY <2>1
  <2>3. dentry = [n \in Names |-> "unknown"] /\ files = {} /\ dbLinked = FALSE /\ renamed = {}
        /\ front \in Fronts
    BY DEF Init
  <2>4. calls \in 0..MaxCalls
    BY MaxType DEF Init
  <2> QED BY <2>2, <2>3, <2>4 DEF DirTypes, KnownHaveStructs, MayLack
<1>3. InodeTypes
  <2>1. ASSUME NEW k \in Inodes
        PROVE  inode[k] = [Blank EXCEPT !.data = IF k = DbInode THEN Dump ELSE <<>>]
    BY DEF Init
  <2>2. \A k \in Inodes : inode[k].data \in {Dump, <<>>} /\ inode[k].denied = FALSE
    BY <2>1 DEF Blank
  <2> QED BY <2>2, GivenType DEF InodeTypes
<1>4. FdTypes
  BY DEF Init, FdTypes, IsOpen
<1>5. ThreadTypes
  <2>1. \A i \in Threads : thread[i] = Idle
    BY DEF Init
  <2>2. Idle.pc = "idle" /\ Idle.got = <<>> /\ <<>> \in Seq(Datum)
    BY DEF Idle
  <2> QED BY <2>1, <2>2 DEF ThreadTypes, AsksWithinBounds, Active
<1> QED BY <1>1, <1>2, <1>3, <1>4, <1>5, TInvByPart

LEMMA CalledTypes == DirTypes /\ (Called \/ calls' = calls) => calls' \in 0..MaxCalls
BY MaxType DEF DirTypes, Called

(* Inodes that lose their last name are cleared.                           *)
LEMMA ClearedTypes ==
  ASSUME InodeTypes, NEW d, NEW F, inode' = Cleared(d, F)
  PROVE  InodeTypes'
<1>1. \A k \in Inodes : inode'[k] \in {Blank, inode[k]}
  BY DEF Cleared
<1>2. Blank.data = <<>> /\ Blank.denied = FALSE
  BY DEF Blank
<1> QED BY <1>1, <1>2, GivenType DEF InodeTypes

(* Somebody makes a file.                                                  *)
LEMMA MakesTypes ==
  ASSUME TInv, NEW n \in Names, HasFresh, NEW s \in FileText,
         dir' = [dir EXCEPT ![n] = Fresh],
         inode' = [inode EXCEPT ![Fresh] = [Blank EXCEPT !.data = s]]
  PROVE  dir' \in [Names -> Inodes \cup {NoInode}] /\ InodeTypes'
<1>1. Fresh \in Inodes
  BY FreshType
<1>2. dir' \in [Names -> Inodes \cup {NoInode}]
  BY <1>1, TInvByPart DEF DirTypes
<1>3. InodeTypes'
  <2>1. \A k \in Inodes : inode'[k] = inode[k] \/ inode'[k] = [Blank EXCEPT !.data = s]
    BY DEF TInv, IInv, Shaped
  <2>2. [Blank EXCEPT !.data = s].data = s /\ [Blank EXCEPT !.data = s].denied = FALSE
    BY DEF Blank
  <2> QED BY <2>1, <2>2, TInvByPart DEF InodeTypes
<1> QED BY <1>2, <1>3

(* The table of names only grows: what is open stays known.                *)
LEMMA FdsStay ==
  TInv /\ UNCHANGED <<fds, front>> /\ files \subseteq files' /\ renamed \subseteq renamed' => FdTypes'
BY TInvByPart DEF FdTypes, IsOpen, MayLack

LEMMA ThreadsStay == TInv /\ thread' = thread => ThreadTypes'
BY TInvByPart DEF ThreadTypes, AsksWithinBounds, Active

LEMMA InodesStay == TInv /\ inode' = inode => InodeTypes'
BY TInvByPart DEF InodeTypes

LEMMA DirStays ==
  ASSUME TInv, UNCHANGED <<front, dir, files, dentry, dbLinked, renamed>>, Called \/ calls' = calls
  PROVE  DirTypes'
BY CalledTypes, TInvByPart DEF DirTypes, KnownHaveStructs, MayLack

(* The actions.                                                            *)
LEMMA AppearsTypes == ASSUME TInv, NEW n \in Names, Appears(n) PROVE TInv'
<1>1. IInv'
  BY AppearsIInv DEF TInv
<1>2. dir' \in [Names -> Inodes \cup {NoInode}] /\ InodeTypes'
  BY MakesTypes, GivenType DEF Appears
<1>3. DirTypes'
  BY <1>2, CalledTypes, TInvByPart DEF Appears, DirTypes, KnownHaveStructs, MayLack, kept
<1>4. FdTypes' /\ ThreadTypes'
  BY FdsStay, ThreadsStay DEF Appears, kept
<1> QED BY <1>1, <1>2, <1>3, <1>4, TInvByPartNext

LEMMA DisappearsTypes == ASSUME TInv, NEW n \in Names, Disappears(n) PROVE TInv'
<1>1. IInv'
  BY DisappearsIInv DEF TInv
<1>2. InodeTypes'
  BY ClearedTypes, TInvByPart DEF Disappears
<1>3. dir' \in [Names -> Inodes \cup {NoInode}]
  BY TInvByPart DEF Disappears, DirTypes
<1>4. DirTypes'
  BY <1>3, CalledTypes, TInvByPart DEF Disappears, DirTypes, KnownHaveStructs, MayLack, kept
<1>5. FdTypes' /\ ThreadTypes'
  BY FdsStay, ThreadsStay DEF Disappears, kept
<1> QED BY <1>1, <1>2, <1>4, <1>5, TInvByPartNext

(* A lookup that finds a file has made its struct file.                    *)
LEMMA LookupTypes ==
  ASSUME TInv, NEW n \in Names, Forgets(n) \/ tag_lookup(n)
  PROVE  TInv'
<1>1. IInv'
  BY LookupIInv DEF TInv, Forgets, tag_lookup, real, kept, BelowTag
<1>2. UNCHANGED <<front, dir, inode, fds, thread, dbLinked, renamed>> /\ (Called \/ calls' = calls)
  BY DEF Forgets, tag_lookup, real, kept
<1>3. PICK answer \in {"unknown", "file", "missing", "directory"} :
         /\ dentry' = [dentry EXCEPT ![n] = answer]
         /\ files \subseteq files' /\ files' \subseteq Names
         /\ answer = "file" \/ (front = "fuse" /\ answer = "missing") => n \in files'
  <2>0. files \subseteq Names
    BY TInvByPart DEF DirTypes
  <2>1. CASE Forgets(n)
    BY <2>0, <2>1 DEF Forgets
  <2>2. CASE tag_lookup(n)
    BY <2>0, <2>2 DEF tag_lookup, getattr_intra, file_get_or_create
  <2> QED BY <2>1, <2>2
<1>4. DirTypes'
  <2>1. dentry' \in [Names -> {"unknown", "file", "missing", "directory"}]
    BY <1>3, TInvByPart DEF DirTypes
  <2>2. KnownHaveStructs'
    BY <1>2, <1>3, TInvByPart DEF DirTypes, KnownHaveStructs, MayLack
  <2> QED BY <1>2, <1>3, <2>1, <2>2, CalledTypes, TInvByPart DEF DirTypes
<1>5. FdTypes' /\ ThreadTypes' /\ InodeTypes'
  BY <1>2, <1>3, FdsStay, ThreadsStay, InodesStay
<1> QED BY <1>1, <1>4, <1>5, TInvByPartNext

LEMMA OpensTypes ==
  ASSUME TInv, NEW h \in Handles, NEW n \in Names, NEW append,
         tag_open_file(h, n, append) \/ lowlevel_open(h, n, append)
  PROVE  TInv'
<1>1. IInv'
  BY OpensIInv DEF TInv
<1>2. /\ UNCHANGED <<front, dir, inode, thread, dentry, dbLinked, renamed>> /\ Called
      /\ dentry[n] = "file" /\ dir[n] # NoInode
      /\ files \subseteq files' /\ files' \subseteq files \cup {n}
      /\ front = "lowlevel" => n \in files'
  BY DEF tag_open_file, lowlevel_open, real, kept, Reachable, Exists, path_realpath,
         file_get_or_create, HighLevel
<1>3. (n \in files \/ MayLack(n)) /\ dir[n] \in Inodes
  BY <1>2, TInvByPart DEF DirTypes, KnownHaveStructs, MayLack
<1>4. PICK f : /\ f = n \/ (MayLack(n) /\ f = None)
               /\ fds' = [fds EXCEPT ![h] =
                     [NoFd EXCEPT !.ino = dir[n], !.name = n, !.file = f, !.append = append]]
               /\ f = n => n \in files'
  <2>1. CASE tag_open_file(h, n, append)
    <3>1. file_get(n) = n \/ (MayLack(n) /\ file_get(n) = None)
      BY <1>3 DEF file_get
    <3>2. file_get(n) = n => n \in files
      BY NamesType DEF file_get
    <3> QED BY <1>2, <2>1, <3>1, <3>2 DEF tag_open_file, path_realpath
  <2>2. CASE lowlevel_open(h, n, append)
    BY <2>2 DEF lowlevel_open, path_realpath, file_get_or_create
  <2> QED BY <2>1, <2>2
<1> DEFINE r == [NoFd EXCEPT !.ino = dir[n], !.name = n, !.file = f, !.append = append]
<1>5. r.ino = dir[n] /\ r.file = f /\ r.pos = 0 /\ r.name = n
  BY DEF NoFd
<1> HIDE DEF r
<1>6. \A k \in Handles : fds'[k] = IF k = h THEN r ELSE fds[k]
  BY <1>4 DEF r, TInv, IInv, Shaped
<1>7. FdTypes'
  <2>1. ASSUME NEW k \in Handles \ {h}, IsOpen(k)'
        PROVE  /\ fds'[k].file \in files' \/ MayLack(fds[k].name)'
               /\ fds'[k].ino \in Inodes /\ fds'[k].pos \in 0..MaxLen
    BY <1>2, <1>6, <2>1, TInvByPart DEF FdTypes, IsOpen, MayLack
  <2>2. f \in files' \/ MayLack(n)'
    BY <1>2, <1>4 DEF MayLack
  <2>3. 0 \in 0..MaxLen
    BY MaxType
  <2> QED BY <1>3, <1>5, <1>6, <2>1, <2>2, <2>3 DEF FdTypes, MayLack
<1>8. DirTypes'
  <2>1. files' \subseteq Names
    BY <1>2, TInvByPart DEF DirTypes
  <2>2. KnownHaveStructs'
    BY <1>2, TInvByPart DEF DirTypes, KnownHaveStructs, MayLack
  <2> QED BY <1>2, <2>1, <2>2, CalledTypes, TInvByPart DEF DirTypes
<1>9. ThreadTypes' /\ InodeTypes'
  BY <1>2, ThreadsStay, InodesStay
<1> QED BY <1>1, <1>7, <1>8, <1>9, TInvByPartNext

LEMMA ReleaseTypes == ASSUME TInv, NEW h \in Handles, Releases(h) PROVE TInv'
<1>1. IInv'
  BY ReleaseIInv DEF TInv
<1>2. /\ fds' = [fds EXCEPT ![h] = NoFd] /\ inode' = Cleared(dir, fds')
      /\ UNCHANGED <<dir, files, dentry, thread, calls, front, dbLinked, renamed>>
  BY DEF Releases, file_close, kept
<1>3. \A k \in Handles : fds'[k] = IF k = h THEN NoFd ELSE fds[k]
  BY <1>2 DEF TInv, IInv, Shaped
<1>4. FdTypes'
  BY <1>2, <1>3, TInvByPart DEF FdTypes, IsOpen, MayLack
<1>5. DirTypes' /\ ThreadTypes'
  BY <1>2, DirStays, ThreadsStay
<1>6. InodeTypes'
  BY <1>2, ClearedTypes, TInvByPart
<1> QED BY <1>1, <1>4, <1>5, <1>6, TInvByPartNext

LEMMA StartsTypes ==
  ASSUME TInv, IInv', NEW i \in Threads, NEW r, Starts(i, r), DOMAIN r = ThreadFields,
         r.pc \in {"dump", "seek"}, r.off \in Offsets, r.len \in 0..MaxLen,
         r.got = <<>>, r.op = "write" => r.value \in Values
  PROVE  TInv'
<1>1. /\ UNCHANGED <<front, dir, inode, files, dentry, fds, dbLinked, renamed>> /\ Called
      /\ thread' = [j \in Threads |->
            IF j = i THEN [r EXCEPT !.alone = (Serves(r.h) = {})]
            ELSE [thread[j] EXCEPT !.alone = @ /\ j \notin Serves(r.h)]]
  BY DEF Starts, real, kept
<1>2. ASSUME NEW j \in Threads \ {i}
      PROVE  /\ thread'[j].pc = thread[j].pc /\ thread'[j].op = thread[j].op
             /\ thread'[j].off = thread[j].off /\ thread'[j].len = thread[j].len
             /\ thread'[j].value = thread[j].value /\ thread'[j].got = thread[j].got
  <2>1. thread'[j] = [thread[j] EXCEPT !.alone = @ /\ j \notin Serves(r.h)]
    BY <1>1
  <2>2. DOMAIN thread[j] = ThreadFields
    BY DEF TInv, IInv, Shaped
  <2> QED BY <2>1, <2>2 DEF ThreadFields
<1>3. /\ thread'[i].pc = r.pc /\ thread'[i].op = r.op /\ thread'[i].off = r.off
      /\ thread'[i].len = r.len /\ thread'[i].value = r.value /\ thread'[i].got = r.got
  <2>1. thread'[i] = [r EXCEPT !.alone = (Serves(r.h) = {})]
    BY <1>1
  <2> QED BY <2>1 DEF ThreadFields
<1>4. <<>> \in Seq(Datum)
  OBVIOUS
<1>5. ThreadTypes'
  <2>1. \A j \in Threads : thread'[j].pc \in {"idle", "dump", "seek", "go", "replied"}
    BY <1>2, <1>3, TInvByPart DEF ThreadTypes
  <2>2. \A j \in Threads : thread'[j].got \in Seq(Datum)
    BY <1>2, <1>3, <1>4, TInvByPart DEF ThreadTypes
  <2>3. AsksWithinBounds'
    BY <1>2, <1>3, TInvByPart DEF ThreadTypes, AsksWithinBounds, Active
  <2> QED BY <2>1, <2>2, <2>3 DEF ThreadTypes
<1>6. DirTypes' /\ FdTypes' /\ InodeTypes'
  BY <1>1, DirStays, FdsStay, InodesStay
<1> QED BY <1>5, <1>6, TInvByPartNext

LEMMA RequestsTypes ==
  ASSUME TInv, NEW i \in Threads, NEW h \in Handles, NEW off \in Offsets,
         \/ \E len \in 1..MaxLen : tag_read(i, h, off, len)
         \/ \E v \in Values : tag_write(i, h, off, v) \/ lowlevel_write(i, h, off, v)
  PROVE  TInv'
<1>1. IInv'
  BY RequestsIInv DEF TInv
<1>2. ASSUME NEW len \in 1..MaxLen, tag_read(i, h, off, len) PROVE TInv'
  <2> DEFINE r == [Idle EXCEPT !.pc = IF IsTagFile(h) THEN "dump" ELSE "seek",
                               !.op = "read", !.h = h, !.off = off, !.len = len]
  <2>1. /\ DOMAIN r = ThreadFields /\ r.op = "read" /\ r.off = off /\ r.len = len
        /\ r.pc \in {"dump", "seek"} /\ r.got = <<>>
    BY DEF Idle, ThreadFields
  <2>2. Starts(i, r)
    BY <1>2 DEF tag_read
  <2>3. len \in 0..MaxLen
    BY MaxType
  <2> HIDE DEF r
  <2> QED BY <1>1, <2>1, <2>2, <2>3, StartsTypes
<1>3. ASSUME NEW v \in Values, tag_write(i, h, off, v) \/ lowlevel_write(i, h, off, v)
      PROVE  TInv'
  <2> DEFINE r == Write(h, off, v)
  <2>1. /\ DOMAIN r = ThreadFields /\ r.op = "write" /\ r.off = off /\ r.len = 0
        /\ r.pc = "seek" /\ r.got = <<>> /\ r.value = v
    BY DEF Idle, ThreadFields, Write
  <2>2. Starts(i, r)
    BY <1>3 DEF tag_write, lowlevel_write
  <2>3. 0 \in 0..MaxLen
    BY MaxType
  <2> HIDE DEF r
  <2> QED BY <1>1, <2>1, <2>2, <2>3, StartsTypes
<1> QED BY <1>2, <1>3

(* A request that is served is on an open file.                            *)
LEMMA ServedTypes ==
  ASSUME TInv, NEW i \in Threads, Active(i)
  PROVE  /\ thread[i].h \in Handles /\ IsOpen(thread[i].h)
         /\ fds[thread[i].h].ino \in Inodes
         /\ fds[thread[i].h].pos \in 0..MaxLen /\ fds[thread[i].h].pos \in Nat
         /\ thread[i].off \in 0..MaxLen /\ thread[i].off \in Nat /\ thread[i].len \in Nat
         /\ thread[i].op = "write" => thread[i].value \in Datum
         /\ inode[fds[thread[i].h].ino].data \in FileText
<1>1. thread[i].h \in Handles /\ fds[thread[i].h].name \in Names
  BY DEF TInv, IInv, ServesOpenFile
<1>2. IsOpen(thread[i].h)
  BY <1>1, NamesType DEF IsOpen, NoFd
<1>3. /\ fds[thread[i].h].ino \in Inodes
      /\ fds[thread[i].h].pos \in 0..MaxLen
  BY <1>1, <1>2, TInvByPart DEF FdTypes
<1>4. /\ thread[i].off \in 0..(MaxLen - 1) /\ thread[i].len \in 0..MaxLen
      /\ thread[i].op = "write" => thread[i].value \in Values
  BY TInvByPart DEF ThreadTypes, AsksWithinBounds, Offsets
<1>5. inode[fds[thread[i].h].ino].data \in FileText
  BY <1>3, TInvByPart DEF InodeTypes
<1> QED BY <1>1, <1>2, <1>3, <1>4, <1>5, MaxType DEF Datum

(* A descriptor is moved within the bound.                                 *)
LEMMA MovedTypes ==
  ASSUME TInv, NEW h \in Handles, IsOpen(h), NEW p \in 0..MaxLen, UNCHANGED <<files, front, renamed>>,
         fds' = fds \/ fds' = [fds EXCEPT ![h].pos = p]
  PROVE  FdTypes'
<1>1. DOMAIN fds = Handles /\ \A k \in Handles : DOMAIN fds[k] = FdFields
  BY DEF TInv, IInv, Shaped
<1>2. CASE fds' = fds
  BY <1>2, FdsStay
<1>3. CASE fds' = [fds EXCEPT ![h].pos = p]
  <2> SUFFICES ASSUME NEW k \in Handles, IsOpen(k)'
               PROVE  /\ fds'[k].file \in files \/ MayLack(fds'[k].name)
                      /\ fds'[k].ino \in Inodes /\ fds'[k].pos \in 0..MaxLen
    BY DEF FdTypes, MayLack
  <2>1. CASE k # h
    <3>1. fds'[k] = fds[k]
      BY <1>1, <1>3, <2>1
    <3> QED BY <3>1, TInvByPart DEF FdTypes, IsOpen
  <2>2. CASE k = h
    <3>1. fds'[h] = [fds[h] EXCEPT !.pos = p]
      BY <1>1, <1>3
    <3>2. /\ fds'[h].file = fds[h].file /\ fds'[h].ino = fds[h].ino /\ fds'[h].pos = p
          /\ fds'[h].name = fds[h].name
      BY <1>1, <3>1 DEF FdFields
    <3> QED BY <2>2, <3>2, TInvByPart DEF FdTypes
  <2> QED BY <2>1, <2>2
<1> QED BY <1>2, <1>3

(* A request that is answered asks for nothing any more.                   *)
LEMMA RepliesTypes ==
  ASSUME TInv, NEW i \in Threads, NEW got \in Seq(Datum), Replies(i, got)
  PROVE  ThreadTypes'
<1> DEFINE r == [Idle EXCEPT !.pc = "replied", !.h = thread[i].h, !.got = got]
<1>1. r.pc = "replied" /\ r.got = got
  BY DEF Idle
<1>2. thread' = [thread EXCEPT ![i] = r]
  BY DEF Replies
<1> HIDE DEF r
<1>3. \A j \in Threads : thread'[j] = IF j = i THEN r ELSE thread[j]
  BY <1>2 DEF TInv, IInv, Shaped
<1> QED BY <1>1, <1>3, TInvByPart DEF ThreadTypes, AsksWithinBounds, Active

LEMMA SeekTypes == ASSUME TInv, NEW i \in Threads, lseek(i) PROVE TInv'
<1>1. Active(i) /\ IInv'
  BY SeekIInv DEF TInv, lseek, Active
<1>2. /\ UNCHANGED <<dir, inode, files, dentry, calls, front, dbLinked, renamed>>
      /\ fds' = [fds EXCEPT ![thread[i].h].pos = thread[i].off]
      /\ thread' = [thread EXCEPT ![i].pc = "go"]
  BY DEF lseek, sought, real, kept
<1>3. FdTypes'
  BY <1>1, <1>2, ServedTypes, MovedTypes
<1>4. ThreadTypes'
  <2>1. DOMAIN thread = Threads /\ DOMAIN thread[i] = ThreadFields
    BY DEF TInv, IInv, Shaped
  <2>2. /\ \A j \in Threads \ {i} : thread'[j] = thread[j]
        /\ thread'[i] = [thread[i] EXCEPT !.pc = "go"]
    BY <1>2, <2>1
  <2>3. /\ thread'[i].pc = "go" /\ thread'[i].off = thread[i].off
        /\ thread'[i].len = thread[i].len /\ thread'[i].op = thread[i].op
        /\ thread'[i].value = thread[i].value /\ thread'[i].got = thread[i].got
    BY <2>1, <2>2 DEF ThreadFields
  <2> QED BY <1>1, <2>2, <2>3, TInvByPart DEF ThreadTypes, AsksWithinBounds, Active
<1> QED BY <1>1, <1>2, <1>3, <1>4, DirStays, InodesStay, TInvByPartNext

LEMMA ReadTypes ==
  ASSUME TInv, NEW i \in Threads, read_tag_file(i) \/ fd_read(i) \/ fd_write_fails(i)
  PROVE  TInv'
<1>1. Active(i) /\ IInv'
  BY ReadIInv DEF TInv, read_tag_file, fd_read, fd_write_fails, At, Active
<1>2. UNCHANGED <<dir, inode, files, dentry, calls, front, dbLinked, renamed>>
  BY DEF read_tag_file, fd_read, fd_write_fails, real, kept
<1> DEFINE fd == fds[thread[i].h]
           s == inode[fd.ino].data
<1>3. s \in Seq(Datum) /\ Len(s) <= MaxLen
  BY <1>1, ServedTypes DEF FileText
<1>4. ThreadTypes'
  <2>1. CASE read_tag_file(i)
    <3>1. dumped \in Seq(Datum)
      BY GivenType DEF dumped, FileText
    <3>2. answered(dumped, thread[i].off, thread[i].len, thread[i].off) \in Seq(Datum)
      BY <1>1, <3>1, ServedTypes, AnsweredType
    <3> QED BY <2>1, <3>2, RepliesTypes DEF read_tag_file
  <2>2. CASE fd_read(i)
    <3>1. answered(s, fd.pos, thread[i].len, thread[i].off) \in Seq(Datum)
      BY <1>1, <1>3, ServedTypes, AnsweredType
    <3> QED BY <2>2, <3>1, RepliesTypes DEF fd_read
  <2>3. CASE fd_write_fails(i)
    <3>1. <<>> \in Seq(Datum)
      OBVIOUS
    <3> QED BY <2>3, <3>1, RepliesTypes DEF fd_write_fails
  <2> QED BY <2>1, <2>2, <2>3
<1>5. FdTypes'
  <2>1. CASE fds' = fds
    BY <1>2, <2>1, FdsStay
  <2>2. CASE fd_read(i)
    <3> DEFINE p == fd.pos + Len(Slice(s, fd.pos, thread[i].len))
    <3>1. fd.pos \in 0..MaxLen /\ fd.pos \in Nat /\ thread[i].len \in Nat
      BY <1>1, ServedTypes
    <3>2. p <= MaxLen /\ Slice(s, fd.pos, thread[i].len) \in Seq(Datum)
      <4>1. fd.pos <= MaxLen
        BY <3>1
      <4> HIDE DEF s, fd
      <4> QED BY <1>3, <3>1, <4>1, SliceType, MaxType
    <3>3. p \in 0..MaxLen
      BY <3>1, <3>2, MaxType
    <3>4. fds' = [fds EXCEPT ![thread[i].h].pos = p]
      BY <2>2 DEF fd_read
    <3> HIDE DEF p
    <3> QED BY <1>1, <1>2, <3>3, <3>4, ServedTypes, MovedTypes
  <2> QED BY <2>1, <2>2 DEF read_tag_file, fd_write_fails
<1> QED BY <1>1, <1>2, <1>4, <1>5, DirStays, InodesStay, TInvByPartNext

LEMMA WriteTypes == ASSUME TInv, NEW i \in Threads, fd_write(i) PROVE TInv'
<1>1. Active(i) /\ IInv' /\ thread[i].op = "write"
  BY WriteIInv DEF TInv, fd_write, At, Active
<1> DEFINE fd == fds[thread[i].h]
           s == inode[fd.ino].data
           at == IF fd.append THEN Len(s) ELSE fd.pos
<1>2. /\ UNCHANGED <<dir, files, dentry, calls, front, dbLinked, renamed>>
      /\ at < MaxLen
      /\ inode' = [inode EXCEPT ![fd.ino].data = Put(s, at, thread[i].value)]
      /\ fds' = [fds EXCEPT ![thread[i].h].pos = at + 1]
      /\ Replies(i, <<>>)
  BY DEF fd_write, kept
<1>3. s \in FileText /\ fd.ino \in Inodes /\ fd.pos \in Nat /\ thread[i].value \in Datum
  BY <1>1, ServedTypes
<1>4. at \in Nat /\ at + 1 \in 0..MaxLen
  <2>1. Len(s) \in Nat
    BY <1>3 DEF FileText
  <2>2. at \in {Len(s), fd.pos}
    OBVIOUS
  <2> HIDE DEF at, s
  <2>3. at \in Nat
    BY <1>3, <2>1, <2>2
  <2> QED BY <1>2, <2>3, MaxType
<1> HIDE DEF at
<1>5. Put(s, at, thread[i].value) \in FileText
  BY <1>2, <1>3, <1>4, PutType
<1>6. InodeTypes'
  <2>1. \A k \in Inodes : /\ inode'[k].data \in {inode[k].data, Put(s, at, thread[i].value)}
                          /\ inode'[k].denied = inode[k].denied
    BY <1>2 DEF TInv, IInv, Shaped
  <2> QED BY <1>5, <2>1, TInvByPart DEF InodeTypes
<1>7. FdTypes'
  BY <1>1, <1>2, <1>4, ServedTypes, MovedTypes
<1>8. ThreadTypes'
  <2>1. <<>> \in Seq(Datum)
    OBVIOUS
  <2> QED BY <1>2, <2>1, RepliesTypes
<1> QED BY <1>1, <1>2, <1>6, <1>7, <1>8, DirStays, TInvByPartNext

LEMMA AnsweredTypes == ASSUME TInv, NEW i \in Threads, Answered(i) PROVE TInv'
<1>1. IInv'
  BY AnsweredIInv DEF TInv
<1>2. /\ UNCHANGED <<dir, inode, files, dentry, fds, calls, front, dbLinked, renamed>>
      /\ \A j \in Threads : thread'[j] = IF j = i THEN Idle ELSE thread[j]
  BY DEF Answered, real, kept, TInv, IInv, Shaped
<1>3. Idle.pc = "idle" /\ Idle.got = <<>> /\ <<>> \in Seq(Datum)
  BY DEF Idle
<1>4. ThreadTypes'
  BY <1>2, <1>3, TInvByPart DEF ThreadTypes, AsksWithinBounds, Active
<1> QED BY <1>1, <1>2, <1>4, DirStays, FdsStay, InodesStay, TInvByPartNext

LEMMA ByPathTypes ==
  ASSUME TInv, NEW n \in Names, NEW len \in 0..MaxLen, NEW atRoot, NEW denied \in BOOLEAN,
         \/ tag_truncate(n, len, atRoot)
         \/ tag_chmod(n, denied) \/ lowlevel_setattr(n, denied)
  PROVE  TInv'
<1>1. IInv'
  BY ByPathIInv DEF TInv
<1>2. /\ UNCHANGED <<dir, dentry, fds, thread, front, dbLinked, renamed>> /\ Called
      /\ files \subseteq files' /\ files' \subseteq files \cup {n}
  BY DEF tag_truncate, tag_chmod, lowlevel_setattr, kept, file_get_or_create
<1>3. DirTypes'
  BY <1>2, CalledTypes, TInvByPart DEF DirTypes, KnownHaveStructs, MayLack
<1>4. FdTypes' /\ ThreadTypes'
  BY <1>2, FdsStay, ThreadsStay
<1>5. InodeTypes'
  <2>1. CASE inode' = inode
    BY <2>1, InodesStay
  <2>2. CASE inode' = [inode EXCEPT ![dir[n]].denied = denied]
    <3>1. \A k \in Inodes : /\ inode'[k].data = inode[k].data
                            /\ inode'[k].denied \in {inode[k].denied, denied}
      BY <2>2 DEF TInv, IInv, Shaped
    <3> QED BY <3>1, TInvByPart DEF InodeTypes
  <2>3. CASE tag_truncate(n, len, atRoot)
    <3>1. dir[n] \in Inodes
      BY <2>3, TInvByPart DEF tag_truncate, Reachable, Exists, path_realpath, DirTypes
    <3>2. inode' = [inode EXCEPT ![dir[n]].data = Resized(inode[dir[n]].data, len)]
      BY <2>3 DEF tag_truncate, path_realpath
    <3>3. Resized(inode[dir[n]].data, len) \in FileText
      BY <3>1, ResizedType, TInvByPart DEF InodeTypes
    <3>4. \A k \in Inodes :
             /\ inode'[k].data \in {inode[k].data, Resized(inode[dir[n]].data, len)}
             /\ inode'[k].denied = inode[k].denied
      BY <3>2 DEF TInv, IInv, Shaped
    <3> QED BY <3>3, <3>4, TInvByPart DEF InodeTypes
  <2> QED BY <2>1, <2>2, <2>3 DEF tag_chmod, lowlevel_setattr, path_realpath
<1> QED BY <1>1, <1>3, <1>4, <1>5, TInvByPartNext

LEMMA MknodTypes ==
  ASSUME TInv, NEW n \in Names, tag_mknod(n) \/ sqlite_mknod(n) \/ lowlevel_mknod(n)
  PROVE  TInv'
<1>1. IInv'
  BY MknodIInv DEF TInv
<1>2. /\ Makes(n) /\ UNCHANGED <<fds, thread, front, dbLinked, renamed>> /\ Called
      /\ files' = files \cup {n}
      /\ dentry' = dentry \/ dentry' = [dentry EXCEPT ![n] = "file"]
  BY DEF tag_mknod, sqlite_mknod, lowlevel_mknod, kept, file_get_or_create
<1>3. dir' \in [Names -> Inodes \cup {NoInode}] /\ InodeTypes'
  <2>1. [Blank EXCEPT !.data = <<>>] = Blank
    BY DEF Blank
  <2> QED BY <1>2, <2>1, MakesTypes, GivenType DEF Makes
<1>4. DirTypes'
  <2>1. dentry' \in [Names -> {"unknown", "file", "missing", "directory"}]
    BY <1>2, TInvByPart DEF DirTypes
  <2>2. KnownHaveStructs'
    BY <1>2, TInvByPart DEF DirTypes, KnownHaveStructs, MayLack
  <2> QED BY <1>2, <1>3, <2>1, <2>2, CalledTypes, TInvByPart DEF DirTypes
<1>5. FdTypes' /\ ThreadTypes'
  BY <1>2, FdsStay, ThreadsStay
<1> QED BY <1>1, <1>3, <1>4, <1>5, TInvByPartNext

(* A rename leaves a name known, which a lookup made known before.         *)
LEMMA RenameTypes == ASSUME TInv, NEW n \in Names, NEW m \in Names, tag_rename(n, m) PROVE TInv'
<1>1. /\ UNCHANGED <<front, dir, inode, fds, thread, dbLinked>> /\ Called
      /\ files \subseteq files' /\ files' \subseteq files \cup {n}
      /\ dentry' = [dentry EXCEPT ![m] = "file"] /\ dentry[m] \in {"file", "missing"}
      /\ renamed' = renamed \cup {m} /\ HighLevel
  BY DEF tag_rename, getattr_intra, file_get_or_create, real
<1>2. IInv'
  BY <1>1, LookupIInv DEF TInv, BelowTag
<1>3. DirTypes'
  <2>1. dentry' \in [Names -> {"unknown", "file", "missing", "directory"}]
    BY <1>1, TInvByPart DEF DirTypes
  <2>2. KnownHaveStructs'
    <3>1. front \in {"fuse", "sqlite"}
      BY <1>1, FrontsAssumption, TInvByPart DEF HighLevel, DirTypes
    <3> QED BY <1>1, <3>1, TInvByPart DEF DirTypes, KnownHaveStructs, MayLack
  <2> QED BY <1>1, <2>1, <2>2, CalledTypes, TInvByPart DEF DirTypes
<1>4. FdTypes' /\ ThreadTypes' /\ InodeTypes'
  BY <1>1, FdsStay, ThreadsStay, InodesStay
<1> QED BY <1>2, <1>3, <1>4, TInvByPartNext

LEMMA NextTypes == TInv /\ [Next]_vars => TInv'
<1> SUFFICES ASSUME TInv, [Next]_vars PROVE TInv'
  OBVIOUS
<1>1. CASE \E n \in Names : Appears(n) \/ Disappears(n)
  BY <1>1, AppearsTypes, DisappearsTypes
<1>2. CASE \E n \in Names : Forgets(n) \/ tag_lookup(n)
  BY <1>2, LookupTypes
<1>3. CASE tag_link_database
  <2>1. IInv'
    BY <1>3, LookupIInv DEF TInv, tag_link_database, BelowTag, real
  <2>2. DirTypes'
    BY <1>3, CalledTypes, TInvByPart DEF tag_link_database, real, DirTypes, KnownHaveStructs, MayLack
  <2>3. FdTypes' /\ ThreadTypes' /\ InodeTypes'
    BY <1>3, FdsStay, ThreadsStay, InodesStay DEF tag_link_database, real
  <2> QED BY <2>1, <2>2, <2>3, TInvByPartNext
<1>4. CASE \E h \in Handles, n \in Names, append \in BOOLEAN :
              tag_open_file(h, n, append) \/ lowlevel_open(h, n, append)
  BY <1>4, OpensTypes
<1>5. CASE \E h \in Handles : fd_close(h) \/ lowlevel_release(h)
  BY <1>5, ReleaseTypes DEF fd_close, lowlevel_release
<1>6. CASE \E i \in Threads, h \in Handles, off \in Offsets :
              \/ \E len \in 1..MaxLen : tag_read(i, h, off, len)
              \/ \E v \in Values : tag_write(i, h, off, v) \/ lowlevel_write(i, h, off, v)
  BY <1>6, RequestsTypes
<1>7. CASE \E i \in Threads : read_tag_file(i) \/ fd_read(i) \/ fd_write_fails(i)
  BY <1>7, ReadTypes
<1>8. CASE \E i \in Threads : lseek(i) \/ fd_write(i) \/ Answered(i)
  BY <1>8, SeekTypes, WriteTypes, AnsweredTypes
<1>9. CASE \/ \E n \in Names, len \in 0..MaxLen, atRoot \in BOOLEAN : tag_truncate(n, len, atRoot)
           \/ \E n \in Names, denied \in BOOLEAN : tag_chmod(n, denied) \/ lowlevel_setattr(n, denied)
  <2>1. 0 \in 0..MaxLen
    BY MaxType
  <2>2. ASSUME NEW n \in Names, NEW len \in 0..MaxLen, NEW atRoot \in BOOLEAN,
               tag_truncate(n, len, atRoot)
        PROVE  TInv'
    BY <2>2, ByPathTypes
  <2>3. ASSUME NEW n \in Names, NEW denied \in BOOLEAN,
               tag_chmod(n, denied) \/ lowlevel_setattr(n, denied)
        PROVE  TInv'
    BY <2>1, <2>3, ByPathTypes
  <2> QED BY <1>9, <2>2, <2>3
<1>10. CASE \E n \in Names : tag_mknod(n) \/ sqlite_mknod(n) \/ lowlevel_mknod(n)
  BY <1>10, MknodTypes
<1>12. CASE \E n, m \in Names : tag_rename(n, m)
  BY <1>12, RenameTypes
<1>11. CASE UNCHANGED vars
  <2>1. IInv'
    BY <1>11, LookupIInv DEF vars, TInv, BelowTag
  <2> QED BY <1>11, <2>1, DirStays, FdsStay, ThreadsStay, InodesStay, TInvByPartNext DEF vars
<1> QED BY <1>1, <1>2, <1>3, <1>4, <1>5, <1>6, <1>7, <1>8, <1>9, <1>10, <1>11, <1>12 DEF Next

(* An open file has its struct file, which fuse/ dereferences              *)
(* (file_descriptor.c:36,59): the lookup or the mknod that made the name   *)
(* known came first, and nothing takes a struct file away.  A file of      *)
(* fuse_sqlite3/ that was renamed may have none, and nobody asks for it.   *)
(* No request moves or writes past the end.                                *)
THEOREM OpenFilesHaveStructs == Spec => []TypeOK
<1>1. TInv => TypeOK
  BY DEF TInv
<1> QED BY <1>1, InitTypes, NextTypes, PTL DEF Spec
==============================================================================
